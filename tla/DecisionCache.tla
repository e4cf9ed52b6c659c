---------------------------- MODULE DecisionCache ----------------------------
(***************************************************************************)
(* One ClassificationCache object over time: any sequence of get and put   *)
(* calls, each of them atomic (the event loop runs a whole call between    *)
(* two awaits), while the monotonic clock advances between calls.          *)
(*                                                                         *)
(* `stored' and `since' are history: they remember what was put and which  *)
(* keys were used, never influence a step, and are what the properties     *)
(* compare the OrderedDict with.                                           *)
(***************************************************************************)
EXTENDS LruTtlCache, FiniteSets

CONSTANTS
  Keys,       \* cache keys: the digests of _classification_cache_key
  Values,     \* cached decisions
  Nothing,    \* Python's None: no entry, no answer
  Instants    \* the times the clock may show; the bound on time

ASSUME DecisionCacheAssumption ==
  /\ IsFiniteSet(Keys)
  /\ Instants \subseteq Int
  /\ Nothing \notin Values
  /\ Nothing \notin [value : Values, expires : Int]

VARIABLES
  clock,      \* the injected clock
  entries,    \* self._entries, least recently used first
  reply,      \* the return value of the last call
  stored,     \* history: the last put of every key
  since       \* history: the other keys used since a key was last used

vars == <<clock, entries, reply, stored, since>>

Init ==
  /\ clock \in Instants
  /\ entries = <<>>
  /\ reply = Nothing
  /\ stored = [k \in Keys |-> Nothing]
  /\ since = [k \in Keys |-> {}]

Used(k) == [j \in Keys |-> IF j = k THEN {} ELSE since[j] \cup {k}]

Get(k) ==
  /\ entries' = AfterGet(entries, k, clock)
  /\ IF Hits(entries, k, clock)
       THEN reply' = EntryOf(entries, k).value /\ since' = Used(k)
       ELSE reply' = Nothing /\ since' = since
  /\ UNCHANGED <<clock, stored>>

Put(k, v) ==
  /\ entries' = AfterPut(entries, k, v, clock)
  /\ reply' = Nothing
  /\ stored' = [stored EXCEPT ![k] = [value |-> v, expires |-> clock + TtlSeconds]]
  /\ since' = Used(k)
  /\ UNCHANGED clock

Advance ==
  /\ \E t \in Instants : t > clock /\ clock' = t
  /\ UNCHANGED <<entries, reply, stored, since>>

Next ==
  \/ \E k \in Keys : Get(k) \/ \E v \in Values : Put(k, v)
  \/ Advance

Spec == Init /\ [][Next]_vars

-----------------------------------------------------------------------------
(* Type correctness of the cache and of its history. *)
TypeOK ==
  /\ clock \in Instants
  /\ entries \in Seq(EntrySet(Keys, Values))
  /\ reply \in Values \cup {Nothing}
  /\ stored \in [Keys -> [value : Values, expires : Int] \cup {Nothing}]
  /\ since \in [Keys -> SUBSET Keys]

(* The OrderedDict is a dict and it is bounded: every key has one entry,   *)
(* and after every call at most max_entries entries are left (cache.py:32).*)
Bounded ==
  /\ Len(entries) <= MaxEntries
  /\ Distinct(entries)

(* An entry is what the last put of its key stored, with the expiry of     *)
(* that put: a get that refreshes the recency of an entry never extends    *)
(* its life (cache.py:26 moves the entry, it does not rewrite it).         *)
Coherent ==
  \A i \in 1..Len(entries) :
    LET e == entries[i]
    IN  stored[e.key] = [value |-> e.value, expires |-> e.expires]

(* The order of the dict is the order of use: every entry behind another   *)
(* one was used after it.                                                  *)
OrderedByUse ==
  \A i, j \in 1..Len(entries) :
    i < j => entries[j].key \in since[entries[i].key]

(* Eviction is fair to recent use: a key that has not expired, and since   *)
(* whose last use fewer than max_entries other keys were used, is still in *)
(* the cache, whatever was put, read, expired or deleted in between.       *)
RetainsRecent ==
  \A k \in Keys :
    (stored[k] # Nothing /\ clock < stored[k].expires /\ Cardinality(since[k]) < MaxEntries)
      => k \in KeysOf(entries)

CacheInv == TypeOK /\ Bounded /\ Coherent /\ OrderedByUse /\ RetainsRecent

(* The cache is a TTL store that may forget under capacity pressure only:  *)
(* it never answers with an overwritten or an expired decision.            *)
Store == INSTANCE TtlStore WITH Capacity <- MaxEntries, Ttl <- TtlSeconds

ImplementsStore == Store!Spec
=============================================================================
