----------------------------- MODULE LruTtlCache -----------------------------
(***************************************************************************)
(* The in-memory decision cache as a data structure: what one call of      *)
(* ClassificationCache.get and of ClassificationCache.put does to it.      *)
(*                                                                         *)
(* The OrderedDict is a sequence of entries, one per key, in the order the *)
(* dict keeps: the least recently used entry first, the entry that was     *)
(* used last at the end.  `now' is what the injected clock returns during  *)
(* the call.  The module has no state: DecisionCache and ClassifyService   *)
(* keep the sequence in a variable of theirs.                              *)
(***************************************************************************)
EXTENDS Integers, Sequences

CONSTANTS
  MaxEntries,   \* max_entries; Settings.validate refuses a value below 1
  TtlSeconds    \* ttl_seconds; nothing validates it: zero and below are legal

ASSUME CacheAssumption ==
  /\ MaxEntries \in Nat \ {0}
  /\ TtlSeconds \in Int

(* The entries of a cache from K to V: self._entries maps a key to its     *)
(* expiry time and its value.                                              *)
EntrySet(K, V) == [key : K, expires : Int, value : V]

KeysOf(entries) == {entries[i].key : i \in 1..Len(entries)}

PositionOf(entries, key) ==
  CHOOSE i \in 1..Len(entries) : entries[i].key = key

EntryOf(entries, key) == entries[PositionOf(entries, key)]

(* One entry per key: the OrderedDict is a dict.                           *)
Distinct(entries) ==
  \A i, j \in 1..Len(entries) : entries[i].key = entries[j].key => i = j

(* Bug: an entry lives through the instant it expires in. *)
ExpiredLate(entry, now) == entry.expires < now

(* An entry is dead from the very instant it expires: expires_at <= now.   *)
Expired(entry, now) == entry.expires <= now

(* A lookup that answers with the cached value.                            *)
Hits(entries, key, now) ==
  /\ key \in KeysOf(entries)
  /\ ~ Expired(EntryOf(entries, key), now)

(* del self._entries[key]: the other entries keep their order.             *)
Without(entries, key) ==
  LET i == PositionOf(entries, key)
  IN  IF key \in KeysOf(entries)
        THEN SubSeq(entries, 1, i - 1) \o SubSeq(entries, i + 1, Len(entries))
        ELSE entries

(* popitem(last=False) until at most MaxEntries entries are left.          *)
Newest(entries) ==
  IF Len(entries) > MaxEntries
    THEN SubSeq(entries, Len(entries) - MaxEntries + 1, Len(entries))
    ELSE entries

(* Bug: a hit leaves the entry where it is. *)
AfterGetInPlace(entries, key, now) ==
  IF Hits(entries, key, now) THEN entries ELSE Without(entries, key)

(* get: a missing key changes nothing, an expired entry is deleted, a live *)
(* entry moves to the recently-used end.                                   *)
AfterGet(entries, key, now) ==
  IF Hits(entries, key, now)
    THEN Append(Without(entries, key), EntryOf(entries, key))
    ELSE Without(entries, key)

(* put: the entry is overwritten with a fresh expiry, moved to the         *)
(* recently-used end, and the oldest entries make room.                    *)
AfterPut(entries, key, value, now) ==
  Newest(Append(Without(entries, key),
                [key |-> key, expires |-> now + TtlSeconds, value |-> value]))

=============================================================================
