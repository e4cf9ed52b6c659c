------------------------------ MODULE TtlStore ------------------------------
(***************************************************************************)
(* What the decision cache promises its caller, with no list and no        *)
(* eviction order in sight.  The store remembers the last put of every     *)
(* key for ever; a get may forget, but only within limits:                 *)
(*                                                                         *)
(*   - an answer is the value of the LAST put of that key, and only before *)
(*     it has expired;                                                     *)
(*   - a live key may be missed only under capacity pressure: at least     *)
(*     Capacity OTHER keys were put, or read with success, since the key   *)
(*     was last put or read with success.                                  *)
(*                                                                         *)
(* DecisionCache, the code's OrderedDict, implements it.                   *)
(***************************************************************************)
EXTENDS Integers, FiniteSets

CONSTANTS Keys, Values, Nothing, Capacity, Ttl, Instants

VARIABLES
  clock,    \* the time
  stored,   \* stored[k]: the last put of k, or Nothing
  since,    \* since[k]: the other keys used since k was last used
  reply     \* what the last operation answered

storeVars == <<clock, stored, since, reply>>

Init ==
  /\ clock \in Instants
  /\ stored = [k \in Keys |-> Nothing]
  /\ since = [k \in Keys |-> {}]
  /\ reply = Nothing

Live(k) == stored[k] # Nothing /\ clock < stored[k].expires

(* k becomes the key used last. *)
Used(k) == [j \in Keys |-> IF j = k THEN {} ELSE since[j] \cup {k}]

Put(k, v) ==
  /\ stored' = [stored EXCEPT ![k] = [value |-> v, expires |-> clock + Ttl]]
  /\ since' = Used(k)
  /\ reply' = Nothing
  /\ UNCHANGED clock

Answer(k) ==
  /\ Live(k)
  /\ reply' = stored[k].value
  /\ since' = Used(k)
  /\ UNCHANGED <<clock, stored>>

Miss(k) ==
  /\ Live(k) => Cardinality(since[k]) >= Capacity
  /\ reply' = Nothing
  /\ UNCHANGED <<clock, stored, since>>

Advance ==
  /\ \E t \in Instants : t > clock /\ clock' = t
  /\ UNCHANGED <<stored, since, reply>>

Next ==
  \/ \E k \in Keys : Answer(k) \/ Miss(k) \/ \E v \in Values : Put(k, v)
  \/ Advance

Spec == Init /\ [][Next]_storeVars
=============================================================================
