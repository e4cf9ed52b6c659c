----------------------------- MODULE RateLimiter -----------------------------
(***************************************************************************)
(* One RateLimiter object over time: calls of allow by several keys, while *)
(* the monotonic clock advances by any amount between them.                *)
(*                                                                         *)
(* `admitted' and `calls' are history: when each key was let through, and  *)
(* how often it called.  MaxCalls bounds the calls of one key.             *)
(***************************************************************************)
EXTENDS FixedWindow, Sequences

CONSTANTS
  Keys,       \* what _rate_limit_key returns: bearer tokens or client hosts
  Instants,   \* the seconds the clock may show
  MaxCalls    \* bound on the calls of one key

ASSUME RateLimiterAssumption ==
  /\ Instants \subseteq Nat
  /\ MaxCalls \in Nat

VARIABLES
  clock,      \* the injected clock
  windows,    \* self._windows; a slot is created on first use, never removed
  admitted,   \* history: the times at which allow(k) returned True, in order
  calls       \* history: the number of calls of allow(k)

vars == <<clock, windows, admitted, calls>>

Init ==
  /\ clock \in Instants
  /\ windows = [k \in Keys |-> NoSlot]
  /\ admitted = [k \in Keys |-> <<>>]
  /\ calls = [k \in Keys |-> 0]

Called(k) ==
  /\ calls[k] < MaxCalls
  /\ calls' = [calls EXCEPT ![k] = @ + 1]
  /\ UNCHANGED clock

(* A limiter that is off records nothing. *)
Admit(k) ==
  /\ Called(k)
  /\ Allows(windows[k], clock)
  /\ windows' = IF Unlimited THEN windows
                ELSE [windows EXCEPT ![k] = Counted(@, clock)]
  /\ admitted' = [admitted EXCEPT ![k] = Append(@, clock)]

Reject(k) ==
  /\ Called(k)
  /\ ~ Allows(windows[k], clock)
  /\ windows' = [windows EXCEPT ![k] = Counted(@, clock)]
  /\ UNCHANGED admitted

Advance ==
  /\ \E t \in Instants : t > clock /\ clock' = t
  /\ UNCHANGED <<windows, admitted, calls>>

Next ==
  \/ \E k \in Keys : Admit(k) \/ Reject(k)
  \/ Advance

Spec == Init /\ [][Next]_vars

-----------------------------------------------------------------------------
(* Type correctness of the limiter and of its history. *)
TypeOK ==
  /\ clock \in Instants
  /\ windows \in [Keys -> Slots \cup {NoSlot}]
  /\ admitted \in [Keys -> Seq(Instants)]
  /\ calls \in [Keys -> 0..MaxCalls]

(* No key is let through more than Limit times within one aligned minute,  *)
(* however its calls, admitted and rejected, interleave with the clock.    *)
WindowBound ==
  ~ Unlimited =>
    \A k \in Keys : \A i, j \in 1..Len(admitted[k]) :
      i + Limit <= j => WindowAt(admitted[k][i]) < WindowAt(admitted[k][j])

(* What the aligned windows guarantee of any sixty consecutive seconds: at *)
(* most twice the limit, never more.  (The limit itself, of which the      *)
(* docstring speaks at ratelimit.py:9, may be exceeded around a border.)   *)
BurstBound ==
  ~ Unlimited =>
    \A k \in Keys : \A i, j \in 1..Len(admitted[k]) :
      i + 2 * Limit <= j => admitted[k][j] - admitted[k][i] >= 60

(* A key is refused only when it has used up its own limit in the current  *)
(* window: neither another key nor its own earlier rejections cost it a    *)
(* call (rejections are counted too, ratelimit.py:26-27).                  *)
RefusesOnlyAtLimit ==
  [][\A k \in Keys :
       (calls'[k] # calls[k] /\ admitted'[k] = admitted[k]) =>
         /\ Limit > 0
         /\ Len(admitted[k]) >= Limit
         /\ WindowAt(admitted[k][Len(admitted[k]) - Limit + 1]) = WindowAt(clock)]_vars

(* The reason WindowBound holds.  A slot whose window is w and whose count *)
(* is c stands for the last Min(c, Limit) admissions: they are the ones of *)
(* window w, those before them are older.                                  *)
InWindow(k) == IF windows[k].count <= Limit THEN windows[k].count ELSE Limit

SlotSummarises ==
  ~ Unlimited =>
    \A k \in Keys :
      IF windows[k] = NoSlot
        THEN admitted[k] = <<>>
        ELSE /\ windows[k].start <= WindowAt(clock)
             /\ windows[k].count >= 1
             /\ InWindow(k) <= Len(admitted[k])
             /\ \A i \in 1..Len(admitted[k]) :
                  IF i + InWindow(k) > Len(admitted[k])
                    THEN WindowAt(admitted[k][i]) = windows[k].start
                    ELSE WindowAt(admitted[k][i]) < windows[k].start

LimiterInv == TypeOK /\ SlotSummarises /\ WindowBound
=============================================================================
