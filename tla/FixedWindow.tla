----------------------------- MODULE FixedWindow -----------------------------
(***************************************************************************)
(* What one call of RateLimiter.allow does to the slot it keeps for a key: *)
(* the window the slot counts and the number of calls in it.               *)
(* RateLimiter and ClassifyService keep the slots in a variable of theirs. *)
(***************************************************************************)
EXTENDS Integers

CONSTANTS
  Limit,    \* limit_per_minute: 0 or less switches the limiter off
  NoSlot    \* a key self._windows does not hold

ASSUME FixedWindowAssumption ==
  /\ Limit \in Int
  /\ NoSlot \notin [start : Nat, count : Nat]

Slots == [start : Nat, count : Nat]

(* int(clock() // 60) *)
WindowAt(now) == now \div 60

(* Bug: every second is a window of its own. *)
CountedPerSecond(slot, now) ==
  IF slot # NoSlot /\ slot.start = now
    THEN [slot EXCEPT !.count = @ + 1]
    ELSE [start |-> now, count |-> 1]

(* Bug: the count is carried over into the next window. *)
CountedForEver(slot, now) ==
  [start |-> WindowAt(now), count |-> IF slot = NoSlot THEN 1 ELSE slot.count + 1]

(* The slot after one more call at `now': a slot of another window starts  *)
(* again from zero.  Rejected calls are counted as well.                   *)
Counted(slot, now) ==
  IF slot # NoSlot /\ slot.start = WindowAt(now)
    THEN [slot EXCEPT !.count = @ + 1]
    ELSE [start |-> WindowAt(now), count |-> 1]

Unlimited == Limit <= 0

(* Bug: off by one. *)
AllowsOneMore(slot, now) == Unlimited \/ Counted(slot, now).count <= Limit + 1

(* The answer of that call. *)
Allows(slot, now) == Unlimited \/ Counted(slot, now).count <= Limit
=============================================================================
