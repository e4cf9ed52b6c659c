---------------------------- MODULE MCRateLimiter ----------------------------
(* Two keys over four aligned minutes.  The instants sit on both sides of  *)
(* the window boundaries and in the middle of a window, and one gap skips  *)
(* a whole window.                                                         *)
EXTENDS RateLimiter, TLC

MCInstants == {0, 30, 59, 60, 89, 119, 120, 185}

MCSymmetry == Permutations(Keys)
=============================================================================
