---------------------------- MODULE MCSharedCache ----------------------------
(* Two instances and three requests for one key, so that one may put and    *)
(* two may read; two policy versions, a TTL of one and a half seconds, and  *)
(* two restarts.                                                            *)
EXTENDS SharedCache, TLC

CONSTANTS r1, r2, r3, i1, i2, k1

MCInstanceOf == r1 :> i1 @@ r2 :> i1 @@ r3 :> i2

MCKeyOf == r1 :> k1 @@ r2 :> k1 @@ r3 :> k1
=============================================================================
