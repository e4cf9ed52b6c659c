--------------------------- MODULE MCProxyEndpoint ---------------------------
(* Two requests of one caller, who may send one a minute, and one of a     *)
(* stranger; times in three minutes.                                       *)
EXTENDS ProxyEndpoint, TLC

CONSTANTS r1, r2, r3, alice, mallory

MCCallers == r1 :> alice @@ r2 :> alice @@ r3 :> mallory
=============================================================================
