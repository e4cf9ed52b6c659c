--------------------------- MODULE MCClientDelivery ---------------------------
(* Two classify calls with the same payload, so that one finds what a late  *)
(* or failed attempt of the other left in the cache, and a correction of    *)
(* the first one's decision.                                                *)
EXTENDS ClientDelivery, TLC

CONSTANTS c1, c2, f1, p1

MCAbout == f1 :> c1

MCPayload == c1 :> p1 @@ c2 :> p1
=============================================================================
