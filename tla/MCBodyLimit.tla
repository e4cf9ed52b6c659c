----------------------------- MODULE MCBodyLimit -----------------------------
(* Bodies of up to three chunks of 0 to 3 bytes under a limit of 3: every   *)
(* way to stay below, reach or pass the limit at each chunk, empty chunks   *)
(* and empty bodies included.  Each comes without a length, with one that   *)
(* is no number, and with one of 0, 3, 4 or its own, true or not.           *)
EXTENDS BodyLimit

MCSizes == {0, 1, 2, 3}

MCBodies == UNION {[1..n -> MCSizes] : n \in 1..3}

MCUploads ==
  [header : {"absent", "invalid"}, declared : {0}, sizes : MCBodies]
    \cup UNION {[header : {"declared"}, declared : {0, 3, 4, SumFunction(body)}, sizes : {body}] :
                  body \in MCBodies}
=============================================================================
