--------------------------- MODULE DecisionOracle ---------------------------
(***************************************************************************)
(* What POST /v1/classify promises its callers, with no cache, no threads  *)
(* and no clock in sight.  Requests are answered one at a time:            *)
(*                                                                         *)
(*   - a request gets one reply, and keeps it;                             *)
(*   - a decision says what classify() says of a payload under the same    *)
(*     key, and of this very payload if the key covers it;                 *)
(*   - an id stands for one verdict and one key, in all bookings;          *)
(*   - a decision about a request is booked, and its line of the log       *)
(*     written, in one step, and no other step writes one;                 *)
(*   - the reply tells what was booked.                                    *)
(*                                                                         *)
(* Several requests may break at once, booked or not: that is the process  *)
(* dying.                                                                  *)
(* ClassifyService, the handler with all its parts, implements it.         *)
(***************************************************************************)
EXTENDS Naturals

CONSTANTS
  Requests, Payloads, Ids,
  VerdictOf,     \* VerdictOf[p]: what classify() says of payload p
  KeyOf,         \* KeyOf[p]: what the cache files it under
  Covered,       \* the payloads whose key covers what classify() looks at
  LogDecisions,
  Nothing

VARIABLES
  replies,       \* replies[r]: what the caller of r knows
  booked,        \* booked[r]: the payload and the decision about r
  log            \* log[id]: the lines about the decision with this id

oracleVars == <<replies, booked, log>>

Errors == {401, 422, 429, 500}

Pending == [done |-> FALSE, status |-> 0, payload |-> Nothing, decision |-> Nothing]

(* Status 0 is a connection that broke. *)
Failed(status) == [done |-> TRUE, status |-> status, payload |-> Nothing, decision |-> Nothing]

Decided(p, d) == [done |-> TRUE, status |-> 200, payload |-> p, decision |-> d]

Init ==
  /\ replies = [r \in Requests |-> Pending]
  /\ booked = [r \in Requests |-> Nothing]
  /\ log = [id \in Ids |-> 0]

(* What a caller may be told about p: what classify() says of it, or of    *)
(* some payload the key does not tell from it.                             *)
Verdicts(p) ==
  IF p \in Covered THEN {VerdictOf[p]}
  ELSE {VerdictOf[q] : q \in {q \in Payloads : KeyOf[q] = KeyOf[p]}}

(* Nothing else is booked under this id. *)
Agrees(d, p) ==
  \A s \in Requests :
    (booked[s] # Nothing /\ booked[s].decision.id = d.id) =>
      booked[s].decision = d /\ KeyOf[booked[s].payload] = KeyOf[p]

Book(r) ==
  /\ ~ replies[r].done /\ booked[r] = Nothing
  /\ \E p \in Payloads, id \in Ids : \E says \in Verdicts(p) :
       LET d == [id |-> id, says |-> says]
       IN  /\ booked' = [booked EXCEPT ![r] = [payload |-> p, decision |-> d]]
           /\ Agrees(d, p)
           /\ log' = IF LogDecisions THEN [log EXCEPT ![id] = @ + 1] ELSE log
  /\ UNCHANGED replies

Reply(r) ==
  /\ ~ replies[r].done /\ booked[r] # Nothing
  /\ replies' = [replies EXCEPT ![r] = Decided(booked[r].payload, booked[r].decision)]
  /\ UNCHANGED <<booked, log>>

Refuse(r) ==
  /\ ~ replies[r].done /\ booked[r] = Nothing
  /\ \E status \in Errors : replies' = [replies EXCEPT ![r] = Failed(status)]
  /\ UNCHANGED <<booked, log>>

Break(broken) ==
  /\ \A r \in broken : ~ replies[r].done
  /\ replies' = [r \in Requests |-> IF r \in broken THEN Failed(0) ELSE replies[r]]
  /\ UNCHANGED <<booked, log>>

Next ==
  \/ \E broken \in SUBSET Requests : Break(broken)
  \/ \E r \in Requests : Refuse(r) \/ Reply(r) \/ Book(r)

Spec == Init /\ [][Next]_oracleVars
=============================================================================
