------------------------- MODULE ClientDeliveryProofs -------------------------
(***************************************************************************)
(* What PreclassifierClient promises its callers, for any number of calls, *)
(* retries and crashes, over a network that loses, delays and overtakes:   *)
(* feedback is recorded at most once, an acknowledged one is recorded, and *)
(* it can be joined to the decision it is about.                           *)
(*                                                                         *)
(* The argument: feedback has one attempt, begun when the decision it is   *)
(* about has been received and can no longer change, so all that is ever   *)
(* on its way or in the log for it is one request and one line.            *)
(***************************************************************************)
EXTENDS ClientDelivery, TLAPS

Stages == {"idle", "waiting", "sleeping", "returned", "raised"}

LEMMA CallKinds ==
  /\ \A c \in Calls : c \in Classifications \/ c \in Feedbacks
  /\ \A f \in Feedbacks : f \notin Classifications /\ f \in Calls
  /\ \A f \in Feedbacks : About[f] \in Classifications /\ About[f] \in Calls
  /\ \A c \in Classifications : c \in Calls /\ Payload[c] \in Payloads
  BY ClientAssumption DEF Calls, Payloads

(* The loop of _request makes at least one attempt, and only one for a     *)
(* call that is not retried.                                               *)
LEMMA AttemptsFacts ==
  ASSUME NEW c \in Calls
  PROVE  /\ Attempts(c) \in 1..(MaxRetries + 1)
         /\ c \in Feedbacks => Attempts(c) = 1
  BY CallKinds, ClientAssumption DEF Attempts, Retried

LEMMA CurrentFacts ==
  ASSUME TypeOK, InBudget, NEW c \in Calls,
         stage[c] \in {"idle", "waiting", "sleeping"}
  PROVE  /\ ended[c] \in Nat /\ ended[c] + 1 <= Attempts(c)
         /\ Current(c) \in Requests /\ Current(c).call = c
         /\ c \in Feedbacks => ended[c] = 0 /\ Current(c).attempt = 1
  <1>1. ended[c] \in 0..(MaxRetries + 1) /\ MaxRetries \in Nat
    BY ClientAssumption DEF TypeOK
  <1>2. ended[c] < Attempts(c)
    BY DEF InBudget
  <1>3. Attempts(c) \in 1..(MaxRetries + 1)
    BY AttemptsFacts
  <1>4. ended[c] \in Nat /\ ended[c] + 1 <= Attempts(c)
    BY <1>1, <1>2, <1>3
  <1>5. ended[c] + 1 \in 1..(MaxRetries + 1)
    BY <1>1, <1>3, <1>4
  <1>6. c \in Feedbacks => ended[c] = 0
    BY <1>4, AttemptsFacts
  <1>7. QED
    BY <1>4, <1>5, <1>6 DEF Current, Request, Requests

LEMMA InitEstablishes == Init => ClientInv
  <1> SUFFICES ASSUME Init PROVE ClientInv
    OBVIOUS
  <1>1. TypeOK
    BY ClientAssumption DEF Init, TypeOK
  <1>2. InBudget
    BY AttemptsFacts DEF Init, InBudget
  <1>3. SentOnce
    BY CallKinds DEF Init, SentOnce
  <1>4. Acknowledged /\ Delivered
    BY CallKinds DEF Init, Acknowledged, Delivered
  <1>5. QED
    BY <1>1, <1>2, <1>3, <1>4 DEF ClientInv

(* A call moves on: no returned call moves, and none moves to "returned"   *)
(* without a line behind it.                                               *)
LEMMA CallerMoves ==
  ASSUME ClientInv, NEW c \in Calls, stage[c] # "returned",
         NEW x \in Stages, stage' = [stage EXCEPT ![c] = x],
         x = "returned" /\ c \in Feedbacks => Recorded(c),
         x = "returned" /\ c \in Classifications => Logged(c, result'[c]),
         c \in Feedbacks => x # "sleeping",
         x \in {"idle", "waiting", "sleeping"} => ended'[c] < Attempts(c),
         \A d \in Calls : d # c => ended'[d] = ended[d] /\ result'[d] = result[d],
         requests' \subseteq requests \cup {Current(c)},
         Current(c) \in requests' \/ requests' \subseteq requests,
         requests' \subseteq requests
           \/ (c \in Feedbacks =>
                 Current(c).attempt = 1 /\ stage[About[c]] = "returned"),
         Current(c).call = c,
         replies' \subseteq replies,
         UNCHANGED <<decisionLog, feedbackLog>>
  PROVE  InBudget' /\ SentOnce' /\ Acknowledged' /\ Delivered'
  <1>1. \A d \in Calls : stage'[d] = IF d = c THEN x ELSE stage[d]
    BY DEF ClientInv, TypeOK
  <1>2. \A d \in Calls : stage[d] = "returned" =>
           stage'[d] = "returned" /\ result'[d] = result[d]
    BY <1>1
  <1>3. InBudget'
    <2> SUFFICES ASSUME NEW d \in Calls, stage'[d] \in {"idle", "waiting", "sleeping"}
                 PROVE  ended'[d] < Attempts(d)
      BY DEF InBudget, Attempts, Retried
    <2>1. CASE d = c
      BY <1>1, <2>1
    <2>2. CASE d # c
      BY <1>1, <2>2 DEF ClientInv, InBudget
    <2>3. QED
      BY <2>1, <2>2
  <1>4. SentOnce'
    <2>1. \A f \in Feedbacks : stage'[f] # "sleeping"
      BY <1>1, CallKinds DEF ClientInv, SentOnce
    <2>2. \A r \in requests' :
            r.call \in Feedbacks => r.attempt = 1 /\ stage'[About[r.call]] = "returned"
      <3> SUFFICES ASSUME NEW r \in requests', r.call \in Feedbacks
                   PROVE  r.attempt = 1 /\ stage'[About[r.call]] = "returned"
        OBVIOUS
      <3>1. r.attempt = 1 /\ stage[About[r.call]] = "returned"
        BY DEF ClientInv, SentOnce
      <3>2. QED
        BY <1>2, <3>1, CallKinds
    <2>3. \A l \in feedbackLog' :
            /\ l.request.call \in Feedbacks /\ l.request.attempt = 1
            /\ stage'[About[l.request.call]] = "returned"
            /\ l.id = result'[About[l.request.call]]
      BY <1>2, CallKinds DEF ClientInv, SentOnce, Target
    <2>4. QED
      BY <2>1, <2>2, <2>3 DEF SentOnce, Target
  <1>5. Acknowledged'
    <2>1. \A f \in Feedbacks : Recorded(f)' = Recorded(f)
      BY DEF Recorded
    <2>2. QED
      BY <1>1, <2>1, CallKinds DEF ClientInv, Acknowledged, Recorded
  <1>6. Delivered'
    <2>1. \A reply \in replies' :
            reply.status = "ok" /\ reply.to.call \in Classifications =>
              Logged(reply.to.call, reply.body)
      BY DEF ClientInv, Delivered
    <2>2. \A d \in Classifications : stage'[d] = "returned" => Logged(d, result'[d])
      <3> SUFFICES ASSUME NEW d \in Classifications, stage'[d] = "returned"
                   PROVE  Logged(d, result'[d])
        OBVIOUS
      <3>1. CASE d = c
        BY <1>1, <3>1, CallKinds
      <3>2. CASE d # c
        BY <1>1, <3>2, CallKinds DEF ClientInv, Delivered
      <3>3. QED
        BY <3>1, <3>2
    <2>3. QED
      BY <2>1, <2>2 DEF Delivered, Logged
  <1>7. QED
    BY <1>3, <1>4, <1>5, <1>6

(* Sending, for the first time or again. *)
LEMMA SendPreserves ==
  ASSUME ClientInv, NEW c \in Calls, stage[c] \in {"idle", "sleeping"},
         c \in Feedbacks => stage[c] = "idle" /\ stage[About[c]] = "returned",
         Sends(c), UNCHANGED <<ended, result, replies, service>>
  PROVE  ClientInv'
  <1>1. /\ Current(c) \in Requests /\ Current(c).call = c
        /\ c \in Feedbacks => Current(c).attempt = 1
        /\ ended[c] < Attempts(c)
    BY CurrentFacts DEF ClientInv, InBudget
  <1>2. TypeOK'
    BY <1>1 DEF ClientInv, TypeOK, Sends, service
  <1>3. UNCHANGED <<ended, result, replies, decisionLog, feedbackLog>>
    BY DEF service
  <1>4. InBudget' /\ SentOnce' /\ Acknowledged' /\ Delivered'
    BY <1>1, <1>3, CallerMoves DEF Sends, Stages
  <1>5. QED
    BY <1>2, <1>4 DEF ClientInv

(* An attempt that ends, its reply taken from the network or given up.     *)
LEMMA EndPreserves ==
  ASSUME ClientInv, NEW c \in Calls, Ended(c),
         replies' \subseteq replies, UNCHANGED <<requests, service>>,
         NEW x \in {"sleeping", "raised", "returned"},
         stage' = [stage EXCEPT ![c] = x],
         x = "sleeping" => ended[c] + 1 < Attempts(c),
         x # "returned" => result' = result,
         x = "returned" =>
           \E reply \in replies :
             /\ reply.status = "ok" /\ reply.to = Current(c)
             /\ result' = [result EXCEPT ![c] = reply.body]
  PROVE  ClientInv'
  <1>1. /\ ended[c] \in Nat /\ ended[c] + 1 <= Attempts(c)
        /\ Current(c).call = c
        /\ c \in Feedbacks => ended[c] = 0
    BY CurrentFacts DEF ClientInv, Ended
  <1>2. ended' \in [Calls -> 0..(MaxRetries + 1)]
    <2>1. ended[c] + 1 \in 0..(MaxRetries + 1)
      BY <1>1, AttemptsFacts, ClientAssumption
    <2>2. QED
      BY <2>1 DEF ClientInv, TypeOK, Ended
  <1>3. \A d \in Calls : ended'[d] = IF d = c THEN ended[c] + 1 ELSE ended[d]
    BY DEF ClientInv, TypeOK, Ended
  <1>4. /\ result' \in [Calls -> Nat \cup {Nothing}]
        /\ \A d \in Calls : d # c => result'[d] = result[d]
    BY DEF ClientInv, TypeOK
  <1>5. TypeOK'
    BY <1>2, <1>4 DEF ClientInv, TypeOK, service
  <1>6. x = "returned" /\ c \in Feedbacks => Recorded(c)
    BY <1>1 DEF ClientInv, Acknowledged
  <1>7. x = "returned" /\ c \in Classifications => Logged(c, result'[c])
    <2>1. SUFFICES ASSUME x = "returned", c \in Classifications
                   PROVE  Logged(c, result'[c])
      OBVIOUS
    <2>2. PICK reply \in replies :
            /\ reply.status = "ok" /\ reply.to = Current(c)
            /\ result' = [result EXCEPT ![c] = reply.body]
      BY <2>1
    <2>3. Logged(c, reply.body)
      BY <1>1, <2>1, <2>2 DEF ClientInv, Delivered
    <2>4. QED
      BY <2>2, <2>3 DEF ClientInv, TypeOK
  <1>8. c \in Feedbacks => x # "sleeping"
    BY <1>1, AttemptsFacts
  <1>9. x \in {"idle", "waiting", "sleeping"} => ended'[c] < Attempts(c)
    BY <1>3
  <1>10. stage[c] # "returned" /\ UNCHANGED <<requests, decisionLog, feedbackLog>>
    BY DEF Ended, service
  <1>11. InBudget' /\ SentOnce' /\ Acknowledged' /\ Delivered'
    <2>1. \A d \in Calls : d # c => ended'[d] = ended[d] /\ result'[d] = result[d]
      BY <1>3, <1>4
    <2>2. x \in Stages
      BY DEF Stages
    <2>3. QED
      BY <1>1, <1>6, <1>7, <1>8, <1>9, <1>10, <2>1, <2>2, CallerMoves
  <1>12. QED
    BY <1>5, <1>11 DEF ClientInv

LEMMA ClientPreserves ==
  ASSUME ClientInv, NEW c \in Calls, Begin(c) \/ Attempt(c) \/ Retry(c)
  PROVE  ClientInv'
  <1>1. CASE Begin(c)
    BY <1>1, SendPreserves DEF Begin
  <1>2. CASE Retry(c)
    <2>1. c \notin Feedbacks
      BY <1>2 DEF Retry, ClientInv, SentOnce
    <2>2. QED
      BY <1>2, <2>1, SendPreserves DEF Retry
  <1>3. CASE ReceiveSuccess(c)
    BY <1>3, EndPreserves DEF ReceiveSuccess, Answered
  <1>4. CASE ReceiveUnreadable(c) \/ ReceiveRefusal(c)
    BY <1>4, EndPreserves DEF ReceiveUnreadable, ReceiveRefusal, Answered
  <1>5. CASE ReceiveFailure(c)
    BY <1>5, EndPreserves DEF ReceiveFailure, Answered, Backoff
  <1>6. CASE Break(c)
    BY <1>6, EndPreserves DEF Break, Backoff
  <1>7. QED
    BY <1>1, <1>2, <1>3, <1>4, <1>5, <1>6 DEF Attempt

(* What the service or the network does leaves the callers alone, and the  *)
(* logs only grow.                                                         *)
LEMMA ServiceMoves ==
  ASSUME ClientInv, UNCHANGED caller, requests' \subseteq requests,
         decisionLog \subseteq decisionLog', feedbackLog \subseteq feedbackLog',
         \A l \in feedbackLog' : l \notin feedbackLog =>
           /\ l.request.call \in Feedbacks /\ l.request.attempt = 1
           /\ stage[About[l.request.call]] = "returned"
           /\ l.id = Target(l.request.call),
         \A reply \in replies' : reply \notin replies /\ reply.status = "ok" =>
           /\ reply.to.call \in Feedbacks =>
                \E l \in feedbackLog' : l.request.call = reply.to.call
           /\ reply.to.call \in Classifications =>
                \E d \in decisionLog' :
                  d.id = reply.body /\ Payload[d.request.call] = Payload[reply.to.call]
  PROVE  InBudget' /\ SentOnce' /\ Acknowledged' /\ Delivered'
  <1>0. UNCHANGED <<stage, ended, result>>
    BY DEF caller
  <1>1. InBudget'
    BY <1>0 DEF ClientInv, InBudget, Attempts, Retried
  <1>2. SentOnce'
    BY <1>0 DEF ClientInv, SentOnce, Target
  <1>3. Acknowledged'
    <2>1. \A f : Recorded(f) => Recorded(f)'
      BY DEF Recorded
    <2>2. \A f \in Feedbacks : stage'[f] = "returned" => Recorded(f)'
      BY <1>0, <2>1 DEF ClientInv, Acknowledged
    <2>3. \A reply \in replies' :
            reply.status = "ok" /\ reply.to.call \in Feedbacks => Recorded(reply.to.call)'
      <3> SUFFICES ASSUME NEW reply \in replies',
                          reply.status = "ok", reply.to.call \in Feedbacks
                   PROVE  Recorded(reply.to.call)'
        OBVIOUS
      <3>1. CASE reply \in replies
        BY <2>1, <3>1 DEF ClientInv, Acknowledged
      <3>2. CASE reply \notin replies
        BY <3>2 DEF Recorded
      <3>3. QED
        BY <3>1, <3>2
    <2>4. QED
      BY <2>2, <2>3 DEF Acknowledged
  <1>4. Delivered'
    <2>1. \A c, id : Logged(c, id) => Logged(c, id)'
      BY DEF Logged
    <2>2. \A c \in Classifications : stage'[c] = "returned" => Logged(c, result[c])'
      BY <1>0, <2>1 DEF ClientInv, Delivered
    <2>3. \A reply \in replies' :
            reply.status = "ok" /\ reply.to.call \in Classifications =>
              Logged(reply.to.call, reply.body)'
      <3> SUFFICES ASSUME NEW reply \in replies',
                          reply.status = "ok", reply.to.call \in Classifications
                   PROVE  Logged(reply.to.call, reply.body)'
        OBVIOUS
      <3>1. CASE reply \in replies
        BY <2>1, <3>1 DEF ClientInv, Delivered
      <3>2. CASE reply \notin replies
        BY <3>2 DEF Logged
      <3>3. QED
        BY <3>1, <3>2
    <2>4. QED
      BY <2>2, <2>3 DEF Delivered
  <1>5. QED
    BY <1>1, <1>2, <1>3, <1>4

(* What the service writes in the caches and keeps in its workers.         *)
ServiceTyped ==
  /\ working \subseteq {r \in Requests : r.call \in Classifications}
  /\ cache \in [Payloads -> Nat \cup {Nothing}]
  /\ nextId \in Nat \ {0}

(* A reply that carries neither decision nor acknowledgement. *)
LEMMA ErrorPreserves ==
  ASSUME ClientInv, NEW r \in Requests, NEW status \in {"refused", "failed"},
         Replies(r, status, Nothing), requests' \subseteq requests, ServiceTyped',
         UNCHANGED <<decisionLog, feedbackLog>>
  PROVE  ClientInv'
  <1> DEFINE answer == [to |-> r, status |-> status, body |-> Nothing]
  <1>1. replies' \subseteq replies \cup {answer} /\ UNCHANGED <<caller, crashes>>
    BY DEF Replies
  <1>2. TypeOK'
    BY <1>1 DEF ClientInv, TypeOK, ServiceTyped, caller
  <1>3. InBudget' /\ SentOnce' /\ Acknowledged' /\ Delivered'
    <2>1. \A reply \in replies' : reply \notin replies => reply.status # "ok"
      BY <1>1
    <2>2. QED
      BY <1>1, <2>1, ServiceMoves
  <1>4. QED
    BY <1>2, <1>3 DEF ClientInv

(* A decision that is logged before it is told, or neither.                *)
LEMMA AnswerPreserves ==
  ASSUME ClientInv, NEW r \in Requests, r.call \in Classifications, NEW id \in Nat,
         Answer(r, id), requests' \subseteq requests, ServiceTyped'
  PROVE  ClientInv'
  <1> DEFINE line == Line(r, id)
             answer == [to |-> r, status |-> "ok", body |-> id]
  <1>1. CASE Replies(r, "failed", Nothing) /\ UNCHANGED decisionLog
    BY <1>1, ErrorPreserves DEF Answer
  <1>2. CASE Replies(r, "ok", id) /\ decisionLog' = decisionLog \cup {line}
    <2>1. /\ replies' \subseteq replies \cup {answer}
          /\ decisionLog' = decisionLog \cup {line} /\ feedbackLog' = feedbackLog
          /\ UNCHANGED <<caller, crashes>>
      BY <1>2 DEF Replies, Answer
    <2>2. line.id = id /\ line.request = r /\ line \in [request : Requests, id : Nat]
      BY DEF Line
    <2>3. r.call \notin Feedbacks
      BY CallKinds
    <2> HIDE DEF line
    <2>4. TypeOK'
      <3>1. decisionLog' \subseteq [request : Requests, id : Nat]
        BY <2>1, <2>2 DEF ClientInv, TypeOK
      <3>2. \A reply \in replies' :
              /\ reply.to \in Requests
              /\ reply.status \in {"ok", "refused", "failed"}
              /\ reply.body \in Nat \cup {Nothing}
        BY <2>1 DEF ClientInv, TypeOK
      <3>3. QED
        BY <2>1, <3>1, <3>2 DEF ClientInv, TypeOK, ServiceTyped, caller
    <2>5. InBudget' /\ SentOnce' /\ Acknowledged' /\ Delivered'
      <3>1. \A reply \in replies' : reply \notin replies /\ reply.status = "ok" =>
              /\ reply.to.call \in Feedbacks =>
                   \E l \in feedbackLog' : l.request.call = reply.to.call
              /\ reply.to.call \in Classifications =>
                   \E d \in decisionLog' :
                     d.id = reply.body /\ Payload[d.request.call] = Payload[reply.to.call]
        BY <2>1, <2>2, <2>3
      <3>2. QED
        BY <2>1, <3>1, ServiceMoves
    <2>6. QED
      BY <2>4, <2>5 DEF ClientInv
  <1>3. QED
    BY <1>1, <1>2 DEF Answer

LEMMA RequestPayload ==
  ASSUME TypeOK, NEW r \in requests \cup working, r.call \in Classifications
  PROVE  r \in Requests /\ Payload[r.call] \in Payloads
  BY CallKinds DEF TypeOK

LEMMA HitPreserves ==
  ASSUME ClientInv, NEW r \in requests, CacheHit(r)
  PROVE  ClientInv'
  <1>1. r \in Requests /\ r.call \in Classifications /\ Payload[r.call] \in Payloads
    BY RequestPayload DEF ClientInv, CacheHit
  <1>2. Cached(r) \in Nat
    BY <1>1 DEF CacheHit, Cached, ClientInv, TypeOK
  <1>3. requests' \subseteq requests /\ ServiceTyped'
    BY DEF CacheHit, Takes, ClientInv, TypeOK, ServiceTyped
  <1>4. QED
    BY <1>1, <1>2, <1>3, AnswerPreserves DEF CacheHit

LEMMA MissPreserves ==
  ASSUME ClientInv, NEW r \in requests, CacheMiss(r)
  PROVE  ClientInv'
  <1>1. r \in Requests /\ r.call \in Classifications
    BY RequestPayload DEF ClientInv, CacheMiss
  <1>2. /\ requests' \subseteq requests /\ working' = working \cup {r}
        /\ UNCHANGED <<caller, replies, cache, nextId, decisionLog, feedbackLog, crashes>>
    BY DEF CacheMiss
  <1>3. TypeOK'
    BY <1>1, <1>2 DEF ClientInv, TypeOK, caller
  <1>4. InBudget' /\ SentOnce' /\ Acknowledged' /\ Delivered'
    BY <1>2, ServiceMoves
  <1>5. QED
    BY <1>3, <1>4 DEF ClientInv

LEMMA ComputePreserves ==
  ASSUME ClientInv, NEW r \in working, Compute(r)
  PROVE  ClientInv'
  <1>1. r \in Requests /\ r.call \in Classifications /\ nextId \in Nat
    BY DEF ClientInv, TypeOK
  <1>2. UNCHANGED requests /\ working' \subseteq working
    BY DEF Compute, Resumes
  <1>3. nextId' \in Nat \ {0} /\ cache' \in [Payloads -> Nat \cup {Nothing}]
    <2>1. nextId' = nextId + 1 /\ cache' = [cache EXCEPT ![Payload[r.call]] = nextId]
      BY DEF Compute
    <2>2. nextId \in Nat \ {0} /\ cache \in [Payloads -> Nat \cup {Nothing}]
      BY DEF ClientInv, TypeOK
    <2>3. nextId \in Nat /\ nextId + 1 \in Nat /\ nextId + 1 # 0
      BY <2>2
    <2>4. QED
      BY <2>1, <2>2, <2>3
  <1>4. ServiceTyped'
    BY <1>2, <1>3 DEF ClientInv, TypeOK, ServiceTyped
  <1>5. QED
    BY <1>1, <1>2, <1>4, AnswerPreserves DEF Compute

LEMMA WorkerFailsPreserves ==
  ASSUME ClientInv, NEW r \in working, WorkerFails(r)
  PROVE  ClientInv'
  <1>1. r \in Requests
    BY DEF ClientInv, TypeOK
  <1>2. UNCHANGED requests /\ ServiceTyped'
    BY DEF WorkerFails, Resumes, ClientInv, TypeOK, ServiceTyped
  <1>3. QED
    BY <1>1, <1>2, ErrorPreserves DEF WorkerFails

LEMMA RecordPreserves ==
  ASSUME ClientInv, NEW r \in requests, Record(r)
  PROVE  ClientInv'
  <1> DEFINE f == r.call
             line == Line(r, Target(f))
             answer == [to |-> r, status |-> "ok", body |-> Target(f)]
  <1>1. /\ r \in Requests /\ f \in Feedbacks /\ f \notin Classifications
        /\ r.attempt = 1 /\ stage[About[f]] = "returned"
    BY CallKinds DEF ClientInv, TypeOK, SentOnce, Record
  <1>2. Target(f) \in Nat
    <2>1. Logged(About[f], result[About[f]])
      BY <1>1, CallKinds DEF ClientInv, Delivered
    <2>2. QED
      BY <2>1 DEF Logged, Target, ClientInv, TypeOK
  <1>3. /\ requests' = requests \ {r} /\ replies' \subseteq replies \cup {answer}
        /\ feedbackLog' = feedbackLog \cup {line}
        /\ UNCHANGED <<caller, crashes, working, cache, nextId, decisionLog>>
    BY DEF Record, Takes, Replies
  <1>4. line.id = Target(f) /\ line.request = r /\ line \in [request : Requests, id : Nat]
    BY <1>1, <1>2 DEF Line
  <1>5. TypeOK'
    <2> HIDE DEF f, line
    <2>1. feedbackLog' \subseteq [request : Requests, id : Nat]
      BY <1>3, <1>4 DEF ClientInv, TypeOK
    <2>2. \A reply \in replies' :
            /\ reply.to \in Requests
            /\ reply.status \in {"ok", "refused", "failed"}
            /\ reply.body \in Nat \cup {Nothing}
      BY <1>1, <1>2, <1>3 DEF ClientInv, TypeOK
    <2>3. QED
      BY <1>3, <2>1, <2>2 DEF ClientInv, TypeOK, caller
  <1>6. InBudget' /\ SentOnce' /\ Acknowledged' /\ Delivered'
    <2> HIDE DEF line
    <2>1. \A l \in feedbackLog' : l \notin feedbackLog =>
            /\ l.request.call \in Feedbacks /\ l.request.attempt = 1
            /\ stage[About[l.request.call]] = "returned"
            /\ l.id = Target(l.request.call)
      BY <1>1, <1>3, <1>4
    <2>2. \A reply \in replies' : reply \notin replies /\ reply.status = "ok" =>
            /\ reply.to.call \in Feedbacks =>
                 \E l \in feedbackLog' : l.request.call = reply.to.call
            /\ reply.to.call \in Classifications =>
                 \E d \in decisionLog' :
                   d.id = reply.body /\ Payload[d.request.call] = Payload[reply.to.call]
      BY <1>1, <1>3, <1>4
    <2>3. QED
      BY <1>3, <2>1, <2>2, ServiceMoves
  <1>7. QED
    BY <1>5, <1>6 DEF ClientInv

LEMMA ServePreserves ==
  ASSUME ClientInv, NEW r \in requests, Serve(r)
  PROVE  ClientInv'
  <1>0. r \in Requests
    BY DEF ClientInv, TypeOK
  <1>1. CASE Refuse(r) \/ RecordFails(r)
    <2>1. requests' \subseteq requests /\ ServiceTyped'
      BY <1>1 DEF Refuse, RecordFails, Takes, ClientInv, TypeOK, ServiceTyped
    <2>2. QED
      BY <1>0, <1>1, <2>1, ErrorPreserves DEF Refuse, RecordFails
  <1>2. QED
    BY <1>1, HitPreserves, MissPreserves, RecordPreserves DEF Serve

(* A loss, a crash or the cache takes something away; the logs are files.  *)
LEMMA FaultPreserves ==
  ASSUME ClientInv, LoseRequest \/ LoseReply \/ Crash \/ \E p \in Payloads : Forget(p)
  PROVE  ClientInv'
  <1>1. /\ UNCHANGED <<caller, decisionLog, feedbackLog>>
        /\ requests' \subseteq requests /\ replies' \subseteq replies
        /\ working' \subseteq working
    BY DEF LoseRequest, LoseReply, Crash, Forget, network, service
  <1>2. cache' \in [Payloads -> Nat \cup {Nothing}] /\ nextId' = nextId
    BY DEF LoseRequest, LoseReply, Crash, Forget, service, ClientInv, TypeOK
  <1>3. crashes' \in 0..MaxCrashes
    BY ClientAssumption DEF LoseRequest, LoseReply, Crash, Forget, service, ClientInv, TypeOK
  <1>4. TypeOK'
    BY <1>1, <1>2, <1>3 DEF ClientInv, TypeOK, caller
  <1>5. InBudget' /\ SentOnce' /\ Acknowledged' /\ Delivered'
    BY <1>1, ServiceMoves
  <1>6. QED
    BY <1>4, <1>5 DEF ClientInv

(* The invariant the other theorems rest on. *)
THEOREM ClientInvariant == Spec => []ClientInv
  <1>1. ClientInv /\ [Next]_vars => ClientInv'
    <2> SUFFICES ASSUME ClientInv, [Next]_vars
                 PROVE  ClientInv'
      OBVIOUS
    <2>1. CASE UNCHANGED vars
      <3>1. UNCHANGED <<stage, ended, result, requests, replies, working, cache, nextId,
                        decisionLog, feedbackLog, crashes>>
        BY <2>1 DEF vars, caller, network, service
      <3>2. QED
        BY <3>1 DEF ClientInv, TypeOK, InBudget, SentOnce, Acknowledged, Delivered,
                    Attempts, Retried, Target, Recorded, Logged
    <2>2. QED
      BY <2>1, ClientPreserves, ServePreserves, ComputePreserves, WorkerFailsPreserves,
         FaultPreserves DEF Next
  <1>2. QED
    BY <1>1, InitEstablishes, PTL DEF Spec

(* Every variable keeps its type: no call makes an attempt too many.       *)
THEOREM ClientTypeCorrect == Spec => []TypeOK
  <1>1. ClientInv => TypeOK
    BY DEF ClientInv
  <1>2. QED
    BY <1>1, ClientInvariant, PTL

(* A feedback call is recorded at most once. *)
THEOREM ClientFeedbackAtMostOnce == Spec => []FeedbackAtMostOnce
  <1>1. ClientInv => FeedbackAtMostOnce
    <2> SUFFICES ASSUME ClientInv, NEW k \in feedbackLog, NEW l \in feedbackLog,
                        k.request.call = l.request.call
                 PROVE  k = l
      BY DEF FeedbackAtMostOnce
    <2>1. k.request.attempt = l.request.attempt /\ k.id = l.id
      BY DEF ClientInv, SentOnce
    <2>2. /\ k \in [request : Requests, id : Nat] /\ l \in [request : Requests, id : Nat]
          /\ k.request \in Requests /\ l.request \in Requests
      BY DEF ClientInv, TypeOK
    <2>3. k.request = l.request
      BY <2>1, <2>2 DEF Requests
    <2>4. QED
      BY <2>1, <2>2, <2>3
  <1>2. QED
    BY <1>1, ClientInvariant, PTL

(* What a caller is told was recorded is in the log. *)
THEOREM ClientAckIsRecorded == Spec => []AckIsRecorded
  <1>1. ClientInv => AckIsRecorded
    BY DEF ClientInv, AckIsRecorded, Acknowledged, Recorded, SentOnce
  <1>2. QED
    BY <1>1, ClientInvariant, PTL

(* Feedback can be joined to a logged decision for the same payload.       *)
THEOREM ClientFeedbackJoins == Spec => []FeedbackJoins
  <1>1. ClientInv => FeedbackJoins
    <2> SUFFICES ASSUME ClientInv, NEW l \in feedbackLog
                 PROVE  Logged(About[l.request.call], l.id)
      BY DEF FeedbackJoins, Logged
    <2>1. /\ About[l.request.call] \in Classifications
          /\ stage[About[l.request.call]] = "returned"
          /\ l.id = result[About[l.request.call]]
      BY CallKinds DEF ClientInv, SentOnce, Target
    <2>2. QED
      BY <2>1 DEF ClientInv, Delivered
  <1>2. QED
    BY <1>1, ClientInvariant, PTL
=============================================================================
