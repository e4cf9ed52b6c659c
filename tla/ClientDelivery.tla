---------------------------- MODULE ClientDelivery ----------------------------
(***************************************************************************)
(* PreclassifierClient (client.py:58-123) against the classify and         *)
(* feedback endpoints over a network that loses, delays and overtakes.     *)
(*                                                                         *)
(* A call sends one request per attempt.  The client gives an attempt up   *)
(* at any time (httpx: a connection error or a timeout, which look the     *)
(* same to the caller), while the request may still be on its way, or      *)
(* answered, or lost.  The service is ClassifyService seen from outside:   *)
(* it refuses a request, answers it from the cache, or lets a worker       *)
(* decide while other requests come in, and fails before or after its      *)
(* decision has entered the cache, which forgets.  Feedback is handled as  *)
(* in api.py:220-227.  A crash empties the cache and takes the workers     *)
(* with it; the two logs are files.                                        *)
(***************************************************************************)
EXTENDS Integers, FiniteSets

CONSTANTS
  Classifications,   \* the classify calls the callers make
  Feedbacks,         \* their feedback calls
  About,             \* the classify call whose decision a feedback is about
  Payload,           \* what a classify call sends
  MaxRetries,        \* the client's max_retries
  MaxCrashes,        \* bound on the restarts of the service
  Nothing            \* neither decision nor reply

Calls == Classifications \cup Feedbacks

ASSUME ClientAssumption ==
  /\ IsFiniteSet(Calls) /\ Classifications \cap Feedbacks = {}
  /\ About \in [Feedbacks -> Classifications]
  /\ DOMAIN Payload = Classifications
  /\ MaxRetries \in Nat /\ MaxCrashes \in Nat
  /\ Nothing \notin Nat

VARIABLES
  stage,        \* of each call: where _request is
  ended,        \* of each call: the attempts that have ended
  result,       \* of each call: the decision or record it returned
  requests,     \* the requests on their way to the service
  replies,      \* the replies on their way to the client
  working,      \* the classify requests that missed the cache
  cache,        \* of each payload: the id of the cached decision
  nextId,       \* the next unused decision id
  decisionLog,  \* the lines of the decision log
  feedbackLog,  \* the lines of the feedback log
  crashes       \* the restarts so far

caller == <<stage, ended, result>>
network == <<requests, replies>>
service == <<working, cache, nextId, decisionLog, feedbackLog, crashes>>
vars == <<caller, network, service>>

Payloads == {Payload[c] : c \in Classifications}

(* Bug: feedback is retried like everything else. *)
RetriedAlways(c) == TRUE

(* classify passes retry=True, feedback retry=False. *)
Retried(c) == c \in Classifications

Attempts(c) == IF Retried(c) THEN MaxRetries + 1 ELSE 1

(* The request an attempt of a call sends, and the attempt under way.      *)
Request(c, n) == [call |-> c, attempt |-> n]

Current(c) == Request(c, ended[c] + 1)

Requests == [call : Calls, attempt : 1..(MaxRetries + 1)]

(* A feedback call sends the id its classify call returned. *)
Target(f) == result[About[f]]

Init ==
  /\ stage = [c \in Calls |-> "idle"]
  /\ ended = [c \in Calls |-> 0]
  /\ result = [c \in Calls |-> Nothing]
  /\ requests = {} /\ replies = {}
  /\ working = {}
  /\ cache = [p \in Payloads |-> Nothing]
  /\ nextId = 1
  /\ decisionLog = {} /\ feedbackLog = {}
  /\ crashes = 0

-----------------------------------------------------------------------------
(* The client. *)
Sends(c) ==
  /\ stage' = [stage EXCEPT ![c] = "waiting"]
  /\ requests' = requests \cup {Current(c)}

Begin(c) ==
  /\ stage[c] = "idle"
  /\ c \in Feedbacks => stage[About[c]] = "returned"
  /\ Sends(c)
  /\ UNCHANGED <<ended, result, replies, service>>

(* The attempt has ended; its request no longer has a connection. *)
Ended(c) ==
  /\ stage[c] = "waiting"
  /\ ended' = [ended EXCEPT ![c] = @ + 1]

(* Sleep before the next attempt, or give up after the last. *)
Backoff(c) ==
  stage' = [stage EXCEPT ![c] =
              IF ended[c] + 1 < Attempts(c) THEN "sleeping" ELSE "raised"]

Answered(c, reply) ==
  /\ reply \in replies
  /\ reply.to = Current(c)
  /\ replies' = replies \ {reply}

ReceiveSuccess(c) ==
  \E reply \in replies :
    /\ reply.status = "ok"
    /\ Answered(c, reply)
    /\ Ended(c)
    /\ stage' = [stage EXCEPT ![c] = "returned"]
    /\ result' = [result EXCEPT ![c] = reply.body]
    /\ UNCHANGED <<requests, service>>

(* The body is no JSON, or not of the shape expected (client.py:70,94,119); *)
(* what was answered on the way is not known to be the service's.          *)
ReceiveUnreadable(c) ==
  \E reply \in replies :
    /\ reply.status = "ok"
    /\ Answered(c, reply)
    /\ Ended(c)
    /\ stage' = [stage EXCEPT ![c] = "raised"]
    /\ UNCHANGED <<result, requests, service>>

(* 4xx *)
ReceiveRefusal(c) ==
  \E reply \in replies :
    /\ reply.status = "refused"
    /\ Answered(c, reply)
    /\ Ended(c)
    /\ stage' = [stage EXCEPT ![c] = "raised"]
    /\ UNCHANGED <<result, requests, service>>

(* 5xx *)
ReceiveFailure(c) ==
  \E reply \in replies :
    /\ reply.status = "failed"
    /\ Answered(c, reply)
    /\ Ended(c)
    /\ Backoff(c)
    /\ UNCHANGED <<result, requests, service>>

(* Bug: without a timeout only a connection that fails at once is noticed. *)
BreakAtConnect(c) ==
  /\ Current(c) \in requests
  /\ Ended(c)
  /\ Backoff(c)
  /\ requests' = requests \ {Current(c)}
  /\ UNCHANGED <<result, replies, service>>

(* httpx.HTTPError: a connection error or a timeout.  What was sent may    *)
(* still arrive; its reply finds nobody.                                   *)
Break(c) ==
  /\ Ended(c)
  /\ Backoff(c)
  /\ replies' = {reply \in replies : reply.to # Current(c)}
  /\ UNCHANGED <<result, requests, service>>

Retry(c) ==
  /\ stage[c] = "sleeping"
  /\ Sends(c)
  /\ UNCHANGED <<ended, result, replies, service>>

-----------------------------------------------------------------------------
(* The network. *)
LoseRequest ==
  /\ \E r \in requests : requests' = requests \ {r}
  /\ UNCHANGED <<caller, replies, service>>

LoseReply ==
  /\ \E r \in replies : replies' = replies \ {r}
  /\ UNCHANGED <<caller, requests, service>>

-----------------------------------------------------------------------------
(* The service. *)
Takes(r) ==
  r \in requests /\ requests' = requests \ {r} /\ UNCHANGED working

Resumes(r) ==
  r \in working /\ working' = working \ {r} /\ UNCHANGED requests

Listens(r) == stage[r.call] = "waiting" /\ r = Current(r.call)

Replies(r, status, body) ==
  /\ replies' = IF Listens(r) THEN replies \cup {[to |-> r, status |-> status, body |-> body]}
                ELSE replies
  /\ UNCHANGED <<caller, crashes>>

(* 401, 422 or 429: nothing is recorded. *)
Refuse(r) ==
  /\ Takes(r)
  /\ Replies(r, "refused", Nothing)
  /\ UNCHANGED <<cache, nextId, decisionLog, feedbackLog>>

Line(r, id) == [request |-> r, id |-> id]

(* Bug: a log that cannot be written does not keep the decision back. *)
AnswerUnlogged(r, id) ==
  /\ Replies(r, "ok", id)
  /\ decisionLog' \in {decisionLog, decisionLog \cup {Line(r, id)}}
  /\ UNCHANGED feedbackLog

(* The response comes after the log line, if that can be written           *)
(* (api.py:189-193).                                                       *)
Answer(r, id) ==
  /\ \/ Replies(r, "ok", id) /\ decisionLog' = decisionLog \cup {Line(r, id)}
     \/ Replies(r, "failed", Nothing) /\ UNCHANGED decisionLog
  /\ UNCHANGED feedbackLog

Cached(r) == cache[Payload[r.call]]

CacheHit(r) ==
  /\ r.call \in Classifications
  /\ Cached(r) # Nothing
  /\ Takes(r)
  /\ Answer(r, Cached(r))
  /\ UNCHANGED <<cache, nextId>>

CacheMiss(r) ==
  /\ r.call \in Classifications
  /\ Cached(r) = Nothing
  /\ r \in requests
  /\ requests' = requests \ {r}
  /\ working' = working \cup {r}
  /\ UNCHANGED <<caller, replies, cache, nextId, decisionLog, feedbackLog, crashes>>

(* The put overwrites what other misses have put meanwhile. *)
Compute(r) ==
  /\ Resumes(r)
  /\ nextId' = nextId + 1
  /\ cache' = [cache EXCEPT ![Payload[r.call]] = nextId]
  /\ Answer(r, nextId)

WorkerFails(r) ==
  /\ Resumes(r)
  /\ Replies(r, "failed", Nothing)
  /\ UNCHANGED <<cache, nextId, decisionLog, feedbackLog>>

(* The entry expires, or another one needs its place. *)
Forget(p) ==
  /\ cache[p] # Nothing
  /\ cache' = [cache EXCEPT ![p] = Nothing]
  /\ UNCHANGED <<caller, network, working, nextId, decisionLog, feedbackLog, crashes>>

(* Bug: the acknowledgement does not wait for the line. *)
RecordLater(r) ==
  /\ r.call \in Feedbacks
  /\ Takes(r)
  /\ Replies(r, "ok", Target(r.call))
  /\ feedbackLog' \in {feedbackLog, feedbackLog \cup {Line(r, Target(r.call))}}
  /\ UNCHANGED <<cache, nextId, decisionLog>>

Record(r) ==
  /\ r.call \in Feedbacks
  /\ Takes(r)
  /\ Replies(r, "ok", Target(r.call))
  /\ feedbackLog' = feedbackLog \cup {Line(r, Target(r.call))}
  /\ UNCHANGED <<cache, nextId, decisionLog>>

RecordFails(r) ==
  /\ r.call \in Feedbacks
  /\ Takes(r)
  /\ Replies(r, "failed", Nothing)
  /\ UNCHANGED <<cache, nextId, decisionLog, feedbackLog>>

(* The process dies and comes back; its connections are gone. *)
Crash ==
  /\ crashes < MaxCrashes
  /\ crashes' = crashes + 1
  /\ working' = {}
  /\ cache' = [p \in Payloads |-> Nothing]
  /\ replies' = {}
  /\ UNCHANGED <<caller, requests, nextId, decisionLog, feedbackLog>>

Attempt(c) ==
  \/ ReceiveSuccess(c) \/ ReceiveUnreadable(c) \/ ReceiveRefusal(c) \/ ReceiveFailure(c)
  \/ Break(c)

Serve(r) == Refuse(r) \/ CacheHit(r) \/ CacheMiss(r) \/ Record(r) \/ RecordFails(r)

Next ==
  \/ \E c \in Calls : Begin(c) \/ Attempt(c) \/ Retry(c)
  \/ \E r \in requests : Serve(r)
  \/ \E r \in working : Compute(r) \/ WorkerFails(r)
  \/ \E p \in Payloads : Forget(p)
  \/ LoseRequest \/ LoseReply \/ Crash

Spec == Init /\ [][Next]_vars

(* An attempt ends: httpx has a timeout.  A sleep ends.  Nothing is        *)
(* assumed of the network or of the service.                               *)
FairSpec ==
  /\ Spec
  /\ \A c \in Calls : WF_vars(Attempt(c)) /\ WF_vars(Retry(c))

-----------------------------------------------------------------------------
(* Type correctness; an attempt's number stays in the range of the loop. *)
TypeOK ==
  /\ stage \in [Calls -> {"idle", "waiting", "sleeping", "returned", "raised"}]
  /\ ended \in [Calls -> 0..(MaxRetries + 1)]
  /\ result \in [Calls -> Nat \cup {Nothing}]
  /\ requests \subseteq Requests
  /\ \A reply \in replies :
       /\ reply.to \in Requests
       /\ reply.status \in {"ok", "refused", "failed"}
       /\ reply.body \in Nat \cup {Nothing}
  /\ working \subseteq {r \in Requests : r.call \in Classifications}
  /\ cache \in [Payloads -> Nat \cup {Nothing}]
  /\ nextId \in Nat \ {0}
  /\ decisionLog \subseteq [request : Requests, id : Nat]
  /\ feedbackLog \subseteq [request : Requests, id : Nat]
  /\ crashes \in 0..MaxCrashes

(* A feedback call is recorded at most once, whatever is lost, delayed or  *)
(* answered late: "a retry after an ambiguous failure could record a       *)
(* correction twice" (client.py:23-24, 93).                                *)
FeedbackAtMostOnce ==
  \A k, l \in feedbackLog : k.request.call = l.request.call => k = l

(* What a caller is told was recorded is in the log, for the decision it   *)
(* was about, crashes included (api.py:225-227).                           *)
AckIsRecorded ==
  \A f \in Feedbacks :
    stage[f] = "returned" =>
      \E l \in feedbackLog : l.request.call = f /\ l.id = Target(f)

(* The two logs can be joined: a correction of a decision the client got   *)
(* from classify names one the decision log has, for the same payload,     *)
(* though logging it may have failed for an earlier attempt (api.py:190).  *)
FeedbackJoins ==
  \A l \in feedbackLog :
    \E d \in decisionLog :
      /\ d.id = l.id
      /\ Payload[d.request.call] = Payload[About[l.request.call]]

(* Every call comes back to its caller, with an unreachable service too.   *)
EveryCallEnds ==
  \A c \in Calls : stage[c] = "waiting" ~> stage[c] \in {"returned", "raised"}
-----------------------------------------------------------------------------
(* Why the three hold.  A call has attempts left while it is under way.    *)
InBudget ==
  \A c \in Calls :
    stage[c] \in {"idle", "waiting", "sleeping"} => ended[c] < Attempts(c)

(* Feedback is sent in one attempt, about a decision its caller holds, and *)
(* the caller never gets another decision from the same call.              *)
SentOnce ==
  /\ \A f \in Feedbacks : stage[f] # "sleeping"
  /\ \A r \in requests :
       r.call \in Feedbacks => r.attempt = 1 /\ stage[About[r.call]] = "returned"
  /\ \A l \in feedbackLog :
       /\ l.request.call \in Feedbacks /\ l.request.attempt = 1
       /\ stage[About[l.request.call]] = "returned"
       /\ l.id = Target(l.request.call)

Recorded(f) == \E l \in feedbackLog : l.request.call = f

(* An acknowledgement, on its way or received, has a line behind it. *)
Acknowledged ==
  /\ \A reply \in replies :
       reply.status = "ok" /\ reply.to.call \in Feedbacks => Recorded(reply.to.call)
  /\ \A f \in Feedbacks : stage[f] = "returned" => Recorded(f)

Logged(c, id) ==
  \E d \in decisionLog : d.id = id /\ Payload[d.request.call] = Payload[c]

(* So has a decision. *)
Delivered ==
  /\ \A reply \in replies :
       reply.status = "ok" /\ reply.to.call \in Classifications =>
         Logged(reply.to.call, reply.body)
  /\ \A c \in Classifications : stage[c] = "returned" => Logged(c, result[c])

ClientInv == TypeOK /\ InBudget /\ SentOnce /\ Acknowledged /\ Delivered
=============================================================================
