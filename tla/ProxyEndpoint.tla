---------------------------- MODULE ProxyEndpoint ----------------------------
(***************************************************************************)
(* POST /v1/chat/completions (api.py:229-259) with the upstream call it    *)
(* makes (proxy.py:16-37): several requests at once, an upstream that acts *)
(* and answers in its own time, a network that loses either, and a process *)
(* that may crash.                                                         *)
(*                                                                         *)
(* A request has a caller; when its body comes, and what it holds, is the  *)
(* client's affair.  The handler awaits it, then a thread, then upstream.  *)
(* The decision does not influence what is forwarded.  Upstream is         *)
(* external: it acts on a request it gets (and charges for it), then       *)
(* answers, at its own pace, with some status and a body that is JSON or   *)
(* not.  The timeout of httpx is one of every single wait, so that an      *)
(* answer that keeps coming is waited for, however long it takes.          *)
(***************************************************************************)
EXTENDS FixedWindow, FiniteSets

CONSTANTS
  Requests,
  CallerOf,      \* the caller's key in the limiter
  Authentic,     \* the callers authenticate lets through
  Instants,      \* the seconds the clock may show
  MaxCrashes,    \* bound on the restarts
  Nothing

Callers == {CallerOf[r] : r \in Requests}

Replies == [status : {"success", "error"}, body : {"json", "text"}]

(* What a caller may get: a status, and upstream's body or the service's. *)
Outcomes ==
  [status : {"401", "422", "429", "500", "502", "broken", "success", "error"},
   body : {"own", "json"}]

ASSUME ProxyAssumption ==
  /\ IsFiniteSet(Requests)
  /\ DOMAIN CallerOf = Requests
  /\ Authentic \subseteq Callers
  /\ Instants \subseteq Nat /\ MaxCrashes \in Nat
  /\ Nothing \notin Outcomes \cup [window : Nat, epoch : Nat]

VARIABLES
  clock,
  windows,      \* rate_limiter._windows
  stage,        \* of each request: how far its handler is
  answer,       \* of each request: what its caller got
  upstream,     \* of each request: how far upstream is with it
  reply,        \* of each request: what upstream answered
  charged,      \* of each request: how often upstream acted on it
  counters,     \* proxy_requests_total and rate_limited_total
  asked,        \* history: of each request, when and in which process it met the limiter
  epoch         \* the process

handlers == <<stage, answer>>
other == <<upstream, reply, charged>>
vars == <<clock, windows, handlers, other, counters, asked, epoch>>

NoCounts == [proxied |-> 0, limited |-> 0]

Init ==
  /\ clock \in Instants
  /\ windows = [k \in Callers |-> NoSlot]
  /\ stage = [r \in Requests |-> "idle"]
  /\ answer = [r \in Requests |-> Nothing]
  /\ upstream = [r \in Requests |-> "unaware"]
  /\ reply = [r \in Requests |-> Nothing]
  /\ charged = [r \in Requests |-> 0]
  /\ counters = NoCounts
  /\ asked = [r \in Requests |-> Nothing]
  /\ epoch = 0

-----------------------------------------------------------------------------
Answers(r, status, body) ==
  /\ stage' = [stage EXCEPT ![r] = "answered"]
  /\ answer' = [answer EXCEPT ![r] = [status |-> status, body |-> body]]

Within(r) == Allows(windows[CallerOf[r]], clock)

(* Every call of a known caller is counted, unless there is no limit.      *)
CountsCall(r) ==
  /\ windows' = IF Unlimited THEN windows
                ELSE [windows EXCEPT ![CallerOf[r]] = Counted(@, clock)]
  /\ asked' = [asked EXCEPT ![r] = [window |-> WindowAt(clock), epoch |-> epoch]]

(* A token that is not ASCII makes compare_digest raise: a server error.   *)
Unauthorized(r) ==
  /\ stage[r] = "idle" /\ CallerOf[r] \notin Authentic
  /\ \E status \in {"401", "500"} : Answers(r, status, "own")
  /\ UNCHANGED <<clock, windows, other, counters, asked, epoch>>

TooManyRequests(r) ==
  /\ stage[r] = "idle" /\ CallerOf[r] \in Authentic
  /\ ~ Within(r)
  /\ CountsCall(r)
  /\ counters' = [counters EXCEPT !.limited = @ + 1]
  /\ Answers(r, "429", "own")
  /\ UNCHANGED <<clock, other, epoch>>

(* Bug: the limiter is asked for the record only. *)
BeginUnlimited(r) ==
  /\ stage[r] = "idle" /\ CallerOf[r] \in Authentic
  /\ CountsCall(r)
  /\ stage' = [stage EXCEPT ![r] = "reading"]
  /\ UNCHANGED <<clock, answer, other, counters, epoch>>

(* The handler has admitted the request and awaits its body. *)
Begin(r) ==
  /\ stage[r] = "idle" /\ CallerOf[r] \in Authentic
  /\ Within(r)
  /\ CountsCall(r)
  /\ stage' = [stage EXCEPT ![r] = "reading"]
  /\ UNCHANGED <<clock, answer, other, counters, epoch>>

(* The body has come, but is no JSON and request.json() raises: a server   *)
(* error; or it has no list of messages, or one that is too long: 422.     *)
BadBody(r) ==
  /\ stage[r] = "reading"
  /\ \E status \in {"422", "500"} : Answers(r, status, "own")
  /\ UNCHANGED <<clock, windows, other, counters, asked, epoch>>

(* The client leaves before its body is complete. *)
BodyCutOff(r) ==
  /\ stage[r] = "reading"
  /\ Answers(r, "broken", "own")
  /\ UNCHANGED <<clock, windows, other, counters, asked, epoch>>

(* The body has come and is in order; classify() runs in a thread. *)
ToWorker(r) ==
  /\ stage[r] = "reading"
  /\ stage' = [stage EXCEPT ![r] = "working"]
  /\ UNCHANGED <<clock, windows, answer, other, counters, asked, epoch>>

(* classify() raises: on messages no schema has checked, or on its own.    *)
WorkerFails(r) ==
  /\ stage[r] = "working"
  /\ Answers(r, "500", "own")
  /\ UNCHANGED <<clock, windows, other, counters, asked, epoch>>

(* Bug: the counter is left for the response. *)
ForwardUncounted(r) ==
  /\ stage[r] = "working"
  /\ stage' = [stage EXCEPT ![r] = "forwarding"]
  /\ upstream' = [upstream EXCEPT ![r] = "sent"]
  /\ UNCHANGED <<clock, windows, answer, reply, charged, counters, asked, epoch>>

Forward(r) ==
  /\ stage[r] = "working"
  /\ counters' = [counters EXCEPT !.proxied = @ + 1]
  /\ stage' = [stage EXCEPT ![r] = "forwarding"]
  /\ upstream' = [upstream EXCEPT ![r] = "sent"]
  /\ UNCHANGED <<clock, windows, answer, reply, charged, asked, epoch>>

-----------------------------------------------------------------------------
(* Upstream and the network: a request, or an answer, that is lost stays   *)
(* where it is for ever, for no fairness moves it.  An answer is under way *)
(* from its first byte on, and may stop coming.                            *)
Act(r) ==
  /\ upstream[r] = "sent"
  /\ charged' = [charged EXCEPT ![r] = @ + 1]
  /\ upstream' = [upstream EXCEPT ![r] = "acted"]
  /\ UNCHANGED <<clock, windows, handlers, reply, counters, asked, epoch>>

Start(r) ==
  /\ upstream[r] = "acted"
  /\ upstream' = [upstream EXCEPT ![r] = "answering"]
  /\ UNCHANGED <<clock, windows, handlers, reply, charged, counters, asked, epoch>>

Stall(r) ==
  /\ upstream[r] = "answering"
  /\ upstream' = [upstream EXCEPT ![r] = "stalled"]
  /\ UNCHANGED <<clock, windows, handlers, reply, charged, counters, asked, epoch>>

Reply(r) ==
  /\ upstream[r] = "answering"
  /\ upstream' = [upstream EXCEPT ![r] = "replied"]
  /\ \E x \in Replies : reply' = [reply EXCEPT ![r] = x]
  /\ UNCHANGED <<clock, windows, handlers, charged, counters, asked, epoch>>

Replied(r) == upstream[r] = "replied"

-----------------------------------------------------------------------------
(* What upstream's body becomes: JSON is passed on, else an error object. *)
Body(r) == IF reply[r].body = "json" THEN "json" ELSE "own"

(* Or nothing is, if the response cannot be made: a number JSON has not,   *)
(* a header that is not latin-1.                                           *)
Relay(r) ==
  /\ stage[r] = "forwarding"
  /\ Replied(r)
  /\ Answers(r, reply[r].status, Body(r)) \/ Answers(r, "500", "own")
  /\ UNCHANGED <<clock, windows, other, counters, asked, epoch>>

(* Bug: a timeout is taken for a request that never arrived. *)
UpstreamFailsRetrying(r) ==
  /\ stage[r] = "forwarding" /\ ~ Replied(r)
  /\ upstream' = [upstream EXCEPT ![r] = "sent"]
  /\ charged[r] < 2
  /\ UNCHANGED <<clock, windows, handlers, reply, charged, counters, asked, epoch>>

(* Bug: without a timeout only a refused connection is noticed. *)
UpstreamRefuses(r) ==
  /\ stage[r] = "forwarding" /\ upstream[r] = "sent"
  /\ Answers(r, "502", "own")
  /\ UNCHANGED <<clock, windows, other, counters, asked, epoch>>

(* httpx.HTTPError: a connection error, or a timeout, which no answer runs *)
(* into that keeps coming: 502.  Any other exception of httpx: 500.        *)
(* Upstream may have acted, or act yet.                                    *)
UpstreamFails(r) ==
  /\ stage[r] = "forwarding" /\ ~ Replied(r)
  /\ \E status \in {"502", "500"} : Answers(r, status, "own")
  /\ UNCHANGED <<clock, windows, other, counters, asked, epoch>>

Advance ==
  /\ \E t \in Instants : t > clock /\ clock' = t
  /\ UNCHANGED <<windows, handlers, other, counters, asked, epoch>>

(* The process dies and restarts; what it had begun is broken off. *)
Crash ==
  /\ epoch < MaxCrashes
  /\ epoch' = epoch + 1
  /\ windows' = [k \in Callers |-> NoSlot]
  /\ counters' = NoCounts
  /\ LET begun == {r \in Requests : stage[r] \in {"reading", "working", "forwarding"}} IN
       /\ stage' = [r \in Requests |-> IF r \in begun THEN "answered" ELSE stage[r]]
       /\ answer' = [r \in Requests |->
                       IF r \in begun THEN [status |-> "broken", body |-> "own"] ELSE answer[r]]
  /\ UNCHANGED <<clock, other, asked>>

Arrival(r) == Unauthorized(r) \/ TooManyRequests(r) \/ Begin(r)
Receiving(r) == BadBody(r) \/ BodyCutOff(r) \/ ToWorker(r)
Progress(r) == WorkerFails(r) \/ Forward(r) \/ Relay(r) \/ UpstreamFails(r)
Upstream(r) == Act(r) \/ Start(r) \/ Stall(r) \/ Reply(r)

Next ==
  \/ \E r \in Requests :
       Arrival(r) \/ Receiving(r) \/ Progress(r) \/ Upstream(r)
  \/ Advance \/ Crash

Spec == Init /\ [][Next]_vars

(* A worker returns or raises, an answer that is there is passed on, and a *)
(* wait for upstream in which nothing comes runs into the timeout: once    *)
(* the answer is under way, only a stall ends it so.  Nothing is assumed   *)
(* of clients or of upstream.                                              *)
Waits(r) == upstream[r] # "answering"

FairSpec == Spec /\ \A r \in Requests : WF_vars(Waits(r) /\ Progress(r))

-----------------------------------------------------------------------------
(* Type correctness. *)
TypeOK ==
  /\ clock \in Instants
  /\ windows \in [Callers -> Slots \cup {NoSlot}]
  /\ stage \in [Requests -> {"idle", "reading", "working", "forwarding", "answered"}]
  /\ answer \in [Requests -> Outcomes \cup {Nothing}]
  /\ upstream \in [Requests -> {"unaware", "sent", "acted", "answering", "stalled", "replied"}]
  /\ reply \in [Requests -> Replies \cup {Nothing}]
  /\ charged \in [Requests -> Nat]
  /\ counters \in [proxied : Nat, limited : Nat]
  /\ asked \in [Requests -> [window : Nat, epoch : Nat] \cup {Nothing}]
  /\ epoch \in 0..MaxCrashes

(* A request is sent upstream once: a timeout, which may come after        *)
(* upstream has acted, is not answered by sending it again                 *)
(* (proxy.py:24-32).                                                       *)
ChargedAtMostOnce == \A r \in Requests : charged[r] <= 1

(* What one caller can make upstream charge for, by requests admitted      *)
(* within one window of one process, is within the caller's quota,         *)
(* though upstream may act much later (api.py:232-233, 247).               *)
ChargesWithinQuota ==
  ~ Unlimited =>
    \A k \in Callers : \A a \in {asked[r] : r \in Requests} \ {Nothing} :
      Cardinality({r \in Requests : CallerOf[r] = k /\ asked[r] = a /\ charged[r] > 0})
        <= Limit

(* proxy_requests_total is the number of requests this process has handed  *)
(* to upstream, rate_limited_total of those it refused: the two and the    *)
(* answers agree however the requests end (api.py:150, 244).               *)
CountersTrue ==
  LET here(r) == asked[r] # Nothing /\ asked[r].epoch = epoch
      refused(r) == answer[r] # Nothing /\ answer[r].status = "429"
  IN  /\ counters.limited = Cardinality({r \in Requests : here(r) /\ refused(r)})
      /\ counters.proxied = Cardinality({r \in Requests : here(r) /\ upstream[r] # "unaware"})

(* No request hangs by the service's own doing: one that was begun ends,   *)
(* with an answer or a broken connection, unless its client withholds the  *)
(* body for ever or upstream never stops answering, for which the code has *)
(* no timeout (api.py:234, proxy.py:24-32).                                *)
EveryRequestEnds ==
  \A r \in Requests :
    ([]<>(stage[r] # "reading") /\ []<>(upstream[r] # "answering"))
      => (stage[r] # "idle" ~> stage[r] = "answered")
=============================================================================
