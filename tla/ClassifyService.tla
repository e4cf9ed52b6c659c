--------------------------- MODULE ClassifyService ---------------------------
(***************************************************************************)
(* POST /v1/classify as create_app() wires it: authentication, the rate    *)
(* limit, the message limit, the cache, classify() in the thread pool, the *)
(* counters and the decision log, for any number of requests at once.      *)
(*                                                                         *)
(* The handler is a coroutine with one await, on the thread pool.  The     *)
(* event loop runs it without interruption up to that await, from it to    *)
(* its return, and then sends the response: each such stretch is one       *)
(* action.  Between them, other requests, the clock and a crash may do     *)
(* anything.                                                               *)
(*                                                                         *)
(* A request r is a client's call and is made once.  Its record keeps what *)
(* the client knows (caller, payload, status, decision) and how far the    *)
(* handler has come; `at', `boot' and `hit' are history.                   *)
(***************************************************************************)
EXTENDS LruTtlCache, FixedWindow, Conversation, Classifier, FiniteSets

CONSTANTS
  Requests,      \* the requests of a behaviour
  Payloads,      \* the payloads they may carry
  Callers,       \* [bearer, host]: who sends them
  ApiKeys,       \* CLIENT_API_KEYS; empty: authentication is off
  NoBearer,      \* no "Bearer " prefix in the Authorization header
  MaxMessages,   \* MAX_MESSAGES
  ActivePolicy,  \* the policy loaded at startup
  ReadingOf,     \* ReadingOf[t]: what patterns and models read in text t
  LogDecisions,  \* LOG_DECISIONS
  PoolSize,      \* threads of the worker pool
  Instants,      \* the seconds the clock may show; the bound on time
  MaxCrashes,    \* bound on crashes
  Nothing        \* no caller, payload or decision

Credentials == {c.bearer : c \in Callers} \ {NoBearer}
LimitKeys == Credentials \cup {c.host : c \in Callers}
Ids == 1..Cardinality(Requests)

ASSUME ServiceAssumption ==
  /\ IsFiniteSet(Requests)
  /\ \A p \in Payloads : IsPayload(p)
  /\ ActivePolicy \in Policy
  /\ ReadingOf \in [Texts -> Reading]
  /\ LogDecisions \in BOOLEAN
  /\ PoolSize \in Nat \ {0}
  /\ MaxMessages \in Nat \ {0}
  /\ Instants \subseteq Nat
  /\ MaxCrashes \in Nat
  /\ Nothing \notin Payloads \cup Callers
  /\ Nothing \notin [id : Ids, says : Decision]
  /\ Nothing \notin [payload : Payloads, decision : [id : Ids, says : Decision]]
  /\ NoBearer \notin ApiKeys

VARIABLES
  clock,        \* time.monotonic(), for the cache and the limiter
  entries,      \* the cache
  windows,      \* the rate limiter's slots
  metrics,      \* the counters behind /status
  calls,        \* calls[r]: request r and its handler
  waiting,      \* handlers waiting for a thread, first come first served
  issued,       \* how many decision ids were made: ids are distinct
  decisionLog,  \* decisionLog[d]: lines about decision d in the JSONL file
  boots         \* how often the process was restarted

vars == <<clock, entries, windows, metrics, calls, waiting, issued, decisionLog, boots>>

-----------------------------------------------------------------------------
NoCounts == [total |-> 0, computed |-> 0, hits |-> 0, logged |-> 0, limited |-> 0]

NotMade ==
  [stage |-> "idle", caller |-> Nothing, payload |-> Nothing, decision |-> Nothing,
   status |-> 0, at |-> 0, boot |-> 0, hit |-> FALSE]

Init ==
  /\ clock \in Instants
  /\ entries = <<>>
  /\ windows = [k \in LimitKeys |-> NoSlot]
  /\ metrics = NoCounts
  /\ calls = [r \in Requests |-> NotMade]
  /\ waiting = <<>>
  /\ issued = 0
  /\ decisionLog = [d \in Ids |-> 0]
  /\ boots = 0

(* The decision classify() makes about a payload, but for its id. *)
DecisionFor[p \in Payloads] ==
  LET input == ClassifierInput(p)
  IN  Decide(ActivePolicy, ReadingOf[input.text], input.tools, input.flagged)

Authentic(c) == ApiKeys = {} \/ c.bearer \in ApiKeys

(* Only the header decides, whether authentication is on or off. *)
LimitKey(c) == IF c.bearer # NoBearer THEN c.bearer ELSE c.host

(* Bug: a worker that failed keeps its thread. *)
BusyForEver ==
  {r \in Requests : calls[r].stage \in {"running", "computed", "failed"} \/ calls[r].status = 500}

(* Threads are given back when the coroutine resumes, not when the worker  *)
(* is done.                                                                *)
Busy == {r \in Requests : calls[r].stage \in {"running", "computed", "failed"}}

(* A request that c has just made with payload p. *)
Made(c, p) ==
  [NotMade EXCEPT !.stage = "queued", !.caller = c, !.payload = p, !.at = clock, !.boot = boots]

(* The handler has returned this decision; the response is yet to be sent. *)
Answering(call, d) == [call EXCEPT !.stage = "answering", !.decision = d]

(* The request ends with this status; d is what its handler returned.      *)
Settled(call, status, d) ==
  [call EXCEPT !.stage = "settled", !.status = status, !.decision = d]

Arrives(r) == calls[r].stage = "idle"

RateLimited(c) ==
  windows' = IF Unlimited THEN windows
             ELSE [windows EXCEPT ![LimitKey(c)] = Counted(@, clock)]

Admits(c) ==
  /\ Authentic(c)
  /\ Allows(windows[LimitKey(c)], clock)
  /\ RateLimited(c)

-----------------------------------------------------------------------------
(* Bug: the limit comes before the authentication. *)
UnauthorizedCounted(r, c, p) ==
  /\ Arrives(r)
  /\ ~ Authentic(c)
  /\ RateLimited(c)
  /\ calls' = [calls EXCEPT ![r] = Settled(Made(c, p), 401, Nothing)]
  /\ UNCHANGED <<clock, entries, metrics, waiting, issued, decisionLog, boots>>

(* A token that is not ASCII makes compare_digest raise: a server error.   *)
Unauthorized(r, c, p) ==
  /\ Arrives(r)
  /\ ~ Authentic(c)
  /\ \E status \in IF c.bearer = NoBearer THEN {401} ELSE {401, 500} :
       calls' = [calls EXCEPT ![r] = Settled(Made(c, p), status, Nothing)]
  /\ UNCHANGED <<clock, entries, windows, metrics, waiting, issued, decisionLog, boots>>

TooManyRequests(r, c, p) ==
  /\ Arrives(r)
  /\ Authentic(c)
  /\ ~ Allows(windows[LimitKey(c)], clock)
  /\ RateLimited(c)
  /\ metrics' = [metrics EXCEPT !.limited = @ + 1]
  /\ calls' = [calls EXCEPT ![r] = Settled(Made(c, p), 429, Nothing)]
  /\ UNCHANGED <<clock, entries, waiting, issued, decisionLog, boots>>

(* Bug: the message limit comes before the rate limit. *)
TooManyMessagesFree(r, c, p) ==
  /\ Arrives(r)
  /\ Authentic(c)
  /\ Len(p.messages) > MaxMessages
  /\ calls' = [calls EXCEPT ![r] = Settled(Made(c, p), 422, Nothing)]
  /\ UNCHANGED <<clock, entries, windows, metrics, waiting, issued, decisionLog, boots>>

TooManyMessages(r, c, p) ==
  /\ Arrives(r)
  /\ Admits(c)
  /\ Len(p.messages) > MaxMessages
  /\ calls' = [calls EXCEPT ![r] = Settled(Made(c, p), 422, Nothing)]
  /\ UNCHANGED <<clock, entries, metrics, waiting, issued, decisionLog, boots>>

(* A content that passes the schema but holds no text: the cache key       *)
(* cannot be made and the handler raises.                                  *)
NoCacheKey(r, c, p) ==
  /\ Arrives(r)
  /\ Admits(c)
  /\ Len(p.messages) <= MaxMessages
  /\ ~ Keyed(p.messages)
  /\ calls' = [calls EXCEPT ![r] = Settled(Made(c, p), 500, Nothing)]
  /\ UNCHANGED <<clock, entries, metrics, waiting, issued, decisionLog, boots>>

(* Bug: a failing log write is swallowed. *)
AnswerAnyway(r, call, d, counted) ==
  /\ metrics' = [counted EXCEPT !.total = @ + 1, !.logged = @ + (IF LogDecisions THEN 1 ELSE 0)]
  /\ calls' = [calls EXCEPT ![r] = Answering(call, d)]
  /\ \/ decisionLog' = [decisionLog EXCEPT ![d.id] = @ + 1]
     \/ UNCHANGED decisionLog

(* Bug: the total is counted after the log line. *)
AnswerCountedLast(r, call, d, counted) ==
  \/ /\ decisionLog' = [decisionLog EXCEPT ![d.id] = @ + 1]
     /\ metrics' = [counted EXCEPT !.total = @ + 1, !.logged = @ + 1]
     /\ calls' = [calls EXCEPT ![r] = Answering(call, d)]
  \/ /\ metrics' = counted
     /\ calls' = [calls EXCEPT ![r] = Settled(call, 500, Nothing)]
     /\ UNCHANGED decisionLog

(* The end of the handler: counters, then the log line.  A write that      *)
(* fails turns the response into an error, after the cache and the         *)
(* counters have changed.                                                  *)
Answer(r, call, d, counted) ==
  \/ /\ LogDecisions
     /\ decisionLog' = [decisionLog EXCEPT ![d.id] = @ + 1]
     /\ metrics' = [counted EXCEPT !.total = @ + 1, !.logged = @ + 1]
     /\ calls' = [calls EXCEPT ![r] = Answering(call, d)]
  \/ /\ LogDecisions
     /\ metrics' = [counted EXCEPT !.total = @ + 1]
     /\ calls' = [calls EXCEPT ![r] = Settled(call, 500, Nothing)]
     /\ UNCHANGED decisionLog
  \/ /\ ~ LogDecisions
     /\ metrics' = [counted EXCEPT !.total = @ + 1]
     /\ calls' = [calls EXCEPT ![r] = Answering(call, d)]
     /\ UNCHANGED decisionLog

CacheHit(r, c, p) ==
  /\ Arrives(r)
  /\ Admits(c)
  /\ Len(p.messages) <= MaxMessages
  /\ Keyed(p.messages)
  /\ Hits(entries, CacheKey(p), clock)
  /\ entries' = AfterGet(entries, CacheKey(p), clock)
  /\ Answer(r, [Made(c, p) EXCEPT !.hit = TRUE],
            EntryOf(entries, CacheKey(p)).value, [metrics EXCEPT !.hits = @ + 1])
  /\ UNCHANGED <<clock, waiting, issued, boots>>

CacheMiss(r, c, p) ==
  /\ Arrives(r)
  /\ Admits(c)
  /\ Len(p.messages) <= MaxMessages
  /\ Keyed(p.messages)
  /\ ~ Hits(entries, CacheKey(p), clock)
  /\ entries' = AfterGet(entries, CacheKey(p), clock)
  /\ calls' = [calls EXCEPT ![r] = Made(c, p)]
  /\ waiting' = Append(waiting, r)
  /\ UNCHANGED <<clock, metrics, issued, decisionLog, boots>>

StartWork ==
  /\ waiting # <<>>
  /\ Cardinality(Busy) < PoolSize
  /\ calls' = [calls EXCEPT ![Head(waiting)].stage = "running"]
  /\ waiting' = Tail(waiting)
  /\ UNCHANGED <<clock, entries, windows, metrics, issued, decisionLog, boots>>

(* Bug: decisions are numbered by a counter of the process. *)
ComputeNumbered(r) ==
  /\ calls[r].stage = "running"
  /\ Classifiable(calls[r].payload.messages)
  /\ issued' = issued + 1
  /\ calls' = [calls EXCEPT ![r].stage = "computed",
                            ![r].decision = [id |-> metrics.computed + 1,
                                             says |-> DecisionFor[calls[r].payload]]]
  /\ UNCHANGED <<clock, entries, windows, metrics, waiting, decisionLog, boots>>

(* classify() in a worker thread.  The decision gets a fresh id. *)
Compute(r) ==
  /\ calls[r].stage = "running"
  /\ Classifiable(calls[r].payload.messages)
  /\ issued' = issued + 1
  /\ calls' = [calls EXCEPT ![r].stage = "computed",
                            ![r].decision = [id |-> issued + 1,
                                             says |-> DecisionFor[calls[r].payload]]]
  /\ UNCHANGED <<clock, entries, windows, metrics, waiting, decisionLog, boots>>

(* classify() raises: a model file that is missing or broken, an embedder  *)
(* that fails, a user message that holds no text.                          *)
WorkerFails(r) ==
  /\ calls[r].stage = "running"
  /\ calls' = [calls EXCEPT ![r].stage = "failed"]
  /\ UNCHANGED <<clock, entries, windows, metrics, waiting, issued, decisionLog, boots>>

(* The coroutine resumes.  The cache may have changed since it missed.     *)
Resume(r) ==
  /\ calls[r].stage = "computed"
  /\ entries' = AfterPut(entries, CacheKey(calls[r].payload), calls[r].decision, clock)
  /\ Answer(r, calls[r], calls[r].decision, [metrics EXCEPT !.computed = @ + 1])
  /\ UNCHANGED <<clock, windows, waiting, issued, boots>>

ResumeFailed(r) ==
  /\ calls[r].stage = "failed"
  /\ calls' = [calls EXCEPT ![r] = Settled(@, 500, Nothing)]
  /\ UNCHANGED <<clock, entries, windows, metrics, waiting, issued, decisionLog, boots>>

(* The response goes out. *)
Respond(r) ==
  /\ calls[r].stage = "answering"
  /\ calls' = [calls EXCEPT ![r] = Settled(@, 200, @.decision)]
  /\ UNCHANGED <<clock, entries, windows, metrics, waiting, issued, decisionLog, boots>>

Advance ==
  /\ \E t \in Instants : t > clock /\ clock' = t
  /\ UNCHANGED <<entries, windows, metrics, calls, waiting, issued, decisionLog, boots>>

InFlight == {r \in Requests : calls[r].stage \notin {"idle", "settled"}}

Unsent(call) == IF call.stage = "answering" THEN call.decision ELSE Nothing

(* The process dies and is started again: the cache, the windows and the   *)
(* counters start empty, the log file stays, and the client of a request   *)
(* in flight sees the connection break.  A decision that was returned but  *)
(* not sent is kept as history.                                            *)
Crash ==
  /\ boots < MaxCrashes
  /\ boots' = boots + 1
  /\ entries' = <<>>
  /\ windows' = [k \in LimitKeys |-> NoSlot]
  /\ metrics' = NoCounts
  /\ waiting' = <<>>
  /\ calls' = [r \in Requests |->
                 IF r \in InFlight
                   THEN Settled(calls[r], 0, Unsent(calls[r]))
                   ELSE calls[r]]
  /\ UNCHANGED <<clock, issued, decisionLog>>

Arrival(r) ==
  \E c \in Callers, p \in Payloads :
    \/ Unauthorized(r, c, p)
    \/ TooManyRequests(r, c, p)
    \/ TooManyMessages(r, c, p)
    \/ NoCacheKey(r, c, p)
    \/ CacheHit(r, c, p)
    \/ CacheMiss(r, c, p)

Work(r) == Compute(r) \/ WorkerFails(r)

Resumption(r) == Resume(r) \/ ResumeFailed(r) \/ Respond(r)

Next ==
  \/ \E r \in Requests : Arrival(r) \/ Work(r) \/ Resumption(r)
  \/ StartWork
  \/ Advance
  \/ Crash

Spec == Init /\ [][Next]_vars

(* The pool hands a free thread to the first waiter, a call of classify()  *)
(* returns or raises, and the event loop resumes a coroutine whose result  *)
(* is there and sends what it returned.  Nothing obliges clients to call,  *)
(* time to pass or the process to crash.                                   *)
FairSpec ==
  /\ Spec
  /\ WF_vars(StartWork)
  /\ \A r \in Requests : WF_vars(Work(r)) /\ WF_vars(Resumption(r))

-----------------------------------------------------------------------------
DecisionRecord == [id : Ids, says : Decision]

Stages == {"idle", "queued", "running", "computed", "failed", "answering", "settled"}

Statuses == {0, 200, 401, 422, 429, 500}

Call ==
  [stage : Stages, caller : Callers \cup {Nothing}, payload : Payloads \cup {Nothing},
   decision : DecisionRecord \cup {Nothing}, status : Statuses,
   at : Nat, boot : Nat, hit : BOOLEAN]

CacheKeys == {CacheKey(p) : p \in Payloads}

Counts == [total : Nat, computed : Nat, hits : Nat, logged : Nat, limited : Nat]

(* What a handler's local variables hold at each of its stages. *)
Consistent(call) ==
  /\ call.stage # "idle" => call.caller # Nothing /\ call.payload # Nothing
  /\ (call.stage \in {"computed", "answering"} \/ call.status = 200) => call.decision # Nothing
  /\ call.decision # Nothing =>
       call.stage \in {"computed", "answering"} \/ (call.stage = "settled" /\ call.status \in {0, 200})
  /\ call.stage # "settled" => call.status = 0

(* Type correctness. *)
TypeOK ==
  /\ clock \in Instants
  /\ entries \in Seq(EntrySet(CacheKeys, DecisionRecord))
  /\ windows \in [LimitKeys -> Slots \cup {NoSlot}]
  /\ metrics \in Counts
  /\ calls \in [Requests -> Call]
  /\ \A r \in Requests : Consistent(calls[r])
  /\ waiting \in Seq(Requests)
  /\ issued \in Nat
  /\ decisionLog \in [Ids -> Nat]
  /\ boots \in 0..MaxCrashes

Answered == {r \in Requests : calls[r].status = 200}

(* Caching is invisible: a response carries the verdict classify() would   *)
(* give this very payload, although the decision may come from another     *)
(* request's payload, may have waited in the thread pool while the cache   *)
(* changed, and has outlived evictions, expiries and restarts.  It holds   *)
(* for conversations whose user speaks within the window of the cache key. *)
Transparent ==
  \A r \in Answered :
    WindowCovers(calls[r].payload.messages) =>
      calls[r].decision.says = DecisionFor[calls[r].payload]

(* What the changelog says of every request (CHANGELOG.md:51): "a cached   *)
(* `route` can no longer mask a `high_stakes` escalation".                 *)
NeverMasksEscalation ==
  \A r \in Answered :
    DecisionFor[calls[r].payload].action = "escalate" =>
      calls[r].decision.says.action = "escalate"

(* A decision id, by which feedback and the log refer to a decision, names *)
(* one classification for ever: two responses with the same id, however    *)
(* far apart and whichever thread finished first, are about requests the   *)
(* key does not tell apart and carry the same verdict.                     *)
IdNamesOneDecision ==
  \A r, s \in Answered :
    calls[r].decision.id = calls[s].decision.id =>
      /\ calls[r].decision = calls[s].decision
      /\ CacheKey(calls[r].payload) = CacheKey(calls[s].payload)

(* What a caller knows of its request; an error says nothing else.         *)
ReplyTo(call) ==
  [done     |-> call.stage = "settled",
   status   |-> call.status,
   payload  |-> IF call.status = 200 THEN call.payload ELSE Nothing,
   decision |-> IF call.status = 200 THEN call.decision ELSE Nothing]

replies == [r \in Requests |-> ReplyTo(calls[r])]

KeyOf == [p \in Payloads |-> CacheKey(p)]
Covered == {p \in Payloads : WindowCovers(p.messages)}

(* The requests for which a decision was returned, sent or not. *)
Returned ==
  {r \in Requests : calls[r].stage \in {"answering", "settled"} /\ calls[r].decision # Nothing}

returns ==
  [r \in Requests |->
     IF r \in Returned THEN [payload |-> calls[r].payload, decision |-> calls[r].decision]
     ELSE Nothing]

Oracle ==
  INSTANCE DecisionOracle WITH VerdictOf <- DecisionFor, log <- decisionLog, booked <- returns

(* Taken together, the cache, the threads, the log and the crashes between *)
(* them behave like an oracle that decides one request at a time, each     *)
(* once, logs it in that step and tells the caller that and nothing else,  *)
(* if the process lives (api.py:170-193).                                  *)
ImplementsOracle == Oracle!Spec

(* The audit log is exact: with LOG_DECISIONS on, a decision has a line    *)
(* for every response that carries it, across failing writes, cache hits   *)
(* and restarts; and a line more only for a response that is about to be   *)
(* sent, or that a crash has cut off at that very point.                   *)
AuditExact ==
  LET unsent == Returned \ Answered
  IN  /\ \A d \in Ids :
           decisionLog[d] =
             IF LogDecisions
               THEN Cardinality({r \in Answered : calls[r].decision.id = d})
                    + Cardinality({r \in unsent : calls[r].decision.id = d})
               ELSE 0
      /\ \A r \in unsent : calls[r].stage = "answering" \/ calls[r].boot < boots

ThisBoot == {r \in Requests : calls[r].boot = boots}

(* /status tells the truth about this process: computed and cached         *)
(* decisions add up to the total, hits are the responses and failures that *)
(* took a decision from the cache, and every response has been logged.     *)
CountersTrue ==
  /\ metrics.total = metrics.computed + metrics.hits
  /\ metrics.hits = Cardinality({r \in ThisBoot : calls[r].hit})
  /\ metrics.logged = IF LogDecisions THEN Cardinality(ThisBoot \cap Returned) ELSE 0

Admitted(boot, window) ==
  {r \in Requests :
     /\ calls[r].stage # "idle"
     /\ Authentic(calls[r].caller)
     /\ calls[r].status # 429
     /\ calls[r].boot = boot
     /\ WindowAt(calls[r].at) = window}

(* The quota of a caller is its own and is exact: per process and minute   *)
(* no key has more than Limit requests admitted, those refused later for   *)
(* their length included, and one that is refused has had its Limit.  Only *)
(* the refused are in rate_limited_total.                                  *)
QuotaExact ==
  /\ ~ Unlimited =>
       \A r \in Requests :
         LET mine == {s \in Admitted(calls[r].boot, WindowAt(calls[r].at)) :
                        LimitKey(calls[s].caller) = LimitKey(calls[r].caller)}
         IN  calls[r].stage # "idle" =>
               /\ Cardinality(mine) <= Limit
               /\ calls[r].status = 429 => Cardinality(mine) = Limit
  /\ metrics.limited = Cardinality({r \in ThisBoot : calls[r].status = 429})

(* The limiter never forgets a key, so what bounds its memory is that only *)
(* authenticated callers reach it (api.py:172-173).                        *)
SlotsOnlyForApiKeys ==
  ApiKeys # {} => \A k \in LimitKeys \ ApiKeys : windows[k] = NoSlot

(* Every request is settled: answered, refused, failed or cut off by a     *)
(* crash, also when the pool is smaller than the number of requests and    *)
(* workers fail.                                                           *)
EverySettles ==
  \A r \in Requests : (calls[r].stage # "idle") ~> (calls[r].stage = "settled")

-----------------------------------------------------------------------------
(* Why Transparent and IdNamesOneDecision hold.  A decision is filed under *)
(* a key in the cache, and by every request that holds it, whose payload   *)
(* has that key.                                                           *)
Filed ==
  {<<entries[i].value, entries[i].key>> : i \in 1..Len(entries)}
  \cup
  {<<calls[r].decision, CacheKey(calls[r].payload)>> :
     r \in {s \in Requests : calls[s].decision # Nothing}}

(* It is classify()'s answer to some payload with that key, and no id is   *)
(* filed twice under different keys or with different contents.            *)
FilingSound ==
  /\ \A x \in Filed :
       /\ x[1].id <= issued
       /\ \E p \in Payloads : x[2] = CacheKey(p) /\ x[1].says = DecisionFor[p]
  /\ \A x, y \in Filed : x[1].id = y[1].id => x = y

CacheSound == Distinct(entries) /\ Len(entries) <= MaxEntries

QueueSound ==
  /\ \A i \in 1..Len(waiting) : calls[waiting[i]].stage = "queued"
  /\ \A i, j \in 1..Len(waiting) : waiting[i] = waiting[j] => i = j

(* A request makes at most one decision: there is an id left for each that *)
(* has not made its own.                                                   *)
Untried == {r \in Requests : calls[r].stage \in {"idle", "queued", "running"}}

IdsLeft == issued + Cardinality(Untried) <= Cardinality(Requests)

ServiceInv == TypeOK /\ CacheSound /\ QueueSound /\ IdsLeft /\ FilingSound
=============================================================================
