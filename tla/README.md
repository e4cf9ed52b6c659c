# TLA+ models of llm-preclassifier

llm-preclassifier takes a chat request, decides what kind of task it is, whether
it may be routed to a model or must be escalated, and how capable a model it
needs. It is a FastAPI service (`src/llm_preclassifier/api.py`) around a pure
function, `classify()`, with a cache, a rate limiter, counters, an optional
decision log, an optional semantic layer, a learned model, a feedback endpoint,
an optional proxy and a small client. Paths below are relative to the repository,
file names without a directory are in `src/llm_preclassifier/`.

The modules here model the core of that service, TLC checks them on small
instances, and TLAPS proves the main results for every value of the constants.
Section 1 is the inventory of the system, section 2 the modules, section 3 the
runs, section 4 the proofs, section 5 what is not modelled, section 6 what could follow.

## 1. The system

| Part | State | Operations | Talks to |
|---|---|---|---|
| `api.py` classify endpoint | none of its own; locals of a coroutine with one `await`, and the response to be sent | `POST /v1/classify`, alias `/v1/route` | all the parts below |
| `cache.py` ClassificationCache | `OrderedDict` key -> (expiry, decision) | `get`, `put` | the endpoint, synchronously |
| `cache.py` RedisClassificationCache | in Redis, shared and persistent | `get`, `put` | the endpoint, Redis |
| `ratelimit.py` RateLimiter | dict key -> (window, count) | `allow` | classify, feedback and proxy endpoints |
| `utils.py` | none | text extraction, tool history, cache key | endpoint and classifier |
| `classifier.py` | `lru_cache` of loaded task models | `classify` | policy, semantic layer, task model, catalog; runs in a worker thread |
| `semantic.py` | exemplar matrix, fixed after start | `assess` | an embedder |
| `task_model.py` | weights, fixed after load | `predict`, `load_task_model` | the file system |
| `policy.py`, `catalog.py`, `config.py` | immutable values | load and validate at start-up | files, environment |
| `metrics.py` | counters, optionally mirrored to Prometheus | `increment`, `status`, `render_prometheus` | endpoints |
| `audit.py` | two JSONL files | append a decision, append feedback | endpoints, the file system |
| `api.py` RequestSizeLimitMiddleware | bytes received of one body | count, reject, replay | wraps every endpoint |
| `api.py` feedback endpoint | none | `POST /v1/feedback` | limiter, log, counters |
| `api.py` and `proxy.py` | none | `POST /v1/chat/completions`, forward | classifier, limiter, an upstream |
| `client.py` | none besides a connection | retried and unretried calls | the service |
| `evaluation.py` | counters of one run | `evaluate`, `main` | a benchmark file, the classifier |
| `training/train_task_model.py` | rows of one run | `prepare`, the fits, the write of the model | datasets, benchmarks, the model file |

The service is one event loop. A handler runs without interruption between
awaits; the classify handler awaits once, for a thread of the worker pool in which
`classify()` runs. So the cache, the limiter and the counters never see two
operations at once, but a request that missed in the cache resumes after any
number of other requests. What the worker threads share, the `lru_cache` of loaded task
models, they do use at once.

What is hard about it, part by part, and what makes each part correct:

- **Cache**: expiry on the boundary, recency under overwriting, eviction order.
  It must never answer with an expired or overwritten decision and never lose a
  key in use.
- **Rate limiter**: the borders between windows, rejected calls that are counted
  too, keys that interfere. Not too many calls, and no refusal below the limit.
- **Cache key**: the decision depends on the latest user message, on tools and
  flags; the key is a digest of five messages, tools, flags. Equal keys must mean
  equal decisions.
- **Classifier**: three sources of a decision under thresholds. Layers must not
  weaken an escalation nor override a clear rule; the fields of a decision must fit
  one another.
- **Endpoint**: concurrent misses, a put after a stale lookup, a worker or a log
  write that fails after other effects, a crash, also between log line and response.
  Answers must be those of the classifier, ids must name one decision, log, counters and
  quotas must be exact, and every request must come to an end.
- **Client, feedback, proxy**: lost answers and retries, at-most-once feedback, a
  timeout after the upstream has acted.
- **Start-up and files**: each check of settings, policy, catalog and bank, the gap
  between what they accept and what a request needs, a task model that is opened late and
  by several threads at once, files that change under a running service.
- **Training and evaluation**: duplicates, conflicts and groups that straddle splits,
  benchmark prompts in the rows, caps that round, a crash in the write of the model, a
  report whose figures must be about the same cases.

`PROJECT.json` lists these hazards at their lines, with the properties that cover
each, or the reason why none does.

## 2. The modules

```
LruTtlCache ----> DecisionCache --(implements)--> TtlStore
     |
     +-----------------------+
FixedWindow ---> RateLimiter |
     |                       |
     +----------------> ClassifyService --(implements)--> DecisionOracle
Conversation ----------------^   ^
Classifier ---> Classification   |
     +---------------------------+
     +---------> SemanticVote ---> StartUp
FixedWindow ---> ProxyEndpoint
BodyLimit, ClientDelivery, SharedCache, ModelPipeline: on their own

theorems of operators   OperatorTheorems (LruTtlCache, FixedWindow, Conversation,
                        Classifier, SemanticVote; sums, folds and induction)
theorems of machines    CacheProofs (DecisionCache, SharedCache)
                        LimitsProofs (RateLimiter, BodyLimit)
                        ClassifierProofs (Classification, StartUp)
                        ClassifyServiceProofs, ProxyEndpointProofs,
                        ClientDeliveryProofs, ModelPipelineProofs
```

`LruTtlCache`, `FixedWindow`, `Conversation`, `Classifier` and `SemanticVote` have no
state: they are the operations of a part as operators. `DecisionCache`, `RateLimiter`
and `Classification` are state machines over one part each; `ClassifyService` composes
all four, and `StartUp` puts the vote and the classifier behind the files they are built
from. `BodyLimit`, `ClientDelivery`, `SharedCache` and `ProxyEndpoint` model what
surrounds the classify handler, each against an environment of its own: the ASGI server,
the caller's network, Redis, the upstream API. `ModelPipeline` is the offline part. An
`MC` module gives one of them its constants. A proof module may be about two machines, so
`BodyLimit`, `SharedCache` and `StartUp` prefix the names both have (`BodyInit`,
`SharedSpec`, `startUpVars`). Definitions that a comment marks "Bug" are
not part of the model; they are what a plausible mistake would have made of the
definition that follows, and each property is known to fail when that definition is
replaced by it.

**LruTtlCache** (`cache.py:9-33`). The OrderedDict is a sequence of entries, the
least recently used first. `AfterGet` and `AfterPut` are one call each: `get`
deletes an entry that has expired (`expires_at <= now`) and moves a live one to the
end; `put` overwrites, moves to the end and evicts from the front. A TTL of zero or
less is legal (nothing validates it) and allowed.

**DecisionCache** makes that a state machine with a clock. The history variables
`stored` (the last put of a key) and `since` (the other keys used since) are what the
properties compare the dict with. **TtlStore** is the abstract specification: a map
of last puts, whose `Miss` of a live key is allowed only if at least `Capacity`
other keys were used since that key was.

**FixedWindow** and **RateLimiter** (`ratelimit.py`). `Counted` is the slot after
one more call, admitted or not. The history `admitted` keeps when each key was let
through.

**Conversation** (`utils.py`, `classifier.py:17-21,35-38`). A content is opaque:
`Normal` says which contents normalise (strip, lower, join text parts) to the same
text, `Unreadable` on which ones that raises. `CacheKey` is the record the code
serialises and hashes; the digest is assumed collision free. `ClassifierInput` is
all that `classify()` looks at. Its lower-casing is shared by both (`_flatten_text`).

**Classifier** (`classifier.py`, and the constants and types of `policy.py`,
`schemas.py`, `semantic.py`, `task_model.py`). A text is represented by a reading:
blank or ambiguous, the set of pattern names that match, short or not, the semantic
verdict and the learned prediction. Nothing relates these: the patterns are an
operator's regular expressions and the models' answers are arbitrary. Shares,
probabilities and confidences are whole percentages; the rounding to two decimals of
a semantic confidence is a rounding to a whole percentage here. The list of reasons
and the model recommendations are left out. **Classification** is one call of
`classify()` on an arbitrary reading under an arbitrary policy.

**ClassifyService** (`api.py:123-197`, with `audit.py` and `metrics.py`). A request
is a record of what its client knows and how far its handler has come:

| Action | Code |
|---|---|
| `Unauthorized` | `authenticate` raises 401, or `compare_digest` a TypeError for a token that is not ASCII: 500 (155-164); nothing else has happened |
| `TooManyRequests` | the limiter counts the call and refuses, `rate_limited_total` (148-151) |
| `TooManyMessages` | 422 after the limiter has counted (174-175) |
| `NoCacheKey` | a recent text part is no string, `_flatten_text` raises: 500 (177) |
| `CacheHit` | from the lookup to the return without an await (178, 188-193) |
| `CacheMiss` | up to the await; the request queues for a thread (178-184) |
| `StartWork` | a free thread takes the first waiter (anyio's limiter) |
| `Compute`, `WorkerFails` | `classify()` returns a decision with a fresh id, or raises |
| `Resume`, `ResumeFailed` | put, counters, log, return (185-193), or a 500 |
| `Respond` | what the handler has returned is sent to the client |
| `Advance` | time passes |
| `Crash` | the process dies and restarts: cache, windows and counters are empty, the log stays; requests in flight break, also those with a log line and no response yet |

`Answer` is the common end of `CacheHit` and `Resume`: counters, then the log line
if `LOG_DECISIONS` is on, which may fail and turn the response into a 500 after the
cache and the counters have changed. It leaves the request `answering`: the response goes
out in a step of its own, and a crash before it leaves a line nobody has got a response
for. `AuditExact` counts such lines and says when there may be one. A thread is given
back when the coroutine resumes, as anyio does. Ids are uuids in the code; the model numbers them, since all
that matters is that they differ. A failing log write is taken to write nothing; a
client that gives up is not visible to the service.

**DecisionOracle** is what the endpoint promises with all its parts put together: requests
are answered one at a time and each once; the decision says what `classify()` says of the
payload, or, where the key does not cover the user's message, of some payload with the same
key; an id never stands for two decisions. A decision is booked and its log line written
in one step (`Book`), and the caller told what was booked in another (`Reply`). Its only
batch is `Break`, the process dying under the requests it was at, booked or not.
`ImplementsOracle` reads its state off `calls` and `decisionLog`; what was booked are the
decisions handlers have returned.

**BodyLimit** (`api.py:41-94`). One request: its chunks arrive, the client may hang up,
the middleware decides by the header or reads chunk by chunk (`KeepChunk`,
`ChunkTooLarge`, `ReadDisconnect`), and the application reads what was kept in one
message (`AppReadsReplay`) or, when the request was passed through, from the server.
A chunk is its place in the body and its size. The Content-Length is a number of its own:
it need not be the size of the body, since h11 accepts it beside
`Transfer-Encoding: chunked`, which then frames the body. `LimitIsExact` is about the size
the middleware goes by (`Size`), and about what the application reads as far as the body is
not larger than that. After a hang-up the server may deliver
what has arrived or report the disconnect at once; both are allowed.

**ClientDelivery** (`client.py:58-123`, `api.py:220-227`, `audit.py`). Calls of classify
and feedback, each a loop over attempts; requests and replies are sets that may lose a
member at any time. `Break` is any `httpx.HTTPError`: the request it belonged to may
still be served, but its reply finds nobody. `ReceiveUnreadable` is an answer that is no
JSON or not of the shape the client expects. The service is seen from outside: `CacheHit`,
or `CacheMiss` and later `Compute` or `WorkerFails`, so that misses overlap and the last
put stays; `Answer` writes the log line or fails; `Forget` is expiry and eviction; `Record`
is the feedback endpoint. A feedback call is made about a
decision a classify call has returned.

**SemanticVote** (`semantic.py:64-111`). Which labels the constructor takes (`Known`)
and one call of `assess` on a poll: the labels nearest first, their similarities, the
settings. Exemplars at the same distance come in any order, since the order is an input.
`Raises` says when Python raises: a division by zero or `max()` of nothing. Shares are
compared exactly, floats are not modelled. `Assessed` has the type the classifier is
modelled for.

**StartUp** (`config.py`, `policy.py`, `catalog.py`, `semantic.py:64-81`,
`classifier.py:95-120,151-176`, `api.py:97-146`). A file is what its parser sees: which
keys are there, which values have the right shape, and the numbers. `Validate`,
`LoadPolicy`, `LoadCatalog` and `BuildSemantic` are the steps of `create_app` in their
order, each of which may refuse; then come requests: `HandleClassify`, `Fail` (a 500) and
`Unauthorized`. `model` is what `lru_cache` keeps of the task model. A request that needs
it when none is kept loads it in three steps, as the cache holds no lock meanwhile:
`BeginLoad`, `ReadModel` or `FailToRead`, `FinishLoad`; loads overlap, the first to end is
kept (`Keep`), and each answers by what it has read itself. `earlier` is a history: what
the prompt `Followed` was first told by the kept model, or without one. `Edit` changes a
file at any time, `Restart` begins again. A request ends in `misfit` when the decision is
one the response schema refuses. The environment variables are read already; the decision cache is left out, as it only repeats answers.

**ModelPipeline** (`train_task_model.py`, `evaluation.py`). `Prepare` chooses the rows
in one step: `Kept` are the rows that survive (no empty text, one label, first of its
text, in no benchmark), `CappedRows` every choice the shuffle and the caps may leave. `Fit`
tries one C with any accuracy and keeps a strictly better one, `Open` and `Write` are
the two halves of `write_bytes`, `Crash` may come before each, and `BestOrNothing` says
what it leaves. `Evaluate` scores one
case on any decision; the confusion matrix of a field is a bag of (expected, predicted)
pairs, and a miss is a case with a field. `Refuse` and `FitFails` are the runs that end in an exception:
no benchmark prompts, no validation rows, fewer than three labels.

**ProxyEndpoint** (`api.py:229-259`, `proxy.py`). `Begin` is the handler up to the `await`
of its body, admitted by the limiter of `FixedWindow`; the body comes (`ToWorker`), is no
good (`BadBody`; no schema has checked it), ends half way (`BodyCutOff`) or never comes.
Then the worker, which may raise (`WorkerFails`), and `Forward`. Upstream acts, begins to
answer, and goes on to the end (`Reply`) or stops (`Stall`), and may do all of it after the
handler has given up. `Relay` passes the answer on, or fails to make the response.
`UpstreamFails` is any exception of the call, a timeout included. What is lost on the way
stays where it is, since no fairness moves it.

**SharedCache** (`cache.py:41-68` under the handler). Instances with a policy version
each and one Redis. Time is in half seconds, since `int()` cuts a fractional TTL.
`PutFails` leaves open whether Redis has stored the entry.

## 3. The runs

Symmetry over keys or requests is used where a property does not tell them apart and
never in a liveness run. Deadlock is checked in `decision_cache`; everything else may
stop, as clients stop calling or a run ends, and each configuration says which.

| Run | Instance | Shows |
|---|---|---|
| `decision_cache` | 4 keys, 2 values, capacity 2, TTL 2, times 0..4 | `CacheInv` (`Bounded`, `Coherent`, `OrderedByUse`, `RetainsRecent`), and that the cache implements `TtlStore` |
| `rate_limiter` | 2 keys, 5 calls each, limit 2, eight times around three window borders and a gap | `WindowBound`, `BurstBound`, `RefusesOnlyAtLimit` |
| `classification` | 246,720 states: three policies (the bundled one, one with the layers off, one that takes every vote) and a set of readings that combines pattern matches, votes, predictions and shares on both sides of every threshold | `CautionIsMonotone`, `ModelOnlyRefinesFallback`, `ClearRulesWin`, `CapableNeedsTools` |
| `service_cache` | 289,602 states: 3 requests, 4 payloads (equal but for flags, or for a tool call older than five messages, and one without a text), 2 threads, capacity 1, TTL 60, times 0 and 60, one crash, log on, limiter off | `Transparent`, `AuditExact`, `CountersTrue`, and that the service implements `DecisionOracle` |
| `service_quota` | 360,256 states: 3 requests of 2 keys and a stranger, a payload that is answered and one that is too long, 1 thread, limit 1, times 59 and 60, one crash, fair | `QuotaExact` with the counter of refusals, `SlotsOnlyForApiKeys`, `EverySettles` |
| `service_masked` | conversations of an agent loop | finding: a cached route masks an escalation |
| `body_limit` | bodies of 1 to 3 chunks of 0 to 3 bytes, limit 3; no Content-Length, one that is no number, or one of 0, 3, 4 or the size of the body; fair | `WholeOrNothing`, `LimitIsExact`, `AlwaysEnds` |
| `client_delivery` | 193,024 states: 2 classify calls with one payload, a correction, 1 retry, one crash, fair | `FeedbackAtMostOnce`, `AckIsRecorded`, `FeedbackJoins`, `EveryCallEnds` |
| `proxy` | 2 requests of one caller and one of a stranger, limit 1, times 59, 60 and 120, two crashes, fair | `ChargedAtMostOnce`, `ChargesWithinQuota`, `CountersTrue`, `EveryRequestEnds` |
| `shared_cache` | 2 instances, 3 requests for one key, TTL 1.5 s, 2 policies, 2 restarts | `Fresh`, `OldPolicyDiesOut` |
| `start_up` | 22,194 states: one sound setup and 64 others, each with one setting, one part of a file, or a bank of three exemplars in another way; 7 texts, one change of a file, one restart, two loads of the task model at once | `AcceptedAsAssumed`, `AcceptedDecides`, `PicksFollowAction`, `ProductionIsClosed`, `VotesAreSound`, `DecisionsHold` |
| `model_pipeline` | 3,226 states: 15 rows of 2 sources, 4 labels and 3 splits in both orders, or without one of them; three benchmarks, cap 7, 2 values of C | `CleanSplits`, `BenchmarkIsBlind`, `FairShares`, `BestOrNothing`, `ReportAddsUp` |

**Bounds.** Three requests are the least with which one computes while another is
answered from the cache and a third evicts or misses. Capacity 1 makes each put of another key evict. The
times lie on both sides of every border the code compares with (the TTL, the
windows). One crash separates two processes; the properties relate at most two.
`MaxCrashes`, `MaxRestarts`, `MaxEdits`, `MaxLoads`, `MaxCalls` and `Instants` are bounds of
the model, nothing in the code. Two loads are what a race needs: one reads before the file
changes and one after, and either ends first. Three chunks are a first, a middle and a last one; with sizes from nothing
to the limit each of them can be the one that reaches or passes it. One retry gives two
attempts, so that a late answer to the first meets the second; a second classify call
with the same payload reads what a failed attempt left in the cache. In `shared_cache`
one request puts and two read, since an entry must be read once before and once after
a restart to outlive its version. That a limit of zero switches the limiter off is
exercised by `service_cache`; `RefusesOnlyAtLimit` is proved for every limit. In
`start_up` one thing is wrong at a time: the checks are conjuncts, so what passes one
check is not changed by another, and shares of 0, 35 and 50 with similarities on both
sides of them reach every branch of the vote. In `model_pipeline` the label with the most
rows has one more than its cap lets through in a source, a group and a conflict have
their second half at the other end of the corpus, and the reversed corpus swaps them; the
proofs are for every corpus.

**Fairness.** `FairSpec` assumes weak fairness of `StartWork` (the limiter of anyio is
first come first served and wakes the first waiter when a token is returned), of each
worker (a call of `classify()` returns or raises: it is a loop over patterns, one
embedding and one dot product) and of each resumption (the event loop runs callbacks
whose future is done, and sends what a handler has returned). Nothing is assumed of
clients, of time or of crashes.
In `BodyLimit` the middleware and the application run when they can; the client may
stall for ever, and `AlwaysEnds` says nothing then. In `ClientDelivery` an attempt ends
(`httpx.Client` has a timeout of each wait, and the replies of this service are small: one
is taken to arrive whole or not at all) and a sleep ends; the network and the service may
do nothing. In `ProxyEndpoint` a worker ends, and so does a wait for upstream in which nothing comes (`Waits`): the timeout of httpx is one of
each wait. Nothing is assumed of the client, whose body may never come, nor of upstream,
whose answer may go on for ever; `EveryRequestEnds` says that a request ends unless it is
kept by one of these two, for which the code has no timeout. `SharedCache` states safety only.

**Finding.** One run shows a statement of the documentation the code does not keep: *a
cached `route` can no longer mask a `high_stakes` escalation* (CHANGELOG.md:51). The key
covers the last five messages; the classifier reads the latest user message however old.
In an agent loop with five messages of assistant and tools after the user's, the user's
text is not in the key. `Transparent` is what does hold: conversations whose user speaks
within the window are never confused.

Other differences between the words and the code, met while modelling. The models do as
the code does; where something weaker holds, a property states it.

- *`decision_id` is stable across cache hits for the same request* (README.md:97): two
  requests that miss together both compute and put, and the second put replaces the first
  decision (api.py:178,185). An id never stands for two, which is part of `DecisionOracle`.
- *At most `limit_per_minute` in each rolling 60-second window* (ratelimit.py:9): the
  windows are aligned. `BurstBound` holds: twice the limit.
- *Keyed by client IP when auth is off* (README.md:134, 237): any `Bearer` header is the
  key, with authentication off as well (api.py:124). `QuotaExact` holds, per key.
- *A bad policy file fails at startup, not on the first request* (api.py:141).
  `AcceptedDecides` names what still fails afterwards: a `risk_share` or `min_similarity`
  of zero makes `assess` raise for texts with no risk exemplar near, or with no weight at
  all; a version with a line break at its end passes `policy.py:38` and not the schema
  (`schemas.py:55`); a tier of more than eight recommendations passes `catalog.py:107` and
  not the schema (`schemas.py:57`); the task model is only opened by the first request
  that needs it, and a readable one with labels of its own is accepted (`task_model.py:66`).
- *unknown exemplar label* (semantic.py:81): a risk category without its prefix is
  accepted, and counts neither for a risk nor for a task while it takes vote weight.
- *Rows matching a prompt in eval/ are dropped* (train_task_model.py:15): a content made
  of parts is not collected (line 101). `BenchmarkIsBlind` holds for plain strings.
- *The response body is the upstream's response, byte-for-byte* (README.md:225): a body
  that is no JSON is replaced by an error object (`Body`).
- *Never buffering more than max_bytes* (api.py:42) holds of the middleware, and `LimitIsExact`
  states it. *Request body limit, including chunked uploads* (README.md:116) holds
  of the size the middleware goes by: beside a Content-Length a chunked body is passed on
  uncounted, which the property leaves open.
- *A model that is kept* (classifier.py:111): a request that reads the model file while
  another's reading of an older file is kept answers by its own, once. `DecisionsHold` says
  of every other request that it is decided as before.
- *A key covering every input that affects the decision* (utils.py:31): the policy is not
  covered, and a Redis cache outlives it. `OldPolicyDiesOut` holds.

## 4. The proofs

Every safety invariant the runs check, and every action property, is a theorem for every
value of the constants under the named assumptions of the modules that declare them. What
they assume is what the code enforces or what makes a value a value:

- finite sets of requests, keys and calls; positive capacity, pool and message limit
  (`Settings.validate`, or their use); clocks that show natural numbers; the limit and the
  TTL are any integers;
- the marks `Nothing`, `NoEntry`, `Absent`, `Torn` and the mark of a missing header are none
  of the values they stand beside;
- `BodyLimitAssumption`: a body has at least one message (ASGI sends an empty one); nothing
  relates a Content-Length to the body;
- `StartUpAssumption`: files are of the shape their parser checks first, there is a text's
  distance to every exemplar, and the model of the package predicts the declared task
  types. Which files there are, what is in them and which are accepted is left open;
- `PipelineAssumption`: the split function yields a split, a case has messages or a prompt
  (what `_parse_case` requires), confidences of the scored decisions are percentages.

**Sums.** `FairShares`, `ReportAddsUp`, `LimitIsExact`, the weights of `SemanticVote` and
the counters all need sums over finite sets. The folds of the community modules are
recursive functions with `CHOOSE`, and induction principles that take an operator cannot be
instantiated. `OperatorTheorems` gets around that by induction over sets, not formulas:
`NumberInduction` (a set of numbers that contains zero and every successor is Nat, by
the well-foundedness of `<`) and `SubsetInduction` (a set of subsets of a finite S that
contains the empty one and every one with one element more contains S). With them
`SumsExist`, `SumTake`, `SumUnion`, `SumMonotone`, `SumChange` and `SumByParts` say
what the library's `SumFunctionOnSet` is.

- **Cache** (`CacheProofs`). `CacheInv` is inductive: types (`TypeOK`), `Bounded`,
  `Coherent`, `OrderedByUse`, `RetainsRecent`. The last needs the one before it: when an
  entry is evicted, all the others were used after it, so `MaxEntries` keys are in its
  `since`. From it `CacheImplementsStore`: a miss of a live key is a `Miss` the store
  allows.
- **Redis cache** (`CacheProofs`). `SharedInv` adds `EntriesDated` to the types: an entry
  expires exactly `Expiry` after its decision was made, and its policy version is in use
  or was given up no earlier than that. `Fresh` and `OldPolicyDiesOut` are about a step,
  and follow from it with `ExpiryFacts` (the cut to whole seconds never lengthens a TTL of
  a second or more).
- **Rate limiter** (`LimitsProofs`). `WindowBound` is not inductive, since
  nothing in it links the slot to the history. `SlotSummarises` does: a slot with
  window w and count c stands for the last min(c, Limit) admissions. `BurstBound`
  follows: 2 * Limit + 1 calls span three windows, so more than a whole window lies
  between the first and the last.
- **Request size limit** (`LimitsProofs`). `BodyInv`: buffer and reading are prefixes of
  the body (`Prefixes`), by position and not by size, since chunks may be empty; and
  `received` is the sum of the prefix read (`Tallied`). `LimitIsExact` then needs that the
  sum of a prefix is at most the sum of the whole, and that a request is with the
  application only after its declared length, or its whole body, was found small enough.
- **Cache key** (`OperatorTheorems`). `KeyCoversInput`: equal keys and a user who
  speaks within the window give equal classifier inputs. The proof finds the latest
  user message in the tail of the conversation by its position from the end.
- **Classifier** (`OperatorTheorems`, `ClassifierProofs`). All properties of the
  run and `OfferedToolsOnlySuggest`, by cases over the early returns and the layers;
  `ConfidenceType` is where the cap at one is needed.
- **Semantic vote** (`OperatorTheorems`). `PollMoreRiskNeverLess`: turning an exemplar
  into one of risk moves weight to the risks and none away, so the comparison with
  `risk_share` still holds. `PollTaskVoteIgnoresRisk`: the votes for tasks are cut out
  along their labels, so the largest is at least their mean. `RaisesOnlyAtZero`: a vote
  divides by zero only with a share or threshold of zero.
- **Start-up** (`ClassifierProofs`). `AcceptedInv` follows a file from disk to `app`: what
  a stage has been passed with was accepted and is still as it was read, although the
  disk is not. `ModelInv` and `LoadsInv` say what is kept of the task model and what the
  loads under way have read, and `AnswerInv` that the last answer is what becomes of its
  text when judged by some model that was loaded (`MadeOf`), its own. `EarlierInv` links
  `earlier` to the present: `Followed` would be told the same now, by whatever it would be
  judged by once no load is under way (`Settles`), since what is kept stays. With
  `ConcludedAlike` for the single step, `DecisionsHold` follows. `AcceptedDecides` combines it with
  `RaisesOnlyAtZero` and `DecideType`; `PicksFollowAction` with `TierOfAction`: the tiers
  of routed decisions are those a catalog must have.
- **Service** (`ClassifyServiceProofs`), in three steps, for any number of requests,
  callers, threads and crashes. `ServiceInv` strengthens `TypeOK` by `FilingSound`:
  every decision is filed, in the cache and by the requests that hold it, under the key
  of the payload it was made for, and no id is filed twice. It needs `IdsLeft` (every
  request makes at most one decision) for ids to stay in range, and `QueueSound` and
  `CacheSound` for the steps. `Transparent` follows from it with `KeyCoversInput`,
  `IdNamesOneDecision` directly. `LedgerInv` adds `Stamped` (a request in flight is of
  this process) and the ledgers themselves: every step is quiet, a crash, a miss, sends a
  response, or ends one handler with log and counters written for it, so each counter grows
  with the set it counts. The log is compared with what handlers have returned; that the
  unsent among these are about to be sent or of an earlier process is `CutOff`. `AuditExact` and `CountersTrue` are its parts. `QuotaInv` ties the limiter to
  the requests: the slot of a key holds the number of requests that got past it in that
  window of this process, up to `Limit` (`SlotSums`), and no admitted request is in a
  later window than its slot (`SlotCovers`); a slot left from an earlier window therefore
  stands for nobody. `QuotaExact` follows; the 401s need it for keys that never had a slot.
  `ServiceImplementsOracle` is proved step by step: what ends a handler is a `Book` or
  a `Refuse`, sending is a `Reply`, a crash is a `Break`, all else stutters. That a decision is
  one the oracle may book comes from `FilingSound` of the next state and `KeyCoversInput`
  (`AnsweredSound`); that it agrees with those given before, from the uniqueness of ids there.
- **Proxy** (`ProxyEndpointProofs`). `ProxyInv`: a request is known to upstream only
  after its handler was admitted and has handed it over, once (`HandlersSound`), so what
  upstream does later changes neither who was admitted nor the counters (`CountsExact`);
  the slot of a caller has counted at least those it admitted in its window and none was
  admitted in a later one (`QuotaSound`).
- **Client** (`ClientDeliveryProofs`). `ClientInv` says that a call has attempts left while
  it is under way, that feedback is sent once and for a decision that can no longer change,
  and that what is acknowledged or delivered, or is on its way, has its line. The three
  safety properties follow for any number of calls, retries, losses and crashes.
- **Training** (`ModelPipelineProofs`). `CleanSplits`, `BenchmarkIsBlind` and
  `BestOrNothing` for every corpus, benchmark, split function, cap and sequence of
  accuracies: `chosen` is a subset of `Kept`, and the best so far is the first of the
  greatest. `FairShares` bounds each bin by its share of its source's part, and sums the
  bins of a source and the sources of a label (`CountByParts`): the roundings are all down.
- **Evaluation** (`ModelPipelineProofs`). `ReportInv`: for each field the bag of pairs is
  a tally of the counters (`IsTally`, one more pair adds one to its size, and to its
  diagonal if the pair hit), the misses of the field make up the difference, and the
  buckets hold the cases, each in its tenth. The per-class figures are sums of the bag
  along rows and columns, so they add up to its size.

Only model-checked: liveness under fairness (`EverySettles`, `AlwaysEnds`,
`EveryCallEnds`, `EveryRequestEnds`), which the proof system does not reach; and the run
that expects a violation, `NeverMasksEscalation`. Proved without a run of their own:
`OfferedToolsOnlySuggest`, `IdNamesOneDecision` (`DecisionOracle` includes it) and the types.
`TypeOK` of a machine is a part of the inductive invariant of its module.

## 5. What is not modelled

- Text and numbers: patterns, tokenising, embeddings, feature hashing, the regression.
  Their results are inputs.
- The reasons of a decision, serialisation, the wording of errors.
- Reading the environment variables, YAML and JSON syntax: `StartUp` begins with what the
  parsers yield.
- Training: downloading and reading the datasets, the coverage curves, `--evaluate-test`.
  Evaluation: parsing of a case, the threshold of the command line, the printed report.
- The command line wrappers `validate_policy.py` and `validate_catalog.py`, the usage
  example and the package marker.
- The inside of Redis, of the ASGI server, of httpx and of the upstream API; they are
  the environment. Of the waits of httpx only this is modelled: one in which nothing comes
  ends, one in which an answer keeps coming need not.
- API keys that are not ASCII: settings name tokens a header can carry. Request bodies longer
  or shorter than their framing, which the server refuses itself.
- The read-only endpoints (`/healthz`, `/status`, `/v1/policy`, `/v1/model-catalog`,
  `/metrics`), which change no state.
- Several processes with one log file; `uvicorn --factory` starts one.

## 6. What could follow

1. `ClientDelivery` over `DecisionOracle` instead of over its own outside of the service.
2. An abstract specification of the proxy: an abstract quota ("at most `Limit` per caller and minute, at
   most one per request") that `ProxyEndpoint` implements, and the classify endpoint too.
3. The reasons of a decision, once a property is about them.
