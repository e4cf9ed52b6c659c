------------------------ MODULE ClassifyServiceProofs ------------------------
(***************************************************************************)
(* ClassifyService is type correct, its caching is transparent, its ids    *)
(* name one decision, its log and counters are exact, and so is the quota  *)
(* of each caller: for any number of requests, callers, payloads, threads, *)
(* cache sizes and crashes.                                                *)
(*                                                                         *)
(* The argument about decisions: FilingSound is inductive because only     *)
(* Compute files a pair that was not filed before, and it takes a fresh    *)
(* id.  Every other step moves filed pairs between cache and handlers, or  *)
(* drops them.  The cache lemmas say that a get and a put add no entry of  *)
(* their own; KeyCoversInput turns "filed under my key" into "decided on   *)
(* my input".                                                              *)
(*                                                                         *)
(* The argument about the ledgers: every step is quiet, a crash, a miss,   *)
(* or ends one handler (Ends) with the log and the counters written for it *)
(* (Booked), so each counter grows with the set it counts (LedgerInv).     *)
(*                                                                         *)
(* The argument about quotas: the slot of a key counts the requests that   *)
(* got past the limiter in its window, up to Limit, and no request is in a *)
(* later window than the slot (QuotaInv).                                  *)
(*                                                                         *)
(* Together they make the service implement DecisionOracle: a handler that *)
(* ends books its decision or is a refusal, a response is a reply, a crash *)
(* breaks the requests in flight, and no other step is seen by a caller or *)
(* the log.                                                                *)
(***************************************************************************)
EXTENDS ClassifyService, OperatorTheorems

(* No cache operation invents an entry: a get leaves entries that were     *)
(* there, a put adds the one it was given.                                 *)
LEMMA HitKeepsEntries ==
  ASSUME NEW K, NEW V, NEW es \in Seq(EntrySet(K, V)), Distinct(es),
         NEW now \in Int, NEW key, Hits(es, key, now)
  PROVE  LET g == AfterGet(es, key, now)
         IN  /\ g \in Seq(EntrySet(K, V)) /\ Distinct(g)
             /\ Len(g) = Len(es)
             /\ \A i \in 1..Len(g) : \E j \in 1..Len(es) : g[i] = es[j]
  <1> DEFINE w == Without(es, key)
             g == AfterGet(es, key, now)
  <1>1. /\ g \in Seq(EntrySet(K, V)) /\ Distinct(g)
        /\ Len(g) = Len(w) + 1 /\ Len(g) = Len(es)
        /\ g[Len(g)] = EntryOf(es, key)
        /\ \A i \in 1..Len(w) : g[i] = w[i]
    BY AfterHit
  <1>2. Len(w) \in Nat /\ \A i \in 1..Len(w) : \E j \in 1..Len(es) : w[i] = es[j]
    BY WithoutFacts
  <1>3. \E j \in 1..Len(es) : EntryOf(es, key) = es[j]
    BY PositionOfPresent DEF Hits, EntryOf
  <1> HIDE DEF g, w
  <1>4. \A i \in 1..Len(g) : \E j \in 1..Len(es) : g[i] = es[j]
    <2>1. TAKE i \in 1..Len(g)
    <2>2. i \in 1..Len(w) \/ i = Len(g)
      BY <1>1, <1>2
    <2>3. QED
      BY <1>1, <1>2, <1>3, <2>2
  <1>5. QED
    BY <1>1, <1>4 DEF g

LEMMA MissKeepsEntries ==
  ASSUME NEW K, NEW V, NEW es \in Seq(EntrySet(K, V)), Distinct(es),
         NEW now \in Int, NEW key, ~ Hits(es, key, now)
  PROVE  LET g == AfterGet(es, key, now)
         IN  /\ g \in Seq(EntrySet(K, V)) /\ Distinct(g)
             /\ Len(g) <= Len(es)
             /\ \A i \in 1..Len(g) : \E j \in 1..Len(es) : g[i] = es[j]
  <1>1. AfterGet(es, key, now) = Without(es, key)
    BY DEF AfterGet
  <1>2. QED
    BY <1>1, WithoutFacts

LEMMA PutAddsOnlyIts ==
  ASSUME NEW K, NEW V, NEW es \in Seq(EntrySet(K, V)), Distinct(es),
         Len(es) <= MaxEntries,
         NEW key \in K, NEW value \in V, NEW now \in Int
  PROVE  LET g == AfterPut(es, key, value, now)
         IN  /\ g \in Seq(EntrySet(K, V)) /\ Distinct(g)
             /\ Len(g) <= MaxEntries
             /\ \A i \in 1..Len(g) :
                  \/ g[i].key = key /\ g[i].value = value
                  \/ \E j \in 1..Len(es) : g[i] = es[j]
  <1> DEFINE w == Without(es, key)
             g == AfterPut(es, key, value, now)
             d == Len(w) + 1 - Len(g)
  <1>1. /\ g \in Seq(EntrySet(K, V)) /\ Distinct(g)
        /\ Len(g) \in 1..MaxEntries
        /\ g[Len(g)] = [key |-> key, expires |-> now + TtlSeconds, value |-> value]
        /\ \A i \in 1..(Len(g) - 1) : i + d \in 1..Len(w) /\ g[i] = w[i + d]
    BY AfterPutFacts
  <1>2. \A i \in 1..Len(w) : \E j \in 1..Len(es) : w[i] = es[j]
    BY WithoutFacts
  <1> HIDE DEF g, w, d
  <1>3. MaxEntries \in Nat
    BY CacheAssumption
  <1>4. \A i \in 1..Len(g) :
          \/ g[i].key = key /\ g[i].value = value
          \/ \E j \in 1..Len(es) : g[i] = es[j]
    <2>1. TAKE i \in 1..Len(g)
    <2>2. i \in 1..(Len(g) - 1) \/ i = Len(g)
      BY <1>1, <1>3
    <2>3. QED
      BY <1>1, <1>2, <2>2
  <1>5. QED
    BY <1>1, <1>3, <1>4 DEF g

LEMMA LatestUserTextType ==
  ASSUME NEW s \in Seq(Message)
  PROVE  LatestUserText(s) \in Texts
  <1>1. CASE FromUser(s) = {}
    BY <1>1, ConversationAssumption DEF LatestUserText
  <1>2. CASE FromUser(s) # {}
    <2>1. Len(s) \in Nat
      OBVIOUS
    <2>2. Max(FromUser(s)) \in FromUser(s)
      BY <1>2, <2>1, LastPosition DEF FromUser
    <2>3. Max(FromUser(s)) \in 1..Len(s)
      BY <2>2 DEF FromUser
    <2>4. s[Max(FromUser(s))].content \in Contents
      <3>1. s[Max(FromUser(s))] \in Message
        BY <2>3
      <3>2. QED
        BY <3>1 DEF Message
    <2>5. QED
      BY <1>2, <2>4, ConversationAssumption DEF LatestUserText
  <1>3. QED
    BY <1>1, <1>2

(* DecisionFor is not recursive: it is the function its body describes. *)
LEMMA DecisionIs ==
  ASSUME NEW p \in Payloads
  PROVE  DecisionFor[p] =
           Decide(ActivePolicy, ReadingOf[ClassifierInput(p).text],
                  ClassifierInput(p).tools, ClassifierInput(p).flagged)
  BY DEF DecisionFor

(* classify() decides within the schema about every payload. *)
LEMMA DecisionForType ==
  ASSUME NEW p \in Payloads
  PROVE  DecisionFor[p] \in Decision
  <1> DEFINE input == ClassifierInput(p)
  <1>1. p.messages \in Seq(Message)
    BY ServiceAssumption DEF IsPayload
  <1>2. LatestUserText(p.messages) \in Texts
    BY <1>1, LatestUserTextType
  <1>3. ReadingOf[input.text] \in Reading
    BY <1>2, ServiceAssumption DEF ClassifierInput
  <1>4. input.tools \in BOOLEAN /\ input.flagged \in BOOLEAN
    BY DEF ClassifierInput, HasToolHistory
  <1> HIDE DEF input
  <1>5. Decide(ActivePolicy, ReadingOf[input.text], input.tools, input.flagged) \in Decision
    BY <1>3, <1>4, ServiceAssumption, DecideType
  <1>6. QED
    BY <1>5, DecisionIs DEF input

(* The rate limiter's slots stay slots, and each caller has one. *)
LEMMA WindowsType ==
  ASSUME NEW c \in Callers, clock \in Instants,
         windows \in [LimitKeys -> Slots \cup {NoSlot}], RateLimited(c)
  PROVE  windows' \in [LimitKeys -> Slots \cup {NoSlot}]
  <1>1. LimitKey(c) \in LimitKeys
    BY DEF LimitKey, LimitKeys, Credentials
  <1>2. clock \in Nat
    BY ServiceAssumption
  <1>3. WindowAt(clock) \in Nat
    BY <1>2 DEF WindowAt
  <1>4. windows[LimitKey(c)] \in Slots \cup {NoSlot}
    BY <1>1
  <1>5. Counted(windows[LimitKey(c)], clock) \in Slots
    BY <1>3, <1>4 DEF Counted, Slots
  <1>6. QED
    BY <1>5 DEF RateLimited

(* A request's record stays one when a field gets another value. *)
LEMMA StageUpdate ==
  ASSUME NEW call \in Call, NEW x \in Stages
  PROVE  [call EXCEPT !.stage = x] \in Call
  BY DEF Call

LEMMA StatusUpdate ==
  ASSUME NEW call \in Call, NEW x \in Statuses
  PROVE  [call EXCEPT !.status = x] \in Call
  BY DEF Call

LEMMA DecisionUpdate ==
  ASSUME NEW call \in Call, NEW x \in DecisionRecord \cup {Nothing}
  PROVE  [call EXCEPT !.decision = x] \in Call
  BY DEF Call

LEMMA HitUpdate ==
  ASSUME NEW call \in Call, NEW x \in BOOLEAN
  PROVE  [call EXCEPT !.hit = x] \in Call
  BY DEF Call

(* What the record of a request just made is like ... *)
LEMMA MadeFacts ==
  ASSUME clock \in Instants, boots \in 0..MaxCrashes,
         NEW c \in Callers, NEW p \in Payloads
  PROVE  LET m == Made(c, p)
         IN  /\ m \in Call
             /\ m.stage = "queued" /\ m.caller = c /\ m.payload = p /\ m.decision = Nothing
             /\ m.status = 0
             /\ c # Nothing /\ p # Nothing
  <1>1. clock \in Nat /\ boots \in Nat
    BY ServiceAssumption
  <1>2. c # Nothing /\ p # Nothing
    BY ServiceAssumption
  <1>3. QED
    BY <1>1, <1>2 DEF Made, NotMade, Call, Statuses, Stages

(* ... and of one whose handler has ended. *)
LEMMA SettledFacts ==
  ASSUME NEW call \in Call, NEW code \in Statuses, NEW d \in DecisionRecord \cup {Nothing}
  PROVE  LET s == Settled(call, code, d)
         IN  /\ s \in Call
             /\ s.stage = "settled" /\ s.status = code /\ s.decision = d
             /\ s.payload = call.payload /\ s.caller = call.caller
  <1>1. Settled(call, code, d) \in Call
    <2> DEFINE a == [call EXCEPT !.stage = "settled"]
               b == [a EXCEPT !.status = code]
               c == [b EXCEPT !.decision = d]
    <2>1. Settled(call, code, d) = c
      BY DEF Call, Settled
    <2>2. a \in Call
      BY StageUpdate DEF Stages
    <2> HIDE DEF a
    <2>3. b \in Call
      BY <2>2, StatusUpdate
    <2> HIDE DEF b
    <2>4. c \in Call
      BY <2>3, DecisionUpdate
    <2>5. QED
      BY <2>1, <2>4
  <1>2. /\ Settled(call, code, d).stage = "settled"
        /\ Settled(call, code, d).status = code
        /\ Settled(call, code, d).decision = d
    BY DEF Call, Settled
  <1>3. /\ Settled(call, code, d).payload = call.payload
        /\ Settled(call, code, d).caller = call.caller
    BY DEF Call, Settled
  <1>4. QED
    BY <1>1, <1>2, <1>3

LEMMA SettledConsistent ==
  ASSUME NEW call \in Call, NEW code \in Statuses, NEW d \in DecisionRecord \cup {Nothing},
         call.caller # Nothing, call.payload # Nothing,
         code = 200 => d # Nothing, d # Nothing => code \in {0, 200}
  PROVE  Consistent(Settled(call, code, d))
  <1> DEFINE s == Settled(call, code, d)
  <1>1. /\ s.stage = "settled" /\ s.status = code /\ s.decision = d
        /\ s.payload = call.payload /\ s.caller = call.caller
    BY SettledFacts
  <1> HIDE DEF s
  <1>2. Consistent(s)
    BY <1>1 DEF Consistent
  <1>3. QED
    BY <1>2 DEF s

(* What the record of a request is like whose handler has returned. *)
LEMMA AnsweringFacts ==
  ASSUME NEW call \in Call, NEW d \in DecisionRecord
  PROVE  LET s == Answering(call, d)
         IN  /\ s \in Call
             /\ s.stage = "answering" /\ s.status = call.status /\ s.decision = d
             /\ s.payload = call.payload /\ s.caller = call.caller
             /\ s.at = call.at /\ s.boot = call.boot /\ s.hit = call.hit
  <1>1. Answering(call, d) \in Call
    <2> DEFINE a == [call EXCEPT !.stage = "answering"]
               b == [a EXCEPT !.decision = d]
    <2>1. Answering(call, d) = b
      BY DEF Call, Answering
    <2>2. a \in Call
      BY StageUpdate DEF Stages
    <2> HIDE DEF a
    <2>3. b \in Call
      BY <2>2, DecisionUpdate
    <2>4. QED
      BY <2>1, <2>3
  <1>2. /\ Answering(call, d).stage = "answering"
        /\ Answering(call, d).status = call.status
        /\ Answering(call, d).decision = d
    BY DEF Call, Answering
  <1>3. /\ Answering(call, d).payload = call.payload
        /\ Answering(call, d).caller = call.caller
    BY DEF Call, Answering
  <1>4. /\ Answering(call, d).at = call.at
        /\ Answering(call, d).boot = call.boot
        /\ Answering(call, d).hit = call.hit
    BY DEF Call, Answering
  <1>5. QED
    BY <1>1, <1>2, <1>3, <1>4

LEMMA AnsweringConsistent ==
  ASSUME NEW call \in Call, NEW d \in DecisionRecord,
         call.caller # Nothing, call.payload # Nothing, call.status = 0
  PROVE  Consistent(Answering(call, d))
  <1> DEFINE s == Answering(call, d)
  <1>1. /\ s.stage = "answering" /\ s.status = 0 /\ s.decision = d
        /\ s.payload = call.payload /\ s.caller = call.caller
    BY AnsweringFacts
  <1> HIDE DEF s
  <1>2. d # Nothing
    BY ServiceAssumption DEF DecisionRecord
  <1>3. Consistent(s)
    BY <1>1, <1>2 DEF Consistent
  <1>4. QED
    BY <1>3 DEF s

(* Requests that have not decided are never more than before, so there are *)
(* still ids for them.                                                     *)
LEMMA IdsKept ==
  ASSUME IdsLeft, issued \in Nat, issued' = issued, Untried' \subseteq Untried
  PROVE  IdsLeft'
  <1>1. IsFiniteSet(Untried)
    BY ServiceAssumption, FS_Subset DEF Untried
  <1>2. Cardinality(Untried') <= Cardinality(Untried)
    BY <1>1, FS_Subset
  <1>3. IsFiniteSet(Untried')
    BY <1>1, FS_Subset
  <1>4. Cardinality(Untried) \in Nat /\ Cardinality(Untried') \in Nat /\ Cardinality(Requests) \in Nat
    BY <1>1, <1>3, ServiceAssumption, FS_CardinalityType
  <1> DEFINE a == Cardinality(Untried)
             b == Cardinality(Untried')
             n == Cardinality(Requests)
  <1>5. issued + a <= n
    BY DEF IdsLeft
  <1> HIDE DEF a, b, n
  <1>6. a \in Nat /\ b \in Nat /\ n \in Nat /\ b <= a
    BY <1>2, <1>4 DEF a, b, n
  <1>7. issued + b <= n
    BY <1>5, <1>6
  <1>8. Cardinality(Requests)' = Cardinality(Requests)
    OBVIOUS
  <1>9. QED
    BY <1>7 DEF IdsLeft, b, n

(* Nothing new is filed: the filing stays sound. *)
LEMMA FilingKept ==
  ASSUME FilingSound, Filed' \subseteq Filed, issued' = issued
  PROVE  FilingSound'
  <1>1. \A x \in Filed' :
          /\ x[1].id <= issued'
          /\ \E p \in Payloads : x[2] = CacheKey(p) /\ x[1].says = DecisionFor[p]
    BY DEF FilingSound
  <1>2. \A x, y \in Filed' : x[1].id = y[1].id => x = y
    BY DEF FilingSound
  <1>3. QED
    BY <1>1, <1>2 DEF FilingSound

LEMMA FiledBySteps ==
  ASSUME \A i \in 1..Len(entries') : <<entries'[i].value, entries'[i].key>> \in Filed,
         \A s \in Requests : calls'[s].decision # Nothing
                               => <<calls'[s].decision, CacheKey(calls'[s].payload)>> \in Filed
  PROVE  Filed' \subseteq Filed
  <1>1. SUFFICES ASSUME NEW x \in Filed'
                 PROVE  x \in Filed
    OBVIOUS
  <1>2. CASE \E i \in 1..Len(entries') : x = <<entries'[i].value, entries'[i].key>>
    BY <1>2
  <1>3. CASE \E s \in Requests : /\ calls'[s].decision # Nothing
                                 /\ x = <<calls'[s].decision, CacheKey(calls'[s].payload)>>
    BY <1>3
  <1>4. QED
    BY <1>1, <1>2, <1>3 DEF Filed

LEMMA FiledEntries ==
  /\ \A i \in 1..Len(entries) : <<entries[i].value, entries[i].key>> \in Filed
  /\ \A s \in Requests : calls[s].decision # Nothing
                           => <<calls[s].decision, CacheKey(calls[s].payload)>> \in Filed
  BY DEF Filed

(* Handlers in the queue stay there when another handler moves. *)
LEMMA QueueKept ==
  ASSUME QueueSound, waiting \in Seq(Requests), waiting' = waiting,
         \A s \in Requests : calls[s].stage = "queued" => calls'[s].stage = "queued"
  PROVE  QueueSound'
  <1>1. \A i \in 1..Len(waiting) : waiting[i] \in Requests
    OBVIOUS
  <1>2. QED
    BY <1>1 DEF QueueSound

(* What the invariant says of the handlers and the clock. *)
Handlers ==
  /\ clock \in Instants
  /\ calls \in [Requests -> Call]
  /\ \A s \in Requests : Consistent(calls[s])
  /\ waiting \in Seq(Requests)
  /\ issued \in Nat
  /\ boots \in 0..MaxCrashes
  /\ QueueSound
  /\ IdsLeft

(* A handler that ends: all the step changes besides is up to the caller   *)
(* of this lemma.                                                          *)
LEMMA Settles ==
  ASSUME ServiceInv, NEW r \in Requests, NEW call \in Call, Consistent(call),
         call.stage \in {"answering", "settled"}, calls[r].stage # "queued",
         calls' = [calls EXCEPT ![r] = call],
         waiting' = waiting, issued' = issued, boots' = boots, clock' = clock
  PROVE  Handlers'
  <1>1. TypeOK /\ QueueSound /\ IdsLeft
    BY DEF ServiceInv
  <1>2. /\ calls \in [Requests -> Call] /\ waiting \in Seq(Requests) /\ issued \in Nat
        /\ clock \in Instants /\ boots \in 0..MaxCrashes
        /\ \A s \in Requests : Consistent(calls[s])
    BY <1>1 DEF TypeOK
  <1>3. calls' \in [Requests -> Call]
    BY <1>2
  <1>4. \A s \in Requests : calls'[s] = IF s = r THEN call ELSE calls[s]
    BY <1>2
  <1>5. \A s \in Requests : Consistent(calls'[s])
    BY <1>2, <1>4
  <1>6. QueueSound'
    BY <1>1, <1>2, <1>4, QueueKept
  <1>7. Untried' \subseteq Untried
    BY <1>4 DEF Untried
  <1>8. IdsLeft'
    BY <1>1, <1>2, <1>7, IdsKept
  <1>9. QED
    BY <1>2, <1>3, <1>5, <1>6, <1>8 DEF Handlers

-----------------------------------------------------------------------------
LEMMA InitEstablishes == Init => ServiceInv
  <1>1. SUFFICES ASSUME Init PROVE ServiceInv
    OBVIOUS
  <1>2. TypeOK
    <2>1. NotMade \in Call /\ Consistent(NotMade)
      BY DEF NotMade, Call, Stages, Statuses, Consistent
    <2>2. entries \in Seq(EntrySet(CacheKeys, DecisionRecord)) /\ waiting \in Seq(Requests)
      BY <1>1 DEF Init
    <2>3. boots \in 0..MaxCrashes
      BY <1>1, ServiceAssumption DEF Init
    <2>4. metrics \in Counts
      BY <1>1 DEF Init, NoCounts, Counts
    <2>5. QED
      BY <1>1, <2>1, <2>2, <2>3, <2>4 DEF Init, TypeOK
  <1>3. CacheSound /\ QueueSound
    BY <1>1, CacheAssumption DEF Init, CacheSound, QueueSound, Distinct
  <1>4. IdsLeft
    <2>1. Untried = Requests
      BY <1>1 DEF Init, Untried, NotMade
    <2>2. Cardinality(Requests) \in Nat
      BY ServiceAssumption, FS_CardinalityType
    <2>3. QED
      BY <1>1, <2>1, <2>2 DEF Init, IdsLeft
  <1>5. Filed = {}
    BY <1>1 DEF Init, Filed, NotMade
  <1>6. FilingSound
    BY <1>5 DEF FilingSound
  <1>7. QED
    BY <1>2, <1>3, <1>4, <1>6 DEF ServiceInv

(* A refusal ends the handler before it looks at the cache. *)
LEMMA RefusalPreserves ==
  ASSUME ServiceInv, NEW r \in Requests, NEW c \in Callers, NEW p \in Payloads,
         Unauthorized(r, c, p) \/ TooManyRequests(r, c, p)
           \/ TooManyMessages(r, c, p) \/ NoCacheKey(r, c, p)
  PROVE  ServiceInv'
  <1>1. TypeOK /\ CacheSound /\ FilingSound
    BY DEF ServiceInv
  <1>2. PICK code \in {401, 422, 429, 500} :
          calls' = [calls EXCEPT ![r] = Settled(Made(c, p), code, Nothing)]
    BY DEF Unauthorized, TooManyRequests, TooManyMessages, NoCacheKey
  <1> DEFINE call == Settled(Made(c, p), code, Nothing)
  <1>3. /\ calls[r].stage = "idle"
        /\ entries' = entries /\ waiting' = waiting /\ issued' = issued /\ boots' = boots
        /\ clock' = clock /\ decisionLog' = decisionLog
    BY DEF Unauthorized, TooManyRequests, TooManyMessages, NoCacheKey, Arrives
  <1>4. call \in Call /\ Consistent(call) /\ call.stage = "settled" /\ call.decision = Nothing
    <2>1. /\ Made(c, p) \in Call /\ Made(c, p).caller # Nothing
          /\ Made(c, p).payload # Nothing
      BY <1>1, MadeFacts DEF TypeOK
    <2>2. code \in Statuses /\ code # 200
      BY DEF Statuses
    <2>3. QED
      BY <2>1, <2>2, SettledFacts, SettledConsistent
  <1> HIDE DEF call
  <1>5. calls' = [calls EXCEPT ![r] = call]
    BY <1>2 DEF call
  <1>6. Handlers'
    <2>1. calls[r].stage # "queued"
      BY <1>3
    <2>2. QED
      BY <1>3, <1>4, <1>5, <2>1, Settles
  <1>7. windows' \in [LimitKeys -> Slots \cup {NoSlot}]
    <2>1. windows' = windows \/ RateLimited(c)
      BY DEF Unauthorized, TooManyRequests, TooManyMessages, NoCacheKey, Admits
    <2>2. QED
      BY <1>1, <2>1, WindowsType DEF TypeOK
  <1>8. metrics' \in Counts
    <2>1. metrics' = metrics \/ metrics' = [metrics EXCEPT !.limited = @ + 1]
      BY DEF Unauthorized, TooManyRequests, TooManyMessages, NoCacheKey
    <2>2. QED
      BY <1>1, <2>1 DEF TypeOK, Counts
  <1>9. TypeOK'
    BY <1>1, <1>3, <1>6, <1>7, <1>8 DEF TypeOK, Handlers
  <1>10. CacheSound'
    BY <1>1, <1>3 DEF CacheSound
  <1>11. FilingSound'
    <2>1. \A s \in Requests : calls'[s] = IF s = r THEN call ELSE calls[s]
      BY <1>1, <1>5 DEF TypeOK
    <2>2. Filed' \subseteq Filed
      <3>1. \A i \in 1..Len(entries') : <<entries'[i].value, entries'[i].key>> \in Filed
        BY <1>3, FiledEntries
      <3>2. \A s \in Requests : calls'[s].decision # Nothing
              => <<calls'[s].decision, CacheKey(calls'[s].payload)>> \in Filed
        BY <1>4, <2>1, FiledEntries
      <3>3. QED
        BY <3>1, <3>2, FiledBySteps
    <2>3. QED
      BY <1>1, <1>3, <2>2, FilingKept
  <1>12. QED
    BY <1>6, <1>9, <1>10, <1>11 DEF ServiceInv, Handlers

(* Counters count. *)
LEMMA CountsUpdate ==
  ASSUME NEW m \in Counts
  PROVE  /\ [m EXCEPT !.hits = @ + 1] \in Counts
         /\ [m EXCEPT !.computed = @ + 1] \in Counts
         /\ [m EXCEPT !.total = @ + 1] \in Counts
         /\ [m EXCEPT !.total = @ + 1, !.logged = @ + 1] \in Counts
  <1>1. /\ m.total + 1 \in Nat /\ m.hits + 1 \in Nat /\ m.computed + 1 \in Nat
        /\ m.logged + 1 \in Nat
    BY DEF Counts
  <1>2. [m EXCEPT !.hits = @ + 1] \in Counts
    BY <1>1 DEF Counts
  <1>3. [m EXCEPT !.computed = @ + 1] \in Counts
    BY <1>1 DEF Counts
  <1>4. [m EXCEPT !.total = @ + 1] \in Counts
    BY <1>1 DEF Counts
  <1>5. [m EXCEPT !.total = @ + 1, !.logged = @ + 1] \in Counts
    BY <1>1 DEF Counts
  <1>6. QED
    BY <1>2, <1>3, <1>4, <1>5

(* The end of a handler that has a decision: it returns this decision or,  *)
(* when the log cannot be written, fails with none.                        *)
LEMMA AnswerFacts ==
  ASSUME calls \in [Requests -> Call], decisionLog \in [Ids -> Nat],
         NEW r \in Requests, NEW call \in Call,
         call.caller # Nothing, call.payload # Nothing, call.status = 0,
         NEW d \in DecisionRecord, NEW counted \in Counts, Answer(r, call, d, counted)
  PROVE  /\ metrics' \in Counts
         /\ decisionLog' \in [Ids -> Nat]
         /\ \E new \in Call :
              /\ calls' = [calls EXCEPT ![r] = new]
              /\ Consistent(new)
              /\ new.stage \in {"answering", "settled"}
              /\ new.payload = call.payload
              /\ new.decision \in {Nothing, d}
  <1> DEFINE good == Answering(call, d)
             bad == Settled(call, 500, Nothing)
  <1>1. 500 \in Statuses /\ 500 # 200
    BY DEF Statuses
  <1>2. /\ good \in Call /\ good.stage = "answering" /\ good.decision = d
        /\ good.payload = call.payload /\ Consistent(good)
    BY AnsweringFacts, AnsweringConsistent
  <1>3. /\ bad \in Call /\ bad.stage = "settled" /\ bad.decision = Nothing
        /\ bad.payload = call.payload /\ Consistent(bad)
    BY <1>1, SettledFacts, SettledConsistent
  <1>4. calls' = [calls EXCEPT ![r] = good] \/ calls' = [calls EXCEPT ![r] = bad]
    BY DEF Answer
  <1> HIDE DEF good, bad
  <1>5. metrics' \in Counts
    BY CountsUpdate DEF Answer
  <1>6. decisionLog' \in [Ids -> Nat]
    <2>1. d.id \in Ids
      BY DEF DecisionRecord
    <2>2. decisionLog' = decisionLog \/ decisionLog' = [decisionLog EXCEPT ![d.id] = @ + 1]
      BY DEF Answer
    <2>3. QED
      BY <2>1, <2>2
  <1>7. QED
    BY <1>2, <1>3, <1>4, <1>5, <1>6

(* A request answered from the cache holds what is filed under its key. *)
LEMMA CacheHitPreserves ==
  ASSUME ServiceInv, NEW r \in Requests, NEW c \in Callers, NEW p \in Payloads,
         CacheHit(r, c, p)
  PROVE  ServiceInv'
  <1> DEFINE k == CacheKey(p)
             V == DecisionRecord
             call == [Made(c, p) EXCEPT !.hit = TRUE]
             counted == [metrics EXCEPT !.hits = @ + 1]
             d == EntryOf(entries, k).value
  <1>1. TypeOK /\ CacheSound /\ FilingSound
    BY DEF ServiceInv
  <1>2. /\ entries \in Seq(EntrySet(CacheKeys, V)) /\ Distinct(entries)
        /\ Len(entries) <= MaxEntries /\ clock \in Int
    BY <1>1, ServiceAssumption DEF TypeOK, CacheSound
  <1>3. /\ Hits(entries, k, clock) /\ entries' = AfterGet(entries, k, clock)
        /\ Answer(r, call, d, counted)
        /\ calls[r].stage = "idle" /\ RateLimited(c)
        /\ clock' = clock /\ waiting' = waiting /\ issued' = issued /\ boots' = boots
    BY DEF CacheHit, Arrives, Admits
  <1>4. PositionOf(entries, k) \in 1..Len(entries)
        /\ entries[PositionOf(entries, k)].key = k
    BY <1>2, <1>3, PositionOfPresent DEF Hits
  <1>5. d \in V /\ <<d, k>> \in Filed
    <2>1. entries[PositionOf(entries, k)] \in EntrySet(CacheKeys, V)
      BY <1>2, <1>4
    <2>2. d \in V
      BY <2>1 DEF EntryOf, EntrySet
    <2>3. QED
      BY <1>4, <2>2, FiledEntries DEF EntryOf
  <1>6. /\ call \in Call /\ call.caller # Nothing /\ call.payload = p /\ p # Nothing
        /\ call.status = 0
    <2> DEFINE m == Made(c, p)
    <2>1. /\ m \in Call /\ m.caller = c /\ m.payload = p /\ c # Nothing /\ p # Nothing
          /\ m.status = 0
      BY <1>1, MadeFacts DEF TypeOK
    <2> HIDE DEF m
    <2>2. call = [m EXCEPT !.hit = TRUE]
      BY DEF m
    <2> HIDE DEF call
    <2>3. call \in Call
      BY <2>1, <2>2, HitUpdate
    <2>4. call.caller = c /\ call.payload = p /\ call.status = 0
      BY <2>1, <2>2 DEF Call
    <2>5. QED
      BY <2>1, <2>3, <2>4
  <1>7. counted \in Counts
    BY <1>1, CountsUpdate DEF TypeOK
  <1> HIDE DEF call, counted, d, k, V
  <1>8. /\ metrics' \in Counts
        /\ decisionLog' \in [Ids -> Nat]
        /\ \E new \in Call :
              /\ calls' = [calls EXCEPT ![r] = new]
              /\ Consistent(new)
              /\ new.stage \in {"answering", "settled"}
              /\ new.payload = call.payload
              /\ new.decision \in {Nothing, d}
    <2>1. calls \in [Requests -> Call] /\ decisionLog \in [Ids -> Nat]
      BY <1>1 DEF TypeOK
    <2>2. d \in DecisionRecord
      BY <1>5 DEF V
    <2>3. call.payload # Nothing
      BY <1>6
    <2>4. QED
      BY <1>3, <1>6, <1>7, <2>1, <2>2, <2>3, AnswerFacts
  <1>9. PICK new \in Call :
              /\ calls' = [calls EXCEPT ![r] = new]
              /\ Consistent(new)
              /\ new.stage \in {"answering", "settled"}
              /\ new.payload = p
              /\ new.decision \in {Nothing, d}
    BY <1>6, <1>8
  <1>10. Handlers'
    <2>1. calls[r].stage # "queued"
      BY <1>3
    <2>2. QED
      BY <1>3, <1>9, <2>1, Settles
  <1>11. windows' \in [LimitKeys -> Slots \cup {NoSlot}]
    BY <1>1, <1>3, WindowsType DEF TypeOK
  <1>12. /\ entries' \in Seq(EntrySet(CacheKeys, V)) /\ Distinct(entries')
         /\ Len(entries') = Len(entries)
         /\ \A i \in 1..Len(entries') : \E j \in 1..Len(entries) : entries'[i] = entries[j]
    BY <1>2, <1>3, HitKeepsEntries
  <1>13. TypeOK'
    BY <1>8, <1>10, <1>11, <1>12 DEF TypeOK, Handlers, V
  <1>14. CacheSound'
    BY <1>2, <1>12 DEF CacheSound
  <1>15. FilingSound'
    <2>1. \A i \in 1..Len(entries') : <<entries'[i].value, entries'[i].key>> \in Filed
      BY <1>12, FiledEntries
    <2>2. \A s \in Requests : calls'[s] = IF s = r THEN new ELSE calls[s]
      BY <1>1, <1>9 DEF TypeOK
    <2>3. calls'[r].decision # Nothing
            => <<calls'[r].decision, CacheKey(calls'[r].payload)>> \in Filed
      BY <1>5, <1>9, <2>2 DEF k
    <2>4. \A s \in Requests : calls'[s].decision # Nothing
                               => <<calls'[s].decision, CacheKey(calls'[s].payload)>> \in Filed
      BY <2>2, <2>3, FiledEntries
    <2>5. Filed' \subseteq Filed
      BY <2>1, <2>4, FiledBySteps
    <2>6. QED
      BY <1>1, <1>3, <2>5, FilingKept
  <1>16. QED
    BY <1>10, <1>13, <1>14, <1>15 DEF ServiceInv, Handlers

(* The coroutine of a finished computation fills the cache with what the   *)
(* request itself holds.                                                   *)
LEMMA ResumePreserves ==
  ASSUME ServiceInv, NEW r \in Requests, Resume(r)
  PROVE  ServiceInv'
  <1> DEFINE k == CacheKey(calls[r].payload)
             V == DecisionRecord
             call == calls[r]
             counted == [metrics EXCEPT !.computed = @ + 1]
             d == calls[r].decision
  <1>1. TypeOK /\ CacheSound /\ FilingSound
    BY DEF ServiceInv
  <1>2. /\ entries \in Seq(EntrySet(CacheKeys, V)) /\ Distinct(entries)
        /\ Len(entries) <= MaxEntries /\ clock \in Int
    BY <1>1, ServiceAssumption DEF TypeOK, CacheSound
  <1>3. /\ entries' = AfterPut(entries, k, d, clock)
        /\ Answer(r, call, d, counted)
        /\ call.stage = "computed"
        /\ clock' = clock /\ waiting' = waiting /\ issued' = issued /\ boots' = boots
        /\ windows' = windows
    BY DEF Resume
  <1>4. call \in Call /\ Consistent(call)
    BY <1>1 DEF TypeOK
  <1>5. /\ call.caller # Nothing /\ call.payload # Nothing /\ d # Nothing
        /\ call.status = 0
    BY <1>3, <1>4 DEF Consistent
  <1>6. call.payload \in Payloads /\ d \in DecisionRecord
    BY <1>4, <1>5 DEF Call
  <1>7. k \in CacheKeys /\ <<d, k>> \in Filed
    BY <1>5, <1>6, FiledEntries DEF CacheKeys
  <1>8. counted \in Counts
    BY <1>1, CountsUpdate DEF TypeOK
  <1> HIDE DEF call, counted, d, k, V
  <1>9. /\ metrics' \in Counts
        /\ decisionLog' \in [Ids -> Nat]
        /\ \E new \in Call :
              /\ calls' = [calls EXCEPT ![r] = new]
              /\ Consistent(new)
              /\ new.stage \in {"answering", "settled"}
              /\ new.payload = call.payload
              /\ new.decision \in {Nothing, d}
    <2>1. calls \in [Requests -> Call] /\ decisionLog \in [Ids -> Nat]
      BY <1>1 DEF TypeOK
    <2>2. QED
      BY <1>3, <1>4, <1>5, <1>6, <1>8, <2>1, AnswerFacts
  <1>10. PICK new \in Call :
              /\ calls' = [calls EXCEPT ![r] = new]
              /\ Consistent(new)
              /\ new.stage \in {"answering", "settled"}
              /\ new.payload = call.payload
              /\ new.decision \in {Nothing, d}
    BY <1>9
  <1>11. Handlers'
    <2>1. calls[r].stage # "queued"
      BY <1>3 DEF call
    <2>2. QED
      BY <1>3, <1>10, <2>1, Settles
  <1>12. /\ entries' \in Seq(EntrySet(CacheKeys, V)) /\ Distinct(entries')
         /\ Len(entries') <= MaxEntries
         /\ \A i \in 1..Len(entries') :
              \/ entries'[i].key = k /\ entries'[i].value = d
              \/ \E j \in 1..Len(entries) : entries'[i] = entries[j]
    <2>1. d \in V
      BY <1>6 DEF V
    <2>2. QED
      BY <1>2, <1>3, <1>7, <2>1, PutAddsOnlyIts
  <1>13. TypeOK'
    BY <1>1, <1>3, <1>9, <1>11, <1>12 DEF TypeOK, Handlers, V
  <1>14. CacheSound'
    BY <1>12 DEF CacheSound
  <1>15. FilingSound'
    <2>1. \A i \in 1..Len(entries') : <<entries'[i].value, entries'[i].key>> \in Filed
      BY <1>7, <1>12, FiledEntries
    <2>2. \A s \in Requests : calls'[s] = IF s = r THEN new ELSE calls[s]
      BY <1>1, <1>10 DEF TypeOK
    <2>3. calls'[r].decision # Nothing
            => <<calls'[r].decision, CacheKey(calls'[r].payload)>> \in Filed
      BY <1>7, <1>10, <2>2 DEF k, call
    <2>4. \A s \in Requests : calls'[s].decision # Nothing
                               => <<calls'[s].decision, CacheKey(calls'[s].payload)>> \in Filed
      BY <2>2, <2>3, FiledEntries
    <2>5. Filed' \subseteq Filed
      BY <2>1, <2>4, FiledBySteps
    <2>6. QED
      BY <1>1, <1>3, <2>5, FilingKept
  <1>16. QED
    BY <1>11, <1>13, <1>14, <1>15 DEF ServiceInv, Handlers

(* A miss may drop an expired entry and leaves the request in the queue.   *)
LEMMA CacheMissPreserves ==
  ASSUME ServiceInv, NEW r \in Requests, NEW c \in Callers, NEW p \in Payloads,
         CacheMiss(r, c, p)
  PROVE  ServiceInv'
  <1> DEFINE k == CacheKey(p)
             V == DecisionRecord
             call == Made(c, p)
  <1>1. TypeOK /\ CacheSound /\ QueueSound /\ IdsLeft /\ FilingSound
    BY DEF ServiceInv
  <1>2. /\ entries \in Seq(EntrySet(CacheKeys, V)) /\ Distinct(entries)
        /\ Len(entries) <= MaxEntries /\ clock \in Int
    BY <1>1, ServiceAssumption DEF TypeOK, CacheSound
  <1>3. /\ ~ Hits(entries, k, clock) /\ entries' = AfterGet(entries, k, clock)
        /\ calls[r].stage = "idle" /\ RateLimited(c)
        /\ calls' = [calls EXCEPT ![r] = call]
        /\ waiting' = Append(waiting, r)
        /\ clock' = clock /\ issued' = issued /\ boots' = boots /\ metrics' = metrics
        /\ decisionLog' = decisionLog
    BY DEF CacheMiss, Arrives, Admits
  <1>4. /\ call \in Call /\ call.stage = "queued" /\ call.decision = Nothing
        /\ call.status = 0 /\ call.caller # Nothing /\ call.payload # Nothing
    BY <1>1, MadeFacts DEF TypeOK
  <1> HIDE DEF call, k, V
  <1>5. Consistent(call)
    BY <1>4 DEF Consistent
  <1>6. \A s \in Requests : calls'[s] = IF s = r THEN call ELSE calls[s]
    BY <1>1, <1>3 DEF TypeOK
  <1>7. windows' \in [LimitKeys -> Slots \cup {NoSlot}]
    BY <1>1, <1>3, WindowsType DEF TypeOK
  <1>8. /\ entries' \in Seq(EntrySet(CacheKeys, V)) /\ Distinct(entries')
        /\ Len(entries') <= Len(entries)
        /\ \A i \in 1..Len(entries') : \E j \in 1..Len(entries) : entries'[i] = entries[j]
    BY <1>2, <1>3, MissKeepsEntries
  <1>9. calls' \in [Requests -> Call] /\ waiting' \in Seq(Requests)
    BY <1>1, <1>3, <1>4 DEF TypeOK
  <1>10. \A s \in Requests : Consistent(calls'[s])
    BY <1>1, <1>5, <1>6 DEF TypeOK
  <1>11. TypeOK'
    BY <1>1, <1>3, <1>7, <1>8, <1>9, <1>10 DEF TypeOK, V
  <1>12. CacheSound'
    <2>1. Len(entries') \in Nat /\ Len(entries) \in Nat /\ MaxEntries \in Nat
      BY <1>2, <1>8, CacheAssumption
    <2>2. QED
      BY <1>2, <1>8, <2>1 DEF CacheSound
  <1>13. QueueSound'
    <2>1. waiting \in Seq(Requests) /\ Len(waiting) \in Nat
      BY <1>1 DEF TypeOK
    <2>2. \A i \in 1..Len(waiting) : /\ waiting[i] \in Requests /\ waiting[i] # r
                                     /\ calls[waiting[i]].stage = "queued"
      BY <1>1, <1>3, <2>1 DEF QueueSound
    <2>3. /\ Len(waiting') = Len(waiting) + 1
          /\ \A i \in 1..Len(waiting') :
               waiting'[i] = IF i = Len(waiting) + 1 THEN r ELSE waiting[i]
      BY <1>3, <2>1
    <2>4. \A i \in 1..Len(waiting') : calls'[waiting'[i]].stage = "queued"
      <3>1. TAKE i \in 1..Len(waiting')
      <3>2. CASE i = Len(waiting) + 1
        BY <1>4, <1>6, <2>3, <3>2
      <3>3. CASE i \in 1..Len(waiting)
        <4>1. waiting'[i] = waiting[i]
          BY <2>1, <2>3, <3>3
        <4>2. calls'[waiting[i]] = calls[waiting[i]]
          BY <1>6, <2>2, <3>3
        <4>3. QED
          BY <2>2, <3>3, <4>1, <4>2
      <3>4. QED
        BY <2>1, <2>3, <3>2, <3>3
    <2>5. \A i, j \in 1..Len(waiting') : waiting'[i] = waiting'[j] => i = j
      <3>1. \A i, j \in 1..Len(waiting) : waiting[i] = waiting[j] => i = j
        BY <1>1 DEF QueueSound
      <3>2. QED
        BY <2>1, <2>2, <2>3, <3>1
    <2>6. QED
      BY <2>4, <2>5 DEF QueueSound
  <1>14. IdsLeft'
    <2>1. Untried' \subseteq Untried
      BY <1>3, <1>6 DEF Untried
    <2>2. QED
      BY <1>1, <1>3, <2>1, IdsKept DEF TypeOK
  <1>15. FilingSound'
    <2>1. \A i \in 1..Len(entries') : <<entries'[i].value, entries'[i].key>> \in Filed
      BY <1>8, FiledEntries
    <2>2. \A s \in Requests : calls'[s].decision # Nothing
                               => <<calls'[s].decision, CacheKey(calls'[s].payload)>> \in Filed
      BY <1>4, <1>6, FiledEntries
    <2>3. Filed' \subseteq Filed
      BY <2>1, <2>2, FiledBySteps
    <2>4. QED
      BY <1>1, <1>3, <2>3, FilingKept
  <1>16. QED
    BY <1>11, <1>12, <1>13, <1>14, <1>15 DEF ServiceInv

(* A handler moves on to another stage and keeps its locals. *)
LEMMA StageFacts ==
  ASSUME NEW call \in Call, NEW x \in Stages
  PROVE  LET s == [call EXCEPT !.stage = x]
         IN  /\ s \in Call
             /\ s.stage = x /\ s.status = call.status /\ s.decision = call.decision
             /\ s.payload = call.payload /\ s.caller = call.caller
  <1>1. [call EXCEPT !.stage = x] \in Call
    BY StageUpdate
  <1>2. /\ [call EXCEPT !.stage = x].stage = x
        /\ [call EXCEPT !.stage = x].status = call.status
        /\ [call EXCEPT !.stage = x].decision = call.decision
    BY DEF Call
  <1>3. /\ [call EXCEPT !.stage = x].payload = call.payload
        /\ [call EXCEPT !.stage = x].caller = call.caller
    BY DEF Call
  <1>4. QED
    BY <1>1, <1>2, <1>3

(* What a step that moves one handler from the pool's queue or within the  *)
(* pool leaves as it was.                                                  *)
LEMMA MovePreserves ==
  ASSUME ServiceInv, NEW r \in Requests, NEW x \in {"running", "failed"},
         calls[r].stage \in {"queued", "running"},
         calls' = [calls EXCEPT ![r] = [calls[r] EXCEPT !.stage = x]],
         waiting' \in Seq(Requests), QueueSound',
         UNCHANGED <<clock, entries, windows, metrics, issued, decisionLog, boots>>
  PROVE  ServiceInv'
  <1> DEFINE new == [calls[r] EXCEPT !.stage = x]
  <1>1. TypeOK /\ CacheSound /\ IdsLeft /\ FilingSound
    BY DEF ServiceInv
  <1>2. calls[r] \in Call /\ Consistent(calls[r]) /\ x \in Stages
    BY <1>1 DEF TypeOK, Stages
  <1>3. /\ new \in Call
        /\ new.stage = x /\ new.status = calls[r].status /\ new.decision = calls[r].decision
        /\ new.payload = calls[r].payload /\ new.caller = calls[r].caller
    BY <1>2, StageFacts
  <1> HIDE DEF new
  <1>4. calls' = [calls EXCEPT ![r] = new]
    BY DEF new
  <1>5. /\ calls' \in [Requests -> Call]
        /\ \A s \in Requests : calls'[s] = IF s = r THEN new ELSE calls[s]
    BY <1>1, <1>3, <1>4 DEF TypeOK
  <1>6. Consistent(new)
    BY <1>2, <1>3 DEF Consistent
  <1>7. \A s \in Requests : Consistent(calls'[s])
    BY <1>1, <1>5, <1>6 DEF TypeOK
  <1>8. TypeOK'
    BY <1>1, <1>5, <1>7 DEF TypeOK
  <1>9. CacheSound'
    BY <1>1 DEF CacheSound
  <1>10. IdsLeft'
    <2>1. Untried' \subseteq Untried
      BY <1>5 DEF Untried
    <2>2. QED
      BY <1>1, <2>1, IdsKept DEF TypeOK
  <1>11. FilingSound'
    <2>1. \A s \in Requests : /\ calls'[s].decision = calls[s].decision
                              /\ calls'[s].payload = calls[s].payload
      BY <1>3, <1>5
    <2>2. \A s \in Requests : calls'[s].decision # Nothing
                               => <<calls'[s].decision, CacheKey(calls'[s].payload)>> \in Filed
      BY <2>1, FiledEntries
    <2>3. \A i \in 1..Len(entries') : <<entries'[i].value, entries'[i].key>> \in Filed
      BY FiledEntries
    <2>4. Filed' \subseteq Filed
      BY <2>2, <2>3, FiledBySteps
    <2>5. QED
      BY <1>1, <2>4, FilingKept
  <1>12. QED
    BY <1>8, <1>9, <1>10, <1>11 DEF ServiceInv

LEMMA StartWorkPreserves ==
  ASSUME ServiceInv, StartWork
  PROVE  ServiceInv'
  <1> DEFINE r == Head(waiting)
             n == Len(waiting)
  <1>1. TypeOK /\ QueueSound
    BY DEF ServiceInv
  <1>2. /\ waiting # <<>> /\ waiting' = Tail(waiting)
        /\ calls' = [calls EXCEPT ![r] = [calls[r] EXCEPT !.stage = "running"]]
        /\ UNCHANGED <<clock, entries, windows, metrics, issued, decisionLog, boots>>
    BY DEF StartWork
  <1>3. waiting \in Seq(Requests) /\ n \in Nat /\ n >= 1 /\ 1 \in 1..n
    BY <1>1, <1>2 DEF TypeOK
  <1>4. /\ waiting' \in Seq(Requests) /\ Len(waiting') = n - 1
        /\ \A i \in 1..(n - 1) : waiting'[i] = waiting[i + 1]
    BY <1>2, <1>3
  <1>5. r \in Requests /\ r = waiting[1] /\ calls[r].stage = "queued"
    BY <1>1, <1>2, <1>3 DEF QueueSound
  <1>6. QueueSound'
    <2>1. \A i \in 1..(n - 1) : /\ i + 1 \in 1..n /\ i + 1 # 1
                                /\ waiting[i + 1] \in Requests
      BY <1>3
    <2>2. \A i \in 1..(n - 1) : waiting[i + 1] # r /\ calls[waiting[i + 1]].stage = "queued"
      BY <1>1, <1>3, <1>5, <2>1 DEF QueueSound
    <2> HIDE DEF r
    <2>3. \A s \in Requests : s # r => calls'[s] = calls[s]
      BY <1>1, <1>2 DEF TypeOK
    <2>4. \A i \in 1..(n - 1) : calls'[waiting'[i]].stage = "queued"
      BY <1>4, <2>1, <2>2, <2>3
    <2>5. \A i, j \in 1..(n - 1) : waiting'[i] = waiting'[j] => i = j
      BY <1>1, <1>3, <1>4, <2>1 DEF QueueSound
    <2>6. QED
      BY <1>4, <2>4, <2>5 DEF QueueSound
  <1> HIDE DEF r
  <1>7. QED
    BY <1>2, <1>4, <1>5, <1>6, MovePreserves

LEMMA WorkerFailsPreserves ==
  ASSUME ServiceInv, NEW r \in Requests, WorkerFails(r)
  PROVE  ServiceInv'
  <1>1. /\ calls[r].stage = "running" /\ waiting' = waiting
        /\ calls' = [calls EXCEPT ![r] = [calls[r] EXCEPT !.stage = "failed"]]
        /\ UNCHANGED <<clock, entries, windows, metrics, issued, decisionLog, boots>>
    BY DEF WorkerFails
  <1>2. TypeOK /\ QueueSound
    BY DEF ServiceInv
  <1>3. \A s \in Requests : calls[s].stage = "queued" => calls'[s].stage = "queued"
    BY <1>1, <1>2 DEF TypeOK
  <1>4. waiting' \in Seq(Requests) /\ QueueSound'
    BY <1>1, <1>2, <1>3, QueueKept DEF TypeOK
  <1>5. QED
    BY <1>1, <1>4, MovePreserves

LEMMA ResumeFailedPreserves ==
  ASSUME ServiceInv, NEW r \in Requests, ResumeFailed(r)
  PROVE  ServiceInv'
  <1> DEFINE call == Settled(calls[r], 500, Nothing)
  <1>1. TypeOK /\ CacheSound /\ FilingSound
    BY DEF ServiceInv
  <1>2. /\ calls[r].stage = "failed" /\ calls' = [calls EXCEPT ![r] = call]
        /\ UNCHANGED <<clock, entries, windows, metrics, waiting, issued, decisionLog, boots>>
    BY DEF ResumeFailed
  <1>3. calls[r] \in Call /\ calls[r].caller # Nothing /\ calls[r].payload # Nothing
    BY <1>1, <1>2 DEF TypeOK, Consistent
  <1>4. 500 \in Statuses /\ 500 # 200
    BY DEF Statuses
  <1>5. /\ call \in Call /\ call.stage = "settled" /\ call.decision = Nothing
        /\ Consistent(call)
    BY <1>3, <1>4, SettledFacts, SettledConsistent
  <1> HIDE DEF call
  <1>6. Handlers'
    <2>1. calls[r].stage # "queued"
      BY <1>2
    <2>2. QED
      BY <1>2, <1>5, <2>1, Settles
  <1>7. TypeOK'
    BY <1>1, <1>2, <1>6 DEF TypeOK, Handlers
  <1>8. CacheSound'
    BY <1>1, <1>2 DEF CacheSound
  <1>9. FilingSound'
    <2>1. \A s \in Requests : calls'[s] = IF s = r THEN call ELSE calls[s]
      BY <1>1, <1>2 DEF TypeOK
    <2>2. Filed' \subseteq Filed
      BY <1>2, <1>5, <2>1, FiledEntries, FiledBySteps
    <2>3. QED
      BY <1>1, <1>2, <2>2, FilingKept
  <1>10. QED
    BY <1>6, <1>7, <1>8, <1>9 DEF ServiceInv, Handlers

(* A response that goes out tells what its handler returned. *)
LEMMA RespondPreserves ==
  ASSUME ServiceInv, NEW r \in Requests, Respond(r)
  PROVE  ServiceInv'
  <1> DEFINE d == calls[r].decision
             call == Settled(calls[r], 200, d)
  <1>1. TypeOK /\ CacheSound /\ FilingSound
    BY DEF ServiceInv
  <1>2. /\ calls[r].stage = "answering" /\ calls' = [calls EXCEPT ![r] = call]
        /\ UNCHANGED <<clock, entries, windows, metrics, waiting, issued, decisionLog, boots>>
    BY DEF Respond
  <1>3. /\ calls[r] \in Call /\ calls[r].caller # Nothing /\ calls[r].payload # Nothing
        /\ d # Nothing /\ d \in DecisionRecord \cup {Nothing}
    BY <1>1, <1>2 DEF TypeOK, Consistent, Call
  <1>4. 200 \in Statuses
    BY DEF Statuses
  <1> HIDE DEF d
  <1>5. /\ call \in Call /\ call.stage = "settled" /\ call.decision = d
        /\ call.payload = calls[r].payload /\ Consistent(call)
    BY <1>3, <1>4, SettledFacts, SettledConsistent
  <1> HIDE DEF call
  <1>6. Handlers'
    <2>1. calls[r].stage # "queued"
      BY <1>2
    <2>2. QED
      BY <1>2, <1>5, <2>1, Settles
  <1>7. TypeOK'
    BY <1>1, <1>2, <1>6 DEF TypeOK, Handlers
  <1>8. CacheSound'
    BY <1>1, <1>2 DEF CacheSound
  <1>9. FilingSound'
    <2>1. \A s \in Requests : /\ calls'[s].decision = calls[s].decision
                              /\ calls'[s].payload = calls[s].payload
      BY <1>1, <1>2, <1>5 DEF TypeOK, d
    <2>2. Filed' \subseteq Filed
      BY <1>2, <2>1, FiledEntries, FiledBySteps
    <2>3. QED
      BY <1>1, <1>2, <2>2, FilingKept
  <1>10. QED
    BY <1>6, <1>7, <1>8, <1>9 DEF ServiceInv, Handlers

(* The one step that files something new, under an id nobody has. *)
LEMMA ComputePreserves ==
  ASSUME ServiceInv, NEW r \in Requests, Compute(r)
  PROVE  ServiceInv'
  <1> DEFINE d == [id |-> issued + 1, says |-> DecisionFor[calls[r].payload]]
             a == [calls[r] EXCEPT !.stage = "computed"]
             new == [a EXCEPT !.decision = d]
             k == CacheKey(calls[r].payload)
  <1>1. TypeOK /\ CacheSound /\ QueueSound /\ IdsLeft /\ FilingSound
    BY DEF ServiceInv
  <1>2. /\ calls[r].stage = "running" /\ issued' = issued + 1
        /\ UNCHANGED <<clock, entries, windows, metrics, waiting, decisionLog, boots>>
    BY DEF Compute
  <1>3. /\ calls[r] \in Call /\ Consistent(calls[r]) /\ calls[r].status = 0
        /\ calls[r].caller # Nothing /\ calls[r].payload # Nothing /\ calls[r].decision = Nothing
    BY <1>1, <1>2 DEF TypeOK, Consistent
  <1>4. calls[r].payload \in Payloads
    BY <1>3 DEF Call
  <1>5. /\ IsFiniteSet(Untried) /\ r \in Untried
        /\ Untried' = Untried \ {r}
    <2>1. \A s \in Requests : calls'[s].stage = IF s = r THEN "computed" ELSE calls[s].stage
      BY <1>1, <1>3 DEF TypeOK, Compute, Call
    <2>2. QED
      BY <1>2, <2>1, ServiceAssumption, FS_Subset DEF Untried
  <1>6. /\ IdsLeft' /\ issued + 1 \in Ids
    <2> DEFINE m == Cardinality(Untried)
               q == Cardinality(Untried')
               z == Cardinality(Requests)
    <2>1. q = m - 1 /\ m \in Nat /\ q \in Nat /\ z \in Nat
      <3>1. Cardinality(Untried \ {r}) = Cardinality(Untried) - 1
        BY <1>5, FS_RemoveElement
      <3>2. IsFiniteSet(Untried \ {r})
        BY <1>5, FS_Subset
      <3>3. QED
        BY <1>5, <3>1, <3>2, ServiceAssumption, FS_CardinalityType
    <2>2. issued + m <= z /\ issued \in Nat
      BY <1>1 DEF IdsLeft, TypeOK
    <2> HIDE DEF m, q, z
    <2>3. issued + 1 + q <= z /\ issued + 1 \in 1..z
      BY <2>1, <2>2
    <2>4. QED
      BY <1>2, <2>3 DEF IdsLeft, Ids, q, z
  <1>7. d \in DecisionRecord /\ d # Nothing
    <2>1. d \in DecisionRecord
      BY <1>4, <1>6, DecisionForType DEF DecisionRecord
    <2>2. QED
      BY <2>1, ServiceAssumption DEF DecisionRecord
  <1>8. /\ a \in Call /\ a.stage = "computed" /\ a.status = 0
        /\ a.payload = calls[r].payload /\ a.caller = calls[r].caller
    BY <1>3, StageFacts DEF Stages
  <1>9. calls' = [calls EXCEPT ![r] = new]
    BY <1>1, <1>3 DEF Compute, TypeOK, Call
  <1>10. d.id = issued + 1 /\ d.says = DecisionFor[calls[r].payload]
    OBVIOUS
  <1> HIDE DEF a, d, k
  <1>11. new \in Call
    BY <1>7, <1>8, DecisionUpdate
  <1>12. /\ new.stage = "computed" /\ new.status = 0 /\ new.decision = d
         /\ new.payload = calls[r].payload /\ new.caller = calls[r].caller
    BY <1>8 DEF Call
  <1> HIDE DEF new
  <1>13. Consistent(new)
    BY <1>3, <1>7, <1>12 DEF Consistent
  <1>14. /\ calls' \in [Requests -> Call]
         /\ \A s \in Requests : calls'[s] = IF s = r THEN new ELSE calls[s]
    BY <1>1, <1>9, <1>11 DEF TypeOK
  <1>15. \A s \in Requests : Consistent(calls'[s])
    BY <1>1, <1>13, <1>14 DEF TypeOK
  <1>16. TypeOK'
    BY <1>1, <1>2, <1>14, <1>15 DEF TypeOK
  <1>17. CacheSound'
    BY <1>1, <1>2 DEF CacheSound
  <1>18. QueueSound'
    <2>1. \A s \in Requests : calls[s].stage = "queued" => calls'[s].stage = "queued"
      BY <1>2, <1>14
    <2>2. QED
      BY <1>1, <1>2, <2>1, QueueKept DEF TypeOK
  <1>19. FilingSound'
    <2>1. \A x \in Filed' : x \in Filed \/ x = <<d, k>>
      BY <1>2, <1>12, <1>14 DEF Filed, k
    <2>2. \A x \in Filed : x[1].id <= issued
      BY <1>1 DEF FilingSound
    <2>3. \A x \in Filed : x[1].id \in Nat
      <3>1. \A i \in 1..Len(entries) : entries[i].value.id \in Nat
        <4>1. TAKE i \in 1..Len(entries)
        <4>2. entries \in Seq(EntrySet(CacheKeys, DecisionRecord))
          BY <1>1 DEF TypeOK
        <4>3. entries[i] \in EntrySet(CacheKeys, DecisionRecord)
          BY <4>2
        <4>4. entries[i].value \in DecisionRecord
          BY <4>3 DEF EntrySet
        <4>5. QED
          BY <4>4 DEF DecisionRecord, Ids
      <3>2. \A s \in Requests : calls[s].decision # Nothing => calls[s].decision.id \in Nat
        BY <1>1 DEF TypeOK, Call, DecisionRecord, Ids
      <3>3. QED
        BY <3>1, <3>2 DEF Filed
    <2>4. \A x \in Filed : x[1].id # issued + 1 /\ x[1].id <= issued + 1
      BY <1>1, <2>2, <2>3 DEF TypeOK
    <2>5. \A x \in Filed' :
            /\ x[1].id <= issued'
            /\ \E p \in Payloads : x[2] = CacheKey(p) /\ x[1].says = DecisionFor[p]
      <3>1. TAKE x \in Filed'
      <3>2. CASE x \in Filed
        BY <1>1, <1>2, <2>4, <3>2 DEF FilingSound
      <3>3. CASE x = <<d, k>>
        <4>1. x[1].id <= issued'
          BY <1>1, <1>2, <1>10, <3>3 DEF TypeOK
        <4>2. x[2] = CacheKey(calls[r].payload) /\ x[1].says = DecisionFor[calls[r].payload]
          BY <1>10, <3>3 DEF k
        <4>3. QED
          BY <1>4, <4>1, <4>2
      <3>4. QED
        BY <2>1, <3>2, <3>3
    <2>6. \A x, y \in Filed' : x[1].id = y[1].id => x = y
      <3>1. TAKE x, y \in Filed'
      <3>2. HAVE x[1].id = y[1].id
      <3>3. <<d, k>>[1].id = issued + 1
        BY <1>10
      <3>4. CASE x \in Filed /\ y \in Filed
        BY <1>1, <3>2, <3>4 DEF FilingSound
      <3>5. QED
        BY <2>1, <2>4, <3>2, <3>3, <3>4
    <2>7. QED
      BY <2>5, <2>6 DEF FilingSound
  <1>20. QED
    BY <1>6, <1>16, <1>17, <1>18, <1>19 DEF ServiceInv

LEMMA AdvancePreserves ==
  ASSUME ServiceInv, Advance
  PROVE  ServiceInv'
  <1>1. clock' \in Instants
    BY DEF Advance
  <1>2. UNCHANGED <<entries, windows, metrics, calls, waiting, issued, decisionLog, boots>>
    BY DEF Advance
  <1>3. TypeOK'
    BY <1>1, <1>2 DEF ServiceInv, TypeOK
  <1>4. CacheSound' /\ QueueSound' /\ IdsLeft'
    BY <1>2 DEF ServiceInv, CacheSound, QueueSound, IdsLeft, Untried
  <1>5. Filed' = Filed
    BY <1>2 DEF Filed
  <1>6. FilingSound'
    BY <1>2, <1>5, FilingKept DEF ServiceInv
  <1>7. QED
    BY <1>3, <1>4, <1>6 DEF ServiceInv

(* A crash only drops what is filed; the ids of before stay taken. *)
LEMMA CrashPreserves ==
  ASSUME ServiceInv, Crash
  PROVE  ServiceInv'
  <1>1. TypeOK /\ IdsLeft /\ FilingSound
    BY DEF ServiceInv
  <1>2. /\ entries' = <<>> /\ waiting' = <<>> /\ metrics' = NoCounts
        /\ windows' = [k \in LimitKeys |-> NoSlot]
        /\ boots < MaxCrashes /\ boots' = boots + 1
        /\ calls' = [r \in Requests |->
                       IF r \in InFlight THEN Settled(calls[r], 0, Unsent(calls[r])) ELSE calls[r]]
        /\ clock' = clock /\ issued' = issued /\ decisionLog' = decisionLog
    BY DEF Crash
  <1>3. \A r \in Requests :
          calls[r] \in Call /\ Consistent(calls[r])
    BY <1>1 DEF TypeOK
  <1>4. ASSUME NEW r \in InFlight
        PROVE  LET s == Settled(calls[r], 0, Unsent(calls[r]))
               IN  /\ r \in Requests /\ s \in Call /\ Consistent(s)
                   /\ s.stage = "settled" /\ s.payload = calls[r].payload
                   /\ s.decision \in {Nothing, calls[r].decision}
    <2>1. r \in Requests /\ calls[r].stage # "idle"
      BY DEF InFlight
    <2>2. calls[r] \in Call /\ calls[r].caller # Nothing /\ calls[r].payload # Nothing
      BY <1>3, <2>1 DEF Consistent
    <2>3. /\ Unsent(calls[r]) \in {Nothing, calls[r].decision}
          /\ Unsent(calls[r]) \in DecisionRecord \cup {Nothing}
      BY <2>2 DEF Unsent, Call
    <2>4. 0 \in Statuses /\ 0 # 200
      BY DEF Statuses
    <2>5. QED
      BY <2>1, <2>2, <2>3, <2>4, SettledFacts, SettledConsistent
  <1>5. \A r \in Requests :
          /\ calls'[r] \in Call /\ Consistent(calls'[r])
          /\ \/ calls'[r] = calls[r]
             \/ /\ calls'[r].stage = "settled" /\ calls'[r].payload = calls[r].payload
                /\ calls'[r].decision \in {Nothing, calls[r].decision}
    <2>1. TAKE r \in Requests
    <2>2. CASE r \in InFlight
      BY <1>2, <1>4, <2>2
    <2>3. CASE r \notin InFlight
      BY <1>2, <1>3, <2>3
    <2>4. QED
      BY <2>2, <2>3
  <1>6. calls' \in [Requests -> Call]
    BY <1>2, <1>5
  <1>7. TypeOK'
    <2>1. entries' \in Seq(EntrySet(CacheKeys, DecisionRecord)) /\ waiting' \in Seq(Requests)
      BY <1>2
    <2>2. metrics' \in Counts
      BY <1>2 DEF NoCounts, Counts
    <2>3. boots' \in 0..MaxCrashes
      BY <1>1, <1>2, ServiceAssumption DEF TypeOK
    <2>4. windows' \in [LimitKeys -> Slots \cup {NoSlot}]
      BY <1>2
    <2>5. QED
      BY <1>1, <1>2, <1>5, <1>6, <2>1, <2>2, <2>3, <2>4 DEF TypeOK
  <1>8. CacheSound' /\ QueueSound'
    BY <1>2, CacheAssumption DEF CacheSound, QueueSound, Distinct
  <1>9. IdsLeft'
    <2>1. Untried' \subseteq Untried
      BY <1>5 DEF Untried
    <2>2. QED
      BY <1>1, <1>2, <2>1, IdsKept DEF TypeOK
  <1>10. FilingSound'
    <2>1. \A i \in 1..Len(entries') : <<entries'[i].value, entries'[i].key>> \in Filed
      BY <1>2
    <2>2. \A s \in Requests : calls'[s].decision # Nothing
                               => <<calls'[s].decision, CacheKey(calls'[s].payload)>> \in Filed
      BY <1>5, FiledEntries
    <2>3. Filed' \subseteq Filed
      BY <2>1, <2>2, FiledBySteps
    <2>4. QED
      BY <1>1, <1>2, <2>3, FilingKept
  <1>11. QED
    BY <1>7, <1>8, <1>9, <1>10 DEF ServiceInv

LEMMA NextPreserves ==
  ASSUME ServiceInv, [Next]_vars
  PROVE  ServiceInv'
  <1>1. ASSUME NEW r \in Requests, Arrival(r)
        PROVE  ServiceInv'
    <2>1. PICK c \in Callers, p \in Payloads :
            \/ Unauthorized(r, c, p)
            \/ TooManyRequests(r, c, p)
            \/ TooManyMessages(r, c, p)
            \/ NoCacheKey(r, c, p)
            \/ CacheHit(r, c, p)
            \/ CacheMiss(r, c, p)
      BY <1>1 DEF Arrival
    <2>2. QED
      BY <2>1, RefusalPreserves, CacheHitPreserves, CacheMissPreserves
  <1>2. ASSUME NEW r \in Requests, Work(r) \/ Resumption(r)
        PROVE  ServiceInv'
    BY <1>2, ComputePreserves, WorkerFailsPreserves, ResumePreserves, ResumeFailedPreserves,
       RespondPreserves
       DEF Work, Resumption
  <1>3. CASE StartWork
    BY <1>3, StartWorkPreserves
  <1>4. CASE Advance
    BY <1>4, AdvancePreserves
  <1>5. CASE Crash
    BY <1>5, CrashPreserves
  <1>6. CASE UNCHANGED vars
    <2>1. UNCHANGED <<clock, entries, windows, metrics, calls, waiting, issued, decisionLog, boots>>
      BY <1>6 DEF vars
    <2>2. TypeOK'
      BY <2>1 DEF ServiceInv, TypeOK
    <2>3. CacheSound' /\ QueueSound' /\ IdsLeft'
      BY <2>1 DEF ServiceInv, CacheSound, QueueSound, IdsLeft, Untried
    <2>4. Filed' = Filed
      BY <2>1 DEF Filed
    <2>5. FilingSound'
      BY <2>1, <2>4, FilingKept DEF ServiceInv
    <2>6. QED
      BY <2>2, <2>3, <2>5 DEF ServiceInv
  <1>7. QED
    BY <1>1, <1>2, <1>3, <1>4, <1>5, <1>6 DEF Next

(* The invariant the other theorems rest on. *)
THEOREM ServiceInvariant == Spec => []ServiceInv
  <1>1. Init => ServiceInv
    BY InitEstablishes
  <1>2. ServiceInv /\ [Next]_vars => ServiceInv'
    BY NextPreserves
  <1>3. QED
    BY <1>1, <1>2, PTL DEF Spec

(* Every variable keeps its type, and no handler ever reads a local        *)
(* variable it has not set.                                                *)
THEOREM ServiceTypeCorrect == Spec => []TypeOK
  <1>1. ServiceInv => TypeOK
    BY DEF ServiceInv
  <1>2. QED
    BY <1>1, ServiceInvariant, PTL

(* Caching is invisible wherever the key's window reaches the user.        *)
THEOREM ServiceTransparent == Spec => []Transparent
  <1>1. ServiceInv => Transparent
    <2>1. SUFFICES ASSUME ServiceInv, NEW r \in Answered,
                          WindowCovers(calls[r].payload.messages)
                   PROVE  calls[r].decision.says = DecisionFor[calls[r].payload]
      BY DEF Transparent
    <2> DEFINE mine == calls[r].payload
    <2>2. /\ r \in Requests /\ calls[r].stage # "idle"
          /\ calls[r].decision # Nothing /\ mine \in Payloads
      <3>1. r \in Requests /\ calls[r].status = 200
        BY DEF Answered
      <3>2. calls[r] \in Call /\ Consistent(calls[r])
        BY <2>1, <3>1 DEF ServiceInv, TypeOK
      <3>3. calls[r].decision # Nothing
        BY <3>1, <3>2 DEF Consistent
      <3>4. calls[r].stage # "idle"
        BY <3>1, <3>2 DEF Consistent
      <3>5. mine \in Payloads
        BY <3>2, <3>4 DEF Consistent, Call
      <3>6. QED
        BY <3>1, <3>3, <3>4, <3>5
    <2>3. <<calls[r].decision, CacheKey(mine)>> \in Filed
      BY <2>2, FiledEntries
    <2>4. PICK p \in Payloads : /\ CacheKey(mine) = CacheKey(p)
                                /\ calls[r].decision.says = DecisionFor[p]
      BY <2>1, <2>3 DEF ServiceInv, FilingSound
    <2>5. IsPayload(p) /\ IsPayload(mine)
      BY <2>2, ServiceAssumption
    <2>6. ClassifierInput(mine) = ClassifierInput(p)
      BY <2>1, <2>4, <2>5, KeyCoversInput
    <2>7. DecisionFor[mine] = DecisionFor[p]
      BY <2>2, <2>4, <2>6, DecisionIs
    <2>8. QED
      BY <2>4, <2>7
  <1>2. QED
    BY <1>1, ServiceInvariant, PTL

(* A decision id names one classification for ever. *)
THEOREM ServiceIdNamesOneDecision == Spec => []IdNamesOneDecision
  <1>1. ServiceInv => IdNamesOneDecision
    <2>1. SUFFICES ASSUME ServiceInv, NEW r \in Answered, NEW s \in Answered,
                          calls[r].decision.id = calls[s].decision.id
                   PROVE  /\ calls[r].decision = calls[s].decision
                          /\ CacheKey(calls[r].payload) = CacheKey(calls[s].payload)
      BY DEF IdNamesOneDecision
    <2>2. \A q \in Answered : q \in Requests /\ calls[q].decision # Nothing
      BY <2>1 DEF Answered, ServiceInv, TypeOK, Consistent
    <2>3. /\ <<calls[r].decision, CacheKey(calls[r].payload)>> \in Filed
          /\ <<calls[s].decision, CacheKey(calls[s].payload)>> \in Filed
      BY <2>2, FiledEntries
    <2>4. <<calls[r].decision, CacheKey(calls[r].payload)>>
            = <<calls[s].decision, CacheKey(calls[s].payload)>>
      BY <2>1, <2>3 DEF ServiceInv, FilingSound
    <2>5. QED
      BY <2>4
  <1>2. QED
    BY <1>1, ServiceInvariant, PTL

-----------------------------------------------------------------------------
(* The ledgers: what the log, the counters and the limiter say about the   *)
(* requests.                                                               *)

(* The handler of a request has come to its end, if not its response. *)
Ended(call) == call.stage \in {"answering", "settled"}

(* A request in flight was made under this process, by this time, and has  *)
(* not been found in the cache unless its handler has ended.               *)
Stamped ==
  \A r \in Requests :
    /\ calls[r].boot <= boots
    /\ calls[r].stage # "idle" => calls[r].at <= clock
    /\ calls[r].stage \notin {"idle", "settled"} => calls[r].boot = boots
    /\ ~ Ended(calls[r]) => ~ calls[r].hit

(* Nothing a ledger reads of a request changes, but the stage on its way   *)
(* and the status of a response that is sent.                              *)
SameEntry(old, new) ==
  /\ new.caller = old.caller /\ new.payload = old.payload
  /\ new.at = old.at /\ new.boot = old.boot /\ new.hit = old.hit
  /\ new.status = 429 <=> old.status = 429
  /\ old.stage = "idle" <=> new.stage = "idle"
  /\ Ended(old) <=> Ended(new)
  /\ Ended(new) => new.decision = old.decision
  /\ old.stage = "settled" => new.stage = "settled" /\ new.status = old.status
  /\ new.stage = "settled" /\ new.status # 200 => old.stage = "settled"

(* The steps that no ledger notices. *)
Quiet ==
  /\ UNCHANGED <<windows, metrics, decisionLog, boots>>
  /\ \A r \in Requests : SameEntry(calls[r], calls'[r])

(* Nor does the caller. *)
Unheard ==
  \A r \in Requests :
    /\ calls'[r].status = calls[r].status
    /\ calls'[r].stage = "settled" <=> calls[r].stage = "settled"

LEMMA QuietSteps ==
  ASSUME ServiceInv,
         \/ StartWork \/ Advance \/ UNCHANGED vars
         \/ \E r \in Requests : Work(r)
  PROVE  Quiet /\ Unheard
  <1>0. calls \in [Requests -> Call] /\ waiting \in Seq(Requests)
        /\ \A r \in Requests : Consistent(calls[r])
    BY DEF ServiceInv, TypeOK
  <1>1. CASE StartWork
    <2> DEFINE h == Head(waiting)
    <2>1. /\ h \in Requests /\ calls[h].stage = "queued"
          /\ calls' = [calls EXCEPT ![h].stage = "running"]
      <3>1. Len(waiting) \in Nat /\ waiting # <<>> /\ 1 \in 1..Len(waiting) /\ h = waiting[1]
        BY <1>0, <1>1 DEF StartWork
      <3>2. calls[waiting[1]].stage = "queued"
        BY <3>1 DEF ServiceInv, QueueSound
      <3>3. QED
        BY <1>0, <1>1, <3>1, <3>2 DEF StartWork
    <2> HIDE DEF h
    <2>2. (\A r \in Requests : SameEntry(calls[r], calls'[r])) /\ Unheard
      BY <1>0, <2>1 DEF SameEntry, Ended, Unheard, Call
    <2>3. QED
      BY <1>1, <2>2 DEF Quiet, StartWork
  <1>2. CASE Advance
    BY <1>2 DEF Advance, Quiet, Unheard, SameEntry
  <1>3. CASE UNCHANGED vars
    BY <1>3 DEF vars, Quiet, Unheard, SameEntry
  <1>4. ASSUME NEW r \in Requests, Compute(r)
        PROVE  Quiet /\ Unheard
    <2>1. calls[r].stage = "running" /\ calls[r].status = 0
      BY <1>0, <1>4 DEF Compute, Consistent
    <2>2. (\A s \in Requests : SameEntry(calls[s], calls'[s])) /\ Unheard
      BY <1>0, <1>4, <2>1 DEF SameEntry, Ended, Unheard, Compute, Call
    <2>3. QED
      BY <1>4, <2>2 DEF Quiet, Compute
  <1>5. ASSUME NEW r \in Requests, WorkerFails(r)
        PROVE  Quiet /\ Unheard
    <2>1. (\A s \in Requests : SameEntry(calls[s], calls'[s])) /\ Unheard
      BY <1>0, <1>5 DEF SameEntry, Ended, Unheard, WorkerFails, Call
    <2>2. QED
      BY <1>5, <2>1 DEF Quiet, WorkerFails
  <1>6. QED
    BY <1>1, <1>2, <1>3, <1>4, <1>5 DEF Work

(* What a made and a settled request say of themselves. *)
LEMMA MadeStamp ==
  ASSUME TypeOK, NEW c \in Callers, NEW p \in Payloads
  PROVE  /\ Made(c, p) \in Call /\ Made(c, p).caller = c /\ Made(c, p).at = clock
         /\ Made(c, p).boot = boots /\ Made(c, p).hit = FALSE
         /\ Made(c, p).stage = "queued" /\ Made(c, p).status = 0
  <1>1. Made(c, p) \in Call
    BY MadeFacts DEF TypeOK
  <1>2. QED
    BY <1>1, MadeFacts DEF TypeOK, Made, NotMade

LEMMA SettledStamp ==
  ASSUME NEW call \in Call, NEW code \in Statuses, NEW d \in DecisionRecord \cup {Nothing}
  PROVE  LET s == Settled(call, code, d)
         IN  /\ s \in Call /\ s.stage = "settled" /\ s.status = code /\ s.decision = d
             /\ s.caller = call.caller /\ s.at = call.at /\ s.boot = call.boot
             /\ s.hit = call.hit
  <1>1. /\ Settled(call, code, d).at = call.at
        /\ Settled(call, code, d).boot = call.boot
        /\ Settled(call, code, d).hit = call.hit
    BY DEF Call, Settled
  <1>2. QED
    BY <1>1, SettledFacts

(* A response that is sent was on the ledgers before. *)
LEMMA RespondQuiet ==
  ASSUME ServiceInv, NEW r \in Requests, Respond(r)
  PROVE  Quiet
  <1> DEFINE new == Settled(calls[r], 200, calls[r].decision)
  <1>1. /\ calls \in [Requests -> Call] /\ calls[r] \in Call /\ calls[r].status = 0
        /\ calls[r].stage = "answering" /\ calls' = [calls EXCEPT ![r] = new]
        /\ UNCHANGED <<windows, metrics, decisionLog, boots>>
    BY DEF Respond, ServiceInv, TypeOK, Consistent
  <1>2. /\ new.stage = "settled" /\ new.status = 200 /\ new.decision = calls[r].decision
        /\ new.payload = calls[r].payload
        /\ new.caller = calls[r].caller /\ new.at = calls[r].at /\ new.boot = calls[r].boot
        /\ new.hit = calls[r].hit
    <2>1. 200 \in Statuses /\ calls[r].decision \in DecisionRecord \cup {Nothing}
      BY <1>1 DEF Statuses, Call
    <2>2. QED
      BY <1>1, <2>1, SettledStamp, SettledFacts
  <1> HIDE DEF new
  <1>3. \A s \in Requests : calls'[s] = IF s = r THEN new ELSE calls[s]
    BY <1>1
  <1>4. SameEntry(calls[r], new)
    BY <1>1, <1>2 DEF SameEntry, Ended
  <1>5. \A s \in Requests : SameEntry(calls[s], calls[s])
    BY DEF SameEntry
  <1>6. QED
    BY <1>1, <1>3, <1>4, <1>5 DEF Quiet

(* One handler ends, and the ledgers are written for it. *)
Ends(r, new) ==
  /\ ~ Ended(calls[r])
  /\ calls' = [calls EXCEPT ![r] = new]
  /\ new \in Call /\ new.boot = boots /\ boots' = boots
  /\ new.at <= clock /\ clock' = clock
  /\ \/ new.stage = "answering" /\ new.status = 0 /\ new.decision # Nothing
     \/ /\ new.stage = "settled" /\ new.status \in {401, 422, 429, 500}
        /\ new.decision = Nothing

Booked(new) ==
  /\ metrics'.hits = metrics.hits + (IF new.hit THEN 1 ELSE 0)
  /\ metrics'.limited = metrics.limited + (IF new.status = 429 THEN 1 ELSE 0)
  /\ metrics'.logged =
       metrics.logged + (IF LogDecisions /\ new.stage = "answering" THEN 1 ELSE 0)
  /\ metrics'.total = metrics'.computed + metrics'.hits
  /\ IF LogDecisions /\ new.stage = "answering"
       THEN decisionLog' = [decisionLog EXCEPT ![new.decision.id] = @ + 1]
       ELSE decisionLog' = decisionLog

(* What an answering handler writes down is in order. *)
LEMMA AnswerEnds ==
  ASSUME TypeOK, NEW r \in Requests, ~ Ended(calls[r]),
         NEW call \in Call, call.status = 0, call.boot = boots, boots' = boots,
         call.at <= clock, clock' = clock,
         NEW d \in DecisionRecord, NEW counted \in Counts, Answer(r, call, d, counted),
         metrics.total = metrics.computed + metrics.hits,
         counted.total = metrics.total, counted.logged = metrics.logged,
         counted.limited = metrics.limited,
         counted.hits = metrics.hits + (IF call.hit THEN 1 ELSE 0),
         counted.computed = metrics.computed + (IF call.hit THEN 0 ELSE 1)
  PROVE  \E new \in Call :
           /\ Ends(r, new) /\ Booked(new)
           /\ new.caller = call.caller /\ new.at = call.at
           /\ new.status \in {0, 500}
  <1> DEFINE good == Answering(call, d)
             bad == Settled(call, 500, Nothing)
  <1>0. d # Nothing /\ Nothing \in DecisionRecord \cup {Nothing} /\ 500 \in Statuses
    BY ServiceAssumption DEF DecisionRecord, Statuses
  <1>1. /\ good \in Call /\ good.stage = "answering" /\ good.status = 0
        /\ good.decision = d /\ good.caller = call.caller /\ good.at = call.at
        /\ good.boot = call.boot /\ good.hit = call.hit
    BY AnsweringFacts
  <1>2. /\ bad \in Call /\ bad.stage = "settled" /\ bad.status = 500
        /\ bad.decision = Nothing
        /\ bad.caller = call.caller /\ bad.at = call.at
        /\ bad.boot = call.boot /\ bad.hit = call.hit
    BY <1>0, SettledStamp
  <1>3. \/ /\ LogDecisions
           /\ decisionLog' = [decisionLog EXCEPT ![d.id] = @ + 1]
           /\ metrics' = [counted EXCEPT !.total = @ + 1, !.logged = @ + 1]
           /\ calls' = [calls EXCEPT ![r] = good]
        \/ /\ LogDecisions
           /\ metrics' = [counted EXCEPT !.total = @ + 1]
           /\ calls' = [calls EXCEPT ![r] = bad]
           /\ decisionLog' = decisionLog
        \/ /\ ~ LogDecisions
           /\ metrics' = [counted EXCEPT !.total = @ + 1]
           /\ calls' = [calls EXCEPT ![r] = good]
           /\ decisionLog' = decisionLog
    BY DEF Answer
  <1> HIDE DEF good, bad
  <1>4. /\ counted.total \in Nat /\ counted.logged \in Nat /\ counted.hits \in Nat
        /\ counted.computed \in Nat /\ metrics.hits \in Nat /\ metrics.computed \in Nat
    BY DEF TypeOK, Counts
  <1>5. LET m == [counted EXCEPT !.total = @ + 1]
        IN  /\ m.total = counted.total + 1 /\ m.logged = counted.logged
            /\ m.hits = counted.hits /\ m.limited = counted.limited
            /\ m.computed = counted.computed
    BY DEF Counts
  <1>6. LET m == [counted EXCEPT !.total = @ + 1, !.logged = @ + 1]
        IN  /\ m.total = counted.total + 1 /\ m.logged = counted.logged + 1
            /\ m.hits = counted.hits /\ m.limited = counted.limited
            /\ m.computed = counted.computed
    BY DEF Counts
  <1>7. counted.total + 1 = counted.computed + counted.hits
    BY <1>4
  <1>8. metrics.logged \in Nat /\ metrics.limited \in Nat
    BY DEF TypeOK, Counts
  <1>9. CASE /\ LogDecisions
             /\ decisionLog' = [decisionLog EXCEPT ![d.id] = @ + 1]
             /\ metrics' = [counted EXCEPT !.total = @ + 1, !.logged = @ + 1]
             /\ calls' = [calls EXCEPT ![r] = good]
    <2>1. Ends(r, good)
      BY <1>0, <1>1, <1>9 DEF Ends
    <2>2. Booked(good)
      BY <1>1, <1>4, <1>6, <1>7, <1>8, <1>9 DEF Booked
    <2>3. QED
      BY <1>1, <2>1, <2>2
  <1>10. CASE /\ LogDecisions
              /\ metrics' = [counted EXCEPT !.total = @ + 1]
              /\ calls' = [calls EXCEPT ![r] = bad]
              /\ decisionLog' = decisionLog
    <2>1. Ends(r, bad)
      BY <1>2, <1>10 DEF Ends
    <2>2. Booked(bad)
      BY <1>2, <1>4, <1>5, <1>7, <1>8, <1>10 DEF Booked
    <2>3. QED
      BY <1>2, <2>1, <2>2
  <1>11. CASE /\ ~ LogDecisions
              /\ metrics' = [counted EXCEPT !.total = @ + 1]
              /\ calls' = [calls EXCEPT ![r] = good]
              /\ decisionLog' = decisionLog
    <2>1. Ends(r, good)
      BY <1>0, <1>1, <1>11 DEF Ends
    <2>2. Booked(good)
      BY <1>1, <1>4, <1>5, <1>7, <1>8, <1>11 DEF Booked
    <2>3. QED
      BY <1>1, <2>1, <2>2
  <1>12. QED
    BY <1>3, <1>9, <1>10, <1>11

LEMMA OneMore ==
  ASSUME NEW S \in SUBSET Requests, NEW r \in Requests, r \notin S
  PROVE  /\ Cardinality(S) \in Nat
         /\ Cardinality(S \cup {r}) = Cardinality(S) + 1
  <1>1. IsFiniteSet(S)
    BY ServiceAssumption, FS_Subset
  <1>2. QED
    BY <1>1, FS_CardinalityType, FS_AddElement

FromCache == {r \in ThisBoot : calls[r].hit}
TurnedAway == {r \in ThisBoot : calls[r].status = 429}
ToldNow == ThisBoot \cap Returned
Told(d) == {r \in Returned : calls[r].decision.id = d}

(* CountersTrue and the second part of QuotaExact, as one. *)
Counted429 == metrics.limited = Cardinality(TurnedAway)

(* AuditExact in two parts: a line for every decision returned, and one    *)
(* that was returned and not sent is about to be, or the process died.     *)
Audited == \A d \in Ids : decisionLog[d] = IF LogDecisions THEN Cardinality(Told(d)) ELSE 0

CutOff == \A r \in Returned \ Answered : calls[r].stage = "answering" \/ calls[r].boot < boots

LEMMA EndsCounted ==
  ASSUME ServiceInv, Stamped, CountersTrue, Counted429,
         NEW r \in Requests, NEW new, Ends(r, new), Booked(new)
  PROVE  CountersTrue' /\ Counted429'
  <1>1. /\ \A s \in Requests : calls'[s] = IF s = r THEN new ELSE calls[s]
        /\ boots' = boots /\ new.boot = boots
        /\ ~ Ended(calls[r])
        /\ LogDecisions \in BOOLEAN
        /\ metrics \in Counts
    BY ServiceAssumption DEF ServiceInv, TypeOK, Ends
  <1>2. r \in ThisBoot' /\ \A s \in Requests : s # r => (s \in ThisBoot' <=> s \in ThisBoot)
    BY <1>1 DEF ThisBoot
  <1>3. metrics'.hits = Cardinality(FromCache')
    <2>1. FromCache \in SUBSET Requests /\ r \notin FromCache
      BY <1>1 DEF FromCache, ThisBoot, Stamped
    <2>2. metrics.hits = Cardinality(FromCache)
      BY DEF CountersTrue, FromCache
    <2>3. CASE new.hit
      <3>1. FromCache' = FromCache \cup {r}
        BY <1>1, <1>2, <2>1, <2>3 DEF FromCache, ThisBoot
      <3>2. metrics'.hits = metrics.hits + 1
        BY <2>3 DEF Booked
      <3>3. QED
        BY <2>1, <2>2, <3>1, <3>2, OneMore
    <2>4. CASE ~ new.hit
      <3>1. FromCache' = FromCache
        BY <1>1, <1>2, <2>1, <2>4 DEF FromCache, ThisBoot
      <3>2. metrics'.hits = metrics.hits + 0
        BY <2>4 DEF Booked
      <3>3. metrics.hits \in Nat
        BY <1>1 DEF Counts
      <3>4. QED
        BY <2>2, <3>1, <3>2, <3>3
    <2>5. QED
      BY <2>3, <2>4
  <1>4. metrics'.limited = Cardinality(TurnedAway')
    <2>1. TurnedAway \in SUBSET Requests /\ r \notin TurnedAway
      BY <1>1 DEF TurnedAway, ThisBoot, Ended, ServiceInv, TypeOK, Consistent
    <2>2. metrics.limited = Cardinality(TurnedAway)
      BY DEF Counted429
    <2>3. CASE new.status = 429
      <3>1. TurnedAway' = TurnedAway \cup {r}
        BY <1>1, <1>2, <2>1, <2>3 DEF TurnedAway, ThisBoot
      <3>2. QED
        BY <2>1, <2>2, <2>3, <3>1, OneMore DEF Booked
    <2>4. CASE new.status # 429
      <3>1. TurnedAway' = TurnedAway
        BY <1>1, <1>2, <2>1, <2>4 DEF TurnedAway, ThisBoot
      <3>2. metrics.limited \in Nat
        BY <1>1 DEF Counts
      <3>3. QED
        BY <2>2, <2>4, <3>1, <3>2 DEF Booked
    <2>5. QED
      BY <2>3, <2>4
  <1>5. metrics'.logged = IF LogDecisions THEN Cardinality(ToldNow') ELSE 0
    <2>1. /\ ToldNow \in SUBSET Requests /\ r \notin ToldNow
          /\ r \in Returned' <=> new.stage = "answering"
          /\ \A s \in Requests : s # r => (s \in Returned' <=> s \in Returned)
      BY <1>1 DEF ToldNow, ThisBoot, Returned, Ended, Ends
    <2>2. metrics.logged = IF LogDecisions THEN Cardinality(ToldNow) ELSE 0
      BY DEF CountersTrue, ToldNow
    <2>3. metrics.logged \in Nat
      BY <1>1 DEF Counts
    <2>4. CASE LogDecisions /\ new.stage = "answering"
      <3>1. ToldNow' = ToldNow \cup {r}
        <4>1. \A s \in Requests : s \in ToldNow' <=> s \in ToldNow \/ s = r
          BY <1>2, <2>1, <2>4 DEF ToldNow
        <4>2. ToldNow' \subseteq Requests
          BY DEF ToldNow, ThisBoot
        <4>3. QED
          BY <2>1, <4>1, <4>2
      <3>2. QED
        BY <2>1, <2>2, <2>4, <3>1, OneMore DEF Booked
    <2>5. CASE LogDecisions /\ new.stage # "answering"
      <3>1. ToldNow' = ToldNow
        <4>1. \A s \in Requests : s \in ToldNow' <=> s \in ToldNow
          BY <1>2, <2>1, <2>5 DEF ToldNow
        <4>2. ToldNow' \subseteq Requests
          BY DEF ToldNow, ThisBoot
        <4>3. QED
          BY <2>1, <4>1, <4>2
      <3>2. QED
        BY <2>2, <2>3, <2>5, <3>1 DEF Booked
    <2>6. CASE ~ LogDecisions
      BY <2>2, <2>3, <2>6 DEF Booked
    <2>7. QED
      BY <1>1, <2>4, <2>5, <2>6
  <1>6. metrics'.total = metrics'.computed + metrics'.hits
    BY DEF Booked
  <1>7. QED
    BY <1>3, <1>4, <1>5, <1>6 DEF CountersTrue, Counted429, FromCache, ToldNow

LEMMA EndsAudited ==
  ASSUME ServiceInv, Audited, CutOff,
         NEW r \in Requests, NEW new, Ends(r, new), Booked(new)
  PROVE  Audited' /\ CutOff'
  <1>1. /\ \A s \in Requests : calls'[s] = IF s = r THEN new ELSE calls[s]
        /\ ~ Ended(calls[r])
        /\ new.stage = "answering" \/ new.decision = Nothing
        /\ boots' = boots
        /\ LogDecisions \in BOOLEAN
        /\ decisionLog \in [Ids -> Nat]
    BY ServiceAssumption DEF ServiceInv, TypeOK, Ends
  <1>2. /\ r \notin Returned /\ (r \in Returned' <=> new.stage = "answering")
        /\ \A s \in Requests : s # r => (s \in Returned' <=> s \in Returned)
        /\ Returned \subseteq Requests /\ Returned' \subseteq Requests
    BY <1>1 DEF Returned, Ended, Ends
  <1>3. ASSUME NEW d \in Ids
        PROVE  decisionLog'[d] = IF LogDecisions THEN Cardinality(Told(d)') ELSE 0
    <2>1. decisionLog[d] = IF LogDecisions THEN Cardinality(Told(d)) ELSE 0
      BY DEF Audited
    <2>2. Told(d) \in SUBSET Requests /\ r \notin Told(d) /\ Told(d)' \subseteq Requests
      BY <1>2 DEF Told
    <2>3. \A s \in Requests : s # r => (s \in Told(d)' <=> s \in Told(d))
      BY <1>1, <1>2 DEF Told
    <2>4. r \in Told(d)' <=> new.stage = "answering" /\ new.decision.id = d
      BY <1>1, <1>2 DEF Told
    <2>5. CASE LogDecisions /\ new.stage = "answering"
      <3>1. decisionLog' = [decisionLog EXCEPT ![new.decision.id] = @ + 1]
        BY <2>5 DEF Booked
      <3>2. CASE new.decision.id = d
        <4>1. Told(d)' = Told(d) \cup {r}
          BY <2>2, <2>3, <2>4, <2>5, <3>2
        <4>2. decisionLog'[d] = decisionLog[d] + 1
          BY <1>1, <3>1, <3>2
        <4>3. QED
          BY <2>1, <2>2, <2>5, <4>1, <4>2, OneMore
      <3>3. CASE new.decision.id # d
        <4>1. Told(d)' = Told(d)
          BY <2>2, <2>3, <2>4, <3>3
        <4>2. decisionLog'[d] = decisionLog[d]
          BY <1>1, <3>1, <3>3
        <4>3. QED
          BY <2>1, <2>5, <4>1, <4>2
      <3>4. QED
        BY <3>2, <3>3
    <2>6. CASE LogDecisions /\ new.stage # "answering"
      <3>1. Told(d)' = Told(d)
        BY <2>2, <2>3, <2>4, <2>6
      <3>2. QED
        BY <2>1, <2>6, <3>1 DEF Booked
    <2>7. CASE ~ LogDecisions
      BY <2>1, <2>7 DEF Booked
    <2>8. QED
      BY <1>1, <2>5, <2>6, <2>7
  <1>4. Audited'
    BY <1>3 DEF Audited, Told
  <1>5. CutOff'
    BY <1>1, <1>2 DEF CutOff, Answered
  <1>6. QED
    BY <1>4, <1>5

(* A quiet step changes no set that is counted, and neither does a crash   *)
(* change for whom a decision was returned.                                *)
LEMMA QuietCounted ==
  ASSUME CountersTrue, Counted429, Audited, CutOff, Quiet
  PROVE  CountersTrue' /\ Counted429' /\ Audited' /\ CutOff'
  <1>1. ThisBoot' = ThisBoot
    BY DEF Quiet, SameEntry, ThisBoot
  <1>2. Returned' = Returned
    BY DEF Quiet, SameEntry, Ended, Returned
  <1>3. FromCache' = FromCache /\ TurnedAway' = TurnedAway /\ ToldNow' = ToldNow
    BY <1>1, <1>2 DEF Quiet, SameEntry, FromCache, TurnedAway, ToldNow, ThisBoot
  <1>4. \A d \in Ids : Told(d)' = Told(d)
    BY <1>2 DEF Quiet, SameEntry, Ended, Told, Returned
  <1>5. metrics' = metrics /\ decisionLog' = decisionLog /\ boots' = boots
    BY DEF Quiet
  <1>6. CountersTrue' /\ Counted429'
    BY <1>3, <1>5 DEF CountersTrue, Counted429, FromCache, ToldNow
  <1>7. Audited'
    BY <1>4, <1>5 DEF Audited, Told
  <1>8. CutOff'
    <2>1. SUFFICES ASSUME NEW r \in Requests, r \in Returned', calls'[r].status # 200,
                          calls'[r].stage # "answering"
                   PROVE  calls'[r].boot < boots'
      BY DEF CutOff, Returned, Answered
    <2>2. SameEntry(calls[r], calls'[r])
      BY DEF Quiet
    <2>3. calls'[r].stage = "settled"
      BY <2>1 DEF Returned
    <2>4. calls[r].stage = "settled" /\ calls[r].status # 200
      BY <2>1, <2>2, <2>3 DEF SameEntry
    <2>5. calls[r].boot < boots
      BY <1>2, <2>1, <2>4 DEF CutOff, Answered
    <2>6. QED
      BY <1>5, <2>2, <2>5 DEF SameEntry
  <1>9. QED
    BY <1>6, <1>7, <1>8

(* What a crash leaves of a request in flight. *)
LEMMA CrashFacts ==
  ASSUME ServiceInv, Crash
  PROVE  /\ \A r \in Requests : r \notin InFlight => calls'[r] = calls[r]
         /\ \A r \in InFlight :
              /\ calls'[r].stage = "settled" /\ calls'[r].status = 0
              /\ calls'[r].boot = calls[r].boot /\ calls'[r].at = calls[r].at
              /\ calls'[r].caller = calls[r].caller /\ calls'[r].payload = calls[r].payload
              /\ calls'[r].decision = Unsent(calls[r])
              /\ calls[r].status = 0
         /\ Returned' = Returned
         /\ \A r \in Returned : /\ calls'[r].decision = calls[r].decision
                                /\ calls'[r].payload = calls[r].payload
  <1>1. /\ calls \in [Requests -> Call] /\ \A r \in Requests : Consistent(calls[r])
        /\ calls' = [r \in Requests |->
                       IF r \in InFlight THEN Settled(calls[r], 0, Unsent(calls[r])) ELSE calls[r]]
    BY DEF ServiceInv, TypeOK, Crash
  <1>2. ASSUME NEW r \in InFlight
        PROVE  /\ calls'[r].stage = "settled" /\ calls'[r].status = 0
               /\ calls'[r].boot = calls[r].boot /\ calls'[r].at = calls[r].at
               /\ calls'[r].caller = calls[r].caller /\ calls'[r].payload = calls[r].payload
               /\ calls'[r].decision = Unsent(calls[r])
               /\ calls[r].status = 0 /\ r \in Requests
    <2>1. r \in Requests /\ calls[r] \in Call
      BY <1>1 DEF InFlight
    <2>2. 0 \in Statuses /\ Unsent(calls[r]) \in DecisionRecord \cup {Nothing}
      BY <2>1 DEF Statuses, Unsent, Call
    <2>3. calls'[r] = Settled(calls[r], 0, Unsent(calls[r]))
      BY <1>1, <1>2, <2>1
    <2>4. calls[r].status = 0
      BY <1>1, <1>2, <2>1 DEF InFlight, Consistent
    <2>5. QED
      BY <2>1, <2>2, <2>3, <2>4, SettledStamp, SettledFacts
  <1>3. \A r \in Requests : r \notin InFlight => calls'[r] = calls[r]
    BY <1>1
  <1>4. ASSUME NEW r \in Requests
        PROVE  /\ r \in Returned' <=> r \in Returned
               /\ r \in Returned => /\ calls'[r].decision = calls[r].decision
                                    /\ calls'[r].payload = calls[r].payload
    <2>1. CASE r \in InFlight /\ calls[r].stage = "answering"
      BY <1>2, <2>1 DEF Returned, Unsent
    <2>2. CASE r \in InFlight /\ calls[r].stage # "answering"
      BY <1>2, <2>2 DEF Returned, Unsent, InFlight
    <2>3. CASE r \notin InFlight
      BY <1>3, <2>3 DEF Returned
    <2>4. QED
      BY <2>1, <2>2, <2>3
  <1>5. Returned' = Returned
    <2>1. Returned \subseteq Requests /\ Returned' \subseteq Requests
      BY DEF Returned
    <2>2. QED
      BY <1>4, <2>1
  <1>6. QED
    BY <1>2, <1>3, <1>4, <1>5 DEF Returned

LEMMA CrashCounted ==
  ASSUME ServiceInv, Stamped, Audited, CutOff, Crash
  PROVE  CountersTrue' /\ Counted429' /\ Audited' /\ CutOff' /\ Stamped'
  <1>1. /\ calls \in [Requests -> Call]
        /\ boots \in Nat /\ boots' = boots + 1 /\ metrics' = NoCounts
        /\ decisionLog' = decisionLog /\ clock' = clock
    BY ServiceAssumption DEF ServiceInv, TypeOK, Crash
  <1>2. \A r \in Requests :
          /\ calls[r].boot \in Nat /\ calls'[r].boot = calls[r].boot /\ calls[r].boot <= boots
          /\ calls'[r].boot < boots'
    <2>1. TAKE r \in Requests
    <2>2. calls[r].boot \in Nat /\ calls'[r].boot = calls[r].boot /\ calls[r].boot <= boots
      BY <1>1, CrashFacts DEF Call, Stamped
    <2>3. QED
      BY <1>1, <2>2
  <1>3. ThisBoot' = {}
    <2>1. \A r \in Requests : calls'[r].boot # boots'
      BY <1>1, <1>2
    <2>2. QED
      BY <2>1 DEF ThisBoot
  <1>4. CountersTrue' /\ Counted429'
    <2>1. FromCache' = {} /\ TurnedAway' = {} /\ ToldNow' = {}
      BY <1>3 DEF FromCache, TurnedAway, ToldNow
    <2>2. Cardinality({}) = 0
      BY FS_EmptySet
    <2>3. /\ metrics'.total = 0 /\ metrics'.computed = 0 /\ metrics'.hits = 0
          /\ metrics'.logged = 0 /\ metrics'.limited = 0
      BY <1>1 DEF NoCounts
    <2>4. /\ metrics'.total = metrics'.computed + metrics'.hits
          /\ metrics'.hits = Cardinality(FromCache')
          /\ metrics'.logged = IF LogDecisions THEN Cardinality(ToldNow') ELSE 0
          /\ metrics'.limited = Cardinality(TurnedAway')
      BY <2>1, <2>2, <2>3
    <2>5. QED
      BY <2>4 DEF CountersTrue, Counted429, FromCache, TurnedAway, ToldNow
  <1>5. Audited'
    <2>1. \A d \in Ids : Told(d)' = Told(d)
      BY CrashFacts DEF Told
    <2>2. QED
      BY <1>1, <2>1 DEF Audited, Told
  <1>6. CutOff'
    BY <1>2 DEF CutOff, Returned
  <1>7. Stamped'
    <2>1. SUFFICES ASSUME NEW r \in Requests
                   PROVE  /\ calls'[r].boot <= boots'
                          /\ calls'[r].stage # "idle" => calls'[r].at <= clock'
                          /\ calls'[r].stage \notin {"idle", "settled"} => calls'[r].boot = boots'
                          /\ ~ Ended(calls'[r]) => ~ calls'[r].hit
      BY DEF Stamped
    <2>2. calls'[r].boot <= boots'
      BY <1>1, <1>2
    <2>3. /\ calls[r].stage # "idle" => calls[r].at <= clock
          /\ ~ Ended(calls[r]) => ~ calls[r].hit
      BY DEF Stamped
    <2>4. CASE r \in InFlight
      <3>1. calls[r].stage # "idle"
        BY <2>4 DEF InFlight
      <3>2. QED
        BY <1>1, <2>2, <2>3, <2>4, <3>1, CrashFacts DEF Ended
    <2>5. CASE r \notin InFlight
      <3>1. calls[r].stage \in {"idle", "settled"} /\ calls'[r] = calls[r]
        BY <2>5, CrashFacts DEF InFlight
      <3>2. QED
        BY <1>1, <2>2, <2>3, <3>1
    <2>6. QED
      BY <2>4, <2>5
  <1>8. QED
    BY <1>4, <1>5, <1>6, <1>7

LEMMA CountsFields ==
  ASSUME NEW m \in Counts
  PROVE  /\ LET n == [m EXCEPT !.limited = @ + 1]
            IN  /\ n.limited = m.limited + 1 /\ n.hits = m.hits /\ n.total = m.total
                /\ n.computed = m.computed /\ n.logged = m.logged
         /\ LET n == [m EXCEPT !.hits = @ + 1]
            IN  /\ n \in Counts
                /\ n.limited = m.limited /\ n.hits = m.hits + 1 /\ n.total = m.total
                /\ n.computed = m.computed /\ n.logged = m.logged
         /\ LET n == [m EXCEPT !.computed = @ + 1]
            IN  /\ n \in Counts
                /\ n.limited = m.limited /\ n.hits = m.hits /\ n.total = m.total
                /\ n.computed = m.computed + 1 /\ n.logged = m.logged
  <1>1. LET n == [m EXCEPT !.limited = @ + 1]
        IN  /\ n.limited = m.limited + 1 /\ n.hits = m.hits /\ n.total = m.total
            /\ n.computed = m.computed /\ n.logged = m.logged
    BY DEF Counts
  <1>2. LET n == [m EXCEPT !.hits = @ + 1]
        IN  /\ n.limited = m.limited /\ n.hits = m.hits + 1 /\ n.total = m.total
            /\ n.computed = m.computed /\ n.logged = m.logged
    BY DEF Counts
  <1>3. LET n == [m EXCEPT !.computed = @ + 1]
        IN  /\ n.limited = m.limited /\ n.hits = m.hits /\ n.total = m.total
            /\ n.computed = m.computed + 1 /\ n.logged = m.logged
    BY DEF Counts
  <1>4. QED
    BY <1>1, <1>2, <1>3, CountsUpdate

(* Every step is quiet, a crash, a miss, or the end of one handler, which  *)
(* is new or was in flight.                                                *)
Refusal(r, c, p) ==
  \/ Unauthorized(r, c, p) \/ TooManyRequests(r, c, p)
  \/ TooManyMessages(r, c, p) \/ NoCacheKey(r, c, p)

LEMMA RefusalEnds ==
  ASSUME ServiceInv, CountersTrue, NEW r \in Requests, NEW c \in Callers, NEW p \in Payloads,
         Refusal(r, c, p)
  PROVE  \E new \in Call :
           /\ Ends(r, new) /\ Booked(new)
           /\ new.caller = c /\ new.at = clock /\ calls[r].stage = "idle"
           /\ new.status = 429 <=> TooManyRequests(r, c, p)
  <1> DEFINE m == Made(c, p)
             Fits(code) ==
               /\ calls' = [calls EXCEPT ![r] = Settled(m, code, Nothing)]
               /\ code = 429 <=> TooManyRequests(r, c, p)
               /\ calls[r].stage = "idle"
               /\ clock' = clock /\ boots' = boots /\ decisionLog' = decisionLog
               /\ metrics' = IF code = 429 THEN [metrics EXCEPT !.limited = @ + 1] ELSE metrics
  <1>0. TypeOK /\ metrics \in Counts /\ clock \in Nat
    BY ServiceAssumption DEF ServiceInv, TypeOK
  <1>1. /\ m \in Call /\ m.caller = c /\ m.at = clock /\ m.boot = boots /\ m.hit = FALSE
    BY <1>0, MadeStamp
  <1> HIDE DEF m
  <1>a. \/ Fits(401) \/ Fits(422) \/ Fits(429) \/ Fits(500)
    <2>1. CASE Unauthorized(r, c, p)
      <3>1. ~ TooManyRequests(r, c, p)
        BY <2>1 DEF Unauthorized, TooManyRequests
      <3>2. \/ calls' = [calls EXCEPT ![r] = Settled(m, 401, Nothing)]
            \/ calls' = [calls EXCEPT ![r] = Settled(m, 500, Nothing)]
        BY <2>1 DEF Unauthorized, m
      <3>3. Fits(401) \/ Fits(500)
        BY <2>1, <3>1, <3>2 DEF Unauthorized, Arrives
      <3>4. QED
        BY <3>3
    <2>2. CASE TooManyRequests(r, c, p)
      <3>1. Fits(429)
        BY <2>2 DEF TooManyRequests, Arrives, m
      <3>2. QED
        BY <3>1
    <2>3. CASE TooManyMessages(r, c, p)
      <3>1. ~ TooManyRequests(r, c, p)
        BY <2>3 DEF TooManyRequests, TooManyMessages, Admits
      <3>2. Fits(422)
        BY <2>3, <3>1 DEF TooManyMessages, Arrives, m
      <3>3. QED
        BY <3>2
    <2>4. CASE NoCacheKey(r, c, p)
      <3>1. ~ TooManyRequests(r, c, p)
        BY <2>4 DEF TooManyRequests, NoCacheKey, Admits
      <3>2. Fits(500)
        BY <2>4, <3>1 DEF NoCacheKey, Arrives, m
      <3>3. QED
        BY <3>2
    <2>5. QED
      BY <2>1, <2>2, <2>3, <2>4 DEF Refusal
  <1> HIDE DEF Fits
  <1>2. PICK code \in {401, 422, 429, 500} : Fits(code)
    BY <1>a
  <1> USE DEF Fits
  <1> DEFINE new == Settled(m, code, Nothing)
  <1>3. /\ new \in Call /\ new.stage = "settled" /\ new.status = code
        /\ new.decision = Nothing /\ new.caller = c /\ new.at = clock /\ new.boot = boots /\ new.hit = FALSE
    <2>1. code \in Statuses /\ Nothing \in DecisionRecord \cup {Nothing}
      BY DEF Statuses
    <2>2. QED
      BY <1>1, <2>1, SettledStamp
  <1> HIDE DEF new
  <1>4. Ends(r, new)
    BY <1>0, <1>2, <1>3 DEF Ends, Ended, new
  <1>5. Booked(new)
    <2>1. /\ metrics.limited \in Nat /\ metrics.hits \in Nat /\ metrics.logged \in Nat
      BY <1>0 DEF Counts
    <2>2. /\ metrics'.hits = metrics.hits /\ metrics'.logged = metrics.logged
          /\ metrics'.total = metrics.total /\ metrics'.computed = metrics.computed
          /\ metrics'.limited = metrics.limited + (IF code = 429 THEN 1 ELSE 0)
      <3>1. CASE code = 429
        BY <1>0, <1>2, <3>1, CountsFields
      <3>2. CASE code # 429
        BY <1>2, <2>1, <3>2
      <3>3. QED
        BY <3>1, <3>2
    <2>3. metrics.total = metrics.computed + metrics.hits
      BY DEF CountersTrue
    <2>4. new.stage # "answering"
      BY <1>3
    <2>5. QED
      BY <1>2, <1>3, <2>1, <2>2, <2>3, <2>4 DEF Booked
  <1>6. QED
    BY <1>2, <1>3, <1>4, <1>5

LEMMA CacheHitEnds ==
  ASSUME ServiceInv, CountersTrue, NEW r \in Requests, NEW c \in Callers, NEW p \in Payloads,
         CacheHit(r, c, p)
  PROVE  \E new \in Call :
           /\ Ends(r, new) /\ Booked(new)
           /\ new.caller = c /\ new.at = clock /\ calls[r].stage = "idle"
           /\ new.status \in {0, 500}
  <1> DEFINE call == [Made(c, p) EXCEPT !.hit = TRUE]
             counted == [metrics EXCEPT !.hits = @ + 1]
             d == EntryOf(entries, CacheKey(p)).value
  <1>1. TypeOK /\ metrics \in Counts /\ clock \in Nat
        /\ entries \in Seq(EntrySet(CacheKeys, DecisionRecord))
    BY ServiceAssumption DEF ServiceInv, TypeOK
  <1>2. /\ calls[r].stage = "idle" /\ clock' = clock /\ boots' = boots
        /\ Answer(r, call, d, counted) /\ Hits(entries, CacheKey(p), clock)
    BY DEF CacheHit, Arrives
  <1>3. /\ call \in Call /\ call.caller = c /\ call.at = clock /\ call.boot = boots
        /\ call.hit = TRUE /\ call.status = 0
    <2> DEFINE m == Made(c, p)
    <2>1. m \in Call /\ m.caller = c /\ m.at = clock /\ m.boot = boots /\ m.status = 0
      BY <1>1, MadeStamp
    <2> HIDE DEF m
    <2>2. call = [m EXCEPT !.hit = TRUE]
      BY DEF m
    <2> HIDE DEF call
    <2>3. call \in Call
      BY <2>1, <2>2, HitUpdate
    <2>4. /\ call.caller = m.caller /\ call.at = m.at /\ call.boot = m.boot
          /\ call.hit = TRUE /\ call.status = m.status
      BY <2>1, <2>2 DEF Call
    <2>5. QED
      BY <2>1, <2>3, <2>4
  <1>4. d \in DecisionRecord
    <2>1. PositionOf(entries, CacheKey(p)) \in 1..Len(entries)
      BY <1>1, <1>2, PositionOfPresent DEF Hits
    <2>2. entries[PositionOf(entries, CacheKey(p))] \in EntrySet(CacheKeys, DecisionRecord)
      BY <1>1, <2>1
    <2>3. QED
      BY <2>2 DEF EntryOf, EntrySet
  <1>5. /\ counted \in Counts /\ counted.total = metrics.total
        /\ counted.logged = metrics.logged /\ counted.limited = metrics.limited
        /\ counted.hits = metrics.hits + 1 /\ counted.computed = metrics.computed + 0
    <2>1. metrics.computed \in Nat
      BY <1>1 DEF Counts
    <2>2. /\ counted \in Counts /\ counted.total = metrics.total
          /\ counted.logged = metrics.logged /\ counted.limited = metrics.limited
          /\ counted.hits = metrics.hits + 1 /\ counted.computed = metrics.computed
      BY <1>1, CountsFields
    <2> HIDE DEF counted
    <2>3. QED
      BY <2>1, <2>2
  <1>6. metrics.total = metrics.computed + metrics.hits
    BY DEF CountersTrue
  <1> HIDE DEF call, counted, d
  <1>7. call.at <= clock /\ ~ Ended(calls[r])
    BY <1>1, <1>2, <1>3 DEF Ended
  <1>8. /\ counted.hits = metrics.hits + (IF call.hit THEN 1 ELSE 0)
        /\ counted.computed = metrics.computed + (IF call.hit THEN 0 ELSE 1)
    BY <1>3, <1>5
  <1>9. \E new \in Call :
           /\ Ends(r, new) /\ Booked(new)
           /\ new.caller = call.caller /\ new.at = call.at
           /\ new.status \in {0, 500}
    BY <1>1, <1>2, <1>3, <1>4, <1>5, <1>6, <1>7, <1>8, AnswerEnds
  <1>10. QED
    BY <1>2, <1>3, <1>9

LEMMA ResumptionEnds ==
  ASSUME ServiceInv, CountersTrue, Stamped, NEW r \in Requests, Resume(r) \/ ResumeFailed(r)
  PROVE  \E new \in Call :
           /\ Ends(r, new) /\ Booked(new)
           /\ new.caller = calls[r].caller /\ new.at = calls[r].at
           /\ calls[r].stage \notin {"idle", "settled"}
           /\ new.status \in {0, 500}
  <1> DEFINE call == calls[r]
  <1>1. /\ TypeOK /\ metrics \in Counts /\ clock \in Nat
        /\ call \in Call /\ Consistent(call)
    BY ServiceAssumption DEF ServiceInv, TypeOK
  <1>2. call.stage \in {"computed", "failed"}
    BY DEF Resume, ResumeFailed
  <1>3. /\ call.at <= clock /\ call.boot = boots /\ call.hit = FALSE /\ call.status = 0
    BY <1>1, <1>2 DEF Stamped, Ended, Call, Consistent
  <1>4. metrics.total = metrics.computed + metrics.hits
    BY DEF CountersTrue
  <1>5. CASE Resume(r)
    <2> DEFINE counted == [metrics EXCEPT !.computed = @ + 1]
               d == calls[r].decision
    <2>1. /\ Answer(r, call, d, counted) /\ clock' = clock /\ boots' = boots
          /\ call.stage = "computed"
      BY <1>5 DEF Resume
    <2>2. d \in DecisionRecord
      BY <1>1, <2>1 DEF Consistent, Call
    <2>3. metrics.hits \in Nat
      BY <1>1 DEF Counts
    <2>4. /\ counted \in Counts /\ counted.total = metrics.total
          /\ counted.logged = metrics.logged /\ counted.limited = metrics.limited
          /\ counted.hits = metrics.hits /\ counted.computed = metrics.computed + 1
      BY <1>1, CountsFields
    <2> HIDE DEF counted, d, call
    <2>5. /\ counted.hits = metrics.hits + (IF call.hit THEN 1 ELSE 0)
          /\ counted.computed = metrics.computed + (IF call.hit THEN 0 ELSE 1)
      BY <1>3, <2>3, <2>4
    <2>6. ~ Ended(calls[r])
      BY <1>2 DEF call, Ended
    <2>7. \E new \in Call :
           /\ Ends(r, new) /\ Booked(new)
           /\ new.caller = call.caller /\ new.at = call.at
           /\ new.status \in {0, 500}
      BY <1>1, <1>3, <1>4, <2>1, <2>2, <2>4, <2>5, <2>6, AnswerEnds
    <2>8. QED
      BY <1>2, <2>7 DEF call
  <1>6. CASE ResumeFailed(r)
    <2> DEFINE new == Settled(call, 500, Nothing)
    <2>1. /\ new \in Call /\ new.stage = "settled" /\ new.status = 500
          /\ new.decision = Nothing
          /\ new.caller = call.caller /\ new.at = call.at
          /\ new.boot = call.boot /\ new.hit = call.hit
      <3>1. 500 \in Statuses /\ Nothing \in DecisionRecord \cup {Nothing}
        BY DEF Statuses
      <3>2. QED
        BY <1>1, <3>1, SettledStamp
    <2>2. /\ calls' = [calls EXCEPT ![r] = new] /\ clock' = clock /\ boots' = boots
          /\ metrics' = metrics /\ decisionLog' = decisionLog
      BY <1>6 DEF ResumeFailed
    <2> HIDE DEF new
    <2>3. Ends(r, new)
      BY <1>2, <1>3, <2>1, <2>2 DEF Ends, Ended
    <2>4. Booked(new)
      <3>1. /\ metrics.limited \in Nat /\ metrics.hits \in Nat /\ metrics.logged \in Nat
        BY <1>1 DEF Counts
      <3>2. QED
        BY <1>3, <1>4, <2>1, <2>2, <3>1 DEF Booked
    <2>5. QED
      BY <1>2, <2>1, <2>3, <2>4
  <1>7. QED
    BY <1>5, <1>6

(* A miss puts a request on its way; it is on no ledger yet. *)
Starts(r, new, c) ==
  /\ calls[r].stage = "idle" /\ calls[r].status = 0
  /\ \A s \in Requests : calls'[s] = IF s = r THEN new ELSE calls[s]
  /\ new.caller = c /\ new.at = clock /\ new.boot = boots /\ new.hit = FALSE
  /\ new.stage = "queued" /\ new.status = 0
  /\ UNCHANGED <<clock, metrics, decisionLog, boots>>

LEMMA MissStarts ==
  ASSUME ServiceInv, NEW r \in Requests, NEW c \in Callers, NEW p \in Payloads,
         CacheMiss(r, c, p)
  PROVE  \E new \in Call : Starts(r, new, c)
  <1>1. TypeOK /\ calls \in [Requests -> Call] /\ Consistent(calls[r])
    BY DEF ServiceInv, TypeOK
  <1> DEFINE new == Made(c, p)
  <1>2. /\ new \in Call /\ new.caller = c /\ new.at = clock /\ new.boot = boots
        /\ new.hit = FALSE /\ new.stage = "queued" /\ new.status = 0
    BY <1>1, MadeStamp
  <1>3. /\ calls[r].stage = "idle" /\ calls' = [calls EXCEPT ![r] = new]
        /\ UNCHANGED <<clock, metrics, decisionLog, boots>>
    BY DEF CacheMiss, Arrives
  <1> HIDE DEF new
  <1>4. calls[r].status = 0
    BY <1>1, <1>3 DEF Consistent
  <1>5. \A s \in Requests : calls'[s] = IF s = r THEN new ELSE calls[s]
    BY <1>1, <1>3
  <1>6. Starts(r, new, c)
    BY <1>2, <1>3, <1>4, <1>5 DEF Starts
  <1>7. QED
    BY <1>2, <1>6

LEMMA MissCounted ==
  ASSUME ServiceInv, Stamped, CountersTrue, Counted429, Audited, CutOff,
         NEW r \in Requests, NEW c \in Callers, NEW p \in Payloads, CacheMiss(r, c, p)
  PROVE  CountersTrue' /\ Counted429' /\ Audited' /\ CutOff'
  <1>0. PICK new \in Call : Starts(r, new, c)
    BY MissStarts
  <1>1. /\ calls[r].stage = "idle" /\ calls[r].status = 0
        /\ \A s \in Requests : calls'[s] = IF s = r THEN new ELSE calls[s]
        /\ new.stage = "queued" /\ new.status = 0 /\ new.hit = FALSE
        /\ UNCHANGED <<metrics, decisionLog, boots>>
    BY <1>0 DEF Starts
  <1>2. Returned' = Returned /\ Answered' = Answered /\ r \notin Returned
    BY <1>1 DEF Returned, Answered
  <1>3. ~ calls[r].hit
    BY <1>1 DEF Stamped, Ended
  <1>4. FromCache' = FromCache /\ TurnedAway' = TurnedAway /\ ToldNow' = ToldNow
    <2>1. FromCache' = FromCache
      BY <1>1, <1>3 DEF FromCache, ThisBoot
    <2>2. TurnedAway' = TurnedAway
      BY <1>1 DEF TurnedAway, ThisBoot
    <2>3. ToldNow' = ToldNow
      BY <1>1, <1>2 DEF ToldNow, ThisBoot
    <2>4. QED
      BY <2>1, <2>2, <2>3
  <1>5. \A d \in Ids : Told(d)' = Told(d)
    <2>1. \A s \in Returned : calls'[s] = calls[s]
      BY <1>1, <1>2 DEF Returned
    <2>2. QED
      BY <1>2, <2>1 DEF Told
  <1>6. CountersTrue' /\ Counted429'
    BY <1>1, <1>4 DEF CountersTrue, Counted429, FromCache, ToldNow
  <1>7. Audited'
    BY <1>1, <1>5 DEF Audited, Told
  <1>8. CutOff'
    BY <1>1, <1>2 DEF CutOff, Returned
  <1>9. QED
    BY <1>6, <1>7, <1>8

LedgerInv == ServiceInv /\ Stamped /\ CountersTrue /\ Counted429 /\ Audited /\ CutOff

LEMMA EndsStamped ==
  ASSUME ServiceInv, Stamped, NEW r \in Requests, NEW new, Ends(r, new)
  PROVE  Stamped'
  <1>1. /\ \A s \in Requests : calls'[s] = IF s = r THEN new ELSE calls[s]
        /\ boots' = boots /\ clock' = clock /\ boots \in Nat
        /\ Ended(new) /\ new.boot = boots /\ new.at <= clock
    BY ServiceAssumption DEF Ends, Ended, ServiceInv, TypeOK
  <1>2. QED
    BY <1>1 DEF Stamped

LEMMA QuietStamped ==
  ASSUME ServiceInv, Stamped, Quiet, clock' >= clock, clock' \in Nat
  PROVE  Stamped'
  <1>1. /\ \A s \in Requests : calls[s].at \in Nat /\ calls[s].hit \in BOOLEAN
        /\ clock \in Nat
    BY ServiceAssumption DEF ServiceInv, TypeOK, Call
  <1>2. SUFFICES ASSUME NEW r \in Requests
                 PROVE  /\ calls'[r].boot <= boots'
                        /\ calls'[r].stage # "idle" => calls'[r].at <= clock'
                        /\ calls'[r].stage \notin {"idle", "settled"} => calls'[r].boot = boots'
                        /\ ~ Ended(calls'[r]) => ~ calls'[r].hit
    BY DEF Stamped
  <1>3. /\ SameEntry(calls[r], calls'[r]) /\ boots' = boots
    BY DEF Quiet
  <1>4. /\ calls[r].boot <= boots
        /\ calls[r].stage # "idle" => calls[r].at <= clock
        /\ calls[r].stage \notin {"idle", "settled"} => calls[r].boot = boots
        /\ ~ Ended(calls[r]) => ~ calls[r].hit
    BY DEF Stamped
  <1>5. QED
    BY <1>1, <1>3, <1>4 DEF SameEntry

LEMMA LedgerInit == Init => LedgerInv
  <1> SUFFICES ASSUME Init PROVE LedgerInv
    OBVIOUS
  <1>1. ServiceInv
    BY InitEstablishes
  <1>2. /\ \A r \in Requests : calls[r] = NotMade
        /\ boots = 0 /\ metrics = NoCounts /\ decisionLog = [d \in Ids |-> 0]
    BY DEF Init
  <1>3. Stamped
    BY <1>2 DEF Stamped, NotMade
  <1>4. Returned = {}
    BY <1>2 DEF Returned, NotMade
  <1>5. FromCache = {} /\ TurnedAway = {} /\ ToldNow = {} /\ \A d \in Ids : Told(d) = {}
    <2>1. \A r \in Requests : calls[r].hit = FALSE /\ calls[r].status = 0
      BY <1>2 DEF NotMade
    <2>2. FromCache = {} /\ TurnedAway = {}
      BY <2>1 DEF FromCache, TurnedAway, ThisBoot
    <2>3. QED
      BY <1>4, <2>2 DEF ToldNow, Told
  <1>6. Cardinality({}) = 0
    BY FS_EmptySet
  <1>7. /\ metrics.total = 0 /\ metrics.computed = 0 /\ metrics.hits = 0
        /\ metrics.logged = 0 /\ metrics.limited = 0
    BY <1>2 DEF NoCounts
  <1>8. /\ metrics.total = metrics.computed + metrics.hits
        /\ metrics.hits = Cardinality(FromCache)
        /\ metrics.logged = IF LogDecisions THEN Cardinality(ToldNow) ELSE 0
        /\ metrics.limited = Cardinality(TurnedAway)
    BY <1>5, <1>6, <1>7
  <1>9. CountersTrue /\ Counted429
    BY <1>8 DEF CountersTrue, Counted429, FromCache, ToldNow
  <1>10. Audited /\ CutOff
    BY <1>2, <1>4, <1>5, <1>6 DEF Audited, CutOff
  <1>11. QED
    BY <1>1, <1>3, <1>9, <1>10 DEF LedgerInv

LEMMA LedgerNext ==
  ASSUME LedgerInv, [Next]_vars
  PROVE  LedgerInv'
  <1>0. ServiceInv /\ Stamped /\ CountersTrue /\ Counted429 /\ Audited /\ CutOff /\ ServiceInv'
    BY NextPreserves DEF LedgerInv
  <1>1. ASSUME NEW r \in Requests, NEW new \in Call, Ends(r, new), Booked(new)
        PROVE  LedgerInv'
    BY <1>0, <1>1, EndsStamped, EndsCounted, EndsAudited DEF LedgerInv
  <1>2. ASSUME NEW r \in Requests, Arrival(r)
        PROVE  LedgerInv'
    <2>1. PICK c \in Callers, p \in Payloads :
            Refusal(r, c, p) \/ CacheHit(r, c, p) \/ CacheMiss(r, c, p)
      BY <1>2 DEF Arrival, Refusal
    <2>2. CASE Refusal(r, c, p)
      BY <1>0, <1>1, <2>2, RefusalEnds
    <2>3. CASE CacheHit(r, c, p)
      BY <1>0, <1>1, <2>3, CacheHitEnds
    <2>4. CASE CacheMiss(r, c, p)
      <3>1. CountersTrue' /\ Counted429' /\ Audited' /\ CutOff'
        BY <1>0, <2>4, MissCounted
      <3>2. Stamped'
        <4>1. PICK new \in Call : Starts(r, new, c)
          BY <1>0, <2>4, MissStarts
        <4>2. boots \in Nat /\ clock \in Nat
          BY <1>0, ServiceAssumption DEF ServiceInv, TypeOK
        <4>3. QED
          BY <1>0, <4>1, <4>2 DEF Stamped, Starts, Ended
      <3>3. QED
        BY <1>0, <3>1, <3>2 DEF LedgerInv
    <2>5. QED
      BY <2>1, <2>2, <2>3, <2>4
  <1>3. ASSUME NEW r \in Requests, Resumption(r)
        PROVE  LedgerInv'
    <2>1. CASE Resume(r) \/ ResumeFailed(r)
      BY <1>0, <1>1, <2>1, ResumptionEnds
    <2>2. CASE Respond(r)
      <3>1. Quiet
        BY <1>0, <2>2, RespondQuiet
      <3>2. clock' >= clock /\ clock' \in Nat
        BY <1>0, <2>2, ServiceAssumption DEF Respond, ServiceInv, TypeOK
      <3>3. QED
        BY <1>0, <3>1, <3>2, QuietCounted, QuietStamped DEF LedgerInv
    <2>3. QED
      BY <1>3, <2>1, <2>2 DEF Resumption
  <1>4. CASE StartWork \/ Advance \/ UNCHANGED vars \/ \E r \in Requests : Work(r)
    <2>1. Quiet
      BY <1>0, <1>4, QuietSteps
    <2>2. clock' >= clock /\ clock' \in Nat
      <3>1. clock \in Nat /\ clock' \in Nat
        BY <1>0, ServiceAssumption DEF ServiceInv, TypeOK
      <3>2. clock' = clock \/ clock' > clock
        BY <1>4 DEF StartWork, Advance, vars, Work, Compute, WorkerFails
      <3>3. QED
        BY <3>1, <3>2
    <2>3. QED
      BY <1>0, <2>1, <2>2, QuietCounted, QuietStamped DEF LedgerInv
  <1>5. CASE Crash
    BY <1>0, <1>5, CrashCounted DEF LedgerInv
  <1>6. QED
    BY <1>2, <1>3, <1>4, <1>5 DEF Next

THEOREM ServiceLedgers == Spec => []LedgerInv
  <1>1. LedgerInv /\ [Next]_vars => LedgerInv'
    BY LedgerNext
  <1>2. QED
    BY <1>1, LedgerInit, PTL DEF Spec

(* What was returned about a decision was sent or not; so are its lines.   *)
LEMMA LinesSplit ==
  ASSUME ServiceInv, NEW d \in Ids
  PROVE  Cardinality(Told(d)) =
           Cardinality({r \in Answered : calls[r].decision.id = d})
             + Cardinality({r \in Returned \ Answered : calls[r].decision.id = d})
  <1> DEFINE A == {r \in Answered : calls[r].decision.id = d}
             B == {r \in Returned \ Answered : calls[r].decision.id = d}
  <1>1. Answered \subseteq Returned
    <2>1. SUFFICES ASSUME NEW r \in Requests, calls[r].status = 200
                   PROVE  calls[r].stage \in {"answering", "settled"} /\ calls[r].decision # Nothing
      BY DEF Answered, Returned
    <2>2. Consistent(calls[r])
      BY DEF ServiceInv, TypeOK
    <2>3. QED
      BY <2>1, <2>2 DEF Consistent
  <1>2. Told(d) = A \cup B /\ A \cap B = {}
    BY <1>1 DEF Told
  <1>3. IsFiniteSet(A) /\ IsFiniteSet(B)
    <2>1. A \subseteq Requests /\ B \subseteq Requests
      BY DEF Answered, Returned
    <2>2. QED
      BY <2>1, ServiceAssumption, FS_Subset
  <1>4. Cardinality(A) \in Nat /\ Cardinality(B) \in Nat
    BY <1>3, FS_CardinalityType
  <1> HIDE DEF A, B
  <1>5. Cardinality(A \cup B) = Cardinality(A) + Cardinality(B) - Cardinality({})
    BY <1>2, <1>3, FS_Union
  <1>6. Cardinality(A \cup B) = Cardinality(A) + Cardinality(B)
    BY <1>4, <1>5, FS_EmptySet
  <1>7. QED
    BY <1>2, <1>6 DEF A, B

(* With LOG_DECISIONS on, the log has a line for every response, and one   *)
(* more only for a response on its way or cut off by a crash, whatever     *)
(* fails and whatever is cached.                                           *)
THEOREM ServiceAuditExact == Spec => []AuditExact
  <1>1. ASSUME LedgerInv
        PROVE  AuditExact
    <2>1. ServiceInv /\ Audited /\ CutOff
      BY <1>1 DEF LedgerInv
    <2>2. \A d \in Ids :
            decisionLog[d] =
              IF LogDecisions
                THEN Cardinality({r \in Answered : calls[r].decision.id = d})
                     + Cardinality({r \in Returned \ Answered : calls[r].decision.id = d})
                ELSE 0
      BY <2>1, LinesSplit DEF Audited
    <2>3. QED
      BY <2>1, <2>2 DEF AuditExact, CutOff
  <1>2. QED
    BY <1>1, ServiceLedgers, PTL

(* The counters behind /status are those of this process. *)
THEOREM ServiceCountersTrue == Spec => []CountersTrue
  <1>1. LedgerInv => CountersTrue
    BY DEF LedgerInv
  <1>2. QED
    BY <1>1, ServiceLedgers, PTL

-----------------------------------------------------------------------------
(* The oracle: replies and log, and nothing else.                          *)

LEMMA RepliesAre ==
  /\ \A r \in Requests :
       /\ replies[r] = ReplyTo(calls[r])
       /\ replies[r].done <=> calls[r].stage = "settled"
       /\ replies[r].status = calls[r].status
       /\ calls[r].status = 200 =>
            replies[r].payload = calls[r].payload /\ replies[r].decision = calls[r].decision
  /\ replies = [r \in Requests |-> replies[r]]
  BY DEF replies, ReplyTo

(* A caller who waits knows nothing; one who is refused, the status only.  *)
LEMMA ReplyShapes ==
  /\ \A call : (call.stage # "settled" /\ call.status = 0) => ReplyTo(call) = Oracle!Pending
  /\ \A call : (call.stage = "settled" /\ call.status # 200)
                 => ReplyTo(call) = Oracle!Failed(call.status)
  /\ \A call : (call.stage = "settled" /\ call.status = 200)
                 => ReplyTo(call) = Oracle!Decided(call.payload, call.decision)
  <1>1. ASSUME NEW call, call.stage # "settled", call.status = 0
        PROVE  ReplyTo(call) = Oracle!Pending
    <2>1. (call.stage = "settled") = FALSE
      BY <1>1
    <2>2. /\ call.status = 0
          /\ (IF call.status = 200 THEN call.payload ELSE Nothing) = Nothing
          /\ (IF call.status = 200 THEN call.decision ELSE Nothing) = Nothing
      BY <1>1
    <2>3. QED
      BY <2>1, <2>2, Zenon DEF ReplyTo, Oracle!Pending
  <1>2. ASSUME NEW call, call.stage = "settled", call.status # 200
        PROVE  ReplyTo(call) = Oracle!Failed(call.status)
    BY <1>2 DEF ReplyTo, Oracle!Failed
  <1>3. ASSUME NEW call, call.stage = "settled", call.status = 200
        PROVE  ReplyTo(call) = Oracle!Decided(call.payload, call.decision)
    BY <1>3 DEF ReplyTo, Oracle!Decided
  <1>4. QED
    BY <1>1, <1>2, <1>3

(* What the oracle has booked about a request is what its handler has      *)
(* returned.                                                               *)
ReturnOf(call) ==
  IF Ended(call) /\ call.decision # Nothing
    THEN [payload |-> call.payload, decision |-> call.decision]
    ELSE Nothing

LEMMA ReturnsAre ==
  /\ \A r \in Requests : returns[r] = ReturnOf(calls[r])
  /\ returns = [r \in Requests |-> ReturnOf(calls[r])]
  /\ returns' = [r \in Requests |-> ReturnOf(calls'[r])]
  BY DEF returns, Returned, ReturnOf, Ended

(* A decision that was returned is one the oracle may give for the payload *)
(* it was returned for.                                                    *)
ReturnedSound ==
  \A r \in Returned :
    /\ calls[r].payload \in Payloads
    /\ calls[r].decision \in DecisionRecord
    /\ calls[r].decision.says \in Oracle!Verdicts(calls[r].payload)

LEMMA ReturnedIsSound == ServiceInv => ReturnedSound
  <1> SUFFICES ASSUME ServiceInv, NEW r \in Returned
               PROVE  /\ calls[r].payload \in Payloads
                      /\ calls[r].decision \in DecisionRecord
                      /\ calls[r].decision.says \in Oracle!Verdicts(calls[r].payload)
    BY DEF ReturnedSound
  <1> DEFINE mine == calls[r].payload
             d == calls[r].decision
  <1>1. calls[r] \in Call /\ Consistent(calls[r]) /\ r \in Requests
    BY DEF ServiceInv, TypeOK, Returned
  <1>2. d # Nothing /\ calls[r].stage # "idle"
    BY DEF Returned
  <1>3. mine \in Payloads /\ d \in DecisionRecord
    BY <1>1, <1>2 DEF Consistent, Call
  <1>4. <<d, CacheKey(mine)>> \in Filed
    BY <1>1, <1>2, FiledEntries
  <1>5. PICK p \in Payloads : CacheKey(mine) = CacheKey(p) /\ d.says = DecisionFor[p]
    BY <1>4 DEF ServiceInv, FilingSound
  <1>6. CASE mine \in Covered
    <2>1. IsPayload(p) /\ IsPayload(mine) /\ WindowCovers(mine.messages)
      BY <1>3, <1>6, ServiceAssumption DEF Covered
    <2>2. ClassifierInput(mine) = ClassifierInput(p)
      BY <1>5, <2>1, KeyCoversInput
    <2>3. DecisionFor[mine] = DecisionFor[p]
      BY <1>3, <1>5, <2>2, DecisionIs
    <2>4. QED
      BY <1>3, <1>5, <1>6, <2>3 DEF Oracle!Verdicts
  <1>7. CASE mine \notin Covered
    <2>1. KeyOf[p] = KeyOf[mine]
      BY <1>3, <1>5 DEF KeyOf
    <2>2. QED
      BY <1>3, <1>5, <1>7, <2>1 DEF Oracle!Verdicts
  <1>8. QED
    BY <1>3, <1>6, <1>7

(* A booking is not Nothing. *)
LEMMA BookedReturn ==
  ASSUME ReturnedSound, NEW r \in Requests
  PROVE  /\ r \in Returned =>
              /\ returns[r] = [payload |-> calls[r].payload, decision |-> calls[r].decision]
              /\ returns[r] # Nothing
         /\ r \notin Returned => returns[r] = Nothing
  <1>1. r \notin Returned => returns[r] = Nothing
    BY DEF returns
  <1>2. ASSUME r \in Returned
        PROVE  /\ returns[r] = [payload |-> calls[r].payload, decision |-> calls[r].decision]
               /\ returns[r] # Nothing
    <2>1. returns[r] = [payload |-> calls[r].payload, decision |-> calls[r].decision]
      BY <1>2 DEF returns
    <2>2. calls[r].payload \in Payloads /\ calls[r].decision \in [id : Ids, says : Decision]
      BY <1>2 DEF ReturnedSound, DecisionRecord
    <2>3. QED
      BY <2>1, <2>2, ServiceAssumption
  <1>3. QED
    BY <1>1, <1>2

LEMMA QuietReturns ==
  ASSUME Quiet
  PROVE  returns' = returns
  <1>1. \A r \in Requests : ReturnOf(calls'[r]) = ReturnOf(calls[r])
    BY DEF Quiet, SameEntry, ReturnOf
  <1>2. QED
    BY <1>1, ReturnsAre

LEMMA QuietToCallers ==
  ASSUME ServiceInv, ServiceInv', Quiet, Unheard
  PROVE  UNCHANGED Oracle!oracleVars
  <1>1. ASSUME NEW r \in Requests
        PROVE  ReplyTo(calls'[r]) = ReplyTo(calls[r])
    <2>1. /\ calls'[r].status = calls[r].status /\ calls'[r].payload = calls[r].payload
          /\ (calls'[r].stage = "settled") = (calls[r].stage = "settled")
      BY DEF Unheard, Quiet, SameEntry
    <2>2. calls[r].status = 200 => calls'[r].decision = calls[r].decision
      <3>1. Consistent(calls[r]) /\ SameEntry(calls[r], calls'[r])
        BY DEF ServiceInv, TypeOK, Quiet
      <3>2. QED
        BY <3>1 DEF Consistent, SameEntry, Ended
    <2>3. QED
      BY <2>1, <2>2, Zenon DEF ReplyTo
  <1>2. replies' = replies
    BY <1>1 DEF replies
  <1>3. QED
    BY <1>2, QuietReturns DEF Quiet, Oracle!oracleVars

LEMMA StartsToCallers ==
  ASSUME ServiceInv, NEW r \in Requests, NEW new, NEW c, Starts(r, new, c)
  PROVE  UNCHANGED Oracle!oracleVars
  <1>1. \A s \in Requests : ReplyTo(calls'[s]) = ReplyTo(calls[s])
    BY DEF Starts, ReplyTo
  <1>2. replies' = replies
    BY <1>1 DEF replies
  <1>3. \A s \in Requests : ReturnOf(calls'[s]) = ReturnOf(calls[s])
    BY DEF Starts, ReturnOf, Ended
  <1>4. returns' = returns
    BY <1>3, ReturnsAre
  <1>5. QED
    BY <1>2, <1>4 DEF Starts, Oracle!oracleVars

(* What the end of one handler changes of what is booked and replied. *)
LEMMA OneEnd ==
  ASSUME ServiceInv, ReturnedSound, NEW r \in Requests, NEW new, Ends(r, new)
  PROVE  /\ ~ replies[r].done /\ returns[r] = Nothing /\ r \notin Returned
         /\ calls'[r] = new
         /\ \A s \in Requests : s # r => calls'[s] = calls[s]
         /\ replies' = [replies EXCEPT ![r] = ReplyTo(new)]
         /\ returns' = [returns EXCEPT ![r] = ReturnOf(new)]
  <1>1. /\ calls \in [Requests -> Call] /\ calls' = [calls EXCEPT ![r] = new]
        /\ calls[r].stage # "settled" /\ r \notin Returned
    BY DEF Ends, Ended, Returned, ServiceInv, TypeOK
  <1>2. \A s \in Requests : calls'[s] = IF s = r THEN new ELSE calls[s]
    BY <1>1
  <1>3. replies' = [s \in Requests |-> ReplyTo(calls'[s])]
    BY DEF replies
  <1>4. replies' = [replies EXCEPT ![r] = ReplyTo(new)]
    BY <1>2, <1>3, RepliesAre
  <1>5. returns' = [returns EXCEPT ![r] = ReturnOf(new)]
    BY <1>2, ReturnsAre
  <1>6. returns[r] = Nothing
    BY <1>1, BookedReturn
  <1>7. QED
    BY <1>1, <1>2, <1>4, <1>5, <1>6, RepliesAre

(* A handler that returns a decision books it; the caller hears nothing    *)
(* yet.                                                                    *)
LEMMA EndBooks ==
  ASSUME ServiceInv, ServiceInv', ReturnedSound, ReturnedSound',
         NEW r \in Requests, NEW new \in Call, Ends(r, new), Booked(new),
         new.stage = "answering"
  PROVE  Oracle!Book(r)
  <1> DEFINE d == new.decision
             p == new.payload
  <1>1. /\ ~ replies[r].done /\ returns[r] = Nothing /\ r \notin Returned /\ calls'[r] = new
        /\ \A s \in Requests : s # r => calls'[s] = calls[s]
        /\ replies' = [replies EXCEPT ![r] = ReplyTo(new)]
        /\ returns' = [returns EXCEPT ![r] = ReturnOf(new)]
    BY OneEnd
  <1>2. /\ p \in Payloads /\ d \in DecisionRecord /\ d # Nothing
        /\ d.says \in Oracle!Verdicts(p)
    <2>1. r \in Returned' /\ d # Nothing
      BY <1>1 DEF Returned, Ends
    <2>2. /\ calls'[r].payload \in Payloads /\ calls'[r].decision \in DecisionRecord
          /\ calls'[r].decision.says \in Oracle!Verdicts(calls'[r].payload)
      BY <2>1 DEF ReturnedSound
    <2>3. QED
      BY <1>1, <2>1, <2>2
  <1>3. d = [id |-> d.id, says |-> d.says] /\ d.id \in Ids
    BY <1>2 DEF DecisionRecord
  <1>4. replies' = replies
    <2>1. /\ calls[r].stage # "settled" /\ calls[r].status = 0
          /\ new.stage # "settled" /\ new.status = 0
      BY DEF Ends, Ended, ServiceInv, TypeOK, Consistent
    <2>2. ReplyTo(new) = replies[r]
      BY <2>1, ReplyShapes, RepliesAre
    <2>3. QED
      BY <1>1, <2>2, RepliesAre
  <1>5. returns' = [returns EXCEPT ![r] = [payload |-> p, decision |-> d]]
    BY <1>1, <1>2 DEF ReturnOf, Ended
  <1>6. Oracle!Agrees(d, p)
    <2> SUFFICES ASSUME NEW s \in Requests, returns[s] # Nothing,
                        returns[s].decision.id = d.id
                 PROVE  returns[s].decision = d /\ KeyOf[returns[s].payload] = KeyOf[p]
      BY DEF Oracle!Agrees
    <2>1. /\ s \in Returned /\ s # r
          /\ returns[s] = [payload |-> calls[s].payload, decision |-> calls[s].decision]
      BY <1>1, BookedReturn
    <2>2. returns[s].payload = calls[s].payload /\ returns[s].decision = calls[s].decision
      BY <2>1
    <2>3. /\ calls[s].payload \in Payloads /\ calls[s].decision \in DecisionRecord
          /\ calls'[s] = calls[s]
      BY <1>1, <2>1 DEF ReturnedSound
    <2>4. calls'[s].decision # Nothing /\ calls'[r].decision # Nothing
      BY <1>1, <1>2, <2>3, ServiceAssumption DEF DecisionRecord
    <2>5. /\ <<calls[s].decision, CacheKey(calls[s].payload)>> \in Filed'
          /\ <<d, CacheKey(p)>> \in Filed'
      BY <1>1, <2>3, <2>4 DEF Filed
    <2>6. <<calls[s].decision, CacheKey(calls[s].payload)>> = <<d, CacheKey(p)>>
      BY <2>2, <2>5 DEF ServiceInv, FilingSound
    <2>7. QED
      BY <1>2, <2>2, <2>3, <2>6 DEF KeyOf
  <1>7. decisionLog' = IF LogDecisions THEN [decisionLog EXCEPT ![d.id] = @ + 1] ELSE decisionLog
    BY DEF Booked
  <1>8. /\ returns' = [returns EXCEPT ![r] =
                         [payload |-> p, decision |-> [id |-> d.id, says |-> d.says]]]
        /\ Oracle!Agrees([id |-> d.id, says |-> d.says], p)
    BY <1>3, <1>5, <1>6
  <1> HIDE DEF d, p
  <1>9. QED
    BY <1>1, <1>2, <1>3, <1>4, <1>7, <1>8 DEF Oracle!Book

(* A response that is sent tells what was booked. *)
LEMMA RespondReplies ==
  ASSUME ServiceInv, ReturnedSound, NEW r \in Requests, Respond(r)
  PROVE  Oracle!Reply(r)
  <1> DEFINE d == calls[r].decision
             p == calls[r].payload
             new == Settled(calls[r], 200, d)
  <1>1. /\ calls \in [Requests -> Call] /\ calls[r] \in Call /\ Consistent(calls[r])
        /\ calls[r].stage = "answering" /\ calls' = [calls EXCEPT ![r] = new]
        /\ decisionLog' = decisionLog
    BY DEF Respond, ServiceInv, TypeOK
  <1>2. /\ r \in Returned /\ returns[r] = [payload |-> p, decision |-> d]
        /\ returns[r] # Nothing
    <2>1. r \in Returned
      BY <1>1 DEF Consistent, Returned
    <2>2. QED
      BY <2>1, BookedReturn
  <1>3. new.stage = "settled" /\ new.status = 200 /\ new.decision = d /\ new.payload = p
    <2>1. 200 \in Statuses /\ d \in DecisionRecord \cup {Nothing}
      BY <1>1 DEF Statuses, Call
    <2>2. QED
      BY <1>1, <2>1, SettledFacts
  <1> HIDE DEF new
  <1>4. ReplyTo(new) = Oracle!Decided(p, d)
    BY <1>3, ReplyShapes
  <1>5. \A s \in Requests : calls'[s] = IF s = r THEN new ELSE calls[s]
    BY <1>1
  <1>6. replies' = [replies EXCEPT ![r] = Oracle!Decided(p, d)]
    <2>1. replies' = [s \in Requests |-> ReplyTo(calls'[s])]
      BY DEF replies
    <2>2. QED
      BY <1>4, <1>5, <2>1, RepliesAre
  <1>7. returns[r].payload = p /\ returns[r].decision = d
    BY <1>2
  <1>8. ~ replies[r].done
    BY <1>1, RepliesAre
  <1>9. returns' = returns
    BY RespondQuiet, QuietReturns
  <1> HIDE DEF d, p
  <1>10. QED
    BY <1>1, <1>2, <1>6, <1>7, <1>8, <1>9 DEF Oracle!Reply

LEMMA EndRefuses ==
  ASSUME ServiceInv, ReturnedSound,
         NEW r \in Requests, NEW new \in Call, Ends(r, new), Booked(new),
         new.stage # "answering"
  PROVE  Oracle!Refuse(r)
  <1>1. /\ ~ replies[r].done /\ returns[r] = Nothing
        /\ replies' = [replies EXCEPT ![r] = ReplyTo(new)]
        /\ returns' = [returns EXCEPT ![r] = ReturnOf(new)]
    BY OneEnd
  <1>2. new.stage = "settled" /\ new.status \in {401, 422, 429, 500} /\ new.decision = Nothing
    BY DEF Ends
  <1>3. ReplyTo(new) = Oracle!Failed(new.status)
    BY <1>2, ReplyShapes
  <1>4. decisionLog' = decisionLog
    BY DEF Booked
  <1>5. returns' = returns
    <2>1. ReturnOf(new) = returns[r]
      BY <1>1, <1>2 DEF ReturnOf
    <2>2. QED
      BY <1>1, <2>1, ReturnsAre
  <1>6. new.status \in Oracle!Errors /\ replies' = [replies EXCEPT ![r] = Oracle!Failed(new.status)]
    BY <1>1, <1>2, <1>3 DEF Oracle!Errors
  <1>7. QED
    BY <1>1, <1>4, <1>5, <1>6 DEF Oracle!Refuse

LEMMA CrashBreaks ==
  ASSUME ServiceInv, Crash
  PROVE  Oracle!Break(InFlight)
  <1>1. \A r \in InFlight : r \in Requests /\ ~ replies[r].done
    BY RepliesAre DEF InFlight
  <1>2. ASSUME NEW r \in Requests
        PROVE  ReplyTo(calls'[r]) = IF r \in InFlight THEN Oracle!Failed(0) ELSE replies[r]
    <2>1. CASE r \in InFlight
      <3>1. calls'[r].stage = "settled" /\ calls'[r].status = 0
        BY <2>1, CrashFacts
      <3>2. ReplyTo(calls'[r]) = Oracle!Failed(0)
        BY <3>1, ReplyShapes
      <3>3. QED
        BY <2>1, <3>2
    <2>2. CASE r \notin InFlight
      BY <2>2, CrashFacts, RepliesAre
    <2>3. QED
      BY <2>1, <2>2
  <1>3. replies' = [r \in Requests |-> IF r \in InFlight THEN Oracle!Failed(0) ELSE replies[r]]
    <2>1. replies' = [r \in Requests |-> ReplyTo(calls'[r])]
      BY DEF replies
    <2>2. QED
      BY <1>2, <2>1
  <1>4. returns' = returns
    BY CrashFacts DEF returns
  <1>5. decisionLog' = decisionLog
    BY DEF Crash
  <1>6. QED
    BY <1>1, <1>3, <1>4, <1>5 DEF Oracle!Break

LEMMA StepAnswers ==
  ASSUME LedgerInv, ReturnedSound, ReturnedSound', [Next]_vars
  PROVE  [Oracle!Next]_(Oracle!oracleVars)
  <1>0. /\ ServiceInv /\ Stamped /\ CountersTrue
        /\ ServiceInv'
    BY NextPreserves DEF LedgerInv
  <1>1. ASSUME NEW r \in Requests, NEW new \in Call, Ends(r, new), Booked(new)
        PROVE  Oracle!Next
    <2>1. CASE new.stage = "answering"
      BY <1>0, <1>1, <2>1, EndBooks DEF Oracle!Next
    <2>2. CASE new.stage # "answering"
      BY <1>0, <1>1, <2>2, EndRefuses DEF Oracle!Next
    <2>3. QED
      BY <2>1, <2>2
  <1>2. ASSUME NEW r \in Requests, Arrival(r)
        PROVE  [Oracle!Next]_(Oracle!oracleVars)
    <2>1. PICK c \in Callers, p \in Payloads :
            Refusal(r, c, p) \/ CacheHit(r, c, p) \/ CacheMiss(r, c, p)
      BY <1>2 DEF Arrival, Refusal
    <2>2. CASE Refusal(r, c, p)
      BY <1>0, <1>1, <2>2, RefusalEnds
    <2>3. CASE CacheHit(r, c, p)
      BY <1>0, <1>1, <2>3, CacheHitEnds
    <2>4. CASE CacheMiss(r, c, p)
      BY <1>0, <2>4, MissStarts, StartsToCallers
    <2>5. QED
      BY <2>1, <2>2, <2>3, <2>4
  <1>3. ASSUME NEW r \in Requests, Resumption(r)
        PROVE  Oracle!Next
    <2>1. CASE Resume(r) \/ ResumeFailed(r)
      BY <1>0, <1>1, <2>1, ResumptionEnds
    <2>2. CASE Respond(r)
      BY <1>0, <2>2, RespondReplies DEF Oracle!Next
    <2>3. QED
      BY <1>3, <2>1, <2>2 DEF Resumption
  <1>4. CASE StartWork \/ Advance \/ UNCHANGED vars \/ \E r \in Requests : Work(r)
    BY <1>0, <1>4, QuietSteps, QuietToCallers
  <1>5. CASE Crash
    <2>1. InFlight \in SUBSET Requests
      BY DEF InFlight
    <2>2. QED
      BY <1>0, <1>5, <2>1, CrashBreaks DEF Oracle!Next
  <1>6. QED
    BY <1>2, <1>3, <1>4, <1>5 DEF Next

(* Whatever is cached, queued, failing or crashing, callers and log see an *)
(* oracle that books one request at a time with its line in the log, each  *)
(* once, and tells the caller what it booked, unless it breaks in between. *)
THEOREM ServiceImplementsOracle == Spec => ImplementsOracle
  <1>1. Init => Oracle!Init
    <2> SUFFICES ASSUME Init PROVE Oracle!Init
      OBVIOUS
    <2>1. \A r \in Requests : calls[r].stage = "idle" /\ calls[r].status = 0
      BY DEF Init, NotMade
    <2>2. \A r \in Requests : ReplyTo(calls[r]) = Oracle!Pending
      BY <2>1, ReplyShapes
    <2>3. Returned = {}
      BY <2>1 DEF Returned
    <2>4. QED
      BY <2>2, <2>3 DEF Init, Oracle!Init, replies, returns
  <1>2. LedgerInv /\ ReturnedSound /\ ReturnedSound' /\ [Next]_vars
          => [Oracle!Next]_(Oracle!oracleVars)
    BY StepAnswers
  <1>3. QED
    BY <1>1, <1>2, ServiceLedgers, ServiceInvariant, ReturnedIsSound, PTL DEF Spec, Oracle!Spec, ImplementsOracle


(* Only API keys have slots, while there are API keys. *)
THEOREM ServiceSlotsOnlyForApiKeys == Spec => []SlotsOnlyForApiKeys
  <1>1. Init => SlotsOnlyForApiKeys
    BY DEF Init, SlotsOnlyForApiKeys
  <1>2. ASSUME TypeOK, SlotsOnlyForApiKeys, [Next]_vars
        PROVE  SlotsOnlyForApiKeys'
    <2>1. ASSUME NEW c \in Callers, Authentic(c), RateLimited(c)
          PROVE  SlotsOnlyForApiKeys'
      <3>1. ApiKeys # {} => LimitKey(c) \in ApiKeys
        BY <2>1, ServiceAssumption DEF Authentic, LimitKey
      <3>2. \A k \in LimitKeys : k # LimitKey(c) => windows'[k] = windows[k]
        BY <1>2, <2>1 DEF TypeOK, RateLimited
      <3>3. QED
        BY <1>2, <3>1, <3>2 DEF SlotsOnlyForApiKeys
    <2>2. CASE UNCHANGED windows
      BY <1>2, <2>2 DEF SlotsOnlyForApiKeys
    <2>3. CASE Crash
      BY <2>3 DEF Crash, SlotsOnlyForApiKeys
    <2>4. ASSUME NEW r \in Requests, Arrival(r)
          PROVE  SlotsOnlyForApiKeys'
      <3>1. PICK c \in Callers, p \in Payloads :
              UNCHANGED windows \/ (Authentic(c) /\ RateLimited(c))
        BY <2>4 DEF Arrival, Unauthorized, TooManyRequests, TooManyMessages, NoCacheKey,
                    CacheHit, CacheMiss, Admits
      <3>2. QED
        BY <2>1, <2>2, <3>1
    <2>5. ASSUME ~ Crash, ~ \E r \in Requests : Arrival(r)
          PROVE  UNCHANGED windows
      BY <1>2, <2>5 DEF Next, vars, Work, Resumption, Compute, WorkerFails, Resume,
                        ResumeFailed, Respond, StartWork, Advance
    <2>6. QED
      BY <2>2, <2>3, <2>4, <2>5
  <1>3. QED
    BY <1>1, <1>2, ServiceTypeCorrect, PTL DEF Spec

-----------------------------------------------------------------------------
(* Why QuotaExact holds.  The slot of a key sums up the requests of this   *)
(* process and window that got past the limiter, until they are Limit.     *)
Passed(call) == call.stage # "idle" /\ Authentic(call.caller) /\ call.status # 429

Mine(b, w, k) == {s \in Admitted(b, w) : LimitKey(calls[s].caller) = k}

WithinLimit ==
  \A b \in Nat, w \in Nat, k \in LimitKeys : Cardinality(Mine(b, w, k)) <= Limit

RefusedIn(call, b, w, k) ==
  call.status = 429 /\ call.boot = b /\ WindowAt(call.at) = w /\ LimitKey(call.caller) = k

RefusedAtLimit ==
  \A r \in Requests, b \in Nat, w \in Nat, k \in LimitKeys :
    RefusedIn(calls[r], b, w, k) => Cardinality(Mine(b, w, k)) = Limit

SlotCovers ==
  \A s \in Requests :
    LET slot == windows[LimitKey(calls[s].caller)]
    IN  Passed(calls[s]) /\ calls[s].boot = boots =>
          slot # NoSlot /\ WindowAt(calls[s].at) <= slot.start

SlotSums ==
  \A k \in LimitKeys : windows[k] # NoSlot =>
    /\ windows[k].start <= WindowAt(clock)
    /\ Cardinality(Mine(boots, windows[k].start, k)) =
         IF windows[k].count <= Limit THEN windows[k].count ELSE Limit

QuotaInv == ~ Unlimited => WithinLimit /\ RefusedAtLimit /\ SlotCovers /\ SlotSums

LEMMA CallerKey ==
  ASSUME NEW c \in Callers
  PROVE  LimitKey(c) \in LimitKeys
  BY DEF LimitKey, LimitKeys, Credentials

LEMMA MineFacts ==
  ASSUME ServiceInv
  PROVE  /\ \A b, w, k : Mine(b, w, k) \in SUBSET Requests
         /\ \A s \in Requests : \A b, w, k :
              s \in Mine(b, w, k) <=>
                /\ Passed(calls[s]) /\ calls[s].boot = b
                /\ WindowAt(calls[s].at) = w /\ LimitKey(calls[s].caller) = k
         /\ \A s \in Requests : calls[s].stage # "idle" =>
              /\ calls[s].caller \in Callers /\ LimitKey(calls[s].caller) \in LimitKeys
              /\ calls[s].boot \in Nat /\ WindowAt(calls[s].at) \in Nat
  <1>1. /\ \A b, w, k : Mine(b, w, k) \in SUBSET Requests
        /\ \A s \in Requests : \A b, w, k :
              s \in Mine(b, w, k) <=>
                /\ Passed(calls[s]) /\ calls[s].boot = b
                /\ WindowAt(calls[s].at) = w /\ LimitKey(calls[s].caller) = k
    BY DEF Mine, Admitted, Passed
  <1>2. SUFFICES ASSUME NEW s \in Requests, calls[s].stage # "idle"
                 PROVE  /\ calls[s].caller \in Callers
                        /\ LimitKey(calls[s].caller) \in LimitKeys
                        /\ calls[s].boot \in Nat /\ WindowAt(calls[s].at) \in Nat
    BY <1>1
  <1>3. calls[s] \in Call /\ calls[s].caller # Nothing
    BY <1>2 DEF ServiceInv, TypeOK, Consistent
  <1>4. calls[s].caller \in Callers /\ calls[s].boot \in Nat /\ calls[s].at \in Nat
    BY <1>3 DEF Call
  <1>5. QED
    BY <1>4, CallerKey, WindowFacts

(* A step that lets nobody past the limiter and refuses nobody. *)
SameAdmission(old, new) ==
  /\ Passed(new) <=> Passed(old)
  /\ Passed(old) => new.caller = old.caller /\ new.at = old.at /\ new.boot = old.boot

SameRefusal(old, new) ==
  new.status = 429 =>
    /\ old.status = 429
    /\ new.caller = old.caller /\ new.at = old.at /\ new.boot = old.boot

LEMMA MineKept ==
  ASSUME \A s \in Requests : SameAdmission(calls[s], calls'[s])
  PROVE  \A b, w, k : Mine(b, w, k)' = Mine(b, w, k)
  <1> TAKE b, w, k
  <1>1. Admitted(b, w)' = Admitted(b, w)
    BY DEF SameAdmission, Admitted, Passed
  <1>2. \A s \in Admitted(b, w) : calls'[s].caller = calls[s].caller
    BY DEF SameAdmission, Admitted, Passed
  <1>3. QED
    BY <1>1, <1>2 DEF Mine

LEMMA LimitsKept ==
  ASSUME WithinLimit, RefusedAtLimit,
         \A s \in Requests : SameAdmission(calls[s], calls'[s]),
         \A s \in Requests : SameRefusal(calls[s], calls'[s])
  PROVE  WithinLimit' /\ RefusedAtLimit'
  <1>1. \A b, w, k : Mine(b, w, k)' = Mine(b, w, k)
    BY MineKept
  <1>2. WithinLimit'
    BY <1>1 DEF WithinLimit
  <1>3. RefusedAtLimit'
    <2>1. \A r \in Requests, b \in Nat, w \in Nat, k \in LimitKeys :
            RefusedIn(calls'[r], b, w, k) => RefusedIn(calls[r], b, w, k)
      BY DEF SameRefusal, RefusedIn
    <2>2. QED
      BY <1>1, <2>1 DEF RefusedAtLimit
  <1>4. QED
    BY <1>2, <1>3

LEMMA QuotaKept ==
  ASSUME ServiceInv, QuotaInv,
         \A s \in Requests : SameAdmission(calls[s], calls'[s]),
         \A s \in Requests : SameRefusal(calls[s], calls'[s]),
         windows' = windows, boots' = boots,
         clock \in Nat, clock' \in Nat, clock <= clock'
  PROVE  QuotaInv'
  <1> SUFFICES ASSUME ~ Unlimited
               PROVE  WithinLimit' /\ RefusedAtLimit' /\ SlotCovers' /\ SlotSums'
    BY DEF QuotaInv, Unlimited
  <1>0. WithinLimit /\ RefusedAtLimit /\ SlotCovers /\ SlotSums
    BY DEF QuotaInv
  <1>1. WithinLimit' /\ RefusedAtLimit'
    BY <1>0, LimitsKept
  <1>2. SlotCovers'
    BY <1>0 DEF SlotCovers, SameAdmission
  <1>3. SlotSums'
    <2>1. \A b, w, k : Mine(b, w, k)' = Mine(b, w, k)
      BY MineKept
    <2>2. ASSUME NEW k \in LimitKeys, windows[k] # NoSlot
          PROVE  windows[k].start <= WindowAt(clock')
      <3>1. windows[k].start <= WindowAt(clock) /\ windows[k].start \in Nat
        BY <1>0, <2>2 DEF SlotSums, ServiceInv, TypeOK, Slots
      <3>2. /\ WindowAt(clock) \in Nat /\ WindowAt(clock') \in Nat
            /\ WindowAt(clock) <= WindowAt(clock')
        BY WindowFacts
      <3>3. QED
        BY <3>1, <3>2
    <2>3. \A k \in LimitKeys : windows[k] # NoSlot =>
            Cardinality(Mine(boots, windows[k].start, k)) =
              IF windows[k].count <= Limit THEN windows[k].count ELSE Limit
      BY <1>0 DEF SlotSums
    <2>4. \A k \in LimitKeys :
            Mine(boots, windows[k].start, k)' = Mine(boots, windows[k].start, k)
      BY <2>1 DEF Mine, Admitted
    <2>5. QED
      BY <2>2, <2>3, <2>4 DEF SlotSums
  <1>4. QED
    BY <1>1, <1>2, <1>3

(* The slot of a caller tells how many of its requests passed in this      *)
(* window; what another window's slot says is out of date, and nobody      *)
(* passed in this one.                                                     *)
LEMMA SlotNow ==
  ASSUME ServiceInv, ~ Unlimited, QuotaInv, NEW k \in LimitKeys
  PROVE  LET w == WindowAt(clock)
             n == Cardinality(Mine(boots, w, k))
             next == Counted(windows[k], clock)
         IN  /\ n \in Nat /\ w \in Nat /\ Limit \in Nat /\ Limit > 0
             /\ next # NoSlot /\ next.start = w /\ next.count \in Nat
             /\ next.count <= Limit => n + 1 = next.count
             /\ next.count > Limit => n = Limit
  <1> DEFINE w == WindowAt(clock)
             n == Cardinality(Mine(boots, w, k))
             slot == windows[k]
             next == Counted(slot, clock)
  <1>1. /\ clock \in Nat /\ slot \in Slots \cup {NoSlot} /\ boots \in Nat
    BY ServiceAssumption DEF ServiceInv, TypeOK
  <1>2. /\ next # NoSlot /\ next.start = w /\ w \in Nat
        /\ next.count = IF slot # NoSlot /\ slot.start = w THEN slot.count + 1 ELSE 1
    <2> HIDE DEF slot
    <2>1. w \in Nat
      BY <1>1, WindowFacts
    <2>2. /\ Counted(slot, clock) # NoSlot
          /\ Counted(slot, clock).start = WindowAt(clock)
          /\ Counted(slot, clock).count =
               IF slot # NoSlot /\ slot.start = WindowAt(clock) THEN slot.count + 1 ELSE 1
      BY <1>1, CountedFacts
    <2>3. QED
      BY <2>1, <2>2
  <1>3. Limit \in Nat /\ Limit > 0
    BY FixedWindowAssumption DEF Unlimited
  <1>4. n \in Nat
    <2>1. IsFiniteSet(Mine(boots, w, k))
      BY MineFacts, ServiceAssumption, FS_Subset
    <2>2. QED
      BY <2>1, FS_CardinalityType
  <1>5. SlotCovers /\ SlotSums
    BY DEF QuotaInv
  <1> HIDE DEF next, w
  <1>6. CASE slot # NoSlot /\ slot.start = w
    <2>1. n = IF slot.count <= Limit THEN slot.count ELSE Limit
      BY <1>5, <1>6 DEF SlotSums
    <2>2. slot.count \in Nat
      BY <1>1, <1>6 DEF Slots
    <2> HIDE DEF n, slot
    <2>3. QED
      BY <1>2, <1>3, <1>4, <1>6, <2>1, <2>2 DEF n, slot, w, next
  <1>7. CASE ~ (slot # NoSlot /\ slot.start = w)
    <2>1. Mine(boots, w, k) = {}
      <3>1. SUFFICES ASSUME NEW s \in Requests, s \in Mine(boots, w, k)
                     PROVE  FALSE
        BY MineFacts
      <3>2. /\ Passed(calls[s]) /\ calls[s].boot = boots
            /\ WindowAt(calls[s].at) = w /\ LimitKey(calls[s].caller) = k
        BY <3>1, MineFacts
      <3>3. slot # NoSlot /\ w <= slot.start
        BY <1>5, <3>2 DEF SlotCovers
      <3>4. slot.start <= w
        BY <1>5, <3>3 DEF SlotSums, w
      <3>5. slot.start \in Nat
        BY <1>1, <3>3 DEF Slots
      <3>6. QED
        BY <1>2, <1>7, <3>3, <3>4, <3>5
    <2>2. n = 0
      BY <2>1, FS_EmptySet
    <2>3. QED
      BY <1>2, <1>3, <1>4, <1>7, <2>2 DEF w, next
  <1>8. QED
    BY <1>6, <1>7

(* The requests that passed, counted in the next state for its own slot. *)
LEMMA MineOfSlot ==
  ASSUME NEW j \in LimitKeys, NEW b, NEW v, b = boots', v = windows'[j].start
  PROVE  Mine(boots, windows[j].start, j)' = Mine(b, v, j)'
  BY DEF Mine, Admitted

(* A request that passes the limiter. *)
Admission(r, new, c) ==
  /\ calls[r].stage = "idle"
  /\ \A s \in Requests : calls'[s] = IF s = r THEN new ELSE calls[s]
  /\ Passed(new) /\ new.caller = c /\ new.at = clock /\ new.boot = boots
  /\ boots' = boots /\ clock' = clock

LEMMA AdmissionCounts ==
  ASSUME ServiceInv, QuotaInv, ~ Unlimited, NEW r \in Requests, NEW c \in Callers, NEW new,
         Admission(r, new, c), Admits(c)
  PROVE  QuotaInv'
  <1> DEFINE k == LimitKey(c)
             w == WindowAt(clock)
             n == Cardinality(Mine(boots, w, k))
             slot == windows[k]
             next == Counted(slot, clock)
  <1>1. /\ k \in LimitKeys /\ clock \in Nat /\ boots \in Nat
        /\ windows \in [LimitKeys -> Slots \cup {NoSlot}]
    BY CallerKey, ServiceAssumption DEF ServiceInv, TypeOK
  <1>2. /\ n \in Nat /\ w \in Nat /\ Limit \in Nat /\ Limit > 0
        /\ next # NoSlot /\ next.start = w /\ next.count \in Nat
        /\ next.count <= Limit => n + 1 = next.count
    BY <1>1, SlotNow
  <1>3. next.count <= Limit /\ windows' = [windows EXCEPT ![k] = next]
    BY DEF Admits, Allows, RateLimited
  <1>4. n + 1 = next.count
    BY <1>2, <1>3
  <1>5. WithinLimit /\ RefusedAtLimit /\ SlotCovers /\ SlotSums
    BY DEF QuotaInv
  <1>6. /\ \A b, v, j : b = boots /\ v = w /\ j = k => Mine(b, v, j)' = Mine(b, v, j) \cup {r}
        /\ \A b, v, j : ~ (b = boots /\ v = w /\ j = k) => Mine(b, v, j)' = Mine(b, v, j)
        /\ r \notin Mine(boots, w, k)
    <2>1. /\ \A s \in Requests : s # r => calls'[s] = calls[s]
          /\ calls'[r] = new /\ ~ Passed(calls[r]) /\ Passed(new)
          /\ new.boot = boots /\ WindowAt(new.at) = w /\ LimitKey(new.caller) = k
      BY DEF Admission, Passed
    <2>2. \A b, v : b = boots /\ v = w => Admitted(b, v)' = Admitted(b, v) \cup {r}
      BY <2>1 DEF Admitted, Passed
    <2>3. \A b, v : ~ (b = boots /\ v = w) => Admitted(b, v)' = Admitted(b, v)
      BY <2>1 DEF Admitted, Passed
    <2>4. \A b, v : r \notin Admitted(b, v) /\ Admitted(b, v) \subseteq Requests
      BY <2>1 DEF Admitted, Passed
    <2> HIDE DEF k, w
    <2>5. \A b, v, j : b = boots /\ v = w /\ j = k => Mine(b, v, j)' = Mine(b, v, j) \cup {r}
      BY <2>1, <2>2, <2>4 DEF Mine
    <2>6. \A b, v, j : ~ (b = boots /\ v = w /\ j = k) => Mine(b, v, j)' = Mine(b, v, j)
      BY <2>1, <2>2, <2>3, <2>4 DEF Mine
    <2>7. QED
      BY <2>4, <2>5, <2>6 DEF Mine
  <1>7. Cardinality(Mine(boots, w, k) \cup {r}) = n + 1
    BY <1>6, MineFacts, OneMore
  <1>8. ~ Unlimited'
    BY DEF Unlimited
  <1> HIDE DEF k, w, next
  <1>9. WithinLimit'
    <2>1. ASSUME NEW b \in Nat, NEW v \in Nat, NEW j \in LimitKeys
          PROVE  Cardinality(Mine(b, v, j)') <= Limit
      <3>1. CASE b = boots /\ v = w /\ j = k
        BY <1>3, <1>4, <1>6, <1>7, <3>1
      <3>2. CASE ~ (b = boots /\ v = w /\ j = k)
        BY <1>5, <1>6, <3>2 DEF WithinLimit
      <3>3. QED
        BY <3>1, <3>2
    <2>2. QED
      BY <2>1 DEF WithinLimit
  <1>10. RefusedAtLimit'
    <2>1. ASSUME NEW s \in Requests, NEW b \in Nat, NEW v \in Nat, NEW j \in LimitKeys,
                 RefusedIn(calls'[s], b, v, j)
          PROVE  Cardinality(Mine(b, v, j)') = Limit
      <3>1. s # r
        BY <2>1 DEF Admission, Passed, RefusedIn
      <3>2. RefusedIn(calls[s], b, v, j)
        BY <2>1, <3>1 DEF Admission
      <3>3. Cardinality(Mine(b, v, j)) = Limit
        BY <1>5, <3>2 DEF RefusedAtLimit
      <3>4. ~ (b = boots /\ v = w /\ j = k)
        BY <1>2, <1>3, <1>4, <3>3
      <3>5. QED
        BY <1>6, <3>3, <3>4
    <2>2. QED
      BY <2>1 DEF RefusedAtLimit, RefusedIn
  <1>11. \A j \in LimitKeys : windows'[j] = IF j = k THEN next ELSE windows[j]
    BY <1>1, <1>3
  <1>12. SlotCovers'
    <2>1. ASSUME NEW s \in Requests, Passed(calls'[s]), calls'[s].boot = boots
          PROVE  /\ windows'[LimitKey(calls'[s].caller)] # NoSlot
                 /\ WindowAt(calls'[s].at) <= windows'[LimitKey(calls'[s].caller)].start
      <3>1. CASE s = r
        <4>1. calls'[s] = new /\ LimitKey(new.caller) = k /\ WindowAt(new.at) = w
          BY <3>1 DEF Admission, k, w
        <4>2. QED
          BY <1>1, <1>2, <1>11, <4>1
      <3>2. CASE s # r
        <4>1. calls'[s] = calls[s]
          BY <3>2 DEF Admission
        <4>2. /\ LimitKey(calls[s].caller) \in LimitKeys /\ WindowAt(calls[s].at) \in Nat
          BY <2>1, <4>1, MineFacts DEF Passed
        <4>3. /\ windows[LimitKey(calls[s].caller)] # NoSlot
              /\ WindowAt(calls[s].at) <= windows[LimitKey(calls[s].caller)].start
          BY <1>5, <2>1, <4>1 DEF SlotCovers
        <4>4. windows[LimitKey(calls[s].caller)] \in Slots \cup {NoSlot}
          BY <1>1, <4>2
        <4>5. windows[LimitKey(calls[s].caller)].start \in Nat
          BY <4>3, <4>4 DEF Slots
        <4>6. windows[LimitKey(calls[s].caller)].start <= w
          BY <1>5, <4>2, <4>3 DEF SlotSums, w
        <4>7. QED
          BY <1>2, <1>11, <4>1, <4>2, <4>3, <4>5, <4>6
      <3>3. QED
        BY <3>1, <3>2
    <2>2. boots' = boots
      BY DEF Admission
    <2>3. QED
      BY <2>1, <2>2 DEF SlotCovers
  <1>13. SlotSums'
    <2>1. ASSUME NEW j \in LimitKeys, windows'[j] # NoSlot
          PROVE  /\ windows'[j].start <= w
                 /\ Cardinality(Mine(boots, windows[j].start, j)') =
                      IF windows'[j].count <= Limit THEN windows'[j].count ELSE Limit
      <3>1. CASE j = k
        <4>1. windows'[j] = next
          BY <1>11, <3>1
        <4>2. boots' = boots /\ windows'[j].start = w
          BY <1>2, <4>1 DEF Admission
        <4>3. Mine(boots, windows[j].start, j)' = Mine(boots, w, k) \cup {r}
          <5>1. PICK b, v : b = boots /\ v = w
            OBVIOUS
          <5>2. Mine(boots, windows[j].start, j)' = Mine(b, v, j)'
            BY <4>2, <5>1, MineOfSlot
          <5>3. Mine(b, v, j)' = Mine(b, v, j) \cup {r}
            BY <1>6, <3>1, <5>1
          <5>4. Mine(b, v, j) = Mine(boots, w, k)
            BY <3>1, <5>1
          <5>5. QED
            BY <5>2, <5>3, <5>4
        <4>4. Cardinality(Mine(boots, windows[j].start, j)') = next.count
          BY <1>4, <1>7, <4>2, <4>3
        <4>5. QED
          BY <1>2, <1>3, <4>1, <4>4
      <3>2. CASE j # k
        <4>1. windows'[j] = windows[j] /\ boots' = boots
          BY <1>11, <3>2 DEF Admission
        <4>2. Mine(boots, windows[j].start, j)' = Mine(boots, windows[j].start, j)
          <5>1. PICK b, v : b = boots /\ v = windows[j].start
            OBVIOUS
          <5>2. Mine(boots, windows[j].start, j)' = Mine(b, v, j)'
            BY <4>1, <5>1, MineOfSlot
          <5>3. Mine(b, v, j)' = Mine(b, v, j)
            BY <1>6, <3>2
          <5>4. Mine(b, v, j) = Mine(boots, windows[j].start, j)
            BY <5>1
          <5>5. QED
            BY <5>2, <5>3, <5>4
        <4>3. /\ windows[j].start <= w
              /\ Cardinality(Mine(boots, windows[j].start, j)) =
                   IF windows[j].count <= Limit THEN windows[j].count ELSE Limit
          BY <1>5, <2>1, <4>1 DEF SlotSums, w
        <4>4. QED
          BY <4>1, <4>2, <4>3
      <3>3. QED
        BY <3>1, <3>2
    <2>2. WindowAt(clock') = w
      BY DEF Admission, w
    <2>3. QED
      BY <2>1, <2>2 DEF SlotSums
  <1>14. QED
    BY <1>9, <1>10, <1>12, <1>13 DEF QuotaInv

(* A request that the limiter turns away. *)
Rejection(r, new, c) ==
  /\ calls[r].stage = "idle"
  /\ \A s \in Requests : calls'[s] = IF s = r THEN new ELSE calls[s]
  /\ new.status = 429 /\ new.caller = c /\ new.at = clock /\ new.boot = boots
  /\ boots' = boots /\ clock' = clock

LEMMA RejectionCounts ==
  ASSUME ServiceInv, QuotaInv, ~ Unlimited, NEW r \in Requests, NEW c \in Callers, NEW new,
         Rejection(r, new, c), ~ Allows(windows[LimitKey(c)], clock), RateLimited(c)
  PROVE  QuotaInv'
  <1> DEFINE k == LimitKey(c)
             w == WindowAt(clock)
             n == Cardinality(Mine(boots, w, k))
             slot == windows[k]
             next == Counted(slot, clock)
  <1>1. /\ k \in LimitKeys /\ clock \in Nat /\ boots \in Nat
        /\ windows \in [LimitKeys -> Slots \cup {NoSlot}]
    BY CallerKey, ServiceAssumption DEF ServiceInv, TypeOK
  <1>2. /\ w \in Nat /\ Limit \in Nat
        /\ next # NoSlot /\ next.start = w /\ next.count \in Nat
        /\ next.count > Limit => n = Limit
    BY <1>1, SlotNow
  <1>3. ~ (next.count <= Limit) /\ windows' = [windows EXCEPT ![k] = next]
    BY DEF Allows, RateLimited
  <1>4. next.count > Limit /\ n = Limit
    BY <1>2, <1>3
  <1>5. WithinLimit /\ RefusedAtLimit /\ SlotCovers /\ SlotSums
    BY DEF QuotaInv
  <1>6. /\ \A s \in Requests : s # r => calls'[s] = calls[s]
        /\ calls'[r] = new /\ ~ Passed(calls[r]) /\ ~ Passed(new)
        /\ new.boot = boots /\ WindowAt(new.at) = w /\ LimitKey(new.caller) = k
        /\ boots' = boots /\ WindowAt(clock') = w
    BY DEF Rejection, Passed
  <1>7. \A b, v, j : Mine(b, v, j)' = Mine(b, v, j)
    BY <1>6, MineKept DEF SameAdmission
  <1>8. \A j \in LimitKeys : windows'[j] = IF j = k THEN next ELSE windows[j]
    BY <1>1, <1>3
  <1> HIDE DEF k, w, next
  <1>9. WithinLimit'
    BY <1>5, <1>7 DEF WithinLimit
  <1>10. RefusedAtLimit'
    <2>1. ASSUME NEW s \in Requests, NEW b \in Nat, NEW v \in Nat, NEW j \in LimitKeys,
                 RefusedIn(calls'[s], b, v, j)
          PROVE  Cardinality(Mine(b, v, j)') = Limit
      <3>1. CASE s = r
        <4>1. b = boots /\ v = w /\ j = k
          BY <1>6, <2>1, <3>1 DEF RefusedIn
        <4>2. QED
          BY <1>4, <1>7, <4>1
      <3>2. CASE s # r
        <4>1. Cardinality(Mine(b, v, j)) = Limit
          BY <1>5, <1>6, <2>1, <3>2 DEF RefusedAtLimit
        <4>2. QED
          BY <1>7, <4>1
      <3>3. QED
        BY <3>1, <3>2
    <2>2. QED
      BY <2>1 DEF RefusedAtLimit, RefusedIn
  <1>11. SlotCovers'
    <2>1. ASSUME NEW s \in Requests, Passed(calls'[s]), calls'[s].boot = boots
          PROVE  /\ windows'[LimitKey(calls'[s].caller)] # NoSlot
                 /\ WindowAt(calls'[s].at) <= windows'[LimitKey(calls'[s].caller)].start
      <3>1. calls'[s] = calls[s]
        BY <1>6, <2>1
      <3>2. LimitKey(calls[s].caller) \in LimitKeys /\ WindowAt(calls[s].at) \in Nat
        BY <2>1, <3>1, MineFacts DEF Passed
      <3>3. /\ windows[LimitKey(calls[s].caller)] # NoSlot
            /\ WindowAt(calls[s].at) <= windows[LimitKey(calls[s].caller)].start
        BY <1>5, <2>1, <3>1 DEF SlotCovers
      <3>4. windows[LimitKey(calls[s].caller)] \in Slots \cup {NoSlot}
        BY <1>1, <3>2
      <3>5. windows[LimitKey(calls[s].caller)].start \in Nat
        BY <3>3, <3>4 DEF Slots
      <3>6. windows[LimitKey(calls[s].caller)].start <= w
        BY <1>5, <3>2, <3>3 DEF SlotSums, w
      <3>7. QED
        BY <1>2, <1>8, <3>1, <3>2, <3>3, <3>5, <3>6
    <2>2. QED
      BY <1>6, <2>1 DEF SlotCovers
  <1>12. SlotSums'
    <2>1. ASSUME NEW j \in LimitKeys, windows'[j] # NoSlot
          PROVE  /\ windows'[j].start <= w
                 /\ Cardinality(Mine(boots, windows[j].start, j)') =
                      IF windows'[j].count <= Limit THEN windows'[j].count ELSE Limit
      <3>1. PICK b, v : b = boots /\ v = windows'[j].start
        OBVIOUS
      <3>2. Mine(boots, windows[j].start, j)' = Mine(b, v, j)
        BY <1>6, <1>7, <3>1, MineOfSlot
      <3>3. CASE j = k
        <4>1. windows'[j] = next /\ b = boots /\ v = w
          BY <1>2, <1>8, <3>1, <3>3
        <4>2. Cardinality(Mine(b, v, j)) = Limit
          BY <1>4, <3>3, <4>1
        <4>3. ~ (windows'[j].count <= Limit)
          BY <1>3, <4>1 DEF next
        <4>4. QED
          BY <1>2, <3>2, <4>1, <4>2, <4>3
      <3>4. CASE j # k
        <4>1. windows'[j] = windows[j]
          BY <1>8, <3>4
        <4>2. /\ windows[j].start <= w
              /\ Cardinality(Mine(boots, windows[j].start, j)) =
                   IF windows[j].count <= Limit THEN windows[j].count ELSE Limit
          BY <1>5, <2>1, <4>1 DEF SlotSums, w
        <4>3. Mine(b, v, j) = Mine(boots, windows[j].start, j)
          BY <3>1, <4>1
        <4>4. QED
          BY <3>2, <4>1, <4>2, <4>3
      <3>5. QED
        BY <3>3, <3>4
    <2>2. QED
      BY <1>6, <2>1 DEF SlotSums
  <1>13. QED
    BY <1>9, <1>10, <1>11, <1>12 DEF QuotaInv

LEMMA CrashQuota ==
  ASSUME ServiceInv, Stamped, QuotaInv, Crash
  PROVE  QuotaInv'
  <1> SUFFICES ASSUME ~ Unlimited
               PROVE  WithinLimit' /\ RefusedAtLimit' /\ SlotCovers' /\ SlotSums'
    BY DEF QuotaInv, Unlimited
  <1>1. /\ calls \in [Requests -> Call] /\ \A r \in Requests : Consistent(calls[r])
        /\ boots \in Nat /\ boots' = boots + 1
        /\ windows' = [k \in LimitKeys |-> NoSlot]
    BY ServiceAssumption DEF ServiceInv, TypeOK, Crash
  <1>2. ASSUME NEW r \in Requests
        PROVE  /\ SameAdmission(calls[r], calls'[r])
               /\ SameRefusal(calls[r], calls'[r])
               /\ calls'[r].boot = calls[r].boot
    <2>1. CASE r \in InFlight
      <3>1. /\ calls'[r].stage = "settled" /\ calls'[r].status = 0
            /\ calls'[r].caller = calls[r].caller
            /\ calls'[r].boot = calls[r].boot /\ calls'[r].at = calls[r].at
            /\ calls[r].status = 0 /\ calls[r].stage # "idle"
        BY <2>1, CrashFacts DEF InFlight
      <3>2. QED
        BY <3>1 DEF SameAdmission, SameRefusal, Passed
    <2>2. CASE r \notin InFlight
      BY <2>2, CrashFacts DEF SameAdmission, SameRefusal
    <2>3. QED
      BY <2>1, <2>2
  <1>3. WithinLimit' /\ RefusedAtLimit'
    BY <1>2, LimitsKept DEF QuotaInv
  <1>4. SlotCovers'
    <2>1. \A r \in Requests : calls'[r].boot # boots'
      <3>1. TAKE r \in Requests
      <3>2. calls[r].boot \in Nat /\ calls[r].boot <= boots
        BY <1>1 DEF Call, Stamped
      <3>3. QED
        BY <1>1, <1>2, <3>2
    <2>2. QED
      BY <2>1 DEF SlotCovers
  <1>5. SlotSums'
    BY <1>1 DEF SlotSums
  <1>6. QED
    BY <1>3, <1>4, <1>5

LEMMA QuotaInit == Init => QuotaInv
  <1> SUFFICES ASSUME Init, ~ Unlimited
               PROVE  WithinLimit /\ RefusedAtLimit /\ SlotCovers /\ SlotSums
    BY DEF QuotaInv
  <1>1. /\ \A r \in Requests : calls[r] = NotMade
        /\ windows = [k \in LimitKeys |-> NoSlot]
    BY DEF Init
  <1>2. \A r \in Requests : calls[r].stage = "idle" /\ calls[r].status = 0
    BY <1>1 DEF NotMade
  <1>3. \A b, w, k : Mine(b, w, k) = {}
    BY <1>2 DEF Mine, Admitted
  <1>4. Cardinality({}) = 0 /\ Limit \in Nat
    BY FS_EmptySet, FixedWindowAssumption DEF Unlimited
  <1>5. WithinLimit
    BY <1>3, <1>4 DEF WithinLimit
  <1>6. RefusedAtLimit
    BY <1>2 DEF RefusedAtLimit, RefusedIn
  <1>7. SlotCovers
    BY <1>2 DEF SlotCovers, Passed
  <1>8. SlotSums
    BY <1>1 DEF SlotSums
  <1>9. QED
    BY <1>5, <1>6, <1>7, <1>8

LEMMA QuotaNext ==
  ASSUME LedgerInv, QuotaInv, [Next]_vars
  PROVE  QuotaInv'
  <1> SUFFICES ASSUME ~ Unlimited
               PROVE  QuotaInv'
    BY DEF QuotaInv, Unlimited
  <1>0. /\ ServiceInv /\ Stamped /\ CountersTrue
        /\ calls \in [Requests -> Call] /\ \A r \in Requests : Consistent(calls[r])
        /\ clock \in Nat
    BY ServiceAssumption DEF LedgerInv, ServiceInv, TypeOK
  <1>1. ASSUME NEW r \in Requests, NEW c \in Callers, NEW new, calls[r].stage = "idle",
               Ends(r, new), new.caller = c, new.at = clock, new.status # 429,
               Admits(c)
        PROVE  QuotaInv'
    <2>1. Admission(r, new, c)
      BY <1>0, <1>1 DEF Ends, Admission, Passed, Admits
    <2>2. QED
      BY <1>0, <1>1, <2>1, AdmissionCounts
  <1>2. ASSUME NEW r \in Requests, NEW c \in Callers, NEW p \in Payloads, Refusal(r, c, p)
        PROVE  QuotaInv'
    <2>1. PICK new \in Call :
            /\ Ends(r, new) /\ Booked(new)
            /\ new.caller = c /\ new.at = clock /\ calls[r].stage = "idle"
            /\ new.status = 429 <=> TooManyRequests(r, c, p)
      BY <1>0, <1>2, RefusalEnds
    <2>2. /\ \A s \in Requests : calls'[s] = IF s = r THEN new ELSE calls[s]
          /\ new.boot = boots /\ boots' = boots /\ clock' = clock
      BY <1>0, <2>1 DEF Ends
    <2>3. CASE Unauthorized(r, c, p)
      <3>1. windows' = windows /\ ~ Authentic(c) /\ new.status # 429
        BY <2>1, <2>3 DEF Unauthorized, TooManyRequests
      <3>2. calls[r].status = 0
        BY <1>0, <2>1 DEF Consistent
      <3>3. \A s \in Requests : /\ SameAdmission(calls[s], calls'[s])
                                /\ SameRefusal(calls[s], calls'[s])
        BY <2>1, <2>2, <3>1, <3>2 DEF SameAdmission, SameRefusal, Passed
      <3>4. QED
        BY <1>0, <2>2, <3>1, <3>3, QuotaKept
    <2>4. CASE TooManyRequests(r, c, p)
      <3>1. ~ Allows(windows[LimitKey(c)], clock) /\ RateLimited(c)
        BY <2>4 DEF TooManyRequests
      <3>2. Rejection(r, new, c)
        BY <2>1, <2>2, <2>4 DEF Rejection
      <3>3. QED
        BY <1>0, <3>1, <3>2, RejectionCounts
    <2>5. CASE TooManyMessages(r, c, p) \/ NoCacheKey(r, c, p)
      <3>1. Admits(c)
        BY <2>5 DEF TooManyMessages, NoCacheKey
      <3>2. ~ TooManyRequests(r, c, p)
        BY <3>1 DEF TooManyRequests, Admits
      <3>3. QED
        BY <1>1, <2>1, <3>1, <3>2
    <2>6. QED
      BY <1>2, <2>3, <2>4, <2>5 DEF Refusal
  <1>3. ASSUME NEW r \in Requests, Arrival(r)
        PROVE  QuotaInv'
    <2>1. PICK c \in Callers, p \in Payloads :
            Refusal(r, c, p) \/ CacheHit(r, c, p) \/ CacheMiss(r, c, p)
      BY <1>3 DEF Arrival, Refusal
    <2>2. CASE CacheHit(r, c, p)
      <3>1. PICK new \in Call :
              /\ Ends(r, new) /\ Booked(new)
              /\ new.caller = c /\ new.at = clock /\ calls[r].stage = "idle"
              /\ new.status \in {0, 500}
        BY <1>0, <2>2, CacheHitEnds
      <3>2. Admits(c)
        BY <2>2 DEF CacheHit
      <3>3. QED
        BY <1>1, <3>1, <3>2
    <2>3. CASE CacheMiss(r, c, p)
      <3>1. PICK new \in Call : Starts(r, new, c)
        BY <1>0, <2>3, MissStarts
      <3>2. Admission(r, new, c)
        BY <2>3, <3>1 DEF Starts, Admission, Passed, CacheMiss, Admits
      <3>3. Admits(c)
        BY <2>3 DEF CacheMiss
      <3>4. QED
        BY <1>0, <3>2, <3>3, AdmissionCounts
    <2>4. QED
      BY <1>2, <2>1, <2>2, <2>3
  <1>4. ASSUME NEW r \in Requests, Resume(r) \/ ResumeFailed(r)
        PROVE  QuotaInv'
    <2>1. PICK new \in Call :
            /\ Ends(r, new) /\ Booked(new)
            /\ new.caller = calls[r].caller /\ new.at = calls[r].at
            /\ calls[r].stage \notin {"idle", "settled"}
            /\ new.status \in {0, 500}
      BY <1>0, <1>4, ResumptionEnds
    <2>2. /\ \A s \in Requests : calls'[s] = IF s = r THEN new ELSE calls[s]
          /\ new.stage # "idle" /\ new.boot = boots /\ boots' = boots /\ clock' = clock
      BY <1>0, <2>1 DEF Ends
    <2>3. calls[r].status = 0 /\ calls[r].boot = boots
      BY <1>0, <2>1 DEF Consistent, Stamped
    <2>4. \A s \in Requests : /\ SameAdmission(calls[s], calls'[s])
                              /\ SameRefusal(calls[s], calls'[s])
      BY <2>1, <2>2, <2>3 DEF SameAdmission, SameRefusal, Passed
    <2>5. windows' = windows
      BY <1>4 DEF Resume, ResumeFailed
    <2>6. QED
      BY <1>0, <2>2, <2>4, <2>5, QuotaKept
  <1>5. CASE \/ StartWork \/ Advance \/ UNCHANGED vars
             \/ \E r \in Requests : Work(r) \/ Respond(r)
    <2>1. Quiet
      BY <1>0, <1>5, QuietSteps, RespondQuiet
    <2>2. clock <= clock' /\ clock' \in Nat
      <3>1. clock' \in Nat
        <4>1. ServiceInv'
          BY <1>0, NextPreserves
        <4>2. QED
          BY <4>1, ServiceAssumption DEF ServiceInv, TypeOK
      <3>2. clock' = clock \/ clock' > clock
        BY <1>5 DEF StartWork, Advance, vars, Work, Compute, WorkerFails, Respond
      <3>3. QED
        BY <1>0, <3>1, <3>2
    <2>3. \A s \in Requests : /\ SameAdmission(calls[s], calls'[s])
                              /\ SameRefusal(calls[s], calls'[s])
      BY <2>1 DEF Quiet, SameEntry, SameAdmission, SameRefusal, Passed
    <2>4. windows' = windows /\ boots' = boots
      BY <2>1 DEF Quiet
    <2>5. QED
      BY <1>0, <2>2, <2>3, <2>4, QuotaKept
  <1>6. CASE Crash
    BY <1>0, <1>6, CrashQuota
  <1>7. QED
    BY <1>3, <1>4, <1>5, <1>6 DEF Next, Resumption

(* The slots and the requests agree, for any number of callers, requests,  *)
(* windows and crashes.                                                    *)
THEOREM ServiceQuotas == Spec => [](LedgerInv /\ QuotaInv)
  <1>1. LedgerInv /\ QuotaInv /\ [Next]_vars => QuotaInv'
    BY QuotaNext
  <1>2. LedgerInv /\ [Next]_vars => LedgerInv'
    BY LedgerNext
  <1>3. QED
    BY <1>1, <1>2, LedgerInit, QuotaInit, PTL DEF Spec

(* No caller gets past the limiter more than Limit times a minute and      *)
(* process, none is turned away before, and rate_limited_total counts the  *)
(* turned away.                                                            *)
THEOREM ServiceQuotaExact == Spec => []QuotaExact
  <1>1. ASSUME LedgerInv, QuotaInv
        PROVE  QuotaExact
    <2>1. ServiceInv /\ Counted429
      BY <1>1 DEF LedgerInv
    <2>2. ASSUME ~ Unlimited, NEW r \in Requests, calls[r].stage # "idle"
          PROVE  LET mine == {s \in Admitted(calls[r].boot, WindowAt(calls[r].at)) :
                                LimitKey(calls[s].caller) = LimitKey(calls[r].caller)}
                 IN  /\ Cardinality(mine) <= Limit
                     /\ calls[r].status = 429 => Cardinality(mine) = Limit
      <3> DEFINE b == calls[r].boot
                 w == WindowAt(calls[r].at)
                 k == LimitKey(calls[r].caller)
      <3>1. b \in Nat /\ w \in Nat /\ k \in LimitKeys
        BY <2>1, <2>2, MineFacts
      <3>2. Cardinality(Mine(b, w, k)) <= Limit
        BY <1>1, <2>2, <3>1 DEF QuotaInv, WithinLimit
      <3>3. calls[r].status = 429 => Cardinality(Mine(b, w, k)) = Limit
        BY <1>1, <2>2, <3>1 DEF QuotaInv, RefusedAtLimit, RefusedIn
      <3>4. QED
        BY <3>2, <3>3 DEF Mine
    <2>3. QED
      BY <2>1, <2>2 DEF QuotaExact, Counted429, TurnedAway
  <1>2. QED
    BY <1>1, ServiceQuotas, PTL
=============================================================================
