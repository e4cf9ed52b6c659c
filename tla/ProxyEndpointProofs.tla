------------------------- MODULE ProxyEndpointProofs -------------------------
(***************************************************************************)
(* What proxy mode may cost, for any number of requests, callers, crashes  *)
(* and any limit: upstream acts at most once on a request, a caller makes  *)
(* it act at most Limit times by what was admitted within a window, and    *)
(* the counters tell how often.                                            *)
(*                                                                         *)
(* The argument: a request is handed to upstream once, by a handler that   *)
(* was admitted and is still at it (HandlersSound); what becomes of it     *)
(* later, however late, does not change who was admitted.  The slot of a   *)
(* caller counts at least the requests it admitted (QuotaSound).           *)
(***************************************************************************)
EXTENDS ProxyEndpoint, OperatorTheorems

Refused(outcome) == outcome # Nothing /\ outcome.status = "429"

HandlerSound(r) ==
  /\ stage[r] # "answered" => answer[r] = Nothing
  /\ stage[r] = "idle" => asked[r] = Nothing
  /\ stage[r] \in {"idle", "reading", "working"} => upstream[r] = "unaware"
  /\ stage[r] \in {"reading", "working", "forwarding"} => asked[r] # Nothing /\ asked[r].epoch = epoch
  /\ upstream[r] # "unaware" => asked[r] # Nothing /\ ~ Refused(answer[r])
  /\ upstream[r] = "replied" => reply[r] \in Replies
  /\ charged[r] = IF upstream[r] \in {"unaware", "sent"} THEN 0 ELSE 1
  /\ asked[r] # Nothing => asked[r].epoch <= epoch /\ asked[r].window <= WindowAt(clock)

HandlersSound == \A r \in Requests : HandlerSound(r)

(* The two sets CountersTrue counts. *)
Here(r) == asked[r] # Nothing /\ asked[r].epoch = epoch
TurnedAway == {r \in Requests : Here(r) /\ Refused(answer[r])}
HandedOver == {r \in Requests : Here(r) /\ upstream[r] # "unaware"}

CountsExact ==
  /\ counters.limited = Cardinality(TurnedAway)
  /\ counters.proxied = Cardinality(HandedOver)

(* The requests of caller k that process e admitted in window w. *)
Passed(k, w, e) ==
  {r \in Requests : /\ CallerOf[r] = k
                    /\ asked[r] = [window |-> w, epoch |-> e]
                    /\ ~ Refused(answer[r])}

PassedWithinLimit ==
  \A k \in Callers, w \in Nat, e \in Nat : Cardinality(Passed(k, w, e)) <= Limit

(* The slot of a caller is of the last window this process admitted it in, *)
(* and has counted at least what was admitted in that one.                 *)
SlotCovers ==
  \A k \in Callers, w \in Nat, e \in Nat :
    (e = epoch /\ Passed(k, w, e) # {}) => windows[k] # NoSlot /\ w <= windows[k].start

SlotCounts ==
  \A k \in Callers : windows[k] # NoSlot =>
    /\ windows[k].start <= WindowAt(clock)
    /\ \A w \in Nat, e \in Nat :
         (w = windows[k].start /\ e = epoch)
           => Cardinality(Passed(k, w, e)) <= windows[k].count

QuotaSound == ~ Unlimited => PassedWithinLimit /\ SlotCovers /\ SlotCounts

ProxyInv == TypeOK /\ HandlersSound /\ CountsExact /\ QuotaSound

-----------------------------------------------------------------------------
LEMMA OneMore ==
  ASSUME NEW S \in SUBSET Requests, NEW r \in Requests
  PROVE  /\ Cardinality(S) \in Nat
         /\ r \notin S => Cardinality(S \cup {r}) = Cardinality(S) + 1
  <1>1. IsFiniteSet(S)
    BY ProxyAssumption, FS_Subset
  <1>2. QED
    BY <1>1, FS_CardinalityType, FS_AddElement

LEMMA ClockIsNat ==
  ASSUME TypeOK
  PROVE  clock \in Nat /\ WindowAt(clock) \in Nat /\ epoch \in Nat
  BY ProxyAssumption DEF TypeOK, WindowAt

LEMMA CallerType ==
  ASSUME NEW r \in Requests
  PROVE  CallerOf[r] \in Callers
  BY DEF Callers

LEMMA StampType ==
  ASSUME NEW w \in Nat, NEW e \in Nat
  PROVE  /\ [window |-> w, epoch |-> e] \in [window : Nat, epoch : Nat]
         /\ [window |-> w, epoch |-> e] # Nothing
         /\ [window |-> w, epoch |-> e].window = w
         /\ [window |-> w, epoch |-> e].epoch = e
  <1>1. [window |-> w, epoch |-> e] \in [window : Nat, epoch : Nat]
    OBVIOUS
  <1>2. QED
    BY <1>1, ProxyAssumption

Statuses == {"401", "422", "429", "500", "502", "broken", "success", "error"}

LEMMA OutcomeType ==
  ASSUME NEW status \in Statuses, NEW body \in {"own", "json"}
  PROVE  /\ [status |-> status, body |-> body] \in Outcomes
         /\ Refused([status |-> status, body |-> body]) <=> status = "429"
  <1>1. [status |-> status, body |-> body] \in Outcomes
    BY DEF Outcomes, Statuses
  <1>2. [status |-> status, body |-> body] # Nothing
    BY <1>1, ProxyAssumption
  <1>3. QED
    BY <1>1, <1>2 DEF Refused

LEMMA NothingNotRefused == ~ Refused(Nothing)
  BY DEF Refused

LEMMA InitEstablishes == Init => ProxyInv
  <1> SUFFICES ASSUME Init
               PROVE  ProxyInv
    OBVIOUS
  <1> USE DEF Init
  <1>1. TypeOK
    <2>1. epoch \in 0..MaxCrashes
      BY ProxyAssumption
    <2>2. counters \in [proxied : Nat, limited : Nat]
      BY DEF NoCounts
    <2>3. QED
      BY <2>1, <2>2, ProxyAssumption DEF TypeOK
  <1>2. HandlersSound
    BY DEF HandlersSound, HandlerSound
  <1>3. CountsExact
    <2>1. TurnedAway = {} /\ HandedOver = {}
      BY DEF TurnedAway, HandedOver, Here
    <2>2. QED
      BY <2>1, FS_EmptySet DEF CountsExact, NoCounts
  <1>4. QuotaSound
    <2>1. ASSUME NEW k \in Callers, NEW w \in Nat, NEW e \in Nat
          PROVE  Passed(k, w, e) = {}
      BY StampType DEF Passed
    <2>2. ~ Unlimited => PassedWithinLimit
      BY <2>1, FS_EmptySet, FixedWindowAssumption DEF PassedWithinLimit, Unlimited
    <2>3. SlotCovers
      BY <2>1 DEF SlotCovers
    <2>4. SlotCounts
      BY DEF SlotCounts
    <2>5. QED
      BY <2>2, <2>3, <2>4 DEF QuotaSound
  <1>5. QED
    BY <1>1, <1>2, <1>3, <1>4 DEF ProxyInv

(* A step that neither admits nor refuses anybody keeps the quotas.        *)
LEMMA QuotaKept ==
  ASSUME ProxyInv,
         windows' = windows, asked' = asked, epoch' = epoch,
         clock' \in Instants, clock <= clock',
         \A r \in Requests : Refused(answer'[r]) <=> Refused(answer[r])
  PROVE  QuotaSound'
  <1>1. clock \in Nat /\ clock' \in Nat
    BY ProxyAssumption DEF ProxyInv, TypeOK
  <1>2. WindowAt(clock) <= WindowAt(clock') /\ WindowAt(clock) \in Nat /\ WindowAt(clock') \in Nat
    BY <1>1, WindowFacts
  <1>3. ASSUME NEW k \in Callers, NEW w, NEW e
        PROVE  Passed(k, w, e)' = Passed(k, w, e)
    BY DEF Passed
  <1>4. ASSUME ~ Unlimited
        PROVE  PassedWithinLimit'
    BY <1>3, <1>4 DEF PassedWithinLimit, ProxyInv, QuotaSound
  <1>5. ASSUME ~ Unlimited
        PROVE  SlotCovers'
    BY <1>3, <1>5 DEF SlotCovers, ProxyInv, QuotaSound
  <1>6. ASSUME ~ Unlimited
        PROVE  SlotCounts'
    <2> SUFFICES ASSUME NEW k \in Callers, windows[k] # NoSlot
                 PROVE  /\ windows[k].start <= WindowAt(clock')
                        /\ \A w \in Nat, e \in Nat :
                             (w = windows[k].start /\ e = epoch)
                               => Cardinality(Passed(k, w, e)') <= windows[k].count
      BY DEF SlotCounts
    <2>1. windows[k] \in Slots
      BY DEF ProxyInv, TypeOK
    <2>2. windows[k].start \in Nat
      BY <2>1 DEF Slots
    <2>3. /\ windows[k].start <= WindowAt(clock)
          /\ \A w \in Nat, e \in Nat :
               (w = windows[k].start /\ e = epoch)
                 => Cardinality(Passed(k, w, e)) <= windows[k].count
      BY <1>6 DEF ProxyInv, QuotaSound, SlotCounts
    <2>4. QED
      BY <1>2, <1>3, <2>2, <2>3
  <1>7. QED
    BY <1>4, <1>5, <1>6 DEF QuotaSound, Unlimited

-----------------------------------------------------------------------------
(* A handler ends without meeting the limiter in this step, and not with a *)
(* refusal: who was admitted and handed over stays as it was.              *)
LEMMA AnswerPreserves ==
  ASSUME ProxyInv, NEW r \in Requests,
         NEW status \in Statuses \ {"429"}, NEW body \in {"own", "json"},
         stage[r] # "answered", Answers(r, status, body),
         UNCHANGED <<clock, windows, other, counters, asked, epoch>>
  PROVE  ProxyInv'
  <1> DEFINE outcome == [status |-> status, body |-> body]
  <1>1. /\ TypeOK /\ HandlersSound /\ CountsExact
        /\ clock' = clock /\ windows' = windows /\ counters' = counters /\ asked' = asked
        /\ epoch' = epoch /\ upstream' = upstream /\ reply' = reply /\ charged' = charged
    BY DEF ProxyInv, other
  <1>2. outcome \in Outcomes /\ ~ Refused(outcome)
    BY OutcomeType
  <1> HIDE DEF outcome
  <1>3. /\ stage' = [stage EXCEPT ![r] = "answered"]
        /\ answer' = [answer EXCEPT ![r] = outcome]
    BY DEF Answers, outcome
  <1>4. TypeOK'
    BY <1>1, <1>2, <1>3 DEF TypeOK
  <1>5. /\ stage'[r] = "answered" /\ answer'[r] = outcome
        /\ \A s \in Requests : s # r => stage'[s] = stage[s] /\ answer'[s] = answer[s]
    BY <1>1, <1>3 DEF TypeOK
  <1>6. ~ Refused(answer[r])
    BY <1>1, NothingNotRefused DEF HandlersSound, HandlerSound
  <1>7. \A s \in Requests : Refused(answer'[s]) <=> Refused(answer[s])
    BY <1>2, <1>5, <1>6
  <1>8. HandlersSound'
    BY <1>1, <1>2, <1>5 DEF HandlersSound, HandlerSound
  <1>9. TurnedAway' = TurnedAway /\ HandedOver' = HandedOver
    BY <1>1, <1>7 DEF TurnedAway, HandedOver, Here
  <1>10. CountsExact'
    BY <1>1, <1>9 DEF CountsExact
  <1>11. clock' \in Instants /\ clock <= clock'
    BY <1>1, ClockIsNat DEF TypeOK
  <1>12. QuotaSound'
    BY <1>1, <1>7, <1>11, QuotaKept
  <1>13. QED
    BY <1>4, <1>8, <1>10, <1>12 DEF ProxyInv

(* One more request is handed over, and counted.                           *)
LEMMA ForwardPreserves ==
  ASSUME ProxyInv, NEW r \in Requests, Forward(r)
  PROVE  ProxyInv'
  <1>1. /\ TypeOK /\ HandlersSound /\ CountsExact
        /\ clock' = clock /\ windows' = windows /\ answer' = answer /\ asked' = asked
        /\ epoch' = epoch /\ reply' = reply /\ charged' = charged
        /\ stage[r] = "working"
        /\ stage' = [stage EXCEPT ![r] = "forwarding"]
        /\ upstream' = [upstream EXCEPT ![r] = "sent"]
        /\ counters' = [counters EXCEPT !.proxied = @ + 1]
    BY DEF ProxyInv, Forward
  <1>2. counters'.limited = counters.limited /\ counters'.proxied = counters.proxied + 1
        /\ counters' \in [proxied : Nat, limited : Nat]
    BY <1>1 DEF TypeOK
  <1>3. TypeOK'
    BY <1>1, <1>2 DEF TypeOK
  <1>4. /\ stage'[r] = "forwarding" /\ upstream'[r] = "sent"
        /\ \A s \in Requests : s # r => stage'[s] = stage[s] /\ upstream'[s] = upstream[s]
    BY <1>1 DEF TypeOK
  <1>5. /\ HandlerSound(r) /\ upstream[r] = "unaware" /\ answer[r] = Nothing
        /\ asked[r] # Nothing /\ asked[r].epoch = epoch
    BY <1>1 DEF HandlersSound, HandlerSound
  <1>6. HandlersSound'
    BY <1>1, <1>4, <1>5, NothingNotRefused DEF HandlersSound, HandlerSound
  <1>7. TurnedAway' = TurnedAway
    BY <1>1 DEF TurnedAway, Here
  <1>8. HandedOver' = HandedOver \cup {r} /\ r \notin HandedOver
    BY <1>1, <1>4, <1>5 DEF HandedOver, Here
  <1>9. Cardinality(HandedOver') = Cardinality(HandedOver) + 1
    BY <1>8, OneMore DEF HandedOver
  <1>10. CountsExact'
    BY <1>1, <1>2, <1>7, <1>9 DEF CountsExact
  <1>11. clock' \in Instants /\ clock <= clock'
    BY <1>1, ClockIsNat DEF TypeOK
  <1>12. QuotaSound'
    BY <1>1, <1>11, QuotaKept
  <1>13. QED
    BY <1>3, <1>6, <1>10, <1>12 DEF ProxyInv

(* Upstream acts once on what it was sent, and answers.                    *)
LEMMA UpstreamPreserves ==
  ASSUME ProxyInv, NEW r \in Requests, Upstream(r)
  PROVE  ProxyInv'
  <1>1. /\ TypeOK /\ HandlersSound /\ CountsExact
        /\ clock' = clock /\ windows' = windows /\ stage' = stage /\ answer' = answer
        /\ asked' = asked /\ epoch' = epoch /\ counters' = counters
    BY DEF ProxyInv, Upstream, Act, Start, Stall, Reply, handlers
  <1>2. TypeOK'
    BY <1>1 DEF TypeOK, Upstream, Act, Start, Stall, Reply
  <1>3. /\ upstream[r] # "unaware" /\ upstream'[r] # "unaware"
        /\ \A s \in Requests : s # r =>
             upstream'[s] = upstream[s] /\ reply'[s] = reply[s] /\ charged'[s] = charged[s]
    BY <1>1 DEF TypeOK, Upstream, Act, Start, Stall, Reply
  <1>4. /\ upstream'[r] = "replied" => reply'[r] \in Replies
        /\ charged'[r] = IF upstream'[r] \in {"unaware", "sent"} THEN 0 ELSE 1
    BY <1>1 DEF TypeOK, Upstream, Act, Start, Stall, Reply, HandlersSound, HandlerSound
  <1>5. HandlersSound'
    BY <1>1, <1>3, <1>4 DEF HandlersSound, HandlerSound
  <1>6. TurnedAway' = TurnedAway /\ HandedOver' = HandedOver
    BY <1>1, <1>3 DEF TurnedAway, HandedOver, Here
  <1>7. CountsExact'
    BY <1>1, <1>6 DEF CountsExact
  <1>8. clock' \in Instants /\ clock <= clock'
    BY <1>1, ClockIsNat DEF TypeOK
  <1>9. QuotaSound'
    BY <1>1, <1>8, QuotaKept
  <1>10. QED
    BY <1>2, <1>5, <1>7, <1>9 DEF ProxyInv

LEMMA AdvancePreserves ==
  ASSUME ProxyInv, Advance
  PROVE  ProxyInv'
  <1>1. /\ TypeOK /\ HandlersSound /\ CountsExact
        /\ windows' = windows /\ stage' = stage /\ answer' = answer
        /\ upstream' = upstream /\ reply' = reply /\ charged' = charged
        /\ asked' = asked /\ epoch' = epoch /\ counters' = counters
        /\ clock' \in Instants /\ clock' > clock
    BY DEF ProxyInv, Advance, handlers, other
  <1>2. clock \in Nat /\ clock' \in Nat
    BY <1>1, ProxyAssumption DEF TypeOK
  <1>3. WindowAt(clock) <= WindowAt(clock') /\ WindowAt(clock) \in Nat /\ WindowAt(clock') \in Nat
    BY <1>1, <1>2, WindowFacts
  <1>4. TypeOK'
    BY <1>1 DEF TypeOK
  <1>5. HandlersSound'
    <2> SUFFICES ASSUME NEW s \in Requests PROVE HandlerSound(s)'
      BY DEF HandlersSound
    <2>1. asked[s] # Nothing => asked[s].window \in Nat
      BY <1>1 DEF TypeOK
    <2>2. HandlerSound(s)
      BY <1>1 DEF HandlersSound
    <2>3. QED
      BY <1>1, <1>3, <2>1, <2>2 DEF HandlerSound
  <1>6. CountsExact'
    BY <1>1 DEF CountsExact, TurnedAway, HandedOver, Here
  <1>7. QuotaSound'
    BY <1>1, <1>2, QuotaKept
  <1>8. QED
    BY <1>4, <1>5, <1>6, <1>7 DEF ProxyInv

-----------------------------------------------------------------------------
(* A call counted in the slot of its caller is one more than the requests  *)
(* the slot has let pass in this window: a slot left from an earlier one   *)
(* stands for nobody.                                                      *)
LEMMA SlotAfter ==
  ASSUME ProxyInv, ~ Unlimited, NEW r \in Requests
  PROVE  LET k == CallerOf[r]
         IN  /\ Counted(windows[k], clock) \in Slots
             /\ Counted(windows[k], clock) # NoSlot
             /\ Counted(windows[k], clock).start = WindowAt(clock)
             /\ Cardinality(Passed(k, WindowAt(clock), epoch)) + 1
                  <= Counted(windows[k], clock).count
  <1> DEFINE k == CallerOf[r]
             slot == windows[k]
             now == WindowAt(clock)
  <1>1. k \in Callers
    BY CallerType
  <1>2. clock \in Nat /\ now \in Nat /\ epoch \in Nat
    BY ClockIsNat DEF ProxyInv
  <1>3. slot \in Slots \cup {NoSlot}
    BY <1>1 DEF ProxyInv, TypeOK
  <1>4. /\ Counted(slot, clock) \in Slots
        /\ Counted(slot, clock) # NoSlot
        /\ Counted(slot, clock).start = now
        /\ Counted(slot, clock).count =
             IF slot # NoSlot /\ slot.start = now THEN slot.count + 1 ELSE 1
    BY <1>2, <1>3, CountedFacts
  <1>5. Cardinality(Passed(k, now, epoch)) \in Nat
    BY OneMore DEF Passed
  <1>6. SlotCovers /\ SlotCounts
    BY DEF ProxyInv, QuotaSound
  <1>7. CASE slot # NoSlot /\ slot.start = now
    <2>1. slot.count \in Nat
      BY <1>3, <1>7 DEF Slots
    <2>2. Cardinality(Passed(k, now, epoch)) <= slot.count
      BY <1>1, <1>2, <1>6, <1>7 DEF SlotCounts
    <2>3. QED
      BY <1>4, <1>5, <1>7, <2>1, <2>2
  <1>8. CASE ~ (slot # NoSlot /\ slot.start = now)
    <2>1. slot # NoSlot => slot.start \in Nat /\ slot.start <= now
      BY <1>1, <1>3, <1>6 DEF SlotCounts, Slots
    <2>2. Passed(k, now, epoch) # {} => slot # NoSlot /\ now <= slot.start
      BY <1>1, <1>2, <1>6 DEF SlotCovers
    <2>3. Passed(k, now, epoch) = {}
      BY <1>2, <1>8, <2>1, <2>2
    <2>4. Cardinality(Passed(k, now, epoch)) = 0
      BY <2>3, FS_EmptySet
    <2>5. QED
      BY <1>4, <1>8, <2>4
  <1>9. QED
    BY <1>4, <1>7, <1>8

(* The quotas after a call that was counted, let through or refused.       *)
LEMMA CallKeepsQuota ==
  ASSUME ProxyInv, NEW r \in Requests, NEW a,
         stage[r] = "idle", CountsCall(r),
         answer' = [answer EXCEPT ![r] = a],
         clock' = clock, epoch' = epoch,
         ~ Refused(a) => Within(r)
  PROVE  QuotaSound'
  <1> SUFFICES ASSUME ~ Unlimited
               PROVE  PassedWithinLimit' /\ SlotCovers' /\ SlotCounts'
    BY DEF QuotaSound, Unlimited
  <1> DEFINE k0 == CallerOf[r]
             now == WindowAt(clock)
             slot == Counted(windows[k0], clock)
  <1>1. /\ TypeOK /\ HandlersSound /\ PassedWithinLimit /\ SlotCovers /\ SlotCounts
    BY DEF ProxyInv, QuotaSound
  <1>2. k0 \in Callers
    BY CallerType
  <1>3. clock \in Nat /\ now \in Nat /\ epoch \in Nat
    BY <1>1, ClockIsNat
  <1>4. /\ slot \in Slots /\ slot # NoSlot /\ slot.start = now
        /\ Cardinality(Passed(k0, now, epoch)) + 1 <= slot.count
    BY SlotAfter
  <1>5. Refused(a) \/ slot.count <= Limit
    BY DEF Within, Allows
  <1>6. windows' = [windows EXCEPT ![k0] = slot]
    BY DEF CountsCall
  <1>7. asked' = [asked EXCEPT ![r] = [window |-> now, epoch |-> epoch]]
    BY DEF CountsCall
  <1> HIDE DEF slot, now, k0
  <1>8. windows'[k0] = slot /\ \A k \in Callers : k # k0 => windows'[k] = windows[k]
    BY <1>1, <1>2, <1>6 DEF TypeOK
  <1>9. /\ asked'[r] = [window |-> now, epoch |-> epoch] /\ answer'[r] = a
        /\ \A s \in Requests : s # r => asked'[s] = asked[s] /\ answer'[s] = answer[s]
    BY <1>1, <1>7 DEF TypeOK
  <1>10. asked[r] = Nothing
    BY <1>1 DEF HandlersSound, HandlerSound
  <1>11. ASSUME NEW k \in Callers, NEW w \in Nat, NEW e \in Nat
         PROVE  /\ r \notin Passed(k, w, e)
                /\ Passed(k, w, e)' =
                     IF k = k0 /\ w = now /\ e = epoch /\ ~ Refused(a)
                       THEN Passed(k, w, e) \cup {r} ELSE Passed(k, w, e)
    <2>1. r \notin Passed(k, w, e)
      BY <1>10, StampType DEF Passed
    <2>2. asked'[r] = [window |-> w, epoch |-> e] <=> w = now /\ e = epoch
      BY <1>3, <1>9, StampType
    <2>3. ASSUME NEW s \in Requests
          PROVE  s \in Passed(k, w, e)' <=>
                   \/ s \in Passed(k, w, e)
                   \/ s = r /\ k = k0 /\ w = now /\ e = epoch /\ ~ Refused(a)
      <3>1. CASE s = r
        BY <1>9, <2>1, <2>2, <3>1 DEF Passed, k0
      <3>2. CASE s # r
        BY <1>9, <3>2 DEF Passed
      <3>3. QED
        BY <3>1, <3>2
    <2>4. Passed(k, w, e) \subseteq Requests /\ Passed(k, w, e)' \subseteq Requests
      BY DEF Passed
    <2>5. QED
      BY <2>1, <2>3, <2>4
  <1>12. ASSUME NEW k \in Callers, NEW w \in Nat, NEW e \in Nat
         PROVE  /\ Cardinality(Passed(k, w, e)) \in Nat
                /\ Cardinality(Passed(k, w, e) \cup {r}) = Cardinality(Passed(k, w, e)) + 1
    BY <1>11, OneMore DEF Passed
  <1>13. PassedWithinLimit'
    <2> SUFFICES ASSUME NEW k \in Callers, NEW w \in Nat, NEW e \in Nat
                 PROVE  Cardinality(Passed(k, w, e)') <= Limit
      BY DEF PassedWithinLimit
    <2>1. Cardinality(Passed(k, w, e)) <= Limit
      BY <1>1 DEF PassedWithinLimit
    <2>2. CASE k = k0 /\ w = now /\ e = epoch /\ ~ Refused(a)
      <3>1. Cardinality(Passed(k, w, e)') = Cardinality(Passed(k0, now, epoch)) + 1
        BY <1>11, <1>12, <2>2
      <3>2. slot.count <= Limit /\ slot.count \in Nat
        BY <1>4, <1>5, <2>2 DEF Slots
      <3>3. Cardinality(Passed(k0, now, epoch)) \in Nat
        BY <1>2, <1>3, <1>12
      <3>4. Cardinality(Passed(k, w, e)') <= slot.count
        BY <1>4, <3>1
      <3>5. QED
        BY <3>1, <3>2, <3>3, <3>4, FixedWindowAssumption
    <2>3. CASE ~ (k = k0 /\ w = now /\ e = epoch /\ ~ Refused(a))
      BY <1>11, <2>1, <2>3
    <2>4. QED
      BY <2>2, <2>3
  <1>14. SlotCovers'
    <2> SUFFICES ASSUME NEW k \in Callers, NEW w \in Nat, NEW e \in Nat, e = epoch,
                        NEW s \in Passed(k, w, e)'
                 PROVE  windows'[k] # NoSlot /\ w <= windows'[k].start
      BY DEF SlotCovers
    <2>1. s \in Passed(k, w, e) \/ (s = r /\ k = k0 /\ w = now)
      BY <1>11
    <2>2. CASE k = k0
      <3>1. w <= now
        <4>1. CASE s \in Passed(k, w, e)
          <5>1. s \in Requests /\ asked[s] = [window |-> w, epoch |-> e]
            BY <4>1 DEF Passed
          <5>2. asked[s] # Nothing /\ asked[s].window = w
            BY <1>3, <5>1, StampType
          <5>3. QED
            BY <1>1, <5>1, <5>2 DEF HandlersSound, HandlerSound, now
        <4>2. QED
          BY <1>3, <2>1, <4>1
      <3>2. QED
        BY <1>4, <1>8, <2>2, <3>1
    <2>3. CASE k # k0
      <3>1. Passed(k, w, e) # {}
        BY <2>1, <2>3
      <3>2. QED
        BY <1>1, <1>8, <2>3, <3>1 DEF SlotCovers
    <2>4. QED
      BY <2>2, <2>3
  <1>15. SlotCounts'
    <2> SUFFICES ASSUME NEW k \in Callers, windows'[k] # NoSlot
                 PROVE  /\ windows'[k].start <= now
                        /\ \A w \in Nat, e \in Nat :
                             (w = windows'[k].start /\ e = epoch)
                               => Cardinality(Passed(k, w, e)') <= windows'[k].count
      BY DEF SlotCounts, now
    <2>1. CASE k = k0
      <3>1. windows'[k].start = now /\ windows'[k].count = slot.count /\ slot.count \in Nat
        BY <1>4, <1>8, <2>1 DEF Slots
      <3>2. ASSUME NEW w \in Nat, NEW e \in Nat, w = now, e = epoch
            PROVE  Cardinality(Passed(k, w, e)') <= slot.count
        <4>1. /\ Cardinality(Passed(k0, w, e)) \in Nat
              /\ Cardinality(Passed(k0, w, e)) + 1 <= slot.count
          BY <1>2, <1>4, <1>12, <3>2
        <4>2. Passed(k0, w, e)' \in {Passed(k0, w, e), Passed(k0, w, e) \cup {r}}
          BY <1>2, <1>11
        <4>3. \/ Cardinality(Passed(k0, w, e)') = Cardinality(Passed(k0, w, e))
              \/ Cardinality(Passed(k0, w, e)') = Cardinality(Passed(k0, w, e)) + 1
          BY <1>2, <1>12, <4>2
        <4>4. QED
          BY <2>1, <3>1, <4>1, <4>3
      <3>3. QED
        BY <1>3, <3>1, <3>2
    <2>2. CASE k # k0
      <3>1. windows'[k] = windows[k] /\ windows[k] # NoSlot
        BY <1>1, <1>8, <2>2
      <3>2. \A w \in Nat, e \in Nat : Passed(k, w, e)' = Passed(k, w, e)
        BY <1>11, <2>2
      <3>3. QED
        BY <1>1, <3>1, <3>2 DEF SlotCounts, now
    <2>3. QED
      BY <2>1, <2>2
  <1>16. QED
    BY <1>13, <1>14, <1>15

(* Everything else about such a call: its handler goes on to read the body, *)
(* or ends with the outcome a.                                             *)
LEMMA CallPreserves ==
  ASSUME ProxyInv, NEW r \in Requests, NEW x, NEW a,
         stage[r] = "idle", CountsCall(r),
         stage' = [stage EXCEPT ![r] = x], answer' = [answer EXCEPT ![r] = a],
         UNCHANGED <<clock, other, epoch>>,
         (x = "reading" /\ a = Nothing) \/ (x = "answered" /\ a \in Outcomes),
         counters' \in [proxied : Nat, limited : Nat],
         counters'.proxied = counters.proxied,
         counters'.limited = IF Refused(a) THEN counters.limited + 1 ELSE counters.limited
  PROVE  TypeOK' /\ HandlersSound' /\ CountsExact'
  <1> DEFINE k0 == CallerOf[r]
             stamp == [window |-> WindowAt(clock), epoch |-> epoch]
  <1>1. /\ TypeOK /\ HandlersSound /\ CountsExact
        /\ clock' = clock /\ epoch' = epoch
        /\ upstream' = upstream /\ reply' = reply /\ charged' = charged
    BY DEF ProxyInv, other
  <1>2. k0 \in Callers
    BY CallerType
  <1>3. clock \in Nat /\ WindowAt(clock) \in Nat /\ epoch \in Nat
    BY <1>1, ClockIsNat
  <1>4. /\ stamp \in [window : Nat, epoch : Nat] /\ stamp # Nothing
        /\ stamp.window = WindowAt(clock) /\ stamp.epoch = epoch
    BY <1>3, StampType
  <1>5. /\ windows' = windows \/ windows' = [windows EXCEPT ![k0] = Counted(windows[k0], clock)]
        /\ asked' = [asked EXCEPT ![r] = stamp]
    BY DEF CountsCall
  <1> HIDE DEF k0, stamp
  <1>6. TypeOK'
    <2>1. Counted(windows[k0], clock) \in Slots
      BY <1>1, <1>2, <1>3, CountedFacts DEF TypeOK
    <2>2. windows' \in [Callers -> Slots \cup {NoSlot}]
      BY <1>1, <1>2, <1>5, <2>1 DEF TypeOK
    <2>3. asked' \in [Requests -> [window : Nat, epoch : Nat] \cup {Nothing}]
      BY <1>1, <1>4, <1>5 DEF TypeOK
    <2>4. answer' \in [Requests -> Outcomes \cup {Nothing}]
      BY <1>1 DEF TypeOK
    <2>5. stage' \in [Requests -> {"idle", "reading", "working", "forwarding", "answered"}]
      BY <1>1 DEF TypeOK
    <2>6. QED
      BY <1>1, <2>2, <2>3, <2>4, <2>5 DEF TypeOK
  <1>7. /\ stage'[r] = x /\ answer'[r] = a /\ asked'[r] = stamp
        /\ \A s \in Requests : s # r =>
             stage'[s] = stage[s] /\ answer'[s] = answer[s] /\ asked'[s] = asked[s]
    BY <1>1, <1>5 DEF TypeOK
  <1>8. /\ HandlerSound(r) /\ asked[r] = Nothing /\ answer[r] = Nothing
        /\ upstream[r] = "unaware"
    BY <1>1 DEF HandlersSound, HandlerSound
  <1>9. HandlersSound'
    <2> SUFFICES ASSUME NEW s \in Requests PROVE HandlerSound(s)'
      BY DEF HandlersSound
    <2>1. CASE s = r
      BY <1>1, <1>3, <1>4, <1>7, <1>8, <2>1 DEF HandlerSound
    <2>2. CASE s # r
      <3>1. HandlerSound(s)
        BY <1>1 DEF HandlersSound
      <3>2. QED
        BY <1>1, <1>7, <2>2, <3>1 DEF HandlerSound
    <2>3. QED
      BY <2>1, <2>2
  <1>10. r \notin TurnedAway /\ r \notin HandedOver
    BY <1>8 DEF TurnedAway, HandedOver, Here
  <1>11. HandedOver' = HandedOver
    BY <1>1, <1>7, <1>8 DEF HandedOver, Here
  <1>12. TurnedAway' = IF Refused(a) THEN TurnedAway \cup {r} ELSE TurnedAway
    <2>1. r \in TurnedAway' <=> Refused(a)
      BY <1>1, <1>4, <1>7 DEF TurnedAway, Here
    <2>2. \A s \in Requests : s # r => (s \in TurnedAway' <=> s \in TurnedAway)
      BY <1>1, <1>7 DEF TurnedAway, Here
    <2>3. TurnedAway \subseteq Requests /\ TurnedAway' \subseteq Requests
      BY DEF TurnedAway
    <2>4. ASSUME NEW s
          PROVE  s \in TurnedAway' <=> s \in TurnedAway \/ (s = r /\ Refused(a))
      BY <1>10, <2>1, <2>2, <2>3
    <2>5. CASE Refused(a)
      BY <2>4, <2>5, Zenon
    <2>6. CASE ~ Refused(a)
      BY <2>4, <2>6, Zenon
    <2>7. QED
      BY <2>5, <2>6
  <1>13. CountsExact'
    <2>1. Cardinality(TurnedAway \cup {r}) = Cardinality(TurnedAway) + 1
      BY <1>10, OneMore DEF TurnedAway
    <2>2. QED
      BY <1>1, <1>11, <1>12, <2>1 DEF CountsExact
  <1>14. QED
    BY <1>6, <1>9, <1>13

LEMMA ArrivalPreserves ==
  ASSUME ProxyInv, NEW r \in Requests, Arrival(r)
  PROVE  ProxyInv'
  <1>1. TypeOK /\ HandlersSound
    BY DEF ProxyInv
  <1>2. stage[r] = "idle" /\ answer[r] = Nothing /\ answer = [answer EXCEPT ![r] = Nothing]
    BY <1>1 DEF Arrival, Unauthorized, TooManyRequests, Begin,
                HandlersSound, HandlerSound, TypeOK
  <1>3. CASE Unauthorized(r)
    <2>1. PICK status \in {"401", "500"} : Answers(r, status, "own")
      BY <1>3 DEF Unauthorized
    <2>2. QED
      BY <1>2, <1>3, <2>1, AnswerPreserves DEF Unauthorized, Statuses
  <1>4. CASE TooManyRequests(r)
    <2> DEFINE a == [status |-> "429", body |-> "own"]
    <2>1. a \in Outcomes /\ Refused(a)
      BY OutcomeType DEF Statuses
    <2>2. /\ CountsCall(r) /\ UNCHANGED <<clock, other, epoch>>
          /\ stage' = [stage EXCEPT ![r] = "answered"] /\ answer' = [answer EXCEPT ![r] = a]
          /\ counters' = [counters EXCEPT !.limited = @ + 1]
      BY <1>4 DEF TooManyRequests, Answers
    <2> HIDE DEF a
    <2>3. /\ counters' \in [proxied : Nat, limited : Nat]
          /\ counters'.proxied = counters.proxied
          /\ counters'.limited = counters.limited + 1
      BY <1>1, <2>2 DEF TypeOK
    <2>4. TypeOK' /\ HandlersSound' /\ CountsExact'
      BY <1>2, <2>1, <2>2, <2>3, CallPreserves
    <2>5. clock' = clock /\ epoch' = epoch
      BY <2>2
    <2>6. QuotaSound'
      BY <1>2, <2>1, <2>2, <2>5, CallKeepsQuota
    <2>7. QED
      BY <2>4, <2>6 DEF ProxyInv
  <1>5. CASE Begin(r)
    <2>1. /\ CountsCall(r) /\ UNCHANGED <<clock, other, epoch>>
          /\ Within(r) /\ counters' = counters /\ clock' = clock /\ epoch' = epoch
          /\ stage' = [stage EXCEPT ![r] = "reading"]
          /\ answer' = [answer EXCEPT ![r] = Nothing]
      BY <1>2, <1>5 DEF Begin
    <2>2. counters' \in [proxied : Nat, limited : Nat] /\ ~ Refused(Nothing)
      BY <1>1, <2>1, NothingNotRefused DEF TypeOK
    <2>3. TypeOK' /\ HandlersSound' /\ CountsExact'
      BY <1>2, <2>1, <2>2, CallPreserves
    <2>4. QuotaSound'
      BY <1>2, <2>1, <2>2, CallKeepsQuota
    <2>5. QED
      BY <2>3, <2>4 DEF ProxyInv
  <1>6. QED
    BY <1>3, <1>4, <1>5 DEF Arrival

(* The body's coming, or not, changes nothing but the handler. *)
LEMMA ReceivingPreserves ==
  ASSUME ProxyInv, NEW r \in Requests, Receiving(r)
  PROVE  ProxyInv'
  <1>1. CASE BadBody(r)
    <2>1. PICK status \in {"422", "500"} : Answers(r, status, "own")
      BY <1>1 DEF BadBody
    <2>2. QED
      BY <1>1, <2>1, AnswerPreserves DEF BadBody, Statuses
  <1>2. CASE BodyCutOff(r)
    BY <1>2, AnswerPreserves DEF BodyCutOff, Statuses
  <1>3. CASE ToWorker(r)
    <2>1. /\ TypeOK /\ HandlersSound /\ CountsExact
          /\ clock' = clock /\ windows' = windows /\ answer' = answer /\ asked' = asked
          /\ epoch' = epoch /\ reply' = reply /\ charged' = charged
          /\ upstream' = upstream /\ counters' = counters
          /\ stage[r] = "reading" /\ stage' = [stage EXCEPT ![r] = "working"]
      BY <1>3 DEF ProxyInv, ToWorker, other
    <2>2. TypeOK'
      BY <2>1 DEF TypeOK
    <2>3. /\ stage'[r] = "working"
          /\ \A s \in Requests : s # r => stage'[s] = stage[s]
      BY <2>1 DEF TypeOK
    <2>4. HandlersSound'
      BY <2>1, <2>3 DEF HandlersSound, HandlerSound
    <2>5. TurnedAway' = TurnedAway /\ HandedOver' = HandedOver
      BY <2>1 DEF TurnedAway, HandedOver, Here
    <2>6. CountsExact'
      BY <2>1, <2>5 DEF CountsExact
    <2>7. clock' \in Instants /\ clock <= clock'
      BY <2>1, ClockIsNat DEF TypeOK
    <2>8. QuotaSound'
      BY <2>1, <2>7, QuotaKept
    <2>9. QED
      BY <2>2, <2>4, <2>6, <2>8 DEF ProxyInv
  <1>4. QED
    BY <1>1, <1>2, <1>3 DEF Receiving

LEMMA ProgressPreserves ==
  ASSUME ProxyInv, NEW r \in Requests, Progress(r)
  PROVE  ProxyInv'
  <1>1. CASE WorkerFails(r)
    BY <1>1, AnswerPreserves DEF WorkerFails, Statuses
  <1>2. CASE Forward(r)
    BY <1>2, ForwardPreserves
  <1>3. CASE Relay(r)
    <2>1. reply[r] \in Replies
      BY <1>3 DEF ProxyInv, HandlersSound, HandlerSound, Relay, Replied
    <2>2. reply[r].status \in Statuses \ {"429"} /\ Body(r) \in {"own", "json"}
      BY <2>1 DEF Replies, Statuses, Body
    <2>3. PICK status \in Statuses \ {"429"}, body \in {"own", "json"} :
            Answers(r, status, body)
      <3>1. CASE Answers(r, "500", "own")
        BY <3>1 DEF Statuses
      <3>2. CASE Answers(r, reply[r].status, Body(r))
        BY <2>2, <3>2
      <3>3. QED
        BY <1>3, <3>1, <3>2 DEF Relay
    <2>4. QED
      BY <1>3, <2>3, AnswerPreserves DEF Relay
  <1>4. CASE UpstreamFails(r)
    <2>1. PICK status \in {"502", "500"} : Answers(r, status, "own")
      BY <1>4 DEF UpstreamFails
    <2>2. QED
      BY <1>4, <2>1, AnswerPreserves DEF UpstreamFails, Statuses
  <1>5. QED
    BY <1>1, <1>2, <1>3, <1>4 DEF Progress

(* After a restart nobody is of this process: slots and counters begin     *)
(* anew, and what the old process admitted stays within its limits.        *)
LEMMA CrashPreserves ==
  ASSUME ProxyInv, Crash
  PROVE  ProxyInv'
  <1> DEFINE broken == [status |-> "broken", body |-> "own"]
             begun == {r \in Requests : stage[r] \in {"reading", "working", "forwarding"}}
  <1>1. /\ TypeOK /\ HandlersSound
        /\ clock' = clock /\ asked' = asked
        /\ upstream' = upstream /\ reply' = reply /\ charged' = charged
        /\ epoch < MaxCrashes /\ epoch' = epoch + 1
        /\ windows' = [k \in Callers |-> NoSlot] /\ counters' = NoCounts
    BY DEF ProxyInv, Crash, other
  <1>2. broken \in Outcomes /\ ~ Refused(broken)
    BY OutcomeType DEF Statuses
  <1>3. /\ stage' = [r \in Requests |-> IF r \in begun THEN "answered" ELSE stage[r]]
        /\ answer' = [r \in Requests |-> IF r \in begun THEN broken ELSE answer[r]]
    BY DEF Crash
  <1> HIDE DEF broken
  <1>4. epoch \in Nat /\ epoch' \in 0..MaxCrashes
    BY <1>1, ProxyAssumption DEF TypeOK
  <1>5. TypeOK'
    <2>1. counters' \in [proxied : Nat, limited : Nat]
      BY <1>1 DEF NoCounts
    <2>2. stage' \in [Requests -> {"idle", "reading", "working", "forwarding", "answered"}]
      BY <1>1, <1>3 DEF TypeOK
    <2>3. answer' \in [Requests -> Outcomes \cup {Nothing}]
      BY <1>1, <1>2, <1>3 DEF TypeOK
    <2>4. QED
      BY <1>1, <1>4, <2>1, <2>2, <2>3 DEF TypeOK
  <1>6. \A r \in Requests : Refused(answer'[r]) <=> Refused(answer[r])
    BY <1>1, <1>2, <1>3, NothingNotRefused DEF HandlersSound, HandlerSound
  <1>7. ASSUME NEW r \in Requests, asked[r] # Nothing
        PROVE  asked[r].epoch \in Nat /\ asked[r].epoch <= epoch /\ asked[r].epoch # epoch'
    <2>1. asked[r] \in [window : Nat, epoch : Nat]
      BY <1>1, <1>7 DEF TypeOK
    <2>2. asked[r].epoch <= epoch
      BY <1>1, <1>7 DEF HandlersSound, HandlerSound
    <2>3. QED
      BY <1>1, <1>4, <2>1, <2>2
  <1>8. HandlersSound'
    <2> SUFFICES ASSUME NEW s \in Requests PROVE HandlerSound(s)'
      BY DEF HandlersSound
    <2>1. HandlerSound(s)
      BY <1>1 DEF HandlersSound
    <2>2. asked[s] # Nothing => asked[s].epoch <= epoch'
      BY <1>1, <1>4, <1>7
    <2>3. CASE s \in begun
      BY <1>1, <1>2, <1>3, <2>1, <2>2, <2>3 DEF HandlerSound
    <2>4. CASE s \notin begun
      BY <1>1, <1>3, <2>1, <2>2, <2>4 DEF HandlerSound
    <2>5. QED
      BY <2>3, <2>4
  <1>9. CountsExact'
    <2>1. TurnedAway' = {} /\ HandedOver' = {}
      BY <1>1, <1>7 DEF TurnedAway, HandedOver, Here
    <2>2. QED
      BY <1>1, <2>1, FS_EmptySet DEF CountsExact, NoCounts
  <1>10. QuotaSound'
    <2>1. ASSUME NEW k, NEW w, NEW e
          PROVE  Passed(k, w, e)' = Passed(k, w, e)
      BY <1>1, <1>6 DEF Passed
    <2>2. ASSUME ~ Unlimited
          PROVE  PassedWithinLimit'
      BY <2>1, <2>2 DEF ProxyInv, QuotaSound, PassedWithinLimit
    <2>3. ASSUME NEW k, NEW w \in Nat, NEW e \in Nat, e = epoch'
          PROVE  Passed(k, w, e) = {}
      BY <1>7, <2>3, StampType DEF Passed
    <2>4. SlotCovers'
      BY <2>1, <2>3 DEF SlotCovers
    <2>5. SlotCounts'
      BY <1>1 DEF SlotCounts
    <2>6. QED
      BY <2>2, <2>4, <2>5 DEF QuotaSound, Unlimited
  <1>11. QED
    BY <1>5, <1>8, <1>9, <1>10 DEF ProxyInv

-----------------------------------------------------------------------------
LEMMA StutterPreserves ==
  ASSUME ProxyInv, UNCHANGED vars
  PROVE  ProxyInv'
  <1>1. /\ clock' = clock /\ windows' = windows /\ stage' = stage /\ answer' = answer
        /\ upstream' = upstream /\ reply' = reply /\ charged' = charged
        /\ counters' = counters /\ asked' = asked /\ epoch' = epoch
    BY DEF vars, handlers, other
  <1>2. QED
    BY <1>1 DEF ProxyInv, TypeOK, HandlersSound, HandlerSound, CountsExact, TurnedAway,
                HandedOver, Here, QuotaSound, PassedWithinLimit, SlotCovers, SlotCounts,
                Passed, Unlimited

(* The invariant of proxy mode: a request is handed to upstream at most    *)
(* once, by an admitted handler; the counters count the requests of this   *)
(* process; slots count what they admitted (api.py:229-259).               *)
THEOREM ProxyInvariant == Spec => []ProxyInv
  <1>1. ProxyInv /\ [Next]_vars => ProxyInv'
    <2> SUFFICES ASSUME ProxyInv, [Next]_vars
                 PROVE  ProxyInv'
      OBVIOUS
    <2>1. ASSUME NEW r \in Requests, Arrival(r)
          PROVE  ProxyInv'
      BY <2>1, ArrivalPreserves
    <2>2. ASSUME NEW r \in Requests, Progress(r)
          PROVE  ProxyInv'
      BY <2>2, ProgressPreserves
    <2>3. ASSUME NEW r \in Requests, Upstream(r)
          PROVE  ProxyInv'
      BY <2>3, UpstreamPreserves
    <2>8. ASSUME NEW r \in Requests, Receiving(r)
          PROVE  ProxyInv'
      BY <2>8, ReceivingPreserves
    <2>4. CASE Advance
      BY <2>4, AdvancePreserves
    <2>5. CASE Crash
      BY <2>5, CrashPreserves
    <2>6. CASE UNCHANGED vars
      BY <2>6, StutterPreserves
    <2>7. QED
      BY <2>1, <2>2, <2>3, <2>4, <2>5, <2>6, <2>8 DEF Next
  <1>2. QED
    BY <1>1, InitEstablishes, PTL DEF Spec

(* The state of proxy mode has its type. *)
THEOREM ProxyTypeCorrect == Spec => []TypeOK
  <1>1. ProxyInv => TypeOK
    BY DEF ProxyInv
  <1>2. QED
    BY <1>1, ProxyInvariant, PTL

(* Upstream acts at most once on a request, whatever times out, is lost or *)
(* crashes (proxy.py:24-32).                                               *)
THEOREM ProxyChargedAtMostOnce == Spec => []ChargedAtMostOnce
  <1>1. ProxyInv => ChargedAtMostOnce
    BY DEF ProxyInv, HandlersSound, HandlerSound, ChargedAtMostOnce
  <1>2. QED
    BY <1>1, ProxyInvariant, PTL

(* What upstream charges for among the requests one caller had admitted in *)
(* one window of one process is within the limit (api.py:232-233, 247).    *)
THEOREM ProxyChargesWithinQuota == Spec => []ChargesWithinQuota
  <1>1. ProxyInv => ChargesWithinQuota
    <2> SUFFICES ASSUME ProxyInv, ~ Unlimited, NEW k \in Callers, NEW s \in Requests,
                        asked[s] # Nothing
                 PROVE  Cardinality({r \in Requests : /\ CallerOf[r] = k
                                                      /\ asked[r] = asked[s]
                                                      /\ charged[r] > 0}) <= Limit
      BY DEF ChargesWithinQuota
    <2> DEFINE w == asked[s].window
               e == asked[s].epoch
               paid == {r \in Requests : CallerOf[r] = k /\ asked[r] = asked[s] /\ charged[r] > 0}
    <2>1. w \in Nat /\ e \in Nat /\ asked[s] = [window |-> w, epoch |-> e]
      BY DEF ProxyInv, TypeOK
    <2>2. paid \subseteq Passed(k, w, e)
      BY <2>1 DEF ProxyInv, HandlersSound, HandlerSound, Passed
    <2>3. Passed(k, w, e) \subseteq Requests
      BY DEF Passed
    <2>4. IsFiniteSet(Passed(k, w, e))
      BY <2>3, ProxyAssumption, FS_Subset
    <2>5. Cardinality(paid) <= Cardinality(Passed(k, w, e))
          /\ Cardinality(paid) \in Nat /\ Cardinality(Passed(k, w, e)) \in Nat
      BY <2>2, <2>4, FS_Subset, FS_CardinalityType
    <2>6. Cardinality(Passed(k, w, e)) <= Limit
      BY <2>1 DEF ProxyInv, QuotaSound, PassedWithinLimit
    <2>7. QED
      BY <2>5, <2>6, FixedWindowAssumption
  <1>2. QED
    BY <1>1, ProxyInvariant, PTL

(* proxy_requests_total and rate_limited_total count the requests of this  *)
(* process that were handed over and refused (api.py:150, 244).            *)
THEOREM ProxyCountersTrue == Spec => []CountersTrue
  <1>1. ProxyInv => CountersTrue
    BY DEF ProxyInv, CountsExact, CountersTrue, TurnedAway, HandedOver, Here, Refused
  <1>2. QED
    BY <1>1, ProxyInvariant, PTL
=============================================================================
