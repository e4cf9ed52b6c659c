-------------------------- MODULE ClassifierProofs --------------------------
(***************************************************************************)
(* The properties of Classification for every policy and every reading,    *)
(* not only those a run enumerates.  All of them follow from one fact: a   *)
(* decision that was taken is Decide of the call's arguments.              *)
(*                                                                         *)
(* And those of StartUp for every configuration, change of a file and      *)
(* text: what start-up has let through stays what the process runs by      *)
(* (AcceptedInv), and the last answer is what that makes of its text       *)
(* (AnswerInv).                                                            *)
(***************************************************************************)
EXTENDS Classification, StartUp, OperatorTheorems

Arguments ==
  /\ policy \in Policies
  /\ reading \in Readings
  /\ hasTools \in BOOLEAN
  /\ flagged \in BOOLEAN

TakenByDecide ==
  decision = Pending \/ decision = Decide(policy, reading, hasTools, flagged)

CallInv == Arguments /\ TakenByDecide

LEMMA CallInvariant == Spec => []CallInv
  <1>1. Init => CallInv
    BY DEF Init, CallInv, Arguments, TakenByDecide
  <1>2. CallInv /\ [Next]_vars => CallInv'
    BY DEF CallInv, Arguments, TakenByDecide, Next, Classify, vars
  <1>3. QED
    BY <1>1, <1>2, PTL DEF Spec

(* Every decision fits the schema, for all policies and readings. *)
THEOREM ClassificationTypeCorrect == Spec => []TypeOK
  <1>1. CallInv => TypeOK
    <2>1. SUFFICES ASSUME CallInv
                   PROVE  TypeOK
      OBVIOUS
    <2>2. policy \in Policy /\ reading \in Reading
      BY <2>1, ClassificationAssumption DEF CallInv, Arguments
    <2>3. Decide(policy, reading, hasTools, flagged) \in Decision
      BY <2>1, <2>2, DecideType DEF CallInv, Arguments
    <2>4. QED
      BY <2>1, <2>3 DEF CallInv, Arguments, TakenByDecide, TypeOK
  <1>2. QED
    BY <1>1, CallInvariant, PTL

(* Without the vote, or without the flag, there is less caution. *)
LEMMA HighStakesMonotone ==
  ASSUME NEW r, NEW flag \in BOOLEAN, NEW f \in {FALSE, flag},
         NEW q \in {r, [r EXCEPT !.verdict = NoVerdict]},
         r \in Reading,
         HighStakes(q, f)
  PROVE  HighStakes(r, flag)
  <1>1. q.matches = r.matches
    BY DEF Reading
  <1>2. q.verdict.risk = None \/ q.verdict = r.verdict
    BY DEF Reading, NoVerdict
  <1>3. f => flag
    OBVIOUS
  <1>4. QED
    BY <1>1, <1>2, <1>3 DEF HighStakes

(* Layers and flags only add caution. *)
THEOREM ClassificationCautionIsMonotone == Spec => []CautionIsMonotone
  <1>1. CallInv => CautionIsMonotone
    <2>1. SUFFICES ASSUME CallInv, Decided,
                          NEW p \in {policy, WithoutModel}, NEW r \in {reading, WithoutVote},
                          NEW f \in {FALSE, flagged},
                          Decide(p, r, hasTools, f).action # "route"
                   PROVE  decision.action = Decide(p, r, hasTools, f).action
      BY DEF CautionIsMonotone
    <2>2. reading \in Reading
      BY <2>1, ClassificationAssumption DEF CallInv, Arguments
    <2>3. decision = Decide(policy, reading, hasTools, flagged)
      BY <2>1 DEF CallInv, TakenByDecide, Decided
    <2>4. r.blank = reading.blank
      BY <2>1, <2>2 DEF WithoutVote, Reading
    <2>5. Routed(p, r, hasTools).action = "route"
      BY DEF Routed
    <2>6. CASE reading.blank
      BY <2>3, <2>4, <2>6 DEF Decide
    <2>7. CASE ~ reading.blank
      <3>1. HighStakes(r, f)
        BY <2>1, <2>4, <2>5, <2>7 DEF Decide
      <3>2. HighStakes(reading, flagged)
        BY <2>1, <2>2, <3>1, HighStakesMonotone DEF WithoutVote, CallInv, Arguments
      <3>3. QED
        BY <2>3, <2>4, <2>7, <3>1, <3>2 DEF Decide
    <2>8. QED
      BY <2>6, <2>7
  <1>2. QED
    BY <1>1, CallInvariant, PTL

(* What the rules see does not depend on the learned model ... *)
LEMMA RulesIgnoreModel ==
  ASSUME NEW p \in Policy, NEW r
  PROVE  LET q == [p EXCEPT !.learned = FALSE]
         IN  /\ RuleTask(q, r) = RuleTask(p, r)
             /\ Mixed(q, r) = Mixed(p, r)
             /\ Greets(q, r) = Greets(p, r)
             /\ UsesVote(q, r) = UsesVote(p, r)
             /\ ~ UsesModel(q, r)
  <1> DEFINE q == [p EXCEPT !.learned = FALSE]
  <1>1. /\ q.order = p.order /\ q.mixable = p.mixable
        /\ q.overrideShare = p.overrideShare /\ ~ q.learned
    BY DEF Policy
  <1> HIDE DEF q
  <1>2. RuleTask(q, r) = RuleTask(p, r)
    BY <1>1 DEF RuleTask, CategoryHits
  <1>3. Mixed(q, r) = Mixed(p, r)
    BY <1>1 DEF Mixed
  <1>4. Greets(q, r) = Greets(p, r)
    BY <1>2 DEF Greets
  <1>5. UsesVote(q, r) = UsesVote(p, r)
    BY <1>1, <1>2, <1>3, <1>4 DEF UsesVote
  <1>6. ~ UsesModel(q, r)
    BY <1>1 DEF UsesModel, HasOpinion
  <1>7. QED
    BY <1>2, <1>3, <1>4, <1>5, <1>6 DEF q

(* ... and neither does a decision in which the model is not used. *)
LEMMA UnusedModel ==
  ASSUME NEW p \in Policy, NEW r, NEW h, NEW f, ~ UsesModel(p, r)
  PROVE  Decide([p EXCEPT !.learned = FALSE], r, h, f) = Decide(p, r, h, f)
  <1> DEFINE q == [p EXCEPT !.learned = FALSE]
  <1>1. /\ RuleTask(q, r) = RuleTask(p, r)
        /\ Mixed(q, r) = Mixed(p, r)
        /\ Greets(q, r) = Greets(p, r)
        /\ UsesVote(q, r) = UsesVote(p, r)
        /\ ~ UsesModel(q, r)
    BY RulesIgnoreModel
  <1>2. /\ q.ruleMatch = p.ruleMatch /\ q.greeting = p.greeting /\ q.fallback = p.fallback
        /\ q.mixedCap = p.mixedCap /\ q.semanticBase = p.semanticBase
        /\ q.semanticScale = p.semanticScale
    BY DEF Policy
  <1> HIDE DEF q
  <1>3. Task(q, r) = Task(p, r)
    BY <1>1 DEF Task
  <1>4. NeedsTools(q, r) = NeedsTools(p, r)
    BY <1>3 DEF NeedsTools
  <1>5. Complex(q, r) = Complex(p, r)
    BY <1>3, <1>4 DEF Complex
  <1>6. Confidence(q, r) = Confidence(p, r)
    BY <1>1, <1>2, <1>3 DEF Confidence
  <1>7. Routed(q, r, h) = Routed(p, r, h)
    BY <1>3, <1>4, <1>5, <1>6 DEF Routed
  <1>8. Decide(q, r, h, f) = Decide(p, r, h, f)
    BY <1>7 DEF Decide
  <1>9. QED
    BY <1>8 DEF q

(* The learned model refines fallbacks and touches nothing else. *)
THEOREM ClassificationModelOnlyRefinesFallback == Spec => []ModelOnlyRefinesFallback
  <1>1. CallInv => ModelOnlyRefinesFallback
    <2>1. SUFFICES ASSUME CallInv, Decided,
                          decision # Decide(WithoutModel, reading, hasTools, flagged)
                   PROVE  /\ decision.action = "route"
                          /\ RuleTask(policy, reading) \in Fallback
                          /\ reading.verdict.task = None
      BY DEF ModelOnlyRefinesFallback
    <2>2. policy \in Policy
      BY <2>1, ClassificationAssumption DEF CallInv, Arguments
    <2>3. decision = Decide(policy, reading, hasTools, flagged)
      BY <2>1 DEF CallInv, TakenByDecide, Decided
    <2>4. UsesModel(policy, reading)
      BY <2>1, <2>2, <2>3, UnusedModel DEF WithoutModel
    <2>5. RuleTask(policy, reading) \in Fallback /\ reading.verdict.task = None
      BY <2>4 DEF UsesModel, UsesVote
    <2>6. decision.action = "route"
      BY <2>1, <2>3 DEF Decide, Routed
    <2>7. QED
      BY <2>5, <2>6
  <1>2. QED
    BY <1>1, CallInvariant, PTL

(* A clear rule match leaves both layers unused. *)
LEMMA ClearRuleSkipsLayers ==
  ASSUME NEW p, NEW r, RuleTask(p, r) \notin Fallback, ~ Mixed(p, r)
  PROVE  ~ UsesVote(p, r) /\ ~ UsesModel(p, r)
  BY DEF UsesVote, UsesModel

(* Without a vote, a decision to route does not depend on the verdict. *)
LEMMA UnusedVote ==
  ASSUME NEW p, NEW r \in Reading, NEW h, NEW f,
         RuleTask(p, r) \notin Fallback, ~ Mixed(p, r),
         Decide(p, r, h, f).action = "route"
  PROVE  Decide(p, [r EXCEPT !.verdict = NoVerdict], h, f) = Decide(p, r, h, f)
  <1> DEFINE q == [r EXCEPT !.verdict = NoVerdict]
  <1>1. /\ q.matches = r.matches /\ q.short = r.short /\ q.blank = r.blank
        /\ q.predicted = r.predicted /\ q.verdict.risk = None
    BY DEF Reading, NoVerdict
  <1> HIDE DEF q
  <1>2. RuleTask(p, q) = RuleTask(p, r)
    BY <1>1 DEF RuleTask, CategoryHits, ExternalAction, ActsOnTools
  <1>3. Mixed(p, q) = Mixed(p, r)
    BY <1>1 DEF Mixed
  <1>4. Greets(p, q) = Greets(p, r)
    BY <1>1, <1>2 DEF Greets
  <1>5. /\ ~ UsesVote(p, q) /\ ~ UsesModel(p, q)
        /\ ~ UsesVote(p, r) /\ ~ UsesModel(p, r)
    BY <1>2, <1>3, ClearRuleSkipsLayers
  <1>6. Task(p, q) = Task(p, r)
    BY <1>2, <1>5 DEF Task
  <1>7. NeedsTools(p, q) = NeedsTools(p, r)
    BY <1>1, <1>6 DEF NeedsTools, ActsOnTools, ExternalAction
  <1>8. Complex(p, q) = Complex(p, r)
    BY <1>1, <1>6, <1>7 DEF Complex
  <1>9. Confidence(p, q) = Confidence(p, r)
    BY <1>3, <1>4, <1>5, <1>6 DEF Confidence
  <1>10. Routed(p, q, h) = Routed(p, r, h)
    BY <1>6, <1>7, <1>8, <1>9 DEF Routed
  <1>11. ~ r.blank /\ ~ HighStakes(r, f)
    BY DEF Decide, Insufficient, Escalated
  <1>12. ~ HighStakes(q, f)
    BY <1>1, <1>11 DEF HighStakes
  <1>13. Decide(p, q, h, f) = Decide(p, r, h, f)
    BY <1>1, <1>10, <1>11, <1>12 DEF Decide
  <1>14. QED
    BY <1>13 DEF q

(* Clear rule matches win over the vote and over the model. *)
THEOREM ClassificationClearRulesWin == Spec => []ClearRulesWin
  <1>1. CallInv => ClearRulesWin
    <2>1. SUFFICES ASSUME CallInv, Decided, decision.action = "route",
                          RuleTask(policy, reading) \notin Fallback, ~ Mixed(policy, reading)
                   PROVE  decision = Decide(WithoutModel, WithoutVote, hasTools, flagged)
      BY DEF ClearRulesWin
    <2>2. policy \in Policy /\ reading \in Reading
      BY <2>1, ClassificationAssumption DEF CallInv, Arguments
    <2>3. decision = Decide(policy, reading, hasTools, flagged)
      BY <2>1 DEF CallInv, TakenByDecide, Decided
    <2>4. Decide(WithoutModel, reading, hasTools, flagged) = decision
      BY <2>1, <2>2, <2>3, ClearRuleSkipsLayers, UnusedModel DEF WithoutModel
    <2>5. /\ RuleTask(WithoutModel, reading) = RuleTask(policy, reading)
          /\ Mixed(WithoutModel, reading) = Mixed(policy, reading)
      BY <2>2, RulesIgnoreModel DEF WithoutModel
    <2>6. Decide(WithoutModel, reading, hasTools, flagged).action = "route"
      BY <2>1, <2>4
    <2>7. Decide(WithoutModel, WithoutVote, hasTools, flagged)
            = Decide(WithoutModel, reading, hasTools, flagged)
      BY <2>1, <2>2, <2>5, <2>6, UnusedVote DEF WithoutVote
    <2>8. QED
      BY <2>4, <2>7
  <1>2. QED
    BY <1>1, CallInvariant, PTL

(* Offered tools only ever turn "none" into "optional". *)
THEOREM ClassificationOfferedToolsOnlySuggest == Spec => []OfferedToolsOnlySuggest
  <1>1. CallInv => OfferedToolsOnlySuggest
    <2>1. SUFFICES ASSUME CallInv, Decided
                   PROVE  OfferedToolsOnlySuggest
      BY DEF OfferedToolsOnlySuggest
    <2>2. decision = Decide(policy, reading, hasTools, flagged) /\ hasTools \in BOOLEAN
      BY <2>1 DEF CallInv, TakenByDecide, Decided, Arguments
    <2>3. CASE ~ hasTools
      BY <2>2, <2>3 DEF OfferedToolsOnlySuggest
    <2>4. CASE hasTools /\ (reading.blank \/ HighStakes(reading, flagged))
      BY <2>2, <2>4 DEF OfferedToolsOnlySuggest, Decide
    <2>5. CASE hasTools /\ ~ reading.blank /\ ~ HighStakes(reading, flagged)
      <3>1. decision = Routed(policy, reading, TRUE)
        BY <2>2, <2>5 DEF Decide
      <3>2. Decide(policy, reading, FALSE, flagged) = Routed(policy, reading, FALSE)
        BY <2>5 DEF Decide
      <3>3. CASE NeedsTools(policy, reading)
        <4>1. Routed(policy, reading, TRUE) = Routed(policy, reading, FALSE)
          BY <3>3 DEF Routed
        <4>2. QED
          BY <3>1, <3>2, <4>1 DEF OfferedToolsOnlySuggest
      <3>4. CASE ~ NeedsTools(policy, reading)
        <4>1. /\ Routed(policy, reading, TRUE)
                   = [Routed(policy, reading, FALSE) EXCEPT !.tools = "optional"]
              /\ Routed(policy, reading, FALSE).tools = "none"
          BY <3>4 DEF Routed
        <4>2. QED
          BY <3>1, <3>2, <4>1 DEF OfferedToolsOnlySuggest
      <3>5. QED
        BY <3>3, <3>4
    <2>6. QED
      BY <2>2, <2>3, <2>4, <2>5
  <1>2. QED
    BY <1>1, CallInvariant, PTL

(* The tier and the tool requirement are never out of step. *)
THEOREM ClassificationCapableNeedsTools == Spec => []CapableNeedsTools
  <1>1. CallInv => CapableNeedsTools
    <2>1. SUFFICES ASSUME CallInv, Decided
                   PROVE  CapableNeedsTools
      BY DEF CapableNeedsTools
    <2>2. decision = Decide(policy, reading, hasTools, flagged)
      BY <2>1 DEF CallInv, TakenByDecide, Decided
    <2>3. CASE reading.blank \/ HighStakes(reading, flagged)
      BY <2>2, <2>3 DEF CapableNeedsTools, Decide, Insufficient, Escalated
    <2>4. CASE ~ reading.blank /\ ~ HighStakes(reading, flagged)
      <3>1. decision = Routed(policy, reading, hasTools)
        BY <2>2, <2>4 DEF Decide
      <3>2. decision.tier = Tier(decision.task, NeedsTools(policy, reading),
                                 Complex(policy, reading))
        BY <3>1 DEF Routed
      <3>3. NeedsTools(policy, reading) => decision.tools = "required"
        BY <3>1 DEF Routed
      <3>4. decision.task = "agent_action" => NeedsTools(policy, reading)
        BY <3>1 DEF Routed, NeedsTools
      <3>5. QED
        BY <3>2, <3>3, <3>4 DEF CapableNeedsTools, Tier, Fallback
    <2>5. QED
      BY <2>3, <2>4
  <1>2. QED
    BY <1>1, CallInvariant, PTL

-----------------------------------------------------------------------------
(* What start-up lets through *)

(* The files on disk, and the ones that were read.                         *)
FilesInv ==
  /\ DOMAIN disk = FileNames
  /\ \A name \in FileNames : disk[name] \in FileContents(name)
  /\ DOMAIN app = {"policy", "catalog", "bank"}

AcceptedInv ==
  /\ stage \in {"settings", "policy", "catalog", "semantic", "serving", "refused"}
  /\ stage \in {"policy", "catalog", "semantic", "serving"} => Valid(settings)
  /\ stage \in {"catalog", "semantic", "serving"} =>
       PolicyValid(app.policy) /\ app.policy \in FileContents("policy")
  /\ stage \in {"semantic", "serving"} =>
       CatalogAccepted(app.catalog) /\ app.catalog \in FileContents("catalog")
  /\ (stage = "serving" /\ settings.semantic) => BankAccepted(app.bank) /\ app.bank \in Banks

LEMMA InitFiles == StartUpInit => FilesInv /\ AcceptedInv
  <1> SUFFICES ASSUME StartUpInit PROVE FilesInv /\ AcceptedInv
    OBVIOUS
  <1>1. PICK setup \in Setups : disk = setup.disk
    BY DEF StartUpInit
  <1>2. DOMAIN disk = FileNames
    BY <1>1, StartUpAssumption
  <1>3. \A name \in FileNames : disk[name] \in FileContents(name)
    BY <1>1 DEF FileContents
  <1>4. DOMAIN app = {"policy", "catalog", "bank"}
    BY DEF StartUpInit, Unloaded
  <1>5. stage = "settings"
    BY DEF StartUpInit
  <1>6. QED
    BY <1>2, <1>3, <1>4, <1>5 DEF FilesInv, AcceptedInv

(* Each step of create_app hands on what it has checked.                   *)
LEMMA StartingKeeps ==
  ASSUME FilesInv, AcceptedInv, Validate \/ LoadPolicy \/ LoadCatalog \/ BuildSemantic
  PROVE  FilesInv' /\ AcceptedInv'
  <1>1. UNCHANGED <<settings, disk>>
    BY DEF Validate, LoadPolicy, LoadCatalog, BuildSemantic, Starting
  <1>2. CASE Validate
    <2>1. /\ stage = "settings" /\ UNCHANGED app
          /\ stage' = IF Valid(settings) THEN "policy" ELSE "refused"
      BY <1>2 DEF Validate, Starting
    <2>2. QED
      BY <1>1, <2>1 DEF FilesInv, AcceptedInv
  <1>3. CASE LoadPolicy
    <2>1. /\ stage = "policy"
          /\ stage' = IF PolicyAccepted(disk.policy) THEN "catalog" ELSE "refused"
          /\ app' = [app EXCEPT !.policy = disk.policy]
      BY <1>3 DEF LoadPolicy, Starting
    <2>2. app'.policy = disk.policy /\ DOMAIN app' = {"policy", "catalog", "bank"}
      BY <2>1 DEF FilesInv
    <2>3. disk.policy \in FileContents("policy")
      BY DEF FilesInv, FileNames
    <2>4. stage' = "catalog" => PolicyValid(disk.policy)
      BY <2>1 DEF PolicyAccepted
    <2>5. stage' \in {"catalog", "refused"} /\ Valid(settings)
      BY <2>1 DEF AcceptedInv
    <2>6. QED
      BY <1>1, <2>2, <2>3, <2>4, <2>5 DEF FilesInv, AcceptedInv
  <1>4. CASE LoadCatalog
    <2>1. /\ stage = "catalog"
          /\ stage' = IF CatalogAccepted(disk.catalog) THEN "semantic" ELSE "refused"
          /\ app' = [app EXCEPT !.catalog = disk.catalog]
      BY <1>4 DEF LoadCatalog, Starting
    <2>2. /\ app'.catalog = disk.catalog /\ app'.policy = app.policy
          /\ DOMAIN app' = {"policy", "catalog", "bank"}
      BY <2>1 DEF FilesInv
    <2>3. disk.catalog \in FileContents("catalog")
      BY DEF FilesInv, FileNames
    <2>4. QED
      BY <1>1, <2>1, <2>2, <2>3 DEF FilesInv, AcceptedInv
  <1>5. CASE BuildSemantic
    <2>1. /\ stage = "semantic"
          /\ stage' = IF settings.semantic => BankAccepted(BankToLoad) THEN "serving" ELSE "refused"
          /\ app' = IF settings.semantic THEN [app EXCEPT !.bank = BankToLoad] ELSE app
      BY <1>5 DEF BuildSemantic, Starting
    <2>2. /\ app'.catalog = app.catalog /\ app'.policy = app.policy
          /\ DOMAIN app' = {"policy", "catalog", "bank"}
          /\ settings.semantic => app'.bank = BankToLoad
      BY <2>1 DEF FilesInv
    <2>3. BankAccepted(BankToLoad) => BankToLoad \in Banks
      <3>1. disk.bank \in FileContents("bank")
        BY DEF FilesInv, FileNames
      <3>2. QED
        BY <3>1 DEF BankAccepted, BankToLoad, Banks
    <2>4. QED
      BY <1>1, <2>1, <2>2, <2>3 DEF FilesInv, AcceptedInv
  <1>6. QED
    BY <1>2, <1>3, <1>4, <1>5

(* A change of a file reaches nothing that was read.                       *)
LEMMA EditKeeps ==
  ASSUME FilesInv, AcceptedInv, NEW e \in Edits, Edit(e)
  PROVE  FilesInv' /\ AcceptedInv'
  <1>1. /\ UNCHANGED <<settings, stage, app>>
        /\ disk' = [disk EXCEPT ![e.file] = e.content]
    BY DEF Edit
  <1>2. e.content \in FileContents(e.file) /\ e.file \in FileNames
    BY StartUpAssumption DEF FileContents
  <1>3. DOMAIN disk' = FileNames /\ \A name \in FileNames : disk'[name] \in FileContents(name)
    BY <1>1, <1>2 DEF FilesInv
  <1>4. QED
    BY <1>1, <1>3 DEF FilesInv, AcceptedInv

LEMMA RestartKeepsFiles ==
  ASSUME FilesInv, AcceptedInv, Restart
  PROVE  FilesInv' /\ AcceptedInv'
  BY DEF Restart, FilesInv, AcceptedInv, Unloaded

LEMMA ServingKeeps ==
  ASSUME FilesInv, AcceptedInv, UNCHANGED <<settings, disk, stage, app>>
  PROVE  FilesInv' /\ AcceptedInv'
  BY DEF FilesInv, AcceptedInv

(* Requests leave all of it alone.                                         *)
LEMMA StepKinds ==
  ASSUME [StartUpNext]_startUpVars
  PROVE  \/ Validate \/ LoadPolicy \/ LoadCatalog \/ BuildSemantic \/ Restart
         \/ \E e \in Edits : Edit(e)
         \/ Serving /\ \E token \in Tokens : Unauthorized(token)
         \/ Serving /\ \E text \in Prompts, token \in Tokens :
                         \/ Fail(text, token) \/ HandleClassify(text, token)
                         \/ BeginLoad(text, token)
         \/ Serving /\ \E l \in loads : ReadModel(l) \/ FailToRead(l) \/ FinishLoad(l)
         \/ UNCHANGED startUpVars
  BY DEF StartUpNext, Unauthorized, Fail, HandleClassify, BeginLoad, ReadModel, FailToRead,
         FinishLoad

LEMMA FilesInvariant == StartUpSpec => [](FilesInv /\ AcceptedInv)
  <1>1. FilesInv /\ AcceptedInv /\ [StartUpNext]_startUpVars => FilesInv' /\ AcceptedInv'
    <2> SUFFICES ASSUME FilesInv, AcceptedInv, [StartUpNext]_startUpVars
                 PROVE  FilesInv' /\ AcceptedInv'
      OBVIOUS
    <2>1. Serving \/ UNCHANGED startUpVars => UNCHANGED <<settings, disk, stage, app>>
      BY DEF Serving, startUpVars
    <2>2. QED
      BY <2>1, StepKinds, StartingKeeps, EditKeeps, RestartKeepsFiles, ServingKeeps
  <1>2. QED
    BY <1>1, InitFiles, PTL DEF StartUpSpec

(* A policy file that is valid parses to a policy.                         *)
LEMMA ValidParses ==
  ASSUME NEW f \in FileContents("policy"), PolicyValid(f)
  PROVE  /\ Parsed(f) \in Policy
         /\ f.k \in Int /\ f.k > 0
         /\ \A n \in Shares : f.numbers[n] \in Percent
         /\ f.version \in {"plain", "line"}
  <1> DEFINE n == f.numbers
  <1>1. f # Absent
    BY DEF PolicyValid
  <1>2. f.order \in Seq(STRING) /\ f.k \in Int /\ f.learned \in BOOLEAN
    BY <1>1, StartUpAssumption
  <1>3. f.k >= 1 /\ f.version \in {"plain", "line"}
    BY DEF PolicyValid, VersionMatches
  <1>4. /\ Shares \cup Confidences \cup LearnedShares(f) \subseteq DOMAIN n
        /\ \A x \in DOMAIN n : n[x] \in Percent
    BY DEF PolicyValid, Numbers, CheckKeys
  <1>5. \A x \in Shares \cup Confidences : n[x] \in Percent
    BY <1>4
  <1>6. "learned" \in f.keys => n["minProbability"] \in Percent
    BY <1>4 DEF LearnedShares
  <1>7. f.order \in Seq(Orderable)
    <2>1. \A i \in 1..Len(f.order) : f.order[i] \in Orderable
      <3>1. ToSet(f.order) \subseteq Orderable
        BY DEF PolicyValid, Categories
      <3>2. \A i \in 1..Len(f.order) : f.order[i] \in ToSet(f.order)
        BY <1>2 DEF ToSet
      <3>3. QED
        BY <3>1, <3>2
    <2>2. QED
      BY <1>2, <2>1
  <1>8. ToSet(f.mixed) \in SUBSET Mixable
    BY DEF PolicyValid, Categories
  <1>9. 60 \in Percent
    BY DEF Percent
  <1>10. /\ n["overrideShare"] \in Percent
         /\ n["ruleMatch"] \in Percent /\ n["greeting"] \in Percent /\ n["fallback"] \in Percent
         /\ n["mixedCap"] \in Percent /\ n["semanticBase"] \in Percent
         /\ n["semanticScale"] \in Percent
    BY <1>5 DEF Shares, Confidences
  <1> DEFINE learned == ("learned" \in f.keys) => f.learned
             least == IF "learned" \in f.keys THEN n["minProbability"] ELSE 60
  <1>11. learned \in BOOLEAN /\ least \in Percent
    BY <1>6, <1>9
  <1>12. Parsed(f) =
           [order |-> f.order, mixable |-> ToSet(f.mixed), overrideShare |-> n["overrideShare"],
            learned |-> learned, minProbability |-> least,
            ruleMatch |-> n["ruleMatch"], greeting |-> n["greeting"], fallback |-> n["fallback"],
            mixedCap |-> n["mixedCap"], semanticBase |-> n["semanticBase"],
            semanticScale |-> n["semanticScale"]]
    BY DEF Parsed
  <1> HIDE DEF n, learned, least
  <1>13. Parsed(f) \in Policy
    BY <1>7, <1>8, <1>10, <1>11, <1>12 DEF Policy
  <1>14. QED
    BY <1>2, <1>3, <1>5, <1>13 DEF n

(* A bank that is accepted has labels of the vocabulary only.              *)
LEMMA AcceptedBank ==
  ASSUME NEW b \in Banks, BankAccepted(b)
  PROVE  /\ b \in Seq([prefixed : BOOLEAN, name : STRING])
         /\ \A i \in 1..Len(b) : Known(b[i])
  BY StartUpAssumption DEF BankAccepted

(* Whatever the files, a service that serves has a policy and a bank of    *)
(* the kind that the classifier and the vote are proved about.             *)
THEOREM StartUpAcceptedAsAssumed == StartUpSpec => []AcceptedAsAssumed
  <1>1. FilesInv /\ AcceptedInv => AcceptedAsAssumed
    <2> SUFFICES ASSUME AcceptedInv, stage = "serving"
                 PROVE  /\ ActivePolicy \in Policy
                        /\ app.policy.k > 0
                        /\ \A n \in Shares : app.policy.numbers[n] \in Percent
                        /\ settings.semantic => \A i \in 1..Len(app.bank) : Known(app.bank[i])
      BY DEF AcceptedAsAssumed
    <2>1. PolicyValid(app.policy) /\ app.policy \in FileContents("policy")
      BY DEF AcceptedInv
    <2>2. settings.semantic => BankAccepted(app.bank) /\ app.bank \in Banks
      BY DEF AcceptedInv
    <2>3. QED
      BY <2>1, <2>2, ValidParses, AcceptedBank DEF ActivePolicy
  <1>2. QED
    BY <1>1, FilesInvariant, PTL

-----------------------------------------------------------------------------
(* What the answers are made of *)

(* The poll of a text is one the vote is proved about.                     *)
LEMMA PollOfText ==
  ASSUME AcceptedInv, stage = "serving", settings.semantic, NEW text \in Prompts
  PROVE  IsPoll(Poll(text))
  <1> DEFINE labels == [i \in 1..Len(app.bank) |-> app.bank[text.order[i]]]
             tags == [prefixed : BOOLEAN, name : STRING]
  <1>1. app.bank \in Banks /\ BankAccepted(app.bank)
    BY DEF AcceptedInv
  <1>2. /\ app.bank \in Seq(tags)
        /\ \A i \in 1..Len(app.bank) : Known(app.bank[i])
    BY <1>1, AcceptedBank
  <1>3. Len(app.bank) \in Nat /\ \A i \in 1..Len(app.bank) : app.bank[i] \in tags
    BY <1>2, LenProperties, ElementOfSeq
  <1>4. \A i \in 1..Len(app.bank) : text.order[i] \in 1..Len(app.bank) /\ text.similarities[i] \in Int
    BY <1>1, StartUpAssumption
  <1>5. /\ labels \in Seq(tags)
        /\ Len(labels) = Len(app.bank)
        /\ \A i \in 1..Len(app.bank) : Known(labels[i])
    <2> HIDE DEF tags
    <2>1. \A i \in 1..Len(app.bank) : app.bank[text.order[i]] \in tags /\ Known(app.bank[text.order[i]])
      BY <1>2, <1>3, <1>4
    <2>2. QED
      BY <1>3, <2>1
  <1>6. PolicyValid(app.policy) /\ app.policy \in FileContents("policy")
    BY DEF AcceptedInv
  <1>7. /\ app.policy.k \in Int
        /\ app.policy.numbers["riskShare"] \in Percent
        /\ app.policy.numbers["minSimilarity"] \in Percent
    BY <1>6, ValidParses DEF Shares
  <1>8. /\ Poll(text).labels = labels
        /\ Poll(text).similarities = text.similarities
        /\ Poll(text).k = app.policy.k
        /\ Poll(text).riskShare = app.policy.numbers["riskShare"]
        /\ Poll(text).minSimilarity = app.policy.numbers["minSimilarity"]
        /\ DOMAIN Poll(text) = {"labels", "similarities", "k", "riskShare", "minSimilarity"}
    BY DEF Poll
  <1> HIDE DEF labels
  <1>9. QED
    BY <1>4, <1>5, <1>7, <1>8 DEF IsPoll

(* What a text reads as, if the layer does not raise and the model asked,  *)
(* if any, is the one of the package.                                      *)
LEMMA ReadType ==
  ASSUME AcceptedInv, stage = "serving", NEW text \in Prompts, ~ AssessRaises(text),
         NEW m \in {Absent, "bundled"}
  PROVE  Read(text, m) \in Reading
  <1> DEFINE verdict == IF settings.semantic /\ ~ text.blank THEN Assessed(Poll(text)) ELSE NoVerdict
             predicted == IF m = Absent THEN [label |-> "other", probability |-> 0]
                          ELSE text.predicted[m]
  <1>1. /\ text.blank \in BOOLEAN /\ text.short \in BOOLEAN
        /\ text.matches \in SUBSET PatternNames
        /\ text.predicted["bundled"] \in Prediction
    BY StartUpAssumption
  <1>2. verdict \in Verdict
    <2>1. CASE settings.semantic /\ ~ text.blank
      <3>1. IsPoll(Poll(text)) /\ ~ Raises(Poll(text))
        BY <2>1, PollOfText DEF AssessRaises
      <3>2. QED
        BY <2>1, <3>1, AssessedType
    <2>2. CASE ~ (settings.semantic /\ ~ text.blank)
      BY <2>2 DEF NoVerdict, Verdict, Percent
    <2>3. QED
      BY <2>1, <2>2
  <1>3. predicted \in Prediction
    <2>1. [label |-> "other", probability |-> 0] \in Prediction
      BY DEF Prediction, Percent
    <2>2. QED
      BY <1>1, <2>1
  <1>4. Read(text, m) = [blank |-> text.blank, matches |-> text.matches, short |-> text.short,
                         verdict |-> verdict, predicted |-> predicted]
    BY DEF Read
  <1> HIDE DEF verdict, predicted
  <1>5. QED
    BY <1>1, <1>2, <1>3, <1>4 DEF Reading

(* A task model that was read, by this process.                            *)
Loaded(m) == m \notin NoModel /\ (~ NamesModel(app.policy) => m = "bundled")

ModelInv == model # Absent => stage = "serving" /\ Loaded(model)

Judged(text, m) == Decide(ActivePolicy, Read(text, m), text.hasTools, text.flagged)
Asked(text, m) == IF AsksModel(text) THEN Loaded(m) ELSE m = Absent

(* What the text is decided by once the loads are over.                    *)
Settles(text, m) == m = IF AsksModel(text) THEN model ELSE Absent

Loading(l) ==
  /\ DOMAIN l = {"text", "token", "read"}
  /\ l.text \in Prompts
  /\ Authorized(l.token)
  /\ ~ AssessRaises(l.text)
  /\ AsksModel(l.text)
  /\ l.read # Absent => Loaded(l.read)

LoadsInv == loads # {} => stage = "serving" /\ \A l \in loads : Loading(l)

Undecided == answer.outcome \in {"none", "unauthorized"}

(* The answer is what becomes of the text when m is the model asked for it. *)
MadeOf(text, m) ==
  /\ answer.outcome \in {"assess_raised", "model_unreadable", "decided", "misfit"}
  /\ answer.outcome = "assess_raised" => AssessRaises(text)
  /\ answer.outcome = "model_unreadable" =>
       ~ AssessRaises(text) /\ AsksModel(text) /\ NamesModel(app.policy)
  /\ answer.outcome \in {"decided", "misfit"} =>
       /\ ~ AssessRaises(text)
       /\ AsksModel(text) => model # Absent
       /\ Asked(text, m)
       /\ answer.decision = Judged(text, m)
       /\ answer.picks = RecommendationsFor(Judged(text, m).tier)
       /\ answer.outcome = "decided"
            <=> FitsSchema(Judged(text, m), RecommendationsFor(Judged(text, m).tier))

AnswerInv ==
  \/ Undecided /\ answer.text = Absent
  \/ /\ stage = "serving"
     /\ answer.text \in Prompts
     /\ Authorized(answer.token)
     /\ \E m : MadeOf(answer.text, m)

(* What was remembered is what the text would be told now.                 *)
EarlierInv ==
  earlier # NoAnswer =>
    /\ stage = "serving"
    /\ ~ AssessRaises(Followed)
    /\ AsksModel(Followed) => model # Absent
    /\ \A m : Settles(Followed, m) =>
         /\ earlier.decision = Judged(Followed, m)
         /\ earlier.picks = RecommendationsFor(Judged(Followed, m).tier)
         /\ FitsSchema(Judged(Followed, m), RecommendationsFor(Judged(Followed, m).tier))

AnswersInv == ModelInv /\ LoadsInv /\ AnswerInv /\ EarlierInv

(* While the files that were read stay, nothing a text is judged by moves. *)
LEMMA JudgedAlike ==
  ASSUME UNCHANGED <<settings, app>>, NEW text, NEW m
  PROVE  /\ AsksModel(text)' <=> AsksModel(text)
         /\ AssessRaises(text)' <=> AssessRaises(text)
         /\ Judged(text, m)' = Judged(text, m)
         /\ NamesModel(app.policy)' <=> NamesModel(app.policy)
         /\ Loaded(m)' <=> Loaded(m)
         /\ Asked(text, m)' <=> Asked(text, m)
  <1>1. /\ ActivePolicy' = ActivePolicy
        /\ Poll(text)' = Poll(text)
    BY DEF ActivePolicy, Poll
  <1>2. settings' = settings /\ app' = app
    OBVIOUS
  <1>3. /\ Read(text, m)' = Read(text, m)
        /\ Read(text, Absent)' = Read(text, Absent)
    BY <1>1, <1>2 DEF Read
  <1>4. AsksModel(text)' <=> AsksModel(text)
    BY <1>1, <1>3 DEF AsksModel
  <1>5. AssessRaises(text)' <=> AssessRaises(text)
    BY <1>1, <1>2 DEF AssessRaises
  <1>6. Judged(text, m)' = Judged(text, m)
    BY <1>1, <1>3 DEF Judged
  <1>7. NamesModel(app.policy)' <=> NamesModel(app.policy)
    BY <1>2 DEF NamesModel
  <1>8. Loaded(m)' <=> Loaded(m)
    BY <1>7 DEF Loaded
  <1>9. Asked(text, m)' <=> Asked(text, m)
    BY <1>4, <1>8 DEF Asked
  <1>10. QED
    BY <1>4, <1>5, <1>6, <1>7, <1>8, <1>9

LEMMA ToldAlike ==
  ASSUME UNCHANGED <<settings, app>>, NEW text, NEW m
  PROVE  /\ RecommendationsFor(Judged(text, m).tier)' = RecommendationsFor(Judged(text, m).tier)
         /\ FitsSchema(Judged(text, m), RecommendationsFor(Judged(text, m).tier))'
              <=> FitsSchema(Judged(text, m), RecommendationsFor(Judged(text, m).tier))
  <1>1. Judged(text, m)' = Judged(text, m) /\ app' = app
    BY JudgedAlike
  <1>2. RecommendationsFor(Judged(text, m).tier)' = RecommendationsFor(Judged(text, m).tier)
    BY <1>1 DEF RecommendationsFor
  <1>3. QED
    BY <1>1, <1>2 DEF FitsSchema

(* What was made of a text stays so while what it was read by stays.       *)
LEMMA MadeAlike ==
  ASSUME UNCHANGED <<settings, app, answer>>, NEW text, NEW m, MadeOf(text, m),
         model # Absent => UNCHANGED model
  PROVE  MadeOf(text, m)'
  <1>1. /\ AsksModel(text)' <=> AsksModel(text)
        /\ AssessRaises(text)' <=> AssessRaises(text)
        /\ Judged(text, m)' = Judged(text, m)
        /\ NamesModel(app.policy)' <=> NamesModel(app.policy)
        /\ Asked(text, m)' <=> Asked(text, m)
    BY JudgedAlike
  <1>2. QED
    BY <1>1, ToldAlike DEF MadeOf

(* A step that leaves the files that were read alone disturbs an invariant *)
(* only in the variables it changes.                                       *)
LEMMA ModelStays ==
  ASSUME ModelInv, UNCHANGED <<settings, app, stage, model>>
  PROVE  ModelInv'
  BY JudgedAlike DEF ModelInv

LEMMA LoadingStays ==
  ASSUME UNCHANGED <<settings, app>>, NEW l, Loading(l)
  PROVE  Loading(l)'
  BY JudgedAlike DEF Loading, Authorized

LEMMA AnswerStays ==
  ASSUME AnswerInv, UNCHANGED <<settings, app, stage, answer>>,
         model # Absent => UNCHANGED model
  PROVE  AnswerInv'
  <1>1. CASE Undecided /\ answer.text = Absent
    BY <1>1 DEF AnswerInv, Undecided
  <1>2. CASE ~ (Undecided /\ answer.text = Absent)
    <2>1. /\ stage = "serving" /\ answer.text \in Prompts /\ Authorized(answer.token)
          /\ \E m : MadeOf(answer.text, m)
      BY <1>2 DEF AnswerInv
    <2>2. PICK m : MadeOf(answer.text, m)
      BY <2>1
    <2>3. MadeOf(answer.text, m)'
      BY <2>2, MadeAlike
    <2>4. Authorized(answer.token)'
      BY <2>1 DEF Authorized
    <2>5. QED
      BY <2>1, <2>3, <2>4 DEF AnswerInv
  <1>3. QED
    BY <1>1, <1>2

LEMMA EarlierStays ==
  ASSUME EarlierInv, UNCHANGED <<settings, app, stage, earlier>>,
         model # Absent => UNCHANGED model
  PROVE  EarlierInv'
  <1> SUFFICES ASSUME earlier # NoAnswer PROVE EarlierInv'
    BY DEF EarlierInv
  <1>1. /\ stage = "serving"
        /\ ~ AssessRaises(Followed)
        /\ AsksModel(Followed) => model # Absent
        /\ \A m : Settles(Followed, m) =>
             /\ earlier.decision = Judged(Followed, m)
             /\ earlier.picks = RecommendationsFor(Judged(Followed, m).tier)
             /\ FitsSchema(Judged(Followed, m), RecommendationsFor(Judged(Followed, m).tier))
    BY DEF EarlierInv
  <1>2. /\ AsksModel(Followed)' <=> AsksModel(Followed)
        /\ AssessRaises(Followed)' <=> AssessRaises(Followed)
    BY JudgedAlike
  <1>3. ASSUME NEW m, Settles(Followed, m)'
        PROVE  /\ Settles(Followed, m)
               /\ Judged(Followed, m)' = Judged(Followed, m)
    BY <1>1, <1>2, <1>3, JudgedAlike DEF Settles
  <1>4. QED
    BY <1>1, <1>2, <1>3, ToldAlike DEF EarlierInv, NoAnswer

(* Start-up, a restart and a change of a file.                             *)
LEMMA AnswersOutliveStart ==
  ASSUME AnswersInv, Validate \/ LoadPolicy \/ LoadCatalog \/ BuildSemantic
  PROVE  AnswersInv'
  <1>1. /\ stage # "serving"
        /\ UNCHANGED <<model, loads, answer, earlier>>
    BY DEF Validate, LoadPolicy, LoadCatalog, BuildSemantic, Starting
  <1>2. model = Absent /\ loads = {} /\ earlier = NoAnswer /\ Undecided /\ answer.text = Absent
    BY <1>1 DEF AnswersInv, ModelInv, LoadsInv, AnswerInv, EarlierInv
  <1>3. QED
    BY <1>1, <1>2 DEF AnswersInv, ModelInv, LoadsInv, AnswerInv, EarlierInv, Undecided, NoAnswer

LEMMA AnswersGoneAtRestart ==
  ASSUME Restart
  PROVE  AnswersInv'
  BY DEF Restart, AnswersInv, ModelInv, LoadsInv, AnswerInv, EarlierInv, Undecided, NoAnswer

LEMMA AnswersOutliveEdit ==
  ASSUME AnswersInv, UNCHANGED <<settings, stage, app, model, loads, answer, earlier>>
  PROVE  AnswersInv'
  <1>1. ModelInv' /\ AnswerInv' /\ EarlierInv'
    BY ModelStays, AnswerStays, EarlierStays DEF AnswersInv
  <1>2. LoadsInv'
    BY LoadingStays DEF AnswersInv, LoadsInv
  <1>3. QED
    BY <1>1, <1>2 DEF AnswersInv

(* A refused request; l is there when it was reading the model.            *)
LEMMA AnswersAfterRefusal ==
  ASSUME AnswersInv, Serving, NEW text, NEW token, NEW outcome, Refuse(text, token, outcome),
         loads' \subseteq loads,
         \/ outcome = "unauthorized" /\ text = Absent
         \/ /\ text \in Prompts /\ Authorized(token)
            /\ \/ outcome = "assess_raised" /\ AssessRaises(text)
               \/ /\ outcome = "model_unreadable"
                  /\ ~ AssessRaises(text) /\ AsksModel(text) /\ NamesModel(app.policy)
  PROVE  AnswersInv'
  <1>1. UNCHANGED <<settings, app, stage, model, earlier>> /\ stage = "serving"
    BY DEF Refuse, Serving
  <1>2. ModelInv' /\ EarlierInv'
    BY <1>1, ModelStays, EarlierStays DEF AnswersInv
  <1>3. LoadsInv'
    BY <1>1, LoadingStays DEF AnswersInv, LoadsInv
  <1>4. answer'.text = text /\ answer'.token = token /\ answer'.outcome = outcome
    BY DEF Refuse, Respond
  <1>5. AnswerInv'
    <2>1. CASE outcome = "unauthorized" /\ text = Absent
      BY <1>4, <2>1 DEF AnswerInv, Undecided
    <2>2. CASE ~ (outcome = "unauthorized" /\ text = Absent)
      <3>1. text \in Prompts /\ Authorized(answer.token)'
        BY <1>1, <1>4, <2>2 DEF Authorized
      <3>2. /\ AsksModel(text)' <=> AsksModel(text)
            /\ AssessRaises(text)' <=> AssessRaises(text)
            /\ NamesModel(app.policy)' <=> NamesModel(app.policy)
        BY <1>1, JudgedAlike
      <3>3. MadeOf(text, Absent)'
        BY <1>4, <2>2, <3>2 DEF MadeOf
      <3>4. QED
        BY <1>1, <1>4, <3>1, <3>3 DEF AnswerInv
    <2>3. QED
      BY <2>1, <2>2
  <1>6. QED
    BY <1>2, <1>3, <1>5 DEF AnswersInv

(* A decided request, by the model it asked.                               *)
LEMMA AnswersAfterDecision ==
  ASSUME AnswersInv, Serving, NEW text \in Prompts, NEW token, NEW m,
         Authorized(token), ~ AssessRaises(text), Asked(text, m),
         AsksModel(text) => model' # Absent,
         Conclude(text, token, m), ModelInv', LoadsInv',
         model # Absent => UNCHANGED model
  PROVE  AnswersInv'
  <1> DEFINE d == Judged(text, m)
             picks == RecommendationsFor(d.tier)
             fits == FitsSchema(d, picks)
             said == [text |-> text, token |-> token,
                      outcome |-> IF fits THEN "decided" ELSE "misfit",
                      decision |-> d, picks |-> picks]
  <1>1. UNCHANGED <<settings, app, stage>> /\ stage = "serving"
    BY DEF Serving
  <1>2. /\ answer' = said
        /\ earlier' = IF earlier = NoAnswer /\ text = Followed /\ fits /\ m \in {Absent, model'}
                      THEN said ELSE earlier
    BY DEF Conclude, Respond, Judged
  <1>3. /\ AsksModel(text)' <=> AsksModel(text)
        /\ AssessRaises(text)' <=> AssessRaises(text)
        /\ Asked(text, m)' <=> Asked(text, m)
        /\ Judged(text, m)' = d
        /\ RecommendationsFor(Judged(text, m).tier)' = picks
        /\ FitsSchema(Judged(text, m), RecommendationsFor(Judged(text, m).tier))' <=> fits
    BY <1>1, JudgedAlike, ToldAlike
  <1>4. /\ said.text = text /\ said.token = token
        /\ said.outcome = IF fits THEN "decided" ELSE "misfit"
        /\ said.decision = d /\ said.picks = picks
    OBVIOUS
  <1> HIDE DEF said, fits, picks, d
  <1>5. AnswerInv'
    <2>1. MadeOf(text, m)'
      BY <1>2, <1>3, <1>4 DEF MadeOf
    <2>2. Authorized(answer.token)'
      BY <1>1, <1>2, <1>4 DEF Authorized
    <2>3. QED
      BY <1>1, <1>2, <1>4, <2>1, <2>2 DEF AnswerInv
  <1>6. EarlierInv'
    <2>1. CASE earlier' = earlier
      BY <1>1, <2>1, EarlierStays DEF AnswersInv
    <2>2. CASE text = Followed /\ fits /\ m \in {Absent, model'} /\ earlier' = said
      <3>1. ASSUME NEW n, Settles(Followed, n)'
            PROVE  n = m
        <4>1. AsksModel(text) => m # Absent
          BY DEF Asked, Loaded, NoModel
        <4>2. QED
          BY <1>3, <2>2, <3>1, <4>1 DEF Settles, Asked
      <3>2. QED
        BY <1>1, <1>3, <1>4, <2>2, <3>1 DEF EarlierInv
    <2>3. QED
      BY <1>2, <2>1, <2>2
  <1>7. QED
    BY <1>5, <1>6 DEF AnswersInv

LEMMA AnswersAfterUnauthorized ==
  ASSUME AnswersInv, Serving, NEW token \in Tokens, Unauthorized(token)
  PROVE  AnswersInv'
  BY AnswersAfterRefusal DEF Unauthorized

LEMMA AnswersAfterFail ==
  ASSUME AnswersInv, Serving, NEW text \in Prompts, NEW token \in Tokens, Fail(text, token)
  PROVE  AnswersInv'
  BY AnswersAfterRefusal DEF Fail

LEMMA AnswersAfterClassify ==
  ASSUME AnswersInv, Serving, NEW text \in Prompts, NEW token \in Tokens,
         HandleClassify(text, token)
  PROVE  AnswersInv'
  <1> DEFINE m == IF AsksModel(text) THEN model ELSE Absent
  <1>1. UNCHANGED <<settings, app, stage, model, loads>>
    BY DEF Serving, HandleClassify
  <1>2. /\ Authorized(token) /\ ~ AssessRaises(text)
        /\ AsksModel(text) => model' # Absent
        /\ Conclude(text, token, m)
    BY <1>1 DEF HandleClassify
  <1>3. Asked(text, m)
    BY <1>1, <1>2 DEF Asked, AnswersInv, ModelInv
  <1>4. ModelInv'
    BY <1>1, ModelStays DEF AnswersInv
  <1>5. LoadsInv'
    BY <1>1, LoadingStays DEF AnswersInv, LoadsInv
  <1> HIDE DEF m
  <1>6. QED
    BY <1>1, <1>2, <1>3, <1>4, <1>5, AnswersAfterDecision

(* What the file holds, when it can be read, is a model.                   *)
LEMMA FileLoads ==
  /\ ModelFile \notin NoModel => Loaded(ModelFile)
  /\ ModelFile \in NoModel => NamesModel(app.policy)
  BY StartUpAssumption DEF ModelFile, NoModel, Loaded

LEMMA AnswersAfterBegin ==
  ASSUME AnswersInv, Serving, NEW text \in Prompts, NEW token \in Tokens,
         BeginLoad(text, token)
  PROVE  AnswersInv'
  <1> DEFINE begun == [text |-> text, token |-> token, read |-> Absent]
  <1>1. UNCHANGED <<settings, app, stage, model, answer, earlier>> /\ stage = "serving"
    BY DEF Serving, BeginLoad
  <1>2. ModelInv' /\ AnswerInv' /\ EarlierInv'
    BY <1>1, ModelStays, AnswerStays, EarlierStays DEF AnswersInv
  <1>3. Loading(begun)
    BY DEF Loading, BeginLoad
  <1>4. loads' = loads \cup {begun}
    BY DEF BeginLoad
  <1> HIDE DEF begun
  <1>5. \A l \in loads' : Loading(l)
    BY <1>3, <1>4 DEF AnswersInv, LoadsInv
  <1>6. LoadsInv'
    BY <1>1, <1>5, LoadingStays DEF LoadsInv
  <1>7. QED
    BY <1>2, <1>6 DEF AnswersInv

LEMMA AnswersAfterRead ==
  ASSUME AnswersInv, Serving, NEW l \in loads, ReadModel(l)
  PROVE  AnswersInv'
  <1> DEFINE done == [l EXCEPT !.read = ModelFile]
  <1>1. UNCHANGED <<settings, app, stage, model, answer, earlier>> /\ stage = "serving"
    BY DEF Serving, ReadModel
  <1>2. ModelInv' /\ AnswerInv' /\ EarlierInv'
    BY <1>1, ModelStays, AnswerStays, EarlierStays DEF AnswersInv
  <1>3. Loading(l)
    BY DEF AnswersInv, LoadsInv
  <1>4. Loading(done)
    <2>1. done.text = l.text /\ done.token = l.token
      OBVIOUS
    <2>2. done.read # Absent => Loaded(done.read)
      <3>1. Loaded(ModelFile)
        BY FileLoads DEF ReadModel
      <3>2. done.read = ModelFile
        BY <1>3 DEF Loading
      <3>3. QED
        BY <3>1, <3>2
    <2>3. DOMAIN done = {"text", "token", "read"}
      BY <1>3 DEF Loading
    <2> HIDE DEF done
    <2>4. QED
      BY <1>3, <2>1, <2>2, <2>3 DEF Loading
  <1>5. loads' = (loads \ {l}) \cup {done}
    BY DEF ReadModel
  <1> HIDE DEF done
  <1>6. \A k \in loads' : Loading(k)
    BY <1>4, <1>5 DEF AnswersInv, LoadsInv
  <1>7. LoadsInv'
    BY <1>1, <1>6, LoadingStays DEF LoadsInv
  <1>8. QED
    BY <1>2, <1>7 DEF AnswersInv

LEMMA AnswersAfterFailToRead ==
  ASSUME AnswersInv, Serving, NEW l \in loads, FailToRead(l)
  PROVE  AnswersInv'
  <1>1. Loading(l)
    BY DEF AnswersInv, LoadsInv
  <1>2. loads' \subseteq loads /\ Refuse(l.text, l.token, "model_unreadable")
        /\ NamesModel(app.policy)
    BY FileLoads DEF FailToRead
  <1>3. QED
    BY <1>1, <1>2, AnswersAfterRefusal DEF Loading

LEMMA AnswersAfterFinish ==
  ASSUME AnswersInv, Serving, NEW l \in loads, FinishLoad(l)
  PROVE  AnswersInv'
  <1>1. UNCHANGED <<settings, app, stage>> /\ stage = "serving"
    BY DEF Serving
  <1>2. Loading(l) /\ Loaded(l.read) /\ l.read # Absent
    BY DEF AnswersInv, LoadsInv, FinishLoad, Loading
  <1>3. /\ model' = IF model = Absent THEN l.read ELSE model
        /\ loads' = loads \ {l}
        /\ Conclude(l.text, l.token, l.read)
    BY DEF FinishLoad, Keep
  <1>4. Loaded(model')
    BY <1>2, <1>3 DEF AnswersInv, ModelInv
  <1>5. ModelInv'
    BY <1>1, <1>4, JudgedAlike DEF ModelInv, Loaded, NamesModel
  <1>6. LoadsInv'
    BY <1>1, <1>3, LoadingStays DEF AnswersInv, LoadsInv
  <1>7. /\ l.text \in Prompts /\ Authorized(l.token) /\ ~ AssessRaises(l.text)
        /\ Asked(l.text, l.read) /\ model' # Absent
        /\ model # Absent => UNCHANGED model
    BY <1>2, <1>3 DEF Loading, Asked
  <1>8. QED
    BY <1>3, <1>5, <1>6, <1>7, AnswersAfterDecision

LEMMA AnswersInvariant == StartUpSpec => []AnswersInv
  <1>1. StartUpInit => AnswersInv
    BY DEF StartUpInit, AnswersInv, ModelInv, LoadsInv, AnswerInv, EarlierInv, Undecided, NoAnswer
  <1>2. AnswersInv /\ [StartUpNext]_startUpVars => AnswersInv'
    <2> SUFFICES ASSUME AnswersInv, [StartUpNext]_startUpVars
                 PROVE  AnswersInv'
      OBVIOUS
    <2>1. ASSUME NEW e \in Edits, Edit(e)
          PROVE  AnswersInv'
      BY <2>1, AnswersOutliveEdit DEF Edit
    <2>2. CASE UNCHANGED startUpVars
      BY <2>2, AnswersOutliveEdit DEF startUpVars
    <2>3. QED
      BY <2>1, <2>2, StepKinds, AnswersOutliveStart, AnswersGoneAtRestart,
         AnswersAfterUnauthorized, AnswersAfterFail, AnswersAfterClassify, AnswersAfterBegin,
         AnswersAfterRead, AnswersAfterFailToRead, AnswersAfterFinish
  <1>3. QED
    BY <1>1, <1>2, PTL DEF StartUpSpec

-----------------------------------------------------------------------------
(* What holds of the answers *)

StartedInv == AcceptedInv /\ AnswersInv

LEMMA StartedInvariant == StartUpSpec => []StartedInv
  <1>1. FilesInv /\ AcceptedInv /\ AnswersInv => StartedInv
    BY DEF StartedInv
  <1>2. QED
    BY <1>1, FilesInvariant, AnswersInvariant, PTL

LEMMA LastAnswer ==
  ASSUME StartedInv, ~ Undecided
  PROVE  /\ stage = "serving"
         /\ answer.text \in Prompts
         /\ Authorized(answer.token)
         /\ \E m : MadeOf(answer.text, m)
  BY DEF StartedInv, AnswersInv, AnswerInv

(* In production every answer is to a caller that named a key.             *)
THEOREM StartUpProductionIsClosed == StartUpSpec => []ProductionIsClosed
  <1>1. StartedInv => ProductionIsClosed
    <2> SUFFICES ASSUME StartedInv, settings.environment = "production", ~ Undecided
                 PROVE  answer.token \in ToSet(settings.clientKeys) /\ answer.token # Blank
      BY DEF ProductionIsClosed, Undecided
    <2>1. stage = "serving" /\ Authorized(answer.token)
      BY LastAnswer
    <2>2. ApiKeys(settings) # {}
      BY <2>1 DEF StartedInv, AcceptedInv, Valid
    <2>3. answer.token \in ApiKeys(settings)
      BY <2>1, <2>2 DEF Authorized
    <2>4. QED
      BY <2>3 DEF ApiKeys
  <1>2. QED
    BY <1>1, StartedInvariant, PTL

(* The tiers of a decision, and what the catalog has for them.             *)
LEMMA TierOfAction ==
  ASSUME NEW p, NEW r, NEW h, NEW f
  PROVE  Decide(p, r, h, f).action = "route" <=> Decide(p, r, h, f).tier \in ActionableTiers
  <1>1. Insufficient.tier \notin ActionableTiers /\ Insufficient.action # "route"
    BY DEF Insufficient, ActionableTiers
  <1>2. Escalated.tier \notin ActionableTiers /\ Escalated.action # "route"
    BY DEF Escalated, ActionableTiers
  <1>3. Routed(p, r, h).tier \in ActionableTiers /\ Routed(p, r, h).action = "route"
    BY DEF Routed, Tier, ActionableTiers
  <1>4. QED
    BY <1>1, <1>2, <1>3 DEF Decide

LEMMA PicksOfTier ==
  ASSUME AcceptedInv, stage = "serving", NEW tier
  PROVE  /\ tier \in ActionableTiers =>
              /\ RecommendationsFor(tier) = app.catalog.tiers[tier]
              /\ RecommendationsFor(tier) # <<>>
              /\ Len(RecommendationsFor(tier)) \in Nat
         /\ tier \notin ActionableTiers => RecommendationsFor(tier) = <<>>
  <1>1. CatalogAccepted(app.catalog) /\ app.catalog \in FileContents("catalog")
    BY DEF AcceptedInv
  <1>2. /\ app.catalog # Absent
        /\ ActionableTiers \subseteq DOMAIN app.catalog.tiers
        /\ \A t \in ActionableTiers : app.catalog.tiers[t] # <<>>
    BY <1>1 DEF CatalogAccepted, CheckKeys
  <1>3. \A t \in ActionableTiers : Len(app.catalog.tiers[t]) \in Nat
    BY <1>1, <1>2, StartUpAssumption
  <1>4. QED
    BY <1>2, <1>3 DEF RecommendationsFor

(* Models are recommended exactly with a decision to route.                *)
THEOREM StartUpPicksFollowAction == StartUpSpec => []PicksFollowAction
  <1>1. StartedInv => PicksFollowAction
    <2> SUFFICES ASSUME StartedInv, AnswerDecided
                 PROVE  answer.picks # <<>> <=> answer.decision.action = "route"
      BY DEF PicksFollowAction
    <2>1. ~ Undecided
      BY DEF AnswerDecided, Undecided
    <2>2. PICK m : MadeOf(answer.text, m)
      BY <2>1, LastAnswer
    <2>3. /\ answer.decision = Judged(answer.text, m)
          /\ answer.picks = RecommendationsFor(Judged(answer.text, m).tier)
      BY <2>2 DEF MadeOf, AnswerDecided
    <2>4. Judged(answer.text, m).action = "route" <=> Judged(answer.text, m).tier \in ActionableTiers
      BY TierOfAction DEF Judged
    <2>5. stage = "serving"
      BY <2>1, LastAnswer
    <2>6. QED
      BY <2>3, <2>4, <2>5, PicksOfTier DEF StartedInv
  <1>2. QED
    BY <1>1, StartedInvariant, PTL

(* The votes that decide are sound, whatever bank and settings were read.  *)
THEOREM StartUpVotesAreSound == StartUpSpec => []VotesAreSound
  <1>1. StartedInv => VotesAreSound
    <2> SUFFICES ASSUME StartedInv, AnswerDecided, settings.semantic, ~ answer.text.blank
                 PROVE  /\ MoreRiskNeverLess(Poll(answer.text))
                        /\ TaskVoteIgnoresRisk(Poll(answer.text))
      BY DEF VotesAreSound
    <2>1. ~ Undecided
      BY DEF AnswerDecided, Undecided
    <2>2. stage = "serving" /\ answer.text \in Prompts
      BY <2>1, LastAnswer
    <2>3. PICK m : MadeOf(answer.text, m)
      BY <2>1, LastAnswer
    <2>4. ~ Raises(Poll(answer.text))
      BY <2>3 DEF MadeOf, AnswerDecided, AssessRaises
    <2>5. IsPoll(Poll(answer.text))
      BY <2>2, PollOfText DEF StartedInv
    <2>6. QED
      BY <2>4, <2>5, PollMoreRiskNeverLess, PollTaskVoteIgnoresRisk
  <1>2. QED
    BY <1>1, StartedInvariant, PTL

(* A text the model is asked about is routed as a fallback without it.     *)
LEMMA BareRoute ==
  ASSUME NEW text, AsksModel(text), ActivePolicy \in Policy
  PROVE  LET bare == Decide([ActivePolicy EXCEPT !.learned = FALSE], Read(text, Absent),
                            text.hasTools, text.flagged)
         IN  bare.action = "route" /\ bare.task \in Fallback
  <1> DEFINE r == Read(text, Absent)
             p == ActivePolicy
             q == [p EXCEPT !.learned = FALSE]
  <1>1. /\ ~ r.blank /\ ~ HighStakes(r, text.flagged)
        /\ RuleTask(p, r) \in Fallback
        /\ ~ UsesVote(p, r)
    BY DEF AsksModel
  <1> HIDE DEF r, p
  <1>2. p \in Policy
    BY DEF p
  <1>3. /\ RuleTask(q, r) = RuleTask(p, r)
        /\ UsesVote(q, r) = UsesVote(p, r)
        /\ ~ UsesModel(q, r)
    BY <1>2, RulesIgnoreModel
  <1> HIDE DEF q
  <1>4. Task(q, r) \in Fallback
    BY <1>1, <1>3 DEF Task
  <1>5. /\ Decide(q, r, text.hasTools, text.flagged).action = "route"
        /\ Decide(q, r, text.hasTools, text.flagged).task = Task(q, r)
    BY <1>1 DEF Decide, Routed
  <1>6. QED
    BY <1>4, <1>5 DEF p, q, r

(* After an accepted start only the faults listed are left.                *)
THEOREM StartUpAcceptedDecides == StartUpSpec => []AcceptedDecides
  <1>1. StartedInv => AcceptedDecides
    <2> SUFFICES ASSUME StartedInv PROVE AcceptedDecides
      OBVIOUS
    <2>1. CASE Undecided
      BY <2>1 DEF Undecided, AcceptedDecides
    <2>2. CASE ~ Undecided
      <3> DEFINE text == answer.text
      <3>1. /\ stage = "serving" /\ text \in Prompts
            /\ \E m : MadeOf(text, m)
        BY <2>2, LastAnswer
      <3>2. PICK m : MadeOf(text, m)
        BY <3>1
      <3>3. PolicyValid(app.policy) /\ app.policy \in FileContents("policy")
        BY <3>1 DEF StartedInv, AcceptedInv
      <3>4. ActivePolicy \in Policy /\ app.policy.version \in {"plain", "line"}
        BY <3>3, ValidParses DEF ActivePolicy
      <3>5. ASSUME answer.outcome = "assess_raised"
            PROVE  0 \in {app.policy.numbers["riskShare"], app.policy.numbers["minSimilarity"]}
        <4>1. settings.semantic /\ Raises(Poll(text))
          BY <3>2, <3>5 DEF MadeOf, AssessRaises
        <4>2. IsPoll(Poll(text))
          BY <3>1, <4>1, PollOfText DEF StartedInv
        <4>3. Poll(text).riskShare = 0 \/ Poll(text).minSimilarity = 0
          BY <4>1, <4>2, RaisesOnlyAtZero
        <4>4. QED
          BY <4>3 DEF Poll
      <3>6. ASSUME answer.outcome = "misfit",
                   app.policy.version # "line",
                   ~ (NamesModel(app.policy) /\ model # Absent)
            PROVE  \E tier \in ActionableTiers : Len(app.catalog.tiers[tier]) > MaxRecommendations
        <4> DEFINE d == Judged(text, m)
        <4>1. /\ ~ AssessRaises(text)
              /\ AsksModel(text) => model # Absent
              /\ Asked(text, m)
              /\ ~ FitsSchema(d, RecommendationsFor(d.tier))
          BY <3>2, <3>6 DEF MadeOf
        <4>2. m \in {Absent, "bundled"}
          BY <3>6, <4>1 DEF Asked, Loaded
        <4>3. d \in Decision
          <5>1. Read(text, m) \in Reading
            BY <3>1, <4>1, <4>2, ReadType DEF StartedInv
          <5>2. text.hasTools \in BOOLEAN /\ text.flagged \in BOOLEAN
            BY <3>1, StartUpAssumption
          <5>3. QED
            BY <3>4, <5>1, <5>2, DecideType DEF Judged
        <4> HIDE DEF d
        <4>4. ~ (Len(RecommendationsFor(d.tier)) <= MaxRecommendations)
          BY <3>4, <3>6, <4>1, <4>3 DEF FitsSchema
        <4>5. CASE d.tier \in ActionableTiers
          <5>1. /\ RecommendationsFor(d.tier) = app.catalog.tiers[d.tier]
                /\ Len(RecommendationsFor(d.tier)) \in Nat
            BY <3>1, <4>5, PicksOfTier DEF StartedInv
          <5>2. Len(app.catalog.tiers[d.tier]) > MaxRecommendations
            BY <4>4, <5>1 DEF MaxRecommendations
          <5>3. QED
            BY <4>5, <5>2
        <4>6. CASE d.tier \notin ActionableTiers
          BY <3>1, <4>4, <4>6, PicksOfTier DEF StartedInv, MaxRecommendations
        <4>7. QED
          BY <4>5, <4>6
      <3>7. ASSUME answer.outcome = "model_unreadable"
            PROVE  AsksModel(text) /\ NamesModel(app.policy)
        BY <3>2, <3>7 DEF MadeOf
      <3>8. QED
        BY <3>4, <3>5, <3>6, <3>7, BareRoute DEF AcceptedDecides
    <2>3. QED
      BY <2>1, <2>2
  <1>2. QED
    BY <1>1, StartedInvariant, PTL

(* What was remembered is said again by every request that asks the model  *)
(* that is kept, or none.                                                  *)
LEMMA ConcludedAlike ==
  ASSUME EarlierInv, earlier # NoAnswer, NEW token, NEW m, Settles(Followed, m),
         Conclude(Followed, token, m)
  PROVE  /\ answer'.outcome = "decided"
         /\ answer'.decision = earlier.decision
         /\ answer'.picks = earlier.picks
  <1> DEFINE d == Judged(Followed, m)
             picks == RecommendationsFor(d.tier)
  <1>1. earlier.decision = d /\ earlier.picks = picks /\ FitsSchema(d, picks)
    BY DEF EarlierInv
  <1>2. answer' = [text |-> Followed, token |-> token,
                   outcome |-> IF FitsSchema(d, picks) THEN "decided" ELSE "misfit",
                   decision |-> d, picks |-> picks]
    BY DEF Conclude, Respond, Judged
  <1> HIDE DEF d, picks
  <1>3. QED
    BY <1>1, <1>2

LEMMA NextAnswerAlike ==
  ASSUME StartedInv, [StartUpNext]_startUpVars, earlier # NoAnswer, answer' # answer,
         answer'.text = Followed, \A l \in loads \ loads' : l.read = model
  PROVE  /\ answer'.outcome = "decided"
         /\ answer'.decision = earlier.decision
         /\ answer'.picks = earlier.picks
  <1>1. /\ EarlierInv /\ ~ AssessRaises(Followed)
        /\ AsksModel(Followed) => model # Absent
    BY DEF StartedInv, AnswersInv, EarlierInv
  <1>2. Followed # Absent
    BY StartUpAssumption
  <1>3. CASE Validate \/ LoadPolicy \/ LoadCatalog \/ BuildSemantic
    BY <1>3 DEF Validate, LoadPolicy, LoadCatalog, BuildSemantic, Starting
  <1>4. CASE Restart
    BY <1>2, <1>4 DEF Restart, NoAnswer
  <1>5. ASSUME NEW e \in Edits, Edit(e)
        PROVE  FALSE
    BY <1>5 DEF Edit
  <1>6. ASSUME NEW token \in Tokens, Unauthorized(token)
        PROVE  FALSE
    BY <1>2, <1>6 DEF Unauthorized, Refuse, Respond
  <1>7. ASSUME NEW t \in Prompts, NEW token \in Tokens, Fail(t, token)
        PROVE  FALSE
    BY <1>1, <1>7 DEF Fail, Refuse, Respond
  <1>8. ASSUME NEW t \in Prompts, NEW token \in Tokens, BeginLoad(t, token)
        PROVE  FALSE
    BY <1>8 DEF BeginLoad
  <1>9. ASSUME NEW l \in loads, ReadModel(l)
        PROVE  FALSE
    BY <1>9 DEF ReadModel
  <1>10. ASSUME NEW t \in Prompts, NEW token \in Tokens, HandleClassify(t, token)
         PROVE  /\ answer'.outcome = "decided"
                /\ answer'.decision = earlier.decision
                /\ answer'.picks = earlier.picks
    <2> DEFINE m == IF AsksModel(Followed) THEN model ELSE Absent
    <2>1. t = Followed
      BY <1>10 DEF HandleClassify, Conclude, Respond
    <2>2. Conclude(Followed, token, m) /\ Settles(Followed, m)
      BY <1>10, <2>1 DEF HandleClassify, Settles
    <2> HIDE DEF m
    <2>3. QED
      BY <1>1, <2>2, ConcludedAlike
  <1>11. ASSUME NEW l \in loads, FailToRead(l) \/ FinishLoad(l)
         PROVE  /\ answer'.outcome = "decided"
                /\ answer'.decision = earlier.decision
                /\ answer'.picks = earlier.picks
    <2>1. l.text = Followed /\ l.read = model /\ AsksModel(Followed)
      <3>1. l \in loads \ loads' /\ Loading(l)
        BY <1>11 DEF FailToRead, FinishLoad, StartedInv, AnswersInv, LoadsInv
      <3>2. l.text = Followed
        BY <1>11 DEF FailToRead, FinishLoad, Refuse, Conclude, Respond
      <3>3. QED
        BY <3>1, <3>2 DEF Loading
    <2>2. FinishLoad(l)
      BY <1>1, <1>11, <2>1 DEF FailToRead
    <2>3. Conclude(Followed, l.token, l.read) /\ Settles(Followed, l.read)
      BY <2>1, <2>2 DEF FinishLoad, Settles
    <2>4. QED
      BY <1>1, <2>3, ConcludedAlike
  <1>12. QED
    BY <1>3, <1>4, <1>5, <1>6, <1>7, <1>8, <1>9, <1>10, <1>11, StepKinds DEF startUpVars

(* Until a restart, what the model that is kept, or none, has decided once *)
(* is decided alike by every request that was not itself reading another.  *)
THEOREM StartUpDecisionsHold == StartUpSpec => DecisionsHold
  <1>1. StartedInv /\ [StartUpNext]_startUpVars
          => [ (/\ earlier # NoAnswer
                /\ answer' # answer
                /\ answer'.text = Followed
                /\ \A l \in loads \ loads' : l.read = model)
                 => /\ answer'.outcome = "decided"
                    /\ answer'.decision = earlier.decision
                    /\ answer'.picks = earlier.picks ]_startUpVars
    BY NextAnswerAlike
  <1>2. QED
    BY <1>1, StartedInvariant, PTL DEF StartUpSpec, DecisionsHold
=============================================================================
