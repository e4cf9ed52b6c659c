------------------------------- MODULE StartUp -------------------------------
(***************************************************************************)
(* A service from its configuration to its decisions: create_app checks    *)
(* the settings, then reads the policy, the catalog and the exemplar bank  *)
(* (api.py:97-104,130-146); the task model is read by the first requests   *)
(* that need it (classifier.py:101-113), each in a thread of the pool      *)
(* (api.py:181) and none waiting for another.  The operator may change a   *)
(* file at any time and restart the process.                               *)
(*                                                                         *)
(* A file is what its parser sees: which keys are there, which values are  *)
(* of the right shape, and the numbers themselves (in percent).  Requests  *)
(* are ones the decision cache has no answer for.                          *)
(***************************************************************************)
EXTENDS SemanticVote, SequencesExt

CONSTANTS
  Setups,        \* what a service may start with: [settings, disk]
  Edits,         \* what the operator may do: [file, content]
  Prompts,       \* [blank, matches, short, order, similarities, predicted, hasTools, flagged]
  Tokens,        \* bearer tokens of callers
  Followed,      \* the text whose first answer is remembered
  MaxEdits, MaxRestarts,
  MaxLoads,      \* requests reading the task model at a time
  Absent,        \* no such file, nothing loaded
  Torn,          \* a model file from_bytes does not take
  BundledBank    \* exemplars.json of the package

FileNames == {"policy", "catalog", "bank", "model"}

(* What a file may be, at the start or after a change.                     *)
FileContents(name) ==
  {setup.disk[name] : setup \in Setups} \cup {e.content : e \in {d \in Edits : d.file = name}}

Banks == (FileContents("bank") \cup {BundledBank}) \ {Absent}

(* Files are of the shape their parser checks first; a text is somewhere   *)
(* near every exemplar; and the model of the package knows the task types. *)
ASSUME StartUpAssumption ==
  /\ \A setup \in Setups : DOMAIN setup.disk = FileNames
  /\ \A e \in Edits : e.file \in FileNames
  /\ \A f \in FileContents("policy") \ {Absent} :
       f.order \in Seq(STRING) /\ f.k \in Int /\ f.learned \in BOOLEAN
  /\ \A c \in FileContents("catalog") \ {Absent} :
       \A tier \in DOMAIN c.tiers : Len(c.tiers[tier]) \in Nat
  /\ \A b \in Banks : b \in Seq([prefixed : BOOLEAN, name : STRING])
  /\ \A text \in Prompts :
       /\ text.blank \in BOOLEAN /\ text.short \in BOOLEAN
       /\ text.hasTools \in BOOLEAN /\ text.flagged \in BOOLEAN
       /\ text.matches \subseteq PatternNames
       /\ text.predicted["bundled"] \in Prediction
       /\ \A b \in Banks : \A i \in 1..Len(b) :
            text.order[i] \in 1..Len(b) /\ text.similarities[i] \in Int
  /\ Followed \in Prompts
  /\ Absent \notin Prompts \cup {Torn}
  /\ "bundled" \notin {Absent, Torn}

VARIABLES
  settings,
  disk,          \* [policy, catalog, bank, model]
  stage,         \* what create_app does next, "serving" or "refused"
  app,           \* [policy, catalog, bank] as read at start-up
  model,         \* the task model _task_model has cached
  loads,         \* requests _task_model had nothing for: [text, token, read]
  answer,        \* the last request: [text, token, outcome, decision, picks]
  earlier,       \* what Followed was first told by the model kept, or by none
  edits, restarts

startUpVars ==
  <<settings, disk, stage, app, model, loads, answer, earlier, edits, restarts>>

Unloaded == [policy |-> Absent, catalog |-> Absent, bank |-> Absent]
NoAnswer == [text |-> Absent, token |-> Absent, outcome |-> "none",
             decision |-> Insufficient, picks |-> <<>>]

-----------------------------------------------------------------------------
(* Settings *)

Blank == " "
ApiKeys(s) == ToSet(s.clientKeys) \ {Blank}

(* Bug: production needs CLIENT_API_KEYS to be set, whatever is in it. *)
ValidIfSet(s) ==
  /\ s.environment \in {"development", "production"}
  /\ s.environment = "production" => s.clientKeys # <<>>

Valid(s) ==
  /\ s.environment \in {"development", "production"}
  /\ s.maxRequestBytes >= 1024
  /\ s.maxMessages >= 1
  /\ s.cacheMaxEntries >= 1
  /\ s.environment = "production" => ApiKeys(s) # {}
  /\ s.logDecisions => s.decisionLogPath
  /\ s.enableFeedback => s.feedbackLogPath
  /\ s.enableProxy => s.proxyBaseUrl /\ s.proxyApiKey
  /\ s.proxyTimeout > 0
  /\ s.rateLimit >= 0

-----------------------------------------------------------------------------
(* Policy *)

CheckKeys(section, expected, optional) ==
  section \subseteq expected \cup optional /\ expected \subseteq section

Categories(values, allowed) ==
  values # <<>> /\ ToSet(values) \subseteq allowed /\ IsInjective(values)

PolicyKeys ==
  {"version", "patterns", "category_order", "mixed_signal_categories", "chat_max_words",
   "confidence", "semantic"}
Shares == {"riskShare", "minSimilarity", "overrideShare"}
Confidences == {"ruleMatch", "greeting", "fallback", "mixedCap", "semanticBase", "semanticScale"}
NamesModel(f) == "learned" \in f.keys /\ f.namesModel
LearnedShares(f) == IF "learned" \in f.keys THEN {"minProbability"} ELSE {}

(* Bug: numbers are not held against their range. *)
NumbersAnyRange(f) ==
  CheckKeys(DOMAIN f.numbers, Shares \cup Confidences \cup LearnedShares(f), {})

(* _unit, of every number with a meaning of a share. *)
Numbers(f) ==
  /\ CheckKeys(DOMAIN f.numbers, Shares \cup Confidences \cup LearnedShares(f), {})
  /\ \A n \in DOMAIN f.numbers : f.numbers[n] \in Percent

(* A version is "plain", "line" when a line break follows it, which "$" of *)
(* the pattern admits, or "odd".                                           *)
VersionMatches(version) == version \in {"plain", "line"}

(* What is checked of the file itself.                                     *)
PolicyValid(f) ==
  /\ f # Absent
  /\ CheckKeys(f.keys, PolicyKeys, {"learned"})
  /\ VersionMatches(f.version)
  /\ CheckKeys(DOMAIN f.patterns, PatternNames \cup {"ambiguous"}, {})
  /\ \A name \in DOMAIN f.patterns : f.patterns[name] = "compiles"
  /\ Categories(f.order, Orderable)
  /\ Categories(f.mixed, Mixable)
  /\ f.chatMaxWords >= 1
  /\ Numbers(f)
  /\ f.k >= 1

(* The files a policy names must be there; they are not opened yet. *)
PolicyAccepted(f) ==
  /\ PolicyValid(f)
  /\ f.namesBank => disk.bank # Absent
  /\ NamesModel(f) => disk.model # Absent

(* The policy of the classifier; "learned" may be missing as a whole. *)
Parsed(f) ==
  LET n == f.numbers
      learned == "learned" \in f.keys
  IN  [order |-> f.order, mixable |-> ToSet(f.mixed), overrideShare |-> n["overrideShare"],
       learned |-> learned => f.learned,
       minProbability |-> IF learned THEN n["minProbability"] ELSE 60,
       ruleMatch |-> n["ruleMatch"], greeting |-> n["greeting"], fallback |-> n["fallback"],
       mixedCap |-> n["mixedCap"], semanticBase |-> n["semanticBase"],
       semanticScale |-> n["semanticScale"]]

-----------------------------------------------------------------------------
(* Catalog *)

ActionableTiers == {"economy", "standard", "capable", "reasoning"}
PickKeys == {"provider", "model", "input_cost_per_million", "output_cost_per_million"}

PickAccepted(pick) ==
  /\ CheckKeys(pick.keys, PickKeys, {"notes"})
  /\ pick.named
  /\ pick.cost >= 0

(* Bug: a tier may be empty. *)
CatalogWithEmptyTiers(c) ==
  /\ c # Absent
  /\ CheckKeys(DOMAIN c.tiers, ActionableTiers, {})

CatalogAccepted(c) ==
  /\ c # Absent
  /\ CheckKeys(c.keys, {"version", "currency", "tiers"}, {})
  /\ VersionMatches(c.version)
  /\ c.currency
  /\ CheckKeys(DOMAIN c.tiers, ActionableTiers, {})
  /\ \A tier \in ActionableTiers :
       c.tiers[tier] # <<>> /\ \A i \in DOMAIN c.tiers[tier] : PickAccepted(c.tiers[tier][i])

RecommendationsFor(tier) ==
  IF tier \in ActionableTiers THEN app.catalog.tiers[tier] ELSE <<>>

(* The bank: parsed, not empty, every label in the vocabulary. *)
BankAccepted(b) == b # Absent /\ b # <<>> /\ \A i \in 1..Len(b) : Known(b[i])

-----------------------------------------------------------------------------
(* One request *)

ActivePolicy == Parsed(app.policy)

Poll(text) ==
  [labels        |-> [i \in 1..Len(app.bank) |-> app.bank[text.order[i]]],
   similarities  |-> text.similarities,
   k             |-> app.policy.k,
   riskShare     |-> app.policy.numbers["riskShare"],
   minSimilarity |-> app.policy.numbers["minSimilarity"]]

(* What the text reads as; m is the task model, if it is asked. *)
Read(text, m) ==
  [blank |-> text.blank, matches |-> text.matches, short |-> text.short,
   verdict   |-> IF settings.semantic /\ ~ text.blank THEN Assessed(Poll(text)) ELSE NoVerdict,
   predicted |-> IF m = Absent THEN [label |-> "other", probability |-> 0]
                 ELSE text.predicted[m]]

AsksModel(text) ==
  LET r == Read(text, Absent)
  IN  /\ ~ r.blank
      /\ ~ HighStakes(r, text.flagged)
      /\ ActivePolicy.learned
      /\ RuleTask(ActivePolicy, r) \in Fallback
      /\ ~ UsesVote(ActivePolicy, r)
      /\ ~ Greets(ActivePolicy, r)

AssessRaises(text) == settings.semantic /\ ~ text.blank /\ Raises(Poll(text))

(* load_task_model(path) reads it. *)
ModelFile == IF NamesModel(app.policy) THEN disk.model ELSE "bundled"
NoModel == {Absent, Torn}

(* Bug: the last load to end is the one kept, as with a dict of one's own. *)
KeepLast(read) == read

(* lru_cache calls the function outside its lock; of loads that overlap it *)
(* keeps the first to end, and it keeps no exception.                      *)
Keep(read) == IF model = Absent THEN read ELSE model

MaxRecommendations == 8

(* What ClassificationDecision validates (schemas.py:44-57). *)
FitsSchema(decision, picks) ==
  /\ decision \in Decision
  /\ app.policy.version = "plain"
  /\ Len(picks) <= MaxRecommendations

Respond(text, token, outcome, decision, picks) ==
  answer' = [text |-> text, token |-> token, outcome |-> outcome,
             decision |-> decision, picks |-> picks]

Refuse(text, token, outcome) ==
  Respond(text, token, outcome, Insufficient, <<>>) /\ UNCHANGED <<model, earlier>>

(* The text is decided with m, the task model of this request if it asks.  *)
Conclude(text, token, m) ==
  LET decision == Decide(ActivePolicy, Read(text, m), text.hasTools, text.flagged)
      picks == RecommendationsFor(decision.tier)
      fits == FitsSchema(decision, picks)
  IN  /\ Respond(text, token, IF fits THEN "decided" ELSE "misfit", decision, picks)
      /\ earlier' = IF /\ earlier = NoAnswer /\ text = Followed /\ fits
                       /\ m \in {Absent, model'}
                    THEN answer' ELSE earlier

Authorized(token) == ApiKeys(settings) # {} => token \in ApiKeys(settings)

-----------------------------------------------------------------------------
StartUpInit ==
  /\ \E setup \in Setups : settings = setup.settings /\ disk = setup.disk
  /\ stage = "settings"
  /\ app = Unloaded
  /\ model = Absent
  /\ loads = {}
  /\ answer = NoAnswer
  /\ earlier = NoAnswer
  /\ edits = 0
  /\ restarts = 0

Starting(from, accepted, to) ==
  /\ stage = from
  /\ stage' = IF accepted THEN to ELSE "refused"
  /\ UNCHANGED <<settings, disk, model, loads, answer, earlier, edits, restarts>>

Validate == Starting("settings", Valid(settings), "policy") /\ UNCHANGED app

LoadPolicy ==
  /\ Starting("policy", PolicyAccepted(disk.policy), "catalog")
  /\ app' = [app EXCEPT !.policy = disk.policy]

LoadCatalog ==
  /\ Starting("catalog", CatalogAccepted(disk.catalog), "semantic")
  /\ app' = [app EXCEPT !.catalog = disk.catalog]

(* load_exemplars: the file the policy names, or the one of the package. *)
BankToLoad == IF app.policy.namesBank THEN disk.bank ELSE BundledBank

BuildSemantic ==
  /\ Starting("semantic", settings.semantic => BankAccepted(BankToLoad), "serving")
  /\ app' = IF settings.semantic THEN [app EXCEPT !.bank = BankToLoad] ELSE app

Edit(e) ==
  /\ edits < MaxEdits
  /\ edits' = edits + 1
  /\ disk' = [disk EXCEPT ![e.file] = e.content]
  /\ UNCHANGED <<settings, stage, app, model, loads, answer, earlier, restarts>>

Restart ==
  /\ restarts < MaxRestarts
  /\ restarts' = restarts + 1
  /\ stage' = "settings"
  /\ app' = Unloaded
  /\ model' = Absent
  /\ loads' = {}
  /\ answer' = NoAnswer
  /\ earlier' = NoAnswer
  /\ UNCHANGED <<settings, disk, edits>>

Serving == stage = "serving" /\ UNCHANGED <<settings, disk, stage, app, edits, restarts>>

Unauthorized(token) ==
  /\ Serving
  /\ ~ Authorized(token)
  /\ Refuse(Absent, token, "unauthorized")
  /\ UNCHANGED loads

(* The response is a 500: assess raises. *)
Fail(text, token) ==
  /\ Serving
  /\ Authorized(token)
  /\ AssessRaises(text)
  /\ Refuse(text, token, "assess_raised")
  /\ UNCHANGED loads

(* No task model is asked, or the one that is kept. *)
HandleClassify(text, token) ==
  /\ Serving
  /\ Authorized(token)
  /\ ~ AssessRaises(text)
  /\ AsksModel(text) => model # Absent
  /\ UNCHANGED <<model, loads>>
  /\ Conclude(text, token, IF AsksModel(text) THEN model ELSE Absent)

(* The task model is asked and none is kept.  Requests alike, at the same  *)
(* point, are one element of loads.                                        *)
BeginLoad(text, token) ==
  /\ Serving
  /\ Authorized(token)
  /\ model = Absent /\ Cardinality(loads) < MaxLoads
  /\ ~ AssessRaises(text)
  /\ AsksModel(text)
  /\ loads' = loads \cup {[text |-> text, token |-> token, read |-> Absent]}
  /\ UNCHANGED <<model, answer, earlier>>

ReadModel(l) ==
  /\ Serving
  /\ l.read = Absent
  /\ ModelFile \notin NoModel
  /\ loads' = (loads \ {l}) \cup {[l EXCEPT !.read = ModelFile]}
  /\ UNCHANGED <<model, answer, earlier>>

(* The response is a 500: load_task_model raises. *)
FailToRead(l) ==
  /\ Serving
  /\ l.read = Absent
  /\ ModelFile \in NoModel
  /\ loads' = loads \ {l}
  /\ Refuse(l.text, l.token, "model_unreadable")

(* Kept or not, the model that was read is the one this request asks. *)
FinishLoad(l) ==
  /\ Serving
  /\ l.read # Absent
  /\ loads' = loads \ {l}
  /\ model' = Keep(l.read)
  /\ Conclude(l.text, l.token, l.read)

StartUpNext ==
  \/ Validate \/ LoadPolicy \/ LoadCatalog \/ BuildSemantic \/ Restart
  \/ \E e \in Edits : Edit(e)
  \/ \E token \in Tokens : Unauthorized(token)
  \/ \E text \in Prompts, token \in Tokens :
       Fail(text, token) \/ HandleClassify(text, token) \/ BeginLoad(text, token)
  \/ \E l \in loads : ReadModel(l) \/ FailToRead(l) \/ FinishLoad(l)

StartUpSpec == StartUpInit /\ [][StartUpNext]_startUpVars

-----------------------------------------------------------------------------
AnswerDecided == answer.outcome = "decided"

(* What start-up lets through is what the classifier and the vote are      *)
(* modelled, and proved about, for: a policy in range and labels of the    *)
(* vocabulary (policy.py:91-215, semantic.py:79-81).                       *)
AcceptedAsAssumed ==
  stage = "serving" =>
    /\ ActivePolicy \in Policy
    /\ app.policy.k > 0
    /\ \A n \in Shares : app.policy.numbers[n] \in Percent
    /\ settings.semantic => \A i \in 1..Len(app.bank) : Known(app.bank[i])

(* "A bad policy file fails at startup, not on the first request"          *)
(* (api.py:141), as far as it is true.  After an accepted start a request  *)
(* fails only for a share or threshold of zero, for a line break after the *)
(* version, for a tier of more than eight recommendations, or for the task *)
(* model the policy names, which nobody has opened; and the last never     *)
(* where the rules escalate, or find a category.                           *)
AcceptedDecides ==
  /\ answer.outcome = "assess_raised" =>
       0 \in {app.policy.numbers["riskShare"], app.policy.numbers["minSimilarity"]}
  /\ answer.outcome = "misfit" =>
       \/ app.policy.version = "line"
       \/ \E tier \in ActionableTiers : Len(app.catalog.tiers[tier]) > MaxRecommendations
       \/ NamesModel(app.policy) /\ model # Absent
  /\ answer.outcome = "model_unreadable" =>
       LET bare == Decide([ActivePolicy EXCEPT !.learned = FALSE], Read(answer.text, Absent),
                          answer.text.hasTools, answer.text.flagged)
       IN  /\ NamesModel(app.policy)
           /\ bare.action = "route"
           /\ bare.task \in Fallback

(* "model_recommendations ... empty for unknown and human_or_policy_review"*)
(* (README.md:97), and for nothing else: whatever task a layer or a model  *)
(* names, a routed request is told at least one model (classifier.py:151). *)
PicksFollowAction ==
  AnswerDecided => (answer.picks # <<>> <=> answer.decision.action = "route")

(* Editing files under a running service changes nothing it has said: once *)
(* the model that is kept, or none, has decided a text, the text is decided *)
(* alike until a restart, when the file is replaced or goes away, too.     *)
(* Only a request that was itself reading the file while another's reading *)
(* was kept may answer by what it has read (classifier.py:111-113).        *)
DecisionsHold ==
  [][ (/\ earlier # NoAnswer
       /\ answer' # answer
       /\ answer'.text = Followed
       /\ \A l \in loads \ loads' : l.read = model)
        => /\ answer'.outcome = "decided"
           /\ answer'.decision = earlier.decision
           /\ answer'.picks = earlier.picks ]_startUpVars

(* "production refuses to start without CLIENT_API_KEYS" (README.md:114):  *)
(* in production nobody gets an answer without naming a key, whatever      *)
(* blanks and commas CLIENT_API_KEYS is made of (config.py:37-39,50-51).   *)
ProductionIsClosed ==
  (settings.environment = "production" /\ answer.outcome \notin {"none", "unauthorized"})
    => answer.token \in ToSet(settings.clientKeys) /\ answer.token # Blank

(* The votes of the semantic layer under every accepted bank and setting.  *)
VotesAreSound ==
  (AnswerDecided /\ settings.semantic /\ ~ answer.text.blank)
    => MoreRiskNeverLess(Poll(answer.text)) /\ TaskVoteIgnoresRisk(Poll(answer.text))
=============================================================================
