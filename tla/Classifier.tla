----------------------------- MODULE Classifier -----------------------------
(***************************************************************************)
(* classify(): the decision for one text, as a function of what the        *)
(* patterns, the semantic layer and the learned model read in it.          *)
(*                                                                         *)
(* A reading r of the latest user text stands for the text:                *)
(*   r.blank      the text is empty or matches "ambiguous"                 *)
(*   r.matches    the names of the other patterns that match it            *)
(*   r.short      it has at most chat_max_words words                      *)
(*   r.verdict    what the semantic layer returns (NoVerdict when it is    *)
(*                off: a verdict without risk and task has no effect)      *)
(*   r.predicted  the learned model's label and its probability            *)
(* Shares, probabilities and confidences are percentages.                  *)
(***************************************************************************)
EXTENDS Integers, Sequences, FiniteSetsExt

Orderable == {"extraction", "summarization", "research", "planning", "writing", "reasoning"}
Mixable == Orderable \cup {"coding"}
PatternNames ==
  Mixable \cup {"high_stakes", "external_action", "workspace_action", "multi_step", "greeting"}

Fallback == {"chat", "classification"}
TaskTypes == Mixable \cup Fallback \cup {"agent_action"}

None == "none"
RiskCategories == {"medical", "legal", "financial", "self_harm"}
NoVerdict == [risk |-> None, task |-> None, share |-> 0]

Percent == 0..100

Verdict == [risk : RiskCategories \cup {None}, task : TaskTypes \cup {None}, share : Percent]
Prediction == [label : TaskTypes \cup {"other"}, probability : Percent]
Reading ==
  [blank : BOOLEAN, matches : SUBSET PatternNames, short : BOOLEAN,
   verdict : Verdict, predicted : Prediction]

(* What a validated policy holds.                                          *)
Policy ==
  [order : Seq(Orderable), mixable : SUBSET Mixable, overrideShare : Percent,
   learned : BOOLEAN, minProbability : Percent,
   ruleMatch : Percent, greeting : Percent, fallback : Percent, mixedCap : Percent,
   semanticBase : Percent, semanticScale : Percent]

Decision ==
  [task : TaskTypes \cup {"unknown"},
   complexity : {"simple", "complex", "unknown"},
   tools : {"none", "optional", "required", "unknown"},
   tier : {"economy", "standard", "capable", "reasoning", "human_or_policy_review", "unknown"},
   confidence : Percent,
   action : {"route", "escalate", "unknown"}]

-----------------------------------------------------------------------------
ExternalAction(r) == "external_action" \in r.matches
ActsOnTools(r) == ExternalAction(r) \/ "workspace_action" \in r.matches

CategoryHits(policy, r) == {i \in 1..Len(policy.order) : policy.order[i] \in r.matches}

RuleTask(policy, r) ==
  IF ExternalAction(r) \/ (ActsOnTools(r) /\ "coding" \notin r.matches) THEN "agent_action"
  ELSE IF "coding" \in r.matches THEN "coding"
  ELSE IF CategoryHits(policy, r) # {} THEN policy.order[Min(CategoryHits(policy, r))]
  ELSE IF r.short THEN "chat" ELSE "classification"

(* More than one competing category. *)
Mixed(policy, r) == \E a, b \in policy.mixable \cap r.matches : a # b

Greets(policy, r) == RuleTask(policy, r) = "chat" /\ "greeting" \in r.matches

(* Bug: a confident vote overrides a clear rule match. *)
UsesVoteByShare(policy, r) ==
  /\ r.verdict.task # None
  /\ ~ Greets(policy, r)
  /\ \/ RuleTask(policy, r) \in Fallback
     \/ r.verdict.share >= policy.overrideShare

UsesVote(policy, r) ==
  /\ r.verdict.task # None
  /\ ~ Greets(policy, r)
  /\ \/ RuleTask(policy, r) \in Fallback
     \/ Mixed(policy, r) /\ r.verdict.share >= policy.overrideShare

(* The learned model is on, confident, and its label is not "other". *)
HasOpinion(policy, r) ==
  /\ policy.learned
  /\ r.predicted.label # "other"
  /\ r.predicted.probability >= policy.minProbability

(* Bug: the learned model is asked after a rule match as well. *)
UsesModelAlways(policy, r) ==
  /\ ~ UsesVote(policy, r)
  /\ ~ Greets(policy, r)
  /\ HasOpinion(policy, r)

UsesModel(policy, r) ==
  /\ ~ UsesVote(policy, r)
  /\ ~ Greets(policy, r)
  /\ RuleTask(policy, r) \in Fallback
  /\ HasOpinion(policy, r)

(* Bug: an agent action a layer saw needs no tools. *)
NeedsToolsByRules(policy, r) == ActsOnTools(r)

Task(policy, r) ==
  IF UsesVote(policy, r) THEN r.verdict.task
  ELSE IF UsesModel(policy, r) THEN r.predicted.label
  ELSE RuleTask(policy, r)

NeedsTools(policy, r) == ActsOnTools(r) \/ Task(policy, r) = "agent_action"

Complex(policy, r) ==
  "multi_step" \in r.matches \/ (Task(policy, r) = "coding" /\ NeedsTools(policy, r))

Capped(bound, x) == IF x <= bound THEN x ELSE bound

(* Bug: the confidence of a vote is not capped at one. *)
ConfidenceUncapped(policy, r) ==
  IF UsesVote(policy, r)
    THEN policy.semanticBase + (policy.semanticScale * r.verdict.share + 50) \div 100
    ELSE policy.ruleMatch

Confidence(policy, r) ==
  IF UsesVote(policy, r)
    THEN Capped(100, policy.semanticBase
                       + (policy.semanticScale * r.verdict.share + 50) \div 100)
    ELSE LET own == IF UsesModel(policy, r) THEN r.predicted.probability
                    ELSE IF Greets(policy, r) THEN policy.greeting
                    ELSE IF Task(policy, r) \in Fallback THEN policy.fallback
                    ELSE policy.ruleMatch
         IN  IF Mixed(policy, r) THEN Capped(policy.mixedCap, own) ELSE own

Tier(task, needsTools, complex) ==
  IF task \in {"coding", "agent_action"} /\ needsTools THEN "capable"
  ELSE IF task \in {"reasoning", "planning", "research"} /\ complex THEN "reasoning"
  ELSE IF task \in {"extraction", "summarization"} \cup Fallback THEN "economy"
  ELSE "standard"

Insufficient ==
  [task |-> "unknown", complexity |-> "unknown", tools |-> "unknown", tier |-> "unknown",
   confidence |-> 0, action |-> "unknown"]

Escalated ==
  [task |-> "unknown", complexity |-> "unknown", tools |-> "unknown",
   tier |-> "human_or_policy_review", confidence |-> 50, action |-> "escalate"]

(* Bug: a task vote overrules the high-stakes patterns. *)
HighStakesUnlessVoted(r, flagged) ==
  \/ "high_stakes" \in r.matches /\ r.verdict.task = None
  \/ flagged \/ r.verdict.risk # None

HighStakes(r, flagged) ==
  "high_stakes" \in r.matches \/ flagged \/ r.verdict.risk # None

Routed(policy, r, hasTools) ==
  [task |-> Task(policy, r),
   complexity |-> IF Complex(policy, r) THEN "complex" ELSE "simple",
   tools |-> IF NeedsTools(policy, r) THEN "required"
             ELSE IF hasTools THEN "optional" ELSE "none",
   tier |-> Tier(Task(policy, r), NeedsTools(policy, r), Complex(policy, r)),
   confidence |-> Confidence(policy, r),
   action |-> "route"]

Decide(policy, r, hasTools, flagged) ==
  IF r.blank THEN Insufficient
  ELSE IF HighStakes(r, flagged) THEN Escalated
  ELSE Routed(policy, r, hasTools)
=============================================================================
