-------------------------- MODULE MCClassification --------------------------
(* The bundled policy, one with other thresholds, a reversed order and the *)
(* learned model off, and one whose confidences add up to more than one.   *)
(* Readings take every subset of the eight patterns that the branches of   *)
(* classify() tell apart, with verdicts on both sides of the override      *)
(* share and predictions on both sides of the minimum probability.         *)
EXTENDS Classification

Bundled ==
  [order |-> <<"extraction", "summarization", "research", "planning", "writing", "reasoning">>,
   mixable |-> {"coding", "extraction", "summarization", "writing", "research", "planning"},
   overrideShare |-> 60, learned |-> TRUE, minProbability |-> 60,
   ruleMatch |-> 88, greeting |-> 85, fallback |-> 50, mixedCap |-> 70,
   semanticBase |-> 50, semanticScale |-> 40]

Frozen ==
  [Bundled EXCEPT !.order = <<"planning", "summarization">>, !.mixable = {"coding", "planning"},
                  !.overrideShare = 90, !.learned = FALSE]

Eager ==
  [Bundled EXCEPT !.semanticBase = 80, !.semanticScale = 60, !.minProbability = 0,
                  !.overrideShare = 0]

MCPolicies == {Bundled, Frozen, Eager}

MCVerdicts ==
  {NoVerdict,
   [risk |-> "medical", task |-> None, share |-> 0],
   [risk |-> None, task |-> "coding", share |-> 40],
   [risk |-> None, task |-> "writing", share |-> 95],
   [risk |-> None, task |-> "agent_action", share |-> 60]}

MCPredictions ==
  {[label |-> "other", probability |-> 99],
   [label |-> "coding", probability |-> 59],
   [label |-> "agent_action", probability |-> 60],
   [label |-> "reasoning", probability |-> 97]}

MCReadings ==
  [blank : {FALSE},
   matches : SUBSET {"high_stakes", "external_action", "workspace_action", "coding",
                     "summarization", "planning", "multi_step", "greeting"},
   short : BOOLEAN, verdict : MCVerdicts, predicted : MCPredictions]
  \cup
  [blank : {TRUE}, matches : {{}, {"high_stakes"}}, short : {TRUE},
   verdict : MCVerdicts, predicted : MCPredictions]
=============================================================================
