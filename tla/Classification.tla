--------------------------- MODULE Classification ---------------------------
(***************************************************************************)
(* A call of classify() on any reading of any text, under any of a set of  *)
(* policies.  One step takes the call from its arguments to its decision.  *)
(***************************************************************************)
EXTENDS Classifier

CONSTANTS
  Policies,   \* the active policy is one of these
  Readings,   \* what the latest user text may read as
  Pending     \* no decision yet

ASSUME ClassificationAssumption ==
  /\ Policies \subseteq Policy
  /\ Readings \subseteq Reading
  /\ Pending \notin Decision

VARIABLES policy, reading, hasTools, flagged, decision

vars == <<policy, reading, hasTools, flagged, decision>>

Init ==
  /\ policy \in Policies
  /\ reading \in Readings
  /\ hasTools \in BOOLEAN
  /\ flagged \in BOOLEAN
  /\ decision = Pending

Classify ==
  /\ decision = Pending
  /\ decision' = Decide(policy, reading, hasTools, flagged)
  /\ UNCHANGED <<policy, reading, hasTools, flagged>>

Next == Classify

Spec == Init /\ [][Next]_vars

Decided == decision # Pending

-----------------------------------------------------------------------------
(* Every decision fits the published schema: all values are declared ones  *)
(* and the confidence stays between 0 and 1 whatever the policy's numbers  *)
(* add up to (schemas.py:44-57).                                           *)
TypeOK ==
  /\ policy \in Policies
  /\ reading \in Readings
  /\ hasTools \in BOOLEAN
  /\ flagged \in BOOLEAN
  /\ decision \in Decision \cup {Pending}

(* The optional layers, taken away from a reading.                         *)
WithoutModel == [policy EXCEPT !.learned = FALSE]
WithoutVote == [reading EXCEPT !.verdict = NoVerdict]

(* Escalation is OR-ed (README.md:156): the semantic layer, the learned   *)
(* model and a caller's flag only add caution, one by one and together.    *)
(* What escalates without them escalates with them, and what is too vague  *)
(* to judge stays so.                                                      *)
CautionIsMonotone ==
  Decided =>
    \A p \in {policy, WithoutModel}, r \in {reading, WithoutVote}, f \in {FALSE, flagged} :
      Decide(p, r, hasTools, f).action # "route"
        => decision.action = Decide(p, r, hasTools, f).action

(* The learned model "never affects escalation, and it never overrides a   *)
(* clear rule match or a semantic vote" (README.md:171): switching it off  *)
(* changes decisions only where the rules fell back and no vote was used.  *)
ModelOnlyRefinesFallback ==
  (Decided /\ decision # Decide(WithoutModel, reading, hasTools, flagged))
    => /\ decision.action = "route"
       /\ RuleTask(policy, reading) \in Fallback
       /\ reading.verdict.task = None

(* "Clear rule matches still win" (README.md:157): with a rule category    *)
(* and at most one competing one, neither layer changes the task.          *)
ClearRulesWin ==
  ( /\ Decided
    /\ decision.action = "route"
    /\ RuleTask(policy, reading) \notin Fallback
    /\ ~ Mixed(policy, reading) )
    => decision = Decide(WithoutModel, WithoutVote, hasTools, flagged)

(* The tools a caller offers change one field, from "none" to "optional":  *)
(* never the task, the tier or the confidence, and never a requirement the *)
(* text itself makes.                                                      *)
OfferedToolsOnlySuggest ==
  Decided =>
    LET bare == Decide(policy, reading, FALSE, flagged)
    IN  decision \in {bare, [bare EXCEPT !.tools = "optional"]}
        /\ (bare.tools # "none" => decision = bare)

(* The tier is never out of step with the requirement: a capable model is  *)
(* recommended only when tools are required, an agent action always gets   *)
(* one, even when a layer rather than a rule saw it.                       *)
CapableNeedsTools ==
  Decided =>
    /\ (decision.tier = "capable" => decision.tools = "required")
    /\ (decision.task = "agent_action" => decision.tier = "capable")
=============================================================================
