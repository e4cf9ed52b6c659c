----------------------------- MODULE SemanticVote -----------------------------
(***************************************************************************)
(* SemanticClassifier (semantic.py:64-111): the bank of labelled exemplars *)
(* it accepts, and one call of assess.                                     *)
(*                                                                         *)
(* The embedding is external.  A poll p is what assess has before it:      *)
(*   p.labels         the labels of the exemplars, nearest first           *)
(*   p.similarities   their similarities to the text, in percent           *)
(*   p.k, p.riskShare, p.minSimilarity   the settings                      *)
(* Exemplars at the same distance are in any order.  Shares are compared   *)
(* exactly, by cross-multiplication, where the code divides floats.        *)
(***************************************************************************)
EXTENDS Classifier, Functions

(* A label is a name, with "risk:" before it or not. *)
Label == [prefixed : BOOLEAN, name : TaskTypes \cup RiskCategories \cup {"other"}]

RiskLabel(category) == [prefixed |-> TRUE, name |-> category]

IsRisk(label) == label.prefixed
IsTask(label) == ~ label.prefixed /\ label.name \in TaskTypes

(* What __init__ takes for a label. *)
Known(label) == IsTask(label) \/ label.name \in RiskCategories

Nearest(p) ==
  {i \in 1..Len(p.labels) : i <= p.k /\ p.similarities[i] >= p.minSimilarity}

Weight(p, S) == SumFunctionOnSet(p.similarities, S)

With(p, label) == {i \in Nearest(p) : p.labels[i] = label}
RiskVotes(p) == {i \in Nearest(p) : IsRisk(p.labels[i])}
TaskVotes(p) == {i \in Nearest(p) : IsTask(p.labels[i])}

(* Bug: a label's weight is set to its last exemplar's, not added up. *)
FlaggedByLast(p) ==
  LET last == {i \in Nearest(p) : \A j \in Nearest(p) : p.labels[j] = p.labels[i] => j <= i}
  IN  100 * Weight(p, RiskVotes(p) \cap last) >= p.riskShare * Weight(p, last)

(* The risk labels hold at least risk_share of the weight. *)
Flagged(p) == 100 * Weight(p, RiskVotes(p)) >= p.riskShare * Weight(p, Nearest(p))

(* max(weights, key=weights.get): of the heaviest labels the one that was  *)
(* put into the dict first, by its nearest exemplar.                       *)
Heaviest(p, votes) ==
  LET first(i) == \A j \in votes : p.labels[j] = p.labels[i] => i <= j
      heavy(i) == \A j \in votes :
                    Weight(p, With(p, p.labels[j])) <= Weight(p, With(p, p.labels[i]))
  IN  p.labels[Min({i \in votes : first(i) /\ heavy(i)})]

TaskShare(p) ==
  (100 * Weight(p, With(p, Heaviest(p, TaskVotes(p))))) \div Weight(p, TaskVotes(p))

(* Bug: the early return for a text far from everything is missing. *)
RaisesUnguarded(p) ==
  \/ Weight(p, Nearest(p)) = 0
  \/ Flagged(p) /\ RiskVotes(p) = {}
  \/ TaskVotes(p) # {} /\ Weight(p, TaskVotes(p)) = 0

(* The calls of assess that raise: a division by zero when the weights of  *)
(* all votes, or of all task votes, are zero; and max() of an empty dict   *)
(* when a share of zero is reached without a risk vote.                    *)
Raises(p) ==
  /\ Nearest(p) # {}
  /\ \/ Weight(p, Nearest(p)) = 0
     \/ Flagged(p) /\ RiskVotes(p) = {}
     \/ TaskVotes(p) # {} /\ Weight(p, TaskVotes(p)) = 0

Assessed(p) ==
  IF Nearest(p) = {} THEN NoVerdict
  ELSE [risk  |-> IF Flagged(p) THEN Heaviest(p, RiskVotes(p)).name ELSE None,
        task  |-> IF TaskVotes(p) = {} THEN None ELSE Heaviest(p, TaskVotes(p)).name,
        share |-> IF TaskVotes(p) = {} THEN 0 ELSE TaskShare(p)]

-----------------------------------------------------------------------------
(* Turning an exemplar into one of risk never takes the flag away, however *)
(* near or far it is (semantic.py:97-104).                                 *)
MoreRiskNeverLess(p) ==
  Nearest(p) # {} /\ Flagged(p) =>
    \A i \in 1..Len(p.labels) : \A category \in RiskCategories :
      Flagged([p EXCEPT !.labels = [p.labels EXCEPT ![i] = RiskLabel(category)]])

(* The task vote is held among task labels only: risk votes neither lower  *)
(* its share nor win it, and a winner has a share no other could exceed    *)
(* (semantic.py:107-111).                                                  *)
TaskVoteIgnoresRisk(p) ==
  Assessed(p).task # None =>
    LET tasks == {p.labels[i].name : i \in TaskVotes(p)}
        share == Assessed(p).share
    IN  /\ Assessed(p).task \in tasks
        /\ share * Cardinality(tasks) + Cardinality(tasks) > 100
        /\ Cardinality(tasks) = 1 => share = 100
=============================================================================
