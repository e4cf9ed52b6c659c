---------------------------- MODULE ModelPipeline ----------------------------
(***************************************************************************)
(* The task model from its training rows to its score: train_task_model.py *)
(* prepares the rows, fits one classifier for each C, and writes the one   *)
(* that does best on the validation rows; evaluation.py then classifies    *)
(* the cases of a benchmark and reports.  The benchmark that is scored is  *)
(* one whose prompts training was told to leave out.                       *)
(*                                                                         *)
(* Reading the datasets, hashing, fitting and classifying are external: a  *)
(* split is any function of the hashed id, an accuracy and a decision are  *)
(* any that may come out.  Confidences and thresholds are percentages.     *)
(***************************************************************************)
EXTENDS Integers, Sequences, SequencesExt

CONSTANTS
  Corpora,       \* what load_rows returns: sequences of [id, group, source, text, label]
  Benchmarks,    \* sequences of [prompt, messages, expected]
  NormalForm,    \* of a text: lower case, single blanks
  Empty,         \* the normal form of a text without words
  NoPrompt,      \* a case with messages only
  SplitOf,       \* the split that the hash of an id or a group falls into
  PerLabelCap,
  Cs,            \* how many values of C are tried
  Accuracies,    \* on the validation rows, as the code compares them
  Decisions,     \* what classify may return: [the evaluated fields, confidence]
  Old,           \* the model file before the run
  Torn           \* a model file whose write was cut off

Splits == {"train", "val", "test"}
Fields == {"task_type", "complexity", "tool_requirement", "recommended_model_tier", "action"}

ASSUME PipelineAssumption ==
  /\ PerLabelCap \in Nat
  /\ Cs \in Nat \ {0}
  /\ Accuracies \subseteq Nat
  /\ \A corpus \in Corpora :
       /\ Len(corpus) \in Nat
       /\ \A i \in 1..Len(corpus) : corpus[i].group \in DOMAIN SplitOf
  /\ \A x \in DOMAIN SplitOf : SplitOf[x] \in Splits
  /\ \A benchmark \in Benchmarks : \A i \in 1..Len(benchmark) :
       /\ Len(benchmark[i].messages) \in Nat
       /\ benchmark[i].messages = <<>> => benchmark[i].prompt # NoPrompt
  /\ \A decision \in Decisions : decision.confidence \in 0..100

VARIABLES
  rows, cases,
  phase,         \* "prepare", "fit", "write", "writing", "score", "failed", "crashed"
  chosen,        \* positions of the rows that prepare returns
  tried,         \* the accuracies of the values of C so far
  best,          \* position of the best one
  file,          \* the model file: Old, Torn or [c, accuracy, trainRows]
  scored,        \* how many cases are scored
  hits, totals,  \* of each field
  confusion,     \* of each field: how often which pair <<expected, actual>> came
  misses,        \* {[at, field]}
  correct,       \* cases with every field right
  buckets        \* of each tenth: [count, sum, correct]

scoring == <<scored, hits, totals, confusion, misses, correct, buckets>>
vars == <<rows, cases, phase, chosen, tried, best, file, scoring>>

-----------------------------------------------------------------------------
(* Preparing the rows *)

Key(i) == NormalForm[rows[i].text]
Labels(key) == {rows[i].label : i \in {j \in 1..Len(rows) : Key(j) = key}}

Prompts ==
  {NormalForm[cases[i].prompt] : i \in {j \in 1..Len(cases) : cases[j].prompt # NoPrompt}}

PlainMessages(i) == {m \in 1..Len(cases[i].messages) : cases[i].messages[m].plain}

(* eval_prompts: what training leaves out, prompts and contents that are   *)
(* strings.                                                                *)
EvalPrompts ==
  Prompts \cup UNION {{NormalForm[cases[i].messages[m].text] : m \in PlainMessages(i)} :
                        i \in 1..Len(cases)}

(* Bug: a text is dropped for a second label only once that was seen. *)
KeptAsSeen ==
  {i \in 1..Len(rows) :
     /\ Key(i) # Empty
     /\ Key(i) \notin EvalPrompts
     /\ \A j \in 1..(i - 1) : Key(j) # Key(i)}

(* Not empty, of one label only, not in a benchmark, and the first of its  *)
(* kind: a row that is dropped takes all with the same text along, so that *)
(* to have been kept before is to have been there before.                  *)
Kept ==
  {i \in 1..Len(rows) :
     /\ Key(i) # Empty
     /\ Cardinality(Labels(Key(i))) = 1
     /\ \A j \in 1..(i - 1) : Key(j) # Key(i)
     /\ Key(i) \notin EvalPrompts}

(* Bug: each row is put into a split by itself. *)
SplitByRow(i) == SplitOf[rows[i].id]

Split(i) == SplitOf[rows[i].group]

Percentage == [train |-> 70, val |-> 15, test |-> 15]

Sources(label) == {rows[i].source : i \in {j \in Kept : rows[j].label = label}}

(* Bug: the sources of a label do not share its cap. *)
CapUnshared(i) == (PerLabelCap * Percentage[Split(i)]) \div 100

Cap(i) ==
  ((PerLabelCap \div Cardinality(Sources(rows[i].label))) * Percentage[Split(i)]) \div 100

(* The kept rows that are counted together. *)
Bin(i) ==
  {j \in Kept : /\ Split(j) = Split(i)
                /\ rows[j].label = rows[i].label
                /\ rows[j].source = rows[i].source}

(* What capping leaves: as many of each bin as there are or as it may      *)
(* hold.  The shuffle before it decides which.                             *)
CappedRows ==
  LET bin == [i \in Kept |-> Bin(i)]
      size == [i \in Kept |-> Min({Cardinality(Bin(i)), Cap(i)})]
  IN  {S \in SUBSET Kept : \A i \in Kept : Cardinality(S \cap bin[i]) = size[i]}

Rows(split) == {i \in chosen : Split(i) = split}

-----------------------------------------------------------------------------
(* Training *)

Init ==
  /\ rows \in Corpora
  /\ cases \in Benchmarks
  /\ phase = "prepare"
  /\ chosen = {}
  /\ tried = <<>>
  /\ best = 0
  /\ file = Old
  /\ scored = 0
  /\ hits = [f \in Fields |-> 0]
  /\ totals = [f \in Fields |-> 0]
  /\ confusion = [f \in Fields |-> EmptyBag]
  /\ misses = {}
  /\ correct = 0
  /\ buckets = [b \in 0..9 |-> [count |-> 0, sum |-> 0, correct |-> 0]]

(* Without prompts to leave out the run stops before it prepares anything. *)
Refuse ==
  /\ phase = "prepare"
  /\ EvalPrompts = {}
  /\ phase' = "failed"
  /\ UNCHANGED <<rows, cases, chosen, tried, best, file, scoring>>

Prepare ==
  /\ phase = "prepare"
  /\ EvalPrompts # {}
  /\ chosen' \in CappedRows
  /\ phase' = "fit"
  /\ UNCHANGED <<rows, cases, tried, best, file, scoring>>

(* Two classes have one row of coefficients, which TaskModel refuses for   *)
(* its shape; with one class there is nothing to fit; and the accuracy on  *)
(* no rows is a division by zero.                                          *)
CannotFit ==
  Cardinality({rows[i].label : i \in Rows("train")}) < 3 \/ Rows("val") = {}

FitFails ==
  /\ phase = "fit"
  /\ CannotFit
  /\ phase' = "failed"
  /\ UNCHANGED <<rows, cases, chosen, tried, best, file, scoring>>

(* Bug: a later C that does as well replaces the best. *)
AtLeastAsGood(accuracy) == IF best = 0 THEN TRUE ELSE accuracy >= tried[best]

Better(accuracy) == IF best = 0 THEN TRUE ELSE accuracy > tried[best]

Fit(accuracy) ==
  /\ phase = "fit"
  /\ ~ CannotFit
  /\ tried' = Append(tried, accuracy)
  /\ best' = IF Better(accuracy) THEN Len(tried) + 1 ELSE best
  /\ phase' = IF Len(tried) + 1 = Cs THEN "write" ELSE "fit"
  /\ UNCHANGED <<rows, cases, chosen, file, scoring>>

(* Bug: the file is opened before the values of C are tried. *)
OpenEarly ==
  /\ phase = "fit"
  /\ file = Old
  /\ file' = Torn
  /\ UNCHANGED <<rows, cases, phase, chosen, tried, best, scoring>>

(* write_bytes empties the file, then writes it. *)
Open ==
  /\ phase = "write"
  /\ phase' = "writing"
  /\ file' = Torn
  /\ UNCHANGED <<rows, cases, chosen, tried, best, scoring>>

(* The model and its metadata. *)
Best == [c |-> best, accuracy |-> tried[best], trainRows |-> Cardinality(Rows("train"))]

Write ==
  /\ phase = "writing"
  /\ phase' = "score"
  /\ file' = Best
  /\ UNCHANGED <<rows, cases, chosen, tried, best, scoring>>

(* At any point of the training run, its last prints included. *)
Crash ==
  /\ phase \in {"prepare", "fit", "write", "writing"} \/ (phase = "score" /\ scored = 0)
  /\ phase' = "crashed"
  /\ UNCHANGED <<rows, cases, chosen, tried, best, file, scoring>>

-----------------------------------------------------------------------------
(* Evaluation *)

UserMessages(i) == {m \in 1..Len(cases[i].messages) : cases[i].messages[m].user}

(* What the decision on a case is about: its latest user message, if it    *)
(* has one, or the prompt when the case has no messages.                   *)
Judged(i) ==
  IF cases[i].messages = <<>> THEN {[text |-> cases[i].prompt, plain |-> TRUE]}
  ELSE {[text |-> cases[i].messages[m].text, plain |-> cases[i].messages[m].plain] :
          m \in {k \in UserMessages(i) : \A l \in UserMessages(i) : l <= k}}

(* Bug: a confidence is rounded to the nearest tenth. *)
BucketRounded(confidence) == Min({(confidence + 5) \div 10, 9})

Bucket(confidence) == Min({confidence \div 10, 9})

Evaluate(decision) ==
  LET expected == cases[scored + 1].expected
      wrong == {f \in DOMAIN expected : decision[f] # expected[f]}
      b == Bucket(decision.confidence)
      right == IF wrong = {} THEN 1 ELSE 0
      count(f, S) == IF f \in S THEN 1 ELSE 0
  IN  /\ phase = "score"
      /\ scored < Len(cases)
      /\ scored' = scored + 1
      /\ totals' = [f \in Fields |-> totals[f] + count(f, DOMAIN expected)]
      /\ hits' = [f \in Fields |-> hits[f] + count(f, DOMAIN expected \ wrong)]
      /\ confusion' = [f \in Fields |->
                         IF f \in DOMAIN expected
                           THEN confusion[f] (+) SetToBag({<<expected[f], decision[f]>>})
                           ELSE confusion[f]]
      /\ misses' = misses \cup {[at |-> scored + 1, field |-> f] : f \in wrong}
      /\ correct' = correct + right
      /\ buckets' = [buckets EXCEPT ![b] = [count   |-> @.count + 1,
                                            sum     |-> @.sum + decision.confidence,
                                            correct |-> @.correct + right]]
      /\ UNCHANGED <<rows, cases, phase, chosen, tried, best, file>>

Next ==
  \/ Refuse \/ Prepare \/ FitFails \/ Open \/ Write \/ Crash
  \/ \E accuracy \in Accuracies : Fit(accuracy)
  \/ \E decision \in Decisions : Evaluate(decision)

Spec == Init /\ [][Next]_vars

(* Of one class of a field: how often it was right to come, came, and both.*)
PerClass(f, class) ==
  LET pairs == BagToSet(confusion[f])
      times(S) == SumFunctionOnSet(confusion[f], S)
  IN  [support   |-> times({p \in pairs : p[1] = class}),
       predicted |-> times({p \in pairs : p[2] = class}),
       both      |-> times(pairs \cap {<<class, class>>})]

(* Bug: classes that only came, and were never right to come, are left out.*)
ClassesExpected(f) == {p[1] : p \in BagToSet(confusion[f])}

Classes(f) == UNION {{p[1], p[2]} : p \in BagToSet(confusion[f])}

-----------------------------------------------------------------------------
(* No text is trained on under two labels, twice, or on one side of a      *)
(* split and measured on another; nor is a group, such as the turns of a   *)
(* dialogue or the page of a command (train_task_model.py:133,143,164-191).*)
CleanSplits ==
  \A i, j \in chosen :
    /\ Key(i) = Key(j) => i = j
    /\ rows[i].group = rows[j].group => Split(i) = Split(j)
    /\ Labels(Key(i)) = {rows[i].label}

(* "Rows matching a prompt in eval/*.jsonl are dropped so the benchmarks   *)
(* stay blind" (train_task_model.py:15): what the decision on a case is    *)
(* about (evaluation.py:69, classifier.py:17-21) is among the texts that   *)
(* training leaves out, if it is a plain string.  One made of parts is not.*)
BenchmarkIsBlind ==
  \A c \in 1..Len(cases) : \A judged \in Judged(c) :
    judged.plain => \A i \in chosen : Key(i) # NormalForm[judged.text]

(* "cap each label, shared evenly by its sources"                          *)
(* (train_task_model.py:165): no label has more rows than the cap over all *)
(* splits and sources, and no source more than its part of it.             *)
FairShares ==
  phase # "prepare" =>
    \A i \in chosen :
      LET label == rows[i].label
          of(source) == {j \in chosen : rows[j].label = label /\ rows[j].source = source}
      IN  /\ Cardinality({j \in chosen : rows[j].label = label}) <= PerLabelCap
          /\ Cardinality(of(rows[i].source)) * Cardinality(Sources(label)) <= PerLabelCap

(* The file holds the first C that no other one beats on the validation    *)
(* rows, and says so, or it is what it was before.  A crash leaves one of  *)
(* the two as well, but in the middle of the write: only there the file is *)
(* neither, and from_bytes will not take it (train_task_model.py:248-266,  *)
(* task_model.py:66-77).                                                   *)
BestOrNothing ==
  /\ phase \in {"prepare", "fit", "write", "failed"} => file = Old
  /\ phase = "score" =>
       /\ file = Best
       /\ Len(tried) = Cs
       /\ \A c \in 1..Cs : tried[c] <= tried[best] /\ (tried[c] = tried[best] => best <= c)
  /\ phase = "crashed" =>
       file = Old \/ (Len(tried) = Cs /\ file \in {Torn, Best})

(* Every figure of the report is about the same cases                      *)
(* (evaluation.py:90-145): what hit and what missed is all that was asked, *)
(* so do the classes add up, on both sides; each case is in one bucket,    *)
(* whose mean confidence lies in its tenth; and the cases that are right   *)
(* are those without a miss.                                               *)
ReportAddsUp ==
  /\ \A f \in Fields :
       LET overall(figure) == SumFunction([c \in Classes(f) |-> PerClass(f, c)[figure]])
       IN  /\ hits[f] + Cardinality({m \in misses : m.field = f}) = totals[f]
           /\ overall("both") = hits[f]
           /\ overall("support") = totals[f]
           /\ overall("predicted") = totals[f]
  /\ correct = scored - Cardinality({m.at : m \in misses})
  /\ SumFunction([b \in 0..9 |-> buckets[b].count]) = scored
  /\ SumFunction([b \in 0..9 |-> buckets[b].correct]) = correct
  /\ \A b \in 0..9 :
       /\ 10 * b * buckets[b].count <= buckets[b].sum
       /\ buckets[b].sum <= (IF b = 9 THEN 100 ELSE 10 * b + 9) * buckets[b].count
=============================================================================
