------------------------- MODULE ModelPipelineProofs -------------------------
(***************************************************************************)
(* What training guarantees for every corpus, benchmark and hash: clean    *)
(* splits, a benchmark no row of training matches, no label and no source  *)
(* above its share, and a model file that holds the best C or what it held *)
(* before; and that the figures of every evaluation agree.                 *)
(***************************************************************************)
EXTENDS ModelPipeline, OperatorTheorems, FunctionTheorems

(* What is chosen has been kept, and stays as it was prepared. *)
ChosenInv ==
  /\ rows \in Corpora
  /\ cases \in Benchmarks
  /\ chosen \subseteq Kept

LEMMA CappedIsKept ==
  ASSUME NEW S \in CappedRows
  PROVE  S \subseteq Kept
  BY DEF CappedRows

LEMMA ChosenInvariant == Spec => []ChosenInv
  <1>1. Init => ChosenInv
    BY DEF Init, ChosenInv
  <1>2. ChosenInv /\ [Next]_vars => ChosenInv'
    <2> SUFFICES ASSUME ChosenInv, [Next]_vars
                 PROVE  ChosenInv'
      OBVIOUS
    <2>1. CASE Prepare
      <3>1. rows' = rows /\ cases' = cases /\ chosen' \in CappedRows
        BY <2>1 DEF Prepare
      <3>2. Kept' = Kept
        BY <3>1 DEF Kept, Key, Labels, EvalPrompts, Prompts, PlainMessages
      <3>3. QED
        BY <3>1, <3>2, CappedIsKept DEF ChosenInv
    <2>2. CASE UNCHANGED <<rows, cases, chosen>>
      <3>1. Kept' = Kept
        BY <2>2 DEF Kept, Key, Labels, EvalPrompts, Prompts, PlainMessages
      <3>2. QED
        BY <2>2, <3>1 DEF ChosenInv
    <2>3. Prepare \/ UNCHANGED <<rows, cases, chosen>>
      BY DEF Next, vars, Refuse, FitFails, Open, Write, Crash, Fit, Evaluate
    <2>4. QED
      BY <2>1, <2>2, <2>3
  <1>3. QED
    BY <1>1, <1>2, PTL DEF Spec

-----------------------------------------------------------------------------
(* Splits *)

(* A kept row has the only label of its text. *)
LEMMA KeptHasOneLabel ==
  ASSUME ChosenInv, NEW i \in Kept
  PROVE  Labels(Key(i)) = {rows[i].label}
  <1> DEFINE n == Len(rows)
             same == {j \in 1..n : Key(j) = Key(i)}
  <1>1. n \in Nat
    BY PipelineAssumption DEF ChosenInv
  <1>2. i \in same /\ Cardinality(Labels(Key(i))) = 1
    BY DEF Kept
  <1>3. IsFiniteSet(same)
    <2>1. IsFiniteSet(1..n)
      BY <1>1, FS_Interval
    <2>2. QED
      BY <2>1, FS_Subset
  <1>4. IsFiniteSet({rows[j].label : j \in same})
    <2> DEFINE labels == {rows[j].label : j \in same}
               f == [j \in same |-> rows[j].label]
    <2>1. f \in Surjection(same, labels)
      <3> HIDE DEF same
      <3>1. QED
        BY DEF Surjection
    <2>2. QED
      BY <1>3, <2>1, FS_Surjection
  <1>5. Labels(Key(i)) = {rows[j].label : j \in same}
    BY DEF Labels
  <1>6. PICK x : Labels(Key(i)) = {x}
    BY <1>2, <1>4, <1>5, FS_Singleton
  <1>7. QED
    BY <1>2, <1>5, <1>6

(* Of the rows with one text only the first is kept. *)
LEMMA KeptOnce ==
  ASSUME ChosenInv, NEW i \in Kept, NEW j \in Kept, Key(i) = Key(j)
  PROVE  i = j
  <1>1. Len(rows) \in Nat
    BY PipelineAssumption DEF ChosenInv
  <1>2. i \in 1..Len(rows) /\ j \in 1..Len(rows)
    BY DEF Kept
  <1>3. i \in Int /\ j \in Int /\ 1 <= i /\ 1 <= j
    BY <1>1, <1>2
  <1>4. j \notin 1..(i - 1) /\ i \notin 1..(j - 1)
    BY DEF Kept
  <1>5. QED
    BY <1>3, <1>4

(* No duplicate, no conflict and no group across two splits, wherever the  *)
(* rows stand in the corpus and whatever the cap leaves of them.           *)
THEOREM PipelineCleanSplits == Spec => []CleanSplits
  <1>1. ChosenInv => CleanSplits
    <2> SUFFICES ASSUME ChosenInv, NEW i \in chosen, NEW j \in chosen
                 PROVE  /\ Key(i) = Key(j) => i = j
                        /\ rows[i].group = rows[j].group => Split(i) = Split(j)
                        /\ Labels(Key(i)) = {rows[i].label}
      BY DEF CleanSplits
    <2>1. i \in Kept /\ j \in Kept
      BY DEF ChosenInv
    <2>2. Key(i) = Key(j) => i = j
      BY <2>1, KeptOnce
    <2>3. rows[i].group = rows[j].group => Split(i) = Split(j)
      BY DEF Split
    <2>4. QED
      BY <2>1, <2>2, <2>3, KeptHasOneLabel
  <1>2. QED
    BY <1>1, ChosenInvariant, PTL

-----------------------------------------------------------------------------
(* The benchmark *)

(* What a decision is about is a text training leaves out, if it is a      *)
(* string.                                                                 *)
LEMMA JudgedIsBlocked ==
  ASSUME ChosenInv, NEW c \in 1..Len(cases), NEW judged \in Judged(c), judged.plain
  PROVE  NormalForm[judged.text] \in EvalPrompts
  <1>1. CASE cases[c].messages = <<>>
    <2>1. judged.text = cases[c].prompt
      BY <1>1 DEF Judged
    <2>2. cases[c].prompt # NoPrompt
      BY <1>1, PipelineAssumption DEF ChosenInv
    <2>3. NormalForm[cases[c].prompt] \in Prompts
      BY <2>2 DEF Prompts
    <2>4. QED
      BY <2>1, <2>3 DEF EvalPrompts
  <1>2. CASE cases[c].messages # <<>>
    <2>1. PICK m \in UserMessages(c) :
            judged = [text |-> cases[c].messages[m].text, plain |-> cases[c].messages[m].plain]
      BY <1>2 DEF Judged
    <2>2. m \in PlainMessages(c) /\ judged.text = cases[c].messages[m].text
      BY <2>1 DEF UserMessages, PlainMessages
    <2>3. QED
      BY <2>2 DEF EvalPrompts
  <1>3. QED
    BY <1>1, <1>2

(* Training leaves out whatever the benchmark judges. *)
THEOREM PipelineBenchmarkIsBlind == Spec => []BenchmarkIsBlind
  <1>1. ChosenInv => BenchmarkIsBlind
    <2> SUFFICES ASSUME ChosenInv, NEW c \in 1..Len(cases), NEW judged \in Judged(c),
                        judged.plain, NEW i \in chosen
                 PROVE  Key(i) # NormalForm[judged.text]
      BY DEF BenchmarkIsBlind
    <2>1. Key(i) \notin EvalPrompts
      BY DEF ChosenInv, Kept
    <2>2. QED
      BY <2>1, JudgedIsBlocked
  <1>2. QED
    BY <1>1, ChosenInvariant, PTL

-----------------------------------------------------------------------------
(* The best C *)

(* So far `best' is the first of the accuracies that none exceeds, and the *)
(* file is what the phase says.                                            *)
BestSoFar ==
  /\ tried \in Seq(Nat)
  /\ best \in 0..Len(tried)
  /\ best = 0 => tried = <<>>
  /\ \A c \in 1..Len(tried) :
       tried[c] <= tried[best] /\ (tried[c] = tried[best] => best <= c)

FileInv ==
  /\ BestSoFar
  /\ phase \in {"prepare", "fit", "write", "writing", "score", "failed", "crashed"}
  /\ phase \in {"prepare", "fit"} => Len(tried) < Cs
  /\ phase \in {"write", "writing", "score"} => Len(tried) = Cs
  /\ phase \in {"prepare", "fit", "write", "failed"} => file = Old
  /\ phase = "writing" => file = Torn
  /\ phase = "score" => file = Best
  /\ phase = "crashed" => file = Old \/ (Len(tried) = Cs /\ file \in {Torn, Best})

LEMMA FitKeepsBest ==
  ASSUME BestSoFar, NEW accuracy \in Accuracies, Fit(accuracy)
  PROVE  BestSoFar' /\ Len(tried') = Len(tried) + 1
  <1> DEFINE n == Len(tried)
  <1>1. accuracy \in Nat
    BY PipelineAssumption
  <1>2. tried \in Seq(Nat) /\ n \in Nat
    BY DEF BestSoFar
  <1>3. /\ tried' \in Seq(Nat)
        /\ Len(tried') = n + 1
        /\ tried'[n + 1] = accuracy
        /\ \A c \in 1..n : tried'[c] = tried[c] /\ tried[c] \in Nat
    BY <1>1, <1>2 DEF Fit
  <1>4. \A c \in 1..(n + 1) : c \in 1..n \/ c = n + 1
    BY <1>2
  <1>5. CASE Better(accuracy)
    <2>1. best' = n + 1
      BY <1>5 DEF Fit
    <2>2. \A c \in 1..n : tried[c] < accuracy
      <3>1. CASE best = 0
        BY <3>1, <1>2 DEF BestSoFar
      <3>2. CASE best # 0
        <4>1. accuracy > tried[best] /\ best \in 1..n
          BY <1>2, <1>5, <3>2 DEF Better, BestSoFar
        <4>2. tried[best] \in Nat /\ \A c \in 1..n : tried[c] <= tried[best]
          BY <1>3, <4>1 DEF BestSoFar
        <4>3. QED
          BY <1>1, <1>3, <4>1, <4>2
      <3>3. QED
        BY <3>1, <3>2
    <2>3. \A c \in 1..(n + 1) :
            tried'[c] <= accuracy /\ (tried'[c] = accuracy => n + 1 <= c)
      BY <1>1, <1>2, <1>3, <1>4, <2>2
    <2>4. QED
      BY <1>2, <1>3, <2>1, <2>3 DEF BestSoFar
  <1>6. CASE ~ Better(accuracy)
    <2>1. best' = best /\ best # 0 /\ ~ (accuracy > tried[best])
      BY <1>6 DEF Fit, Better
    <2>2. best \in 1..n
      BY <1>2, <2>1 DEF BestSoFar
    <2>3. tried'[best'] = tried[best] /\ tried[best] \in Nat
      BY <1>3, <2>1, <2>2
    <2>4. accuracy <= tried[best] /\ best <= n + 1
      BY <1>1, <1>2, <2>1, <2>2, <2>3
    <2>5. \A c \in 1..(n + 1) :
            tried'[c] <= tried[best] /\ (tried'[c] = tried[best] => best <= c)
      BY <1>3, <1>4, <2>4 DEF BestSoFar
    <2>6. QED
      BY <1>2, <1>3, <2>1, <2>2, <2>3, <2>5 DEF BestSoFar
  <1>7. QED
    BY <1>3, <1>5, <1>6

(* The model that is written is the first with the best accuracy, and      *)
(* until then, and whenever training cannot go on, the old one stays; a    *)
(* crash leaves one of them, or a torn file once the best is known.        *)
THEOREM PipelineBestOrNothing == Spec => []BestOrNothing
  <1>1. Init => FileInv
    BY PipelineAssumption DEF Init, FileInv, BestSoFar
  <1>2. FileInv /\ [Next]_vars => FileInv'
    <2> SUFFICES ASSUME FileInv, [Next]_vars
                 PROVE  FileInv'
      OBVIOUS
    <2>1. CASE Refuse \/ FitFails \/ Crash
      <3>1. /\ UNCHANGED <<rows, chosen, tried, best, file>>
            /\ phase' \in {"failed", "crashed"}
        BY <2>1 DEF Refuse, FitFails, Crash
      <3>2. phase' = "failed" => file' = Old
        BY <2>1 DEF Refuse, FitFails, Crash, FileInv
      <3>3. phase' = "crashed" => file = Old \/ (Len(tried) = Cs /\ file \in {Torn, Best})
        BY <2>1 DEF Refuse, FitFails, Crash, FileInv
      <3>4. Best' = Best
        BY <3>1 DEF Best, Rows, Split
      <3>5. QED
        BY <3>1, <3>2, <3>3, <3>4 DEF FileInv, BestSoFar
    <2>2. CASE Prepare
      BY <2>2 DEF Prepare, FileInv, BestSoFar
    <2>3. ASSUME NEW accuracy \in Accuracies, Fit(accuracy)
          PROVE  FileInv'
      <3>1. BestSoFar' /\ Len(tried') = Len(tried) + 1
        BY <2>3, FitKeepsBest DEF FileInv
      <3>2. Len(tried) \in Nat /\ Len(tried) < Cs /\ Cs \in Nat
        BY <2>3, PipelineAssumption DEF FileInv, BestSoFar, Fit
      <3>3. /\ phase' = IF Len(tried) + 1 = Cs THEN "write" ELSE "fit"
            /\ file' = file /\ file = Old
        BY <2>3 DEF Fit, FileInv
      <3>4. phase' = "fit" => Len(tried') < Cs
        BY <3>1, <3>2, <3>3
      <3>5. phase' = "write" => Len(tried') = Cs
        BY <3>1, <3>3
      <3>6. QED
        BY <3>1, <3>3, <3>4, <3>5 DEF FileInv
    <2>4. CASE Open
      BY <2>4 DEF Open, FileInv, BestSoFar
    <2>5. CASE Write
      <3>1. UNCHANGED <<rows, cases, chosen, tried, best>> /\ phase = "writing" /\ phase' = "score"
        BY <2>5 DEF Write
      <3>2. Best' = Best
        BY <3>1 DEF Best, Rows, Split
      <3>3. QED
        BY <2>5, <3>1, <3>2 DEF Write, FileInv, BestSoFar
    <2>6. CASE UNCHANGED <<rows, phase, chosen, tried, best, file>>
      <3>1. Best' = Best
        BY <2>6 DEF Best, Rows, Split
      <3>2. QED
        BY <2>6, <3>1 DEF FileInv, BestSoFar
    <2>7. (\E decision \in Decisions : Evaluate(decision)) \/ UNCHANGED vars
            => UNCHANGED <<rows, phase, chosen, tried, best, file>>
      BY DEF Evaluate, vars
    <2>8. QED
      BY <2>1, <2>2, <2>3, <2>4, <2>5, <2>6, <2>7 DEF Next
  <1>3. FileInv => BestOrNothing
    BY DEF FileInv, BestSoFar, BestOrNothing
  <1>4. QED
    BY <1>1, <1>2, <1>3, PTL DEF Spec

-----------------------------------------------------------------------------
(* Shares *)

(* The rows that are chosen are the ones capping left, if any are.         *)
CapInv ==
  /\ ChosenInv
  /\ chosen = {} \/ chosen \in CappedRows

LEMMA CapInvariant == Spec => []CapInv
  <1>1. Init => chosen = {}
    BY DEF Init
  <1>2. CapInv /\ ChosenInv' /\ [Next]_vars => CapInv'
    <2> SUFFICES ASSUME CapInv, ChosenInv', [Next]_vars
                 PROVE  chosen' = {} \/ (chosen \in CappedRows)'
      BY DEF CapInv
    <2>1. UNCHANGED <<rows, cases>>
      BY DEF Next, vars, Refuse, Prepare, FitFails, Open, Write, Crash, Fit, Evaluate
    <2>2. CappedRows' = CappedRows
      BY <2>1 DEF CappedRows, Kept, Key, Labels, EvalPrompts, Prompts, PlainMessages, Bin, Split,
                  Cap, Sources
    <2>3. UNCHANGED chosen \/ chosen' \in CappedRows
      BY DEF Next, vars, Refuse, Prepare, FitFails, Open, Write, Crash, Fit, Evaluate
    <2>4. QED
      BY <2>2, <2>3 DEF CapInv
  <1>3. Spec => []ChosenInv
    BY ChosenInvariant
  <1>4. ChosenInv /\ chosen = {} => CapInv
    BY DEF CapInv
  <1>5. QED
    BY <1>1, <1>2, <1>3, <1>4, PTL DEF Spec

LEMMA KeptIsFinite ==
  ASSUME ChosenInv
  PROVE  IsFiniteSet(Kept)
  <1>1. Len(rows) \in Nat
    BY PipelineAssumption DEF ChosenInv
  <1>2. IsFiniteSet(1..Len(rows))
    BY <1>1, FS_Interval
  <1>3. Kept \subseteq 1..Len(rows)
    BY DEF Kept
  <1>4. QED
    BY <1>2, <1>3, FS_Subset

(* The sources of a label that has rows.                                   *)
LEMMA SourcesCount ==
  ASSUME ChosenInv, NEW i \in Kept
  PROVE  /\ IsFiniteSet(Sources(rows[i].label))
         /\ Cardinality(Sources(rows[i].label)) \in Nat \ {0}
  <1> DEFINE label == rows[i].label
             own == {j \in Kept : rows[j].label = label}
             sources == {rows[j].source : j \in own}
             f == [j \in own |-> rows[j].source]
  <1>1. IsFiniteSet(own)
    BY KeptIsFinite, FS_Subset
  <1>2. f \in Surjection(own, sources)
    <2> HIDE DEF own
    <2>1. QED
      BY DEF Surjection
  <1>3. IsFiniteSet(sources)
    BY <1>1, <1>2, FS_Surjection
  <1>4. rows[i].source \in sources
    OBVIOUS
  <1>5. Cardinality(sources) \in Nat /\ Cardinality(sources) # 0
    <2> HIDE DEF sources
    <2>1. QED
      BY <1>3, <1>4, FS_CardinalityType, FS_EmptySet
  <1>6. Sources(label) = sources
    BY DEF Sources
  <1> HIDE DEF sources
  <1>7. QED
    BY <1>3, <1>5, <1>6

Part(label) == PerLabelCap \div Cardinality(Sources(label))

LEMMA PartFits ==
  ASSUME NEW n \in Nat \ {0}, NEW c \in Nat
  PROVE  c \div n \in Nat /\ (c \div n) * n <= c
  OBVIOUS

LEMMA SmallerOfTwo ==
  ASSUME NEW a \in Int, NEW b \in Int
  PROVE  Min({a, b}) <= b
  <1>1. \E x \in {a, b} : \A y \in {a, b} : x <= y
    <2>1. CASE a <= b
      BY <2>1
    <2>2. CASE ~ (a <= b)
      BY <2>2
    <2>3. QED
      BY <2>1, <2>2
  <1>2. QED
    BY <1>1 DEF Min

(* A bin keeps no more than its cap.                                       *)
LEMMA BinWithinCap ==
  ASSUME ChosenInv, NEW S \in CappedRows, NEW i \in S
  PROVE  Cardinality(S \cap Bin(i)) <= (Part(rows[i].label) * Percentage[Split(i)]) \div 100
  <1>1. i \in Kept /\ S \subseteq Kept
    BY DEF CappedRows
  <1>2. Cardinality(S \cap Bin(i)) = Min({Cardinality(Bin(i)), Cap(i)})
    BY <1>1 DEF CappedRows
  <1>3. Cardinality(Bin(i)) \in Nat
    <2>1. Bin(i) \subseteq Kept
      BY DEF Bin
    <2>2. QED
      BY <2>1, KeptIsFinite, FS_Subset, FS_CardinalityType
  <1>4. Cap(i) = (Part(rows[i].label) * Percentage[Split(i)]) \div 100
    BY DEF Cap, Part
  <1>5. Cap(i) \in Int
    <2>1. Part(rows[i].label) \in Nat
      BY <1>1, SourcesCount, PartFits, PipelineAssumption DEF Part
    <2>2. Split(i) \in Splits
      <3>1. i \in 1..Len(rows)
        BY <1>1 DEF Kept
      <3>2. QED
        BY <3>1, PipelineAssumption DEF Split, ChosenInv
    <2>3. Percentage[Split(i)] \in {70, 15}
      BY <2>2 DEF Percentage, Splits
    <2>4. QED
      BY <1>4, <2>1, <2>3
  <1> DEFINE a == Cardinality(Bin(i))
             b == Cap(i)
  <1>6. Min({a, b}) <= b
    BY <1>3, <1>5, SmallerOfTwo
  <1>7. QED
    BY <1>2, <1>4, <1>6

(* Three splits together keep no more than the part of a source.           *)
LEMMA SourceWithinPart ==
  ASSUME ChosenInv, NEW S \in CappedRows, NEW i \in S
  PROVE  LET of == {j \in S : rows[j].label = rows[i].label /\ rows[j].source = rows[i].source}
         IN  Cardinality(of) \in Nat /\ Cardinality(of) <= Part(rows[i].label)
  <1> DEFINE q == Part(rows[i].label)
             of == {j \in S : rows[j].label = rows[i].label /\ rows[j].source = rows[i].source}
             in(split) == {j \in of : Split(j) = split}
  <1>1. i \in Kept /\ S \subseteq Kept
    BY DEF CappedRows
  <1>2. q \in Nat
    BY <1>1, SourcesCount, PartFits, PipelineAssumption DEF Part
  <1>3. ASSUME NEW split \in Splits
        PROVE  /\ IsFiniteSet(in(split))
               /\ Cardinality(in(split)) \in Nat
               /\ Cardinality(in(split)) <= (q * Percentage[split]) \div 100
    <2>1. in(split) \subseteq Kept
      BY <1>1
    <2>2. IsFiniteSet(in(split)) /\ Cardinality(in(split)) \in Nat
      BY <2>1, KeptIsFinite, FS_Subset, FS_CardinalityType
    <2>3. CASE in(split) = {}
      <3>1. Cardinality(in(split)) = 0
        BY <2>3, FS_EmptySet
      <3>2. Percentage[split] \in {70, 15}
        BY DEF Percentage, Splits
      <3>3. (q * Percentage[split]) \div 100 >= 0
        BY <1>2, <3>2
      <3>4. QED
        BY <2>2, <3>1, <3>3
    <2>4. CASE in(split) # {}
      <3>1. PICK k \in in(split) : TRUE
        BY <2>4
      <3>2. /\ k \in S /\ Split(k) = split
            /\ rows[k].label = rows[i].label /\ rows[k].source = rows[i].source
        BY <3>1
      <3>3. S \cap Bin(k) = in(split)
        BY <1>1, <3>2 DEF Bin
      <3>4. Cardinality(S \cap Bin(k)) <= (Part(rows[k].label) * Percentage[Split(k)]) \div 100
        BY <3>2, BinWithinCap
      <3>5. Cardinality(S \cap Bin(k)) = Cardinality(in(split))
        BY <3>3, Zenon
      <3> HIDE DEF in
      <3>6. QED
        BY <2>2, <3>2, <3>4, <3>5
    <2>5. QED
      BY <2>2, <2>3, <2>4
  <1>4. of = (in("train") \cup in("val")) \cup in("test")
    <2>1. ASSUME NEW j \in of
          PROVE  Split(j) \in Splits
      <3>1. j \in 1..Len(rows)
        BY <1>1 DEF Kept
      <3>2. QED
        BY <3>1, PipelineAssumption DEF Split, ChosenInv
    <2>2. QED
      BY <2>1 DEF Splits
  <1> HIDE DEF in
  <1> DEFINE a == in("train")
             b == in("val")
             c == in("test")
  <1>5. /\ IsFiniteSet(a) /\ IsFiniteSet(b) /\ IsFiniteSet(c)
        /\ Cardinality(a) \in Nat /\ Cardinality(b) \in Nat /\ Cardinality(c) \in Nat
        /\ Cardinality(a) <= (q * 70) \div 100
        /\ Cardinality(b) <= (q * 15) \div 100
        /\ Cardinality(c) <= (q * 15) \div 100
    BY <1>3 DEF Splits, Percentage
  <1> HIDE DEF a, b, c, q
  <1>6. /\ IsFiniteSet(a \cup b)
        /\ Cardinality(a \cup b) <= Cardinality(a) + Cardinality(b)
        /\ Cardinality(a \cup b) \in Nat
    <2>1. IsFiniteSet(a \cap b)
      BY <1>5, FS_Subset
    <2>2. Cardinality(a \cap b) \in Nat
      BY <2>1, FS_CardinalityType
    <2>3. IsFiniteSet(a \cup b) /\ Cardinality(a \cup b) = Cardinality(a) + Cardinality(b) - Cardinality(a \cap b)
      BY <1>5, FS_Union
    <2>4. Cardinality(a \cup b) \in Nat
      BY <2>3, FS_CardinalityType
    <2>5. QED
      BY <1>5, <2>2, <2>3, <2>4
  <1>7. /\ Cardinality((a \cup b) \cup c) <= Cardinality(a \cup b) + Cardinality(c)
        /\ Cardinality((a \cup b) \cup c) \in Nat
    <2> DEFINE d == a \cup b
    <2>1. IsFiniteSet(d) /\ Cardinality(d) \in Nat
      BY <1>6
    <2> HIDE DEF d
    <2>2. IsFiniteSet(d \cap c)
      BY <1>5, FS_Subset
    <2>3. Cardinality(d \cap c) \in Nat
      BY <2>2, FS_CardinalityType
    <2>4. IsFiniteSet(d \cup c) /\ Cardinality(d \cup c) = Cardinality(d) + Cardinality(c) - Cardinality(d \cap c)
      BY <1>5, <2>1, FS_Union
    <2>5. Cardinality(d \cup c) \in Nat
      BY <2>4, FS_CardinalityType
    <2>6. Cardinality(d \cup c) <= Cardinality(d) + Cardinality(c)
      BY <1>5, <2>1, <2>3, <2>4
    <2>7. QED
      BY <2>5, <2>6 DEF d
  <1>8. (q * 70) \div 100 + (q * 15) \div 100 + (q * 15) \div 100 <= q
    BY <1>2
  <1>9. Cardinality(of) = Cardinality((a \cup b) \cup c)
    BY <1>4, Zenon DEF a, b, c
  <1> HIDE DEF of
  <1>10. (q * 70) \div 100 \in Int /\ (q * 15) \div 100 \in Int
    BY <1>2
  <1>11. Cardinality(of) \in Nat /\ Cardinality(of) <= q
    BY <1>2, <1>5, <1>6, <1>7, <1>8, <1>9, <1>10
  <1>12. QED
    BY <1>11 DEF of, q

(* Of a set in parts of at most q elements.                                *)
LEMMA CountByParts ==
  ASSUME NEW S, IsFiniteSet(S), NEW g, NEW T, IsFiniteSet(T), NEW q \in Nat,
         \A t \in T : Cardinality({j \in S : g[j] = t}) <= q
  PROVE  Cardinality({j \in S : g[j] \in T}) <= Cardinality(T) * q
  <1> DEFINE in(s) == {j \in S : g[j] \in s}
             Good == {s \in SUBSET T : Cardinality(in(s)) <= Cardinality(s) * q}
  <1>0. ASSUME NEW s
        PROVE  IsFiniteSet(in(s)) /\ Cardinality(in(s)) \in Nat
    BY FS_Subset, FS_CardinalityType
  <1>1. {} \in Good
    <2>1. in({}) = {}
      OBVIOUS
    <2>2. Cardinality(in({})) = Cardinality({})
      BY <2>1, Zenon
    <2>3. Cardinality({}) = 0
      BY FS_EmptySet
    <2>4. QED
      BY <2>2, <2>3
  <1>2. ASSUME NEW s \in SUBSET T, NEW x \in T \ s, s \in Good
        PROVE  s \cup {x} \in Good
    <2> DEFINE a == in(s)
               b == {j \in S : g[j] = x}
    <2>1. IsFiniteSet(s) /\ Cardinality(s) \in Nat
      BY FS_Subset, FS_CardinalityType
    <2>2. Cardinality(s \cup {x}) = Cardinality(s) + 1
      BY <2>1, FS_AddElement
    <2>3. in(s \cup {x}) = a \cup b
      OBVIOUS
    <2>4. IsFiniteSet(a) /\ IsFiniteSet(b) /\ IsFiniteSet(a \cap b)
      <3>1. b \in SUBSET S /\ a \in SUBSET S
        OBVIOUS
      <3> HIDE DEF a, b
      <3>2. a \cap b \in SUBSET S
        BY <3>1
      <3>3. QED
        BY <3>1, <3>2, FS_Subset
    <2>5. Cardinality(b) <= q /\ Cardinality(a) <= Cardinality(s) * q
      BY <1>2
    <2>6. Cardinality(in(s \cup {x})) = Cardinality(a \cup b)
      BY <2>3, Zenon
    <2> HIDE DEF a, b, in
    <2>7. Cardinality(a \cup b) = Cardinality(a) + Cardinality(b) - Cardinality(a \cap b)
      BY <2>4, FS_Union
    <2>8. Cardinality(a) \in Nat /\ Cardinality(b) \in Nat /\ Cardinality(a \cap b) \in Nat
      BY <2>4, FS_CardinalityType
    <2>9. (Cardinality(s) + 1) * q = Cardinality(s) * q + q
      BY <2>1
    <2>10. Cardinality(a \cup b) <= Cardinality(s \cup {x}) * q
      BY <2>1, <2>2, <2>5, <2>7, <2>8, <2>9
    <2>11. QED
      BY <2>6, <2>10
  <1> HIDE DEF Good
  <1>3. SUBSET T \subseteq Good
    BY <1>1, <1>2, SubsetInduction
  <1>4. QED
    BY <1>3 DEF Good

(* No label has more rows than its cap, and no source of it more than its  *)
(* share, for every corpus, hash and cap, although every division rounds.  *)
THEOREM PipelineFairShares == Spec => []FairShares
  <1>1. CapInv => FairShares
    <2> SUFFICES ASSUME CapInv, NEW i \in chosen
                 PROVE  LET label == rows[i].label
                            of(source) == {j \in chosen : rows[j].label = label
                                                           /\ rows[j].source = source}
                        IN  /\ Cardinality({j \in chosen : rows[j].label = label}) <= PerLabelCap
                            /\ Cardinality(of(rows[i].source)) * Cardinality(Sources(label))
                                 <= PerLabelCap
      BY DEF FairShares
    <2> DEFINE label == rows[i].label
               of(source) == {j \in chosen : rows[j].label = label /\ rows[j].source = source}
               own == {j \in chosen : rows[j].label = label}
               n == Cardinality(Sources(label))
               q == Part(label)
               g == [j \in own |-> rows[j].source]
    <2>1. ChosenInv /\ chosen \in CappedRows /\ chosen \subseteq Kept /\ i \in Kept
      BY CappedIsKept DEF CapInv
    <2>2. IsFiniteSet(Sources(label)) /\ n \in Nat \ {0}
      BY <2>1, SourcesCount
    <2>3. q \in Nat /\ q * n <= PerLabelCap
      BY <2>2, PartFits, PipelineAssumption DEF Part
    <2>4. Cardinality(of(rows[i].source)) \in Nat /\ Cardinality(of(rows[i].source)) <= q
      BY <2>1, SourceWithinPart
    <2>5. IsFiniteSet(own)
      <3>1. own \in SUBSET Kept
        BY <2>1
      <3>2. QED
        BY <2>1, <3>1, KeptIsFinite, FS_Subset
    <2>6. ASSUME NEW source \in Sources(label)
          PROVE  Cardinality({j \in own : g[j] = source}) <= q
      <3>1. {j \in own : g[j] = source} = of(source)
        OBVIOUS
      <3>2. Cardinality({j \in own : g[j] = source}) = Cardinality(of(source))
        BY <3>1, Zenon
      <3>3. CASE of(source) = {}
        <4>1. Cardinality(of(source)) = 0
          BY <3>3, FS_EmptySet
        <4>2. QED
          BY <2>3, <3>2, <4>1
      <3>4. CASE of(source) # {}
        <4>1. PICK k \in chosen : rows[k].label = label /\ rows[k].source = source
          BY <3>4
        <4>2. Cardinality({j \in chosen : rows[j].label = rows[k].label
                                           /\ rows[j].source = rows[k].source}) <= Part(rows[k].label)
          BY <2>1, SourceWithinPart
        <4>3. QED
          BY <3>2, <4>1, <4>2
      <3>5. QED
        BY <3>3, <3>4
    <2>7. {j \in own : g[j] \in Sources(label)} = own
      BY <2>1 DEF Sources
    <2>8. Cardinality({j \in own : g[j] \in Sources(label)}) = Cardinality(own)
      BY <2>7, Zenon
    <2>9. Cardinality({j \in own : g[j] \in Sources(label)}) <= n * q
      <3> HIDE DEF g, own, q
      <3>1. QED
        BY <2>2, <2>3, <2>5, <2>6, CountByParts
    <2>10. Cardinality(own) \in Nat
      BY <2>5, FS_CardinalityType
    <2>11. Cardinality(own) <= PerLabelCap
      <3> DEFINE m == Cardinality(own)
      <3>1. m \in Nat /\ m <= n * q
        BY <2>8, <2>9, <2>10
      <3> HIDE DEF m, n, q
      <3>2. m <= PerLabelCap
        BY <2>2, <2>3, <3>1, PipelineAssumption
      <3>3. QED
        BY <3>2 DEF m
    <2>12. Cardinality(of(rows[i].source)) * n <= PerLabelCap
      <3> DEFINE m == Cardinality(of(rows[i].source))
      <3>1. m \in Nat /\ m <= q
        BY <2>4
      <3> HIDE DEF m, n, q
      <3>2. m * n <= q * n
        BY <2>2, <2>3, <3>1
      <3>3. m * n \in Int /\ q * n \in Int
        BY <2>2, <2>3, <3>1
      <3>4. m * n <= PerLabelCap
        BY <2>3, <3>2, <3>3, PipelineAssumption
      <3>5. QED
        BY <3>4 DEF m
    <2>13. QED
      BY <2>11, <2>12
  <1>2. QED
    BY <1>1, CapInvariant, PTL

-----------------------------------------------------------------------------
(* The report *)

(* A bag of pairs: how many there are, and how many of equal halves.       *)
Diagonal(B) == {p \in DOMAIN B : p[1] = p[2]}

IsTally(B, total, hit) ==
  /\ IsFiniteSet(DOMAIN B)
  /\ B \in [DOMAIN B -> Nat]
  /\ \A p \in DOMAIN B : \E a, b : p = <<a, b>>
  /\ SumFunctionOnSet(B, DOMAIN B) = total
  /\ SumFunctionOnSet(B, Diagonal(B)) = hit

LEMMA TallyOfNone == IsTally(EmptyBag, 0, 0)
  <1>1. /\ DOMAIN EmptyBag = {} /\ EmptyBag = [x \in {} |-> 1]
    BY DEF EmptyBag, SetToBag
  <1>2. IsFiniteSet({})
    BY FS_EmptySet
  <1>3. Diagonal(EmptyBag) = {}
    BY <1>1 DEF Diagonal
  <1>4. /\ SumFunctionOnSet(EmptyBag, DOMAIN EmptyBag) = SumFunctionOnSet(EmptyBag, {})
        /\ SumFunctionOnSet(EmptyBag, Diagonal(EmptyBag)) = SumFunctionOnSet(EmptyBag, {})
    BY <1>1, <1>3, Zenon
  <1>5. SumFunctionOnSet(EmptyBag, {}) = 0
    BY SumOfNone
  <1>6. EmptyBag \in [DOMAIN EmptyBag -> Nat]
    BY <1>1
  <1>7. IsFiniteSet(DOMAIN EmptyBag)
    BY <1>1, <1>2, Zenon
  <1>8. QED
    BY <1>1, <1>4, <1>5, <1>6, <1>7 DEF IsTally

(* One more of x counts in every set that x is in.                         *)
LEMMA SumOneMore ==
  ASSUME NEW D, IsFiniteSet(D), NEW B \in [D -> Nat], NEW x, NEW A,
         NEW E, E = D \cup {x}, NEW C \in [E -> Nat],
         C[x] = (IF x \in D THEN B[x] ELSE 0) + 1,
         \A y \in D \ {x} : C[y] = B[y],
         A \subseteq E
  PROVE  SumFunctionOnSet(C, A) = SumFunctionOnSet(B, A \cap D) + (IF x \in A THEN 1 ELSE 0)
  <1> DEFINE R == A \ {x}
  <1>1. R \subseteq D /\ IsFiniteSet(R)
    <2>1. R \subseteq D
      OBVIOUS
    <2> HIDE DEF R
    <2>2. QED
      BY <2>1, FS_Subset
  <1>2. \A y \in R : B[y] \in Int /\ C[y] \in Int /\ C[y] = B[y]
    BY <1>1
  <1>3. /\ SumFunctionOnSet(C, R) = SumFunctionOnSet(B, R)
        /\ SumFunctionOnSet(B, R) \in Int
    <2> HIDE DEF R
    <2>1. QED
      BY <1>1, <1>2, SumAgree, SumTake
  <1>4. CASE x \notin A
    <2>1. A = R /\ A \cap D = R
      BY <1>1, <1>4
    <2>2. /\ SumFunctionOnSet(C, A) = SumFunctionOnSet(C, R)
          /\ SumFunctionOnSet(B, A \cap D) = SumFunctionOnSet(B, R)
      BY <2>1, Zenon
    <2>3. QED
      BY <1>3, <1>4, <2>2
  <1>5. CASE x \in A
    <2>1. A = R \cup {x} /\ x \notin R
      BY <1>5
    <2>2. C[x] \in Int
      BY <1>5
    <2>3. SumFunctionOnSet(C, R \cup {x}) = SumFunctionOnSet(C, R) + C[x]
      <3> HIDE DEF R
      <3>1. QED
        BY <1>1, <1>2, <2>1, <2>2, SumAdd
    <2>4. SumFunctionOnSet(C, A) = SumFunctionOnSet(C, R \cup {x})
      BY <2>1, Zenon
    <2>5. CASE x \in D
      <3>1. A \cap D = R \cup {x} /\ B[x] \in Int
        BY <1>1, <2>1, <2>5
      <3>2. SumFunctionOnSet(B, R \cup {x}) = SumFunctionOnSet(B, R) + B[x]
        <4> HIDE DEF R
        <4>1. QED
          BY <1>1, <1>2, <2>1, <3>1, SumAdd
      <3>3. SumFunctionOnSet(B, A \cap D) = SumFunctionOnSet(B, R \cup {x})
        BY <3>1, Zenon
      <3> HIDE DEF R
      <3>4. QED
        BY <1>3, <1>5, <2>3, <2>4, <2>5, <3>1, <3>2, <3>3
    <2>6. CASE x \notin D
      <3>1. A \cap D = R
        BY <1>1, <2>1, <2>6
      <3>2. SumFunctionOnSet(B, A \cap D) = SumFunctionOnSet(B, R)
        BY <3>1, Zenon
      <3> HIDE DEF R
      <3>3. QED
        BY <1>3, <1>5, <2>3, <2>4, <2>6, <3>2
    <2>7. QED
      BY <2>5, <2>6
  <1>6. QED
    BY <1>4, <1>5

LEMMA TallyAdd ==
  ASSUME NEW B, NEW total \in Nat, NEW hit \in Nat, IsTally(B, total, hit), NEW a, NEW b
  PROVE  IsTally(B (+) SetToBag({<<a, b>>}), total + 1, hit + (IF a = b THEN 1 ELSE 0))
  <1> DEFINE x == <<a, b>>
             C == B (+) SetToBag({x})
             D == DOMAIN B
             E == D \cup {x}
  <1>1. /\ C = [e \in E |-> (IF e \in D THEN B[e] ELSE 0) + (IF e = x THEN 1 ELSE 0)]
        /\ x[1] = a /\ x[2] = b
    BY DEF (+), SetToBag
  <1>2. /\ IsFiniteSet(D) /\ B \in [D -> Nat]
        /\ \A p \in D : \E u, v : p = <<u, v>>
        /\ SumFunctionOnSet(B, D) = total
        /\ SumFunctionOnSet(B, Diagonal(B)) = hit
    BY DEF IsTally
  <1>3. \A p \in E : \E u, v : p = <<u, v>>
    BY <1>2
  <1> HIDE DEF x, C, D
  <1>4. DOMAIN C = E /\ C \in [E -> Nat]
    BY <1>1, <1>2
  <1>5. C[x] = (IF x \in D THEN B[x] ELSE 0) + 1 /\ \A y \in D \ {x} : C[y] = B[y]
    BY <1>1, <1>2
  <1>6. IsFiniteSet(E)
    BY <1>2, FS_AddElement
  <1>7. \A A \in SUBSET E :
          SumFunctionOnSet(C, A) = SumFunctionOnSet(B, A \cap D) + (IF x \in A THEN 1 ELSE 0)
    <2> SUFFICES ASSUME NEW A \in SUBSET E
                 PROVE  SumFunctionOnSet(C, A) =
                          SumFunctionOnSet(B, A \cap D) + (IF x \in A THEN 1 ELSE 0)
      OBVIOUS
    <2>1. E = D \cup {x} /\ A \subseteq E
      OBVIOUS
    <2> HIDE DEF E
    <2>2. IsFiniteSet(D) /\ B \in [D -> Nat] /\ C \in [E -> Nat]
      BY <1>2, <1>4
    <2>3. QED
      BY <1>5, <2>1, <2>2, SumOneMore
  <1>8. SumFunctionOnSet(C, E) = total + 1
    <2>1. E \cap D = D /\ x \in E
      OBVIOUS
    <2>2. SumFunctionOnSet(B, E \cap D) = SumFunctionOnSet(B, D)
      BY <2>1, Zenon
    <2>3. SumFunctionOnSet(C, E) = SumFunctionOnSet(B, E \cap D) + 1
      BY <1>7, <2>1
    <2>4. QED
      BY <1>2, <2>2, <2>3
  <1>9. SumFunctionOnSet(C, Diagonal(C)) = hit + (IF a = b THEN 1 ELSE 0)
    <2>1. Diagonal(C) \in SUBSET E /\ Diagonal(C) \cap D = Diagonal(B)
      BY <1>4 DEF Diagonal, D
    <2>2. x \in Diagonal(C) <=> a = b
      BY <1>1, <1>4 DEF Diagonal
    <2>3. SumFunctionOnSet(B, Diagonal(C) \cap D) = SumFunctionOnSet(B, Diagonal(B))
      BY <2>1, Zenon
    <2>4. SumFunctionOnSet(C, Diagonal(C)) =
            SumFunctionOnSet(B, Diagonal(C) \cap D) + (IF x \in Diagonal(C) THEN 1 ELSE 0)
      BY <1>7, <2>1
    <2>5. QED
      BY <1>2, <2>2, <2>3, <2>4
  <1>10. SumFunctionOnSet(C, DOMAIN C) = total + 1
    BY <1>4, <1>8, Zenon
  <1>11. IsTally(C, total + 1, hit + (IF a = b THEN 1 ELSE 0))
    BY <1>3, <1>4, <1>6, <1>9, <1>10 DEF IsTally
  <1>12. QED
    BY <1>11 DEF C, x

(* The classes of a field share its tally out, on both sides.              *)
LEMMA ClassesAddUp ==
  ASSUME NEW f, NEW total \in Nat, NEW hit \in Nat, IsTally(confusion[f], total, hit)
  PROVE  LET overall(figure) == SumFunction([c \in Classes(f) |-> PerClass(f, c)[figure]])
         IN  overall("both") = hit /\ overall("support") = total /\ overall("predicted") = total
  <1> DEFINE B == confusion[f]
             D == DOMAIN B
             C == Classes(f)
             left == [p \in D |-> p[1]]
             right == [p \in D |-> p[2]]
             both == [c \in C |-> SumFunctionOnSet(B, D \cap {<<c, c>>})]
             support == [c \in C |-> SumFunctionOnSet(B, {p \in D : p[1] = c})]
             predicted == [c \in C |-> SumFunctionOnSet(B, {p \in D : p[2] = c})]
  <1>1. /\ [c \in C |-> PerClass(f, c)["both"]] = both
        /\ [c \in C |-> PerClass(f, c)["support"]] = support
        /\ [c \in C |-> PerClass(f, c)["predicted"]] = predicted
    BY DEF PerClass, BagToSet
  <1>2. C = {left[p] : p \in D} \cup {right[p] : p \in D}
    <2>1. C = UNION {{p[1], p[2]} : p \in D}
      BY DEF Classes, BagToSet
    <2>2. \A x : x \in UNION {{p[1], p[2]} : p \in D} <=> \E p \in D : x = p[1] \/ x = p[2]
      <3> HIDE DEF D
      <3>1. QED
        OBVIOUS
    <2>3. \A x : x \in {left[p] : p \in D} \cup {right[p] : p \in D}
                   <=> \E p \in D : x = p[1] \/ x = p[2]
      <3> HIDE DEF D
      <3>1. QED
        OBVIOUS
    <2> HIDE DEF C, D, left, right
    <2>4. QED
      BY <2>1, <2>2, <2>3
  <1>3. /\ IsFiniteSet(D) /\ B \in [D -> Nat]
        /\ \A p \in D : \E a, b : p = <<a, b>>
        /\ SumFunctionOnSet(B, D) = total
        /\ SumFunctionOnSet(B, Diagonal(B)) = hit
    BY DEF IsTally
  <1>4. IsFiniteSet(C)
    <2> DEFINE lefts == {left[p] : p \in D}
               rights == {right[p] : p \in D}
    <2>1. left \in Surjection(D, lefts) /\ right \in Surjection(D, rights)
      <3> HIDE DEF D
      <3>1. QED
        BY DEF Surjection
    <2>2. IsFiniteSet(lefts) /\ IsFiniteSet(rights)
      BY <1>3, <2>1, FS_Surjection
    <2>3. C = lefts \cup rights
      BY <1>2
    <2> HIDE DEF lefts, rights, C
    <2>4. IsFiniteSet(lefts \cup rights)
      BY <2>2, FS_Union
    <2>5. QED
      BY <2>3, <2>4
  <1>5. \A p \in D : left[p] \in C /\ right[p] \in C /\ left[p] = p[1] /\ right[p] = p[2]
    BY <1>2
  <1>6. Diagonal(B) \in SUBSET D
    BY DEF Diagonal
  <1>7. \A c \in C : both[c] = SumFunctionOnSet(B, {p \in Diagonal(B) : left[p] = c})
    <2> SUFFICES ASSUME NEW c \in C
                 PROVE  both[c] = SumFunctionOnSet(B, {p \in Diagonal(B) : left[p] = c})
      OBVIOUS
    <2>1. D \cap {<<c, c>>} = {p \in Diagonal(B) : left[p] = c}
      <3>1. ASSUME NEW p \in D
            PROVE  p = <<c, c>> <=> p \in Diagonal(B) /\ left[p] = c
        <4>1. PICK a, b : p = <<a, b>>
          BY <1>3
        <4>2. p[1] = a /\ p[2] = b
          BY <4>1
        <4>3. p \in Diagonal(B) <=> a = b
          BY <4>2 DEF Diagonal
        <4>4. left[p] = a
          BY <4>2
        <4>5. QED
          BY <4>1, <4>2, <4>3, <4>4
      <3>2. QED
        BY <1>6, <3>1
    <2>2. both[c] = SumFunctionOnSet(B, D \cap {<<c, c>>})
      OBVIOUS
    <2>3. QED
      BY <2>1, <2>2, Zenon
  <1>8. /\ \A c \in C : support[c] = SumFunctionOnSet(B, {p \in D : left[p] = c})
        /\ \A c \in C : predicted[c] = SumFunctionOnSet(B, {p \in D : right[p] = c})
    <2> SUFFICES ASSUME NEW c \in C
                 PROVE  /\ support[c] = SumFunctionOnSet(B, {p \in D : left[p] = c})
                        /\ predicted[c] = SumFunctionOnSet(B, {p \in D : right[p] = c})
      OBVIOUS
    <2>1. /\ {p \in D : p[1] = c} = {p \in D : left[p] = c}
          /\ {p \in D : p[2] = c} = {p \in D : right[p] = c}
      OBVIOUS
    <2>2. /\ support[c] = SumFunctionOnSet(B, {p \in D : p[1] = c})
          /\ predicted[c] = SumFunctionOnSet(B, {p \in D : p[2] = c})
      OBVIOUS
    <2>3. QED
      BY <2>1, <2>2, Zenon
  <1>9. DOMAIN both = C /\ DOMAIN support = C /\ DOMAIN predicted = C
    OBVIOUS
  <1>10. IsFiniteSet(Diagonal(B))
    BY <1>3, <1>6, FS_Subset
  <1>11. \A p \in D : B[p] \in Int
    BY <1>3
  <1> HIDE DEF C, D, left, right, both, support, predicted
  <1>12. SumFunctionOnSet(both, C) = hit
    <2>1. (\A p \in Diagonal(B) : B[p] \in Int) /\ (\A p \in Diagonal(B) : left[p] \in C)
      BY <1>5, <1>6, <1>11
    <2>2. SumFunctionOnSet(both, C) = SumFunctionOnSet(B, Diagonal(B))
      <3> HIDE DEF B
      <3>1. QED
        BY <1>4, <1>7, <1>10, <2>1, SumByParts
    <2>3. QED
      BY <1>3, <2>2
  <1>13. SumFunctionOnSet(support, C) = total /\ SumFunctionOnSet(predicted, C) = total
    <2>1. SumFunctionOnSet(support, C) = SumFunctionOnSet(B, D)
      <3>1. IsFiniteSet(D) /\ (\A p \in D : left[p] \in C)
        BY <1>3, <1>5
      <3>2. \A c \in C : support[c] = SumFunctionOnSet(B, {p \in D : left[p] = c})
        BY <1>8
      <3> HIDE DEF B
      <3>3. QED
        BY <1>4, <1>11, <3>1, <3>2, SumByParts
    <2>2. SumFunctionOnSet(predicted, C) = SumFunctionOnSet(B, D)
      <3>1. IsFiniteSet(D) /\ (\A p \in D : right[p] \in C)
        BY <1>3, <1>5
      <3>2. \A c \in C : predicted[c] = SumFunctionOnSet(B, {p \in D : right[p] = c})
        BY <1>8
      <3> HIDE DEF B
      <3>3. QED
        BY <1>4, <1>11, <3>1, <3>2, SumByParts
    <2>3. QED
      BY <1>3, <2>1, <2>2
  <1>14. /\ SumFunction(both) = hit
         /\ SumFunction(support) = total
         /\ SumFunction(predicted) = total
    BY <1>9, <1>12, <1>13, Zenon DEF SumFunction
  <1>15. QED
    BY <1>1, <1>14, Zenon DEF C

(* The tenth a confidence is counted in. *)
LEMMA BucketFacts ==
  ASSUME NEW c \in 0..100
  PROVE  /\ Bucket(c) \in 0..9
         /\ 10 * Bucket(c) <= c
         /\ c <= (IF Bucket(c) = 9 THEN 100 ELSE 10 * Bucket(c) + 9)
  <1> DEFINE t == c \div 10
  <1>1. t \in 0..10 /\ 10 * t <= c /\ c <= 10 * t + 9
    OBVIOUS
  <1> HIDE DEF t
  <1>2. CASE t <= 9
    <2>1. t \in {t, 9} /\ \A y \in {t, 9} : t <= y
      BY <1>1, <1>2
    <2>2. \A x \in {t, 9} : (\A y \in {t, 9} : x <= y) => x = t
      BY <1>1, <1>2
    <2>3. Min({t, 9}) = t
      BY <2>1, <2>2 DEF Min
    <2>4. QED
      BY <1>1, <1>2, <2>3 DEF Bucket, t
  <1>3. CASE ~ (t <= 9)
    <2>1. t = 10
      BY <1>1, <1>3
    <2>2. \A x \in {t, 9} : (\A y \in {t, 9} : x <= y) <=> x = 9
      BY <2>1
    <2>3. Min({t, 9}) = 9
      BY <2>2 DEF Min
    <2>4. QED
      BY <1>1, <2>1, <2>3 DEF Bucket, t
  <1>4. QED
    BY <1>2, <1>3

(* Of each field the tally says what the counters say, and so do the       *)
(* misses; the buckets hold all cases, each in its tenth.                  *)
MissesOf(f) == {m \in misses : m.field = f}

FieldInv(f) ==
  /\ hits[f] \in Nat /\ totals[f] \in Nat
  /\ IsTally(confusion[f], totals[f], hits[f])
  /\ IsFiniteSet(MissesOf(f))
  /\ hits[f] + Cardinality(MissesOf(f)) = totals[f]

Missed == {m.at : m \in misses}

CasesInv ==
  /\ scored \in Nat
  /\ \A m \in misses : m.at \in 1..scored
  /\ correct = scored - Cardinality(Missed)

Tenth == [count : Nat, sum : Nat, correct : Nat]
Counts == [b \in 0..9 |-> buckets[b].count]
Corrects == [b \in 0..9 |-> buckets[b].correct]

BucketsInv ==
  /\ buckets \in [0..9 -> Tenth]
  /\ SumFunctionOnSet(Counts, 0..9) = scored
  /\ SumFunctionOnSet(Corrects, 0..9) = correct
  /\ \A b \in 0..9 :
       /\ 10 * b * buckets[b].count <= buckets[b].sum
       /\ buckets[b].sum <= (IF b = 9 THEN 100 ELSE 10 * b + 9) * buckets[b].count

ReportInv == (\A f \in Fields : FieldInv(f)) /\ CasesInv /\ BucketsInv

LEMMA TenthsAreFinite == IsFiniteSet(0..9)
  <1>1. 0 \in Int /\ 9 \in Int
    OBVIOUS
  <1>2. QED
    BY <1>1, FS_Interval, Zenon

LEMMA ReportInit == Init => ReportInv
  <1> SUFFICES ASSUME Init PROVE ReportInv
    OBVIOUS
  <1>1. \A f \in Fields : hits[f] = 0 /\ totals[f] = 0 /\ confusion[f] = EmptyBag
    BY DEF Init
  <1>2. misses = {} /\ scored = 0 /\ correct = 0
    BY DEF Init
  <1>3. IsFiniteSet({}) /\ Cardinality({}) = 0
    BY FS_EmptySet
  <1>4. ASSUME NEW f \in Fields
        PROVE  FieldInv(f)
    <2>1. MissesOf(f) = {}
      BY <1>2 DEF MissesOf
    <2>2. IsTally(confusion[f], totals[f], hits[f])
      BY <1>1, TallyOfNone
    <2>3. IsFiniteSet(MissesOf(f)) /\ Cardinality(MissesOf(f)) = 0
      BY <1>3, <2>1, Zenon
    <2>4. QED
      BY <1>1, <2>2, <2>3 DEF FieldInv
  <1>5. CasesInv
    <2>1. Missed = {}
      BY <1>2 DEF Missed
    <2>2. Cardinality(Missed) = 0
      BY <1>3, <2>1, Zenon
    <2>3. QED
      BY <1>2, <2>2 DEF CasesInv
  <1>6. BucketsInv
    <2> DEFINE zero == [b \in 0..9 |-> 0]
    <2>1. buckets = [b \in 0..9 |-> [count |-> 0, sum |-> 0, correct |-> 0]]
      BY DEF Init
    <2>2. Counts = zero /\ Corrects = zero
      BY <2>1 DEF Counts, Corrects
    <2>3. SumFunctionOnSet(zero, 0..9) = 0
      <3> DEFINE Good == {s \in SUBSET (0..9) : SumFunctionOnSet(zero, s) = 0}
                 U == 0..9
      <3>1. {} \in Good
        BY SumOfNone
      <3>2. ASSUME NEW s \in SUBSET U, NEW x \in U \ s, s \in Good
            PROVE  s \cup {x} \in Good
        <4>1. IsFiniteSet(s)
          <5>1. IsFiniteSet(U)
            BY TenthsAreFinite
          <5>2. QED
            BY <5>1, FS_Subset
        <4>2. (\A i \in s : zero[i] \in Int) /\ zero[x] = 0 /\ zero[x] \in Int /\ x \notin s
          OBVIOUS
        <4> HIDE DEF zero
        <4>3. SumFunctionOnSet(zero, s \cup {x}) = SumFunctionOnSet(zero, s) + zero[x]
          <5> HIDE DEF U
          <5>1. QED
            BY <4>1, <4>2, SumAdd
        <4>4. QED
          BY <3>2, <4>2, <4>3
      <3>3. IsFiniteSet(U) /\ U \in SUBSET U
        BY TenthsAreFinite
      <3> HIDE DEF Good, U
      <3>4. SUBSET U \subseteq Good
        BY <3>1, <3>2, <3>3, SubsetInduction
      <3>5. QED
        BY <3>3, <3>4 DEF Good, U
    <2>4. SumFunctionOnSet(Counts, 0..9) = 0 /\ SumFunctionOnSet(Corrects, 0..9) = 0
      BY <2>2, <2>3, Zenon
    <2>5. /\ buckets \in [0..9 -> Tenth]
          /\ \A b \in 0..9 : buckets[b].count = 0 /\ buckets[b].sum = 0
      BY <2>1 DEF Tenth
    <2>6. QED
      BY <1>2, <2>4, <2>5 DEF BucketsInv
  <1>7. QED
    BY <1>4, <1>5, <1>6 DEF ReportInv

(* The fields that a decision gets wrong in the case that is scored next.  *)
Expected == cases[scored + 1].expected
Wrong(decision) == {f \in DOMAIN Expected : decision[f] # Expected[f]}

LEMMA EvaluateField ==
  ASSUME CasesInv, NEW decision \in Decisions, Evaluate(decision), NEW f \in Fields, FieldInv(f)
  PROVE  FieldInv(f)'
  <1> DEFINE asked == f \in DOMAIN Expected
             wrong == Wrong(decision)
             new == [at |-> scored + 1, field |-> f]
             M == MissesOf(f)
  <1>1. /\ totals'[f] = totals[f] + (IF asked THEN 1 ELSE 0)
        /\ hits'[f] = hits[f] + (IF asked /\ f \notin wrong THEN 1 ELSE 0)
        /\ confusion'[f] = IF asked
                             THEN confusion[f] (+) SetToBag({<<Expected[f], decision[f]>>})
                             ELSE confusion[f]
    BY DEF Evaluate, Expected, Wrong
  <1>2. misses' = misses \cup {[at |-> scored + 1, field |-> g] : g \in wrong}
    BY DEF Evaluate, Expected, Wrong
  <1>3. MissesOf(f)' = M \cup (IF f \in wrong THEN {new} ELSE {})
    <2>1. MissesOf(f)' = {m \in misses' : m.field = f}
      BY DEF MissesOf
    <2>2. \A g \in wrong : [at |-> scored + 1, field |-> g].field = g
      OBVIOUS
    <2> HIDE DEF wrong
    <2>3. QED
      BY <1>2, <2>1, <2>2 DEF MissesOf
  <1>4. /\ hits[f] \in Nat /\ totals[f] \in Nat
        /\ IsTally(confusion[f], totals[f], hits[f])
        /\ IsFiniteSet(M) /\ Cardinality(M) \in Nat
        /\ hits[f] + Cardinality(M) = totals[f]
    BY FS_CardinalityType DEF FieldInv
  <1>5. new \notin M
    <2>1. new.at = scored + 1 /\ scored \in Nat /\ scored + 1 \notin 1..scored
      BY DEF CasesInv
    <2> HIDE DEF new
    <2>2. QED
      BY <2>1 DEF MissesOf, CasesInv
  <1>6. asked => (f \in wrong <=> Expected[f] # decision[f])
    BY DEF Wrong
  <1>7. f \in wrong => asked
    BY DEF Wrong
  <1>8. IsTally(confusion'[f], totals'[f], hits'[f])
    <2>1. CASE asked
      <3>1. IsTally(confusion[f] (+) SetToBag({<<Expected[f], decision[f]>>}), totals[f] + 1,
                    hits[f] + (IF Expected[f] = decision[f] THEN 1 ELSE 0))
        BY <1>4, TallyAdd
      <3> HIDE DEF wrong
      <3>2. hits'[f] = hits[f] + (IF Expected[f] = decision[f] THEN 1 ELSE 0)
        BY <1>1, <1>6, <2>1
      <3>3. totals'[f] = totals[f] + 1
        BY <1>1, <2>1
      <3>4. confusion'[f] = confusion[f] (+) SetToBag({<<Expected[f], decision[f]>>})
        BY <1>1, <2>1
      <3>5. QED
        BY <3>1, <3>2, <3>3, <3>4, Zenon
    <2>2. CASE ~ asked
      <3>1. totals'[f] = totals[f] /\ hits'[f] = hits[f] /\ confusion'[f] = confusion[f]
        BY <1>1, <1>4, <2>2
      <3>2. QED
        BY <1>4, <3>1
    <2>3. QED
      BY <2>1, <2>2
  <1> HIDE DEF asked, wrong, new, M
  <1>9. /\ IsFiniteSet(MissesOf(f)')
        /\ Cardinality(MissesOf(f)') = Cardinality(M) + (IF f \in wrong THEN 1 ELSE 0)
    <2>1. CASE f \in wrong
      <3>1. MissesOf(f)' = M \cup {new}
        BY <1>3, <2>1
      <3>2. IsFiniteSet(M \cup {new}) /\ Cardinality(M \cup {new}) = Cardinality(M) + 1
        BY <1>4, <1>5, FS_AddElement
      <3>3. QED
        BY <2>1, <3>1, <3>2
    <2>2. CASE f \notin wrong
      <3>1. MissesOf(f)' = M
        BY <1>3, <2>2
      <3>2. QED
        BY <1>4, <2>2, <3>1
    <2>3. QED
      BY <2>1, <2>2
  <1>10. /\ hits'[f] \in Nat /\ totals'[f] \in Nat
         /\ hits'[f] + Cardinality(MissesOf(f)') = totals'[f]
    BY <1>1, <1>4, <1>7, <1>9
  <1>11. QED
    BY <1>8, <1>9, <1>10 DEF FieldInv

LEMMA EvaluateCases ==
  ASSUME CasesInv, NEW decision \in Decisions, Evaluate(decision)
  PROVE  /\ CasesInv'
         /\ scored' = scored + 1
         /\ correct' = correct + (IF Wrong(decision) = {} THEN 1 ELSE 0)
  <1> DEFINE wrong == Wrong(decision)
             M == Missed
  <1>1. /\ scored' = scored + 1
        /\ correct' = correct + (IF wrong = {} THEN 1 ELSE 0)
        /\ misses' = misses \cup {[at |-> scored + 1, field |-> g] : g \in wrong}
    BY DEF Evaluate, Expected, Wrong
  <1>2. /\ scored \in Nat
        /\ \A m \in misses : m.at \in 1..scored
        /\ correct = scored - Cardinality(M)
    BY DEF CasesInv
  <1>3. \A g \in wrong : [at |-> scored + 1, field |-> g].at = scored + 1
    OBVIOUS
  <1> HIDE DEF wrong
  <1>4. \A m \in misses' : m.at \in 1..scored'
    BY <1>1, <1>2, <1>3
  <1>5. M \subseteq 1..scored /\ scored + 1 \notin M
    BY <1>2 DEF Missed
  <1>6. IsFiniteSet(M) /\ Cardinality(M) \in Nat
    <2>1. IsFiniteSet(1..scored)
      BY <1>2, FS_Interval
    <2> HIDE DEF M
    <2>2. QED
      BY <1>5, <2>1, FS_Subset, FS_CardinalityType
  <1>7. Missed' = M \cup (IF wrong = {} THEN {} ELSE {scored + 1})
    <2>1. Missed' = {m.at : m \in misses'}
      BY DEF Missed
    <2>2. QED
      BY <1>1, <1>3, <2>1 DEF Missed
  <1> HIDE DEF M
  <1>8. Cardinality(Missed') = Cardinality(M) + (IF wrong = {} THEN 0 ELSE 1)
    <2>1. CASE wrong = {}
      <3>1. Missed' = M
        BY <1>7, <2>1
      <3>2. QED
        BY <1>6, <2>1, <3>1
    <2>2. CASE wrong # {}
      <3>1. Missed' = M \cup {scored + 1}
        BY <1>7, <2>2
      <3>2. Cardinality(M \cup {scored + 1}) = Cardinality(M) + 1
        BY <1>5, <1>6, FS_AddElement
      <3>3. QED
        BY <2>2, <3>1, <3>2
    <2>3. QED
      BY <2>1, <2>2
  <1>9. correct' = scored' - Cardinality(Missed')
    BY <1>1, <1>2, <1>6, <1>8
  <1>10. CasesInv'
    BY <1>1, <1>2, <1>4, <1>9 DEF CasesInv
  <1>11. QED
    BY <1>1, <1>10 DEF wrong

LEMMA EvaluateBuckets ==
  ASSUME BucketsInv, CasesInv, NEW decision \in Decisions, Evaluate(decision)
  PROVE  BucketsInv'
  <1> DEFINE c == decision.confidence
             t == Bucket(c)
             right == IF Wrong(decision) = {} THEN 1 ELSE 0
             old == buckets[t]
             new == [count |-> old.count + 1, sum |-> old.sum + c, correct |-> old.correct + right]
             U == 0..9
  <1>1. buckets' = [buckets EXCEPT ![t] = new]
    BY DEF Evaluate, Expected, Wrong
  <1>2. c \in 0..100
    BY PipelineAssumption
  <1>3. t \in U /\ 10 * t <= c /\ c <= (IF t = 9 THEN 100 ELSE 10 * t + 9)
    BY <1>2, BucketFacts
  <1>4. right \in {0, 1}
    OBVIOUS
  <1>5. /\ scored \in Nat /\ correct \in Int
        /\ scored' = scored + 1 /\ correct' = correct + right
    <2>1. IsFiniteSet(U) /\ \A b \in U : Corrects[b] \in Int
      BY TenthsAreFinite DEF BucketsInv, Tenth, Corrects
    <2> HIDE DEF U
    <2>2. SumFunctionOnSet(Corrects, U) \in Int
      BY <2>1, SumTake
    <2>3. QED
      BY <2>2, EvaluateCases DEF BucketsInv, CasesInv, U
  <1>6. /\ buckets \in [U -> Tenth]
        /\ SumFunctionOnSet(Counts, U) = scored
        /\ SumFunctionOnSet(Corrects, U) = correct
        /\ \A b \in U :
             /\ 10 * b * buckets[b].count <= buckets[b].sum
             /\ buckets[b].sum <= (IF b = 9 THEN 100 ELSE 10 * b + 9) * buckets[b].count
    BY DEF BucketsInv
  <1> HIDE DEF t, c, right
  <1>7. /\ old \in Tenth /\ new \in Tenth
        /\ new.count = old.count + 1 /\ new.sum = old.sum + c
        /\ new.correct = old.correct + right
        /\ old.count \in Nat /\ old.sum \in Nat /\ old.correct \in Nat
    <2>1. old \in Tenth
      BY <1>3, <1>6
    <2> HIDE DEF old
    <2>2. QED
      BY <1>2, <1>4, <2>1 DEF Tenth
  <1> HIDE DEF new
  <1>8. /\ buckets' \in [U -> Tenth]
        /\ buckets'[t] = new
        /\ \A b \in U \ {t} : buckets'[b] = buckets[b]
    BY <1>1, <1>3, <1>6, <1>7
  <1>9. IsFiniteSet(U)
    BY TenthsAreFinite
  <1>10. /\ Counts' = [b \in U |-> buckets'[b].count]
         /\ Corrects' = [b \in U |-> buckets'[b].correct]
    BY DEF Counts, Corrects
  <1>11. /\ \A b \in U : Counts[b] \in Int /\ Counts'[b] \in Int
         /\ \A b \in U : Corrects[b] \in Int /\ Corrects'[b] \in Int
         /\ \A b \in U \ {t} : Counts[b] = Counts'[b] /\ Corrects[b] = Corrects'[b]
         /\ Counts'[t] = Counts[t] + 1
         /\ Corrects'[t] = Corrects[t] + right
    <2>1. \A b \in U : Counts[b] = buckets[b].count /\ Corrects[b] = buckets[b].correct
      BY DEF Counts, Corrects
    <2>2. \A b \in U : Counts'[b] = buckets'[b].count /\ Corrects'[b] = buckets'[b].correct
      BY <1>10
    <2>3. \A b \in U : buckets[b] \in Tenth /\ buckets'[b] \in Tenth
      BY <1>6, <1>8
    <2>4. \A x \in Tenth : x.count \in Int /\ x.correct \in Int
      BY DEF Tenth
    <2> HIDE DEF U
    <2>5. QED
      BY <1>3, <1>7, <1>8, <2>1, <2>2, <2>3, <2>4
  <1> HIDE DEF U
  <1>12. SumFunctionOnSet(Counts', U) = SumFunctionOnSet(Counts, U) - Counts[t] + Counts'[t]
    BY <1>3, <1>9, <1>11, SumChange
  <1>13. SumFunctionOnSet(Corrects', U) = SumFunctionOnSet(Corrects, U) - Corrects[t] + Corrects'[t]
    BY <1>3, <1>9, <1>11, SumChange
  <1>14. Counts[t] \in Int /\ Corrects[t] \in Int
    BY <1>3, <1>11
  <1>15. SumFunctionOnSet(Counts', U) = scored' /\ SumFunctionOnSet(Corrects', U) = correct'
    BY <1>4, <1>5, <1>6, <1>11, <1>12, <1>13, <1>14
  <1>16. ASSUME NEW b \in U
         PROVE  /\ 10 * b * buckets'[b].count <= buckets'[b].sum
                /\ buckets'[b].sum <= (IF b = 9 THEN 100 ELSE 10 * b + 9) * buckets'[b].count
    <2>1. CASE b # t
      BY <1>6, <1>8, <2>1
    <2>2. CASE b = t
      <3> DEFINE top == IF t = 9 THEN 100 ELSE 10 * t + 9
      <3>1. t \in Nat /\ top \in Nat /\ c \in Nat
        BY <1>2, <1>3 DEF U
      <3>2. 10 * t * old.count <= old.sum /\ old.sum <= top * old.count
        BY <1>3, <1>6
      <3>3. 10 * t <= c /\ c <= top
        BY <1>3
      <3> HIDE DEF top, old
      <3>4. /\ 10 * t * (old.count + 1) = 10 * t * old.count + 10 * t
            /\ top * (old.count + 1) = top * old.count + top
        <4> DEFINE n == old.count
        <4>1. n \in Int /\ 10 * t \in Int /\ top \in Int
          BY <1>7, <3>1
        <4> HIDE DEF n
        <4>2. \A a \in Int : a * (n + 1) = a * n + a
          BY <4>1
        <4>3. QED
          BY <4>1, <4>2 DEF n
      <3>5. 10 * t * old.count \in Int /\ top * old.count \in Int
        BY <1>7, <3>1
      <3>6. /\ 10 * t * (old.count + 1) <= old.sum + c
            /\ old.sum + c <= top * (old.count + 1)
        BY <1>7, <3>1, <3>2, <3>3, <3>4, <3>5
      <3>7. 10 * t * new.count <= new.sum /\ new.sum <= top * new.count
        BY <1>7, <3>6
      <3>8. QED
        BY <1>8, <2>2, <3>7 DEF top
    <2>3. QED
      BY <2>1, <2>2
  <1>17. QED
    BY <1>8, <1>15, <1>16 DEF BucketsInv, U

LEMMA ReportInvariant == Spec => []ReportInv
  <1>1. ReportInv /\ [Next]_vars => ReportInv'
    <2> SUFFICES ASSUME ReportInv, [Next]_vars
                 PROVE  ReportInv'
      OBVIOUS
    <2>1. ASSUME NEW decision \in Decisions, Evaluate(decision)
          PROVE  ReportInv'
      <3>1. CasesInv' /\ BucketsInv'
        BY <2>1, EvaluateCases, EvaluateBuckets DEF ReportInv
      <3>2. \A f \in Fields : FieldInv(f)'
        BY <2>1, EvaluateField DEF ReportInv
      <3>3. QED
        BY <3>1, <3>2 DEF ReportInv
    <2>2. CASE UNCHANGED scoring
      <3>1. UNCHANGED <<scored, hits, totals, confusion, misses, correct, buckets>>
        BY <2>2 DEF scoring
      <3>2. CasesInv'
        BY <3>1 DEF ReportInv, CasesInv, Missed
      <3>3. BucketsInv'
        BY <3>1 DEF ReportInv, BucketsInv, Counts, Corrects
      <3>4. \A f \in Fields : FieldInv(f)'
        BY <3>1 DEF ReportInv, FieldInv, MissesOf
      <3>5. QED
        BY <3>2, <3>3, <3>4 DEF ReportInv
    <2>3. UNCHANGED scoring \/ \E decision \in Decisions : Evaluate(decision)
      BY DEF Next, vars, Refuse, Prepare, FitFails, Open, Write, Crash, Fit
    <2>4. QED
      BY <2>1, <2>2, <2>3
  <1>2. QED
    BY <1>1, ReportInit, PTL DEF Spec

(* The figures of a report agree, for every benchmark and every decision.  *)
THEOREM PipelineReportAddsUp == Spec => []ReportAddsUp
  <1>1. ReportInv => ReportAddsUp
    <2> SUFFICES ASSUME ReportInv PROVE ReportAddsUp
      OBVIOUS
    <2>1. ASSUME NEW f \in Fields
          PROVE  LET overall(figure) == SumFunction([c \in Classes(f) |-> PerClass(f, c)[figure]])
                 IN  /\ hits[f] + Cardinality({m \in misses : m.field = f}) = totals[f]
                     /\ overall("both") = hits[f]
                     /\ overall("support") = totals[f]
                     /\ overall("predicted") = totals[f]
      <3>1. FieldInv(f)
        BY DEF ReportInv
      <3>2. hits[f] + Cardinality({m \in misses : m.field = f}) = totals[f]
        BY <3>1 DEF FieldInv, MissesOf
      <3>3. /\ hits[f] \in Nat /\ totals[f] \in Nat
            /\ IsTally(confusion[f], totals[f], hits[f])
        BY <3>1 DEF FieldInv
      <3>4. QED
        BY <3>2, <3>3, ClassesAddUp
    <2>2. correct = scored - Cardinality({m.at : m \in misses})
      BY DEF ReportInv, CasesInv, Missed
    <2>3. DOMAIN Counts = 0..9 /\ DOMAIN Corrects = 0..9
      BY DEF Counts, Corrects
    <2>4. SumFunction(Counts) = scored /\ SumFunction(Corrects) = correct
      <3>1. SumFunctionOnSet(Counts, 0..9) = scored /\ SumFunctionOnSet(Corrects, 0..9) = correct
        BY DEF ReportInv, BucketsInv
      <3>2. QED
        BY <2>3, <3>1, Zenon DEF SumFunction
    <2>5. /\ SumFunction([b \in 0..9 |-> buckets[b].count]) = scored
          /\ SumFunction([b \in 0..9 |-> buckets[b].correct]) = correct
      BY <2>4, Zenon DEF Counts, Corrects
    <2>6. \A b \in 0..9 :
            /\ 10 * b * buckets[b].count <= buckets[b].sum
            /\ buckets[b].sum <= (IF b = 9 THEN 100 ELSE 10 * b + 9) * buckets[b].count
      BY DEF ReportInv, BucketsInv
    <2>7. QED
      BY <2>1, <2>2, <2>5, <2>6, Zenon DEF ReportAddsUp
  <1>2. QED
    BY <1>1, ReportInvariant, PTL
=============================================================================
