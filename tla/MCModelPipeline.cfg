SPECIFICATION Spec
CONSTANTS
  Corpora <- MCCorpora
  Benchmarks <- MCBenchmarks
  NormalForm <- MCNormalForm
  Empty = ""
  NoPrompt = NoPrompt
  SplitOf <- MCSplitOf
  PerLabelCap = 7
  Cs = 2
  Accuracies = {0, 1}
  Decisions <- MCDecisions
  Old = Old
  Torn = Torn
INVARIANTS
  CleanSplits
  BenchmarkIsBlind
  FairShares
  BestOrNothing
  ReportAddsUp
\* One training run and one evaluation.
CHECK_DEADLOCK FALSE
