SPECIFICATION ReadySpec
CONSTANTS
  Main = main
  NoProc = NoProc
  Restarters = {}
  Stoppers = {s1}
  Procs = {main}
  ClientCmds = {}
  PipeCap = 1
  QueueCap = 1
  AnswersA2S = TRUE
INVARIANTS
  RunningHasEvidence
