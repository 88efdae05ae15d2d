SPECIFICATION ReadySpec
CONSTANTS
  Main = main
  NoProc = NoProc
  Restarters = {r1}
  Stoppers = {}
  Procs = {main, r1}
  ClientCmds = {}
  PipeCap = 1
  QueueCap = 1
  AnswersA2S = FALSE
INVARIANTS
  ReadinessNoticed
