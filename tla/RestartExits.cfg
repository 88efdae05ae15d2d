SPECIFICATION Spec
CONSTANTS
  Main = main
  NoProc = NoProc
  Restarters = {r1}
  Stoppers = {}
  Procs = {main, r1}
  ClientCmds = {}
  PipeCap = 1
INVARIANT RestartKeepsSupervisor
