SPECIFICATION FairSpec
CONSTANTS
  Main = main
  NoProc = NoProc
  Restarters = {r1}
  Stoppers = {}
  Procs = {main, r1}
  ClientCmds = {"other"}
  PipeCap = 1
PROPERTIES
  SignalEndsSupervisor
  RequestsFinish
  WatchedExitEndsSupervisor
