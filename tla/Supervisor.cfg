SPECIFICATION Spec
CONSTANTS
  Main = main
  NoProc = NoProc
  Restarters = {r1, r2}
  Stoppers = {}
  Procs = {main, r1, r2}
  ClientCmds = {}
  PipeCap = 2
SYMMETRY RequestSymmetry
INVARIANTS
  TypeOK
  SavedBeforeQuit
  KilledAfterAsking
  OneServerUnlessOverlap
  LiveServerIsManaged
  ErrorMaskedOnlyByRequest
  ServerLeftOnlyByRestart
PROPERTY
  LivesOneLife
