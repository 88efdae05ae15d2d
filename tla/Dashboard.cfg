SPECIFICATION FairSpec
CONSTANTS
  overworld = overworld
  caves = caves
  ShardSeq <- MCShards
  Entries <- MCEntries
  IniAtStart <- MCIni
  IniFiles <- MCFiles
  None = None
  WireCap = 1
  MaxChanges = 3
  MaxEdits = 1
  MaxFreezes = 1
  MaxBreaks = 1
INVARIANTS
  TypeOK
  TargetIsShownMaster
PROPERTIES
  CatchesUp
