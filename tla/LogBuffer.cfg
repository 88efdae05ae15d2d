SPECIFICATION FairSpec
CONSTANTS
  Writers = {out, err}
  Streams = {s1, s2}
  Size = 2
  SubCap = 1
  MaxBatch = 3
  MaxLines = 3
  NoLine = NoLine
CHECK_DEADLOCK FALSE
INVARIANTS
  TypeOK
  LastIsSuffix
  NoSendOnClosed
  DeliveredInOrder
PROPERTIES
  ShowsLastLines
  StoresEnd
