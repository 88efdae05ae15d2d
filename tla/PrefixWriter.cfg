SPECIFICATION Spec
CONSTANTS
  Cap = 3
  MaxChunk = 6
  MaxBytes = 12
CHECK_DEADLOCK FALSE
INVARIANTS
  TypeOK
  BytesPreserved
  CutAtNewlinesOnly

