SPECIFICATION Spec
CONSTANTS
  Infos <- MCInfos
  Tokens <- MCTokens
  Junk <- MCJunk
  BufSize = 18
  Timeout = 2
  None = None
  IOError = IOError
  ParseError = ParseError
INVARIANTS
  TypeOK
  ResultIsWhatWasSaid
  WithinTimeout
  ChallengeEchoed
CHECK_DEADLOCK FALSE
