SPECIFICATION FairSpec
CONSTANTS
  Ports = {p1, p2}
  NoPort = NoPort
  MaxGen = 3
INVARIANTS
  TypeOK
  ObserverNeverWaits
  InfoFromCurrentPort
PROPERTY NewestPortProbed
