SPECIFICATION FairSpec
CONSTANT Goroutines = {g1, g2, g3}
INVARIANTS
  TypeOK
  NoPanic
  NoBlockedSend
PROPERTIES
  ImplementsChannel
  CloseCloses
  EventsDrained
CHECK_DEADLOCK FALSE
