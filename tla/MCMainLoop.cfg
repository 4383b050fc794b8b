SPECIFICATION FairSpec
CONSTANTS
  MaxQueue = 3
INVARIANTS
  TypeOK
  Exclusive
PROPERTIES
  EventsRun
  ShutdownEnds
