SPECIFICATION FairSpec
CONSTANTS
  Device = dev
  Endpoints = {0, 1}
  OnOffServers = {0, 1}
  Listed <- FirstUnknown
  GetRetryCount = 2
  MaxRestarts = 1
INVARIANTS
  TypeOK
  FunctionalIsUsable
  FunctionalIsMonitored
  TreeComplete
PROPERTIES
  ReadsEnd
  InterviewEnds
