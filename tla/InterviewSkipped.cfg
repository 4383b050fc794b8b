SPECIFICATION FairSpec
CONSTANTS
  Device = dev
  Endpoints = {0, 1}
  OnOffServers = {1}
  Listed <- AllKnown
  GetRetryCount = 1
  MaxRestarts = 0
PROPERTIES
  NotInterviewingForEver
