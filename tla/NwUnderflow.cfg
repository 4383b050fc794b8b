SPECIFICATION FairSpec
CONSTANTS
  mpc = mpc
  d1 = d1
  d2 = d2
  d3 = d3
  FabricIndexes = {1}
  NodeIds = {mpc, d1, d2}
  Mpc = mpc
  MpcLike = {mpc}
  GoodbyeIds = {d1, d2}
  Delay = 2
  ClockModulus = 16
  Horizon = 4
  NumEvents = 2
  MaxHandle = 3
PROPERTIES
  EveryPendingServed
