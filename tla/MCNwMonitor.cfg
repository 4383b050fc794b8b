SPECIFICATION Spec
CONSTANTS
  mpc = mpc
  d1 = d1
  d2 = d2
  d3 = d3
  FabricIndexes = {1}
  NodeIds = {mpc, d1, d2, d3}
  Mpc = mpc
  MpcLike = {mpc}
  GoodbyeIds = {d1, d2, d3}
  Delay = 3
  ClockModulus = 16
  Horizon = 4
  NumEvents = 3
  MaxHandle = 4
SYMMETRY Symmetry
INVARIANTS
  TypeOK
  NoLostWakeup
  ListsReadable
  OneNodePerPeer
  PendingUnpublished
  DecommissionedIsReset
  InterviewReadsDescriptor
PROPERTIES
  FabricUpdateTouchesMpcOnly
