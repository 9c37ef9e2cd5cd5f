SPECIFICATION FairSpec
CONSTANTS
  f1 = f1
  f2 = f2
  FlowIDs <- OneFlow
  TTLSeconds = 2
  IdleSeconds = 1
  DrainSeconds = 1
  TCPReadBufferBytes = 1
  UDPBufferBytes = 2
  MaxFlows = 2
  MaxBufferedBytes = 2
  WindowSeconds = 1
  MaxFlowOpens = 0
  MaxBytes = 0
  MaxTime = 0
  MaxOpens = 2
  Disturbances = {"caller", "parent", "sink"}
INVARIANTS ShutReleases
PROPERTIES CloseReturns
CHECK_DEADLOCK FALSE
