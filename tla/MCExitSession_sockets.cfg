SPECIFICATION Spec
CONSTANTS
  f1 = f1
  f2 = f2
  FlowIDs <- OneFlow
  TTLSeconds = 2
  IdleSeconds = 1
  DrainSeconds = 1
  TCPReadBufferBytes = 1
  UDPBufferBytes = 2
  MaxFlows = 2
  MaxBufferedBytes = 2
  WindowSeconds = 1
  MaxFlowOpens = 0
  MaxBytes = 0
  MaxTime = 2
  MaxOpens = 2
  Disturbances = {}
INVARIANTS SocketsOwned DataReachesOwnSocket
CHECK_DEADLOCK FALSE
