CONSTANTS
  NumMsgs = 4
  Convs = {"C1"}
  Direct = {}
  Mentions = {1, 2, 3, 4}
  MaxThreads = 2
  MaxFaults = 3
  ConvOf <- OneConv
  Root <- NoThread
SPECIFICATION Spec
INVARIANTS
  EveryConnectCatchesUp
CHECK_DEADLOCK FALSE
