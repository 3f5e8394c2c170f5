CONSTANTS
  NumMsgs = 3
  Convs = {"C1"}
  Direct = {}
  Mentions = {1, 2}
  MaxThreads = 1
  MaxFaults = 3
  ConvOf <- OneConv
  Root <- OneThread
SPECIFICATION FairSpec
INVARIANTS
  NothingLost
  AckedIsSettled
PROPERTY EveryMentionSettles
CHECK_DEADLOCK FALSE
