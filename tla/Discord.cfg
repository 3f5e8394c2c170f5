CONSTANTS
  NumMsgs = 4
  Channels = {"C1"}
  Threads = {"T1", "T2"}
  Mentions = {1, 2, 3}
  MaxThreads = 1
  MaxFaults = 2
  Place <- TwoThreads
SPECIFICATION FairSpec
INVARIANTS
  NothingLost
PROPERTY EveryMentionSettles
CHECK_DEADLOCK FALSE
