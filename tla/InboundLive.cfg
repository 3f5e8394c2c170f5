SPECIFICATION FairSpec
CONSTANTS
  NumUpdates = 2
  Bridges = {b1}
  c1 = c1
  c2 = c2
  Chats = {c1, c2}
  Revocable = {c2}
  From <- StrangerFirst
  CutAt = {}
  ReplyTo <- NoReply
  Photos = {2}
  LedgerCap = 1
  Faults = {"promote"}
  MaxCrashes = 0
CHECK_DEADLOCK FALSE
PROPERTIES
  EveryUpdateSettles
