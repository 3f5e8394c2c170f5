SPECIFICATION Spec
CONSTANTS
  NumUpdates = 3
  Bridges = {b1}
  c1 = c1
  c2 = c2
  Chats = {c1}
  Revocable = {}
  From <- ThreeFromOne
  CutAt = {3}
  ReplyTo <- ThirdAnswersSecond
  Photos = {}
  LedgerCap = 1
  Faults = {"power"}
  MaxCrashes = 1
CHECK_DEADLOCK FALSE
INVARIANTS
  AtMostOneLetter
  ForgottenIsKept
  OffsetBehindPlatform
  ThreadsAreFlat
