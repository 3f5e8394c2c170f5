SPECIFICATION Spec
CONSTANTS
  NumUpdates = 2
  Bridges = {b1, b2}
  c1 = c1
  c2 = c2
  Chats = {c1, c2}
  Revocable = {c2}
  From <- StrangerFirst
  CutAt = {}
  ReplyTo <- NoReply
  Photos = {1}
  LedgerCap = 1
  Faults = {}
  MaxCrashes = 1
SYMMETRY Alike
CHECK_DEADLOCK FALSE
INVARIANTS
  TypeOK
  AdvertisedIsPlaced
PROPERTIES
  HonestHeartbeat
  MailboxPromise
