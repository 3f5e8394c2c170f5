SPECIFICATION Spec
CONSTANTS
  Senders = {s1, s2}
  Texts = {t1, t2}
  Photos = {p1}
  NoPhoto = NoPhoto
  Free = Free
  Faults = {"power"}
  MaxGestures = 3
  MaxCrashes = 1
SYMMETRY Alike
CHECK_DEADLOCK FALSE
INVARIANTS
  AtMostOnePost
  InFlightIsFlagged
PROPERTIES
  DeliveryPromise
  WordsAsTyped
  HonestReport
