SPECIFICATION Spec
CONSTANTS
  Senders = {s1, s2}
  Intents = {i1, i2}
  Texts = {t1}
  Nothing = Nothing
  PerHour = 1
  PerDay = 2
  MaxQueued = 1
  HoursPerDay = 2
  Faults = {"disk"}
  MaxHour = 1
  MaxGestures = 3
  MaxEdits = 1
  MaxCrashes = 1
SYMMETRY Alike
CHECK_DEADLOCK FALSE
INVARIANTS
  BudgetKept
  QueueKept
  AcceptedIsCharged
  OncePerIntent
PROPERTIES
  IntentPromise
  RevokedIsRefused
