SPECIFICATION Spec
CONSTANTS
  Senders = {s1}
  Intents = {i1, i2}
  Texts = {t1, t2}
  Nothing = Nothing
  PerHour = 1
  PerDay = 1
  MaxQueued = 2
  HoursPerDay = 3
  Faults = {"power"}
  MaxHour = 3
  MaxGestures = 3
  MaxEdits = 0
  MaxCrashes = 1
SYMMETRY Alike
CHECK_DEADLOCK FALSE
INVARIANTS
  BudgetKept
PROPERTIES
  SaysWhatItSends
