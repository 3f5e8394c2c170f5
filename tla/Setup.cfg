CONSTANTS
  Mailboxes = {"m1", "m2"}
  Panes = {"p1", "p2"}
  Blank = ""
  MaxRuns = 2
  MaxEdits = 2
  Owner <- AgentOf
  Kind <- KindOf
  Secrets <- OneToken
SPECIFICATION Spec
INVARIANTS
  RouteIsOnePair
  RefusedLeavesAlone
  NeverAWish
  StartedRings
PROPERTIES
  KeptIsKept
CHECK_DEADLOCK FALSE
