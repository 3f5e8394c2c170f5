CONSTANTS
  Procs = {p1, p2}
  Labels = {"L1"}
  Ids = {g1, g2}
  None = None
  MaxFaults = 1
  ChatOf <- OneChat
SPECIFICATION Spec
INVARIANTS
  MarkedIsWhole
  LabelledIsKept
  RivalsRefuse
  OnlyRacesRevive
SYMMETRY Symmetry
CHECK_DEADLOCK FALSE
