CONSTANTS
  Bridges = {b1}
  Stoppers = {s1, s2}
  None = None
  MaxRuns = 2
  MaxDeaths = 1
  RunningFor = 0
  StartingFor = 0
  MaxWait = 1
  Slack = 0
SPECIFICATION FairSpec
INVARIANTS
  StoppedIsTrue
  OnlyTheAsked
  LiveIsLeftAlone
PROPERTIES
  AskedStandsDown
CHECK_DEADLOCK FALSE
