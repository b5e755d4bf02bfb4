SPECIFICATION FairSpec
CONSTANTS
  Nodes = {1, 2, 3, 4}
  GnbNodes = {1, 2, 4}
  NoAddr = 0
  Links <- MCLine
  Lockstep = TRUE
  LongFaults = TRUE
  MaxFaults = 1
INVARIANTS
  OneSchedulerPerArea
  SettledOnTheBest
  RoutesLeadThere
  NumbersAreCurrent
  NeverSchedulesInThePast
PROPERTIES
  Converges
  ChangesThroughReset
