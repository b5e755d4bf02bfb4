SPECIFICATION Spec
CONSTANTS
  Gnbs = {"g1", "g2", "g3"}
  NoGnb = "none"
  Ues = {"u1", "u2"}
  NoUe = "none"
  NumApps = 1
  UeOf <- MCUeOf
  Links <- MCLinks
  MaxFaults = 1
INVARIANTS
  NeighborsAreTold
