SPECIFICATION FairSpec
CONSTANTS
  Gnbs = {"g1"}
  NoGnb = "none"
  Ues = {"u1"}
  NoUe = "none"
  NumApps = 2
  UeOf <- MCUeOf
  CmpUnitTotal = 3
  RescheduleAll = TRUE
  Host = "g1"
  Demands = {1, 2}
  Prompt = TRUE
  Losses = TRUE
  MaxInFlight = 1
INVARIANTS
  UnitsNeverOvercommitted
  HoldsMatchStarts
PROPERTIES
  StartsAreAnswered
