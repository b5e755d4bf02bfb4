SPECIFICATION FairSpec
CONSTANTS
  Gnbs = {"g1", "g2"}
  NoGnb = "none"
  Ues = {"u1", "u2"}
  NoUe = "none"
  NumApps = 3
  UeOf <- MCUeOf
  Bands = 2
  Units = 2
  Menus <- MCMenus
INVARIANTS
  FeasibleSchedule
  CandidatesAreConsidered
  GuaranteeKept
PROPERTIES
  RoundEnds
