SPECIFICATION FairSpec
CONSTANTS
  Gnbs = {"g1"}
  NoGnb = "none"
  Ues = {"u1"}
  NoUe = "none"
  NumApps = 1
  UeOf <- MCUeOf
  CmpUnitTotal = 3
  Self = "g1"
  Demands = {2}
  InitTimes = {1, 2}
  UsedBands = {1}
  MaxInFlight = 2
PROPERTIES
  StopEndsService
