SPECIFICATION Spec
CONSTANTS
  Gnbs = {g1}
  NoGnb = NoGnb
  Ues = {"u1", "u2"}
  NoUe = "none"
  NumApps = 3
  UeOf <- MCUeOf
  NumBands = 2
  Rates = {0, 1, 2}
  Asks = {1}
  Loads = {2}
  MaxPending = 1
  DoubleGrants = TRUE
INVARIANTS
  BandPartition
  NoLeakedBand
  ListedAppsHaveGrants
  NoRuntimeError
  ScheduledIsServed
PROPERTIES
  OthersKeepTheirBands
  ReportsFreeBands
