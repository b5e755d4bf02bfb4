SPECIFICATION Spec
CONSTANTS
  Gnbs = {"g1", "g2"}
  NoGnb = "none"
  Ues = {"u1"}
  NoUe = "none"
  NumApps = 2
  UeOf <- MCUeOf
  CmpUnitTotal = 3
  Self = "g1"
  Demands = {2}
  InitTimes = {1, 2}
  UsedBands = {1}
  MaxInFlight = 2
INVARIANTS
  UnitsAccounted
  QueueMatchesServices
  WaitsAreCurrent
  CarriedIsServed
PROPERTIES
  EndsAreReported
  ReportsFreeUnits
