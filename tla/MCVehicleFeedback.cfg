SPECIFICATION Spec
CONSTANTS
  Gnbs = {"g1", "g2"}
  NoGnb = "none"
  Ues = {"u1"}
  NoUe = "none"
  NumApps = 2
  UeOf <- MCUeOf
  NumBands = 1
  Rates = {0, 1}
  Asks = {1}
  Loads = {1}
  ServersOf <- MCServersOf
INVARIANTS
  FeedbackReachesCarrier
