SPECIFICATION Spec
CONSTANTS
  Gnbs = {"g1", "g2"}
  NoGnb = "none"
  Ues = {"u1"}
  NoUe = "none"
  NumApps = 1
  UeOf <- MCUeOf
  CmpUnitTotal = 3
  RescheduleAll = TRUE
  Host = "g1"
  Demands = {2}
  Prompt = TRUE
  Losses = TRUE
  MaxInFlight = 1
INVARIANTS
  RequestHasOnePlace
  OneServer
  BooksAgree
PROPERTIES
  GrantsAreFresh
