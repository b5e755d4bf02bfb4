SPECIFICATION SearchSpec
CONSTANTS
  Gnbs = {1, 2}
  NoGnb = 0
  Ues = {"u1", "u2"}
  NoUe = "none"
  NumApps = 3
  UeOf <- MCUeOf
  Links <- MCLinks
  MaxHops = 1
  App <- MCApp
  Work <- MCWork
  Accuracy <- MCAccuracy
  Tti = 2
  Overhead = 1
  RbStep = 1
  CuStep = 1
  ResourceSlack = 1
  Scale = 65536
  SchemeNames = {"SchemeGreedy", "SchemeGameTheory", "SchemeFastLR", "SchemeSARound", "SchemeFwdGreedy", "SchemeFwdGameTheory", "SchemeFwdQuickLR", "AccuracyGreedy", "AccuracyGameTheory", "AccuracyFastSA", "AccuracyFastSAND", "AccuracyFastSANF", "AccuracyFastIS", "AccuracyIDAssign", "AccuracySARound", "SchemeIterative", "AccuracyIterative", "SchemeFwdGraphMatch", "AccuracyGraphMatch"}
  MaxIter = 30
  Grain = 2
  Problems <- MCProblems
INVARIANTS
  ScheduleIsFeasible
  GainsAreEarned
  NearOptimal
  RoundingFits
