SPECIFICATION FairSpec
CONSTANTS
  d1 = d1
  Dep = {d1}
  Faults = {"exit", "vanish", "loop"}
  Operators = {"stop"}
  MAX_STOPS = 1
  MAX_CRASHES = 1
INVARIANT TypeOK
PROPERTIES PullSurvives ReleasedOnlyWhenGone ServingIsHealthy
