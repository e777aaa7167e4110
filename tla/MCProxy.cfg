SPECIFICATION FairSpec
CONSTANTS
  d1 = d1
  hosted = hosted
  Dep = {d1}
  Other = {hosted}
  Pass = pass
  Timer = timer
  Operator = operator
  Stoppable = {d1}
  MAX_CALLS = 1
  MAX_CRASHES = 1
INVARIANTS TypeOK OthersKept
PROPERTIES RoutesConverge FlagsConverge
CHECK_DEADLOCK FALSE
