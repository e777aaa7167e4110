SPECIFICATION FairSpec
CONSTANTS
  d1 = d1
  Dep = {d1}
  Faults = {"exit", "reboot", "vanish", "loop", "timeout", "unstopped"}
  Operators = {"stop", "stop_early", "reconcile_node"}
  MAX_STOPS = 1
  MAX_CRASHES = 0
PROPERTY ClaimsSettle
