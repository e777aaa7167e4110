SPECIFICATION Spec
CONSTANTS
  a = a
  b = b
  g1 = g1
  g2 = g2
  h1 = h1
  h2 = h2
  c1 = c1
  c2 = c2
  Node = {a, b}
  Cluster = {g1, g2}
  Host = {h1, h2}
  NoHost = NoHost
  NoCluster = NoCluster
  Pass = pass
  Call = {c1, c2}
  Ops <- McDrainOps
  FirstHost <- McFirstHost
  Given = {a, b, g1}
  Grouped <- McGrouped
  Claimable = {b}
  MaxFaults = 2
PROPERTY DrainKept
