SPECIFICATION FairSpec
CONSTANTS
  ann = ann
  ben = ben
  team = team
  k1 = k1
  k2 = k2
  d1 = d1
  s1 = s1
  s2 = s2
  s3 = s3
  NoTeam = NoTeam
  User = {ann, ben}
  Team = {team}
  Key = {k1, k2}
  SEED = {k1}
  Dep = {d1}
  Call = {s1, s2, s3}
  Ops <- McOps
  Known = {ann}
INVARIANT TypeOK
PROPERTIES FirstSignInsSucceed InUseKept EditsSurvive EveryCallEnds
CHECK_DEADLOCK FALSE
