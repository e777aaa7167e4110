------------------------------ MODULE MCRegistry ------------------------------
(* A deployer who is known, a newcomer, one team nobody has, an entry of the   *)
(* seed and one of an operator's; three requests at once.                      *)
EXTENDS Registry, TLC

CONSTANTS ann, ben, team, k1, k2, d1, s1, s2, s3

SignIn(u, role, t) == [kind |-> "sign in", user |-> u, role |-> role, team |-> t]
By(kind, k) == [kind |-> kind, user |-> ann, key |-> k]
Update(k, n) == [kind |-> "update", user |-> ann, key |-> k, to |-> n]

McOps ==
  {SignIn(ben, "deployer", team), SignIn(ben, "viewer", NoTeam), SignIn(ann, "viewer", team),
   SignIn(ann, "deployer", team),
   By("create", k1), By("create", k2), Update(k1, NoKey), Update(k1, k2), By("delete", k1), By("seed", k1),
   [kind |-> "deploy", user |-> ann, key |-> k1, dep |-> d1]}
=============================================================================
