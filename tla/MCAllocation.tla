---------------------------- MODULE MCAllocation ----------------------------
(***************************************************************************)
(* Instances of Allocation for TLC: two nodes, a with two cards and b with *)
(* one.  Sizes are in units in which a card has 6 and the headroom is 1,   *)
(* so that a card takes one model of 3 units, or two of 2, and no more.    *)
(***************************************************************************)
EXTENDS Allocation, TLC

CONSTANTS a, b, a1, a2, b1, r1, r2, r3, red

MCNode   == {a, b}
MCGpu    == {a1, a2, b1}
MCNodeOf == (a1 :> a) @@ (a2 :> a) @@ (b1 :> b)
MCTotal  == [g \in MCGpu |-> 6]
MCModel  == [g \in MCGpu |-> "H100"]

\* r1 wants two replicas, r2 one, and r3 names one target on each card of a.
MCNeed     == [r \in Request |-> IF r = r3 THEN 2 ELSE 3]
MCReplicas == [r \in Request |-> IF r = r1 THEN 2 ELSE 1]
MCExplicit == [r \in Request |->
                 IF r = r3 THEN {[node |-> a, gpus |-> {g}] : g \in {a1, a2}} ELSE {}]
MCOneGpu   == [r \in Request |-> 1]
MCAnywhere == [r \in Request |-> MCNode]

\* Fractional requirements: 2.7 units are planned as 2 and reserved as 3, so that
\* a request may lose a race that nobody else is in.
MCRoundedDown == [r \in Request |-> MCNeed[r] - 1]

MCNoTeam  == [r \in Request |-> NoTeam]
MCQuota   == [t \in Team |-> 2]
=============================================================================
