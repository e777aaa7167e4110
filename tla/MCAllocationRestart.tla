------------------------ MODULE MCAllocationRestart -------------------------
(***************************************************************************)
(* One node with one card of 6 units and headroom 1, three requests of     *)
(* which two can share it, and restarts of what they were granted, while   *)
(* polls change the usage of the card.                                     *)
(***************************************************************************)
EXTENDS AllocationRestart, TLC

CONSTANTS a, a1, r1, r2, r3, x1, x2, red

MCNodeOf   == (a1 :> a)
MCTotal    == (a1 :> 6)
MCModel    == [g \in Gpu |-> "H100"]
MCSession  == Request \cup Restart
MCNeed     == [r \in Request |-> 2]
MCOne      == [r \in Request |-> 1]
MCExplicit == [r \in Request |-> {}]
MCAnywhere == [r \in Request |-> Node]
MCTeam     == [r \in Request |-> red]
MCRedTeam  == [s \in MCSession |-> red]
MCQuota    == [t \in Team |-> 1]
=============================================================================
