------------------------------- MODULE Choice -------------------------------
(***************************************************************************)
(* What placement promises, whichever of the possible groups and nodes it  *)
(* prefers: Allocation leaves its choice open between the placements that  *)
(* are defined here, and Placement makes one of them.                      *)
(*                                                                         *)
(* A view is the fleet as a session loaded it: rows, used, status.  A      *)
(* demand is a record of need (memory per GPU), tp, replicas, and the      *)
(* nodes it may go to (within).  kind gives the model of each card.        *)
(***************************************************************************)
EXTENDS Capacity

\* The groups of tp cards of one model on node n with room for the demand.
Groups(view, kind, demand, n) ==
  {G \in SUBSET {g \in Gpu : NodeOf[g] = n} :
     /\ Cardinality(G) = demand.tp
     /\ \A g, h \in G : kind[g] = kind[h]
     /\ \A g \in G : Available(view.rows, view.used, g) >= demand.need}

\* The nodes that accept work and have such a group.
Candidates(view, kind, demand) ==
  {n \in demand.within : view.status[n] = "online" /\ Groups(view, kind, demand, n) # {}}

\* One replica per node, on as many of the candidates as there are replicas.
IsPlacement(view, kind, demand, T) ==
  /\ \A t \in T : /\ t.node \in Candidates(view, kind, demand)
                  /\ t.gpus \in Groups(view, kind, demand, t.node)
  /\ \A t, u \in T : t.node = u.node => t = u
  /\ \/ Cardinality(T) = demand.replicas
     \/ /\ Cardinality(T) < demand.replicas
        /\ Candidates(view, kind, demand) \subseteq {t.node : t \in T}
=============================================================================
