----------------------------- MODULE Placement ------------------------------
(***************************************************************************)
(* Where should this model run: placement.plan and _pick_group, and        *)
(* resolve_targets of services/deployments.py on top of them.              *)
(*                                                                         *)
(* A fleet is a record of the deployments that count as alive (rows), the  *)
(* room on each card (capacity) and the status of the nodes, as one        *)
(* session has them in memory.  A demand says what a model asks for: need  *)
(* (memory per GPU), tp, replicas, and the nodes it may go to (within).    *)
(* Node labels are left out: no caller asks plan for any.  Allocation      *)
(* leaves open which feasible group is taken; here it is fixed.            *)
(***************************************************************************)
EXTENDS Capacity, FiniteSetsExt

CONSTANTS
  Index,         \* [Gpu -> Nat]: a card's place in its node
  Model,         \* [Gpu -> names]: a card's model
  HALF_GB,       \* the units of memory (MB in the code) in half a GB: 512
  SHARE_BONUS,   \* 20 GB off the score of a group that is shared already
  ALIGN_BONUS    \* 25 GB off the score of a group that is called aligned

ASSUME PlacementAssumption ==
  /\ IsFiniteSet(Gpu) /\ IsFiniteSet(Node)
  /\ Index \in [Gpu -> Nat]
  /\ \A g, h \in Gpu : NodeOf[g] = NodeOf[h] /\ Index[g] = Index[h] => g = h
  /\ HALF_GB \in Nat \ {0}
  /\ SHARE_BONUS \in Nat \ {0} /\ ALIGN_BONUS \in Nat

-----------------------------------------------------------------------------
Cards(n) == {g \in Gpu : NodeOf[g] = n}

\* node_capacity, of every node at once.
Capacities(rows, used) == [g \in Gpu |-> Available(rows, used, g)]

\* Faulty: the demand is held against the size of the card.
MutantRoomy(f, q, n) == {g \in Cards(n) : Total[g] >= q.need}

\* The cards of node n that have room for the demand, and those of them that
\* are of one model.
Roomy(f, q, n) == {g \in Cards(n) : f.capacity[g] >= q.need}

OfModel(C, m) == {g \in C : Model[g] = m}

FirstIndex(C) == Min({Index[g] : g \in C})

\* by_model keeps its models in the order of their first card.
ModelsWith(C, tp) == {m \in {Model[g] : g \in C} : Cardinality(OfModel(C, m)) >= tp}

FirstModel(C, tp) ==
  CHOOSE m \in ModelsWith(C, tp) :
    \A k \in ModelsWith(C, tp) : FirstIndex(OfModel(C, m)) <= FirstIndex(OfModel(C, k))

\* tp neighbours among the cards C, by the index of the first of them.
Run(C, i, tp) == {g \in C : Index[g] \in i..(i + tp - 1)}

Runs(C, tp) == {i \in {Index[g] : g \in C} : Cardinality(Run(C, i, tp)) = tp}

Aligned(C, tp) == {i \in Runs(C, tp) : i % tp = 0}

\* The tp cards of C with the least room, so that the emptiest stay whole.
Fuller(f, g, h) ==
  \/ f.capacity[g] < f.capacity[h]
  \/ f.capacity[g] = f.capacity[h] /\ Index[g] < Index[h]

Fullest(f, C, tp) == {g \in C : Cardinality({h \in C : Fuller(f, h, g)}) < tp}

\* Faulty: any window of tp cards will do, neighbours or not.
MutantPickGroup(f, C, tp) ==
  LET G == OfModel(C, FirstModel(C, tp))
  IN  IF Runs(G, tp) # {} THEN Run(G, Min(Runs(G, tp)), tp) ELSE Fullest(f, G, tp)

\* _pick_group, of the cards C that have room.
PickGroup(f, C, tp) ==
  LET G == OfModel(C, FirstModel(C, tp))
  IN  CASE Aligned(G, tp) # {}                       -> Run(G, Min(Aligned(G, tp)), tp)
        [] Aligned(G, tp) = {} /\ Runs(G, tp) # {}   -> Run(G, Min(Runs(G, tp)), tp)
        [] OTHER                                     -> Fullest(f, G, tp)

\* Why a node is passed over, or "offered".
Verdict(f, q, n) ==
  LET fits == Roomy(f, q, n) IN
  IF f.status[n] # "online" THEN "status"
  ELSE IF Cardinality(Cards(n)) < q.tp THEN "too few GPUs"
  ELSE IF Cardinality(fits) < q.tp THEN "no room"
  ELSE IF ModelsWith(fits, q.tp) = {} THEN "mixed"
  ELSE "offered"

Offered(f, q) == {n \in q.within : Verdict(f, q, n) = "offered"}

Group(f, q, n) == PickGroup(f, Roomy(f, q, n), q.tp)

Sharing(f, G) == Max({Cardinality(Tenants(f.rows, g)) : g \in G})

\* _pick_group leaves a window in the order of its places, and a group that is
\* none in the order of Fuller.
Ahead(f, G, g, h) ==
  IF Runs(G, Cardinality(G)) # {} THEN Index[g] < Index[h] ELSE Fuller(f, g, h)

Foremost(f, G) == CHOOSE g \in G : \A h \in G \ {g} : Ahead(f, G, g, h)

Hindmost(f, G) == CHOOSE g \in G : \A h \in G \ {g} : Ahead(f, G, h, g)

\* "aligned NVLink group": plan looks at the ends of the group as it is ordered,
\* so that a group that is no window gets the bonus when its fullest and its
\* emptiest card happen to lie tp - 1 places apart.
CalledAligned(f, G) ==
  LET tp == Cardinality(G) IN
  /\ tp > 1
  /\ Index[Hindmost(f, G)] - Index[Foremost(f, G)] = tp - 1
  /\ Index[Foremost(f, G)] % tp = 0

\* Faulty: packing is punished instead of rewarded.
MutantScore(f, q, n) ==
  LET G    == Group(f, q, n)
      left == Min({f.capacity[g] : g \in G}) - q.need
  IN  left + HALF_GB * (Cardinality(Cards(n)) - Cardinality(G))
        + (IF Sharing(f, G) > 0 THEN SHARE_BONUS ELSE 0)
        - (IF CalledAligned(f, G) THEN ALIGN_BONUS ELSE 0)

\* Best fit on what is left over, in units of memory: lower is better.
Score(f, q, n) ==
  LET G    == Group(f, q, n)
      left == Min({f.capacity[g] : g \in G}) - q.need
  IN  left + HALF_GB * (Cardinality(Cards(n)) - Cardinality(G))
        - (IF Sharing(f, G) > 0 THEN SHARE_BONUS ELSE 0)
        - (IF CalledAligned(f, G) THEN ALIGN_BONUS ELSE 0)

\* resolve_targets: the plan is asked once per replica, each time without the
\* nodes that have one already, so the replicas take the best-scored nodes;
\* equal scores are in the order of the query, which is none.
Resolved(f, q) ==
  LET ranked == {<<Score(f, q, n), n>> : n \in Offered(f, q)}
      k      == Min({q.replicas, Cardinality(ranked)})
  IN  {{[node |-> p[2], gpus |-> Group(f, q, p[2])] : p \in best}
         : best \in {P \in SUBSET ranked : /\ Cardinality(P) = k
                                          /\ \A p \in P, r \in ranked \ P : p[1] <= r[1]}}
=============================================================================
