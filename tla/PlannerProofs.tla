---------------------------- MODULE PlannerProofs -----------------------------
(***************************************************************************)
(* Proofs about Planner, for any fleet, catalog and requests: placement    *)
(* against its definition, sizing, flags, and the preview.                 *)
(***************************************************************************)
EXTENDS Planner, CapacityTheorems

-----------------------------------------------------------------------------
(* What Min and Max pick of a finite set. *)

LEMMA MinIs ==
  ASSUME NEW S, IsFiniteSet(S), S # {}, S \subseteq Int
  PROVE  Min(S) \in S /\ \A x \in S : Min(S) <= x
<1> DEFINE R == {p \in S \X S : p[1] <= p[2]}
<1>1. /\ \A x, y \in S : <<x, y>> \in R \/ <<y, x>> \in R
      /\ \A x, y, z \in S : <<x, y>> \in R /\ <<y, z>> \in R => <<x, z>> \in R
      /\ \A x, y \in S : <<x, y>> \in R => x <= y
  OBVIOUS
<1> HIDE DEF R
<1>2. \E m \in S : \A x \in S : m <= x
  BY <1>1, Least
<1> QED
  BY <1>2 DEF Min

LEMMA MaxIs ==
  ASSUME NEW S, IsFiniteSet(S), S # {}, S \subseteq Int
  PROVE  Max(S) \in S /\ \A x \in S : x <= Max(S)
<1> DEFINE R == {p \in S \X S : p[2] <= p[1]}
<1>1. /\ \A x, y \in S : <<x, y>> \in R \/ <<y, x>> \in R
      /\ \A x, y, z \in S : <<x, y>> \in R /\ <<y, z>> \in R => <<x, z>> \in R
      /\ \A x, y \in S : <<x, y>> \in R => y <= x
  OBVIOUS
<1> HIDE DEF R
<1>2. \E m \in S : \A x \in S : m >= x
  BY <1>1, Least
<1>3. Max(S) \in S /\ \A x \in S : Max(S) >= x
  BY <1>2 DEF Max
<1> QED
  BY <1>3

LEMMA MaxOfTwo ==
  ASSUME NEW x \in Int, NEW y \in Int
  PROVE  Max({x, y}) = IF x >= y THEN x ELSE y
<1>1. IsFiniteSet({x, y})
  <2>1. IsFiniteSet({x})
    BY FS_Singleton
  <2>2. IsFiniteSet({x} \cup {y})
    BY <2>1, FS_AddElement
  <2>3. {x, y} = {x} \cup {y}
    OBVIOUS
  <2> QED
    BY <2>2, <2>3
<1>2. Max({x, y}) \in {x, y} /\ \A z \in {x, y} : z <= Max({x, y})
  BY <1>1, MaxIs
<1> QED
  BY <1>2

LEMMA MinOfTwo ==
  ASSUME NEW x \in Int, NEW y \in Int
  PROVE  Min({x, y}) = IF x <= y THEN x ELSE y
<1>1. IsFiniteSet({x, y})
  <2>1. IsFiniteSet({x})
    BY FS_Singleton
  <2>2. IsFiniteSet({x} \cup {y})
    BY <2>1, FS_AddElement
  <2>3. {x, y} = {x} \cup {y}
    OBVIOUS
  <2> QED
    BY <2>2, <2>3
<1>2. Min({x, y}) \in {x, y} /\ \A z \in {x, y} : Min({x, y}) <= z
  BY <1>1, MinIs
<1> QED
  BY <1>2

-----------------------------------------------------------------------------
(* Placement: the cards of one machine, and the groups that are picked of    *)
(* them.                                                                     *)

\* Cards of one machine.
OfOne(C) == \E n \in Node : C \subseteq Cards(n)

LEMMA CardsType ==
  ASSUME NEW C, OfOne(C)
  PROVE  /\ C \subseteq Gpu /\ IsFiniteSet(C) /\ Cardinality(C) \in Nat
         /\ \A g \in C : Index[g] \in Nat
         /\ \A g, h \in C : Index[g] = Index[h] => g = h
         /\ \A D \in SUBSET C : OfOne(D)
<1>1. C \subseteq Gpu
  BY DEF OfOne, Cards
<1>2. IsFiniteSet(C) /\ Cardinality(C) \in Nat
  BY <1>1, PlacementAssumption, FS_Subset, FS_CardinalityType
<1>3. \A g, h \in C : NodeOf[g] = NodeOf[h]
  BY DEF OfOne, Cards
<1>4. \A g \in C : Index[g] \in Nat
  BY <1>1, PlacementAssumption
<1>5. \A g, h \in C : Index[g] = Index[h] => g = h
  BY <1>1, <1>3, PlacementAssumption
<1> QED
  BY <1>1, <1>2, <1>4, <1>5 DEF OfOne

\* The indices of some cards.
LEMMA Indices ==
  ASSUME NEW C, OfOne(C)
  PROVE  /\ IsFiniteSet({Index[g] : g \in C}) /\ {Index[g] : g \in C} \subseteq Nat
         /\ C # {} => {Index[g] : g \in C} # {}
<1> DEFINE e == [g \in C |-> Index[g]]
<1>1. e \in Surjection(C, {Index[g] : g \in C})
  BY DEF Surjection
<1>2. IsFiniteSet(C)
  BY CardsType
<1>3. IsFiniteSet({Index[g] : g \in C})
  BY <1>1, <1>2, FS_Surjection
<1> QED
  BY <1>3, CardsType

\* tp neighbours are at most tp cards, and when they are tp, they fill their window.
LEMMA RunFills ==
  ASSUME NEW C, OfOne(C), NEW tp \in Nat \ {0}, NEW i \in Nat
  PROVE  /\ Run(C, i, tp) \subseteq C
         /\ Cardinality(Run(C, i, tp)) <= tp
         /\ Cardinality(Run(C, i, tp)) = tp =>
              {Index[g] : g \in Run(C, i, tp)} = i..(i + tp - 1)
<1> DEFINE H == Run(C, i, tp)
           W == i..(i + tp - 1)
           e == [g \in H |-> Index[g]]
<1>1. H \subseteq C /\ \A g \in H : Index[g] \in W
  BY DEF Run
<1>2. \A g, h \in H : Index[g] = Index[h] => g = h
  BY <1>1, CardsType
<1>3. IsFiniteSet(W) /\ Cardinality(W) = tp
  <2>1. IsFiniteSet(W) /\ Cardinality(W) = IF i > i + tp - 1 THEN 0 ELSE (i + tp - 1) - i + 1
    BY FS_Interval
  <2> QED
    BY <2>1
<1> HIDE DEF H, W
<1>4. e \in Injection(H, W)
  BY <1>1, <1>2 DEF Injection, IsInjective
<1>5. Cardinality(H) <= tp /\ (Cardinality(H) = tp <=> e \in Surjection(H, W))
  BY <1>3, <1>4, FS_Injection
<1>6. e \in Surjection(H, W) => {Index[g] : g \in H} = W
  BY <1>1 DEF Surjection
<1> QED
  BY <1>1, <1>5, <1>6 DEF H, W

\* A run is adjacent, and starts where it says.
LEMMA RunAdjacent ==
  ASSUME NEW C, OfOne(C), NEW tp \in Nat \ {0}, NEW i \in Runs(C, tp)
  PROVE  /\ Run(C, i, tp) \subseteq C /\ Cardinality(Run(C, i, tp)) = tp
         /\ LowestIndex(Run(C, i, tp)) = i /\ Adjacent(Run(C, i, tp))
<1> DEFINE H == Run(C, i, tp)
           W == i..(i + tp - 1)
<1>1. i \in Nat /\ Cardinality(H) = tp
  BY CardsType DEF Runs
<1>2. H \subseteq C /\ {Index[g] : g \in H} = W
  BY <1>1, RunFills
<1>3. /\ IsFiniteSet(W) /\ W # {} /\ W \subseteq Int /\ i \in W /\ i + tp - 1 \in W
      /\ \A x \in W : i <= x /\ x <= i + tp - 1
  <2>1. i \in Nat /\ i + tp - 1 \in Nat /\ i <= i + tp - 1
    BY <1>1
  <2>2. IsFiniteSet(W)
    BY <2>1, FS_Interval
  <2>3. i \in W /\ i + tp - 1 \in W /\ W \subseteq Int
    BY <2>1
  <2>4. \A x \in W : i <= x /\ x <= i + tp - 1
    BY <2>1
  <2> QED
    BY <2>2, <2>3, <2>4
<1> HIDE DEF W
<1>4. Min(W) = i
  <2>1. Min(W) \in W /\ \A x \in W : Min(W) <= x
    BY <1>3, MinIs
  <2>2. Min(W) \in Int /\ i \in Int /\ Min(W) <= i /\ i <= Min(W)
    BY <1>3, <2>1
  <2> QED
    BY <2>2
<1>5. Max(W) = i + tp - 1
  <2>1. Max(W) \in W /\ \A x \in W : x <= Max(W)
    BY <1>3, MaxIs
  <2>2. Max(W) \in Int /\ i + tp - 1 \in Int /\ Max(W) <= i + tp - 1 /\ i + tp - 1 <= Max(W)
    BY <1>3, <2>1
  <2> QED
    BY <2>2
<1> HIDE DEF H
<1> QED
  BY <1>1, <1>2, <1>4, <1>5 DEF H, LowestIndex, Adjacent

\* tp adjacent cards are a run of any cards they are among.
LEMMA AdjacentIsRun ==
  ASSUME NEW C, OfOne(C), NEW tp \in Nat \ {0}, NEW H \in SUBSET C,
         Cardinality(H) = tp, Adjacent(H)
  PROVE  LowestIndex(H) \in Runs(C, tp)
<1> DEFINE X == {Index[g] : g \in H}
           i == LowestIndex(H)
<1>1. IsFiniteSet(X) /\ X # {} /\ X \subseteq Nat
  <2>1. H # {}
    BY FS_EmptySet
  <2>2. OfOne(H)
    BY CardsType
  <2> QED
    BY <2>1, <2>2, Indices
<1>2. X \subseteq Int
  BY <1>1
<1> HIDE DEF X
<1>3. i \in X /\ \A x \in X : i <= x
  BY <1>1, <1>2, MinIs DEF LowestIndex, X
<1>4. \A x \in X : x <= Max(X)
  BY <1>1, <1>2, MaxIs
<1>5. Max(X) = i + tp - 1
  <2>1. Max(X) - i = tp - 1
    BY DEF Adjacent, X
  <2>2. Max(X) \in Nat /\ i \in Nat
    <3>1. Max(X) \in X
      BY <1>1, <1>2, MaxIs
    <3> HIDE DEF i
    <3> QED
      BY <1>1, <1>3, <3>1
  <2> HIDE DEF i
  <2> QED
    BY <2>1, <2>2
<1> HIDE DEF i
<1>6. i \in Nat
  BY <1>1, <1>3
<1>7. \A x \in X : x \in i..(i + tp - 1)
  BY <1>1, <1>3, <1>4, <1>5, <1>6
<1>8. H \subseteq Run(C, i, tp)
  BY <1>7 DEF X, Run
<1>9. Cardinality(Run(C, i, tp)) = tp
  <2>1. Run(C, i, tp) \subseteq C /\ Cardinality(Run(C, i, tp)) <= tp
    BY <1>6, RunFills
  <2>2. IsFiniteSet(Run(C, i, tp)) /\ Cardinality(Run(C, i, tp)) \in Nat
    BY <2>1, CardsType, FS_Subset, FS_CardinalityType
  <2>3. tp <= Cardinality(Run(C, i, tp))
    BY <1>8, <2>2, FS_Subset
  <2> QED
    BY <2>1, <2>2, <2>3
<1>10. i \in {Index[g] : g \in C}
  BY <1>3 DEF X
<1> QED
  BY <1>9, <1>10 DEF Runs, i

\* The tp cards with the least room are tp cards.
LEMMA FullestSize ==
  ASSUME NEW C, OfOne(C), NEW tp \in Nat \ {0}, tp <= Cardinality(C),
         NEW f, f.capacity \in [Gpu -> Int]
  PROVE  Fullest(f, C, tp) \subseteq C /\ Cardinality(Fullest(f, C, tp)) = tp
<1> DEFINE Before(g, h) == Fuller(f, g, h)
           Fewer(g) == {h \in C : Before(h, g)}
           R == {p \in C \X C : ~ Before(p[2], p[1])}
<1>1. \A g \in C : f.capacity[g] \in Int /\ Index[g] \in Nat
  BY CardsType
<1>2. \A g, h \in C : Before(g, h) \/ Before(h, g) \/ g = h
  BY <1>1, CardsType DEF Fuller
<1>3. \A g, h \in C : ~ (Before(g, h) /\ Before(h, g))
  BY <1>1 DEF Fuller
<1>4. \A g, h, k \in C : ~ Before(h, g) /\ ~ Before(k, h) => ~ Before(k, g)
  BY <1>1 DEF Fuller
<1>5. Fullest(f, C, tp) = {g \in C : Cardinality(Fewer(g)) < tp}
  BY DEF Fullest
<1> HIDE DEF Before
<1>6. \E P \in SUBSET C : Cardinality(P) = tp /\ \A p \in P, r \in C \ P : <<p, r>> \in R
  <2>1. /\ \A x, y \in C : <<x, y>> \in R \/ <<y, x>> \in R
        /\ \A x, y, z \in C : <<x, y>> \in R /\ <<y, z>> \in R => <<x, z>> \in R
    BY <1>3, <1>4
  <2>2. IsFiniteSet(C) /\ tp \in Nat /\ tp <= Cardinality(C)
    BY CardsType
  <2> HIDE DEF R
  <2> QED
    BY <2>1, <2>2, InitialPart, SMTT(60)
<1>7. PICK P \in SUBSET C : Cardinality(P) = tp /\ \A p \in P, r \in C \ P : ~ Before(r, p)
  BY <1>6
<1>8. IsFiniteSet(C) /\ IsFiniteSet(P)
  BY CardsType, FS_Subset
<1>9. ASSUME NEW g \in P
      PROVE  Cardinality(Fewer(g)) < tp
  <2>1. Fewer(g) \subseteq P \ {g}
    BY <1>3, <1>7
  <2>2. IsFiniteSet(P \ {g}) /\ Cardinality(P \ {g}) = tp - 1
    BY <1>7, <1>8, FS_RemoveElement
  <2> HIDE DEF Fewer
  <2>3. Cardinality(Fewer(g)) <= tp - 1 /\ IsFiniteSet(Fewer(g))
    BY <2>1, <2>2, FS_Subset
  <2>4. Cardinality(Fewer(g)) \in Nat
    BY <2>3, FS_CardinalityType
  <2> QED
    BY <2>3, <2>4
<1>10. ASSUME NEW g \in C \ P
       PROVE  ~ (Cardinality(Fewer(g)) < tp)
  <2>1. P \subseteq Fewer(g) /\ Fewer(g) \subseteq C
    BY <1>2, <1>7
  <2> HIDE DEF Fewer
  <2>2. IsFiniteSet(Fewer(g))
    BY <1>8, <2>1, FS_Subset
  <2>3. tp <= Cardinality(Fewer(g)) /\ Cardinality(Fewer(g)) \in Nat
    BY <1>7, <2>1, <2>2, FS_Subset, FS_CardinalityType
  <2> QED
    BY <2>3
<1>11. Fullest(f, C, tp) = P
  <2> HIDE DEF Fewer
  <2> QED
    BY <1>5, <1>9, <1>10
<1> QED
  BY <1>7, <1>11

\* The model that is tried is one that has enough cards.
LEMMA FirstModelHas ==
  ASSUME NEW C, OfOne(C), NEW tp \in Nat \ {0}, ModelsWith(C, tp) # {}
  PROVE  FirstModel(C, tp) \in ModelsWith(C, tp)
<1> DEFINE M == ModelsWith(C, tp)
           first(m) == FirstIndex(OfModel(C, m))
           R == {p \in M \X M : first(p[1]) <= first(p[2])}
           e == [g \in C |-> Model[g]]
<1>1. IsFiniteSet(M)
  <2>1. e \in Surjection(C, {Model[g] : g \in C})
    BY DEF Surjection
  <2>2. IsFiniteSet({Model[g] : g \in C})
    BY <2>1, CardsType, FS_Surjection
  <2>3. M \subseteq {Model[g] : g \in C}
    BY DEF ModelsWith
  <2> QED
    BY <2>2, <2>3, FS_Subset
<1>2. \A m \in M : first(m) \in Nat
  <2> SUFFICES ASSUME NEW m \in M PROVE first(m) \in Nat
    OBVIOUS
  <2> DEFINE D == OfModel(C, m)
  <2>1. Cardinality(D) >= tp
    BY DEF ModelsWith
  <2>2. D # {}
    BY <2>1, FS_EmptySet
  <2>3. OfOne(D)
    BY CardsType DEF OfModel
  <2>4. /\ IsFiniteSet({Index[g] : g \in D}) /\ {Index[g] : g \in D} \subseteq Nat
        /\ {Index[g] : g \in D} # {}
    BY <2>2, <2>3, Indices
  <2>5. FirstIndex(D) \in {Index[g] : g \in D}
    <3> DEFINE X == {Index[g] : g \in D}
    <3>1. IsFiniteSet(X) /\ X # {} /\ X \subseteq Int
      BY <2>4
    <3> HIDE DEF X
    <3>2. Min(X) \in X
      BY <3>1, MinIs
    <3> QED
      BY <3>2 DEF X, FirstIndex
  <2> QED
    BY <2>4, <2>5
<1>3. \E m \in M : \A k \in M : first(m) <= first(k)
  <2> HIDE DEF first, M
  <2>1. /\ \A x, y \in M : <<x, y>> \in R \/ <<y, x>> \in R
        /\ \A x, y, z \in M : <<x, y>> \in R /\ <<y, z>> \in R => <<x, z>> \in R
        /\ \A x, y \in M : <<x, y>> \in R => first(x) <= first(y)
    BY <1>2
  <2>2. M # {}
    BY DEF M
  <2> HIDE DEF R
  <2>3. \E m \in M : \A k \in M : <<m, k>> \in R
    BY <1>1, <2>1, <2>2, Least
  <2> QED
    BY <2>1, <2>3
<1> QED
  BY <1>3 DEF FirstModel

\* What _pick_group picks: tp cards of the first model that has as many, adjacent
\* and aligned whenever that model has such a group.
LEMMA PickIs ==
  ASSUME NEW C, OfOne(C), NEW tp \in Nat \ {0}, ModelsWith(C, tp) # {},
         NEW f, f.capacity \in [Gpu -> Int]
  PROVE  LET D == OfModel(C, FirstModel(C, tp))
             G == PickGroup(f, C, tp)
         IN  /\ OfOne(D) /\ G \subseteq D /\ Cardinality(G) = tp
             /\ Runs(D, tp) # {} => Adjacent(G)
             /\ Aligned(D, tp) # {} => LowestIndex(G) % tp = 0
<1> DEFINE D == OfModel(C, FirstModel(C, tp))
           G == PickGroup(f, C, tp)
<1>1. tp <= Cardinality(D)
  <2>1. Cardinality(D) >= tp
    <3>1. FirstModel(C, tp) \in ModelsWith(C, tp)
      BY FirstModelHas
    <3> QED
      BY <3>1 DEF ModelsWith
  <2>2. OfOne(D)
    BY CardsType DEF OfModel
  <2>3. Cardinality(D) \in Nat
    BY <2>2, CardsType
  <2> HIDE DEF D
  <2> QED
    BY <2>1, <2>3
<1>2. OfOne(D)
  BY CardsType DEF OfModel
<1>3. G = CASE Aligned(D, tp) # {}                     -> Run(D, Min(Aligned(D, tp)), tp)
            [] Aligned(D, tp) = {} /\ Runs(D, tp) # {} -> Run(D, Min(Runs(D, tp)), tp)
            [] OTHER                                   -> Fullest(f, D, tp)
  BY DEF PickGroup
<1> HIDE DEF D, G
<1>4. IsFiniteSet(Runs(D, tp)) /\ Runs(D, tp) \subseteq Int /\ Aligned(D, tp) \subseteq Runs(D, tp)
  <2>1. IsFiniteSet({Index[g] : g \in D}) /\ {Index[g] : g \in D} \subseteq Nat
    BY <1>2, Indices
  <2>2. Runs(D, tp) \subseteq {Index[g] : g \in D}
    BY DEF Runs
  <2>3. IsFiniteSet(Runs(D, tp))
    BY <2>1, <2>2, FS_Subset
  <2> QED
    BY <2>1, <2>2, <2>3 DEF Aligned
<1>5. IsFiniteSet(Aligned(D, tp)) /\ Aligned(D, tp) \subseteq Int
  BY <1>4, FS_Subset
<1>6. CASE Aligned(D, tp) # {}
  <2>1. Min(Aligned(D, tp)) \in Aligned(D, tp)
    BY <1>5, <1>6, MinIs
  <2>2. Min(Aligned(D, tp)) \in Runs(D, tp) /\ Min(Aligned(D, tp)) % tp = 0
    BY <2>1 DEF Aligned
  <2>3. G = Run(D, Min(Aligned(D, tp)), tp)
    BY <1>3, <1>6
  <2> QED
    BY <1>2, <2>2, <2>3, RunAdjacent DEF D, G
<1>7. CASE Aligned(D, tp) = {} /\ Runs(D, tp) # {}
  <2>1. Min(Runs(D, tp)) \in Runs(D, tp)
    BY <1>4, <1>7, MinIs
  <2>2. G = Run(D, Min(Runs(D, tp)), tp)
    BY <1>3, <1>7
  <2> QED
    BY <1>2, <1>7, <2>1, <2>2, RunAdjacent DEF D, G
<1>8. CASE Aligned(D, tp) = {} /\ Runs(D, tp) = {}
  <2>1. G = Fullest(f, D, tp)
    BY <1>3, <1>8
  <2>2. G \subseteq D /\ Cardinality(G) = tp
    BY <1>1, <1>2, <2>1, FullestSize
  <2> QED
    BY <1>2, <1>8, <2>2 DEF D, G
<1> QED
  BY <1>6, <1>7, <1>8

-----------------------------------------------------------------------------
(* What is offered, against the definition of a suitable group.              *)

\* A fleet and a demand that placement can be asked about.
AFleet(f) == f.capacity \in [Gpu -> Nat] /\ f.rows \subseteq Row /\ IsFiniteSet(f.rows)

ADemand(q) == q.need \in Nat /\ q.tp \in Nat \ {0} /\ q.within \subseteq Node

LEMMA RoomyIs ==
  ASSUME NEW f, NEW q, NEW n \in Node
  PROVE  OfOne(Roomy(f, q, n)) /\ OfOne(Cards(n)) /\ Roomy(f, q, n) \subseteq Cards(n)
BY DEF OfOne, Roomy

\* A group is of one model when it is among the cards of that model.
LEMMA OneModel ==
  ASSUME NEW G, IsFiniteSet(G)
  PROVE  Cardinality({Model[g] : g \in G}) = 1 <=> \E m : {Model[g] : g \in G} = {m}
<1> DEFINE e == [g \in G |-> Model[g]]
           X == {Model[g] : g \in G}
<1>1. e \in Surjection(G, X)
  BY DEF Surjection
<1> HIDE DEF X, e
<1>2. IsFiniteSet(X)
  BY <1>1, FS_Surjection
<1>3. Cardinality(X) = 1 <=> \E m : X = {m}
  BY <1>2, FS_Singleton
<1> QED
  BY <1>3 DEF X

LEMMA ModelOf ==
  ASSUME NEW C, NEW m, NEW G, G \subseteq OfModel(C, m), G # {}
  PROVE  {Model[g] : g \in G} = {m}
BY DEF OfModel

LEMMA SuitableIs ==
  ASSUME NEW f, NEW q, ADemand(q), NEW n \in Node
  PROVE  Suitable(f, q, n) # {} <=> ModelsWith(Roomy(f, q, n), q.tp) # {}
<1> DEFINE C == Roomy(f, q, n)
           tp == q.tp
<1>1. OfOne(C) /\ IsFiniteSet(C) /\ tp \in Nat \ {0}
  BY RoomyIs, CardsType DEF ADemand
<1>2. ASSUME NEW G \in Suitable(f, q, n)
      PROVE  ModelsWith(C, tp) # {}
  <2>1. G \subseteq C /\ Cardinality(G) = tp /\ Cardinality({Model[g] : g \in G}) = 1
    BY DEF Suitable
  <2> HIDE DEF C, tp
  <2>2. IsFiniteSet(G) /\ G # {}
    BY <1>1, <2>1, FS_Subset, FS_EmptySet
  <2>3. PICK m : {Model[g] : g \in G} = {m}
    BY <2>1, <2>2, OneModel
  <2>4. G \subseteq OfModel(C, m) /\ OfModel(C, m) \subseteq C
    BY <2>1, <2>3 DEF OfModel
  <2>5. Cardinality(OfModel(C, m)) >= tp
    <3>1. IsFiniteSet(OfModel(C, m))
      BY <1>1, <2>4, FS_Subset
    <3>2. Cardinality(G) <= Cardinality(OfModel(C, m)) /\ Cardinality(OfModel(C, m)) \in Nat
      BY <2>4, <3>1, FS_Subset, FS_CardinalityType
    <3> QED
      BY <1>1, <2>1, <3>2
  <2>6. m \in {Model[g] : g \in C}
    BY <2>1, <2>2, <2>3
  <2> QED
    BY <2>5, <2>6 DEF ModelsWith
<1>3. ASSUME NEW m \in ModelsWith(C, tp)
      PROVE  Suitable(f, q, n) # {}
  <2>1. Cardinality(OfModel(C, m)) >= tp
    BY DEF ModelsWith
  <2>2. OfModel(C, m) \subseteq C
    BY DEF OfModel
  <2> HIDE DEF C, tp
  <2>3. IsFiniteSet(OfModel(C, m)) /\ Cardinality(OfModel(C, m)) \in Nat
    BY <1>1, <2>2, FS_Subset, FS_CardinalityType
  <2>4. PICK G \in SUBSET OfModel(C, m) : Cardinality(G) = tp
    BY <1>1, <2>1, <2>3, SubsetOfSize
  <2>5. IsFiniteSet(G) /\ G # {}
    BY <1>1, <2>3, <2>4, FS_Subset, FS_EmptySet
  <2>6. Cardinality({Model[g] : g \in G}) = 1
    BY <2>4, <2>5, ModelOf, OneModel
  <2> QED
    BY <2>2, <2>4, <2>6 DEF Suitable, C, tp
<1> QED
  BY <1>2, <1>3

LEMMA OfferedIs ==
  ASSUME NEW f, NEW q, ADemand(q)
  PROVE  Offered(f, q) = {n \in q.within : f.status[n] = "online" /\ Suitable(f, q, n) # {}}
<1> SUFFICES ASSUME NEW n \in q.within
             PROVE  Verdict(f, q, n) = "offered" <=>
                      f.status[n] = "online" /\ Suitable(f, q, n) # {}
  BY DEF Offered
<1> DEFINE C == Roomy(f, q, n)
           tp == q.tp
<1>1. n \in Node /\ tp \in Nat \ {0}
  BY DEF ADemand
<1>2. Suitable(f, q, n) # {} <=> ModelsWith(C, tp) # {}
  BY <1>1, SuitableIs
<1>3. /\ OfOne(C) /\ OfOne(Cards(n)) /\ C \subseteq Cards(n)
      /\ IsFiniteSet(Cards(n)) /\ Cardinality(Cards(n)) \in Nat
      /\ IsFiniteSet(C) /\ Cardinality(C) \in Nat
  BY <1>1, RoomyIs, CardsType
<1>4. Verdict(f, q, n) = "offered" <=>
        /\ f.status[n] = "online" /\ ~ (Cardinality(Cards(n)) < tp) /\ ~ (Cardinality(C) < tp)
        /\ ModelsWith(C, tp) # {}
  BY DEF Verdict
<1> HIDE DEF C, tp
<1>5. ASSUME NEW m \in ModelsWith(C, tp)
      PROVE  ~ (Cardinality(Cards(n)) < tp) /\ ~ (Cardinality(C) < tp)
  <2>1. Cardinality(OfModel(C, m)) >= tp /\ OfModel(C, m) \subseteq C
    BY DEF ModelsWith, OfModel
  <2>2. /\ Cardinality(OfModel(C, m)) <= Cardinality(C)
        /\ Cardinality(C) <= Cardinality(Cards(n))
        /\ IsFiniteSet(OfModel(C, m))
    BY <1>3, <2>1, FS_Subset
  <2>3. Cardinality(OfModel(C, m)) \in Nat
    BY <2>2, FS_CardinalityType
  <2> QED
    BY <1>1, <1>3, <2>1, <2>2, <2>3
<1> QED
  BY <1>2, <1>4, <1>5

\* The group that is picked on a node that is offered is a suitable one, and as
\* good as any of its model.
LEMMA GroupIs ==
  ASSUME NEW f, AFleet(f), NEW q, ADemand(q), NEW n \in Offered(f, q)
  PROVE  LET G    == Group(f, q, n)
             like == {H \in Suitable(f, q, n) : {Model[g] : g \in H} = {Model[g] : g \in G}}
         IN  /\ G \in Suitable(f, q, n)
             /\ (\E H \in like : Adjacent(H)) => Adjacent(G)
             /\ (\E H \in like : Adjacent(H) /\ LowestIndex(H) % q.tp = 0)
                  => LowestIndex(G) % q.tp = 0
<1> DEFINE C == Roomy(f, q, n)
           tp == q.tp
           m == FirstModel(C, tp)
           D == OfModel(C, m)
           G == Group(f, q, n)
           like == {H \in Suitable(f, q, n) : {Model[g] : g \in H} = {Model[g] : g \in G}}
<1>1. n \in Node /\ Suitable(f, q, n) # {}
  BY OfferedIs DEF ADemand
<1>2. OfOne(C) /\ tp \in Nat \ {0} /\ ModelsWith(C, tp) # {}
  BY <1>1, RoomyIs, SuitableIs DEF ADemand
<1>3. f.capacity \in [Gpu -> Int]
  BY DEF AFleet
<1>4. /\ OfOne(D) /\ G \subseteq D /\ Cardinality(G) = tp
      /\ Runs(D, tp) # {} => Adjacent(G)
      /\ Aligned(D, tp) # {} => LowestIndex(G) % tp = 0
  <2>1. G = PickGroup(f, C, tp)
    BY DEF Group
  <2> HIDE DEF C, tp, G
  <2> QED
    BY <1>2, <1>3, <2>1, PickIs
<1>5. D \subseteq C
  BY DEF OfModel
<1> HIDE DEF D, G
<1>6. IsFiniteSet(G) /\ G # {}
  <2>1. IsFiniteSet(D)
    BY <1>4, CardsType
  <2> HIDE DEF tp
  <2> QED
    BY <1>2, <1>4, <2>1, FS_Subset, FS_EmptySet
<1>7. {Model[g] : g \in G} = {m}
  BY <1>4, <1>6, ModelOf DEF D
<1>8. G \in Suitable(f, q, n)
  <2>1. Cardinality({Model[g] : g \in G}) = 1
    BY <1>6, <1>7, OneModel
  <2> QED
    BY <1>4, <1>5, <2>1 DEF Suitable
<1>9. ASSUME NEW H \in like, Adjacent(H)
      PROVE  LowestIndex(H) \in Runs(D, tp)
  <2>1. H \subseteq C /\ Cardinality(H) = tp /\ {Model[g] : g \in H} = {m}
    BY <1>7 DEF Suitable
  <2>2. H \in SUBSET D
    BY <2>1 DEF D, OfModel
  <2> HIDE DEF tp, m, C, like
  <2> QED
    BY <1>2, <1>4, <1>9, <2>1, <2>2, AdjacentIsRun
<1>10. ASSUME NEW H \in like, Adjacent(H), LowestIndex(H) % tp = 0
       PROVE  Aligned(D, tp) # {}
  BY <1>9, <1>10 DEF Aligned
<1> QED
  BY <1>4, <1>8, <1>9, <1>10 DEF G

-----------------------------------------------------------------------------
(* The targets of a deploy.                                                  *)

\* The group that is offered is some cards with room for the demand.
LEMMA GroupType ==
  ASSUME NEW f, AFleet(f), NEW q, ADemand(q), NEW n \in Offered(f, q)
  PROVE  LET G == Group(f, q, n)
         IN  /\ n \in Node /\ G \subseteq Gpu /\ IsFiniteSet(G) /\ G # {}
             /\ \A g \in G : f.capacity[g] \in Nat /\ f.capacity[g] >= q.need
<1> DEFINE G == Group(f, q, n)
<1>1. n \in Node
  BY DEF Offered, ADemand
<1>2. G \in Suitable(f, q, n)
  BY GroupIs
<1> HIDE DEF G
<1>3. G \subseteq Roomy(f, q, n) /\ Cardinality(G) = q.tp /\ q.tp \in Nat \ {0}
  BY <1>2 DEF Suitable, ADemand
<1>4. OfOne(Roomy(f, q, n))
  BY <1>1, RoomyIs
<1>5. OfOne(G)
  BY <1>3, <1>4, CardsType
<1>6. G \subseteq Gpu /\ IsFiniteSet(G)
  BY <1>5, CardsType
<1>7. G # {}
  BY <1>3, FS_EmptySet
<1>8. \A g \in G : f.capacity[g] \in Nat /\ f.capacity[g] >= q.need
  BY <1>3, <1>6 DEF AFleet, Roomy
<1> QED
  BY <1>1, <1>6, <1>7, <1>8 DEF G

\* What a score is made of: the least room on the group and the most models on a
\* card of it.
LEMMA RoomAndHeld ==
  ASSUME NEW f, AFleet(f), NEW q, ADemand(q), NEW n \in Offered(f, q)
  PROVE  LET G    == Group(f, q, n)
             room == {f.capacity[g] : g \in G}
             held == {Cardinality(Tenants(f.rows, g)) : g \in G}
         IN  /\ IsFiniteSet(room) /\ room # {} /\ room \subseteq Int
             /\ IsFiniteSet(held) /\ held # {} /\ held \subseteq Int
<1> DEFINE G == Group(f, q, n)
           room == {f.capacity[g] : g \in G}
           held == {Cardinality(Tenants(f.rows, g)) : g \in G}
<1>1. /\ n \in Node /\ G \subseteq Gpu /\ IsFiniteSet(G) /\ G # {}
      /\ \A g \in G : f.capacity[g] \in Nat
  BY GroupType
<1> HIDE DEF G
<1>2. IsFiniteSet(room) /\ room # {} /\ room \subseteq Int
  <2> DEFINE e == [g \in G |-> f.capacity[g]]
  <2>1. e \in Surjection(G, room)
    BY DEF Surjection
  <2> HIDE DEF e, room
  <2>2. IsFiniteSet(room)
    BY <1>1, <2>1, FS_Surjection
  <2> QED
    BY <1>1, <2>2 DEF room
<1>3. IsFiniteSet(held) /\ held # {} /\ held \subseteq Int
  <2> DEFINE e == [g \in G |-> Cardinality(Tenants(f.rows, g))]
  <2>1. e \in Surjection(G, held)
    BY DEF Surjection
  <2>2. \A g \in G : Cardinality(Tenants(f.rows, g)) \in Nat
    <3> SUFFICES ASSUME NEW g \in G PROVE Cardinality(Tenants(f.rows, g)) \in Nat
      OBVIOUS
    <3>1. Tenants(f.rows, g) \subseteq f.rows /\ IsFiniteSet(f.rows)
      BY DEF Tenants, AFleet
    <3>2. IsFiniteSet(Tenants(f.rows, g))
      BY <3>1, FS_Subset
    <3> QED
      BY <3>2, FS_CardinalityType
  <2>3. held \subseteq Int /\ held # {}
    BY <1>1, <2>2
  <2> HIDE DEF e, held
  <2>4. IsFiniteSet(held)
    BY <1>1, <2>1, FS_Surjection
  <2> QED
    BY <2>3, <2>4
<1> HIDE DEF room, held
<1> QED
  BY <1>2, <1>3 DEF room, held, G

LEMMA ScoreType ==
  ASSUME NEW f, AFleet(f), NEW q, ADemand(q), NEW n \in Offered(f, q)
  PROVE  Score(f, q, n) \in Int
<1> DEFINE G == Group(f, q, n)
           room == {f.capacity[g] : g \in G}
           held == {Cardinality(Tenants(f.rows, g)) : g \in G}
           left == Min(room) - q.need
<1>1. n \in Node /\ IsFiniteSet(G)
  BY GroupType
<1>2. /\ IsFiniteSet(room) /\ room # {} /\ room \subseteq Int
      /\ IsFiniteSet(held) /\ held # {} /\ held \subseteq Int
  BY RoomAndHeld
<1> HIDE DEF room, held
<1>4. Min(room) \in Int /\ Max(held) \in Int
  BY <1>2, MinIs, MaxIs
<1>5. left \in Int
  BY <1>4 DEF ADemand
<1> HIDE DEF left
<1> DEFINE others == Cardinality(Cards(n)) - Cardinality(G)
<1>6. others \in Int
  <2>1. Cardinality(G) \in Nat
    BY <1>1, FS_CardinalityType
  <2>2. Cardinality(Cards(n)) \in Nat
    BY <1>1, RoomyIs, CardsType
  <2> QED
    BY <2>1, <2>2
<1>8. Score(f, q, n) = left + HALF_GB * others
        - (IF Max(held) > 0 THEN SHARE_BONUS ELSE 0)
        - (IF CalledAligned(f, G) THEN ALIGN_BONUS ELSE 0)
  BY DEF Score, Sharing, G, room, held, left
<1> HIDE DEF others
<1>7. HALF_GB * others \in Int /\ SHARE_BONUS \in Nat /\ ALIGN_BONUS \in Nat
  BY <1>6, PlacementAssumption
<1> QED
  BY <1>5, <1>7, <1>8

\* What resolve_targets comes back with: offered nodes with the groups that were
\* picked on them, of which there is one as soon as any node is offered.
LEMMA ResolvedIs ==
  ASSUME NEW f, AFleet(f), NEW q, ADemand(q), q.replicas \in Nat \ {0}
  PROVE  /\ Resolved(f, q) # {}
         /\ \A T \in Resolved(f, q) :
              /\ IsFiniteSet(T)
              /\ \A t \in T : \E n \in Offered(f, q) : t = [node |-> n, gpus |-> Group(f, q, n)]
              /\ T # {} <=> Offered(f, q) # {}
              /\ \/ Cardinality(T) = q.replicas
                 \/ Cardinality(T) < q.replicas /\ \A n \in Offered(f, q) : \E t \in T : t.node = n
<1> DEFINE O == Offered(f, q)
           ranked == {<<Score(f, q, n), n>> : n \in O}
           k == Min({q.replicas, Cardinality(ranked)})
           Best(P) == Cardinality(P) = k /\ \A p \in P, r \in ranked \ P : p[1] <= r[1]
           targets(P) == {[node |-> p[2], gpus |-> Group(f, q, p[2])] : p \in P}
           R == {x \in ranked \X ranked : x[1][1] <= x[2][1]}
<1>1. Resolved(f, q) = {targets(P) : P \in {Q \in SUBSET ranked : Best(Q)}}
  BY DEF Resolved
<1>2. IsFiniteSet(O)
  BY PlacementAssumption, FS_Subset DEF Offered, ADemand
<1>3. \A n \in O : Score(f, q, n) \in Int
  BY ScoreType
<1> HIDE DEF O
<1>4. IsFiniteSet(ranked)
  <2> DEFINE e == [n \in O |-> <<Score(f, q, n), n>>]
  <2>1. e \in Surjection(O, ranked)
    BY DEF Surjection
  <2> HIDE DEF e, ranked
  <2> QED
    BY <1>2, <2>1, FS_Surjection
<1>5. /\ \A p \in ranked : p[1] \in Int /\ p[2] \in O
      /\ \A p \in ranked : p = <<Score(f, q, p[2]), p[2]>>
      /\ \A n \in O : <<Score(f, q, n), n>> \in ranked
  BY <1>3
<1>6. ranked # {} <=> O # {}
  OBVIOUS
<1>7. /\ \A x, y \in ranked : <<x, y>> \in R \/ <<y, x>> \in R
      /\ \A x, y, z \in ranked : <<x, y>> \in R /\ <<y, z>> \in R => <<x, z>> \in R
      /\ \A x, y \in ranked : <<x, y>> \in R => x[1] <= y[1]
  <2> HIDE DEF ranked
  <2>1. \A x, y \in ranked : <<x, y>> \in R <=> x[1] <= y[1]
    OBVIOUS
  <2> HIDE DEF R
  <2> QED
    BY <1>5, <2>1
<1> HIDE DEF ranked, R
<1>8. /\ k \in Nat /\ k <= Cardinality(ranked) /\ (k = 0 <=> ranked = {})
      /\ k = q.replicas \/ (k < q.replicas /\ k = Cardinality(ranked))
  <2>1. Cardinality(ranked) \in Nat /\ (Cardinality(ranked) = 0 <=> ranked = {})
    BY <1>4, FS_CardinalityType, FS_EmptySet
  <2>2. k = IF q.replicas <= Cardinality(ranked) THEN q.replicas ELSE Cardinality(ranked)
    BY <2>1, MinOfTwo
  <2> HIDE DEF k
  <2> QED
    BY <2>1, <2>2
<1> HIDE DEF k
<1>9. \E P \in SUBSET ranked : Best(P)
  <2>1. PICK P \in SUBSET ranked : Cardinality(P) = k /\ \A p \in P, r \in ranked \ P : <<p, r>> \in R
    BY <1>4, <1>7, <1>8, InitialPart, SMTT(60)
  <2> QED
    BY <1>7, <2>1
<1>10. ASSUME NEW P \in SUBSET ranked, Best(P)
       PROVE  /\ IsFiniteSet(targets(P))
              /\ \A t \in targets(P) : \E n \in O : t = [node |-> n, gpus |-> Group(f, q, n)]
              /\ targets(P) # {} <=> O # {}
              /\ \/ Cardinality(targets(P)) = q.replicas
                 \/ /\ Cardinality(targets(P)) < q.replicas
                    /\ \A n \in O : \E t \in targets(P) : t.node = n
  <2>1. IsFiniteSet(P) /\ (P = {} <=> k = 0)
    <3>1. IsFiniteSet(P)
      BY <1>4, FS_Subset
    <3> QED
      BY <1>10, <3>1, FS_EmptySet
  <2> DEFINE e == [p \in P |-> [node |-> p[2], gpus |-> Group(f, q, p[2])]]
  <2>2. e \in Bijection(P, targets(P))
    <3>1. e \in Surjection(P, targets(P))
      BY DEF Surjection
    <3>2. ASSUME NEW x \in P, NEW y \in P, e[x] = e[y]
          PROVE  x = y
      <4>0. e[x].node = x[2] /\ e[y].node = y[2]
        OBVIOUS
      <4>1. x[2] = y[2]
        BY <3>2, <4>0
      <4>2. x = <<Score(f, q, x[2]), x[2]>> /\ y = <<Score(f, q, y[2]), y[2]>>
        BY <1>5
      <4> QED
        BY <4>1, <4>2
    <3>3. e \in Injection(P, targets(P))
      <4>1. e \in [P -> targets(P)]
        OBVIOUS
      <4>2. \A x, y \in P : e[x] = e[y] => x = y
        BY <3>2
      <4> HIDE DEF e, targets
      <4> QED
        BY <4>1, <4>2 DEF Injection, IsInjective
    <3> QED
      BY <3>1, <3>3 DEF Bijection
  <2>3. \A t \in targets(P) : \E n \in O : t = [node |-> n, gpus |-> Group(f, q, n)]
    BY <1>5
  <2>4. targets(P) # {} <=> P # {}
    OBVIOUS
  <2>5. ASSUME P = ranked, NEW n \in O
        PROVE  \E t \in targets(P) : t.node = n
    <3>1. [node |-> n, gpus |-> Group(f, q, n)] \in targets(P)
      BY <1>5, <2>5
    <3> QED
      BY <3>1
  <2> HIDE DEF e, targets
  <2>6. IsFiniteSet(targets(P)) /\ Cardinality(targets(P)) = k
    BY <1>10, <2>1, <2>2, FS_Bijection DEF ExistsBijection
  <2>7. k = Cardinality(ranked) => P = ranked
    BY <1>4, <1>10, FS_Subset
  <2>8. \/ Cardinality(targets(P)) = q.replicas
        \/ Cardinality(targets(P)) < q.replicas /\ \A n \in O : \E t \in targets(P) : t.node = n
    BY <1>8, <2>5, <2>6, <2>7
  <2> QED
    BY <1>6, <1>8, <2>1, <2>3, <2>4, <2>6, <2>8
<1> HIDE DEF targets, Best
<1>11. Resolved(f, q) # {}
  BY <1>1, <1>9
<1>12. \A T \in Resolved(f, q) : \E P \in SUBSET ranked : Best(P) /\ T = targets(P)
  BY <1>1
<1> QED
  BY <1>10, <1>11, <1>12 DEF O

-----------------------------------------------------------------------------
(* Sizing: estimates are natural numbers, and rounding loses less than a     *)
(* tenth of a GB.                                                            *)

LEMMA Quotient ==
  ASSUME NEW x \in Nat, NEW d \in Nat \ {0}
  PROVE  /\ x \div d \in Nat
         /\ d * (x \div d) <= x /\ x < d * (x \div d) + d
OBVIOUS

LEMMA Product ==
  ASSUME NEW x \in Nat, NEW y \in Nat
  PROVE  x * y \in Nat
OBVIOUS

LEMMA PositiveProduct ==
  ASSUME NEW x \in Nat \ {0}, NEW y \in Nat \ {0}
  PROVE  x * y \in Nat \ {0}
OBVIOUS

\* A multiple of t that is not above x is counted in full by x \div t.
LEMMA QuotientBound ==
  ASSUME NEW x \in Nat, NEW t \in Nat \ {0}, NEW q \in Nat, t * q <= x
  PROVE  q <= x \div t
<1> DEFINE p == x \div t
<1>1. p \in Nat /\ x < t * p + t
  BY Quotient
<1> HIDE DEF p
<1>2. ASSUME p + 1 <= q
      PROVE  FALSE
  <2>1. t * (p + 1) <= t * q
    BY <1>1, <1>2
  <2>2. t * (p + 1) = t * p + t
    BY <1>1
  <2> QED
    BY <1>1, <2>1, <2>2
<1> QED
  BY <1>1, <1>2 DEF p

LEMMA RoundIs ==
  ASSUME NEW x \in Nat
  PROVE  \E q \in Nat : /\ Round(x) = TICKS * q /\ x <= TICKS * q + TICKS
                        /\ x >= TICKS => q >= 1
<1> DEFINE y == 2 * x + TICKS
           d == 2 * TICKS
           q == y \div d
<1>1. TICKS \in Nat \ {0}
  BY SizingAssumption
<1>2. y \in Nat /\ d \in Nat \ {0}
  BY <1>1
<1>3. q \in Nat /\ y < d * q + d
  BY <1>2, Quotient
<1>4. Round(x) = TICKS * q
  BY DEF Round
<1>8. x >= TICKS => q >= 1
  <2> SUFFICES ASSUME x >= TICKS PROVE q >= 1
    OBVIOUS
  <2>1. d * 1 <= y
    BY <1>1
  <2> HIDE DEF d, y
  <2> QED
    BY <1>2, <2>1, QuotientBound
<1> HIDE DEF q
<1>5. d * q = 2 * (TICKS * q)
  BY <1>1, <1>3
<1>6. TICKS * q \in Nat
  BY <1>1, <1>3, Product
<1>7. x <= TICKS * q + TICKS
  BY <1>1, <1>3, <1>5, <1>6
<1> QED
  BY <1>3, <1>4, <1>7, <1>8

LEMMA AtLeast1Is ==
  ASSUME NEW n \in Nat
  PROVE  AtLeast1(n) \in Nat \ {0}
BY MaxOfTwo DEF AtLeast1

LEMMA WeightsType ==
  ASSUME NEW p \in Nat, NEW h \in Nat, NEW tp \in Nat
  PROVE  Weights(p, h, tp) \in Nat
<1>1. AtLeast1(tp) \in Nat \ {0} /\ 2 * GIGA \in Nat \ {0}
  BY AtLeast1Is, SizingAssumption
<1>2. 2 * GIGA * AtLeast1(tp) \in Nat \ {0}
  BY <1>1, PositiveProduct
<1>3. p * h \in Nat
  BY Product
<1> QED
  BY <1>2, <1>3, Quotient DEF Weights

LEMMA WeightHalvesType ==
  ASSUME NEW c \in ModelConfig \cup {NoConfig}, NEW quant
  PROVE  WeightHalves(c, quant) \in Nat
<1>1. CASE quant \in DOMAIN QUANT_HALVES
  <2>1. QUANT_HALVES[quant] \in Nat
    BY <1>1 DEF QUANT_HALVES
  <2> QED
    BY <1>1, <2>1 DEF WeightHalves
<1>2. CASE quant \notin DOMAIN QUANT_HALVES /\ c # NoConfig
  <2>1. c.bits \in Nat /\ c.dtype_bytes \in Nat
    BY <1>2 DEF ModelConfig
  <2>2. c.bits \div 4 \in Nat /\ 2 * c.dtype_bytes \in Nat
    BY <2>1
  <2> QED
    BY <1>2, <2>2 DEF WeightHalves
<1>3. CASE quant \notin DOMAIN QUANT_HALVES /\ c = NoConfig
  BY <1>3 DEF WeightHalves
<1> QED
  BY <1>1, <1>2, <1>3

LEMMA HeadsType ==
  ASSUME NEW c \in ModelConfig
  PROVE  HeadDim(c) \in Nat /\ KvHeads(c) \in Nat /\ AtLeast1(c.heads) \in Nat
<1>1. /\ c.head_dim \in Nat /\ c.hidden \in Nat /\ c.heads \in Nat /\ c.kv_heads \in Nat
  BY DEF ModelConfig
<1>2. AtLeast1(c.heads) \in Nat \ {0}
  BY <1>1, AtLeast1Is
<1>3. c.hidden \div AtLeast1(c.heads) \in Nat
  BY <1>1, <1>2, Quotient
<1> QED
  BY <1>1, <1>2, <1>3 DEF HeadDim, KvHeads, Or

LEMMA ParamsType ==
  ASSUME NEW c \in ModelConfig
  PROVE  ParamsFromConfig(c) \in Nat
<1> DEFINE h == c.hidden
           q == AtLeast1(c.heads) * HeadDim(c)
           kv == KvHeads(c) * HeadDim(c)
           inter == Or(c.inter, 4 * c.hidden)
           attn == h * q + 2 * h * kv + q * h
           mlp == 3 * h * inter
<1>1. h \in Nat /\ c.layers \in Nat /\ c.vocab \in Nat /\ c.inter \in Nat
  BY DEF ModelConfig
<1>2. q \in Nat /\ kv \in Nat
  BY HeadsType, Product
<1>3. inter \in Nat
  BY <1>1 DEF Or
<1>4. ParamsFromConfig(c) = IF c.layers = 0 \/ h = 0 THEN 0
                            ELSE c.layers * (attn + mlp) + 2 * c.vocab * h
  BY DEF ParamsFromConfig
<1> HIDE DEF h, q, kv, inter
<1>5. h * q \in Nat /\ q * h \in Nat /\ 2 * h * kv \in Nat /\ 3 * h * inter \in Nat
  BY <1>1, <1>2, <1>3, Product
<1>6. attn + mlp \in Nat
  BY <1>5
<1> HIDE DEF attn, mlp
<1>7. c.layers * (attn + mlp) \in Nat /\ 2 * c.vocab * h \in Nat
  BY <1>1, <1>6, Product
<1> QED
  BY <1>4, <1>7

LEMMA KvCacheType ==
  ASSUME NEW c \in ModelConfig, NEW len \in Nat, NEW seqs \in Nat, NEW tp \in Nat
  PROVE  KvCache(c, len, seqs, tp) \in Nat
<1> DEFINE per == 2 * c.layers * KvHeads(c) * HeadDim(c) * 2
<1>1. 2 * c.layers \in Nat
  BY DEF ModelConfig
<1>2. per \in Nat
  <2>1. 2 * c.layers * KvHeads(c) \in Nat
    BY <1>1, HeadsType, Product
  <2>2. 2 * c.layers * KvHeads(c) * HeadDim(c) \in Nat
    BY <2>1, HeadsType, Product
  <2> QED
    BY <2>2
<1>3. KvCache(c, len, seqs, tp) = (per * len * seqs) \div (KV_GIGA * AtLeast1(tp))
  BY DEF KvCache
<1> HIDE DEF per
<1>4. per * len * seqs \in Nat
  BY <1>2, Product
<1>5. KV_GIGA * AtLeast1(tp) \in Nat \ {0}
  BY AtLeast1Is, PositiveProduct, SizingAssumption
<1> QED
  BY <1>3, <1>4, <1>5, Quotient

\* A body whose numbers are what sizing expects.
ABody(b) ==
  /\ b.config \in ModelConfig \cup {NoConfig} /\ b.named.params \in Nat
  /\ b.tp \in Nat \ {0} /\ b.len \in Nat /\ b.catalog \in Nat

LEMMA AskIs ==
  ASSUME NEW s \in Session, Known(Ask[s]), Named1(Ask[s]), NEW k
  PROVE  /\ RepoOf(Ask[s]) \in Repo /\ Extra(Ask[s]) \subseteq ExtraFlag
         /\ ABody(Body(Ask[s], k))
         /\ Body(Ask[s], k).config = IF k = "read" THEN Config[RepoOf(Ask[s])] ELSE NoConfig
<1> DEFINE a == Ask[s]
           spec == IF a.spec = NoKey THEN [tp |-> 1, gb |-> 0, len |-> 0, quant |-> ""]
                   ELSE Catalog[a.spec]
           b == Body(a, k)
<1>1. /\ a.spec = NoKey \/ a.repo = NoRepo
      /\ a.repo \in Repo \cup {NoRepo} /\ a.extra \subseteq ExtraFlag
      /\ a.tp \in Nat /\ a.len \in Nat
  BY AskAssumption
<1>2. a.spec # NoKey => /\ Catalog[a.spec].repo \in Repo /\ Catalog[a.spec].extra \subseteq ExtraFlag
                        /\ Catalog[a.spec].tp \in Nat \ {0} /\ Catalog[a.spec].gb \in Nat
                        /\ Catalog[a.spec].len \in Nat
  BY AskAssumption DEF Known
<1>3. RepoOf(a) \in Repo
  BY <1>1, <1>2 DEF RepoOf, Named1
<1>4. Extra(a) \subseteq ExtraFlag
  BY <1>1, <1>2 DEF Extra, Merged
<1>5. spec.tp \in Nat \ {0} /\ spec.gb \in Nat /\ spec.len \in Nat
  BY <1>2
<1>6. /\ b.config = IF k = "read" THEN Config[RepoOf(a)] ELSE NoConfig
      /\ b.named = Named[RepoOf(a)] /\ b.tp = Or(a.tp, spec.tp) /\ b.len = Or(a.len, spec.len)
      /\ b.catalog = TICKS * spec.gb
  BY DEF Body
<1> HIDE DEF a, b, spec
<1>7. b.config \in ModelConfig \cup {NoConfig} /\ b.named.params \in Nat
  BY <1>3, <1>6, AskAssumption
<1>8. b.tp \in Nat \ {0} /\ b.len \in Nat
  BY <1>1, <1>5, <1>6 DEF Or
<1>9. b.catalog \in Nat
  <2>1. TICKS \in Nat
    BY SizingAssumption
  <2> QED
    BY <1>5, <1>6, <2>1, Product
<1> QED
  BY <1>3, <1>4, <1>6, <1>7, <1>8, <1>9 DEF ABody, a, b

\* What vLLM cannot start without: the weights, one sequence and the overhead.
Floor(b) ==
  Weights(ParamsOf(b), WeightHalves(b.config, b.quant), b.tp)
    + KvCache(b.config, EffectiveLen(b), 1, b.tp) + OVERHEAD

LEMMA FloorType ==
  ASSUME NEW b, ABody(b), b.config # NoConfig
  PROVE  Floor(b) \in Nat /\ Floor(b) >= OVERHEAD /\ Estimate(b).minimum = Round(Floor(b))
<1>1. b.config \in ModelConfig /\ b.tp \in Nat /\ b.len \in Nat /\ b.named.params \in Nat
  BY DEF ABody
<1>2. ParamsFromConfig(b.config) \in Nat /\ WeightHalves(b.config, b.quant) \in Nat
  BY <1>1, ParamsType, WeightHalvesType
<1>3. ParamsOf(b) \in Nat
  BY <1>1, <1>2 DEF ParamsOf, Or
<1>4. EffectiveLen(b) \in Nat
  <2>1. b.config.ctx \in Nat /\ DEFAULT_LEN \in Nat
    BY <1>1, SizingAssumption DEF ModelConfig
  <2> QED
    BY <1>1, <2>1 DEF EffectiveLen, Or
<1>5. Weights(ParamsOf(b), WeightHalves(b.config, b.quant), b.tp) \in Nat
  BY <1>1, <1>2, <1>3, WeightsType
<1>6. KvCache(b.config, EffectiveLen(b), 1, b.tp) \in Nat
  BY <1>1, <1>4, KvCacheType
<1>7. OVERHEAD \in Nat
  BY SizingAssumption
<1>8. Estimate(b).minimum = Round(Floor(b))
  BY DEF Estimate, MeasuredEstimate, Floor
<1> QED
  BY <1>5, <1>6, <1>7, <1>8 DEF Floor

LEMMA MinimumType ==
  ASSUME NEW b, ABody(b)
  PROVE  /\ \E x \in Nat : x >= OVERHEAD /\ Estimate(b).minimum = Round(x)
         /\ Estimate(b).minimum \in Nat
<1>1. \A x \in Nat : Round(x) \in Nat
  <2> SUFFICES ASSUME NEW x \in Nat PROVE Round(x) \in Nat
    OBVIOUS
  <2>1. PICK q \in Nat : Round(x) = TICKS * q
    BY RoundIs
  <2>2. TICKS \in Nat
    BY SizingAssumption
  <2> QED
    BY <2>1, <2>2, Product
<1>2. CASE b.config # NoConfig
  BY <1>1, <1>2, FloorType
<1>3. CASE b.config = NoConfig
  <2> DEFINE quant == IF b.quant # "" THEN b.quant ELSE b.named.quant
             w == Weights(b.named.params, WeightHalves(NoConfig, quant), b.tp)
  <2>1. Estimate(b).minimum = Round(w + OVERHEAD)
    BY <1>3 DEF Estimate, GuessedEstimate
  <2>2. b.named.params \in Nat /\ b.tp \in Nat
    BY DEF ABody
  <2> HIDE DEF quant
  <2>3. w \in Nat
    BY <2>2, WeightsType, WeightHalvesType
  <2> HIDE DEF w
  <2>4. w + OVERHEAD \in Nat /\ w + OVERHEAD >= OVERHEAD
    BY <2>3, SizingAssumption
  <2> QED
    BY <1>1, <2>1, <2>4
<1> QED
  BY <1>2, <1>3

LEMMA RequirementIs ==
  ASSUME NEW b, ABody(b)
  PROVE  Requirement(b) \in Nat /\ Estimate(b).minimum <= Requirement(b)
<1>1. b.catalog \in Nat /\ Estimate(b).minimum \in Nat
  BY MinimumType DEF ABody
<1>2. Requirement(b) = IF b.catalog >= Estimate(b).minimum THEN b.catalog ELSE Estimate(b).minimum
  BY <1>1, MaxOfTwo DEF Requirement
<1> QED
  BY <1>1, <1>2

\* What the plan asks for is the requirement cut down to whole units, and what is
\* claimed is that or one unit more.
LEMMA ClaimIs ==
  ASSUME NEW b, ABody(b)
  PROVE  LET need == Requirement(b) \div MB
         IN  /\ need \in Nat /\ Claim(b) \in Nat /\ MB * Claim(b) \in Nat
             /\ need <= Claim(b) /\ Claim(b) <= need + 1
             /\ Requirement(b) < MB * Claim(b) + MB
<1> DEFINE r == Requirement(b)
           need == r \div MB
           y == 2 * r + MB
           d == 2 * MB
           c == y \div d
<1>1. MB \in Nat \ {0} /\ r \in Nat
  BY RequirementIs, SizingAssumption
<1>2. y \in Nat /\ d \in Nat \ {0}
  BY <1>1
<1>3. Claim(b) = c
  BY DEF Claim
<1> HIDE DEF r
<1>4. need \in Nat /\ MB * need <= r /\ r < MB * need + MB
  BY <1>1, Quotient
<1>5. c \in Nat /\ d * c <= y /\ y < d * c + d
  BY <1>2, Quotient
<1> HIDE DEF c, need
<1>6. d * c = 2 * (MB * c) /\ MB * c \in Nat /\ MB * need \in Nat
  BY <1>1, <1>4, <1>5, Product
<1>7. r < MB * c + MB
  BY <1>1, <1>5, <1>6
<1>8. ASSUME c < need PROVE FALSE
  <2>1. MB * (c + 1) <= MB * need
    BY <1>1, <1>4, <1>5, <1>8
  <2>2. MB * (c + 1) = MB * c + MB
    BY <1>1, <1>5
  <2> QED
    BY <1>1, <1>4, <1>6, <1>7, <2>1, <2>2
<1>9. ASSUME need + 2 <= c PROVE FALSE
  <2>1. MB * (need + 2) <= MB * c
    BY <1>1, <1>4, <1>5, <1>9
  <2>2. MB * (need + 2) = MB * need + 2 * MB
    BY <1>1, <1>4
  <2> QED
    BY <1>1, <1>4, <1>5, <1>6, <2>1, <2>2
<1>10. need <= c /\ c <= need + 1
  BY <1>4, <1>5, <1>8, <1>9
<1> QED
  BY <1>3, <1>4, <1>5, <1>6, <1>7, <1>10 DEF need, r

\* Even a model that weighs nothing is given some memory.
LEMMA NeedsSome ==
  ASSUME OVERHEAD >= TICKS, NEW b, ABody(b)
  PROVE  Claim(b) \in Nat \ {0}
<1> DEFINE r == Requirement(b)
<1>1. TICKS \in Nat \ {0} /\ OVERHEAD \in Nat /\ MB \in Nat \ {0} /\ MB <= TICKS
  BY SizingAssumption
<1>2. PICK x \in Nat : x >= OVERHEAD /\ Estimate(b).minimum = Round(x)
  BY MinimumType
<1>3. PICK q \in Nat : Round(x) = TICKS * q /\ (x >= TICKS => q >= 1)
  BY RoundIs
<1>4. r \in Nat /\ TICKS * q <= r
  BY <1>2, <1>3, RequirementIs
<1> HIDE DEF r
<1>5. q >= 1
  BY <1>1, <1>2, <1>3
<1>6. MB <= r
  <2>1. TICKS <= TICKS * q
    BY <1>1, <1>5
  <2> QED
    BY <1>1, <1>4, <2>1
<1>7. 1 <= r \div MB
  <2>1. MB * 1 <= r
    BY <1>1, <1>6
  <2> QED
    BY <1>1, <1>4, <2>1, QuotientBound
<1>8. r \div MB \in Nat /\ Claim(b) \in Nat /\ r \div MB <= Claim(b)
  BY ClaimIs DEF r
<1> QED
  BY <1>7, <1>8

\* A row that records the claim holds the floor, but for less than the tenth of a GB
\* and the unit it was rounded by.
LEMMA RecordedFloor ==
  ASSUME NEW b, ABody(b), b.config # NoConfig
  PROVE  MB * Claim(b) + MB + TICKS >= Floor(b)
<1>1. TICKS \in Nat \ {0} /\ MB \in Nat \ {0}
  BY SizingAssumption
<1>2. Floor(b) \in Nat
  BY FloorType
<1>3. PICK q \in Nat : Round(Floor(b)) = TICKS * q /\ Floor(b) <= TICKS * q + TICKS
  BY <1>2, RoundIs
<1>4. Requirement(b) \in Nat /\ TICKS * q <= Requirement(b)
  BY <1>3, FloorType, RequirementIs
<1>5. Requirement(b) < MB * Claim(b) + MB /\ MB * Claim(b) \in Nat
  BY ClaimIs
<1>6. TICKS * q \in Nat
  BY <1>1, <1>3, Product
<1> QED
  BY <1>1, <1>2, <1>3, <1>4, <1>5, <1>6

LEMMA DemandIs ==
  ASSUME NEW s \in Session, Known(Ask[s]), Named1(Ask[s]), NEW k
  PROVE  LET q == Demand(Ask[s], Body(Ask[s], k))
         IN  /\ ADemand(q) /\ q.replicas = Ask[s].replicas
             /\ q.need = Requirement(Body(Ask[s], k)) \div MB
<1> DEFINE b == Body(Ask[s], k)
           q == Demand(Ask[s], b)
<1>1. ABody(b)
  BY AskIs
<1> HIDE DEF b
<1>2. /\ q.need = Requirement(b) \div MB /\ q.tp = b.tp /\ q.within = Ask[s].within
      /\ q.replicas = Ask[s].replicas
  BY DEF Demand
<1>3. Requirement(b) \div MB \in Nat /\ b.tp \in Nat \ {0}
  BY <1>1, ClaimIs DEF ABody
<1>4. Ask[s].within \subseteq Node
  BY AskAssumption
<1> HIDE DEF q
<1> QED
  BY <1>2, <1>3, <1>4 DEF ADemand, q, b

-----------------------------------------------------------------------------
(* Flags.                                                                    *)

\* A flag of dgxctl's own that is set by hand, spelled whole, is an error whatever
\* its dashes and underscores, and in another form it is one that is not recognised.
LEMMA ManagedIsJudged ==
  ASSUME NEW extra, NEW x \in extra, x \in ExtraFlag, x.raw.name \in MANAGED
  PROVE  /\ x.raw.form = "whole" => Blocks(Validate(extra))
         /\ x.raw.form # "whole" => Issue("warning", "unknown") \in Validate(extra)
<1>1. x.raw \in [dashes : BOOLEAN, sep : {"-", "_"}, name : STRING, form : Form]
  BY DEF ExtraFlag
<1>2. /\ Normalise(x.raw).dashes /\ Normalise(x.raw).sep = "-"
      /\ Normalise(x.raw).name = x.raw.name /\ Normalise(x.raw).form = x.raw.form
  BY <1>1 DEF Normalise
<1>3. \A i \in Judged(x) : i \in Validate(extra)
  BY DEF Validate
<1>4. ASSUME x.raw.form = "whole"
      PROVE  Blocks(Validate(extra))
  <2>1. Listed(Normalise(x.raw), MANAGED)
    BY <1>2, <1>4 DEF Listed
  <2>2. Issue("error", "managed") \in Validate(extra)
    BY <1>3, <2>1 DEF Judged
  <2> QED
    BY <2>2 DEF Blocks, Issue
<1>5. ASSUME x.raw.form # "whole"
      PROVE  Issue("warning", "unknown") \in Validate(extra)
  <2>1. \A names : ~ Listed(Normalise(x.raw), names)
    BY <1>2, <1>5 DEF Listed
  <2> QED
    BY <1>3, <2>1 DEF Judged
<1> QED
  BY <1>4, <1>5

LEMMA OwnFlagsOnly ==
  ASSUME NEW extra, extra \subseteq ExtraFlag, ~ Blocks(Validate(extra)), NEW set,
         NEW m \in MANAGED, NEW y \in Given(Argv(set, extra), m)
  PROVE  \/ y.owner = "dgxctl"
         \/ y.flag.form # "whole" /\ Issue("warning", "unknown") \in Validate(extra)
<1>1. y \in Argv(set, extra) /\ y.flag.name = m
  BY DEF Given
<1>2. ASSUME NEW x \in extra, y = [owner |-> "extra", flag |-> [x.raw EXCEPT !.dashes = TRUE]]
      PROVE  y.flag.form # "whole" /\ Issue("warning", "unknown") \in Validate(extra)
  <2>1. x.raw \in [dashes : BOOLEAN, sep : {"-", "_"}, name : STRING, form : Form]
    BY <1>2 DEF ExtraFlag
  <2>2. y.flag.name = x.raw.name /\ y.flag.form = x.raw.form
    BY <1>2, <2>1
  <2> QED
    BY <1>1, <2>2, ManagedIsJudged
<1> QED
  BY <1>1, <1>2 DEF Argv

-----------------------------------------------------------------------------
(* The invariant: a row was sized and judged as its session asked.           *)

AsAsked(d) ==
  LET a == Ask[d.by]
      b == Body(a, sized[d.by])
  IN  /\ Known(a) /\ Named1(a)
      /\ sized[d.by] \in {"read", "unread"}
      /\ sized[d.by] = "read" => Config[RepoOf(a)] # NoConfig
      /\ d.mb = Claim(b)
      /\ ~ Blocks(Validate(Extra(a))) /\ ~ Blocks(Checks(b, NoHardware))

\* What is remembered of a config that was read is a config.
CacheSound == \A r \in Repo : cache[r] = "read" => Config[r] # NoConfig

IInv == TypeOK /\ IsFiniteSet(rows) /\ CacheSound /\ \A d \in rows : AsAsked(d)

LEMMA FleetIs ==
  ASSUME TypeOK, IsFiniteSet(rows)
  PROVE  /\ AFleet(Fleet) /\ Fleet.status = status
         /\ \A g \in Gpu : Fleet.capacity[g] <= MaxMb
<1>1. \A g \in Gpu : Available(rows, used, g) \in 0..MaxMb
  <2> SUFFICES ASSUME NEW g \in Gpu PROVE Available(rows, used, g) \in 0..MaxMb
    OBVIOUS
  <2>1. Claimed(rows, g) \in Nat
    BY ClaimedType DEF TypeOK
  <2>2. used[g] \in Nat
    BY AskAssumption DEF TypeOK
  <2>3. Total[g] \in 0..MaxMb /\ RESERVE_MB \in Nat /\ MaxMb \in Nat
    BY FleetAssumption
  <2> QED
    BY <2>1, <2>2, <2>3 DEF Available
<1>2. Fleet.capacity = [g \in Gpu |-> Available(rows, used, g)]
  BY DEF Fleet, Capacities
<1>3. Fleet.rows = rows /\ Fleet.status = status
  BY DEF Fleet
<1> QED
  BY <1>1, <1>2, <1>3 DEF AFleet, TypeOK

LEMMA FetchedIs ==
  ASSUME TypeOK, CacheSound, NEW r \in Repo, NEW k \in Fetched(cache, r)
  PROVE  k \in {"read", "unread"} /\ (k = "read" => Config[r] # NoConfig)
BY DEF Fetched, TypeOK, CacheSound

LEMMA InitInv == Init => IInv
<1> SUFFICES ASSUME Init PROVE IInv
  OBVIOUS
<1>1. TypeOK
  BY AskAssumption DEF Init, TypeOK
<1>2. IsFiniteSet(rows)
  BY FS_EmptySet DEF Init
<1> QED
  BY <1>1, <1>2 DEF IInv, CacheSound, Init

\* The rows that a create writes are as its session asked, and are rows.
LEMMA NewRowsType ==
  ASSUME IInv, NEW s \in Session, Known(Ask[s]), Named1(Ask[s]), NEW k,
         NEW T \in Resolved(Fleet, Demand(Ask[s], Body(Ask[s], k))),
         Ask[s].replicas \in Nat \ {0}, Granted(T, Body(Ask[s], k))
  PROVE  /\ NewRows(s, Body(Ask[s], k), T) \subseteq Row
         /\ IsFiniteSet(NewRows(s, Body(Ask[s], k), T))
         /\ \A d \in NewRows(s, Body(Ask[s], k), T) :
              d.by = s /\ d.mb = Claim(Body(Ask[s], k))
<1> DEFINE b == Body(Ask[s], k)
           q == Demand(Ask[s], b)
           f == Fleet
           need == Claim(b)
           port(t) == CHOOSE p \in Port : IsNextPort(rows, t.node, p)
           row(t) == [by |-> s, node |-> t.node, gpus |-> t.gpus, mb |-> need, port |-> port(t)]
           N == NewRows(s, b, T)
<1>1. AFleet(f) /\ \A g \in Gpu : f.capacity[g] <= MaxMb
  BY FleetIs DEF IInv
<1>2. ADemand(q) /\ q.replicas \in Nat \ {0}
  BY DemandIs
<1>3. need \in Nat
  <2>1. ABody(b)
    BY AskIs
  <2> HIDE DEF b
  <2> QED
    BY <2>1, ClaimIs
<1>0. \A t \in T : \A g \in t.gpus : f.capacity[g] >= need
  BY DEF Granted, HasRoom
<1>4. N = {row(t) : t \in T}
  BY DEF NewRows
<1> HIDE DEF b, f, need
<1>5. /\ IsFiniteSet(T)
      /\ \A t \in T : \E n \in Offered(f, q) : t = [node |-> n, gpus |-> Group(f, q, n)]
  <2>1. T \in Resolved(f, q)
    BY DEF f, b
  <2> HIDE DEF q
  <2> QED
    BY <1>1, <1>2, <2>1, ResolvedIs
<1> HIDE DEF q
<1>6. \A t \in T : t.node \in Node /\ t.gpus \subseteq Gpu /\ need \in 0..MaxMb
  <2> SUFFICES ASSUME NEW t \in T
               PROVE  t.node \in Node /\ t.gpus \subseteq Gpu /\ need \in 0..MaxMb
    OBVIOUS
  <2>1. PICK n \in Offered(f, q) : t = [node |-> n, gpus |-> Group(f, q, n)]
    BY <1>5
  <2> DEFINE G == Group(f, q, n)
  <2>2. n \in Node /\ G \subseteq Gpu /\ G # {} /\ \A g \in G : f.capacity[g] \in Nat
    BY <1>1, <1>2, GroupType
  <2>3. t.node = n /\ t.gpus = G
    BY <2>1
  <2> HIDE DEF G
  <2>4. PICK g \in G : TRUE
    BY <2>2
  <2>5. need \in 0..MaxMb
    <3>1. f.capacity[g] \in Nat /\ need <= f.capacity[g] /\ f.capacity[g] <= MaxMb
      BY <1>0, <1>1, <1>3, <2>2, <2>3
    <3>2. MaxMb \in Nat
      BY FleetAssumption
    <3> QED
      BY <1>3, <3>1, <3>2
  <2> QED
    BY <2>2, <2>3, <2>5
<1>7. \A t \in T : port(t) \in Port
  <2> SUFFICES ASSUME NEW t \in T PROVE port(t) \in Port
    OBVIOUS
  <2>1. \E p \in Port : IsNextPort(rows, t.node, p)
    BY NextPort DEF Granted, HasPorts
  <2> QED
    BY <2>1
<1> HIDE DEF port
<1>8. \A t \in T : row(t) \in Row
  BY <1>6, <1>7 DEF Row
<1>9. IsFiniteSet(N)
  <2> DEFINE e == [t \in T |-> row(t)]
  <2>1. e \in Surjection(T, N)
    BY <1>4 DEF Surjection
  <2> HIDE DEF e, N
  <2> QED
    BY <1>5, <2>1, FS_Surjection
<1> HIDE DEF N
<1>10. \A d \in N : d.by = s /\ d.mb = need
  BY <1>4
<1>11. N \subseteq Row
  BY <1>4, <1>8
<1> QED
  BY <1>9, <1>10, <1>11 DEF N, b, need

\* What is said of a row depends on how its session was sized, and on nothing else
\* that changes.
LEMMA AsAskedNext ==
  ASSUME NEW d
  PROVE  AsAsked(d)' <=>
           /\ Known(Ask[d.by]) /\ Named1(Ask[d.by]) /\ sized'[d.by] \in {"read", "unread"}
           /\ sized'[d.by] = "read" => Config[RepoOf(Ask[d.by])] # NoConfig
           /\ d.mb = Claim(Body(Ask[d.by], sized'[d.by]))
           /\ ~ Blocks(Validate(Extra(Ask[d.by])))
           /\ ~ Blocks(Checks(Body(Ask[d.by], sized'[d.by]), NoHardware))
BY DEF AsAsked, Known, Named1, Extra, Merged, Validate, Judged, Issue, Blocks, Normalise, Listed,
       TypeOk, Checks, Claim, Requirement, Body, NoHardware

LEMMA AsAskedKept ==
  ASSUME NEW d, AsAsked(d), sized'[d.by] = sized[d.by]
  PROVE  AsAsked(d)'
BY AsAskedNext DEF AsAsked

LEMMA CreateInv ==
  ASSUME IInv, NEW s \in Session, Create(s)
  PROVE  IInv'
<1> DEFINE a == Ask[s]
<1>1. /\ Known(a) /\ Named1(a) /\ \A d \in rows : d.by # s
      /\ UNCHANGED <<used, status>>
  BY DEF Create
<1>2. PICK k \in Fetched(cache, RepoOf(a)) :
        /\ cache' = [cache EXCEPT ![RepoOf(a)] = k]
        /\ \/ /\ Refusal(a, Body(a, k)) # "none"
              /\ UNCHANGED <<rows, sized>>
           \/ /\ Refusal(a, Body(a, k)) = "none"
              /\ \E T \in Resolved(Fleet, Demand(a, Body(a, k))) :
                   /\ rows' = IF Granted(T, Body(a, k)) THEN rows \cup NewRows(s, Body(a, k), T) ELSE rows
                   /\ sized' = IF Granted(T, Body(a, k)) THEN [sized EXCEPT ![s] = k] ELSE sized
  BY DEF Create, Remembered
<1>3. RepoOf(a) \in Repo /\ k \in {"read", "unread"} /\ (k = "read" => Config[RepoOf(a)] # NoConfig)
  BY <1>1, AskIs, FetchedIs DEF IInv
<1>4. cache' \in [Repo -> {"none", "read", "unread"}] /\ CacheSound'
  BY <1>2, <1>3 DEF IInv, TypeOK, CacheSound
<1>5. CASE UNCHANGED <<rows, sized>>
  <2>1. \A d \in rows : AsAsked(d)'
    BY <1>5, AsAskedKept DEF IInv
  <2> QED
    BY <1>1, <1>4, <1>5, <2>1 DEF IInv, TypeOK
<1>6. ASSUME Refusal(a, Body(a, k)) = "none",
             NEW T \in Resolved(Fleet, Demand(a, Body(a, k))), Granted(T, Body(a, k)),
             rows' = rows \cup NewRows(s, Body(a, k), T), sized' = [sized EXCEPT ![s] = k]
      PROVE  IInv'
  <2> DEFINE b == Body(a, k)
             N == NewRows(s, b, T)
  <2>1. /\ a.replicas \in 1..MAX_REPLICAS /\ ~ Blocks(Validate(Extra(a)))
        /\ ~ Blocks(Checks(b, NoHardware))
    BY <1>6 DEF Refusal
  <2>2. a.replicas \in Nat \ {0}
    BY <2>1, AskAssumption
  <2>3. /\ N \subseteq Row /\ IsFiniteSet(N)
        /\ \A d \in N : d.by = s /\ d.mb = Claim(b)
    BY <1>1, <1>6, <2>2, NewRowsType
  <2> HIDE DEF N
  <2>4. rows' \subseteq Row /\ IsFiniteSet(rows')
    BY <1>6, <2>3, FS_Union DEF IInv, TypeOK, N
  <2>5. sized' \in [Session -> {"never", "read", "unread"}] /\ sized'[s] = k
    BY <1>3, <1>6 DEF IInv, TypeOK
  <2>6. \A d \in rows : AsAsked(d)'
    <3>1. \A d \in rows : sized'[d.by] = sized[d.by]
      BY <1>1, <1>6 DEF IInv, TypeOK, Row
    <3> QED
      BY <3>1, AsAskedKept DEF IInv
  <2>7. \A d \in N : AsAsked(d)'
    <3> SUFFICES ASSUME NEW d \in N PROVE AsAsked(d)'
      OBVIOUS
    <3>1. d.by = s /\ d.mb = Claim(b) /\ sized'[d.by] = k
      BY <2>3, <2>5
    <3> QED
      BY <1>1, <1>3, <2>1, <3>1, AsAskedNext
  <2> QED
    BY <1>1, <1>4, <1>6, <2>4, <2>5, <2>6, <2>7 DEF IInv, TypeOK, N
<1> QED
  BY <1>2, <1>5, <1>6

LEMMA PlanInv ==
  ASSUME IInv, NEW s \in Session, Plan(s)
  PROVE  IInv'
<1> DEFINE a == Ask[s]
<1>1. /\ Known(a) /\ Named1(a) /\ UNCHANGED <<rows, used, status, sized>>
      /\ \E k \in Fetched(cache, RepoOf(a)) : cache' = [cache EXCEPT ![RepoOf(a)] = k]
  BY DEF Plan, Remembered
<1>2. PICK k \in Fetched(cache, RepoOf(a)) : cache' = [cache EXCEPT ![RepoOf(a)] = k]
  BY <1>1
<1>3. RepoOf(a) \in Repo /\ k \in {"read", "unread"} /\ (k = "read" => Config[RepoOf(a)] # NoConfig)
  BY <1>1, AskIs, FetchedIs DEF IInv
<1>4. cache' \in [Repo -> {"none", "read", "unread"}] /\ CacheSound'
  BY <1>2, <1>3 DEF IInv, TypeOK, CacheSound
<1>5. \A d \in rows : AsAsked(d)'
  BY <1>1, AsAskedKept DEF IInv
<1> QED
  BY <1>1, <1>4, <1>5 DEF IInv, TypeOK

\* The rows that stay have a session whose sizing stays with them.
LEMMA StopInv ==
  ASSUME IInv, NEW d \in rows, Stop(d)
  PROVE  IInv'
<1>1. rows' \subseteq rows /\ UNCHANGED <<used, status, cache>>
  BY DEF Stop
<1>2. \A e \in rows' : e.by \in Session
  BY <1>1 DEF IInv, TypeOK, Row
<1>3. sized' = [s \in Session |-> IF \E e \in rows' : e.by = s THEN sized[s] ELSE "never"]
  BY DEF Stop
<1>4. \A e \in rows' : sized'[e.by] = sized[e.by]
  BY <1>2, <1>3
<1>5. \A e \in rows' : AsAsked(e)'
  BY <1>1, <1>4, AsAskedKept DEF IInv
<1>6. IsFiniteSet(rows')
  BY <1>1, FS_Subset DEF IInv
<1>7. sized' \in [Session -> {"never", "read", "unread"}]
  BY <1>3 DEF IInv, TypeOK
<1> QED
  BY <1>1, <1>5, <1>6, <1>7 DEF IInv, TypeOK, CacheSound

\* The steps that leave the rows and their sizing alone.
LEMMA FleetInv ==
  ASSUME IInv, UNCHANGED <<rows, sized>>,
         used' \in [Gpu -> UsageReading], status' \in [Node -> {"online", "draining"}],
         cache' \in [Repo -> {"none", "read", "unread"}],
         \A r \in Repo : cache'[r] \in {"none", cache[r]}
  PROVE  IInv'
<1>1. \A d \in rows : AsAsked(d)'
  BY AsAskedKept DEF IInv
<1> QED
  BY <1>1 DEF IInv, TypeOK, CacheSound

LEMMA NextInv == IInv /\ [Next]_vars => IInv'
<1> SUFFICES ASSUME IInv, [Next]_vars PROVE IInv'
  OBVIOUS
<1>0. TypeOK
  BY DEF IInv
<1>1. ASSUME NEW s \in Session, Plan(s) \/ Create(s) PROVE IInv'
  BY <1>1, PlanInv, CreateInv
<1>2. ASSUME NEW d \in rows, Stop(d) PROVE IInv'
  BY <1>2, StopInv
<1>3. ASSUME NEW g \in Polled, Report(g) PROVE IInv'
  <2>1. used' \in [Gpu -> UsageReading] /\ UNCHANGED <<rows, status, cache, sized>>
    BY <1>0, <1>3 DEF Report, TypeOK
  <2> QED
    BY <1>0, <2>1, FleetInv DEF TypeOK
<1>4. ASSUME NEW n \in Drainable, Drain(n) PROVE IInv'
  <2>1. status' \in [Node -> {"online", "draining"}] /\ UNCHANGED <<rows, used, cache, sized>>
    BY <1>0, <1>4 DEF Drain, TypeOK
  <2> QED
    BY <1>0, <2>1, FleetInv DEF TypeOK
<1>5. ASSUME NEW r \in Repo, Expire(r) PROVE IInv'
  <2>1. /\ cache' = [cache EXCEPT ![r] = "none"] /\ UNCHANGED <<rows, used, status, sized>>
    BY <1>5 DEF Expire
  <2>2. /\ cache' \in [Repo -> {"none", "read", "unread"}]
        /\ \A x \in Repo : cache'[x] \in {"none", cache[x]}
    BY <1>0, <2>1 DEF TypeOK
  <2> QED
    BY <1>0, <2>1, <2>2, FleetInv DEF TypeOK
<1>6. CASE UNCHANGED vars
  BY <1>0, <1>6, FleetInv DEF TypeOK, vars
<1> QED
  BY <1>1, <1>2, <1>3, <1>4, <1>5, <1>6 DEF Next

\* The invariant that the theorems below follow from: the config that is remembered
\* as read is a config, and a row records the requirement of settings that were
\* judged and are those its session asks for (create_deployment).
THEOREM Invariance == Spec => []IInv
<1> QED
  BY InitInv, NextInv, PTL DEF Spec

\* The planner's variables have their types: a card that was chosen is a card of the
\* node, a requirement fits the largest card, and a port is one of the range.
THEOREM TypeCorrect == Spec => []TypeOK
<1>1. IInv => TypeOK
  BY DEF IInv
<1> QED
  BY <1>1, Invariance, PTL

\* Of the flags that dgxctl manages vLLM is given dgxctl's own alone, whatever flags,
\* catalog entries, dashes and underscores there are, unless one was set with its
\* value behind an "=" or cut short, and then dgxctl warned that it did not recognise
\* it (normalise and validate against build_vllm_args).
THEOREM FlagsOwned == Spec => []ManagedFlagsOwned
<1>1. IInv => ManagedFlagsOwned
  <2> SUFFICES ASSUME IInv, NEW d \in rows, NEW m \in MANAGED,
                      NEW x \in Given(CommandLine(Ask[d.by], Body(Ask[d.by], sized[d.by])), m)
               PROVE  \/ x.owner = "dgxctl"
                      \/ /\ x.flag.form # "whole"
                         /\ Issue("warning", "unknown") \in Validate(Extra(Ask[d.by]))
    BY DEF ManagedFlagsOwned
  <2>1. AsAsked(d) /\ d.by \in Session
    BY DEF IInv, TypeOK, Row
  <2>2. Extra(Ask[d.by]) \subseteq ExtraFlag /\ ~ Blocks(Validate(Extra(Ask[d.by])))
    BY <2>1, AskIs DEF AsAsked
  <2> DEFINE b == Body(Ask[d.by], sized[d.by])
             set == Sometimes(Ask[d.by], b)
             extra == Extra(Ask[d.by])
  <2>3. x \in Given(Argv(set, extra), m)
    BY DEF CommandLine
  <2> HIDE DEF set, extra
  <2> QED
    BY <2>2, <2>3, OwnFlagsOnly DEF extra
<1> QED
  BY <1>1, Invariance, PTL

\* A row whose config was read holds what vLLM cannot start without, but for less
\* than the tenth of a GB and the unit it was rounded by, and its context and its group
\* are ones the model has (_requirement, check and create_deployment).
THEOREM GrantsCanStart == Spec => []GrantedCanStart
<1>1. IInv => GrantedCanStart
  <2> SUFFICES ASSUME IInv, NEW d \in rows, sized[d.by] = "read"
               PROVE  LET b == Body(Ask[d.by], "read")
                      IN  /\ MB * d.mb + MB + TICKS >= Floor(b)
                          /\ b.config.ctx # 0 => EffectiveLen(b) <= b.config.ctx
                          /\ b.tp > 1 => b.config.heads % b.tp = 0
    BY DEF GrantedCanStart, Floor
  <2> DEFINE b == Body(Ask[d.by], "read")
  <2>1. /\ d.by \in Session /\ Known(Ask[d.by]) /\ Named1(Ask[d.by])
        /\ Config[RepoOf(Ask[d.by])] # NoConfig /\ d.mb = Claim(b)
        /\ ~ Blocks(Checks(b, NoHardware))
    BY DEF IInv, TypeOK, Row, AsAsked
  <2>2. ABody(b) /\ b.config # NoConfig
    BY <2>1, AskIs
  <2> HIDE DEF b
  <2>3. MB * d.mb + MB + TICKS >= Floor(b)
    BY <2>1, <2>2, RecordedFloor
  <2>4. /\ b.config.ctx \in Nat /\ b.config.heads \in Nat /\ b.len \in Nat /\ b.tp \in Nat \ {0}
    BY <2>2 DEF ABody, ModelConfig
  <2>5. Error("context") \notin Checks(b, NoHardware) /\ Error("heads") \notin Checks(b, NoHardware)
    BY <2>1 DEF Blocks, Error
  <2>6. ~ (b.len # 0 /\ b.config.ctx # 0 /\ b.len > b.config.ctx)
    BY <2>2, <2>5 DEF Checks
  <2>7. ~ (b.tp > 1 /\ b.config.heads # 0 /\ b.config.heads % b.tp # 0)
    BY <2>2, <2>5 DEF Checks
  <2>8. b.config.ctx # 0 => EffectiveLen(b) <= b.config.ctx
    BY <2>4, <2>6 DEF EffectiveLen, Or
  <2>9. b.tp > 1 => b.config.heads % b.tp = 0
    BY <2>4, <2>7
  <2> QED
    BY <2>3, <2>8, <2>9 DEF b
<1> QED
  BY <1>1, Invariance, PTL

\* A node is offered exactly when it accepts work and has a suitable group, and the
\* group picked is one, aligned or adjacent where its model has such a group: for
\* every fleet, whatever is placed on it, and every ask (plan and _pick_group).
THEOREM OffersSuitable == Spec => []OfferedIffSuitable
<1>1. IInv => OfferedIffSuitable
  <2> SUFFICES ASSUME IInv, NEW s \in Answerable, NEW b \in Bodies(s)
               PROVE  LET f == Fleet
                          q == Demand(Ask[s], b)
                      IN
                      /\ Offered(f, q) = {n \in q.within : status[n] = "online" /\ Suitable(f, q, n) # {}}
                      /\ \A n \in Offered(f, q) :
                           LET G    == Group(f, q, n)
                               like == {H \in Suitable(f, q, n) :
                                          {Model[g] : g \in H} = {Model[g] : g \in G}}
                           IN  /\ G \in Suitable(f, q, n)
                               /\ (\E H \in like : Adjacent(H)) => Adjacent(G)
                               /\ (\E H \in like : Adjacent(H) /\ LowestIndex(H) % q.tp = 0)
                                    => LowestIndex(G) % q.tp = 0
    BY Zenon DEF OfferedIffSuitable
  <2> DEFINE f == Fleet
             q == Demand(Ask[s], b)
  <2>1. AFleet(f) /\ f.status = status
    BY FleetIs DEF IInv
  <2>2. PICK k \in Fetched(cache, RepoOf(Ask[s])) : b = Body(Ask[s], k)
    BY DEF Bodies
  <2>3. ADemand(q)
    BY <2>2, DemandIs DEF Answerable
  <2> HIDE DEF f, q
  <2>4. Offered(f, q) = {n \in q.within : status[n] = "online" /\ Suitable(f, q, n) # {}}
    BY <2>1, <2>3, OfferedIs
  <2>5. \A n \in Offered(f, q) :
          LET G    == Group(f, q, n)
              like == {H \in Suitable(f, q, n) : {Model[g] : g \in H} = {Model[g] : g \in G}}
          IN  /\ G \in Suitable(f, q, n)
              /\ (\E H \in like : Adjacent(H)) => Adjacent(G)
              /\ (\E H \in like : Adjacent(H) /\ LowestIndex(H) % q.tp = 0)
                   => LowestIndex(G) % q.tp = 0
    BY <2>1, <2>3, GroupIs
  <2> QED
    BY <2>4, <2>5, Zenon DEF f, q
<1> QED
  BY <1>1, Invariance, PTL

\* What a fetch came to is what the next one comes to, while it is remembered.
LEMMA FetchedAgain ==
  ASSUME TypeOK, NEW r \in Repo, NEW k \in Fetched(cache, r),
         NEW j \in Fetched(Remembered(cache, r, k), r)
  PROVE  j = k
<1>1. k # "none"
  BY DEF Fetched, TypeOK
<1>2. Remembered(cache, r, k)[r] = k
  BY DEF Remembered, TypeOK
<1> QED
  BY <1>1, <1>2 DEF Fetched

\* Every target of a request can be given what the plan asked for, so a card that
\* cannot be given the claim has just that.
LEMMA JustShort ==
  ASSUME IInv, NEW s \in Answerable, NEW k,
         Ask[s].replicas \in Nat \ {0},
         NEW T \in Resolved(Fleet, Demand(Ask[s], Body(Ask[s], k))),
         ~ HasRoom(T, Body(Ask[s], k))
  PROVE  \E t \in T : \E g \in t.gpus :
           /\ Fleet.capacity[g] = Demand(Ask[s], Body(Ask[s], k)).need
           /\ Demand(Ask[s], Body(Ask[s], k)).need < Claim(Body(Ask[s], k))
<1> DEFINE b == Body(Ask[s], k)
           q == Demand(Ask[s], b)
           f == Fleet
           need == Requirement(b) \div MB
<1>0. AFleet(f)
  BY FleetIs DEF IInv
<1>1. AFleet(f) /\ s \in Session /\ Known(Ask[s]) /\ Named1(Ask[s])
  BY <1>0 DEF Answerable
<1>2. ADemand(q) /\ q.replicas \in Nat \ {0} /\ q.need = need
  <2>1. ADemand(q) /\ q.replicas = Ask[s].replicas /\ q.need = need
    BY <1>1, DemandIs
  <2> QED
    BY <2>1
<1>3. ABody(b)
  BY <1>1, AskIs
<1>4. T \in Resolved(f, q) /\ ~ HasRoom(T, b)
  OBVIOUS
<1> HIDE DEF b
<1>5. need \in Nat /\ Claim(b) \in Nat /\ need <= Claim(b) /\ Claim(b) <= need + 1
  BY <1>3, ClaimIs
<1>6. PICK t \in T : \E g \in t.gpus : ~ (f.capacity[g] >= Claim(b))
  BY <1>4 DEF HasRoom
<1>7. PICK g \in t.gpus : ~ (f.capacity[g] >= Claim(b))
  BY <1>6
<1> HIDE DEF f, q, need
<1>8. PICK n \in Offered(f, q) : t = [node |-> n, gpus |-> Group(f, q, n)]
  BY <1>1, <1>2, <1>4, ResolvedIs
<1>9. f.capacity[g] \in Nat /\ f.capacity[g] >= need
  <2>1. g \in Group(f, q, n)
    BY <1>8
  <2> QED
    BY <1>1, <1>2, <2>1, GroupType
<1>10. f.capacity[g] = need /\ need < Claim(b)
  BY <1>5, <1>7, <1>9
<1> QED
  BY <1>2, <1>10 DEF f, q, b

\* On an unchanged fleet a deploy that follows its preview is refused for its flags,
\* its settings or want of a place exactly when the preview said so, and otherwise is
\* refused only for want of a port or where the claim is rounded above what the plan
\* asked for and a card has no more than that (plan_deployment against
\* create_deployment and _reserve).
THEOREM PreviewSound == Spec => []PreviewAgrees
<1>1. ASSUME IInv, NEW s \in Answerable, Ask[s].replicas \in 1..MAX_REPLICAS,
             NEW k \in Fetched(cache, RepoOf(Ask[s])),
             NEW j \in Fetched(Remembered(cache, RepoOf(Ask[s]), k), RepoOf(Ask[s]))
      PROVE  LET a == Ask[s]
                 b == Body(a, j)
                 q == Demand(a, b)
             IN
             /\ (PlanOffers(a, Body(a, k)) # {} /\ ~ Blocked(a, Body(a, k)))
                  <=> Refusal(a, b) = "none"
             /\ PlanOffers(a, Body(a, k)) # {} /\ ~ Blocked(a, Body(a, k)) =>
                  \A T \in Resolved(Fleet, q) :
                    /\ T # {}
                    /\ \/ Granted(T, b)
                       \/ ~ HasPorts(T)
                       \/ \E t \in T : \E g \in t.gpus :
                            Fleet.capacity[g] = q.need /\ q.need < Claim(b)
  <2> DEFINE a == Ask[s]
             b == Body(a, j)
             q == Demand(a, b)
             f == Fleet
  <2>1. j = k
    <3>1. RepoOf(a) \in Repo
      BY <1>1, AskIs DEF Answerable
    <3> QED
      BY <1>1, <3>1, FetchedAgain DEF IInv
  <2>2. Blocked(a, b) <=> Blocks(Checks(b, NoHardware)) \/ Blocks(Validate(Extra(a)))
    BY DEF Blocked, Findings, Blocks
  <2>3. Refusal(a, b) = "none" <=>
          /\ ~ Blocks(Validate(Extra(a))) /\ ~ Blocks(Checks(b, NoHardware))
          /\ PlanOffers(a, b) # {}
    BY <1>1 DEF Refusal
  <2>4. AFleet(f) /\ ADemand(q) /\ q.replicas \in Nat \ {0} /\ a.replicas \in Nat \ {0}
    BY <1>1, FleetIs, DemandIs, AskAssumption DEF IInv, Answerable
  <2>5. ASSUME PlanOffers(a, b) # {}, NEW T \in Resolved(Fleet, q)
        PROVE  /\ T # {}
               /\ \/ Granted(T, b)
                  \/ ~ HasPorts(T)
                  \/ \E t \in T : \E g \in t.gpus :
                       Fleet.capacity[g] = q.need /\ q.need < Claim(b)
    <3>1. T # {}
      <4>1. T \in Resolved(f, q) /\ Offered(f, q) # {}
        BY <2>5 DEF PlanOffers
      <4> HIDE DEF f, q
      <4> QED
        BY <2>4, <4>1, ResolvedIs
    <3>2. CASE HasRoom(T, b)
      BY <3>1, <3>2 DEF Granted
    <3>3. CASE ~ HasRoom(T, b)
      BY <1>1, <2>4, <3>1, <3>3, JustShort
    <3> QED
      BY <3>2, <3>3
  <2> QED
    BY <2>1, <2>2, <2>3, <2>5
<1>2. IInv => PreviewAgrees
  BY <1>1, Zenon DEF PreviewAgrees
<1> QED
  BY <1>2, Invariance, PTL

\* What a card has left for others: at most what it last reported leaves of it, and
\* just that where no row claims any of it.
LEMMA LeftIs ==
  ASSUME IInv, NEW g \in Gpu
  PROVE  LET left == Total[g] - used[g] - RESERVE_MB IN
         /\ Fleet.capacity[g] <= (IF left > 0 THEN left ELSE 0)
         /\ Tenants(rows, g) = {} => Fleet.capacity[g] = IF left > 0 THEN left ELSE 0
<1>1. Claimed(rows, g) \in Nat
  BY ClaimedType DEF IInv
<1>2. used[g] \in Nat /\ Total[g] \in Nat /\ RESERVE_MB \in Nat
  <2>1. used[g] \in Nat
    BY AskAssumption DEF IInv, TypeOK
  <2> QED
    BY <2>1, FleetAssumption
<1>3. Fleet.capacity[g] = Available(rows, used, g)
  BY DEF Fleet, Capacities
<1>4. ASSUME Tenants(rows, g) = {}
      PROVE  Claimed(rows, g) = 0
  <2>1. Units(rows, g) = {}
    BY <1>4 DEF Units, Tenants
  <2> QED
    BY <2>1, FS_EmptySet DEF Claimed
<1> QED
  BY <1>1, <1>2, <1>3, <1>4 DEF Available

\* Of two groups of like cards, of which the second holds nothing, the first has no
\* more room.
LEMMA LessRoom ==
  ASSUME IInv, NEW G \in SUBSET Gpu, NEW H \in SUBSET Gpu,
         {<<Total[g], used[g]>> : g \in G} = {<<Total[g], used[g]>> : g \in H},
         \A g \in H : Tenants(rows, g) = {}, NEW h \in H
  PROVE  \E g \in G : Fleet.capacity[g] <= Fleet.capacity[h]
<1>1. <<Total[h], used[h]>> \in {<<Total[g], used[g]>> : g \in H}
  OBVIOUS
<1>2. <<Total[h], used[h]>> \in {<<Total[g], used[g]>> : g \in G}
  BY <1>1
<1>3. PICK g \in G : <<Total[g], used[g]>> = <<Total[h], used[h]>>
  BY <1>2
<1>4. Total[g] = Total[h] /\ used[g] = used[h]
  BY <1>3
<1>5. /\ Tenants(rows, h) = {} /\ g \in Gpu /\ h \in Gpu
  OBVIOUS
<1> QED
  BY <1>4, <1>5, LeftIs

\* The bonus decides between nodes that are alike but for the models on the group.
LEMMA SharedFirst ==
  ASSUME IInv, NEW f, AFleet(f), f.rows = rows, f.capacity = Fleet.capacity, NEW q, ADemand(q),
         NEW n \in Offered(f, q), NEW m \in Offered(f, q),
         Cardinality(Cards(n)) = Cardinality(Cards(m)),
         {<<Total[g], used[g]>> : g \in Group(f, q, n)} = {<<Total[g], used[g]>> : g \in Group(f, q, m)},
         CalledAligned(f, Group(f, q, n)) <=> CalledAligned(f, Group(f, q, m)),
         Sharing(f, Group(f, q, n)) > 0, Sharing(f, Group(f, q, m)) = 0
  PROVE  Score(f, q, n) < Score(f, q, m)
<1> DEFINE G == Group(f, q, n)
           H == Group(f, q, m)
           roomG == {f.capacity[g] : g \in G}
           roomH == {f.capacity[g] : g \in H}
           held == {Cardinality(Tenants(f.rows, g)) : g \in H}
           bonus == IF CalledAligned(f, G) THEN ALIGN_BONUS ELSE 0
<1>1. AFleet(f) /\ f.rows = rows /\ f.capacity = Fleet.capacity
  OBVIOUS
<1>2. /\ IsFiniteSet(roomG) /\ roomG # {} /\ roomG \subseteq Int
      /\ IsFiniteSet(roomH) /\ roomH # {} /\ roomH \subseteq Int
      /\ IsFiniteSet(held) /\ held # {} /\ held \subseteq Int
  <2>1. IsFiniteSet(roomG) /\ roomG # {} /\ roomG \subseteq Int
    BY <1>1, RoomAndHeld
  <2>2. /\ IsFiniteSet(roomH) /\ roomH # {} /\ roomH \subseteq Int
        /\ IsFiniteSet(held) /\ held # {} /\ held \subseteq Int
    BY <1>1, RoomAndHeld
  <2> QED
    BY <2>1, <2>2
<1>3. /\ n \in Node /\ m \in Node /\ G \in SUBSET Gpu /\ H \in SUBSET Gpu
      /\ \A g \in G : f.capacity[g] \in Nat
      /\ \A g \in H : f.capacity[g] \in Nat
  BY <1>1, GroupType
<1>4. Cardinality(G) = q.tp /\ Cardinality(H) = q.tp /\ q.tp \in Nat /\ q.need \in Nat
  <2>1. G \in Suitable(f, q, n) /\ H \in Suitable(f, q, m)
    BY <1>1, GroupIs
  <2> HIDE DEF G, H
  <2> QED
    BY <2>1 DEF Suitable, ADemand
<1>5. \A g \in H : Tenants(rows, g) = {}
  <2> SUFFICES ASSUME NEW g \in H PROVE Tenants(rows, g) = {}
    OBVIOUS
  <2>1. Cardinality(Tenants(rows, g)) \in held
    BY <1>1
  <2>2. Max(held) = 0
    BY DEF Sharing
  <2>3. \A x \in held : x <= Max(held)
    <3> HIDE DEF held
    <3> QED
      BY <1>2, MaxIs
  <2>4. IsFiniteSet(Tenants(rows, g))
    BY FS_Subset DEF Tenants, IInv
  <2>5. Cardinality(Tenants(rows, g)) <= 0 /\ Cardinality(Tenants(rows, g)) \in Nat
    BY <2>1, <2>2, <2>3, <2>4, FS_CardinalityType
  <2>6. Cardinality(Tenants(rows, g)) = 0
    BY <2>5
  <2> QED
    BY <2>4, <2>6, FS_EmptySet
<1>6. {<<Total[g], used[g]>> : g \in G} = {<<Total[g], used[g]>> : g \in H}
  OBVIOUS
<1>7. /\ Min(roomG) \in roomG /\ \A x \in roomG : Min(roomG) <= x
      /\ Min(roomH) \in roomH
  <2> HIDE DEF roomG, roomH
  <2> QED
    BY <1>2, MinIs
<1>8. Min(roomG) <= Min(roomH)
  <2> HIDE DEF G, H
  <2>1. PICK h \in H : Min(roomH) = f.capacity[h]
    BY <1>7
  <2>2. PICK g \in G : f.capacity[g] <= f.capacity[h]
    BY <1>1, <1>3, <1>5, <1>6, LessRoom
  <2>3. f.capacity[g] \in roomG
    OBVIOUS
  <2>4. Min(roomG) <= f.capacity[g]
    BY <1>7, <2>3
  <2>5. Min(roomG) \in Int /\ f.capacity[g] \in Int /\ f.capacity[h] \in Int
    BY <1>2, <1>3, <1>7
  <2> QED
    BY <2>1, <2>2, <2>4, <2>5
<1> DEFINE a == Min(roomG) - q.need
           b == Min(roomH) - q.need
           size == Cardinality(Cards(n))
<1>9. /\ Score(f, q, n) = a + HALF_GB * (size - q.tp) - SHARE_BONUS - bonus
      /\ Score(f, q, m) = b + HALF_GB * (size - q.tp) - 0 - bonus
  BY <1>4 DEF Score
<1>10. a \in Int /\ b \in Int /\ a <= b
  BY <1>2, <1>4, <1>7, <1>8
<1>11. size \in Nat /\ bonus \in Nat /\ SHARE_BONUS \in Nat \ {0} /\ HALF_GB \in Nat
  BY <1>3, RoomyIs, CardsType, PlacementAssumption
<1> HIDE DEF a, b, size, bonus
<1> DEFINE others == HALF_GB * (size - q.tp)
<1>12. others \in Int
  BY <1>4, <1>11
<1> HIDE DEF others
<1>13. /\ Score(f, q, n) = a + others - SHARE_BONUS - bonus
       /\ Score(f, q, m) = b + others - 0 - bonus
  BY <1>9 DEF others
<1> QED
  BY <1>10, <1>11, <1>12, <1>13

\* With a fleet as a session sees it, the groups of Placement are those of Choice.
LEMMA SuitableGroups ==
  ASSUME IInv, NEW q, ADemand(q), NEW n \in Node
  PROVE  LET view == [rows |-> rows, used |-> used, status |-> status]
         IN  Suitable(Fleet, q, n) = Groups(view, Model, q, n)
<1> DEFINE f == Fleet
           view == [rows |-> rows, used |-> used, status |-> status]
           C == Cards(n)
<1>1. OfOne(C) /\ IsFiniteSet(C) /\ C \subseteq Gpu
  BY RoomyIs, CardsType
<1>2. \A g \in C : f.capacity[g] = Available(view.rows, view.used, g)
  BY <1>1 DEF Fleet, Capacities
<1> HIDE DEF f, view
<1>3. Groups(view, Model, q, n) =
        {G \in SUBSET C : /\ Cardinality(G) = q.tp /\ \A g, h \in G : Model[g] = Model[h]
                          /\ \A g \in G : Available(view.rows, view.used, g) >= q.need}
  BY DEF Groups, Cards
<1>4. Suitable(f, q, n) =
        {G \in SUBSET C : /\ Cardinality(G) = q.tp /\ Cardinality({Model[g] : g \in G}) = 1
                          /\ \A g \in G : f.capacity[g] >= q.need}
  BY DEF Suitable, Roomy
<1> HIDE DEF C
<1>5. ASSUME NEW G \in SUBSET C, Cardinality(G) = q.tp
      PROVE  Cardinality({Model[g] : g \in G}) = 1 <=> \A g, h \in G : Model[g] = Model[h]
  <2>1. IsFiniteSet(G) /\ G # {}
    BY <1>1, <1>5, FS_Subset, FS_EmptySet DEF ADemand
  <2>2. PICK x \in G : TRUE
    BY <2>1
  <2>3. Cardinality({Model[g] : g \in G}) = 1 <=> \E m : {Model[g] : g \in G} = {m}
    BY <2>1, OneModel
  <2>4. ASSUME \A g, h \in G : Model[g] = Model[h]
        PROVE  {Model[g] : g \in G} = {Model[x]}
    BY <2>2, <2>4
  <2>5. ASSUME NEW m, {Model[g] : g \in G} = {m}, NEW g \in G
        PROVE  Model[g] = m
    BY <2>5
  <2> QED
    BY <2>3, <2>4, <2>5
<1>6. \A G \in SUBSET C : G \in Groups(view, Model, q, n) <=> G \in Suitable(f, q, n)
  BY <1>2, <1>3, <1>4, <1>5
<1> QED
  BY <1>3, <1>4, <1>6 DEF f, view

\* The choice of the planner, with its models, neighbours, scores and ties, is one
\* of those between which Allocation leaves it open: each replica has a group with
\* room on a node of its own, and there are as many as nodes can take.
THEOREM PicksSound == Spec => []PicksAllowed
<1>1. ASSUME IInv, NEW s \in Answerable, NEW k \in Fetched(cache, RepoOf(Ask[s])),
             Ask[s].replicas \in 1..MAX_REPLICAS,
             NEW T \in Resolved(Fleet, Demand(Ask[s], Body(Ask[s], k)))
      PROVE  IsPlacement([rows |-> rows, used |-> used, status |-> status], Model,
                         Demand(Ask[s], Body(Ask[s], k)), T)
  <2> DEFINE f == Fleet
             q == Demand(Ask[s], Body(Ask[s], k))
             view == [rows |-> rows, used |-> used, status |-> status]
  <2>1. AFleet(f) /\ f.status = status
    BY <1>1, FleetIs DEF IInv
  <2>2. ADemand(q) /\ q.replicas \in Nat \ {0}
    BY <1>1, DemandIs, AskAssumption DEF Answerable
  <2>3. \A n \in Node : Suitable(f, q, n) = Groups(view, Model, q, n)
    <3> HIDE DEF q
    <3> QED
      BY <1>1, <2>2, SuitableGroups
  <2>4. T \in Resolved(f, q) /\ view.status = status
    BY <1>1
  <2> HIDE DEF f, q, view
  <2>5. Offered(f, q) = {n \in q.within : f.status[n] = "online" /\ Suitable(f, q, n) # {}}
    BY <2>2, OfferedIs
  <2>6. Offered(f, q) = Candidates(view, Model, q)
    BY <2>1, <2>2, <2>3, <2>4, <2>5 DEF Candidates, ADemand
  <2>7. \A t \in T : \E n \in Offered(f, q) : t = [node |-> n, gpus |-> Group(f, q, n)]
    BY <2>1, <2>2, <2>4, ResolvedIs
  <2>8. ASSUME NEW n \in Offered(f, q)
        PROVE  Group(f, q, n) \in Groups(view, Model, q, n)
    <3>1. Group(f, q, n) \in Suitable(f, q, n)
      BY <2>1, <2>2, GroupIs
    <3>2. n \in Node
      BY <2>2 DEF Offered, ADemand
    <3> QED
      BY <2>3, <3>1, <3>2
  <2>9. \A t \in T : /\ t.node \in Candidates(view, Model, q)
                     /\ t.gpus \in Groups(view, Model, q, t.node)
    BY <2>6, <2>7, <2>8
  <2>10. \A t, u \in T : t.node = u.node => t = u
    BY <2>7
  <2>11. \/ Cardinality(T) = q.replicas
         \/ Cardinality(T) < q.replicas /\ \A n \in Offered(f, q) : \E t \in T : t.node = n
    BY <2>1, <2>2, <2>4, ResolvedIs
  <2>12. IsPlacement(view, Model, q, T)
    BY <2>6, <2>9, <2>10, <2>11 DEF IsPlacement
  <2> QED
    BY <2>12 DEF q, view
<1>2. IInv => PicksAllowed
  BY <1>1 DEF PicksAllowed, Bodies
<1> QED
  BY <1>2, Invariance, PTL

\* Packing comes before opening another card, whatever sizes the cards have and
\* whatever is placed on them: the bonus for a shared group is never outweighed by
\* the room that its models have taken from it, between groups that are both called
\* aligned, rightly or not, or both not (the score of plan).
THEOREM SharingPreferred == Spec => []PacksFirst
<1>1. IInv => PacksFirst
  <2> SUFFICES ASSUME IInv, NEW s \in Answerable, NEW b \in Bodies(s)
               PROVE  LET f       == Fleet
                          q       == Demand(Ask[s], b)
                          Kind(n) == {<<Total[g], used[g]>> : g \in Group(f, q, n)}
                          Bonus(n) == CalledAligned(f, Group(f, q, n))
                          shared  == {n \in Offered(f, q) : Sharing(f, Group(f, q, n)) > 0}
                          unused  == {n \in Offered(f, q) : Sharing(f, Group(f, q, n)) = 0}
                      IN  \A n \in shared, m \in unused :
                            /\ Cardinality(Cards(n)) = Cardinality(Cards(m)) /\ Kind(n) = Kind(m)
                            /\ Bonus(n) <=> Bonus(m)
                            => Score(f, q, n) < Score(f, q, m)
    BY Zenon DEF PacksFirst
  <2> DEFINE f == Fleet
             q == Demand(Ask[s], b)
  <2>1. PICK k \in Fetched(cache, RepoOf(Ask[s])) : b = Body(Ask[s], k)
    BY DEF Bodies
  <2>2. ADemand(q)
    BY <2>1, DemandIs DEF Answerable
  <2>3. AFleet(f) /\ f.rows = rows /\ f.capacity = Fleet.capacity
    BY FleetIs DEF IInv, Fleet
  <2> HIDE DEF f, q
  <2>4. ASSUME NEW n \in Offered(f, q), NEW m \in Offered(f, q),
               Cardinality(Cards(n)) = Cardinality(Cards(m)),
               {<<Total[g], used[g]>> : g \in Group(f, q, n)}
                 = {<<Total[g], used[g]>> : g \in Group(f, q, m)},
               CalledAligned(f, Group(f, q, n)) <=> CalledAligned(f, Group(f, q, m)),
               Sharing(f, Group(f, q, n)) > 0, Sharing(f, Group(f, q, m)) = 0
        PROVE  Score(f, q, n) < Score(f, q, m)
    BY <2>2, <2>3, <2>4, SharedFirst
  <2> QED
    BY <2>4, Zenon DEF f, q
<1> QED
  BY <1>1, Invariance, PTL

-----------------------------------------------------------------------------
(* Room: what was granted fits the cards, and so do the shares of the engines. *)

\* No card is claimed beyond its memory less the headroom, or by more rows than the
\* bound on creates allows.
RoomInv ==
  /\ Fits(rows)
  /\ \A g \in Gpu : Cardinality(Tenants(rows, g)) <= MaxRows + 1

\* The rows a create writes are on cards that have room, each on a node of its own.
LEMMA NewRowsRoom ==
  ASSUME IInv, NEW s \in Session, Known(Ask[s]), Named1(Ask[s]), NEW k,
         NEW T \in Resolved(Fleet, Demand(Ask[s], Body(Ask[s], k))),
         Ask[s].replicas \in Nat \ {0}, HasRoom(T, Body(Ask[s], k))
  PROVE  LET N == NewRows(s, Body(Ask[s], k), T) IN
         /\ \A d \in N : \A g \in d.gpus : Available(rows, used, g) >= d.mb
         /\ \A d, e \in N : d.gpus \cap e.gpus # {} => d = e
<1> DEFINE b == Body(Ask[s], k)
           q == Demand(Ask[s], b)
           f == Fleet
           need == Claim(b)
           port(t) == CHOOSE p \in Port : IsNextPort(rows, t.node, p)
           row(t) == [by |-> s, node |-> t.node, gpus |-> t.gpus, mb |-> need, port |-> port(t)]
           N == NewRows(s, b, T)
<1>1. AFleet(f) /\ f.capacity = Capacities(rows, used)
  BY FleetIs DEF IInv, Fleet
<1>2. ADemand(q) /\ q.replicas \in Nat \ {0}
  BY DemandIs
<1>0. \A t \in T : \A g \in t.gpus : f.capacity[g] >= need
  BY DEF HasRoom
<1>3. N = {row(t) : t \in T}
  BY DEF NewRows
<1>4. T \in Resolved(f, q)
  OBVIOUS
<1> HIDE DEF b, f, need, port, q
<1>5. \A t \in T : \E n \in Offered(f, q) : t = [node |-> n, gpus |-> Group(f, q, n)]
  BY <1>1, <1>2, <1>4, ResolvedIs
<1>6. ASSUME NEW n \in Offered(f, q), NEW g \in Group(f, q, n)
      PROVE  g \in Gpu /\ NodeOf[g] = n
  <2>1. g \in Gpu
    BY <1>1, <1>2, GroupType
  <2>2. Group(f, q, n) \in Suitable(f, q, n)
    BY <1>1, <1>2, GroupIs
  <2>3. g \in Cards(n)
    BY <2>2 DEF Suitable, Roomy
  <2> QED
    BY <2>1, <2>3 DEF Cards
<1>7. ASSUME NEW t \in T, NEW g \in t.gpus
      PROVE  NodeOf[g] = t.node /\ Available(rows, used, g) >= need
  <2>1. PICK n \in Offered(f, q) : t = [node |-> n, gpus |-> Group(f, q, n)]
    BY <1>5
  <2>2. t.node = n /\ g \in Group(f, q, n)
    BY <2>1
  <2>3. g \in Gpu /\ f.capacity[g] >= need
    BY <1>0, <1>6, <2>2
  <2> QED
    BY <1>1, <1>6, <2>2, <2>3 DEF Capacities
<1>8. \A t, u \in T : t.node = u.node => t = u
  BY <1>5
<1>9. \A d \in N : \A g \in d.gpus : Available(rows, used, g) >= d.mb
  BY <1>3, <1>7
<1>10. \A d, e \in N : d.gpus \cap e.gpus # {} => d = e
  <2> SUFFICES ASSUME NEW t \in T, NEW u \in T, t.gpus \cap u.gpus # {}
               PROVE  row(t) = row(u)
    BY <1>3
  <2>1. PICK g \in t.gpus \cap u.gpus : TRUE
    OBVIOUS
  <2> QED
    BY <1>7, <1>8, <2>1
<1> HIDE DEF N
<1> QED
  BY <1>9, <1>10 DEF N, b

\* A row is granted some memory, for the overhead is not nothing.
LEMMA RowsHoldSome ==
  ASSUME OVERHEAD >= TICKS, IInv, NEW d \in rows
  PROVE  d.mb \in Nat \ {0}
<1>1. /\ Known(Ask[d.by]) /\ Named1(Ask[d.by]) /\ d.by \in Session
      /\ d.mb = Claim(Body(Ask[d.by], sized[d.by]))
  BY DEF IInv, TypeOK, Row, AsAsked
<1>2. ABody(Body(Ask[d.by], sized[d.by]))
  BY <1>1, AskIs
<1> QED
  BY <1>1, <1>2, NeedsSome

\* Rows that are each measured against what is there, and share no card, fit.
LEMMA FitsTogether ==
  ASSUME NEW S, IsFiniteSet(S), Fits(S), NEW N, N \subseteq Row, NEW usage \in [Gpu -> Nat],
         \A d \in N : d.mb > 0 /\ \A g \in d.gpus : Available(S, usage, g) >= d.mb,
         \A d, e \in N : d.gpus \cap e.gpus # {} => d = e
  PROVE  Fits(S \cup N)
<1> SUFFICES ASSUME NEW g \in Gpu PROVE CardFits(S \cup N, g)
  BY DEF Fits
<1>1. CASE \A d \in N : g \notin d.gpus
  <2>1. Units(S \cup N, g) = Units(S, g)
    BY <1>1 DEF Units
  <2> QED
    BY <2>1 DEF Fits, CardFits, Claimed
<1>2. CASE \E d \in N : g \in d.gpus
  <2>1. PICK d \in N : g \in d.gpus
    BY <1>2
  <2>2. \A e \in N : g \in e.gpus => e = d
    BY <2>1
  <2>3. Units(S \cup N, g) = Units(S \cup {d}, g)
    BY <2>2 DEF Units
  <2>4. Fits(S \cup {d})
    BY FitsAdd
  <2> QED
    BY <2>3, <2>4 DEF Fits, CardFits, Claimed
<1> QED
  BY <1>1, <1>2

\* A create adds at most one row to a card.
LEMMA RoomCreate ==
  ASSUME OVERHEAD >= TICKS, IInv, RoomInv, NEW s \in Session, Create(s)
  PROVE  RoomInv'
<1> DEFINE a == Ask[s]
<1>1. Known(a) /\ Named1(a) /\ Cardinality(rows) <= MaxRows
  BY DEF Create
<1>2. CASE UNCHANGED rows
  BY <1>2 DEF RoomInv, Fits, CardFits
<1>3. ASSUME NEW k, Refusal(a, Body(a, k)) = "none",
             NEW T \in Resolved(Fleet, Demand(a, Body(a, k))), Granted(T, Body(a, k)),
             rows' = rows \cup NewRows(s, Body(a, k), T)
      PROVE  RoomInv'
  <2> DEFINE N == NewRows(s, Body(a, k), T)
  <2>1. a.replicas \in Nat \ {0}
    <3>1. a.replicas \in 1..MAX_REPLICAS
      BY <1>3 DEF Refusal
    <3> QED
      BY <3>1, AskAssumption
  <2>2. /\ \A d \in N : \A g \in d.gpus : Available(rows, used, g) >= d.mb
        /\ \A d, e \in N : d.gpus \cap e.gpus # {} => d = e
    BY <1>1, <1>3, <2>1, NewRowsRoom DEF Granted
  <2>3. N \subseteq Row /\ \A d \in N : d.mb = Claim(Body(a, k))
    <3>1. /\ N \subseteq Row /\ IsFiniteSet(N)
          /\ \A d \in N : d.by = s /\ d.mb = Claim(Body(a, k))
      BY <1>1, <1>3, <2>1, NewRowsType, Zenon
    <3> QED
      BY <3>1
  <2> HIDE DEF N
  <2>4. rows' = rows \cup N
    BY <1>3 DEF N
  <2>5. N \subseteq Row /\ \A d \in N : d.mb > 0
    <3>1. ABody(Body(a, k))
      BY <1>1, AskIs
    <3>2. Claim(Body(a, k)) \in Nat \ {0}
      BY <3>1, NeedsSome
    <3> QED
      BY <2>3, <3>2
  <2>6. IsFiniteSet(rows) /\ used \in [Gpu -> Nat] /\ Fits(rows)
    <3>1. used \in [Gpu -> UsageReading] /\ UsageReading \subseteq Nat
      BY AskAssumption DEF IInv, TypeOK
    <3> QED
      BY <3>1 DEF IInv, RoomInv
  <2>7. Fits(rows \cup N)
    BY <2>2, <2>5, <2>6, FitsTogether
  <2>8. ASSUME NEW g \in Gpu
        PROVE  Cardinality(Tenants(rows \cup N, g)) <= MaxRows + 1
    <3>1. \E d : Tenants(rows \cup N, g) \subseteq rows \cup {d}
      BY <2>2 DEF Tenants
    <3>2. PICK d : Tenants(rows \cup N, g) \subseteq rows \cup {d}
      BY <3>1
    <3>3. IsFiniteSet(rows \cup {d}) /\ Cardinality(rows \cup {d}) <= Cardinality(rows) + 1
      <4>1. Cardinality(rows) \in Nat
        BY <2>6, FS_CardinalityType
      <4>2. /\ IsFiniteSet(rows \cup {d})
            /\ Cardinality(rows \cup {d})
                 = IF d \in rows THEN Cardinality(rows) ELSE Cardinality(rows) + 1
        BY <2>6, FS_AddElement
      <4> QED
        BY <4>1, <4>2
    <3>4. /\ Cardinality(Tenants(rows \cup N, g)) \in Nat
          /\ Cardinality(Tenants(rows \cup N, g)) <= Cardinality(rows \cup {d})
      BY <3>2, <3>3, FS_Subset, FS_CardinalityType
    <3>5. Cardinality(rows) \in Nat /\ Cardinality(rows \cup {d}) \in Nat /\ MaxRows \in Nat
      BY <2>6, <3>3, FS_CardinalityType, AskAssumption
    <3> QED
      BY <1>1, <3>3, <3>4, <3>5
  <2> QED
    BY <2>4, <2>7, <2>8 DEF RoomInv, Fits, CardFits
<1> QED
  BY <1>2, <1>3 DEF Create

\* Every other step only takes rows away, or leaves them as they are.
LEMMA RoomStep ==
  ASSUME OVERHEAD >= TICKS, IInv, RoomInv, [Next]_vars
  PROVE  RoomInv'
<1>1. ASSUME rows' \subseteq rows PROVE RoomInv'
  <2>1. Fits(rows')
    BY <1>1, FitsSubset DEF IInv, RoomInv
  <2>2. ASSUME NEW g \in Gpu PROVE Cardinality(Tenants(rows', g)) <= MaxRows + 1
    <3>1. IsFiniteSet(Tenants(rows, g)) /\ Tenants(rows', g) \subseteq Tenants(rows, g)
      BY <1>1, FS_Subset DEF IInv, Tenants
    <3>2. /\ Cardinality(Tenants(rows', g)) <= Cardinality(Tenants(rows, g))
          /\ Cardinality(Tenants(rows', g)) \in Nat /\ Cardinality(Tenants(rows, g)) \in Nat
      BY <3>1, FS_Subset, FS_CardinalityType
    <3> QED
      BY <3>2, AskAssumption DEF RoomInv
  <2> QED
    BY <2>1, <2>2 DEF RoomInv, Fits, CardFits
<1>2. ASSUME NEW s \in Session, Plan(s) PROVE RoomInv'
  BY <1>1, <1>2 DEF Plan
<1>3. ASSUME NEW d \in rows, Stop(d) PROVE RoomInv'
  BY <1>1, <1>3 DEF Stop
<1>4. ASSUME NEW g \in Polled, Report(g) PROVE RoomInv'
  BY <1>1, <1>4 DEF Report
<1>5. ASSUME NEW n \in Drainable, Drain(n) PROVE RoomInv'
  BY <1>1, <1>5 DEF Drain
<1>6. ASSUME NEW r \in Repo, Expire(r) PROVE RoomInv'
  BY <1>1, <1>6 DEF Expire
<1>7. CASE UNCHANGED vars
  BY <1>1, <1>7 DEF vars
<1> QED
  BY <1>2, <1>3, <1>4, <1>5, <1>6, <1>7, RoomCreate DEF Next

LEMMA RoomInit == Init => RoomInv
<1> SUFFICES ASSUME Init PROVE RoomInv
  OBVIOUS
<1>1. \A g \in Gpu : Units(rows, g) = {} /\ Tenants(rows, g) = {}
  BY DEF Init, Units, Tenants
<1>2. \A g \in Gpu : Claimed(rows, g) = 0 /\ Cardinality(Tenants(rows, g)) = 0
  BY <1>1, FS_EmptySet DEF Claimed
<1> QED
  BY <1>2, AskAssumption DEF RoomInv, Fits, CardFits

\* Creates never overcommit a card, however the requirement was come by: what was
\* granted on it leaves the headroom free (plan and _reserve).
THEOREM RoomKept ==
  ASSUME OVERHEAD >= TICKS
  PROVE  Spec => [] Fits(rows)
<1>1. Init => RoomInv
  BY RoomInit
<1>2. IInv /\ RoomInv /\ [Next]_vars => RoomInv'
  BY RoomStep
<1>3. RoomInv => Fits(rows)
  BY DEF RoomInv
<1> QED
  BY <1>1, <1>2, <1>3, Invariance, PTL DEF Spec

\* Rounding to a thousandth adds at most half of one, and measuring against a
\* larger card of the group makes a share smaller.
LEMMA ShareIs ==
  ASSUME NEW d \in Row, NEW g \in d.gpus, Ask[d.by].share = 0, Total[g] > 0
  PROVE  /\ EngineShare(d) \in Nat
         /\ 2 * (Total[g] * EngineShare(d)) <= 2000 * d.mb + Total[g]
<1> DEFINE sizes == {Total[h] : h \in d.gpus}
           L == Max(sizes)
           T == Total[g]
           x == 2000 * d.mb + L
           e == x \div (2 * L)
<1>1. d.gpus \subseteq Gpu /\ g \in Gpu /\ d.mb \in Nat
  BY FleetAssumption DEF Row
<1>2. sizes \subseteq Nat /\ T \in sizes
  BY <1>1, FleetAssumption
<1>3. IsFiniteSet(sizes)
  <2>1. IsFiniteSet(d.gpus)
    BY <1>1, PlacementAssumption, FS_Subset
  <2> DEFINE f == [h \in d.gpus |-> Total[h]]
  <2>2. f \in Surjection(d.gpus, sizes)
    BY DEF Surjection
  <2> HIDE DEF f, sizes
  <2> QED
    BY <2>1, <2>2, FS_Surjection
<1> HIDE DEF sizes
<1>4. L \in Nat /\ T \in Nat /\ T <= L /\ L > 0
  <2>1. sizes # {} /\ sizes \subseteq Int
    BY <1>2
  <2>2. L \in sizes /\ \A y \in sizes : y <= L
    BY <1>3, <2>1, MaxIs
  <2>3. T > 0
    OBVIOUS
  <2> HIDE DEF L, T
  <2>4. L \in Nat /\ T \in Nat /\ T <= L
    BY <1>2, <2>2
  <2> QED
    BY <2>3, <2>4
<1>5. EngineShare(d) = e
  <2>1. EngineShare(d) = IF Ask[d.by].share # 0 THEN Ask[d.by].share
                         ELSE IF L = 0 THEN 900 ELSE e
    BY Zenon DEF EngineShare, sizes
  <2> HIDE DEF L
  <2> QED
    BY <1>4, <2>1
<1> HIDE DEF L, T
<1>6. x \in Nat /\ 2 * L \in Nat \ {0}
  BY <1>1, <1>4
<1>7. e \in Nat /\ (2 * L) * e <= x
  BY <1>6, Quotient
<1> HIDE DEF e
<1>8. 2 * (T * e) <= 2000 * d.mb + T
  <2>1. CASE e = 0
    BY <1>1, <1>4, <2>1
  <2>2. CASE e > 0
    <3>1. e - 1 \in Nat /\ 2 * e - 1 \in Nat
      BY <1>7, <2>2
    <3>2. T * (2 * e - 1) <= L * (2 * e - 1)
      BY <1>4, <3>1
    <3>3. T * (2 * e - 1) = 2 * (T * e) - T
      BY <1>4, <1>7
    <3>4. L * (2 * e - 1) = (2 * L) * e - L
      BY <1>4, <1>7
    <3>5. T * e \in Nat /\ (2 * L) * e \in Nat
      BY <1>4, <1>6, <1>7, Product
    <3> QED
      BY <1>1, <1>4, <1>7, <3>2, <3>3, <3>4, <3>5
  <2> QED
    BY <1>7, <2>1, <2>2
<1> QED
  BY <1>5, <1>7, <1>8 DEF T

\* One more engine takes its share at most.
LEMMA ThousandthsAdd ==
  ASSUME NEW A, NEW d \in A, EngineShare(d) \in Nat, IsFiniteSet(Thousandths(A \ {d}))
  PROVE  /\ IsFiniteSet(Thousandths(A)) /\ Cardinality(Thousandths(A)) \in Nat
         /\ Cardinality(Thousandths(A \ {d})) \in Nat
         /\ Cardinality(Thousandths(A)) <= Cardinality(Thousandths(A \ {d})) + EngineShare(d)
<1> DEFINE own == {d} \X (1..EngineShare(d))
           rest == Thousandths(A \ {d})
           p == Cardinality(Thousandths(A))
           q == Cardinality(rest)
<1>1. Thousandths(A) = rest \cup own
  BY DEF Thousandths
<1>2. IsFiniteSet(own) /\ Cardinality(own) = EngineShare(d)
  BY LabelledSize
<1>3. IsFiniteSet(rest)
  OBVIOUS
<1> HIDE DEF own, rest
<1>4. IsFiniteSet(rest \cap own)
  BY <1>3, FS_Intersection
<1>5. Cardinality(rest \cap own) \in Nat /\ q \in Nat
  BY <1>3, <1>4, FS_CardinalityType
<1>6. /\ IsFiniteSet(Thousandths(A))
      /\ p = q + Cardinality(own) - Cardinality(rest \cap own)
  BY <1>1, <1>2, <1>3, FS_Union
<1>7. p \in Nat
  BY <1>6, FS_CardinalityType
<1> HIDE DEF p, q
<1>8. p <= q + EngineShare(d)
  BY <1>2, <1>5, <1>6, <1>7
<1> QED
  BY <1>5, <1>6, <1>7, <1>8 DEF p, q, rest

\* One more engine on a card, of those of which each claims memory of its own.
LEMMA OneMoreShare ==
  ASSUME NEW g \in Gpu, Total[g] > 0, NEW A, IsFiniteSet(A), NEW d \in A, d \in Row,
         g \in d.gpus, d.mb > 0, Ask[d.by].share = 0,
         IsFiniteSet(Thousandths(A \ {d})),
         2 * (Total[g] * Cardinality(Thousandths(A \ {d})))
           <= 2000 * Claimed(A \ {d}, g) + Cardinality(A \ {d}) * Total[g]
  PROVE  /\ IsFiniteSet(Thousandths(A))
         /\ 2 * (Total[g] * Cardinality(Thousandths(A)))
              <= 2000 * Claimed(A, g) + Cardinality(A) * Total[g]
<1> DEFINE T == Total[g]
           B == A \ {d}
           e == EngineShare(d)
           p == Cardinality(Thousandths(A))
           q == Cardinality(Thousandths(B))
           n == Cardinality(B)
<1>1. T \in Nat /\ d.mb \in 0..MaxMb /\ d.mb \in Nat
  BY FleetAssumption DEF Row
<1>2. 2 * (T * e) <= 2000 * d.mb + T
  BY ShareIs
<1>3. e \in Nat
  BY ShareIs
<1>4. Claimed(A, g) >= Claimed(B, g) + d.mb
  BY <1>1, ClaimedRemove DEF Share
<1>5. IsFiniteSet(B) /\ n \in Nat /\ Cardinality(A) = n + 1
  <2>1. IsFiniteSet(B) /\ Cardinality(B) = IF d \in A THEN Cardinality(A) - 1 ELSE Cardinality(A)
    BY FS_RemoveElement, SMTT(60)
  <2>2. Cardinality(A) \in Nat
    BY FS_CardinalityType
  <2>3. n \in Nat
    BY <2>1, FS_CardinalityType
  <2> HIDE DEF B
  <2> QED
    BY <2>1, <2>2, <2>3
<1>6. Claimed(A, g) \in Nat /\ Claimed(B, g) \in Nat
  BY <1>5, ClaimedType
<1>7. /\ IsFiniteSet(Thousandths(A)) /\ p \in Nat /\ q \in Nat
      /\ p <= q + e
  BY <1>3, ThousandthsAdd
<1>8. 2 * (T * q) <= 2000 * Claimed(B, g) + n * T
  OBVIOUS
<1> HIDE DEF B, e, n, p, q, T
<1>9. T * p <= T * (q + e)
  BY <1>1, <1>3, <1>7
<1>10. T * (q + e) = T * q + T * e /\ (n + 1) * T = n * T + T
  BY <1>1, <1>3, <1>5, <1>7
<1>11. {T * p, T * q, T * e, n * T} \subseteq Nat
  BY <1>1, <1>3, <1>5, <1>7, Product
<1>12. 2 * (T * p) <= 2000 * Claimed(A, g) + (n + 1) * T
  BY <1>1, <1>2, <1>4, <1>6, <1>8, <1>9, <1>10, <1>11
<1> QED
  BY <1>5, <1>7, <1>12 DEF T, p

\* The engines on a card take its memory in thousandths, but for half of one each.
LEMMA SharesAddUp ==
  ASSUME NEW g \in Gpu, Total[g] > 0, NEW S, IsFiniteSet(S), S \subseteq Row,
         \A d \in S : g \in d.gpus /\ d.mb > 0 /\ Ask[d.by].share = 0
  PROVE  /\ Cardinality(Thousandths(S)) \in Nat
         /\ 2 * (Total[g] * Cardinality(Thousandths(S)))
              <= 2000 * Claimed(S, g) + Cardinality(S) * Total[g]
<1> DEFINE Good(A) == /\ IsFiniteSet(Thousandths(A))
                      /\ 2 * (Total[g] * Cardinality(Thousandths(A)))
                           <= 2000 * Claimed(A, g) + Cardinality(A) * Total[g]
           F == {A \in SUBSET S : ~ Good(A)}
<1>1. ASSUME F # {} PROVE FALSE
  <2>1. PICK A \in F : \A B \in F : ~ (B \subseteq A /\ B # A)
    <3> HIDE DEF F
    <3>1. F \subseteq SUBSET S
      BY DEF F
    <3> QED
      BY <1>1, <3>1, Minimal
  <2>2. A \subseteq S /\ ~ Good(A)
    OBVIOUS
  <2>3. A # {}
    <3> SUFFICES ASSUME A = {} PROVE Good({})
      BY <2>2
    <3>1. Thousandths({}) = {} /\ Units({}, g) = {} /\ Claimed({}, g) = Cardinality(Units({}, g))
      BY DEF Thousandths, Units, Claimed
    <3>2. IsFiniteSet({}) /\ Cardinality({}) = 0
      BY FS_EmptySet
    <3>3. Total[g] \in Nat
      BY FleetAssumption
    <3>6. Claimed({}, g) = 0
      BY <3>1, <3>2
    <3>4. IsFiniteSet(Thousandths({})) /\ Cardinality(Thousandths({})) = 0
      BY <3>1, <3>2
    <3>5. 2 * (Total[g] * 0) <= 2000 * 0 + 0 * Total[g]
      BY <3>3
    <3> QED
      BY <3>2, <3>4, <3>5, <3>6
  <2>4. PICK d \in A : TRUE
    BY <2>3
  <2>5. Good(A \ {d})
    <3>1. A \ {d} \in SUBSET S /\ A \ {d} \subseteq A /\ A \ {d} # A
      BY <2>2, <2>4
    <3> QED
      BY <2>1, <3>1
  <2>6. d \in Row /\ g \in d.gpus /\ d.mb > 0 /\ Ask[d.by].share = 0 /\ IsFiniteSet(A)
    BY <2>2, FS_Subset
  <2> QED
    BY <2>2, <2>5, <2>6, OneMoreShare
<1>2. Good(S)
  BY <1>1
<1> QED
  BY <1>2, FS_CardinalityType

\* Every engine that was left its share to dgxctl can start beside the others, as
\* long as the headroom of a card is more than what is lost in rounding to a
\* thousandth: half of one for each engine on it (_reserve).
THEOREM SharesFit ==
  ASSUME OVERHEAD >= TICKS,
         \A g \in Gpu : (MaxRows + 1) * Total[g] <= 2000 * RESERVE_MB
  PROVE  Spec => []EnginesFit
<1>1. ASSUME IInv, RoomInv, NEW g \in Gpu, \A d \in Tenants(rows, g) : ShareDerived(d)
      PROVE  Cardinality(Thousandths(Tenants(rows, g))) <= 1000
  <2> DEFINE S == Tenants(rows, g)
             p == Cardinality(Thousandths(S))
             n == Cardinality(S)
             c == Claimed(S, g)
             T == Total[g]
  <2>1. IsFiniteSet(S) /\ S \subseteq rows /\ S \subseteq Row
    <3>1. S \subseteq rows /\ rows \subseteq Row /\ IsFiniteSet(rows)
      BY <1>1 DEF IInv, TypeOK, Tenants
    <3> HIDE DEF S
    <3> QED
      BY <3>1, FS_Subset
  <2>2. \A d \in S : g \in d.gpus /\ d.mb > 0 /\ Ask[d.by].share = 0
    <3> SUFFICES ASSUME NEW d \in S PROVE g \in d.gpus /\ d.mb > 0 /\ Ask[d.by].share = 0
      OBVIOUS
    <3>1. d \in rows /\ g \in d.gpus /\ Ask[d.by].share = 0
      BY <1>1 DEF Tenants, ShareDerived
    <3>2. d.mb \in Nat \ {0}
      BY <1>1, <3>1, RowsHoldSome
    <3> QED
      BY <3>1, <3>2
  <2>3. c = Claimed(rows, g) /\ c \in Nat
    <3>1. Units(S, g) = Units(rows, g)
      BY DEF Units, Tenants
    <3> QED
      BY <2>1, <3>1, ClaimedType DEF Claimed
  <2>4. c > 0 => c + RESERVE_MB <= T
    BY <1>1, <2>3 DEF RoomInv, Fits, CardFits
  <2>5. T \in Nat /\ RESERVE_MB \in Nat /\ MaxRows \in Nat
    BY FleetAssumption, AskAssumption
  <2>6. n \in Nat /\ n <= MaxRows + 1
    BY <1>1, <2>1, FS_CardinalityType DEF RoomInv
  <2>7. CASE S = {}
    <3>1. Thousandths({}) = {}
      BY DEF Thousandths
    <3> QED
      BY <2>7, <3>1, FS_EmptySet
  <2>8. CASE S # {}
    <3>1. PICK d \in S : TRUE
      BY <2>8
    <3>2. c > 0
      <4>1. d.mb \in 0..MaxMb /\ d.mb > 0 /\ g \in d.gpus
        BY <2>1, <2>2 DEF Row
      <4>2. c >= Claimed(S \ {d}, g) + d.mb
        BY <2>1, <4>1, ClaimedRemove DEF Share
      <4>3. Claimed(S \ {d}, g) \in Nat /\ d.mb \in Nat
        <5>1. IsFiniteSet(S \ {d})
          BY <2>1, FS_RemoveElement
        <5>2. Claimed(S \ {d}, g) \in Nat
          BY <5>1, ClaimedType
        <5> QED
          BY <4>1, <5>2, FleetAssumption
      <4> QED
        BY <2>3, <4>1, <4>2, <4>3
    <3>3. T > 0
      BY <2>3, <2>4, <2>5, <3>2
    <3>4. p \in Nat /\ 2 * (T * p) <= 2000 * c + n * T
      BY <2>1, <2>2, <3>3, SharesAddUp
    <3>5. (MaxRows + 1) * T <= 2000 * RESERVE_MB
      OBVIOUS
    <3> HIDE DEF S, p, n, c, T
    <3>6. n * T <= (MaxRows + 1) * T
      BY <2>5, <2>6
    <3>7. n * T \in Nat /\ T * p \in Nat /\ (MaxRows + 1) * T \in Nat
      BY <2>5, <2>6, <3>4, Product
    <3>8. T * p <= T * 1000
      BY <2>3, <2>4, <2>5, <3>2, <3>4, <3>5, <3>6, <3>7
    <3>9. p <= 1000
      BY <2>5, <3>3, <3>4, <3>8
    <3> QED
      BY <3>9 DEF p, S
  <2> QED
    BY <2>7, <2>8
<1>2. Init => RoomInv
  BY RoomInit
<1>3. IInv /\ RoomInv /\ [Next]_vars => RoomInv'
  BY RoomStep
<1>4. IInv /\ RoomInv => EnginesFit
  BY <1>1 DEF EnginesFit
<1> QED
  BY <1>2, <1>3, <1>4, Invariance, PTL DEF Spec

-----------------------------------------------------------------------------
(* Advice: each change divides what it is about, and the rounding of the     *)
(* estimate that the advice was worked out from costs a tenth of a GB.       *)

\* Rounding goes to the nearest multiple.
LEMMA RoundNear ==
  ASSUME NEW x \in Nat
  PROVE  \E q \in Nat : /\ Round(x) = TICKS * q /\ TICKS * q \in Nat
                        /\ 2 * x < 2 * (TICKS * q) + TICKS
                        /\ 2 * (TICKS * q) <= 2 * x + TICKS
<1> DEFINE y == 2 * x + TICKS
           d == 2 * TICKS
           q == y \div d
<1>1. TICKS \in Nat \ {0}
  BY SizingAssumption
<1>2. y \in Nat /\ d \in Nat \ {0}
  BY <1>1
<1>3. q \in Nat /\ d * q <= y /\ y < d * q + d
  BY <1>2, Quotient
<1>4. Round(x) = TICKS * q
  BY DEF Round
<1> HIDE DEF q
<1>5. d * q = 2 * (TICKS * q)
  BY <1>1, <1>3
<1>6. TICKS * q \in Nat
  BY <1>1, <1>3, Product
<1> QED
  BY <1>1, <1>3, <1>4, <1>5, <1>6

\* What is less than one and a half tenths above what is free is rounded to less than
\* two above it.
LEMMA RoundedBound ==
  ASSUME NEW x \in Nat, NEW free \in Nat, 2 * x < 2 * free + 3 * TICKS
  PROVE  Round(x) \in Nat /\ Round(x) < free + 2 * TICKS
<1>1. TICKS \in Nat \ {0}
  BY SizingAssumption
<1>2. PICK q \in Nat : /\ Round(x) = TICKS * q /\ TICKS * q \in Nat
                       /\ 2 * (TICKS * q) <= 2 * x + TICKS
  BY RoundNear
<1> DEFINE y == TICKS * q
<1>3. y \in Nat /\ 2 * y <= 2 * x + TICKS /\ Round(x) = y
  BY <1>2
<1> HIDE DEF y
<1> QED
  BY <1>1, <1>3

\* A total that is shared by b instead of a, but for what the quotients cut off.
LEMMA Divided ==
  ASSUME NEW X \in Nat, NEW d \in Nat \ {0}, NEW a \in Nat \ {0}, NEW b \in Nat \ {0}
  PROVE  b * (X \div (d * b)) < a * (X \div (d * a) + 1)
<1> DEFINE p == X \div (d * a)
           q == X \div (d * b)
<1>1. d * a \in Nat \ {0} /\ d * b \in Nat \ {0}
  BY PositiveProduct
<1>2. /\ p \in Nat /\ X < (d * a) * p + d * a
      /\ q \in Nat /\ (d * b) * q <= X
  BY <1>1, Quotient
<1> HIDE DEF p, q
<1>3. (d * a) * p + d * a = d * (a * (p + 1)) /\ (d * b) * q = d * (b * q)
  BY <1>2
<1>4. a * (p + 1) \in Nat /\ b * q \in Nat
  BY <1>2, Product
<1>5. ASSUME a * (p + 1) <= b * q PROVE FALSE
  <2>1. d * (a * (p + 1)) <= d * (b * q)
    BY <1>4, <1>5
  <2>2. d * (a * (p + 1)) \in Nat /\ d * (b * q) \in Nat
    BY <1>4, Product
  <2> QED
    BY <1>2, <1>3, <2>1, <2>2
<1> QED
  BY <1>4, <1>5 DEF p, q

\* k times the part of a total is no more than the total.
LEMMA PartOf ==
  ASSUME NEW x \in Nat, NEW y \in Nat, NEW d \in Nat \ {0}, NEW k \in Nat, k * y <= x
  PROVE  k * (y \div d) <= x \div d
<1> DEFINE q == y \div d
<1>1. q \in Nat /\ d * q <= y
  BY Quotient
<1> HIDE DEF q
<1>2. k * (d * q) <= k * y
  <2>1. d * q \in Nat
    BY <1>1, Product
  <2> QED
    BY <1>1, <2>1
<1>3. k * (d * q) = d * (k * q) /\ k * (d * q) \in Nat /\ k * y \in Nat /\ k * q \in Nat
  BY <1>1, Product
<1>4. d * (k * q) <= x
  BY <1>2, <1>3
<1> QED
  BY <1>3, <1>4, QuotientBound DEF q

\* The three conditions that advice is given under, of what is estimated: w and f are
\* weights and KV cache as they are, rw and least as they are rounded, w1 and f1 as
\* they become, and m what is free.
LEMMA WiderFits ==
  ASSUME NEW T \in Nat \ {0}, NEW O \in Nat, NEW w \in Nat, NEW f \in Nat, NEW w1 \in Nat,
         NEW f1 \in Nat, NEW least \in Nat, NEW m \in Nat, NEW M \in Nat,
         NEW tp \in Nat \ {0}, NEW k \in {2, 4, 8}, tp < k,
         k * w1 < tp * (w + 1), k * f1 < tp * (f + 1),
         2 * (w + f + O) < 2 * least + T, M >= least - O,
         M * tp + O * k <= m * k
  PROVE  2 * (w1 + f1 + O) < 2 * m + 3 * T
<1>1. 2 * (w + f) <= 2 * M + (T - 1)
  OBVIOUS
<1>2. tp * (2 * (w + f)) <= tp * (2 * M + (T - 1))
  <2> DEFINE a == 2 * (w + f)
             b == 2 * M + (T - 1)
  <2>1. a \in Nat /\ b \in Nat /\ a <= b
    BY <1>1
  <2> HIDE DEF a, b
  <2>2. tp * a <= tp * b
    BY <2>1
  <2> QED
    BY <2>2 DEF a, b
<1>3. /\ tp * (2 * (w + f)) = 2 * (tp * w) + 2 * (tp * f)
      /\ tp * (2 * M + (T - 1)) = 2 * (M * tp) + tp * (T - 1)
      /\ tp * (w + 1) = tp * w + tp /\ tp * (f + 1) = tp * f + tp
  OBVIOUS
<1>4. tp * (T - 1) <= (k - 1) * (T - 1)
  <2>1. tp <= k - 1 /\ T - 1 \in Nat /\ k - 1 \in Nat
    OBVIOUS
  <2> DEFINE a == T - 1
             b == k - 1
  <2> HIDE DEF a, b
  <2>2. tp * a <= b * a
    BY <2>1 DEF a, b
  <2> QED
    BY <2>2 DEF a, b
<1>5. {tp * w, tp * f, M * tp, tp * (T - 1)} \subseteq Nat
  BY Product
<1> DEFINE x == tp * w
           y == tp * f
           z == M * tp
           u == tp * (T - 1)
<1>6. /\ {x, y, z, u} \subseteq Nat
      /\ 2 * x + 2 * y <= 2 * z + u /\ u <= (k - 1) * (T - 1)
      /\ k * w1 < x + tp /\ k * f1 < y + tp /\ z + O * k <= m * k
  BY <1>2, <1>3, <1>4, <1>5
<1> HIDE DEF x, y, z, u
<1>7. CASE k = 2
  BY <1>6, <1>7
<1>8. CASE k = 4
  BY <1>6, <1>8
<1>9. CASE k = 8
  BY <1>6, <1>9
<1> QED
  BY <1>7, <1>8, <1>9

LEMMA ShorterFits ==
  ASSUME NEW T \in Nat \ {0}, NEW O \in Nat, NEW w \in Nat, NEW f \in Nat, NEW f1 \in Nat,
         NEW rw \in Nat, NEW least \in Nat, NEW kv \in Nat, NEW m \in Nat, NEW k \in {2, 4, 8},
         k * f1 <= f, 2 * w < 2 * rw + T, 2 * rw <= 2 * w + T,
         2 * (w + f + O) < 2 * least + T, kv >= least - rw - O,
         kv + (rw + O) * k <= m * k
  PROVE  2 * (w + f1 + O) < 2 * m + 3 * T
<1>1. CASE k = 2
  BY <1>1
<1>2. CASE k = 4
  BY <1>2
<1>3. CASE k = 8
  BY <1>3
<1> QED
  BY <1>1, <1>2, <1>3

LEMMA SmallerFits ==
  ASSUME NEW T \in Nat \ {0}, NEW O \in Nat, NEW w \in Nat, NEW f \in Nat, NEW w1 \in Nat,
         NEW rw \in Nat, NEW least \in Nat, NEW D \in Nat, NEW m \in Nat, NEW k \in {2, 4},
         k * w1 <= w, 2 * w < 2 * rw + T, 2 * rw <= 2 * w + T,
         2 * (w + f + O) < 2 * least + T, D >= least - rw,
         rw + D * k <= m * k
  PROVE  2 * (w1 + f + O) < 2 * m + 3 * T
<1>1. CASE k = 2
  BY <1>1
<1>2. CASE k = 4
  BY <1>2
<1> QED
  BY <1>1, <1>2

WeightsOf(b) == Weights(ParamsOf(b), WeightHalves(b.config, b.quant), b.tp)

OneSequence(b) == KvCache(b.config, EffectiveLen(b), 1, b.tp)

LEMMA MeasuredIs ==
  ASSUME NEW b, ABody(b), b.config # NoConfig
  PROVE  /\ WeightsOf(b) \in Nat /\ OneSequence(b) \in Nat /\ OVERHEAD \in Nat
         /\ Floor(b) = WeightsOf(b) + OneSequence(b) + OVERHEAD
         /\ Estimate(b).weights = Round(WeightsOf(b))
         /\ Estimate(b).minimum = Round(WeightsOf(b) + OneSequence(b) + OVERHEAD)
         /\ Estimate(b).tp = b.tp /\ Estimate(b).len = EffectiveLen(b)
         /\ EffectiveLen(b) \in Nat \ {0}
<1>1. b.config \in ModelConfig /\ b.tp \in Nat /\ b.len \in Nat /\ b.named.params \in Nat
  BY DEF ABody
<1>2. ParamsFromConfig(b.config) \in Nat /\ WeightHalves(b.config, b.quant) \in Nat
  BY <1>1, ParamsType, WeightHalvesType
<1>3. ParamsOf(b) \in Nat
  BY <1>1, <1>2 DEF ParamsOf, Or
<1>4. EffectiveLen(b) \in Nat \ {0}
  <2>1. b.config.ctx \in Nat /\ DEFAULT_LEN \in Nat \ {0}
    BY <1>1, SizingAssumption DEF ModelConfig
  <2> QED
    BY <1>1, <2>1 DEF EffectiveLen, Or
<1>5. WeightsOf(b) \in Nat
  BY <1>1, <1>2, <1>3, WeightsType DEF WeightsOf
<1>6. OneSequence(b) \in Nat
  BY <1>1, <1>4, KvCacheType DEF OneSequence
<1>7. /\ Estimate(b).weights = Round(WeightsOf(b))
      /\ Estimate(b).minimum = Round(WeightsOf(b) + OneSequence(b) + OVERHEAD)
      /\ Estimate(b).tp = b.tp /\ Estimate(b).len = EffectiveLen(b)
  BY DEF Estimate, MeasuredEstimate, WeightsOf, OneSequence
<1> QED
  BY <1>4, <1>5, <1>6, <1>7, SizingAssumption DEF Floor, WeightsOf, OneSequence

\* A body that has the fields that _resolve_model fills in, and no others.
Shaped(b) ==
  b = [config |-> b.config, named |-> b.named, tp |-> b.tp, len |-> b.len, seqs |-> b.seqs,
       quant |-> b.quant, catalog |-> b.catalog]

\* What is required of a body whose catalog figure fits.
LEMMA FittingBody ==
  ASSUME NEW b, ABody(b), b.config # NoConfig, NEW free \in Nat, b.catalog <= free,
         2 * (WeightsOf(b) + OneSequence(b) + OVERHEAD) < 2 * free + 3 * TICKS
  PROVE  Requirement(b) < free + 2 * TICKS
<1> DEFINE x == WeightsOf(b) + OneSequence(b) + OVERHEAD
<1>1. x \in Nat /\ Estimate(b).minimum = Round(x)
  BY MeasuredIs
<1> HIDE DEF x
<1>2. Round(x) \in Nat /\ Round(x) < free + 2 * TICKS
  BY <1>1, RoundedBound DEF x
<1>3. b.catalog \in Nat /\ TICKS \in Nat \ {0}
  BY SizingAssumption DEF ABody
<1>4. Requirement(b) = IF b.catalog >= Round(x) THEN b.catalog ELSE Round(x)
  BY <1>1, <1>2, <1>3, MaxOfTwo DEF Requirement
<1> QED
  BY <1>2, <1>3, <1>4

\* The errors that are found before a node is chosen; the other findings are
\* warnings.
Errors(b) ==
  LET c == b.config IN
  {k \in {Error("context")} : b.len # 0 /\ c.ctx # 0 /\ b.len > c.ctx}
    \cup {k \in {Error("heads")} : b.tp > 1 /\ c.heads # 0 /\ c.heads % b.tp # 0}
    \cup {k \in {Error("quantization")} : b.quant # "" /\ c.method # "" /\ b.quant # c.method}

LEMMA ChecksAre ==
  ASSUME NEW b, b.config # NoConfig
  PROVE  /\ Errors(b) \subseteq Checks(b, NoHardware)
         /\ Checks(b, NoHardware) \subseteq Errors(b) \cup {Warning("kv heads"), Warning("expensive")}
<1> DEFINE c       == b.config
           uneven  == b.tp > 1 /\ c.heads # 0 /\ c.heads % b.tp # 0
           kvHeads == Or(c.kv_heads, c.heads)
           floor   == KvCache(c, EffectiveLen(b), 1, b.tp)
           weights == Weights(ParamsOf(b), WeightHalves(c, b.quant), b.tp)
           p1 == b.len # 0 /\ c.ctx # 0 /\ b.len > c.ctx
           p2 == b.tp > 1 /\ kvHeads # 0 /\ kvHeads % b.tp # 0
           p3 == b.quant = "fp8" /\ NoHardware.model # "" /\ NoHardware.model \notin HOPPER
           p4 == b.quant # "" /\ c.method # "" /\ b.quant # c.method
           p5 == NoHardware.cards # 0 /\ b.tp > NoHardware.cards
           p6 == 4 * floor > Max({8 * WORTH, weights})
<1>1. Checks(b, NoHardware) =
        {k \in {Error("context")} : p1} \cup {k \in {Error("heads")} : uneven}
          \cup {k \in {Warning("kv heads")} : p2} \cup {k \in {Error("fp8")} : p3}
          \cup {k \in {Error("quantization")} : p4} \cup {k \in {Error("GPUs")} : p5}
          \cup {k \in {Warning("expensive")} : p6}
  BY Zenon DEF Checks
<1>2. Errors(b) = {k \in {Error("context")} : p1} \cup {k \in {Error("heads")} : uneven}
                    \cup {k \in {Error("quantization")} : p4}
  BY Zenon DEF Errors
<1>3. ~ p3 /\ ~ p5
  BY DEF NoHardware
<1> HIDE DEF p1, p2, p3, p4, p5, p6, uneven
<1> QED
  BY <1>1, <1>2, <1>3

\* Splitting wider.
LEMMA WiderSound ==
  ASSUME NEW b, ABody(b), Shaped(b), b.config # NoConfig, NEW free \in Nat, b.catalog <= free, NEW gpus,
         NEW k \in Wider(b, Estimate(b), free, gpus)
  PROVE  LET c == [b EXCEPT !.tp = k]
         IN  /\ ABody(c) /\ Requirement(c) < free + 2 * TICKS
             /\ Checks(c, NoHardware) \subseteq
                  Checks(b, NoHardware) \cup {Warning("kv heads"), Warning("expensive")}
<1> DEFINE c == [b EXCEPT !.tp = k]
           w == WeightsOf(b)
           f == OneSequence(b)
           e == Estimate(b)
           M == Max({e.minimum - OVERHEAD, e.weights})
           X == ParamsOf(b) * WeightHalves(b.config, b.quant)
           Y == 2 * b.config.layers * KvHeads(b.config) * HeadDim(b.config) * 2 * EffectiveLen(b) * 1
<1>1. /\ c.config = b.config /\ c.named = b.named /\ c.tp = k /\ c.len = b.len
      /\ c.quant = b.quant /\ c.catalog = b.catalog
  BY DEF Shaped
<1>2. /\ k \in {2, 4, 8} /\ k > b.tp /\ b.config.heads % k = 0
      /\ M * b.tp + OVERHEAD * k <= free * k
  BY MeasuredIs DEF Wider
<1>3. /\ w \in Nat /\ f \in Nat /\ OVERHEAD \in Nat /\ TICKS \in Nat \ {0} 
      /\ b.tp \in Nat \ {0} /\ k \in Nat \ {0}
      /\ e.weights = Round(w) /\ e.minimum = Round(w + f + OVERHEAD)
  BY <1>2, MeasuredIs, Product, SizingAssumption DEF ABody
<1>4. ABody(c) /\ c.config # NoConfig /\ c.catalog <= free
  BY <1>1, <1>3 DEF ABody
<1>5. ParamsOf(c) = ParamsOf(b) /\ EffectiveLen(c) = EffectiveLen(b)
  BY <1>1 DEF ParamsOf, EffectiveLen
<1>6. X \in Nat /\ Y \in Nat
  <2>1. b.config \in ModelConfig /\ b.named.params \in Nat
    BY DEF ABody
  <2>2. ParamsFromConfig(b.config) \in Nat /\ WeightHalves(b.config, b.quant) \in Nat
    BY <2>1, ParamsType, WeightHalvesType
  <2>3. ParamsOf(b) \in Nat
    BY <2>1, <2>2 DEF ParamsOf, Or
  <2>4. X \in Nat
    BY <2>2, <2>3, Product
  <2>5. 2 * b.config.layers \in Nat /\ EffectiveLen(b) \in Nat
    BY <2>1, MeasuredIs DEF ModelConfig
  <2>6. 2 * b.config.layers * KvHeads(b.config) \in Nat
    BY <2>1, <2>5, HeadsType, Product
  <2>7. 2 * b.config.layers * KvHeads(b.config) * HeadDim(b.config) \in Nat
    BY <2>1, <2>6, HeadsType, Product
  <2>8. 2 * b.config.layers * KvHeads(b.config) * HeadDim(b.config) * 2 * EffectiveLen(b) \in Nat
    <3> DEFINE z == 2 * b.config.layers * KvHeads(b.config) * HeadDim(b.config)
    <3>1. z * 2 \in Nat
      BY <2>7
    <3> HIDE DEF z
    <3>2. z * 2 * EffectiveLen(b) \in Nat
      BY <2>5, <3>1, Product
    <3> QED
      BY <3>2 DEF z
  <2> QED
    BY <2>4, <2>8
<1>7. AtLeast1(b.tp) = b.tp /\ AtLeast1(k) = k
  BY <1>3, MaxOfTwo DEF AtLeast1
<1>8. /\ w = X \div ((2 * GIGA) * b.tp) /\ WeightsOf(c) = X \div ((2 * GIGA) * k)
      /\ f = Y \div (KV_GIGA * b.tp) /\ OneSequence(c) = Y \div (KV_GIGA * k)
  BY <1>1, <1>5, <1>7 DEF WeightsOf, OneSequence, Weights, KvCache
<1>9. 2 * GIGA \in Nat \ {0} /\ KV_GIGA \in Nat \ {0}
  BY SizingAssumption
<1> HIDE DEF X, Y
<1>10. k * WeightsOf(c) < b.tp * (w + 1) /\ k * OneSequence(c) < b.tp * (f + 1)
  BY <1>3, <1>6, <1>8, <1>9, Divided
<1>11. WeightsOf(c) \in Nat /\ OneSequence(c) \in Nat
  BY <1>4, MeasuredIs
<1>12. e.weights \in Nat /\ e.minimum \in Nat /\ 2 * (w + f + OVERHEAD) < 2 * e.minimum + TICKS
  BY <1>3, RoundNear
<1>13. M \in Nat /\ M >= e.minimum - OVERHEAD
  BY <1>3, <1>12, MaxOfTwo
<1> HIDE DEF c, w, f, e, M
<1>14. 2 * (WeightsOf(c) + OneSequence(c) + OVERHEAD) < 2 * free + 3 * TICKS
  <2> DEFINE F == free
             w1 == WeightsOf(c)
             f1 == OneSequence(c)
             least == e.minimum
             tp == b.tp
  <2>1. /\ F \in Nat /\ w1 \in Nat /\ f1 \in Nat /\ least \in Nat /\ tp \in Nat \ {0}
        /\ M \in Nat /\ w \in Nat /\ f \in Nat /\ OVERHEAD \in Nat /\ TICKS \in Nat \ {0}
        /\ k \in {2, 4, 8} /\ tp < k
    BY <1>2, <1>3, <1>11, <1>12, <1>13
  <2>2. k * w1 < tp * (w + 1) /\ k * f1 < tp * (f + 1)
    BY <1>10
  <2>3. 2 * (w + f + OVERHEAD) < 2 * least + TICKS /\ M >= least - OVERHEAD
    BY <1>12, <1>13
  <2>4. M * tp + OVERHEAD * k <= F * k
    BY <1>2
  <2> HIDE DEF F, w1, f1, least, tp
  <2>5. 2 * (w1 + f1 + OVERHEAD) < 2 * F + 3 * TICKS
    BY <2>1, <2>2, <2>3, <2>4, WiderFits
  <2> QED
    BY <2>5 DEF F, w1, f1
<1>15. Requirement(c) < free + 2 * TICKS
  BY <1>4, <1>14, FittingBody
<1>16. Errors(c) \subseteq Errors(b)
  BY <1>1, <1>2 DEF Errors
<1>17. Checks(c, NoHardware) \subseteq
         Checks(b, NoHardware) \cup {Warning("kv heads"), Warning("expensive")}
  BY <1>1, <1>16, ChecksAre
<1> QED
  BY <1>4, <1>15, <1>17 DEF c

\* A shorter context.
LEMMA ShorterSound ==
  ASSUME NEW b, ABody(b), Shaped(b), b.config # NoConfig, NEW free \in Nat, b.catalog <= free,
         NEW k \in Shorter(Estimate(b), free)
  PROVE  LET c == [b EXCEPT !.len = Estimate(b).len \div k]
         IN  /\ ABody(c) /\ Requirement(c) < free + 2 * TICKS
             /\ Checks(c, NoHardware) \subseteq
                  Checks(b, NoHardware) \cup {Warning("kv heads"), Warning("expensive")}
<1> DEFINE L == EffectiveLen(b)
           l == L \div k
           c == [b EXCEPT !.len = Estimate(b).len \div k]
           w == WeightsOf(b)
           f == OneSequence(b)
           e == Estimate(b)
           kv == Max({e.minimum - e.weights - OVERHEAD, 0})
           per == 2 * b.config.layers * KvHeads(b.config) * HeadDim(b.config) * 2
           d == KV_GIGA * AtLeast1(b.tp)
<1>1. L \in Nat \ {0} /\ e.len = L
  BY MeasuredIs
<1>2. /\ k \in {2, 4, 8} /\ l >= MIN_LEN
      /\ kv + (e.weights + OVERHEAD) * k <= free * k
  BY <1>1 DEF Shorter
<1>3. /\ c.config = b.config /\ c.named = b.named /\ c.tp = b.tp /\ c.len = l
      /\ c.quant = b.quant /\ c.catalog = b.catalog
  BY <1>1 DEF Shaped
<1>4. l \in Nat \ {0} /\ k * l <= L
  <2>1. MIN_LEN \in Nat \ {0} /\ k \in Nat \ {0}
    BY <1>2, SizingAssumption
  <2>2. l \in Nat /\ k * l <= L
    BY <1>1, <2>1, Quotient
  <2> QED
    BY <1>2, <2>1, <2>2
<1>5. /\ w \in Nat /\ f \in Nat /\ OVERHEAD \in Nat /\ TICKS \in Nat \ {0} 
      /\ e.weights = Round(w) /\ e.minimum = Round(w + f + OVERHEAD)
  BY MeasuredIs, Product, SizingAssumption
<1>6. ABody(c) /\ c.config # NoConfig /\ c.catalog <= free
  BY <1>3, <1>4 DEF ABody
<1>7. WeightsOf(c) = w /\ EffectiveLen(c) = l
  BY <1>3, <1>4 DEF WeightsOf, ParamsOf, EffectiveLen, Or
<1>8. f = (per * L * 1) \div d /\ OneSequence(c) = (per * l * 1) \div d
  BY <1>3, <1>7 DEF OneSequence, KvCache
<1>9. per \in Nat
  <2>1. b.config \in ModelConfig
    BY DEF ABody
  <2>2. 2 * b.config.layers \in Nat
    BY <2>1 DEF ModelConfig
  <2>3. 2 * b.config.layers * KvHeads(b.config) \in Nat
    BY <2>1, <2>2, HeadsType, Product
  <2>4. 2 * b.config.layers * KvHeads(b.config) * HeadDim(b.config) \in Nat
    BY <2>1, <2>3, HeadsType, Product
  <2> QED
    BY <2>4
<1>10. d \in Nat \ {0}
  <2>1. AtLeast1(b.tp) \in Nat \ {0}
    BY AtLeast1Is DEF ABody
  <2> QED
    BY <2>1, PositiveProduct, SizingAssumption
<1>11. OneSequence(c) \in Nat
  BY <1>6, MeasuredIs
<1>12. e.weights \in Nat /\ 2 * w < 2 * e.weights + TICKS /\ 2 * e.weights <= 2 * w + TICKS
  BY <1>5, RoundNear
<1>13. e.minimum \in Nat /\ 2 * (w + f + OVERHEAD) < 2 * e.minimum + TICKS
  BY <1>5, RoundNear
<1>14. kv \in Nat /\ kv >= e.minimum - e.weights - OVERHEAD
  BY <1>5, <1>12, <1>13, MaxOfTwo
<1> HIDE DEF L, l, c, w, f, e, kv, per, d
<1>15. k * OneSequence(c) <= f
  <2>1. k \in Nat /\ per * L * 1 \in Nat /\ per * l * 1 \in Nat
    BY <1>1, <1>2, <1>4, <1>9, Product
  <2>2. k * (per * l * 1) <= per * L * 1
    <3>1. per * (k * l) <= per * L /\ k * l \in Nat
      BY <1>1, <1>4, <1>9, <2>1
    <3>2. k * (per * l * 1) = per * (k * l)
      BY <1>4, <1>9, <2>1
    <3>3. per * L * 1 = per * L
      BY <1>1, <1>9
    <3> QED
      BY <3>1, <3>2, <3>3
  <2> DEFINE x == per * L * 1
             y == per * l * 1
  <2>3. x \in Nat /\ y \in Nat /\ k * y <= x /\ f = x \div d /\ OneSequence(c) = y \div d
    BY <1>8, <2>1, <2>2
  <2> HIDE DEF x, y
  <2> QED
    BY <1>10, <2>1, <2>3, PartOf
<1>16. 2 * (w + OneSequence(c) + OVERHEAD) < 2 * free + 3 * TICKS
  <2> DEFINE F == free
             f1 == OneSequence(c)
             rw == e.weights
             least == e.minimum
  <2>1. /\ F \in Nat /\ f1 \in Nat /\ rw \in Nat /\ least \in Nat /\ kv \in Nat
        /\ w \in Nat /\ f \in Nat /\ OVERHEAD \in Nat /\ TICKS \in Nat \ {0} /\ k \in {2, 4, 8}
    BY <1>2, <1>5, <1>11, <1>12, <1>13, <1>14
  <2>2. k * f1 <= f /\ 2 * w < 2 * rw + TICKS /\ 2 * rw <= 2 * w + TICKS
    BY <1>12, <1>15
  <2>3. 2 * (w + f + OVERHEAD) < 2 * least + TICKS /\ kv >= least - rw - OVERHEAD
    BY <1>13, <1>14
  <2>4. kv + (rw + OVERHEAD) * k <= F * k
    BY <1>2
  <2> HIDE DEF F, f1, rw, least
  <2>5. 2 * (w + f1 + OVERHEAD) < 2 * F + 3 * TICKS
    BY <2>1, <2>2, <2>3, <2>4, ShorterFits
  <2> QED
    BY <2>5 DEF F, f1
<1>17. Requirement(c) < free + 2 * TICKS
  BY <1>6, <1>7, <1>16, FittingBody
<1>18. c.len # 0 /\ c.config.ctx # 0 /\ c.len > c.config.ctx
         => b.len # 0 /\ b.config.ctx # 0 /\ b.len > b.config.ctx
  <2>1. b.config.ctx \in Nat /\ b.len \in Nat
    BY DEF ABody, ModelConfig
  <2>2. b.len = 0 /\ b.config.ctx # 0 => L = b.config.ctx
    BY DEF L, EffectiveLen, Or
  <2>3. b.len # 0 => L = b.len
    BY DEF L, EffectiveLen, Or
  <2>4. l <= L
    BY <1>1, <1>2, <1>4
  <2> QED
    BY <1>1, <1>3, <1>4, <2>1, <2>2, <2>3, <2>4
<1>19. Errors(c) \subseteq Errors(b)
  BY <1>3, <1>18 DEF Errors
<1>20. Checks(c, NoHardware) \subseteq
         Checks(b, NoHardware) \cup {Warning("kv heads"), Warning("expensive")}
  BY <1>3, <1>19, ChecksAre
<1> QED
  BY <1>6, <1>17, <1>20 DEF c

\* A smaller quantization of a checkpoint that is not quantized.
LEMMA SmallerSound ==
  ASSUME NEW b, ABody(b), Shaped(b), b.config # NoConfig, NEW free \in Nat, b.catalog <= free,
         Unquantized(b.config), NEW k \in Smaller(b, Estimate(b), free)
  PROVE  LET c == [b EXCEPT !.quant = IF k = 2 THEN "fp8" ELSE "awq"]
         IN  /\ ABody(c) /\ Requirement(c) < free + 2 * TICKS
             /\ Checks(c, NoHardware) \subseteq
                  Checks(b, NoHardware) \cup {Warning("kv heads"), Warning("expensive")}
<1> DEFINE c == [b EXCEPT !.quant = IF k = 2 THEN "fp8" ELSE "awq"]
           w == WeightsOf(b)
           f == OneSequence(b)
           e == Estimate(b)
           D == Max({e.minimum - e.weights, OVERHEAD})
           P == ParamsOf(b)
           h == WeightHalves(c.config, c.quant)
           d == 2 * GIGA * AtLeast1(b.tp)
<1>1. /\ k \in {2, 4} /\ b.quant = "" /\ e.weights + D * k <= free * k
  BY DEF Smaller
<1>2. /\ c.config = b.config /\ c.named = b.named /\ c.tp = b.tp /\ c.len = b.len
      /\ c.quant = (IF k = 2 THEN "fp8" ELSE "awq") /\ c.catalog = b.catalog
  BY DEF Shaped
<1>3. /\ w \in Nat /\ f \in Nat /\ OVERHEAD \in Nat /\ TICKS \in Nat \ {0} 
      /\ e.weights = Round(w) /\ e.minimum = Round(w + f + OVERHEAD)
  BY MeasuredIs, Product, SizingAssumption
<1>4. ABody(c) /\ c.config # NoConfig /\ c.catalog <= free
  BY <1>2 DEF ABody
<1>5. OneSequence(c) = f /\ ParamsOf(c) = P
  BY <1>2 DEF OneSequence, ParamsOf, EffectiveLen
<1>6. WeightHalves(b.config, b.quant) = 4
  <2>1. DOMAIN QUANT_HALVES = {"fp8", "awq", "gptq", "int4", "bitsandbytes"}
    BY DEF QUANT_HALVES
  <2>2. b.quant \notin DOMAIN QUANT_HALVES
    BY <1>1, <2>1
  <2>3. b.config.bits = 0 /\ b.config.dtype_bytes = 2
    BY DEF Unquantized
  <2>4. WeightHalves(b.config, b.quant) = 2 * b.config.dtype_bytes
    BY <2>2, <2>3 DEF WeightHalves
  <2> QED
    BY <2>3, <2>4
<1>7. h \in {1, 2} /\ k * h = 4
  <2>1. CASE k = 2
    BY <1>2, <2>1 DEF WeightHalves, QUANT_HALVES
  <2>2. CASE k = 4
    BY <1>2, <2>2 DEF WeightHalves, QUANT_HALVES
  <2> QED
    BY <1>1, <2>1, <2>2
<1>8. w = (P * 4) \div d /\ WeightsOf(c) = (P * h) \div d
  BY <1>2, <1>5, <1>6 DEF WeightsOf, Weights
<1>9. P \in Nat
  <2>1. ParamsFromConfig(b.config) \in Nat /\ b.named.params \in Nat
    BY ParamsType DEF ABody
  <2> QED
    BY <2>1 DEF ParamsOf, Or
<1>10. d \in Nat \ {0}
  <2>1. AtLeast1(b.tp) \in Nat \ {0} /\ 2 * GIGA \in Nat \ {0}
    BY AtLeast1Is, SizingAssumption DEF ABody
  <2> QED
    BY <2>1, PositiveProduct
<1>11. WeightsOf(c) \in Nat
  BY <1>4, MeasuredIs
<1>12. e.weights \in Nat /\ 2 * w < 2 * e.weights + TICKS /\ 2 * e.weights <= 2 * w + TICKS
  BY <1>3, RoundNear
<1>13. e.minimum \in Nat /\ 2 * (w + f + OVERHEAD) < 2 * e.minimum + TICKS
  BY <1>3, RoundNear
<1>14. D \in Nat /\ D >= e.minimum - e.weights
  BY <1>3, <1>12, <1>13, MaxOfTwo
<1> HIDE DEF c, w, f, e, D, P, h, d
<1>15. k * WeightsOf(c) <= w
  <2> DEFINE x == P * 4
             y == P * h
  <2>1. k \in Nat /\ x \in Nat /\ y \in Nat /\ k * y <= x
    <3>1. CASE k = 2
      <4>1. h = 2
        BY <1>7, <3>1
      <4> QED
        BY <1>9, <3>1, <4>1
    <3>2. CASE k = 4
      <4>1. h = 1
        BY <1>7, <3>2
      <4> QED
        BY <1>9, <3>2, <4>1
    <3> QED
      BY <1>1, <3>1, <3>2
  <2>2. w = x \div d /\ WeightsOf(c) = y \div d
    BY <1>8
  <2> HIDE DEF x, y
  <2> QED
    BY <1>10, <2>1, <2>2, PartOf
<1>16. 2 * (WeightsOf(c) + f + OVERHEAD) < 2 * free + 3 * TICKS
  <2> DEFINE F == free
             w1 == WeightsOf(c)
             rw == e.weights
             least == e.minimum
  <2>1. /\ F \in Nat /\ w1 \in Nat /\ rw \in Nat /\ least \in Nat /\ D \in Nat
        /\ w \in Nat /\ f \in Nat /\ OVERHEAD \in Nat /\ TICKS \in Nat \ {0} /\ k \in {2, 4}
    BY <1>1, <1>3, <1>11, <1>12, <1>13, <1>14
  <2>2. k * w1 <= w /\ 2 * w < 2 * rw + TICKS /\ 2 * rw <= 2 * w + TICKS
    BY <1>12, <1>15
  <2>3. 2 * (w + f + OVERHEAD) < 2 * least + TICKS /\ D >= least - rw
    BY <1>13, <1>14
  <2>4. rw + D * k <= F * k
    BY <1>1
  <2> HIDE DEF F, w1, rw, least
  <2>5. 2 * (w1 + f + OVERHEAD) < 2 * F + 3 * TICKS
    BY <2>1, <2>2, <2>3, <2>4, SmallerFits
  <2> QED
    BY <2>5 DEF F, w1
<1>17. Requirement(c) < free + 2 * TICKS
  BY <1>4, <1>5, <1>16, FittingBody
<1>18. Errors(c) \subseteq Errors(b)
  BY <1>2 DEF Errors, Unquantized
<1>19. Checks(c, NoHardware) \subseteq
         Checks(b, NoHardware) \cup {Warning("kv heads"), Warning("expensive")}
  BY <1>2, <1>18, ChecksAre
<1> QED
  BY <1>4, <1>17, <1>19 DEF c

\* Of a node that has cards, the roomiest have some number of whole units free.
LEMMA LargestFreeIs ==
  ASSUME TypeOK, IsFiniteSet(rows), NEW n, Cards(n) # {}
  PROVE  \E m \in Nat : /\ LargestFree(Fleet, n) = MB * m
                        /\ \A g \in Roomiest(Fleet, n) : Fleet.capacity[g] = m
<1> DEFINE S == {Fleet.capacity[g] : g \in Cards(n)}
<1>1. AFleet(Fleet)
  BY FleetIs
<1>2. S \subseteq Nat
  BY <1>1 DEF AFleet, Cards
<1>3. IsFiniteSet(S)
  <2> DEFINE e == [g \in Cards(n) |-> Fleet.capacity[g]]
  <2>1. IsFiniteSet(Cards(n))
    BY PlacementAssumption, FS_Subset DEF Cards
  <2>2. e \in Surjection(Cards(n), S)
    BY DEF Surjection
  <2> QED
    BY <2>1, <2>2, FS_Surjection
<1>4. S # {}
  OBVIOUS
<1>5. LargestFree(Fleet, n) = MB * Max(S)
  BY DEF LargestFree
<1>6. Max(S) \in S /\ \A x \in S : x <= Max(S)
  <2>1. S \subseteq Int
    BY <1>2
  <2> HIDE DEF S
  <2> QED
    BY <1>3, <1>4, <2>1, MaxIs
<1> DEFINE m == Max(S)
<1>7. m \in Nat
  BY <1>2, <1>6
<1>8. ASSUME NEW g \in Roomiest(Fleet, n)
      PROVE  Fleet.capacity[g] = m
  <2>1. g \in Cards(n) /\ \A h \in Cards(n) : Fleet.capacity[h] <= Fleet.capacity[g]
    BY DEF Roomiest
  <2>2. PICK h \in Cards(n) : m = Fleet.capacity[h]
    BY <1>6
  <2>3. Fleet.capacity[g] \in S
    BY <2>1
  <2>4. Fleet.capacity[g] \in Nat /\ Fleet.capacity[g] <= m /\ m <= Fleet.capacity[g]
    BY <1>2, <1>6, <2>1, <2>2, <2>3
  <2> HIDE DEF m
  <2> QED
    BY <1>7, <2>4
<1> QED
  BY <1>5, <1>7, <1>8

\* Cards that are all roomy make a group when enough of them are of one model.
LEMMA LikeCardsFit ==
  ASSUME NEW f, NEW q, q.tp \in Nat \ {0}, NEW n \in Node, NEW C \in SUBSET Roomy(f, q, n),
         NEW m, Cardinality(OfModel(C, m)) >= q.tp
  PROVE  Suitable(f, q, n) # {}
<1> DEFINE D == OfModel(C, m)
           R == Roomy(f, q, n)
           tp == q.tp
<1>1. D \subseteq R
  BY DEF OfModel
<1>2. IsFiniteSet(D) /\ Cardinality(D) \in Nat
  <2>1. OfOne(R)
    BY RoomyIs
  <2> HIDE DEF D, R
  <2>2. OfOne(D)
    BY <1>1, <2>1, CardsType
  <2> QED
    BY <2>2, CardsType
<1>3. Cardinality(D) >= tp /\ tp \in Nat \ {0}
  OBVIOUS
<1> HIDE DEF tp
<1>4. PICK G \in SUBSET D : Cardinality(G) = tp
  <2> HIDE DEF D
  <2> QED
    BY <1>2, <1>3, SubsetOfSize
<1>5. IsFiniteSet(G) /\ G # {}
  BY <1>2, <1>3, <1>4, FS_Subset, FS_EmptySet
<1>6. Cardinality({Model[g] : g \in G}) = 1
  <2>1. {Model[g] : g \in G} = {m}
    BY <1>4, <1>5, ModelOf DEF D
  <2> QED
    BY <1>5, <2>1, OneModel
<1> QED
  BY <1>1, <1>4, <1>6 DEF Suitable, tp

\* A quotient is no more than a number whose multiple is more than what is divided.
LEMMA QuotientBelow ==
  ASSUME NEW x \in Int, NEW t \in Nat \ {0}, NEW q \in Nat, x < t * q
  PROVE  x \div t \in Int /\ x \div t <= q
<1> DEFINE p == x \div t
<1>1. p \in Int /\ t * p <= x
  OBVIOUS
<1> HIDE DEF p
<1>2. ASSUME q + 1 <= p
      PROVE  FALSE
  <2>1. p \in Nat /\ t * (q + 1) <= t * p
    <3>1. p \in Nat
      BY <1>1, <1>2
    <3> QED
      BY <1>2, <3>1
  <2>2. t * (q + 1) = t * q + t
    OBVIOUS
  <2>3. t * q \in Nat /\ t * p \in Nat
    BY <2>1, Product
  <2> QED
    BY <1>1, <2>1, <2>2, <2>3
<1> QED
  BY <1>1, <1>2 DEF p

\* Advice is one of three kinds, worked out as that kind is.
LEMMA AdviceIs ==
  ASSUME NEW b, NEW free, NEW gpus, NEW o \in Recommend(b, free, gpus)
  PROVE  \/ o.kind = "tp" /\ o.by \in Wider(b, Estimate(b), free, gpus)
         \/ o.kind = "len" /\ o.by \in Shorter(Estimate(b), free)
         \/ o.kind = "quant" /\ o.by \in Smaller(b, Estimate(b), free)
<1> DEFINE e == Estimate(b)
<1>1. \/ o \in Offer("tp", Wider(b, e, free, gpus)) \/ o \in Offer("len", Shorter(e, free))
      \/ o \in Offer("quant", Smaller(b, e, free))
  BY Zenon DEF Recommend
<1>2. \A kind, S : o \in Offer(kind, S) => o.kind = kind /\ o.by \in S
  BY DEF Offer
<1> HIDE DEF e
<1> QED
  BY <1>1, <1>2 DEF e

\* Each kind of advice.
LEMMA AnyAdviceSound ==
  ASSUME NEW b, ABody(b), Shaped(b), b.config # NoConfig, NEW free \in Nat, b.catalog <= free,
         NEW gpus, NEW o \in Recommend(b, free, gpus), o.kind = "quant" => Unquantized(b.config)
  PROVE  /\ ABody(Follow(b, o)) /\ Requirement(Follow(b, o)) < free + 2 * TICKS
         /\ Checks(Follow(b, o), NoHardware) \subseteq
              Checks(b, NoHardware) \cup {Warning("kv heads"), Warning("expensive")}
<1>1. \/ o.kind = "tp" /\ o.by \in Wider(b, Estimate(b), free, gpus)
      \/ o.kind = "len" /\ o.by \in Shorter(Estimate(b), free)
      \/ o.kind = "quant" /\ o.by \in Smaller(b, Estimate(b), free)
  BY AdviceIs
<1>2. CASE o.kind = "tp"
  <2>1. o.by \in Wider(b, Estimate(b), free, gpus) /\ Follow(b, o) = [b EXCEPT !.tp = o.by]
    BY <1>1, <1>2 DEF Follow
  <2> DEFINE c == [b EXCEPT !.tp = o.by]
  <2>2. /\ ABody(c) /\ Requirement(c) < free + 2 * TICKS
        /\ Checks(c, NoHardware) \subseteq
             Checks(b, NoHardware) \cup {Warning("kv heads"), Warning("expensive")}
    BY <2>1, WiderSound
  <2> QED
    BY <2>1, <2>2
<1>3. CASE o.kind = "len"
  <2>1. /\ o.by \in Shorter(Estimate(b), free)
        /\ Follow(b, o) = [b EXCEPT !.len = Estimate(b).len \div o.by]
    BY <1>1, <1>3 DEF Follow
  <2> DEFINE c == [b EXCEPT !.len = Estimate(b).len \div o.by]
  <2>2. /\ ABody(c) /\ Requirement(c) < free + 2 * TICKS
        /\ Checks(c, NoHardware) \subseteq
             Checks(b, NoHardware) \cup {Warning("kv heads"), Warning("expensive")}
    BY <2>1, ShorterSound
  <2> QED
    BY <2>1, <2>2
<1>4. CASE o.kind = "quant"
  <2>1. /\ o.by \in Smaller(b, Estimate(b), free) /\ Unquantized(b.config)
        /\ Follow(b, o) = [b EXCEPT !.quant = IF o.by = 2 THEN "fp8" ELSE "awq"]
    BY <1>1, <1>4 DEF Follow
  <2> DEFINE c == [b EXCEPT !.quant = IF o.by = 2 THEN "fp8" ELSE "awq"]
  <2>2. /\ ABody(c) /\ Requirement(c) < free + 2 * TICKS
        /\ Checks(c, NoHardware) \subseteq
             Checks(b, NoHardware) \cup {Warning("kv heads"), Warning("expensive")}
    BY <2>1, SmallerSound
  <2> QED
    BY <2>1, <2>2
<1> QED
  BY <1>1, <1>2, <1>3, <1>4

\* Advice that is followed brings the requirement within two tenths of a GB of what the
\* roomiest card has free, makes no setting one that vLLM rejects, and is of a group
\* the node has, but for those tenths, when enough of its cards are of one model and as
\* roomy as that one: for any model whose config was read and whose catalog figure the
\* card can hold, any fleet, and each kind of advice, for quantizing if the checkpoint
\* is of 16 bits and declares no quantization (recommend and _assess).
THEOREM AdviceSound == Spec => []AdviceFitsTheCard
<1>1. ASSUME IInv, NEW s \in Answerable, NEW b \in Bodies(s),
             NEW n \in BestNodes(Fleet, Ask[s], b),
             b.config # NoConfig, b.catalog <= LargestFree(Fleet, n),
             NEW o \in Options(Fleet, b, n), o.kind = "quant" => Unquantized(b.config)
      PROVE  LET f    == Fleet
                 c    == Follow(b, o)
                 best == Roomiest(f, n)
                 slim == [Demand(Ask[s], c) EXCEPT !.need = (Requirement(c) - 2 * TICKS) \div MB]
             IN
             /\ Requirement(c) < LargestFree(f, n) + 2 * TICKS
             /\ Checks(c, NoHardware) \subseteq
                  Checks(b, NoHardware) \cup {Warning("kv heads"), Warning("expensive")}
             /\ (\E g \in best : Cardinality(OfModel(best, Model[g])) >= c.tp)
                  => Suitable(f, slim, n) # {}
  <2> DEFINE f    == Fleet
             c    == Follow(b, o)
             best == Roomiest(f, n)
             slim == [Demand(Ask[s], c) EXCEPT !.need = (Requirement(c) - 2 * TICKS) \div MB]
  <2>1. PICK k \in Fetched(cache, RepoOf(Ask[s])) : b = Body(Ask[s], k)
    BY <1>1 DEF Bodies
  <2>2. ABody(b) /\ Shaped(b)
    BY <1>1, <2>1, AskIs DEF Answerable, Shaped, Body
  <2>3. n \in Node /\ Cards(n) # {}
    <3>1. Cardinality(Cards(n)) >= b.tp /\ b.tp \in Nat \ {0} /\ n \in Ask[s].within
      BY <1>1, <2>2 DEF BestNodes, ABody
    <3>2. Cardinality({}) = 0
      BY FS_EmptySet
    <3>3. s \in Session
      BY <1>1 DEF Answerable
    <3>4. Ask[s].within \subseteq Node
      BY <3>3, AskAssumption
    <3>5. Cards(n) # {}
      BY <3>1, <3>2
    <3> QED
      BY <3>1, <3>4, <3>5
  <2>4. PICK m \in Nat : LargestFree(f, n) = MB * m /\ \A g \in best : f.capacity[g] = m
    BY <1>1, <2>3, LargestFreeIs DEF IInv
  <2>5. LargestFree(f, n) \in Nat /\ MB \in Nat \ {0} /\ TICKS \in Nat \ {0}
    BY <2>4, Product, SizingAssumption
  <2>6. /\ ABody(c) /\ Requirement(c) < LargestFree(f, n) + 2 * TICKS
        /\ Checks(c, NoHardware) \subseteq
             Checks(b, NoHardware) \cup {Warning("kv heads"), Warning("expensive")}
    <3>1. o \in Recommend(b, LargestFree(f, n), Cardinality(Cards(n)))
      BY <1>1 DEF Options
    <3> QED
      BY <1>1, <2>2, <2>5, <3>1, AnyAdviceSound
  <2>7. slim.tp = c.tp /\ slim.need = (Requirement(c) - 2 * TICKS) \div MB
    BY DEF Demand
  <2>8. best \subseteq Cards(n)
    BY DEF Roomiest
  <2> HIDE DEF f, c, best, slim
  <2>9. c.tp \in Nat \ {0} /\ Requirement(c) \in Nat
    BY <2>6, RequirementIs DEF ABody
  <2>10. slim.need \in Int /\ slim.need <= m
    <3> DEFINE x == Requirement(c) - 2 * TICKS
    <3>1. x \in Int /\ x < MB * m
      <4> DEFINE y == LargestFree(f, n)
                 z == Requirement(c)
      <4>1. y \in Nat /\ z \in Nat /\ TICKS \in Nat /\ z < y + 2 * TICKS
        BY <2>5, <2>6, <2>9
      <4>2. x = z - 2 * TICKS
        OBVIOUS
      <4> HIDE DEF x, y, z
      <4>3. x \in Int /\ x < y
        BY <4>1, <4>2
      <4> QED
        BY <2>4, <4>3 DEF y
    <3> HIDE DEF x
    <3>2. x \div MB \in Int /\ x \div MB <= m
      BY <2>4, <2>5, <3>1, QuotientBelow
    <3> QED
      BY <2>7, <3>2 DEF x
  <2>11. best \in SUBSET Roomy(f, slim, n)
    BY <2>4, <2>8, <2>10 DEF Roomy
  <2>12. ASSUME NEW g \in best, Cardinality(OfModel(best, Model[g])) >= c.tp
         PROVE  Suitable(f, slim, n) # {}
    BY <2>3, <2>7, <2>9, <2>11, <2>12, LikeCardsFit
  <2> QED
    BY <2>6, <2>12 DEF f, c, best, slim
<1>2. IInv => AdviceFitsTheCard
  BY <1>1, Zenon DEF AdviceFitsTheCard
<1> QED
  BY <1>2, Invariance, PTL

=============================================================================
