-------------------------- MODULE CapacityTheorems --------------------------
(***************************************************************************)
(* What the ledger's arithmetic guarantees.  A claim on a card is a set of *)
(* labelled units, so the facts about sums are facts about the sizes of    *)
(* finite sets.                                                            *)
(***************************************************************************)
EXTENDS Capacity, FiniteSetTheorems, WellFoundedInduction, TLAPS

-----------------------------------------------------------------------------
(* Finite sets: what has a least element, and of what sizes there are subsets. *)

\* A family of subsets of a finite set has a minimal member.
LEMMA Minimal ==
  ASSUME NEW S, IsFiniteSet(S), NEW F, F \subseteq SUBSET S, F # {}
  PROVE  \E A \in F : \A B \in F : ~ (B \subseteq A /\ B # A)
<1>1. IsWellFoundedOn(StrictSubsetOrdering(S), FiniteSubsetsOf(S))
  BY FS_StrictSubsetOrderingWellFounded
<1>2. F \subseteq FiniteSubsetsOf(S)
  BY FS_FiniteSubsetsOfFinite
<1>3. \E A \in F : \A B \in F : ~ (<<B, A>> \in StrictSubsetOrdering(S))
  BY <1>1, <1>2, WFMin
<1> QED
  BY <1>3 DEF StrictSubsetOrdering

\* A relation that orders a finite set has a least element in it.
LEMMA Least ==
  ASSUME NEW S, IsFiniteSet(S), S # {}, NEW R,
         \A x, y \in S : <<x, y>> \in R \/ <<y, x>> \in R,
         \A x, y, z \in S : <<x, y>> \in R /\ <<y, z>> \in R => <<x, z>> \in R
  PROVE  \E m \in S : \A x \in S : <<m, x>> \in R
<1> DEFINE F == {A \in SUBSET S : A # {} /\ \A x \in S : \E a \in A : <<a, x>> \in R}
<1>1. S \in F /\ F \subseteq SUBSET S /\ F # {}
  OBVIOUS
<1>2. PICK A \in F : \A B \in F : ~ (B \subseteq A /\ B # A)
  <2> HIDE DEF F
  <2> QED
    BY <1>1, Minimal
<1>3. PICK a \in A : TRUE
  OBVIOUS
<1>4. CASE \A x \in S : <<a, x>> \in R
  BY <1>4
<1>5. CASE \E x \in S : ~ (<<a, x>> \in R)
  <2>1. PICK x \in S : ~ (<<a, x>> \in R)
    BY <1>5
  <2>2. PICK b \in A : <<b, x>> \in R
    OBVIOUS
  <2>3. b # a /\ b \in S /\ a \in S
    BY <2>1, <2>2
  <2>4. <<b, a>> \in R
    BY <2>1, <2>2, <2>3
  <2>5. \A y \in S : \E c \in A \ {a} : <<c, y>> \in R
    <3> SUFFICES ASSUME NEW y \in S PROVE \E c \in A \ {a} : <<c, y>> \in R
      OBVIOUS
    <3>1. PICK c \in A : <<c, y>> \in R
      OBVIOUS
    <3> QED
      BY <2>3, <2>4, <3>1
  <2>6. A \ {a} \in F
    BY <2>2, <2>3, <2>5
  <2>7. A \ {a} \subseteq A /\ A \ {a} # A
    BY <1>3
  <2> HIDE DEF F
  <2> QED
    BY <1>2, <2>6, <2>7
<1> QED
  BY <1>4, <1>5

\* A set of natural numbers has a least one.
LEMMA LeastNat ==
  ASSUME NEW S, S \subseteq Nat, S # {}
  PROVE  \E m \in S : \A x \in S : m <= x
<1>1. PICK k \in S : TRUE
  OBVIOUS
<1> DEFINE T == S \cap (0..k)
<1>2. IsFiniteSet(T)
  <2>1. IsFiniteSet(0..k)
    BY <1>1, FS_Interval
  <2> QED
    BY <2>1, FS_Subset
<1>3. T # {} /\ T \subseteq Int
  BY <1>1
<1>4. PICK m \in T : \A x \in T : m <= x
  <2> DEFINE R == {p \in T \X T : p[1] <= p[2]}
  <2>1. /\ \A x, y \in T : <<x, y>> \in R \/ <<y, x>> \in R
        /\ \A x, y, z \in T : <<x, y>> \in R /\ <<y, z>> \in R => <<x, z>> \in R
        /\ \A x, y \in T : <<x, y>> \in R => x <= y
    OBVIOUS
  <2> HIDE DEF R, T
  <2>2. \E m \in T : \A x \in T : <<m, x>> \in R
    BY <1>2, <1>3, <2>1, Least
  <2> QED
    BY <2>1, <2>2
<1>5. \A x \in S : m <= x
  <2> SUFFICES ASSUME NEW x \in S PROVE m <= x
    OBVIOUS
  <2>1. CASE x <= k
    BY <1>1, <1>4, <2>1
  <2>2. CASE k < x
    <3>1. m \in 0..k
      BY <1>4
    <3> QED
      BY <1>1, <2>2, <3>1
  <2> QED
    BY <1>1, <2>1, <2>2
<1> QED
  BY <1>4, <1>5

\* A finite set that is ordered has, for each k up to its size, an initial part of
\* k elements.
LEMMA InitialPart ==
  ASSUME NEW S, IsFiniteSet(S), NEW k \in Nat, k <= Cardinality(S), NEW R,
         \A x, y \in S : <<x, y>> \in R \/ <<y, x>> \in R,
         \A x, y, z \in S : <<x, y>> \in R /\ <<y, z>> \in R => <<x, z>> \in R
  PROVE  \E P \in SUBSET S : /\ Cardinality(P) = k
                             /\ \A p \in P, r \in S \ P : <<p, r>> \in R
<1> DEFINE F == {P \in SUBSET S : /\ Cardinality(P) >= k
                                  /\ \A p \in P, r \in S \ P : <<p, r>> \in R}
<1>1. S \in F /\ F \subseteq SUBSET S /\ F # {}
  <2>1. Cardinality(S) \in Nat
    BY FS_CardinalityType
  <2> QED
    BY <2>1
<1>2. PICK P \in F : \A B \in F : ~ (B \subseteq P /\ B # P)
  <2> HIDE DEF F
  <2> QED
    BY <1>1, Minimal
<1>3. P \subseteq S /\ IsFiniteSet(P) /\ Cardinality(P) \in Nat /\ Cardinality(P) >= k
  BY FS_Subset, FS_CardinalityType
<1>4. CASE Cardinality(P) = k
  BY <1>4
<1>5. CASE Cardinality(P) > k
  <2> DEFINE Q == {p \in R : FALSE} \cup {p \in S \X S : <<p[2], p[1]>> \in R}
  <2>1. P # {}
    BY <1>3, <1>5, FS_EmptySet
  <2>2. /\ \A x, y \in P : <<x, y>> \in Q \/ <<y, x>> \in Q
        /\ \A x, y, z \in P : <<x, y>> \in Q /\ <<y, z>> \in Q => <<x, z>> \in Q
        /\ \A x, y \in P : <<x, y>> \in Q => <<y, x>> \in R
    BY <1>3
  <2> HIDE DEF Q
  <2>3. PICK m \in P : \A x \in P : <<m, x>> \in Q
    BY <1>3, <2>1, <2>2, Least
  <2>4. \A x \in P : <<x, m>> \in R
    BY <2>2, <2>3
  <2>5. Cardinality(P \ {m}) >= k
    <3>1. Cardinality(P \ {m}) = Cardinality(P) - 1
      BY <1>3, FS_RemoveElement
    <3> QED
      BY <1>3, <1>5, <3>1
  <2>6. \A p \in P \ {m}, r \in S \ (P \ {m}) : <<p, r>> \in R
    BY <2>4
  <2>7. P \ {m} \in F
    BY <1>3, <2>5, <2>6
  <2> QED
    BY <1>2, <2>7
<1> QED
  BY <1>3, <1>4, <1>5

LEMMA SubsetOfSize ==
  ASSUME NEW S, IsFiniteSet(S), NEW k \in Nat, k <= Cardinality(S)
  PROVE  \E T \in SUBSET S : Cardinality(T) = k
<1> DEFINE R == S \X S
<1>1. /\ \A x, y \in S : <<x, y>> \in R \/ <<y, x>> \in R
      /\ \A x, y, z \in S : <<x, y>> \in R /\ <<y, z>> \in R => <<x, z>> \in R
  OBVIOUS
<1> HIDE DEF R
<1> QED
  BY <1>1, InitialPart

-----------------------------------------------------------------------------
(* The ledger. *)

\* The units that finitely many rows claim are finitely many, so the claim on a
\* card (reserved_mb) is a natural number.
LEMMA ClaimedType ==
  ASSUME NEW rows, IsFiniteSet(rows), NEW g \in Gpu
  PROVE  /\ IsFiniteSet(Units(rows, g))
         /\ Claimed(rows, g) \in Nat
<1>1. IsFiniteSet(1..MaxMb)
  BY FS_Interval, FleetAssumption
<1>2. IsFiniteSet(rows \X (1..MaxMb))
  BY <1>1, FS_Product
<1>3. Units(rows, g) \in SUBSET (rows \X (1..MaxMb))
  BY DEF Units
<1>4. IsFiniteSet(Units(rows, g))
  BY <1>2, <1>3, FS_Subset
<1> QED
  BY <1>4, FS_CardinalityType DEF Claimed

\* Fewer rows claim no more of a card: a release never makes a card fuller.
LEMMA ClaimedMonotone ==
  ASSUME NEW S, NEW T, S \subseteq T, IsFiniteSet(T), NEW g \in Gpu
  PROVE  /\ IsFiniteSet(S)
         /\ Claimed(S, g) <= Claimed(T, g)
<1>1. IsFiniteSet(S)
  BY FS_Subset
<1>2. IsFiniteSet(Units(T, g))
  BY ClaimedType
<1>3. Units(S, g) \in SUBSET Units(T, g)
  BY DEF Units
<1> QED
  BY <1>1, <1>2, <1>3, FS_Subset DEF Claimed

\* Units labelled with their holder are as many as without the label.
LEMMA LabelledSize ==
  ASSUME NEW d, NEW n \in Nat
  PROVE  IsFiniteSet({d} \X (1..n)) /\ Cardinality({d} \X (1..n)) = n
<1>1. IsFiniteSet(1..n) /\ Cardinality(1..n) = n
  BY FS_Interval
<1>2. IsFiniteSet({d}) /\ Cardinality({d}) = 1
  BY FS_Singleton
<1>3. /\ IsFiniteSet({d} \X (1..n))
      /\ Cardinality({d} \X (1..n)) = Cardinality({d}) * Cardinality(1..n)
  BY <1>1, <1>2, FS_Product
<1> QED
  BY <1>1, <1>2, <1>3

\* A new row adds at most its share to the cards it names, and nothing to the
\* others.
LEMMA ClaimedAdd ==
  ASSUME NEW rows, IsFiniteSet(rows), NEW d, NEW g \in Gpu,
         d.mb \in 0..MaxMb
  PROVE  /\ Claimed(rows \cup {d}, g) <= Claimed(rows, g) + Share(d, g)
         /\ g \notin d.gpus => Claimed(rows \cup {d}, g) = Claimed(rows, g)
<1> DEFINE own == {d} \X (1..Share(d, g))
<1>1. Share(d, g) \in Nat /\ Share(d, g) <= MaxMb
  BY FleetAssumption DEF Share
<1>2. IsFiniteSet(own) /\ Cardinality(own) = Share(d, g)
  BY <1>1, LabelledSize
<1>3. IsFiniteSet(Units(rows, g)) /\ Claimed(rows, g) \in Nat
  BY ClaimedType
<1>4. Units(rows \cup {d}, g) \in SUBSET (Units(rows, g) \cup own)
  <2>1. SUFFICES ASSUME NEW u \in Units(rows \cup {d}, g)
                 PROVE  u \in Units(rows, g) \cup own
    OBVIOUS
  <2>2. u \in (rows \cup {d}) \X (1..MaxMb) /\ g \in u[1].gpus /\ u[2] <= Share(u[1], g)
    BY <2>1 DEF Units
  <2>3. CASE u[1] \in rows
    BY <2>2, <2>3 DEF Units
  <2>4. CASE u[1] = d
    BY <1>1, <2>2, <2>4
  <2> QED
    BY <2>2, <2>3, <2>4
<1>5. Claimed(rows \cup {d}, g) <= Claimed(rows, g) + Share(d, g)
  <2>1. /\ IsFiniteSet(Units(rows, g) \cup own)
        /\ Cardinality(Units(rows, g) \cup own) =
             Cardinality(Units(rows, g)) + Cardinality(own)
               - Cardinality(Units(rows, g) \cap own)
    BY <1>2, <1>3, FS_Union
  <2>2. Cardinality(Units(rows, g) \cap own) \in Nat
    BY <1>3, FS_Intersection, FS_CardinalityType
  <2>3. Cardinality(Units(rows \cup {d}, g)) <= Cardinality(Units(rows, g) \cup own)
    BY <1>4, <2>1, FS_Subset
  <2>4. Cardinality(Units(rows \cup {d}, g)) \in Nat
    BY <1>4, <2>1, FS_Subset, FS_CardinalityType
  <2> QED
    BY <1>1, <1>2, <1>3, <2>1, <2>2, <2>3, <2>4 DEF Claimed
<1>6. ASSUME g \notin d.gpus
      PROVE  Claimed(rows \cup {d}, g) = Claimed(rows, g)
  <2>1. Units(rows \cup {d}, g) = Units(rows, g)
    BY <1>6 DEF Units
  <2> QED
    BY <2>1 DEF Claimed
<1> QED
  BY <1>5, <1>6

\* A row takes its whole share of a card it names.
LEMMA ClaimedRemove ==
  ASSUME NEW rows, IsFiniteSet(rows), NEW d \in rows, NEW g \in Gpu, g \in d.gpus,
         d.mb \in 0..MaxMb
  PROVE  Claimed(rows, g) >= Claimed(rows \ {d}, g) + Share(d, g)
<1> DEFINE own  == {d} \X (1..Share(d, g))
           rest == Units(rows \ {d}, g)
<1>1. Share(d, g) \in Nat /\ Share(d, g) <= MaxMb
  BY FleetAssumption DEF Share
<1>2. IsFiniteSet(own) /\ Cardinality(own) = Share(d, g)
  BY <1>1, LabelledSize
<1>3. IsFiniteSet(rest) /\ Cardinality(rest) \in Nat
  BY FS_RemoveElement, ClaimedType DEF Claimed
<1>4. IsFiniteSet(Units(rows, g)) /\ Claimed(rows, g) \in Nat
  BY ClaimedType
<1>5. rest \cup own \subseteq Units(rows, g) /\ rest \cap own = {}
  <2>1. own \subseteq Units(rows, g)
    <3> SUFFICES ASSUME NEW k \in 1..Share(d, g) PROVE <<d, k>> \in Units(rows, g)
      OBVIOUS
    <3>1. k \in 1..MaxMb /\ k <= Share(d, g)
      BY <1>1, FleetAssumption
    <3> QED
      BY <3>1 DEF Units
  <2>2. rest \subseteq Units(rows, g) /\ \A u \in rest : u[1] # d
    BY DEF Units
  <2> QED
    BY <2>1, <2>2
<1> HIDE DEF own
<1>6. Cardinality(rest \cup own) = Cardinality(rest) + Cardinality(own)
  <2>1. Cardinality(rest \cap own) = 0
    BY <1>5, FS_EmptySet
  <2>2. Cardinality(rest \cup own)
          = Cardinality(rest) + Cardinality(own) - Cardinality(rest \cap own)
    BY <1>2, <1>3, FS_Union
  <2> HIDE DEF rest
  <2> QED
    BY <1>1, <1>2, <1>3, <2>1, <2>2
<1>7. Cardinality(rest \cup own) <= Cardinality(Units(rows, g))
  BY <1>4, <1>5, FS_Subset
<1> QED
  BY <1>2, <1>6, <1>7 DEF Claimed

\* Rows that fit still fit when some of them are released.
LEMMA FitsSubset ==
  ASSUME NEW S, NEW T, S \subseteq T, IsFiniteSet(T), Fits(T)
  PROVE  Fits(S)
<1>1. SUFFICES ASSUME NEW g \in Gpu, Claimed(S, g) > 0
               PROVE  Claimed(S, g) + RESERVE_MB <= Total[g]
  BY DEF Fits, CardFits
<1>2. Claimed(S, g) <= Claimed(T, g)
  BY ClaimedMonotone
<1>3. Claimed(S, g) \in Nat /\ Claimed(T, g) \in Nat
  BY ClaimedMonotone, ClaimedType
<1>4. Claimed(T, g) + RESERVE_MB <= Total[g]
  BY <1>1, <1>2, <1>3 DEF Fits, CardFits
<1> QED
  BY <1>2, <1>3, <1>4, FleetAssumption

\* The check of _reserve is enough: rows that fit still fit together with a row
\* for which available_mb found room on each of its cards.
LEMMA FitsAdd ==
  ASSUME NEW rows, IsFiniteSet(rows), Fits(rows),
         NEW d \in Row, d.mb > 0,
         NEW used \in [Gpu -> Nat],
         \A g \in d.gpus : Available(rows, used, g) >= d.mb
  PROVE  Fits(rows \cup {d})
<1>1. SUFFICES ASSUME NEW g \in Gpu, Claimed(rows \cup {d}, g) > 0
               PROVE  Claimed(rows \cup {d}, g) + RESERVE_MB <= Total[g]
  BY DEF Fits, CardFits
<1>2. Claimed(rows, g) \in Nat
  BY ClaimedType
<1>3. IsFiniteSet(rows \cup {d})
  BY FS_AddElement
<1>4. Claimed(rows \cup {d}, g) \in Nat
  BY <1>3, ClaimedType
<1>5. d.mb \in 0..MaxMb /\ d.mb \in Nat
  BY FleetAssumption DEF Row
<1>6. CASE g \in d.gpus
  <2>1. Claimed(rows \cup {d}, g) <= Claimed(rows, g) + d.mb
    BY <1>5, ClaimedAdd DEF Share
  <2>2. Available(rows, used, g) >= d.mb
    BY <1>6
  <2>3. Claimed(rows, g) + d.mb + RESERVE_MB <= Total[g]
    BY <1>2, <1>5, <2>2, FleetAssumption DEF Available
  <2> QED
    BY <1>2, <1>4, <1>5, <2>1, <2>3, FleetAssumption
<1>7. CASE g \notin d.gpus
  <2>1. Claimed(rows \cup {d}, g) = Claimed(rows, g)
    BY <1>5, <1>7, ClaimedAdd
  <2> QED
    BY <1>1, <2>1 DEF Fits, CardFits
<1> QED
  BY <1>6, <1>7

\* allocate_port finds a port of every machine whose range is not taken up.
LEMMA NextPort ==
  ASSUME NEW rows, NEW n, ~ (Port \subseteq TakenPorts(rows, n))
  PROVE  \E p \in Port : IsNextPort(rows, n, p)
<1> DEFINE S == Port \ TakenPorts(rows, n)
<1>1. S \subseteq Nat /\ S # {}
  BY FleetAssumption
<1> HIDE DEF S
<1>2. PICK p \in S : \A q \in S : p <= q
  BY <1>1, LeastNat
<1> QED
  BY <1>2 DEF S, IsNextPort
=============================================================================
