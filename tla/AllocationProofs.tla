-------------------------- MODULE AllocationProofs --------------------------
(***************************************************************************)
(* The allocator's safety for every fleet, every set of requests and every *)
(* number of retries.  The inductive invariant is about the ledger a claim *)
(* is checked against: the committed rows together with the rows that the  *)
(* lock's holder has flushed.                                              *)
(*                                                                         *)
(* With restarts beside it that invariant is lost, for restarts give out   *)
(* ports and cards without asking; what the allocator still promises, for  *)
(* any fleet, requests and restarts, is that the claims of deploy requests *)
(* fit together: each of them was measured against at least the others.    *)
(***************************************************************************)
EXTENDS AllocationRestart, CapacityTheorems

\* Being in the reserving part of a request is holding the lock, and only the
\* holder has rows that are written and not committed.
LockInv ==
  /\ \A r \in Request : pc[r] = "reserving" <=> lock = r
  /\ lock = NoRequest => flushed = {}

\* A flushed row is the holder's; a committed one belongs to a request that has
\* been granted, so nobody commits twice.
OwnerInv ==
  /\ \A d \in flushed : d.by = lock
  /\ \A d \in active : d.by \in Request /\ pc[d.by] = "granted"

FiniteInv == IsFiniteSet(active) /\ IsFiniteSet(flushed)

LedgerInv == Fits(Ledger) /\ PortsDistinct(Ledger)

\* A request that goes to the lock has something to reserve, so that a grant is
\* never empty.
TargetInv ==
  \A r \in Request :
    /\ pc[r] \in {"checking", "waiting"} => todo[r] # {}
    /\ pc[r] = "reserving" => todo[r] # {} \/ flushed # {}

IInv == TypeOK /\ FiniteInv /\ LockInv /\ OwnerInv /\ LedgerInv /\ TargetInv

-----------------------------------------------------------------------------
\* resolve_targets returns well-formed targets, and at least one of them when a
\* candidate node is feasible.
LEMMA PlacementsType ==
  ASSUME NEW r \in Request, NEW T \in Placements(r)
  PROVE  T \in SUBSET Target /\ (Feasible(r) # {} => T # {})
<1>1. CASE Explicit[r] # {}
  BY <1>1, RequestAssumption DEF Placements
<1>2. CASE Explicit[r] = {}
  <2>1. T \subseteq Options(r) /\ IsPlacement(view[r], CardModel, PlanDemand(r), T)
    BY <1>2 DEF Placements
  <2>2. Feasible(r) \subseteq Node
    BY RequestAssumption DEF Feasible, Candidates, PlanDemand
  <2>3. \A n : Groups(view[r], CardModel, PlanDemand(r), n) \subseteq SUBSET Gpu
    BY DEF Groups
  <2>4. T \in SUBSET Target
    BY <2>1, <2>2, <2>3 DEF Options, Target
  <2>5. ASSUME T = {}
        PROVE  Feasible(r) = {}
    <3>1. Cardinality(T) = 0 /\ PlanDemand(r).replicas # 0
      BY <2>5, FS_EmptySet, RequestAssumption DEF PlanDemand
    <3> QED
      BY <2>1, <2>5, <3>1 DEF IsPlacement, Feasible
  <2> QED
    BY <2>4, <2>5
<1> QED
  BY <1>1, <1>2

LEMMA NothingLoadedType == NothingLoaded \in View
BY RequestAssumption DEF NothingLoaded, View

\* Closing a session leaves the request's fields well typed.
LEMMA FinishType ==
  ASSUME TypeOK, NEW r \in Request,
         NEW answer \in Running \cup Answered, Finish(r, answer)
  PROVE  /\ pc' \in [Request -> Running \cup Answered \cup {"new"}]
         /\ view' \in [Request -> View]
         /\ todo' \in [Request -> SUBSET Target]
BY NothingLoadedType DEF TypeOK, Finish

LEMMA RowForType ==
  ASSUME NEW r \in Request, NEW t \in Target, NEW p \in Port
  PROVE  /\ RowFor(r, t, p) \in Row
         /\ RowFor(r, t, p).mb = Need[r]
         /\ RowFor(r, t, p).mb > 0
         /\ RowFor(r, t, p).by = r
         /\ RowFor(r, t, p).node = t.node
         /\ RowFor(r, t, p).gpus = t.gpus
         /\ RowFor(r, t, p).port = p
BY RequestAssumption, FleetAssumption DEF RowFor, Row, Target

\* Every step keeps the fields within their types.
LEMMA TypeStep ==
  ASSUME TypeOK, [Next]_vars
  PROVE  TypeOK'
<1>1. ASSUME NEW r \in Request, Load(r)
      PROVE  TypeOK'
  <2>1. CASE pc' = [pc EXCEPT ![r] = "planning"] /\ view' = [view EXCEPT ![r] = Snapshot]
             /\ UNCHANGED todo
    BY <1>1, <2>1 DEF Load, TypeOK, Snapshot, View, Running
  <2>2. CASE Finish(r, "refused")
    BY <1>1, <2>2, FinishType DEF Load, TypeOK, Answered
  <2> QED
    BY <1>1, <2>1, <2>2 DEF Load
<1>2. ASSUME NEW r \in Request, Place(r)
      PROVE  TypeOK'
  <2>1. CASE Finish(r, "refused") /\ UNCHANGED tries
    BY <1>2, <2>1, FinishType DEF Place, TypeOK, Answered
  <2>2. CASE /\ \E T \in Placements(r) : todo' = [todo EXCEPT ![r] = T]
             /\ pc' = [pc EXCEPT ![r] = "checking"]
             /\ tries' = [tries EXCEPT ![r] = @ + 1]
             /\ UNCHANGED view
    BY <1>2, <2>2, PlacementsType DEF Place, TypeOK, Running
  <2> QED
    BY <1>2, <2>1, <2>2 DEF Place
<1>3. ASSUME NEW r \in Request, CheckQuota(r)
      PROVE  TypeOK'
  <2>1. CASE Finish(r, "refused")
    BY <1>3, <2>1, FinishType DEF CheckQuota, TypeOK, Answered
  <2>2. CASE pc' = [pc EXCEPT ![r] = "waiting"] /\ UNCHANGED <<view, todo>>
    BY <1>3, <2>2 DEF CheckQuota, TypeOK, Running
  <2> QED
    BY <1>3, <2>1, <2>2 DEF CheckQuota
<1>4. ASSUME NEW r \in Request, Acquire(r)
      PROVE  TypeOK'
  BY <1>4 DEF Acquire, TypeOK, Running
<1>5. ASSUME NEW r \in Request, Commit(r)
      PROVE  TypeOK'
  BY <1>5, FinishType DEF Commit, TypeOK, Answered
<1>6. ASSUME NEW r \in Request, Reload(r)
      PROVE  TypeOK'
  BY <1>6 DEF Reload, TypeOK, Snapshot, View, Running
<1>7. ASSUME NEW r \in Request, NEW t \in todo[r], Reserve(r, t)
      PROVE  TypeOK'
  <2>1. t \in Target
    BY <1>7 DEF TypeOK
  <2>2. flushed' \subseteq Row
    BY <1>7, <2>1, RowForType DEF Reserve, TypeOK
  <2> QED
    BY <1>7, <2>2 DEF Reserve, TypeOK
<1>8. ASSUME NEW r \in Request, NEW t \in todo[r], LoseRace(r, t)
      PROVE  TypeOK'
  <2> DEFINE answer == IF Explicit[r] = {} /\ tries[r] < PLACEMENT_RETRIES
                       THEN "expired" ELSE "refused"
  <2>1. answer \in Running \cup Answered
    BY DEF Running, Answered
  <2>2. Finish(r, answer)
    BY <1>8 DEF LoseRace
  <2> QED
    BY <1>8, <2>1, <2>2, FinishType DEF LoseRace, TypeOK
<1>9. ASSUME NEW r \in Request, NEW t \in todo[r], Refuse(r, t)
      PROVE  TypeOK'
  BY <1>9, FinishType DEF Refuse, TypeOK, Answered
<1>10. ASSUME NEW d \in active, Release(d)
       PROVE  TypeOK'
  BY <1>10 DEF Release, TypeOK
<1>11. ASSUME NEW g \in Polled, PollUsage(g)
       PROVE  TypeOK'
  BY <1>11 DEF PollUsage, TypeOK
<1>12. ASSUME NEW n \in Drainable, SetStatus(n)
       PROVE  TypeOK'
  BY <1>12 DEF SetStatus, TypeOK
<1>13. CASE Crash
  BY <1>13, NothingLoadedType DEF Crash, TypeOK, Answered
<1>14. CASE UNCHANGED vars
  BY <1>14 DEF vars, TypeOK
<1>15. ASSUME NEW r \in Request, EntryExpired(r)
       PROVE  TypeOK'
  BY <1>15, FinishType DEF EntryExpired, TypeOK, Answered
<1> QED
  BY <1>1, <1>2, <1>3, <1>4, <1>5, <1>6, <1>7, <1>8, <1>9, <1>10, <1>11, <1>12,
     <1>13, <1>14, <1>15 DEF Next, RequestStep

LEMMA TypeInit == Init => TypeOK
BY NothingLoadedType, RequestAssumption DEF Init, TypeOK, Running, Answered

\* Every reachable state is well typed: the rows of the ledger are deployments
\* with a port of the range and a reservation no larger than the largest card.
THEOREM TypeCorrect == Spec => []TypeOK
<1>1. Init => TypeOK
  BY TypeInit
<1>2. TypeOK /\ [Next]_vars => TypeOK'
  BY TypeStep
<1> QED
  BY <1>1, <1>2, PTL DEF Spec

-----------------------------------------------------------------------------
LEMMA EmptyFits == Fits({}) /\ PortsDistinct({})
<1>1. \A g \in Gpu : Claimed({}, g) = 0
  <2>1. \A g \in Gpu : Units({}, g) = {}
    BY DEF Units
  <2> QED
    BY <2>1, FS_EmptySet DEF Claimed
<1> QED
  BY <1>1 DEF Fits, CardFits, PortsDistinct

LEMMA InvInit == Init => IInv
BY TypeInit, EmptyFits, FS_EmptySet, RequestAssumption
   DEF Init, IInv, FiniteInv, LockInv, OwnerInv, LedgerInv, Ledger, TargetInv

\* A step that leaves the rows and the lock alone keeps the invariant.
LEMMA QuietStep ==
  ASSUME IInv, TypeOK', TargetInv', UNCHANGED <<active, flushed, lock>>,
         \A q \in Request : pc'[q] = "reserving" <=> pc[q] = "reserving",
         \A q \in Request : pc[q] = "granted" => pc'[q] = "granted"
  PROVE  IInv'
BY DEF IInv, FiniteInv, LockInv, OwnerInv, LedgerInv, Ledger

\* Giving up the lock drops the rows that were not committed.
LEMMA DropStep ==
  ASSUME IInv, TypeOK', TargetInv', UNCHANGED active, flushed' = {}, lock' = NoRequest,
         \A q \in Request : pc'[q] # "reserving",
         \A q \in Request : pc[q] = "granted" => pc'[q] = "granted"
  PROVE  IInv'
<1>1. active \subseteq Ledger /\ Ledger' = active
  BY DEF Ledger
<1>2. IsFiniteSet(Ledger)
  BY FS_Union DEF IInv, FiniteInv, Ledger
<1>3. Fits(active) /\ PortsDistinct(active)
  BY <1>1, <1>2, FitsSubset DEF IInv, LedgerInv, PortsDistinct
<1>4. LedgerInv'
  BY <1>1, <1>3 DEF LedgerInv, Fits, CardFits, PortsDistinct
<1>5. FiniteInv' /\ LockInv' /\ OwnerInv'
  BY FS_EmptySet, RequestAssumption DEF IInv, FiniteInv, LockInv, OwnerInv
<1> QED
  BY <1>4, <1>5 DEF IInv

\* A claim that passed the check under the lock keeps the ledger sound.
LEMMA ReserveStep ==
  ASSUME IInv, TypeOK', NEW r \in Request, NEW t \in todo[r], Reserve(r, t)
  PROVE  IInv'
<1>1. PICK p \in Port : /\ IsNextPort(Ledger, t.node, p)
                        /\ flushed' = flushed \cup {RowFor(r, t, p)}
  BY DEF Reserve
<1> DEFINE d == RowFor(r, t, p)
<1>2. t \in Target
  BY DEF IInv, TypeOK
<1>3. d \in Row /\ d.mb = Need[r] /\ d.mb > 0 /\ d.by = r /\ d.node = t.node
      /\ d.gpus = t.gpus /\ d.port = p
  BY <1>2, RowForType
<1> HIDE DEF d
<1>4. IsFiniteSet(Ledger)
  BY FS_Union DEF IInv, FiniteInv, Ledger
<1>5. Ledger' = Ledger \cup {d}
  BY <1>1 DEF Reserve, Ledger, d
<1>6. Fits(Ledger \cup {d})
  <2>1. view[r].used \in [Gpu -> Nat]
    <3>1. view[r].used \in [Gpu -> UsageReading]
      BY DEF IInv, TypeOK, View
    <3>2. UsageReading \subseteq Nat
      BY RequestAssumption
    <3> QED
      BY <3>1, <3>2
  <2>2. \A g \in d.gpus : Available(Ledger, view[r].used, g) >= d.mb
    BY <1>3 DEF Reserve, HasRoom
  <2> QED
    BY <1>3, <1>4, <2>1, <2>2, FitsAdd DEF IInv, LedgerInv
<1>7. PortsDistinct(Ledger \cup {d})
  <2>1. \A e \in Ledger : e.node = d.node => e.port # d.port
    BY <1>1, <1>3 DEF IsNextPort, TakenPorts
  <2> QED
    BY <2>1 DEF IInv, LedgerInv, PortsDistinct
<1>8. LedgerInv'
  BY <1>5, <1>6, <1>7 DEF LedgerInv, Fits, CardFits, PortsDistinct
<1>9. FiniteInv'
  BY <1>1, FS_AddElement DEF Reserve, IInv, FiniteInv
<1>10. LockInv' /\ OwnerInv'
  BY <1>1, <1>3, RequestAssumption DEF Reserve, IInv, LockInv, OwnerInv, d
<1>11. TargetInv'
  BY <1>1 DEF Reserve, IInv, TypeOK, TargetInv, LockInv
<1> QED
  BY <1>8, <1>9, <1>10, <1>11 DEF IInv

\* Committing moves the holder's rows into the ledger they were checked in.
LEMMA CommitStep ==
  ASSUME IInv, TypeOK', NEW r \in Request, Commit(r)
  PROVE  IInv'
<1>1. Ledger' = Ledger
  BY DEF Commit, Ledger
<1>2. LedgerInv'
  BY <1>1 DEF IInv, LedgerInv, Fits, CardFits, PortsDistinct
<1>3. FiniteInv'
  BY FS_Union, FS_EmptySet DEF Commit, IInv, FiniteInv
<1>4. LockInv'
  BY RequestAssumption DEF Commit, Finish, IInv, TypeOK, LockInv
<1>5. OwnerInv'
  BY DEF Commit, Finish, IInv, TypeOK, OwnerInv
<1>6. TargetInv'
  BY DEF Commit, Finish, IInv, TypeOK, TargetInv, LockInv
<1> QED
  BY <1>2, <1>3, <1>4, <1>5, <1>6 DEF IInv

\* A deployment that gives its cards back leaves the others' claims sound.
LEMMA ReleaseStep ==
  ASSUME IInv, TypeOK', NEW d \in active, Release(d)
  PROVE  IInv'
<1>1. Ledger' \subseteq Ledger
  BY DEF Release, Ledger
<1>2. IsFiniteSet(Ledger)
  BY FS_Union DEF IInv, FiniteInv, Ledger
<1>3. Fits(Ledger') /\ PortsDistinct(Ledger')
  BY <1>1, <1>2, FitsSubset DEF IInv, LedgerInv, PortsDistinct
<1>4. LedgerInv'
  BY <1>3 DEF LedgerInv, Fits, CardFits, PortsDistinct
<1>5. FiniteInv'
  BY FS_RemoveElement DEF Release, IInv, FiniteInv
<1>6. LockInv' /\ OwnerInv' /\ TargetInv'
  BY DEF Release, IInv, LockInv, OwnerInv, TargetInv
<1> QED
  BY <1>4, <1>5, <1>6 DEF IInv

LEMMA InvStep ==
  ASSUME IInv, [Next]_vars
  PROVE  IInv'
<1>1. TypeOK'
  BY TypeStep DEF IInv
<1>2. ASSUME NEW r \in Request, Load(r)
      PROVE  IInv'
  <2>1. TargetInv'
    BY <1>2 DEF Load, Finish, IInv, TypeOK, TargetInv
  <2> QED
    BY <1>1, <1>2, <2>1, QuietStep DEF Load, Finish, IInv, TypeOK
<1>3. ASSUME NEW r \in Request, Place(r)
      PROVE  IInv'
  <2>1. TargetInv'
    BY <1>3, PlacementsType DEF Place, Finish, IInv, TypeOK, TargetInv
  <2> QED
    BY <1>1, <1>3, <2>1, QuietStep DEF Place, Finish, IInv, TypeOK
<1>4. ASSUME NEW r \in Request, CheckQuota(r)
      PROVE  IInv'
  <2>1. TargetInv'
    BY <1>4 DEF CheckQuota, Finish, IInv, TypeOK, TargetInv
  <2> QED
    BY <1>1, <1>4, <2>1, QuietStep DEF CheckQuota, Finish, IInv, TypeOK
<1>5. ASSUME NEW r \in Request, Acquire(r)
      PROVE  IInv'
  BY <1>1, <1>5, RequestAssumption
     DEF Acquire, IInv, TypeOK, FiniteInv, LockInv, OwnerInv, LedgerInv, Ledger, TargetInv
<1>6. ASSUME NEW r \in Request, Reload(r)
      PROVE  IInv'
  <2>1. TargetInv'
    BY <1>6 DEF Reload, IInv, TypeOK, TargetInv
  <2> QED
    BY <1>1, <1>6, <2>1, QuietStep DEF Reload, IInv, TypeOK
<1>7. ASSUME NEW r \in Request, NEW t \in todo[r], LoseRace(r, t)
      PROVE  IInv'
  <2>1. TargetInv'
    BY <1>7 DEF LoseRace, Finish, IInv, TypeOK, LockInv, TargetInv
  <2> QED
    BY <1>1, <1>7, <2>1, DropStep DEF LoseRace, Finish, IInv, TypeOK, LockInv
<1>8. ASSUME NEW r \in Request, NEW t \in todo[r], Refuse(r, t)
      PROVE  IInv'
  <2>1. TargetInv'
    BY <1>8 DEF Refuse, Finish, IInv, TypeOK, LockInv, TargetInv
  <2> QED
    BY <1>1, <1>8, <2>1, DropStep DEF Refuse, Finish, IInv, TypeOK, LockInv
<1>9. CASE Crash
  <2>1. TargetInv'
    BY <1>9 DEF Crash, Running, IInv, TypeOK, TargetInv
  <2> QED
    BY <1>1, <1>9, <2>1, DropStep DEF Crash, Running, IInv, TypeOK
<1>10. ASSUME NEW g \in Polled, PollUsage(g)
       PROVE  IInv'
  BY <1>1, <1>10, QuietStep DEF PollUsage, IInv, TargetInv
<1>11. ASSUME NEW n \in Drainable, SetStatus(n)
       PROVE  IInv'
  BY <1>1, <1>11, QuietStep DEF SetStatus, IInv, TargetInv
<1>12. CASE UNCHANGED vars
  BY <1>1, <1>12, QuietStep DEF vars, IInv, TargetInv
<1>13. ASSUME NEW r \in Request, EntryExpired(r)
       PROVE  IInv'
  <2>1. TargetInv'
    BY <1>13 DEF EntryExpired, Finish, IInv, TypeOK, TargetInv
  <2> QED
    BY <1>1, <1>13, <2>1, QuietStep DEF EntryExpired, Finish, IInv, TypeOK
<1> QED
  BY <1>1, <1>2, <1>3, <1>4, <1>5, <1>6, <1>7, <1>8, <1>9, <1>10, <1>11, <1>12, <1>13,
     ReserveStep, CommitStep, ReleaseStep DEF Next, RequestStep

-----------------------------------------------------------------------------
THEOREM Invariance == Spec => []IInv
<1>1. IInv /\ [Next]_vars => IInv'
  BY InvStep
<1> QED
  BY <1>1, InvInit, PTL DEF Spec

\* No card is ever claimed beyond its memory less the headroom, and no two
\* active deployments of a node share a port, for any fleet and any requests:
\* the promise the allocation lock is there to keep.
THEOREM Safety == Spec => [](NoOversubscription /\ PortsUnique)
<1>1. IInv => NoOversubscription /\ PortsUnique
  <2> SUFFICES ASSUME IInv
               PROVE  NoOversubscription /\ PortsUnique
    OBVIOUS
  <2>1. active \subseteq Ledger
    BY DEF Ledger
  <2>2. IsFiniteSet(Ledger)
    BY FS_Union DEF IInv, FiniteInv, Ledger
  <2> QED
    BY <2>1, <2>2, FitsSubset
       DEF IInv, LedgerInv, NoOversubscription, PortsUnique, PortsDistinct
<1> QED
  BY <1>1, Invariance, PTL

\* The half of it that is about ports: allocate_port never hands one port of a
\* machine to two active deployments.
THEOREM PortsSafe == Spec => []PortsUnique
BY Safety, PTL

-----------------------------------------------------------------------------
\* A step that commits no row and answers no request "granted" is a stutter of
\* the pool.
LEMMA PoolStutter ==
  ASSUME UNCHANGED active,
         \A q \in Request : pc'[q] = "granted" <=> pc[q] = "granted"
  PROVE  UNCHANGED Pool!pvars
BY DEF Pool!pvars

LEMMA CommitGrants ==
  ASSUME IInv, IInv', NEW r \in Request, Commit(r)
  PROVE  Pool!Grant(r)
<1> DEFINE served == {q \in Request : pc[q] = "granted"}
<1>1. pc[r] = "reserving" /\ lock = r /\ active' = active \cup flushed
      /\ pc' = [pc EXCEPT ![r] = "granted"]
  BY DEF Commit, Finish
<1>2. flushed # {} /\ \A d \in flushed : d.by = r
  BY <1>1 DEF Commit, IInv, TargetInv, OwnerInv
<1>3. \A d \in active : d.by # r
  BY <1>1 DEF IInv, OwnerInv
<1>4. active' # active /\ active \subseteq active' /\ active' \subseteq Row
  BY <1>1, <1>2, <1>3 DEF IInv, TypeOK
<1>5. \A d \in active' \ active : d.by = r
  BY <1>1, <1>2
<1>6. Fits(active') /\ PortsDistinct(active')
  <2>1. active' = Ledger
    BY <1>1 DEF Ledger
  <2> QED
    BY <2>1 DEF IInv, LedgerInv
<1>7. r \notin served /\ served' = served \cup {r}
  BY <1>1 DEF IInv, TypeOK
<1> QED
  BY <1>4, <1>5, <1>6, <1>7 DEF Pool!Grant, Together

LEMMA PoolStep ==
  ASSUME IInv, IInv', [Next]_vars
  PROVE  [Pool!Next]_(Pool!pvars)
<1>1. ASSUME NEW r \in Request, RequestStep(r)
      PROVE  [Pool!Next]_(Pool!pvars)
  <2>1. CASE Commit(r)
    BY <2>1, CommitGrants, RequestAssumption DEF Pool!Next
  <2>2. CASE \/ Load(r) \/ Place(r) \/ CheckQuota(r) \/ Acquire(r)
             \/ EntryExpired(r) \/ Reload(r)
    BY <2>2, PoolStutter
       DEF Load, Place, CheckQuota, Acquire, EntryExpired, Reload, Finish, IInv, TypeOK
  <2>3. ASSUME NEW t \in todo[r], Reserve(r, t) \/ LoseRace(r, t) \/ Refuse(r, t)
        PROVE  [Pool!Next]_(Pool!pvars)
    BY <2>3, PoolStutter DEF Reserve, LoseRace, Refuse, Finish, IInv, TypeOK
  <2> QED
    BY <1>1, <2>1, <2>2, <2>3 DEF RequestStep
<1>2. ASSUME NEW d \in active, Release(d)
      PROVE  [Pool!Next]_(Pool!pvars)
  BY <1>2 DEF Release, Pool!Next, Pool!Release
<1>3. CASE Crash
  BY <1>3, PoolStutter DEF Crash, Running, IInv, TypeOK
<1>4. ASSUME NEW g \in Polled, PollUsage(g)
      PROVE  [Pool!Next]_(Pool!pvars)
  BY <1>4, PoolStutter DEF PollUsage
<1>5. ASSUME NEW n \in Drainable, SetStatus(n)
      PROVE  [Pool!Next]_(Pool!pvars)
  BY <1>5, PoolStutter DEF SetStatus
<1>6. CASE UNCHANGED vars
  BY <1>6, PoolStutter DEF vars
<1> QED
  BY <1>1, <1>2, <1>3, <1>4, <1>5, <1>6 DEF Next

\* The claim protocol implements the pool: each request gets all of its rows in
\* one step, at most once, and only when they fit with what is held already.
THEOREM Refinement == Spec => ImplementsPool
<1>1. Init => Pool!Init
  BY DEF Init, Pool!Init
<1>2. IInv /\ IInv' /\ [Next]_vars => [Pool!Next]_(Pool!pvars)
  BY PoolStep
<1> QED
  BY <1>1, <1>2, Invariance, PTL DEF Spec, Pool!Spec, ImplementsPool

-----------------------------------------------------------------------------
\* The part of the invariant that does not look at what is committed, and that
\* restarts therefore leave alone.
HolderInv == \A d \in flushed : d.by = lock

ClaimInv == TypeOK /\ FiniteInv /\ LockInv /\ HolderInv

\* What a placement names is on different nodes: the targets still to be
\* reserved, those against the rows written, and the rows of one request.
Planned(r) == r \in Request /\ Explicit[r] = {}

Apart(S) == \A t, u \in S : t # u => t.node # u.node

AwayInv ==
  \A r \in Request : Planned(r) =>
    /\ Apart(todo[r])
    /\ lock = r => \A d \in flushed, t \in todo[r] : d.node # t.node

RowsApart ==
  \A d, e \in Ledger : d # e /\ d.by = e.by /\ Planned(d.by) => d.node # e.node

LEMMA PlacementsApart ==
  ASSUME NEW r \in Request, NEW T \in Placements(r), Planned(r)
  PROVE  Apart(T)
BY DEF Placements, Planned, IsPlacement, Apart

LEMMA HolderInit == Init => ClaimInv /\ AwayInv /\ RowsApart
<1> SUFFICES ASSUME Init PROVE ClaimInv /\ AwayInv /\ RowsApart
  OBVIOUS
<1>1. ClaimInv
  BY InvInit DEF IInv, OwnerInv, HolderInv, ClaimInv
<1> QED
  BY <1>1, RequestAssumption DEF Init, AwayInv, RowsApart, Apart, Ledger

\* Only the holder of the lock writes, and giving up the lock drops what it wrote.
LEMMA HolderStep ==
  ASSUME ClaimInv, [Next]_vars
  PROVE  LockInv' /\ HolderInv'
<1> USE DEF ClaimInv, HolderInv
<1>1. ASSUME UNCHANGED <<flushed, lock>>,
             \A q \in Request : pc'[q] = "reserving" <=> pc[q] = "reserving"
      PROVE  LockInv' /\ HolderInv'
  BY <1>1 DEF LockInv
<1>2. ASSUME flushed' = {}, lock' = NoRequest, \A q \in Request : pc'[q] # "reserving"
      PROVE  LockInv' /\ HolderInv'
  BY <1>2, RequestAssumption DEF LockInv
<1>3. ASSUME NEW r \in Request,
             Load(r) \/ Place(r) \/ CheckQuota(r) \/ EntryExpired(r) \/ Reload(r)
      PROVE  LockInv' /\ HolderInv'
  BY <1>1, <1>3 DEF Load, Place, CheckQuota, EntryExpired, Reload, Finish, TypeOK
<1>4. ASSUME NEW r \in Request, Acquire(r)
      PROVE  LockInv' /\ HolderInv'
  BY <1>4, RequestAssumption DEF Acquire, LockInv, TypeOK
<1>5. ASSUME NEW r \in Request, Commit(r)
      PROVE  LockInv' /\ HolderInv'
  BY <1>2, <1>5 DEF Commit, Finish, LockInv, TypeOK
<1>6. ASSUME NEW r \in Request, NEW t \in todo[r], Reserve(r, t)
      PROVE  LockInv' /\ HolderInv'
  BY <1>6, RequestAssumption DEF Reserve, RowFor, LockInv
<1>7. ASSUME NEW r \in Request, NEW t \in todo[r], LoseRace(r, t) \/ Refuse(r, t)
      PROVE  LockInv' /\ HolderInv'
  BY <1>2, <1>7 DEF LoseRace, Refuse, Finish, LockInv, TypeOK
<1>8. ASSUME NEW d \in active, Release(d) PROVE LockInv' /\ HolderInv'
  BY <1>1, <1>8 DEF Release
<1>9. ASSUME NEW g \in Polled, PollUsage(g) PROVE LockInv' /\ HolderInv'
  BY <1>1, <1>9 DEF PollUsage
<1>10. ASSUME NEW n \in Drainable, SetStatus(n) PROVE LockInv' /\ HolderInv'
  BY <1>1, <1>10 DEF SetStatus
<1>11. CASE Crash
  BY <1>2, <1>11 DEF Crash, Running, TypeOK
<1>12. CASE UNCHANGED vars
  BY <1>1, <1>12 DEF vars
<1> QED
  BY <1>3, <1>4, <1>5, <1>6, <1>7, <1>8, <1>9, <1>10, <1>11, <1>12 DEF Next, RequestStep

\* A step that writes no row and plans nothing.
LEMMA AwayKept ==
  ASSUME AwayInv, flushed' \subseteq flushed, flushed' = {} \/ lock' = lock,
         \A r \in Request : todo'[r] \subseteq todo[r]
  PROVE  AwayInv'
BY DEF AwayInv, Apart, Planned

LEMMA AwayPlace ==
  ASSUME ClaimInv, AwayInv, NEW r \in Request, Place(r)
  PROVE  AwayInv'
<1>1. UNCHANGED <<flushed, lock>> /\ lock # r
  BY DEF Place, ClaimInv, LockInv
<1>2. todo'[r] = {} \/ \E T \in Placements(r) : todo'[r] = T
  BY DEF Place, Finish, ClaimInv, TypeOK
<1>3. \A q \in Request \ {r} : todo'[q] = todo[q]
  BY DEF Place, Finish, ClaimInv, TypeOK
<1>4. Planned(r) => Apart(todo'[r])
  BY <1>2, PlacementsApart DEF Apart
<1> QED
  BY <1>1, <1>3, <1>4 DEF AwayInv, Planned, Apart

\* The row that is written is on the node of its target, which no other target
\* of the request is on.
LEMMA AwayReserve ==
  ASSUME ClaimInv, AwayInv, NEW r \in Request, NEW t \in todo[r], Reserve(r, t)
  PROVE  AwayInv'
<1>1. PICK p \in Port : flushed' = flushed \cup {RowFor(r, t, p)}
  BY DEF Reserve
<1> DEFINE d == RowFor(r, t, p)
<1>2. d.node = t.node
  BY DEF RowFor
<1> HIDE DEF d
<1>3. /\ lock = r /\ UNCHANGED lock /\ flushed' = flushed \cup {d}
      /\ todo'[r] = todo[r] \ {t} /\ \A q \in Request \ {r} : todo'[q] = todo[q]
  BY <1>1 DEF Reserve, ClaimInv, TypeOK, d
<1>4. Planned(r) => \A u \in todo[r] \ {t} : d.node # u.node
  BY <1>2 DEF AwayInv, Apart
<1>5. ASSUME NEW q \in Request, Planned(q)
      PROVE  Apart(todo'[q]) /\ (lock' = q => \A e \in flushed', u \in todo'[q] : e.node # u.node)
  <2>1. CASE q = r
    BY <1>3, <1>4, <1>5, <2>1 DEF AwayInv, Apart
  <2>2. CASE q # r
    BY <1>3, <1>5, <2>2 DEF AwayInv
  <2> QED
    BY <2>1, <2>2
<1> QED
  BY <1>5 DEF AwayInv, Planned, Apart

LEMMA AwayStep ==
  ASSUME ClaimInv, AwayInv, [Next]_vars
  PROVE  AwayInv'
<1>1. ASSUME NEW r \in Request,
             \/ Load(r) \/ CheckQuota(r) \/ Acquire(r) \/ EntryExpired(r)
             \/ Commit(r) \/ Reload(r)
      PROVE  AwayInv'
  <2>1. \A q \in Request : todo'[q] \subseteq todo[q]
    BY <1>1 DEF Load, CheckQuota, Acquire, EntryExpired, Commit, Reload, Finish, ClaimInv, TypeOK
  <2>2. flushed' \subseteq flushed
    BY <1>1 DEF Load, CheckQuota, Acquire, EntryExpired, Commit, Reload
  <2>3. flushed' = {} \/ lock' = lock
    BY <1>1 DEF Load, CheckQuota, Acquire, EntryExpired, Commit, Reload, ClaimInv, LockInv
  <2> QED
    BY <2>1, <2>2, <2>3, AwayKept
<1>2. ASSUME NEW r \in Request, NEW t \in todo[r], LoseRace(r, t) \/ Refuse(r, t)
      PROVE  AwayInv'
  <2>1. \A q \in Request : todo'[q] \subseteq todo[q]
    BY <1>2 DEF LoseRace, Refuse, Finish, ClaimInv, TypeOK
  <2> QED
    BY <1>2, <2>1, AwayKept DEF LoseRace, Refuse
<1>3. ASSUME NEW d \in active, Release(d) PROVE AwayInv'
  BY <1>3, AwayKept DEF Release
<1>4. ASSUME NEW g \in Polled, PollUsage(g) PROVE AwayInv'
  BY <1>4, AwayKept DEF PollUsage
<1>5. ASSUME NEW n \in Drainable, SetStatus(n) PROVE AwayInv'
  BY <1>5, AwayKept DEF SetStatus
<1>6. CASE Crash
  BY <1>6, AwayKept DEF Crash
<1>7. CASE UNCHANGED vars
  BY <1>7, AwayKept DEF vars
<1> QED
  BY <1>1, <1>2, <1>3, <1>4, <1>5, <1>6, <1>7, AwayPlace, AwayReserve DEF Next, RequestStep

\* The rows of one request stay apart: one that is written is on a node none of
\* its others is on.
LEMMA RowsStep ==
  ASSUME IInv, AwayInv, RowsApart, [Next]_vars
  PROVE  RowsApart'
<1>1. ASSUME Ledger' \subseteq Ledger PROVE RowsApart'
  BY <1>1 DEF RowsApart, Planned
<1>2. ASSUME NEW r \in Request, NEW t \in todo[r], Reserve(r, t) PROVE RowsApart'
  <2>1. PICK p \in Port : flushed' = flushed \cup {RowFor(r, t, p)}
    BY <1>2 DEF Reserve
  <2> DEFINE d == RowFor(r, t, p)
  <2>2. d.by = r /\ d.node = t.node
    BY DEF RowFor
  <2>3. Ledger' = Ledger \cup {d}
    BY <1>2, <2>1 DEF Reserve, Ledger
  <2> HIDE DEF d
  <2>4. lock = r /\ \A e \in Ledger : e.by = r => e \in flushed
    BY <1>2 DEF Reserve, IInv, OwnerInv, Ledger
  <2>5. Planned(r) => \A e \in Ledger : e.by = r => e.node # d.node
    BY <2>2, <2>4 DEF AwayInv
  <2> QED
    BY <2>2, <2>3, <2>5 DEF RowsApart, Planned
<1>3. ASSUME NEW r \in Request,
             \/ Load(r) \/ Place(r) \/ CheckQuota(r) \/ Acquire(r) \/ EntryExpired(r)
             \/ Commit(r) \/ Reload(r)
             \/ \E t \in todo[r] : LoseRace(r, t) \/ Refuse(r, t)
      PROVE  RowsApart'
  BY <1>1, <1>3
     DEF Load, Place, CheckQuota, Acquire, EntryExpired, Commit, Reload, LoseRace, Refuse,
         Ledger
<1>4. ASSUME NEW d \in active, Release(d) PROVE RowsApart'
  BY <1>1, <1>4 DEF Release, Ledger
<1>5. ASSUME NEW g \in Polled, PollUsage(g) PROVE RowsApart'
  BY <1>1, <1>5 DEF PollUsage, Ledger
<1>6. ASSUME NEW n \in Drainable, SetStatus(n) PROVE RowsApart'
  BY <1>1, <1>6 DEF SetStatus, Ledger
<1>7. CASE Crash
  BY <1>1, <1>7 DEF Crash, Ledger
<1>8. CASE UNCHANGED vars
  BY <1>1, <1>8 DEF vars, Ledger
<1> QED
  BY <1>2, <1>3, <1>4, <1>5, <1>6, <1>7, <1>8 DEF Next, RequestStep

\* Replicas that the planner placed are on nodes of their own, however often the
\* placement was lost and picked again (resolve_targets).
THEOREM Spread == Spec => []ReplicasSpread
<1>1. IInv /\ AwayInv /\ [Next]_vars => AwayInv'
  BY AwayStep DEF IInv, OwnerInv, HolderInv, ClaimInv
<1>2. IInv /\ AwayInv /\ RowsApart /\ [Next]_vars => RowsApart'
  BY RowsStep
<1>3. IInv /\ RowsApart => ReplicasSpread
  BY DEF IInv, OwnerInv, RowsApart, ReplicasSpread, Planned, Ledger
<1> QED
  BY <1>1, <1>2, <1>3, HolderInit, Invariance, PTL DEF Spec

-----------------------------------------------------------------------------
\* A planned request that is on its way to the lock has targets that fit what
\* it has loaded, cards and all, as long as it keeps what it has loaded.
PlannedFits(r, t) ==
  /\ \A g \in t.gpus : NodeOf[g] = t.node
  /\ \A g \in t.gpus : Available(view[r].rows, view[r].used, g) >= PlanNeed[r]

PlanInv ==
  /\ \A r \in Request : Planned(r) /\ pc[r] \in {"checking", "waiting", "reserving"} =>
       \A t \in todo[r] : PlannedFits(r, t)
  /\ \A d \in flushed : Planned(d.by) => \A g \in d.gpus : NodeOf[g] = d.node
  /\ \A r \in Request : IsFiniteSet(view[r].rows)

LEMMA PlacementsFit ==
  ASSUME NEW r \in Request, NEW T \in Placements(r), Planned(r), NEW t \in T
  PROVE  PlannedFits(r, t)
<1>1. t.gpus \in Groups(view[r], CardModel, PlanDemand(r), t.node)
  BY DEF Placements, Planned, IsPlacement
<1> QED
  BY <1>1 DEF Groups, PlanDemand, PlannedFits

LEMMA PlanInit == Init => PlanInv
<1> SUFFICES ASSUME Init PROVE PlanInv
  OBVIOUS
<1>1. \A r \in Request : pc[r] = "new" /\ view[r].rows = {}
  BY DEF Init, NothingLoaded
<1>2. flushed = {}
  BY DEF Init
<1>3. \A r \in Request : pc[r] \notin {"checking", "waiting", "reserving"}
  BY <1>1
<1>4. \A r \in Request : IsFiniteSet(view[r].rows)
  BY <1>1, FS_EmptySet
<1> QED
  BY <1>2, <1>3, <1>4 DEF PlanInv

\* A request that ends, or that has not planned, promises nothing.
LEMMA PlanKept ==
  ASSUME PlanInv, flushed' \subseteq flushed,
         \A r \in Request : \/ view'[r] = view[r] /\ todo'[r] \subseteq todo[r]
                               /\ (pc'[r] \in {"checking", "waiting", "reserving"} =>
                                     pc[r] \in {"checking", "waiting", "reserving"})
                            \/ /\ pc'[r] \notin {"checking", "waiting", "reserving"}
                               /\ IsFiniteSet(view'[r].rows)
  PROVE  PlanInv'
BY DEF PlanInv, Planned, PlannedFits

\* The session is closed, and the others stay as they are.
LEMMA FinishPlan ==
  ASSUME ClaimInv, PlanInv, NEW r \in Request,
         NEW answer \in {"refused", "expired", "granted", "lost"}, Finish(r, answer), flushed' \subseteq flushed
  PROVE  PlanInv'
<1>1. pc'[r] = answer /\ view'[r] = NothingLoaded
  BY DEF Finish, ClaimInv, TypeOK
<1>2. \A q \in Request \ {r} : pc'[q] = pc[q] /\ view'[q] = view[q] /\ todo'[q] = todo[q]
  BY DEF Finish, ClaimInv, TypeOK
<1>3. IsFiniteSet(NothingLoaded.rows)
  BY FS_EmptySet DEF NothingLoaded
<1> QED
  BY <1>1, <1>2, <1>3, PlanKept

LEMMA PlanReserve ==
  ASSUME ClaimInv, PlanInv, NEW r \in Request, NEW t \in todo[r], Reserve(r, t)
  PROVE  PlanInv'
<1>1. PICK p \in Port : flushed' = flushed \cup {RowFor(r, t, p)}
  BY DEF Reserve
<1> DEFINE d == RowFor(r, t, p)
<1>2. d.by = r /\ d.node = t.node /\ d.gpus = t.gpus
  BY DEF RowFor
<1> HIDE DEF d
<1>3. /\ pc[r] = "reserving" /\ UNCHANGED <<pc, view>> /\ flushed' = flushed \cup {d}
      /\ \A q \in Request : todo'[q] \subseteq todo[q]
  BY <1>1 DEF Reserve, ClaimInv, TypeOK, d
<1>4. Planned(r) => \A g \in d.gpus : NodeOf[g] = d.node
  BY <1>2, <1>3 DEF PlanInv, PlannedFits
<1>5. (\A e \in flushed : Planned(e.by) => \A g \in e.gpus : NodeOf[g] = e.node)'
  BY <1>2, <1>3, <1>4 DEF PlanInv, Planned
<1> QED
  BY <1>3, <1>5 DEF PlanInv, Planned, PlannedFits

LEMMA PlanStep ==
  ASSUME ClaimInv, PlanInv, [Next]_vars
  PROVE  PlanInv'
<1> DEFINE Busy == {"checking", "waiting", "reserving"}
<1>1. IsFiniteSet(Snapshot.rows)
  BY DEF Snapshot, ClaimInv, FiniteInv
<1>2. ASSUME NEW r \in Request, Load(r) \/ Reload(r)
      PROVE  PlanInv'
  <2>1. CASE Finish(r, "refused") /\ UNCHANGED flushed
    BY <2>1, FinishPlan
  <2>2. CASE /\ pc' = [pc EXCEPT ![r] = "planning"] /\ view' = [view EXCEPT ![r] = Snapshot]
             /\ UNCHANGED <<todo, flushed>>
    <3>1. pc'[r] = "planning" /\ view'[r] = Snapshot
      BY <2>2 DEF ClaimInv, TypeOK
    <3>2. \A q \in Request \ {r} : pc'[q] = pc[q] /\ view'[q] = view[q] /\ todo'[q] = todo[q]
      BY <2>2 DEF ClaimInv, TypeOK
    <3> QED
      BY <1>1, <2>2, <3>1, <3>2, PlanKept
  <2> QED
    BY <1>2, <2>1, <2>2 DEF Load, Reload
<1>3. ASSUME NEW r \in Request, Place(r)
      PROVE  PlanInv'
  <2>1. CASE Finish(r, "refused")
    BY <1>3, <2>1, FinishPlan DEF Place
  <2>2. CASE /\ \E T \in Placements(r) : todo' = [todo EXCEPT ![r] = T]
             /\ pc' = [pc EXCEPT ![r] = "checking"] /\ UNCHANGED view
    <3>1. todo'[r] \in Placements(r)
      BY <2>2 DEF ClaimInv, TypeOK
    <3>2. \A q \in Request \ {r} : pc'[q] = pc[q] /\ todo'[q] = todo[q]
      BY <2>2 DEF ClaimInv, TypeOK
    <3>3. Planned(r) => \A t \in todo'[r] : PlannedFits(r, t)
      BY <3>1, PlacementsFit
    <3>4. flushed' = flushed /\ view' = view
      BY <1>3, <2>2 DEF Place
    <3> QED
      BY <3>2, <3>3, <3>4 DEF PlanInv, Planned, PlannedFits
  <2> QED
    BY <1>3, <2>1, <2>2 DEF Place
<1>4. ASSUME NEW r \in Request, CheckQuota(r) \/ Acquire(r)
      PROVE  PlanInv'
  <2>1. CASE Finish(r, "refused") /\ UNCHANGED flushed
    BY <2>1, FinishPlan
  <2>2. CASE /\ pc[r] \in Busy /\ \E at \in Busy : pc' = [pc EXCEPT ![r] = at]
             /\ UNCHANGED <<view, todo, flushed>>
    <3>1. \A q \in Request : pc'[q] \in Busy => pc[q] \in Busy
      BY <2>2 DEF ClaimInv, TypeOK
    <3> QED
      BY <2>2, <3>1, PlanKept
  <2> QED
    BY <1>4, <2>1, <2>2 DEF CheckQuota, Acquire
<1>5. ASSUME NEW r \in Request, Commit(r)
      PROVE  PlanInv'
  BY <1>5, FinishPlan DEF Commit
<1>6. ASSUME NEW r \in Request, NEW t \in todo[r], LoseRace(r, t) \/ Refuse(r, t)
      PROVE  PlanInv'
  <2>1. flushed' \subseteq flushed /\ \E answer \in {"refused", "expired"} : Finish(r, answer)
    BY <1>6 DEF LoseRace, Refuse
  <2> QED
    BY <2>1, FinishPlan
<1>7. CASE Crash
  <2>1. \A r \in Request : pc'[r] \notin Busy /\ view'[r] = NothingLoaded
    BY <1>7 DEF Crash, Running, ClaimInv, TypeOK
  <2>2. flushed' \subseteq flushed /\ IsFiniteSet(NothingLoaded.rows)
    BY <1>7, FS_EmptySet DEF Crash, NothingLoaded
  <2> QED
    BY <2>1, <2>2, PlanKept
<1>8. ASSUME UNCHANGED <<flushed, pc, view, todo>>
      PROVE  PlanInv'
  BY <1>8, PlanKept
<1>9. ASSUME NEW d \in active, Release(d) PROVE PlanInv'
  BY <1>8, <1>9 DEF Release
<1>10. ASSUME NEW g \in Polled, PollUsage(g) PROVE PlanInv'
  BY <1>8, <1>10 DEF PollUsage
<1>11. ASSUME NEW n \in Drainable, SetStatus(n) PROVE PlanInv'
  BY <1>8, <1>11 DEF SetStatus
<1>12. CASE UNCHANGED vars
  BY <1>8, <1>12 DEF vars
<1>13. ASSUME NEW r \in Request, EntryExpired(r) PROVE PlanInv'
  BY <1>13, FinishPlan DEF EntryExpired
<1> QED
  BY <1>2, <1>3, <1>4, <1>5, <1>6, <1>7, <1>9, <1>10, <1>11, <1>12, <1>13, PlanReserve
     DEF Next, RequestStep

\* With nobody's rows but those it knew of, a request finds the room it planned.
LEMMA NoRivalNoLoss ==
  ASSUME ClaimInv, AwayInv, PlanInv, NEW r \in Request, NEW t \in todo[r], Planned(r),
         PlanNeed[r] >= Need[r], lock = r, active \subseteq view[r].rows
  PROVE  HasRoom(r, Ledger, view[r].used, t)
<1> SUFFICES ASSUME NEW g \in t.gpus
             PROVE  Available(Ledger, view[r].used, g) >= Need[r]
  BY DEF HasRoom
<1>1. pc[r] = "reserving" /\ t \in Target /\ g \in Gpu
  BY DEF ClaimInv, LockInv, TypeOK, Target
<1>2. PlannedFits(r, t)
  BY <1>1 DEF PlanInv
<1>3. Units(Ledger, g) = Units(active, g)
  <2>1. \A d \in flushed : g \notin d.gpus
    <3> SUFFICES ASSUME NEW d \in flushed, g \in d.gpus PROVE FALSE
      OBVIOUS
    <3>1. d.by = r /\ d.node # t.node
      BY DEF ClaimInv, HolderInv, AwayInv
    <3>2. NodeOf[g] = d.node
      BY <3>1 DEF PlanInv
    <3> QED
      BY <1>2, <3>1, <3>2 DEF PlannedFits
  <2> QED
    BY <2>1 DEF Units, Ledger
<1>4. Claimed(Ledger, g) <= Claimed(view[r].rows, g)
  BY <1>1, <1>3, ClaimedMonotone DEF Claimed, PlanInv
<1>5. Claimed(Ledger, g) \in Nat /\ Claimed(view[r].rows, g) \in Nat
  <2>1. IsFiniteSet(Ledger)
    BY FS_Union DEF ClaimInv, FiniteInv, Ledger
  <2> QED
    BY <1>1, <2>1, ClaimedType DEF PlanInv
<1>6. view[r].used[g] \in Nat /\ Total[g] \in Nat /\ RESERVE_MB \in Nat
  <2>1. view[r].used \in [Gpu -> UsageReading]
    BY DEF ClaimInv, TypeOK, View
  <2>2. UsageReading \subseteq Nat
    BY RequestAssumption
  <2>3. view[r].used[g] \in Nat
    BY <1>1, <2>1, <2>2
  <2> QED
    BY <1>1, <2>3, FleetAssumption
<1>7. Available(view[r].rows, view[r].used, g) >= PlanNeed[r]
  BY <1>2 DEF PlannedFits
<1>8. PlanNeed[r] \in Int /\ Need[r] \in Int
  BY RequestAssumption
<1> QED
  BY <1>4, <1>5, <1>6, <1>7, <1>8 DEF Available

LEMMA LostStep ==
  ASSUME ClaimInv, AwayInv, PlanInv, [Next]_vars, NEW r \in Request,
         PlanNeed[r] >= Need[r], pc[r] = "reserving", pc'[r] = "expired"
  PROVE  ~ (active \subseteq view[r].rows)
<1>1. ASSUME NEW q \in Request, Load(q) \/ Place(q) \/ CheckQuota(q) \/ Acquire(q)
                                 \/ EntryExpired(q) \/ Commit(q) \/ Reload(q)
      PROVE  FALSE
  BY <1>1
     DEF Load, Place, CheckQuota, Acquire, EntryExpired, Commit, Reload, Finish, ClaimInv, TypeOK
<1>2. ASSUME NEW q \in Request, NEW t \in todo[q], Reserve(q, t) \/ Refuse(q, t)
      PROVE  FALSE
  BY <1>2 DEF Reserve, Refuse, Finish, ClaimInv, TypeOK
<1>3. ASSUME NEW q \in Request, NEW t \in todo[q], LoseRace(q, t)
      PROVE  ~ (active \subseteq view[r].rows)
  <2>1. q = r /\ lock = r
    BY <1>3 DEF LoseRace, ClaimInv, LockInv
  <2>2. Explicit[r] = {}
    BY <1>3, <2>1 DEF LoseRace, Finish, ClaimInv, TypeOK
  <2>3. ~ HasRoom(r, Ledger, view[r].used, t) /\ t \in todo[r]
    BY <1>3, <2>1 DEF LoseRace
  <2> QED
    BY <2>1, <2>2, <2>3, NoRivalNoLoss DEF Planned
<1>4. ASSUME NEW d \in active, Release(d) PROVE FALSE
  BY <1>4 DEF Release
<1>5. ASSUME NEW g \in Polled, PollUsage(g) PROVE FALSE
  BY <1>5 DEF PollUsage
<1>6. ASSUME NEW n \in Drainable, SetStatus(n) PROVE FALSE
  BY <1>6 DEF SetStatus
<1>7. ~ Crash
  BY DEF Crash, ClaimInv, TypeOK
<1>8. ~ UNCHANGED vars
  BY DEF vars
<1> QED
  BY <1>1, <1>2, <1>3, <1>4, <1>5, <1>6, <1>7, <1>8 DEF Next, RequestStep

-----------------------------------------------------------------------------
\* The rows of deploy requests, with restarts beside them, but for those that were
\* over and came back.
Own(rows, gone) == {d \in rows \ gone : d.by \in Request}

\* A restart under way knows the row it replaces, and later the port.
RestartType ==
  restarting \in [Restart -> {NoRestart} \cup [at : {"choosing"}, old : Row]
                               \cup [at : {"claiming"}, old : Row, port : Port]
                               \cup [at : {"done"}]]

OwnFits == Fits(Own(Ledger, over))

RInv == TypeOK /\ RestartType /\ over \subseteq Row /\ FiniteInv /\ OwnFits

-----------------------------------------------------------------------------
\* There is no less room for a claim beside fewer rows.
LEMMA AvailableShrinks ==
  ASSUME NEW S, NEW T, S \subseteq T, IsFiniteSet(T), NEW g \in Gpu, NEW usage \in [Gpu -> Nat]
  PROVE  Available(T, usage, g) <= Available(S, usage, g)
<1>1. Claimed(S, g) <= Claimed(T, g) /\ Claimed(S, g) \in Nat /\ Claimed(T, g) \in Nat
  BY ClaimedMonotone, ClaimedType
<1>2. usage[g] \in Nat /\ Total[g] \in Nat /\ RESERVE_MB \in Nat
  BY FleetAssumption
<1> QED
  BY <1>1, <1>2 DEF Available

LEMMA FiniteLedger ==
  ASSUME FiniteInv
  PROVE  /\ IsFiniteSet(Ledger) /\ IsFiniteSet(Own(Ledger, over))
         /\ Own(Ledger, over) \subseteq Ledger
<1>1. IsFiniteSet(Ledger)
  BY FS_Union DEF FiniteInv, Ledger
<1>2. Own(Ledger, over) \subseteq Ledger
  BY DEF Own
<1> QED
  BY <1>1, <1>2, FS_Subset

\* A step that adds no row of a request keeps what fits fitting.
LEMMA NoNewRow ==
  ASSUME RInv, Own(Ledger', over') \subseteq Own(Ledger, over)
  PROVE  OwnFits'
<1>1. IsFiniteSet(Own(Ledger, over)) /\ Fits(Own(Ledger, over))
  BY FiniteLedger DEF RInv, OwnFits
<1>2. Fits(Own(Ledger', over'))
  BY <1>1, FitsSubset
<1> QED
  BY <1>2 DEF OwnFits, Fits, CardFits, Own

LEMMA OwnReserve ==
  ASSUME RInv, NEW r \in Request, NEW t \in todo[r], Reserve(r, t), over' = over
  PROVE  OwnFits' /\ FiniteInv'
<1>1. PICK p \in Port : flushed' = flushed \cup {RowFor(r, t, p)}
  BY DEF Reserve
<1> DEFINE d == RowFor(r, t, p)
<1>2. t \in Target
  BY DEF RInv, TypeOK
<1>3. d \in Row /\ d.mb = Need[r] /\ d.mb > 0 /\ d.by = r /\ d.gpus = t.gpus
  BY <1>2, RowForType
<1> HIDE DEF d
<1>4. Own(Ledger', over') \subseteq Own(Ledger, over) \cup {d}
  BY <1>1, <1>3 DEF Reserve, Ledger, Own, d
<1>5. view[r].used \in [Gpu -> Nat]
  <2>1. view[r].used \in [Gpu -> UsageReading]
    BY DEF RInv, TypeOK, View
  <2>2. UsageReading \subseteq Nat
    BY RequestAssumption
  <2> QED
    BY <2>1, <2>2
<1>6. \A g \in d.gpus : Available(Own(Ledger, over), view[r].used, g) >= d.mb
  <2> TAKE g \in d.gpus
  <2>1. g \in Gpu
    BY <1>3 DEF Row
  <2>2. Available(Ledger, view[r].used, g) >= d.mb
    BY <1>3 DEF Reserve, HasRoom
  <2>3. Available(Ledger, view[r].used, g) <= Available(Own(Ledger, over), view[r].used, g)
    BY <1>5, <2>1, AvailableShrinks, FiniteLedger DEF RInv
  <2>4. /\ Available(Ledger, view[r].used, g) \in Int
        /\ Available(Own(Ledger, over), view[r].used, g) \in Int
    BY <1>5, <2>1, ClaimedType, FiniteLedger, FleetAssumption DEF RInv, Available
  <2>5. d.mb \in Int
    BY <1>3 DEF Row
  <2> QED
    BY <2>2, <2>3, <2>4, <2>5
<1>7. Fits(Own(Ledger, over) \cup {d}) /\ IsFiniteSet(Own(Ledger, over) \cup {d})
  BY <1>3, <1>5, <1>6, FitsAdd, FiniteLedger, FS_AddElement DEF RInv, OwnFits
<1>8. OwnFits'
  <2>1. Fits(Own(Ledger', over'))
    BY <1>4, <1>7, FitsSubset
  <2> QED
    BY <2>1 DEF OwnFits, Fits, CardFits, Own
<1>9. FiniteInv'
  BY <1>1, FS_AddElement DEF Reserve, RInv, FiniteInv
<1> QED
  BY <1>8, <1>9

-----------------------------------------------------------------------------
LEMMA RequestKeeps ==
  ASSUME RInv, NEW r \in Request, RequestStep(r), UNCHANGED restarting, NoteOver
  PROVE  RInv'
<1>1. TypeOK' /\ RestartType' /\ over' \subseteq Row
  BY TypeStep DEF Next, RInv, RestartType, TypeOK, NoteOver
<1>2. ASSUME NEW t \in todo[r], Reserve(r, t) PROVE RInv'
  <2>1. over' = over
    BY <1>2 DEF Reserve, NoteOver
  <2> QED
    BY <1>1, <1>2, <2>1, OwnReserve DEF RInv
<1>3. CASE \/ Load(r) \/ Place(r) \/ CheckQuota(r) \/ Acquire(r) \/ EntryExpired(r)
           \/ Reload(r)
           \/ \E t \in todo[r] : LoseRace(r, t) \/ Refuse(r, t)
  <2>1. active' = active /\ (flushed' = flushed \/ flushed' = {})
    BY <1>3 DEF Load, Place, CheckQuota, Acquire, EntryExpired, Reload, LoseRace, Refuse
  <2>2. FiniteInv'
    BY <2>1, FS_EmptySet DEF RInv, FiniteInv
  <2>3. Own(Ledger', over') \subseteq Own(Ledger, over)
    BY <2>1 DEF Own, Ledger, NoteOver
  <2> QED
    BY <1>1, <2>2, <2>3, NoNewRow DEF RInv
<1>4. CASE Commit(r)
  <2>1. active' = active \cup flushed /\ flushed' = {}
    BY <1>4 DEF Commit
  <2>2. FiniteInv'
    BY <2>1, FS_EmptySet, FS_Union DEF RInv, FiniteInv
  <2>3. Own(Ledger', over') \subseteq Own(Ledger, over)
    BY <2>1 DEF Own, Ledger, NoteOver
  <2> QED
    BY <1>1, <2>2, <2>3, NoNewRow DEF RInv
<1> QED
  BY <1>2, <1>3, <1>4 DEF RequestStep

\* The fleet, deployments that end, and a crash take rows away and add none.
LEMMA FleetKeeps ==
  ASSUME RInv, RestartType', [Next]_vars, active' \subseteq active,
         flushed' = flushed \/ flushed' = {}, NoteOver
  PROVE  RInv'
<1>1. TypeOK' /\ over' \subseteq Row
  BY TypeStep DEF RInv, TypeOK, NoteOver
<1>2. FiniteInv'
  BY FS_Subset, FS_EmptySet DEF RInv, FiniteInv
<1>3. Own(Ledger', over') \subseteq Own(Ledger, over)
  BY DEF Own, Ledger, NoteOver
<1> QED
  BY <1>1, <1>2, <1>3, NoNewRow DEF RInv

\* A restart's row is its own and no request's, and one that comes back was over.
LEMMA RestartKeeps ==
  ASSUME RInv, NEW x \in Restart, NoteOver,
         (\E d \in active \cup over : StopOld(x, d)) \/ ChoosePort(x) \/ Reclaim(x)
  PROVE  RInv'
<1> DEFINE Choosing == [at : {"choosing"}, old : Row]
           Claiming == [at : {"claiming"}, old : Row, port : Port]
<1>1. restarting[x] \in {NoRestart} \cup Choosing \cup Claiming \cup [at : {"done"}]
  BY DEF RInv, RestartType
<1>2. ASSUME NEW d \in active \cup over, StopOld(x, d)
      PROVE  RInv'
  <2>1. /\ active' = active \cup {d} \/ active' = active \ {d}
        /\ UNCHANGED <<used, status, pc, view, todo, tries, lock, flushed>>
    BY <1>2 DEF StopOld
  <2>2. TypeOK' /\ over' \subseteq Row
    BY <2>1 DEF RInv, TypeOK, NoteOver
  <2>3. FiniteInv'
    BY <2>1, FS_AddElement, FS_RemoveElement DEF RInv, FiniteInv
  <2>4. Own(Ledger', over') \subseteq Own(Ledger, over)
    BY <1>2, <2>1 DEF Own, Ledger, NoteOver
  <2>5. [at |-> "choosing", old |-> d] \in Choosing
    BY DEF RInv, TypeOK
  <2>6. RestartType'
    BY <1>2, <2>5 DEF StopOld, RInv, RestartType
  <2> QED
    BY <2>2, <2>3, <2>4, <2>6, NoNewRow DEF RInv
<1>3. CASE ChoosePort(x)
  <2>1. restarting[x].at = "choosing" /\ UNCHANGED vars
    BY <1>3 DEF ChoosePort
  <2>2. restarting[x].old \in Row
    BY <1>1, <2>1 DEF NoRestart
  <2>3. \/ \E p \in Port : restarting' = [restarting EXCEPT ![x] =
                             [at |-> "claiming", old |-> restarting[x].old, port |-> p]]
        \/ restarting' = [restarting EXCEPT ![x] = [at |-> "done"]]
    BY <1>3 DEF ChoosePort
  <2>4. \A p \in Port : [at |-> "claiming", old |-> restarting[x].old, port |-> p] \in Claiming
    BY <2>2
  <2>5. RestartType'
    BY <2>3, <2>4 DEF RInv, RestartType
  <2> QED
    BY <2>1, <2>5, NoNewRow DEF RInv, vars, TypeOK, FiniteInv, Own, Ledger, NoteOver
<1>4. CASE Reclaim(x)
  <2> DEFINE d == [by |-> x, node |-> restarting[x].old.node, gpus |-> restarting[x].old.gpus,
                   mb |-> 0, port |-> restarting[x].port]
  <2>1. /\ restarting[x].at = "claiming" /\ active' = active \cup {d}
        /\ restarting' = [restarting EXCEPT ![x] = [at |-> "done"]]
        /\ UNCHANGED <<used, status, pc, view, todo, tries, lock, flushed>>
    BY <1>4 DEF Reclaim
  <2>2. restarting[x].old \in Row /\ restarting[x].port \in Port
    BY <1>1, <2>1 DEF NoRestart
  <2>3. d \in Row
    BY <2>2, FleetAssumption, RestartAssumption DEF Row
  <2>4. d.by \notin Request
    BY RestartAssumption
  <2> HIDE DEF d
  <2>5. TypeOK' /\ over' \subseteq Row
    BY <2>1, <2>3 DEF RInv, TypeOK, NoteOver
  <2>6. FiniteInv'
    BY <2>1, FS_AddElement DEF RInv, FiniteInv
  <2>7. Own(Ledger', over') \subseteq Own(Ledger, over)
    BY <2>1, <2>4 DEF Own, Ledger, NoteOver
  <2>8. RestartType'
    BY <2>1 DEF RInv, RestartType
  <2> QED
    BY <2>5, <2>6, <2>7, <2>8, NoNewRow DEF RInv
<1> QED
  BY <1>2, <1>3, <1>4

LEMMA CrashKeeps ==
  ASSUME RInv, RCrash, NoteOver
  PROVE  RInv'
<1>1. RestartType'
  BY DEF RCrash, RInv, RestartType, NoRestart
<1> QED
  BY <1>1, FleetKeeps DEF RCrash, Crash, Next

LEMMA RInvStep ==
  ASSUME RInv, [RNext]_rvars
  PROVE  RInv'
<1>1. ASSUME NEW d \in active, Release(d), UNCHANGED restarting, NoteOver PROVE RInv'
  BY <1>1, FleetKeeps DEF Release, Next, RInv, RestartType
<1>2. ASSUME NEW g \in Polled, PollUsage(g), UNCHANGED restarting, NoteOver PROVE RInv'
  BY <1>2, FleetKeeps DEF PollUsage, Next, RInv, RestartType
<1>3. ASSUME NEW n \in Drainable, SetStatus(n), UNCHANGED restarting, NoteOver PROVE RInv'
  BY <1>3, FleetKeeps DEF SetStatus, Next, RInv, RestartType
<1>4. CASE UNCHANGED rvars
  <2>1. UNCHANGED vars /\ RestartType'
    BY <1>4 DEF rvars, RInv, RestartType
  <2>2. NoteOver /\ UNCHANGED <<active, flushed>>
    BY <1>4 DEF rvars, vars, NoteOver
  <2> QED
    BY <2>1, <2>2, FleetKeeps
<1> QED
  BY <1>1, <1>2, <1>3, <1>4, RequestKeeps, RestartKeeps, CrashKeeps DEF RNext

LEMMA RInvInit == RInit => RInv
<1> SUFFICES ASSUME RInit PROVE RInv
  OBVIOUS
<1>1. RestartType
  BY DEF RInit, RestartType
<1>2. Own(Ledger, over) = {} /\ over = {}
  BY DEF RInit, Init, Own, Ledger
<1> QED
  BY <1>1, <1>2, TypeInit, EmptyFits, FS_EmptySet DEF RInit, Init, RInv, FiniteInv, OwnFits

\* Whatever restarts write beside them, what deploy requests were granted fits, but
\* for rows that were over and came back: a restart overcommits a card only with its
\* own row, or with the one it failed to stop (stop and restart).
THEOREM CreatedSafe == RSpec => []CreatedFit
<1>1. RInv /\ [RNext]_rvars => RInv'
  BY RInvStep
<1>2. RInv => CreatedFit
  <2> SUFFICES ASSUME RInv PROVE Fits(Own(active, over))
    BY DEF CreatedFit, Own
  <2>1. Own(active, over) \subseteq Own(Ledger, over)
    BY DEF Own, Ledger
  <2> QED
    BY <2>1, FiniteLedger, FitsSubset DEF RInv, OwnFits
<1> QED
  BY <1>1, <1>2, RInvInit, PTL DEF RSpec

-----------------------------------------------------------------------------
\* Choosing a port, stopping a row and writing one touch no request and nothing
\* that is under the lock.
LEMMA RestartLeaves ==
  ASSUME [RNext]_rvars
  PROVE  [Next]_vars \/ UNCHANGED <<pc, view, todo, tries, lock, flushed>>
BY DEF RNext, RCrash, StopOld, ChoosePort, Reclaim, Next, vars, rvars

LEMMA ClaimStep ==
  ASSUME RInv, ClaimInv, AwayInv, PlanInv, [RNext]_rvars
  PROVE  ClaimInv' /\ AwayInv' /\ PlanInv'
<1>1. TypeOK' /\ FiniteInv'
  BY RInvStep DEF RInv
<1>2. CASE [Next]_vars
  BY <1>1, <1>2, HolderStep, AwayStep, PlanStep DEF ClaimInv
<1>3. CASE UNCHANGED <<pc, view, todo, tries, lock, flushed>>
  <2>1. LockInv' /\ HolderInv'
    BY <1>3 DEF ClaimInv, LockInv, HolderInv
  <2> QED
    BY <1>1, <1>3, <2>1, AwayKept, PlanKept DEF ClaimInv
<1> QED
  BY <1>2, <1>3, RestartLeaves

\* When the planner asks for no less than the claim, a request loses a race only
\* to a row it had not seen, a rival's or a restart's: its own rows, releases and
\* polls are no reason (create_deployment, "refresh and pick again").
THEOREM RivalNeeded ==
  ASSUME \A r \in Request : PlanNeed[r] >= Need[r]
  PROVE  /\ Spec => LostRaceMeansRival
         /\ RSpec => LostRaceMeansRival
<1> DEFINE Lost == \A r \in Request : pc[r] = "reserving" /\ pc'[r] = "expired"
                                        => ~ (active \subseteq view[r].rows)
<1>1. IInv => ClaimInv
  BY DEF IInv, OwnerInv, HolderInv, ClaimInv
<1>2. ClaimInv /\ AwayInv /\ PlanInv /\ [Next]_vars => AwayInv' /\ PlanInv' /\ Lost
  BY AwayStep, PlanStep, LostStep
<1>3. RInv /\ ClaimInv /\ AwayInv /\ PlanInv /\ [RNext]_rvars =>
        ClaimInv' /\ AwayInv' /\ PlanInv'
  BY ClaimStep
<1>4. ClaimInv /\ AwayInv /\ PlanInv /\ [RNext]_rvars => Lost
  BY <1>2, RestartLeaves
<1>5. RInv /\ [RNext]_rvars => RInv'
  BY RInvStep
<1>6. RInit => RInv /\ Init
  BY RInvInit DEF RInit
<1>7. Init => ClaimInv /\ AwayInv /\ PlanInv
  BY HolderInit, PlanInit
<1> HIDE DEF Lost
<1>8. Spec => [][Lost]_vars
  BY <1>1, <1>2, <1>7, Invariance, PTL DEF Spec
<1>9. RSpec => [][Lost]_vars
  BY <1>3, <1>4, <1>5, <1>6, <1>7, PTL DEF RSpec
<1> QED
  BY <1>8, <1>9, PTL DEF LostRaceMeansRival, Lost

-----------------------------------------------------------------------------
(* Towards an answer: of EveryRequestAnswered, what can be said of one step. *)

\* An attempt is counted when it has a placement, and there is another one only
\* while the count is below the bound.
TriesInv ==
  \A r \in Request :
    /\ tries[r] <= PLACEMENT_RETRIES
    /\ pc[r] = "new" => tries[r] = 0
    /\ pc[r] \in {"planning", "expired"} => tries[r] < PLACEMENT_RETRIES

LEMMA TriesInit == Init => TriesInv
BY RequestAssumption DEF Init, TriesInv

\* A step that leaves the counts alone, and takes nobody back to planning.
LEMMA TriesKept ==
  ASSUME TriesInv, UNCHANGED tries,
         \A r \in Request : pc'[r] = pc[r] \/ pc'[r] \notin {"new", "planning", "expired"}
  PROVE  TriesInv'
BY DEF TriesInv

LEMMA TriesStep ==
  ASSUME TypeOK, TriesInv, [Next]_vars
  PROVE  TriesInv'
<1>1. ASSUME NEW r \in Request, Load(r) PROVE TriesInv'
  BY <1>1, RequestAssumption DEF Load, Finish, TypeOK, TriesInv
<1>2. ASSUME NEW r \in Request, Place(r) PROVE TriesInv'
  <2>1. CASE Finish(r, "refused") /\ UNCHANGED tries
    BY <2>1, TriesKept DEF Finish, TypeOK
  <2>2. CASE pc' = [pc EXCEPT ![r] = "checking"] /\ tries' = [tries EXCEPT ![r] = @ + 1]
    <3>1. tries[r] \in Nat /\ tries[r] < PLACEMENT_RETRIES /\ PLACEMENT_RETRIES \in Nat
      BY <1>2, RequestAssumption DEF Place, TypeOK, TriesInv
    <3>2. pc'[r] = "checking" /\ tries'[r] = tries[r] + 1
      BY <2>2 DEF TypeOK
    <3>3. \A q \in Request \ {r} : pc'[q] = pc[q] /\ tries'[q] = tries[q]
      BY <2>2 DEF TypeOK
    <3> QED
      BY <3>1, <3>2, <3>3 DEF TriesInv
  <2> QED
    BY <1>2, <2>1, <2>2 DEF Place
<1>3. ASSUME NEW r \in Request, CheckQuota(r) \/ Acquire(r) \/ EntryExpired(r) \/ Commit(r)
      PROVE  TriesInv'
  BY <1>3, TriesKept DEF CheckQuota, Acquire, EntryExpired, Commit, Finish, TypeOK
<1>4. ASSUME NEW r \in Request, Reload(r) PROVE TriesInv'
  BY <1>4 DEF Reload, TypeOK, TriesInv
<1>5. ASSUME NEW r \in Request, NEW t \in todo[r], LoseRace(r, t) PROVE TriesInv'
  <2> DEFINE answer == IF Explicit[r] = {} /\ tries[r] < PLACEMENT_RETRIES
                       THEN "expired" ELSE "refused"
  <2>1. pc' = [pc EXCEPT ![r] = answer] /\ UNCHANGED tries
    BY <1>5 DEF LoseRace, Finish
  <2>2. pc'[r] = answer /\ \A q \in Request \ {r} : pc'[q] = pc[q]
    BY <2>1 DEF TypeOK
  <2> QED
    BY <2>1, <2>2 DEF TriesInv
<1>6. ASSUME NEW r \in Request, NEW t \in todo[r], Refuse(r, t) \/ Reserve(r, t) PROVE TriesInv'
  BY <1>6, TriesKept DEF Refuse, Reserve, Finish, TypeOK
<1>7. CASE Crash
  BY <1>7, TriesKept DEF Crash, Running, TypeOK
<1>8. ASSUME NEW d \in active, Release(d) PROVE TriesInv'
  BY <1>8, TriesKept DEF Release
<1>9. ASSUME NEW g \in Polled, PollUsage(g) PROVE TriesInv'
  BY <1>9, TriesKept DEF PollUsage
<1>10. ASSUME NEW n \in Drainable, SetStatus(n) PROVE TriesInv'
  BY <1>10, TriesKept DEF SetStatus
<1>11. CASE UNCHANGED vars
  BY <1>11, TriesKept DEF vars
<1> QED
  BY <1>1, <1>2, <1>3, <1>4, <1>5, <1>6, <1>7, <1>8, <1>9, <1>10, <1>11 DEF Next, RequestStep

LEMMA OwnStep ==
  ASSUME TypeOK, NEW r \in Request, pc[r] \in Running, RequestStep(r)
  PROVE  Nearer(r)
<1>1. ~ Load(r)
  BY DEF Load, Running
<1>2. ASSUME NEW answer \in Answered, Finish(r, answer) PROVE Nearer(r)
  BY <1>2 DEF Finish, TypeOK, Nearer
<1>3. CASE Place(r)
  <2>1. CASE Finish(r, "refused")
    BY <1>2, <2>1 DEF Answered
  <2>2. CASE pc' = [pc EXCEPT ![r] = "checking"] /\ tries' = [tries EXCEPT ![r] = @ + 1]
    BY <2>2 DEF TypeOK, Nearer, Running
  <2> QED
    BY <1>3, <2>1, <2>2 DEF Place
<1>4. CASE CheckQuota(r)
  <2>1. CASE Finish(r, "refused")
    BY <1>2, <2>1 DEF Answered
  <2>2. CASE pc[r] = "checking" /\ pc' = [pc EXCEPT ![r] = "waiting"] /\ UNCHANGED tries
    BY <2>2 DEF TypeOK, Nearer, Running, StepsLeft
  <2> QED
    BY <1>4, <2>1, <2>2 DEF CheckQuota
<1>5. CASE Acquire(r)
  BY <1>5 DEF Acquire, TypeOK, Nearer, Running, StepsLeft
<1>6. CASE Commit(r)
  BY <1>2, <1>6 DEF Commit, Answered
<1>7. CASE Reload(r)
  BY <1>7 DEF Reload, TypeOK, Nearer, Running, StepsLeft
<1>8. ASSUME NEW t \in todo[r], Reserve(r, t) PROVE Nearer(r)
  <2>1. pc'[r] = pc[r] /\ tries'[r] = tries[r] /\ todo'[r] = todo[r] \ {t}
    BY <1>8 DEF Reserve, TypeOK
  <2> QED
    BY <2>1 DEF Nearer
<1>9. ASSUME NEW t \in todo[r], LoseRace(r, t) PROVE Nearer(r)
  <2>1. CASE Finish(r, "refused")
    BY <1>2, <2>1 DEF Answered
  <2>2. CASE Finish(r, "expired")
    <3>1. pc[r] = "reserving" /\ pc'[r] = "expired" /\ tries' = tries
      BY <1>9, <2>2 DEF LoseRace, Finish, TypeOK
    <3> QED
      BY <3>1 DEF Nearer, Running, StepsLeft
  <2> QED
    BY <1>9, <2>1, <2>2 DEF LoseRace
<1>10. ASSUME NEW t \in todo[r], Refuse(r, t) PROVE Nearer(r)
  BY <1>2, <1>10 DEF Refuse, Answered
<1>11. CASE EntryExpired(r)
  BY <1>2, <1>11 DEF EntryExpired, Answered
<1> QED
  BY <1>1, <1>3, <1>4, <1>5, <1>6, <1>7, <1>8, <1>9, <1>10, <1>11 DEF RequestStep

LEMMA OthersStep ==
  ASSUME TypeOK, NEW r \in Request, pc[r] \in Running, [Next]_vars, ~ RequestStep(r)
  PROVE  Untouched(r) \/ pc'[r] = "lost"
<1>1. ASSUME NEW q \in Request, RequestStep(q) PROVE Untouched(r)
  <2>1. q # r
    BY <1>1
  <2>2. CASE \/ Load(q) \/ Place(q) \/ CheckQuota(q) \/ Acquire(q) \/ EntryExpired(q)
             \/ Commit(q) \/ Reload(q)
    BY <2>1, <2>2
       DEF Load, Place, CheckQuota, Acquire, EntryExpired, Commit, Reload, Finish, TypeOK, Untouched
  <2>3. ASSUME NEW t \in todo[q], Reserve(q, t) \/ LoseRace(q, t) \/ Refuse(q, t)
        PROVE  Untouched(r)
    BY <2>1, <2>3 DEF Reserve, LoseRace, Refuse, Finish, TypeOK, Untouched
  <2> QED
    BY <1>1, <2>2, <2>3 DEF RequestStep
<1>2. CASE Crash
  BY <1>2 DEF Crash, TypeOK
<1>3. CASE \/ \E d \in active : Release(d)
           \/ \E g \in Polled : PollUsage(g)
           \/ \E n \in Drainable : SetStatus(n)
           \/ UNCHANGED vars
  BY <1>3 DEF Release, PollUsage, SetStatus, vars, Untouched
<1> QED
  BY <1>1, <1>2, <1>3 DEF Next

\* Every step of a request brings it nearer to an answer and nobody else's takes it
\* back, with restarts beside it or without, for any number of rivals: it makes
\* PLACEMENT_RETRIES attempts at most (AttemptsBounded), each of them of finitely
\* many steps (create_deployment).
THEOREM RequestsAdvance ==
  /\ Spec => EachStepAdvances
  /\ RSpec => EachStepAdvances
<1> DEFINE Advance == \A r \in Request : pc[r] \in Running =>
                        IF RequestStep(r) THEN Nearer(r) ELSE Untouched(r) \/ pc'[r] = "lost"
<1>1. TypeOK /\ [Next]_vars => Advance
  BY OwnStep, OthersStep
<1>2. RInv /\ [RNext]_rvars => Advance
  <2> SUFFICES ASSUME RInv, [RNext]_rvars PROVE Advance
    OBVIOUS
  <2>1. TypeOK
    BY DEF RInv
  <2>2. CASE [Next]_vars
    BY <1>1, <2>1, <2>2
  <2>3. CASE UNCHANGED <<pc, view, todo, tries, lock, flushed>>
    BY <2>1, <2>3, OwnStep DEF Untouched
  <2> QED
    BY <2>2, <2>3, RestartLeaves
<1>3. RInv /\ [RNext]_rvars => RInv'
  BY RInvStep
<1>4. rvars' = rvars => vars' = vars
  BY DEF rvars
<1> HIDE DEF Advance
<1>5. Spec => [][Advance]_vars
  BY <1>1, TypeCorrect, PTL DEF Spec
<1>6. RSpec => [][Advance]_vars
  BY <1>2, <1>3, <1>4, RInvInit, PTL DEF RSpec
<1> QED
  BY <1>5, <1>6, PTL DEF EachStepAdvances, Advance

\* The fleet and the targets a caller names are finite.
FiniteFleet == IsFiniteSet(Node) /\ \A r \in Request : IsFiniteSet(Explicit[r])

\* One replica per node: no more targets than nodes.
LEMMA PlacementsFinite ==
  ASSUME FiniteFleet, NEW r \in Request, NEW T \in Placements(r)
  PROVE  IsFiniteSet(T)
<1>1. CASE Explicit[r] # {}
  BY <1>1 DEF Placements, FiniteFleet
<1>2. CASE Explicit[r] = {}
  <2>1. \A t, u \in T : t.node = u.node => t = u
    BY <1>2 DEF Placements, IsPlacement
  <2>2. \A t \in T : t.node \in Node
    BY PlacementsType DEF Target
  <2> DEFINE at == [t \in T |-> t.node]
  <2>3. at \in Injection(T, Node)
    BY <2>1, <2>2 DEF Injection, IsInjective
  <2> QED
    BY <2>3, FS_Injection DEF FiniteFleet
<1> QED
  BY <1>1, <1>2

FiniteTodo == \A r \in Request : IsFiniteSet(todo[r])

LEMMA FiniteTodoStep ==
  ASSUME FiniteFleet, TypeOK, FiniteTodo, [Next]_vars
  PROVE  FiniteTodo'
<1>1. ASSUME \A r \in Request : todo'[r] \subseteq todo[r] PROVE FiniteTodo'
  BY <1>1, FS_Subset DEF FiniteTodo
<1>2. ASSUME NEW r \in Request, Place(r) PROVE FiniteTodo'
  <2>1. CASE Finish(r, "refused")
    BY <1>1, <2>1 DEF Finish, TypeOK
  <2>2. ASSUME NEW T \in Placements(r), todo' = [todo EXCEPT ![r] = T] PROVE FiniteTodo'
    <3>1. todo'[r] = T /\ \A q \in Request \ {r} : todo'[q] = todo[q]
      BY <2>2 DEF TypeOK
    <3>2. IsFiniteSet(T)
      BY PlacementsFinite
    <3> QED
      BY <3>1, <3>2 DEF FiniteTodo
  <2> QED
    BY <1>2, <2>1, <2>2 DEF Place
<1>3. ASSUME NEW r \in Request, \/ Load(r) \/ CheckQuota(r) \/ Acquire(r) \/ EntryExpired(r)
                                \/ Commit(r) \/ Reload(r)
      PROVE  FiniteTodo'
  BY <1>1, <1>3 DEF Load, CheckQuota, Acquire, EntryExpired, Commit, Reload, Finish, TypeOK
<1>4. ASSUME NEW r \in Request, NEW t \in todo[r], Reserve(r, t) \/ LoseRace(r, t) \/ Refuse(r, t)
      PROVE  FiniteTodo'
  BY <1>1, <1>4 DEF Reserve, LoseRace, Refuse, Finish, TypeOK
<1>5. CASE Crash
  BY <1>1, <1>5 DEF Crash
<1>6. CASE \/ \E d \in active : Release(d)
           \/ \E g \in Polled : PollUsage(g)
           \/ \E n \in Drainable : SetStatus(n)
           \/ UNCHANGED vars
  BY <1>1, <1>6 DEF Release, PollUsage, SetStatus, vars
<1> QED
  BY <1>2, <1>3, <1>4, <1>5, <1>6 DEF Next, RequestStep

\* What RequestsAdvance counts is bounded: no request makes more attempts than
\* PLACEMENT_RETRIES, and what an attempt has to reserve is finite.
THEOREM AttemptsBounded ==
  ASSUME FiniteFleet
  PROVE  RSpec => [](\A r \in Request : tries[r] <= PLACEMENT_RETRIES /\ IsFiniteSet(todo[r]))
<1> DEFINE Bounded == \A r \in Request : tries[r] <= PLACEMENT_RETRIES /\ IsFiniteSet(todo[r])
<1>1. RInit => RInv /\ TriesInv /\ FiniteTodo
  BY RInvInit, TriesInit, FS_EmptySet DEF RInit, Init, FiniteTodo
<1>2. RInv /\ TriesInv /\ FiniteTodo /\ [RNext]_rvars => RInv' /\ TriesInv' /\ FiniteTodo'
  <2> SUFFICES ASSUME RInv, TriesInv, FiniteTodo, [RNext]_rvars
               PROVE  RInv' /\ TriesInv' /\ FiniteTodo'
    OBVIOUS
  <2>1. RInv' /\ TypeOK
    BY RInvStep DEF RInv
  <2>2. CASE [Next]_vars
    BY <2>1, <2>2, TriesStep, FiniteTodoStep
  <2>3. CASE UNCHANGED <<pc, view, todo, tries, lock, flushed>>
    BY <2>1, <2>3 DEF TriesInv, FiniteTodo
  <2> QED
    BY <2>2, <2>3, RestartLeaves
<1>3. TriesInv /\ FiniteTodo => Bounded
  BY DEF TriesInv, FiniteTodo
<1> HIDE DEF Bounded
<1>4. RSpec => []Bounded
  BY <1>1, <1>2, <1>3, PTL DEF RSpec
<1> QED
  BY <1>4 DEF Bounded

-----------------------------------------------------------------------------
\* A planned request that has a feasible node has a placement.
LEMMA PlacementExists ==
  ASSUME IsFiniteSet(Node), NEW r \in Request, Feasible(r) # {}
  PROVE  Placements(r) # {}
<1>1. CASE Explicit[r] # {}
  BY <1>1 DEF Placements
<1>2. CASE Explicit[r] = {}
  <2> DEFINE q == PlanDemand(r)
             F == Feasible(r)
             Fits1(n) == Groups(view[r], CardModel, q, n)
             G(n) == CHOOSE X \in Fits1(n) : TRUE
  <2>1. F \subseteq Node /\ \A n \in F : Fits1(n) # {}
    BY RequestAssumption DEF Feasible, Candidates, PlanDemand
  <2>2. IsFiniteSet(F) /\ Cardinality(F) \in Nat
    <3> HIDE DEF F
    <3> QED
      BY <2>1, FS_Subset, FS_CardinalityType
  <2>3. q.replicas \in Nat \ {0}
    BY RequestAssumption DEF PlanDemand
  <2> DEFINE k == IF q.replicas <= Cardinality(F) THEN q.replicas ELSE Cardinality(F)
  <2>4. PICK N \in SUBSET F : Cardinality(N) = k /\ (k = Cardinality(F) => N = F)
    <3>1. k \in Nat /\ k <= Cardinality(F)
      BY <2>2, <2>3
    <3> HIDE DEF F, k
    <3>2. CASE k = Cardinality(F)
      BY <3>2
    <3>3. CASE k # Cardinality(F)
      <4>1. \E N \in SUBSET F : Cardinality(N) = k
        BY <2>2, <3>1, SubsetOfSize
      <4> QED
        BY <3>3, <4>1
    <3> QED
      BY <3>2, <3>3
  <2> DEFINE target(n) == [node |-> n, gpus |-> G(n)]
             T == {target(n) : n \in N}
             f == [n \in N |-> target(n)]
  <2>5. \A n \in N : G(n) \in Fits1(n)
    BY <2>1, <2>4
  <2>6. Cardinality(T) = k
    <3>1. IsFiniteSet(N)
      BY <2>2, <2>4, FS_Subset
    <3>2. f \in Bijection(N, T)
      <4> HIDE DEF G
      <4> QED
        BY DEF Bijection, Injection, IsInjective, Surjection
    <3> HIDE DEF f, T, k
    <3> QED
      BY <2>4, <3>1, <3>2, FS_Bijection DEF ExistsBijection
  <2>7. \A t \in T : t.node \in N /\ t = target(t.node)
    OBVIOUS
  <2>8. T \subseteq Options(r)
    BY <2>4, <2>5 DEF Options
  <2>9. IsPlacement(view[r], CardModel, q, T)
    <3>1. \A t \in T : t.node \in F /\ t.gpus \in Fits1(t.node)
      BY <2>4, <2>5
    <3>2. \A t, u \in T : t.node = u.node => t = u
      BY <2>7
    <3>3. \/ Cardinality(T) = q.replicas
          \/ Cardinality(T) < q.replicas /\ F \subseteq {t.node : t \in T}
      <4>1. CASE q.replicas <= Cardinality(F)
        BY <2>6, <4>1
      <4>2. CASE ~ (q.replicas <= Cardinality(F))
        <5>1. N = F /\ Cardinality(T) < q.replicas
          BY <2>2, <2>3, <2>4, <2>6, <4>2
        <5>2. \A n \in N : target(n) \in T /\ target(n).node = n
          OBVIOUS
        <5>3. N \subseteq {t.node : t \in T}
          <6> HIDE DEF T, target
          <6> QED
            BY <5>2
        <5> QED
          BY <5>1, <5>3
      <4> QED
        BY <4>1, <4>2
    <3> HIDE DEF T
    <3> QED
      BY <3>1, <3>2, <3>3 DEF IsPlacement, Feasible
  <2> QED
    BY <1>2, <2>8, <2>9 DEF Placements
<1> QED
  BY <1>1, <1>2

\* The guards of a running request's steps.
CanStep(r) ==
  \/ pc[r] = "planning" /\ (Feasible(r) = {} \/ Placements(r) # {})
  \/ pc[r] \in {"checking", "expired"}
  \/ pc[r] = "waiting" /\ lock = NoRequest
  \/ /\ pc[r] = "reserving" /\ lock = r
     /\ \/ todo[r] = {}
        \/ \E t \in todo[r] :
             \/ ~ Accepts(r, t) \/ ~ HasRoom(r, Ledger, view[r].used, t)
             \/ Port \subseteq TakenPorts(Ledger, t.node)
             \/ \E p \in Port : IsNextPort(Ledger, t.node, p)

\* Nobody waits on everybody: a request that is served has a step to take, or waits
\* for a lock whose holder has one; there is always a placement where a node is
\* feasible, and a port where the range is not taken up (create_deployment,
\* allocation_lock, resolve_targets and allocate_port).
THEOREM NobodyStuck ==
  ASSUME IsFiniteSet(Node)
  PROVE  RSpec => [](\A r \in Request : pc[r] \in Running =>
                       \/ CanStep(r)
                       \/ pc[r] = "waiting" /\ lock \in Request \ {r} /\ CanStep(lock))
<1> DEFINE Unstuck == \A r \in Request : pc[r] \in Running =>
                        \/ CanStep(r)
                        \/ pc[r] = "waiting" /\ lock \in Request \ {r} /\ CanStep(lock)
<1>1. RInit => RInv /\ ClaimInv /\ AwayInv /\ PlanInv
  BY RInvInit, HolderInit, PlanInit DEF RInit
<1>2. RInv /\ ClaimInv /\ AwayInv /\ PlanInv /\ [RNext]_rvars =>
        RInv' /\ ClaimInv' /\ AwayInv' /\ PlanInv'
  BY RInvStep, ClaimStep
<1>3. ASSUME ClaimInv PROVE Unstuck
  <2> SUFFICES ASSUME NEW r \in Request, pc[r] \in Running
               PROVE  \/ CanStep(r)
                      \/ pc[r] = "waiting" /\ lock \in Request \ {r} /\ CanStep(lock)
    OBVIOUS
  <2>1. ASSUME NEW q \in Request, lock = q PROVE CanStep(q)
    <3>1. pc[q] = "reserving"
      BY <1>3, <2>1 DEF ClaimInv, LockInv
    <3>2. CASE todo[q] = {}
      BY <2>1, <3>1, <3>2 DEF CanStep
    <3>3. ASSUME NEW t \in todo[q] PROVE CanStep(q)
      <4>1. \/ Port \subseteq TakenPorts(Ledger, t.node)
            \/ \E p \in Port : IsNextPort(Ledger, t.node, p)
        BY NextPort
      <4> QED
        BY <2>1, <3>1, <4>1 DEF CanStep
    <3> QED
      BY <3>2, <3>3
  <2>2. CASE pc[r] = "planning"
    BY <2>2, PlacementExists DEF CanStep
  <2>3. CASE pc[r] \in {"checking", "expired"}
    BY <2>3 DEF CanStep
  <2>4. CASE pc[r] = "waiting"
    <3>1. CASE lock = NoRequest
      BY <2>4, <3>1 DEF CanStep
    <3>2. CASE lock # NoRequest
      <4>1. lock \in Request /\ pc[lock] = "reserving"
        BY <1>3, <3>2 DEF ClaimInv, TypeOK, LockInv
      <4> QED
        BY <2>1, <2>4, <4>1
    <3> QED
      BY <3>1, <3>2
  <2>5. CASE pc[r] = "reserving"
    BY <1>3, <2>1, <2>5 DEF ClaimInv, LockInv
  <2> QED
    BY <2>2, <2>3, <2>4, <2>5 DEF Running
<1> HIDE DEF Unstuck
<1>4. RSpec => []Unstuck
  BY <1>1, <1>2, <1>3, PTL DEF RSpec
<1> QED
  BY <1>4 DEF Unstuck

-----------------------------------------------------------------------------
\* Restarts are the only way in which a card is overcommitted: without them the
\* reservations on a card never exceed what it has (restart records no reservation;
\* tests/test_concurrency.py).
THEOREM OnlyRestartsOvercommit ==
  ASSUME Restart = {}
  PROVE  RSpec => []NoOvercommit
<1>1. RInit => Init
  BY DEF RInit
<1>2. [RNext]_rvars => [Next]_vars
  BY DEF RNext, RCrash, Next, rvars, vars
<1>3. IInv => NoOvercommit
  <2> SUFFICES ASSUME IInv, NEW g \in Gpu PROVE Claimed(active, g) <= Total[g]
    BY DEF NoOvercommit
  <2>1. IsFiniteSet(active) /\ IsFiniteSet(Ledger) /\ active \subseteq Ledger
    BY FS_Union DEF IInv, FiniteInv, Ledger
  <2>2. CardFits(active, g)
    BY <2>1, FitsSubset DEF IInv, LedgerInv, Fits
  <2>3. Claimed(active, g) \in Nat /\ Total[g] \in Nat /\ RESERVE_MB \in Nat
    BY <2>1, ClaimedType, FleetAssumption
  <2> QED
    BY <2>2, <2>3 DEF CardFits
<1>4. IInv /\ [Next]_vars => IInv'
  BY InvStep
<1> QED
  BY <1>1, <1>2, <1>3, <1>4, InvInit, PTL DEF RSpec

=============================================================================
