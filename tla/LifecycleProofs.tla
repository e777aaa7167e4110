--------------------------- MODULE LifecycleProofs ---------------------------
(***************************************************************************)
(* Proofs about Lifecycle, for any set of deployments, any faults and any  *)
(* bounds: type correctness, and that a deployment whose image is being    *)
(* pulled is failed by nobody but its launch, as long as operators wait    *)
(* with stop until the launch is over and leave reconcile_node alone.      *)
(***************************************************************************)
EXTENDS Lifecycle, TLAPS

LEMMA PartialIntro ==
  ASSUME NEW V, NEW D \in SUBSET Dep, NEW f \in [D -> V]
  PROVE  f \in Partial(V)
BY DEF Partial

LEMMA PartialElim ==
  ASSUME NEW V, NEW f \in Partial(V)
  PROVE  DOMAIN f \in SUBSET Dep /\ f \in [DOMAIN f -> V]
BY DEF Partial

\* The idle sessions are well formed.
LEMMA IdleType ==
  /\ NoPass \in [at     : {"idle", "listing", "judging", "committing"},
                 rows   : Partial(ACTIVE_STATUSES),
                 ps     : Partial(ContainerState),
                 writes : Partial(ACTIVE_STATUSES \cup {"failed"})]
  /\ NoAdopt \in [at : {"idle", "listed"}, ps : Partial(ContainerState)]
<1>1. \A V : [d \in {} |-> ""] \in Partial(V)
  <2> TAKE V
  <2>1. [d \in {} |-> ""] \in [{} -> V]
    OBVIOUS
  <2> QED
    BY <2>1, PartialIntro
<1> QED
  BY <1>1 DEF NoPass, NoAdopt

\* What a pass finds of an active row is a status of an active row, or failed.
LEMMA VerdictType ==
  ASSUME NEW s \in ACTIVE_STATUSES, NEW c \in ContainerState,
         NEW up \in BOOLEAN, NEW late \in BOOLEAN
  PROVE  Verdict(s, c, up, late) \in ACTIVE_STATUSES \cup {"failed"}
<1>1. CASE c = "none"
  BY <1>1 DEF Verdict, Running, ACTIVE_STATUSES
<1>2. CASE c = "exited"
  BY <1>2 DEF Verdict, Running, ACTIVE_STATUSES
<1>3. CASE c = "looping"
  BY <1>3 DEF Verdict, Running, ACTIVE_STATUSES
<1>4. CASE c \in Running
  BY <1>4 DEF Verdict, Running, ACTIVE_STATUSES
<1> QED
  BY <1>1, <1>2, <1>3, <1>4 DEF ContainerState, HoldsGpu

\* A pass that judges has listed the containers of every deployment: type
\* correctness alone does not say where docker ps is defined.
SnapInv == pass.at = "judging" => pass.ps \in [Dep -> ContainerState]

-----------------------------------------------------------------------------
LEMMA InitType == Init => TypeOK
BY IdleType, LifecycleAssumption
   DEF Init, TypeOK, DeployStatus, ContainerState, LaunchState, StopState

LEMMA LaunchType ==
  ASSUME TypeOK, NEW d \in Dep, Create(d) \/ LaunchStep(d)
  PROVE  TypeOK'
<1> USE DEF TypeOK, DeployStatus, ACTIVE_STATUSES, LaunchState, MoveLaunch
<1>1. CASE Create(d)
  BY <1>1 DEF Create
<1>2. CASE LaunchBegin(d)
  BY <1>2 DEF LaunchBegin
<1>3. CASE LaunchInspect(d)
  BY <1>3 DEF LaunchInspect
<1>4. CASE LaunchMarkPulling(d)
  BY <1>4 DEF LaunchMarkPulling
<1>5. CASE LaunchPull(d)
  BY <1>5 DEF LaunchPull
<1>6. CASE LaunchRun(d)
  BY <1>6 DEF LaunchRun, ContainerState, HoldsGpu, Running
<1>7. CASE LaunchCommit(d)
  BY <1>7 DEF LaunchCommit
<1> QED
  BY <1>1, <1>2, <1>3, <1>4, <1>5, <1>6, <1>7 DEF LaunchStep

LEMMA StopType ==
  ASSUME TypeOK, NEW d \in Dep, StopBegin(d) \/ StopStep(d)
  PROVE  TypeOK'
<1> USE DEF TypeOK, StopState
<1>1. CASE StopBegin(d)
  BY <1>1, LifecycleAssumption DEF StopBegin
<1>2. CASE StopRun(d)
  BY <1>2 DEF StopRun, ContainerState
<1>3. CASE StopCommit(d)
  BY <1>3 DEF StopCommit, AfterStop, DeployStatus, ACTIVE_STATUSES
<1> QED
  BY <1>1, <1>2, <1>3 DEF StopStep

\* The next record of the pass is well formed when its fields are.
LEMMA PassType ==
  ASSUME TypeOK, SnapInv, PassStep
  PROVE  TypeOK'
<1> DEFINE PassRec == [at     : {"idle", "listing", "judging", "committing"},
                       rows   : Partial(ACTIVE_STATUSES),
                       ps     : Partial(ContainerState),
                       writes : Partial(ACTIVE_STATUSES \cup {"failed"})]
<1>1. NoPass \in PassRec /\ pass \in PassRec
  BY IdleType DEF TypeOK
<1>2. ASSUME NEW p \in PassRec, MovePass(p), status' \in [Dep -> DeployStatus]
      PROVE  TypeOK'
  BY <1>2 DEF TypeOK, MovePass
<1>3. CASE PassBegin
  <2> DEFINE rows == [d \in ActiveRows |-> status[d]]
             bad  == {d \in ActiveRows : status[d] = "healthy"}
             fix  == [d \in bad |-> "degraded"]
  <2>1. rows \in [ActiveRows -> ACTIVE_STATUSES] /\ fix \in [bad -> ACTIVE_STATUSES \cup {"failed"}]
    BY DEF ActiveRows, ACTIVE_STATUSES
  <2>2. rows \in Partial(ACTIVE_STATUSES) /\ fix \in Partial(ACTIVE_STATUSES \cup {"failed"})
    <3>1. ActiveRows \in SUBSET Dep /\ bad \in SUBSET Dep
      BY DEF ActiveRows
    <3> HIDE DEF rows, fix, bad
    <3> QED
      BY <2>1, <3>1, PartialIntro
  <2>3. [NoPass EXCEPT !.at = "committing", !.writes = fix] \in PassRec
    <3> HIDE DEF fix
    <3> QED
      BY <1>1, <2>2
  <2>4. [NoPass EXCEPT !.at = "listing", !.rows = rows] \in PassRec
    <3> HIDE DEF rows
    <3> QED
      BY <1>1, <2>2
  <2> QED
    BY <1>2, <1>3, <2>3, <2>4 DEF PassBegin, TypeOK
<1>4. CASE PassList
  <2>1. container \in Partial(ContainerState)
    BY PartialIntro DEF TypeOK
  <2>2. [pass EXCEPT !.at = "judging", !.ps = container] \in PassRec
    BY <1>1, <2>1
  <2> QED
    BY <1>1, <1>2, <1>4, <2>2 DEF PassList, TypeOK
<1>5. ASSUME NEW d \in Dep, PassJudge(d)
      PROVE  TypeOK'
  <2> DEFINE v    == Verdict(pass.rows[d], pass.ps[d], container[d] = "serving" /\ reachable, old[d])
             rest == DOMAIN pass.rows \ {d}
             W    == DOMAIN pass.writes \cup (IF v = pass.rows[d] THEN {} ELSE {d})
             rows == [e \in rest |-> pass.rows[e]]
             writes == [e \in W |-> IF e = d THEN v ELSE pass.writes[e]]
  <2>1. CASE pass.ps[d] = "exited" /\ ~ reachable
    BY <1>1, <1>2, <1>5, <2>1 DEF PassJudge, TypeOK
  <2>2. CASE ~ (pass.ps[d] = "exited" /\ ~ reachable)
    <3>1. pass.rows \in [DOMAIN pass.rows -> ACTIVE_STATUSES] /\ DOMAIN pass.rows \in SUBSET Dep
      BY <1>1, PartialElim
    <3>2. pass.writes \in [DOMAIN pass.writes -> ACTIVE_STATUSES \cup {"failed"}]
            /\ DOMAIN pass.writes \in SUBSET Dep
      BY <1>1, PartialElim
    <3>3. v \in ACTIVE_STATUSES \cup {"failed"}
      <4>1. pass.rows[d] \in ACTIVE_STATUSES
        BY <1>5, <3>1 DEF PassJudge
      <4>2. pass.ps[d] \in ContainerState
        BY <1>5 DEF PassJudge, TypeOK, SnapInv
      <4> QED
        BY <4>1, <4>2, VerdictType DEF TypeOK
    <3>4. rows \in Partial(ACTIVE_STATUSES)
      <4>1. rows \in [rest -> ACTIVE_STATUSES] /\ rest \in SUBSET Dep
        BY <3>1
      <4> HIDE DEF rows, rest
      <4> QED
        BY <4>1, PartialIntro
    <3>5. writes \in Partial(ACTIVE_STATUSES \cup {"failed"})
      <4>1. writes \in [W -> ACTIVE_STATUSES \cup {"failed"}] /\ W \in SUBSET Dep
        <5> HIDE DEF v
        <5> QED
          BY <3>2, <3>3
      <4> HIDE DEF writes, W
      <4> QED
        BY <4>1, PartialIntro
    <3>6. [pass EXCEPT !.rows = rows, !.writes = writes] \in PassRec
      <4> HIDE DEF rows, writes
      <4> QED
        BY <1>1, <3>4, <3>5
    <3>7. MovePass([pass EXCEPT !.rows = rows, !.writes = writes]) /\ UNCHANGED status
      BY <1>5, <2>2 DEF PassJudge
    <3> HIDE DEF rows, writes
    <3> QED
      BY <1>2, <3>6, <3>7 DEF TypeOK
  <2> QED
    BY <2>1, <2>2
<1>6. CASE PassCommit
  <2>1. pass.writes \in [DOMAIN pass.writes -> ACTIVE_STATUSES \cup {"failed"}]
    BY <1>1, PartialElim
  <2>2. status' \in [Dep -> DeployStatus]
    BY <1>6, <2>1 DEF PassCommit, TypeOK, DeployStatus
  <2> QED
    BY <1>1, <1>2, <1>6, <2>2 DEF PassCommit
<1> QED
  BY <1>3, <1>4, <1>5, <1>6 DEF PassStep

LEMMA AdoptType ==
  ASSUME TypeOK, AdoptList \/ AdoptCommit
  PROVE  TypeOK'
<1>1. CASE AdoptList
  <2>1. container \in Partial(ContainerState)
    BY PartialIntro DEF TypeOK
  <2>2. adopt' \in [at : {"idle", "listed"}, ps : Partial(ContainerState)]
    BY <1>1, <2>1 DEF AdoptList
  <2> QED
    BY <1>1, <2>2 DEF AdoptList, TypeOK
<1>2. CASE AdoptCommit
  BY <1>2, IdleType DEF AdoptCommit, TypeOK, DeployStatus
<1> QED
  BY <1>1, <1>2

\* What the node, the clock and a crash do.
LEMMA WorldType ==
  ASSUME TypeOK,
         \/ \E d \in Dep : GraceEnds(d) \/ ContainerMoves(d)
         \/ Inventory \/ NodeFlips \/ Crash
  PROVE  TypeOK'
<1>1. ASSUME NEW d \in Dep, GraceEnds(d)
      PROVE  TypeOK'
  BY <1>1 DEF GraceEnds, TypeOK
<1>2. ASSUME NEW d \in Dep, ContainerMoves(d)
      PROVE  TypeOK'
  BY <1>2 DEF ContainerMoves, TypeOK
<1>3. CASE Inventory
  BY <1>3 DEF Inventory, TypeOK
<1>4. CASE NodeFlips
  BY <1>4 DEF NodeFlips, TypeOK
<1>5. CASE Crash
  BY <1>5, IdleType, LifecycleAssumption DEF Crash, TypeOK, LaunchState, StopState
<1> QED
  BY <1>1, <1>2, <1>3, <1>4, <1>5

\* What _reconcile_one finds of row d, and what judging a row does to the pass.
Found(d) ==
  Verdict(pass.rows[d], pass.ps[d], container[d] = "serving" /\ reachable, old[d])

LEMMA JudgeEffect ==
  ASSUME TypeOK, NEW d \in Dep, PassJudge(d)
  PROVE  \/ pass' = NoPass
         \/ /\ pass'.at = pass.at /\ pass'.ps = pass.ps
            /\ pass'.rows = [e \in DOMAIN pass.rows \ {d} |-> pass.rows[e]]
            /\ pass'.writes =
                 [e \in DOMAIN pass.writes \cup (IF Found(d) = pass.rows[d] THEN {} ELSE {d}) |->
                    IF e = d THEN Found(d) ELSE pass.writes[e]]
<1> DEFINE rows == [e \in DOMAIN pass.rows \ {d} |-> pass.rows[e]]
           writes ==
             [e \in DOMAIN pass.writes \cup (IF Found(d) = pass.rows[d] THEN {} ELSE {d}) |->
                IF e = d THEN Found(d) ELSE pass.writes[e]]
<1>1. pass' = NoPass \/ pass' = [pass EXCEPT !.rows = rows, !.writes = writes]
  BY DEF PassJudge, MovePass, Found
<1>2. pass \in [at     : {"idle", "listing", "judging", "committing"},
                rows   : Partial(ACTIVE_STATUSES),
                ps     : Partial(ContainerState),
                writes : Partial(ACTIVE_STATUSES \cup {"failed"})]
  BY DEF TypeOK
<1>3. ASSUME pass' = [pass EXCEPT !.rows = rows, !.writes = writes]
      PROVE  /\ pass'.at = pass.at /\ pass'.ps = pass.ps
             /\ pass'.rows = rows /\ pass'.writes = writes
  <2> HIDE DEF rows, writes
  <2> QED
    BY <1>2, <1>3
<1> QED
  BY <1>1, <1>3

LEMMA SnapStep ==
  ASSUME TypeOK, SnapInv, [Next]_vars
  PROVE  SnapInv'
<1> USE DEF SnapInv
<1>1. CASE PassBegin
  BY <1>1 DEF PassBegin, MovePass, NoPass
<1>2. CASE PassList
  BY <1>2 DEF PassList, MovePass, NoPass, TypeOK
<1>3. ASSUME NEW d \in Dep, PassJudge(d)
      PROVE  SnapInv'
  <2>1. pass' = NoPass \/ (pass'.at = pass.at /\ pass'.ps = pass.ps)
    BY <1>3, JudgeEffect
  <2> QED
    BY <2>1 DEF NoPass
<1>4. CASE PassCommit
  BY <1>4 DEF PassCommit, MovePass, NoPass
<1>5. CASE Crash
  BY <1>5 DEF Crash, NoPass
<1>6. CASE UNCHANGED pass
  BY <1>6
<1>7. ASSUME NEW d \in Dep, Create(d) \/ LaunchStep(d) \/ StopBegin(d) \/ StopStep(d)
                              \/ GraceEnds(d) \/ ContainerMoves(d)
      PROVE  UNCHANGED pass
  BY <1>7 DEF Create, LaunchStep, LaunchBegin, LaunchInspect, LaunchMarkPulling, LaunchPull,
         LaunchRun, LaunchCommit, StopBegin, StopStep, StopRun, StopCommit, GraceEnds,
         ContainerMoves
<1>8. CASE AdoptList \/ AdoptCommit \/ Inventory \/ NodeFlips \/ UNCHANGED vars
  BY <1>6, <1>8 DEF AdoptList, AdoptCommit, Inventory, NodeFlips, vars
<1> QED
  BY <1>1, <1>2, <1>3, <1>4, <1>5, <1>6, <1>7, <1>8 DEF Next, PassStep

LEMMA TypeStep ==
  ASSUME TypeOK, SnapInv, [Next]_vars
  PROVE  TypeOK'
<1>1. CASE UNCHANGED vars
  BY <1>1 DEF vars, TypeOK
<1>2. CASE Next
  BY <1>2, LaunchType, StopType, PassType, AdoptType, WorldType DEF Next
<1> QED
  BY <1>1, <1>2

\* Every behaviour is type correct; in particular the status "stopping", which
\* stop sets before it calls the node, is never committed.
THEOREM TypeCorrect == Spec => []TypeOK
<1>1. Init => TypeOK /\ SnapInv
  BY InitType DEF Init, NoPass, SnapInv
<1>2. TypeOK /\ SnapInv /\ [Next]_vars => (TypeOK /\ SnapInv)'
  BY TypeStep, SnapStep
<1> QED
  BY <1>1, <1>2, PTL DEF Spec

-----------------------------------------------------------------------------
\* While a launch has not run its container, nobody else has hold of its row:
\* the container is not there, no stop is under way, and the pass either has
\* not met the row or has seen it as pending or pulling with no container, of
\* which it writes nothing.  A row that does not exist yet is as fresh.
Fresh(d) ==
  /\ container[d] = "none"
  /\ stop[d] = "idle"
  /\ d \notin DOMAIN pass.writes
  /\ pass.at = "judging" => pass.ps[d] = "none"
  /\ d \in DOMAIN pass.rows => pass.rows[d] \in {"pending", "pulling"}

Unlaunched == {"scheduled", "inspecting", "marking", "pulling", "running"}

FreshInv ==
  /\ \A d \in Dep :
       /\ status[d] = "absent" => launch[d] = "none" /\ Fresh(d)
       /\ launch[d] \in Unlaunched => status[d] \in {"pending", "pulling"} /\ Fresh(d)
  /\ adopt.at = "idle"

LEMMA FreshInit == Init => FreshInv
BY DEF Init, FreshInv, Fresh, Unlaunched, NoPass, NoAdopt

\* A step that leaves the pass alone keeps row e fresh when it leaves e's
\* container and stop alone.
LEMMA FreshKept ==
  ASSUME NEW e \in Dep, Fresh(e), UNCHANGED pass,
         container'[e] = container[e], stop'[e] = stop[e]
  PROVE  Fresh(e)'
BY DEF Fresh

LEMMA FreshLaunch ==
  ASSUME TypeOK, FreshInv, NEW d \in Dep, Create(d) \/ LaunchStep(d)
  PROVE  FreshInv'
<1>1. UNCHANGED <<pass, stop, adopt>>
  BY DEF Create, LaunchStep, LaunchBegin, LaunchInspect, LaunchMarkPulling, LaunchPull,
         LaunchRun, LaunchCommit
<1>2. ASSUME NEW e \in Dep, e # d
      PROVE  status'[e] = status[e] /\ launch'[e] = launch[e] /\ container'[e] = container[e]
  BY <1>2 DEF TypeOK, Create, LaunchStep, LaunchBegin, LaunchInspect, LaunchMarkPulling,
         LaunchPull, LaunchRun, LaunchCommit, MoveLaunch
<1>3. status'[d] = "absent" => status[d] = "absent" /\ ~ Create(d)
  BY DEF TypeOK, Create, LaunchStep, LaunchBegin, LaunchInspect, LaunchMarkPulling,
         LaunchPull, LaunchRun, LaunchCommit
<1>4. launch'[d] \in Unlaunched =>
        \/ Create(d)
        \/ launch[d] \in Unlaunched /\ UNCHANGED container /\ status'[d] \in {status[d], "pulling"}
  BY DEF TypeOK, LaunchStep, LaunchBegin, LaunchInspect, LaunchMarkPulling,
         LaunchPull, LaunchRun, LaunchCommit, MoveLaunch, Unlaunched
<1>5. Create(d) => status[d] = "absent" /\ status'[d] = "pending" /\ UNCHANGED container
  BY DEF Create, TypeOK
<1>6. LaunchStep(d) => launch[d] # "none"
  BY DEF LaunchStep, LaunchBegin, LaunchInspect, LaunchMarkPulling, LaunchPull, LaunchRun,
         LaunchCommit
<1>7. ASSUME NEW e \in Dep
      PROVE  /\ status'[e] = "absent" => launch'[e] = "none" /\ Fresh(e)'
             /\ launch'[e] \in Unlaunched => status'[e] \in {"pending", "pulling"} /\ Fresh(e)'
  <2>1. CASE e # d
    BY <2>1, <1>1, <1>2, FreshKept DEF FreshInv
  <2>2. CASE e = d
    BY <2>2, <1>1, <1>3, <1>4, <1>5, <1>6, FreshKept DEF FreshInv
  <2> QED
    BY <2>1, <2>2
<1> QED
  BY <1>1, <1>7 DEF FreshInv

LEMMA FreshStop ==
  ASSUME TypeOK, FreshInv, "stop_early" \notin Operators,
         NEW d \in Dep, StopBegin(d) \/ StopStep(d)
  PROVE  FreshInv'
<1>1. UNCHANGED <<pass, launch, adopt>>
  BY DEF StopBegin, StopStep, StopRun, StopCommit
<1>2. status[d] # "absent" /\ launch[d] \notin Unlaunched
  BY DEF FreshInv, Fresh, StopBegin, StopStep, StopRun, StopCommit, Unlaunched
<1>3. ASSUME NEW e \in Dep, e # d
      PROVE  status'[e] = status[e] /\ stop'[e] = stop[e] /\ container'[e] = container[e]
  BY <1>3 DEF TypeOK, StopBegin, StopStep, StopRun, StopCommit
<1>4. status'[d] # "absent"
  BY <1>2 DEF TypeOK, StopBegin, StopStep, StopRun, StopCommit, AfterStop
<1>5. ASSUME NEW e \in Dep
      PROVE  /\ status'[e] = "absent" => launch'[e] = "none" /\ Fresh(e)'
             /\ launch'[e] \in Unlaunched => status'[e] \in {"pending", "pulling"} /\ Fresh(e)'
  <2>1. CASE e # d
    BY <2>1, <1>1, <1>3, FreshKept DEF FreshInv
  <2>2. CASE e = d
    BY <2>2, <1>1, <1>2, <1>4
  <2> QED
    BY <2>1, <2>2
<1> QED
  BY <1>1, <1>5 DEF FreshInv

\* The pass leaves a fresh row fresh, and does not write it at its commit.
LEMMA PassKeepsFresh ==
  ASSUME TypeOK, PassStep, NEW e \in Dep, Fresh(e),
         status[e] \in {"absent", "pending", "pulling"}
  PROVE  Fresh(e)' /\ status'[e] = status[e]
<1>1. UNCHANGED <<container, stop>>
  BY DEF PassStep, PassBegin, PassList, PassJudge, PassCommit, MovePass
<1>2. CASE pass' = NoPass /\ UNCHANGED status
  BY <1>1, <1>2 DEF Fresh, NoPass
<1>3. CASE PassBegin
  <2> DEFINE rows == [d \in ActiveRows |-> status[d]]
             bad  == {d \in ActiveRows : status[d] = "healthy"}
             fix  == [d \in bad |-> "degraded"]
  <2>1. \/ pass' = [NoPass EXCEPT !.at = "committing", !.writes = fix]
        \/ pass' = [NoPass EXCEPT !.at = "listing", !.rows = rows]
    BY <1>3 DEF PassBegin, MovePass
  <2>2. e \notin DOMAIN fix /\ (e \in DOMAIN rows => rows[e] \in {"pending", "pulling"})
    BY DEF ActiveRows, ACTIVE_STATUSES
  <2>3. UNCHANGED status
    BY <1>3 DEF PassBegin
  <2>4. CASE pass' = [NoPass EXCEPT !.at = "committing", !.writes = fix]
    <3> HIDE DEF fix
    <3> QED
      BY <1>1, <2>2, <2>3, <2>4 DEF NoPass, Fresh
  <2>5. CASE pass' = [NoPass EXCEPT !.at = "listing", !.rows = rows]
    <3> HIDE DEF rows
    <3> QED
      BY <1>1, <2>2, <2>3, <2>5 DEF NoPass, Fresh
  <2> QED
    BY <2>1, <2>4, <2>5
<1>4. CASE PassList
  BY <1>1, <1>2, <1>4 DEF PassList, MovePass, Fresh, TypeOK
<1>5. ASSUME NEW d \in Dep, PassJudge(d)
      PROVE  Fresh(e)' /\ status'[e] = status[e]
  <2>1. UNCHANGED status /\ d \in DOMAIN pass.rows /\ pass.at = "judging"
    BY <1>5 DEF PassJudge
  <2>2. CASE pass' = NoPass
    BY <1>2, <2>1, <2>2
  <2>3. d = e => Found(d) = pass.rows[d]
    BY <2>1 DEF Fresh, Found, Verdict, Running
  <2>4. CASE pass' # NoPass
    <3>1. /\ pass'.at = pass.at /\ pass'.ps = pass.ps
          /\ pass'.rows = [f \in DOMAIN pass.rows \ {d} |-> pass.rows[f]]
          /\ pass'.writes =
               [f \in DOMAIN pass.writes \cup (IF Found(d) = pass.rows[d] THEN {} ELSE {d}) |->
                  IF f = d THEN Found(d) ELSE pass.writes[f]]
      BY <1>5, <2>4, JudgeEffect
    <3>2. e \notin DOMAIN pass'.writes
      BY <2>3, <3>1 DEF Fresh
    <3>3. e \in DOMAIN pass'.rows => pass'.rows[e] \in {"pending", "pulling"}
      BY <3>1 DEF Fresh
    <3> QED
      BY <1>1, <2>1, <3>1, <3>2, <3>3 DEF Fresh
  <2> QED
    BY <2>2, <2>4
<1>6. CASE PassCommit
  <2>1. pass' = NoPass /\ status'[e] = status[e]
    BY <1>6 DEF PassCommit, MovePass, Fresh, TypeOK
  <2> QED
    BY <1>1, <2>1 DEF Fresh, NoPass
<1> QED
  BY <1>3, <1>4, <1>5, <1>6 DEF PassStep

LEMMA FreshPass ==
  ASSUME TypeOK, FreshInv, PassStep
  PROVE  FreshInv'
<1>1. UNCHANGED <<launch, adopt>>
  BY DEF PassStep, PassBegin, PassList, PassJudge, PassCommit, MovePass
<1>2. ASSUME NEW e \in Dep, status'[e] = "absent"
      PROVE  status[e] = "absent"
  <2>1. pass.writes \in [DOMAIN pass.writes -> ACTIVE_STATUSES \cup {"failed"}]
    BY PartialElim DEF TypeOK
  <2> QED
    BY <1>2, <2>1 DEF PassStep, PassBegin, PassList, PassJudge, PassCommit, ACTIVE_STATUSES
<1> QED
  BY <1>1, <1>2, PassKeepsFresh DEF FreshInv

LEMMA FreshWorld ==
  ASSUME TypeOK, FreshInv,
         \/ \E d \in Dep : GraceEnds(d) \/ ContainerMoves(d)
         \/ Inventory \/ NodeFlips \/ Crash
  PROVE  FreshInv'
<1>1. ASSUME NEW d \in Dep, ContainerMoves(d)
      PROVE  FreshInv'
  <2>1. container[d] # "none" /\ UNCHANGED <<status, launch, stop, pass, adopt>>
    BY <1>1 DEF ContainerMoves, HoldsGpu, Running
  <2>2. ASSUME NEW e \in Dep, Fresh(e)
        PROVE  Fresh(e)'
    BY <1>1, <2>1, <2>2, FreshKept DEF ContainerMoves, TypeOK, Fresh
  <2> QED
    BY <2>1, <2>2 DEF FreshInv
<1>2. CASE (\E d \in Dep : GraceEnds(d)) \/ Inventory \/ NodeFlips
  BY <1>2 DEF GraceEnds, Inventory, NodeFlips, FreshInv, Fresh
<1>3. CASE Crash
  <2>1. ASSUME NEW e \in Dep, status[e] = "absent"
        PROVE  launch'[e] = "none" /\ Fresh(e)'
    BY <1>3, <2>1 DEF Crash, FreshInv, Fresh, NoPass
  <2>2. \A e \in Dep : launch'[e] \notin Unlaunched
    BY <1>3 DEF Crash, Unlaunched
  <2>3. UNCHANGED status /\ adopt'.at = "idle"
    BY <1>3 DEF Crash, NoAdopt
  <2> QED
    BY <2>1, <2>2, <2>3 DEF FreshInv
<1> QED
  BY <1>1, <1>2, <1>3

LEMMA FreshStep ==
  ASSUME TypeOK, FreshInv, [Next]_vars, Operators \subseteq {"stop"}
  PROVE  FreshInv'
<1>1. CASE UNCHANGED vars
  BY <1>1 DEF vars, FreshInv, Fresh
<1>2. CASE AdoptList \/ AdoptCommit
  BY <1>2 DEF AdoptList, AdoptCommit, FreshInv
<1> QED
  BY <1>1, <1>2, FreshLaunch, FreshStop, FreshPass, FreshWorld DEF Next

\* A step never fails a row that is being pulled.
LEMMA PullStep ==
  ASSUME TypeOK, FreshInv, [Next]_vars, NEW d \in Dep,
         launch[d] = "pulling", status[d] = "pulling", launch'[d] = "pulling"
  PROVE  status'[d] # "failed"
<1>1. Fresh(d)
  BY DEF FreshInv, Unlaunched
<1>2. ASSUME NEW e \in Dep, Create(e) \/ LaunchStep(e)
      PROVE  status'[d] # "failed"
  BY <1>2 DEF TypeOK, Create, LaunchStep, LaunchBegin, LaunchInspect, LaunchMarkPulling,
         LaunchPull, LaunchRun, LaunchCommit, MoveLaunch
<1>3. ASSUME NEW e \in Dep, StopBegin(e) \/ StopStep(e)
      PROVE  status'[d] # "failed"
  BY <1>1, <1>3 DEF TypeOK, StopBegin, StopStep, StopRun, StopCommit, Fresh
<1>4. CASE PassStep
  BY <1>1, <1>4, PassKeepsFresh
<1>5. ASSUME NEW e \in Dep, GraceEnds(e) \/ ContainerMoves(e)
      PROVE  status'[d] # "failed"
  BY <1>5 DEF GraceEnds, ContainerMoves
<1>6. CASE AdoptList \/ AdoptCommit \/ Inventory \/ NodeFlips \/ Crash \/ UNCHANGED vars
  BY <1>6 DEF AdoptList, AdoptCommit, Inventory, NodeFlips, Crash, vars, FreshInv
<1> QED
  BY <1>2, <1>3, <1>4, <1>5, <1>6 DEF Next

\* As long as operators leave launches that are under way alone, a deployment
\* whose image is being pulled is failed by its own launch and by nobody else,
\* whatever the node, the driver, the pass and crashes do (_reconcile_one).
THEOREM PullSafe ==
  ASSUME Operators \subseteq {"stop"}
  PROVE  Spec => PullSurvives
<1>1. Init => TypeOK /\ SnapInv /\ FreshInv
  BY InitType, FreshInit DEF Init, NoPass, SnapInv
<1>2. TypeOK /\ SnapInv /\ FreshInv /\ [Next]_vars => (TypeOK /\ SnapInv /\ FreshInv)'
  BY TypeStep, SnapStep, FreshStep
<1>3. TypeOK /\ FreshInv /\ [Next]_vars =>
        [\A d \in Dep :
           launch[d] = "pulling" /\ status[d] = "pulling" /\ status'[d] = "failed"
             => launch'[d] # "pulling"]_vars
  BY PullStep
<1> QED
  BY <1>1, <1>2, <1>3, PTL DEF Spec, PullSurvives

-----------------------------------------------------------------------------
\* Whoever is about to give a claim up knows that the container is gone: the
\* launch that failed, the stop that removed it, the pass that has decided on
\* failed, and the pass that has seen what will make it decide so.
GoneInv ==
  \A d \in Dep :
    \/ container[d] \notin HoldsGpu
    \/ /\ launch[d] # "failing"
       /\ stop[d] # "removed"
       /\ d \in DOMAIN pass.writes => pass.writes[d] # "failed"
       /\ pass.at = "judging" =>
            /\ pass.ps[d] # "exited"
            /\ d \in DOMAIN pass.rows /\ pass.ps[d] = "none" => pass.rows[d] \in {"pending", "pulling"}

GoneAssumption == Operators \subseteq {"stop"} /\ Faults \cap {"timeout", "unstopped", "reboot"} = {}

LEMMA GoneInit == Init => GoneInv
BY DEF Init, GoneInv, HoldsGpu, Running

LEMMA GoneLaunch ==
  ASSUME TypeOK, FreshInv, GoneInv, GoneAssumption, NEW d \in Dep, Create(d) \/ LaunchStep(d)
  PROVE  GoneInv'
<1>1. UNCHANGED <<pass, stop>>
  BY DEF Create, LaunchStep, LaunchBegin, LaunchInspect, LaunchMarkPulling, LaunchPull,
         LaunchRun, LaunchCommit
<1>2. ASSUME NEW e \in Dep, e # d
      PROVE  launch'[e] = launch[e] /\ container'[e] = container[e]
  BY <1>2 DEF TypeOK, Create, LaunchStep, LaunchBegin, LaunchInspect, LaunchMarkPulling,
         LaunchPull, LaunchRun, LaunchCommit, MoveLaunch
<1>3. CASE LaunchRun(d)
  <2>1. Fresh(d)
    BY <1>3 DEF LaunchRun, FreshInv, Unlaunched
  <2>2. launch'[d] # "failing" \/ container'[d] = "none"
    BY <1>3, <2>1 DEF LaunchRun, MoveLaunch, TypeOK, GoneAssumption, Fresh
  <2>3. /\ stop[d] # "removed" /\ d \notin DOMAIN pass.writes
        /\ pass.at = "judging" => pass.ps[d] = "none"
        /\ d \in DOMAIN pass.rows => pass.rows[d] \in {"pending", "pulling"}
    BY <2>1 DEF Fresh
  <2> QED
    BY <1>1, <1>2, <2>2, <2>3 DEF GoneInv, HoldsGpu, Running
<1>4. CASE ~ LaunchRun(d)
  <2>1. UNCHANGED container
    BY <1>4 DEF Create, LaunchStep, LaunchBegin, LaunchInspect, LaunchMarkPulling, LaunchPull,
           LaunchCommit
  <2>2. launch'[d] = "failing" => launch[d] \in Unlaunched
    BY <1>4 DEF TypeOK, Create, LaunchStep, LaunchBegin, LaunchInspect, LaunchMarkPulling,
           LaunchPull, LaunchCommit, MoveLaunch, Unlaunched
  <2>3. launch'[d] = "failing" => container[d] = "none"
    BY <2>2 DEF FreshInv, Fresh
  <2> QED
    BY <1>1, <1>2, <2>1, <2>3 DEF GoneInv, HoldsGpu, Running
<1> QED
  BY <1>3, <1>4

LEMMA GoneStop ==
  ASSUME TypeOK, GoneInv, GoneAssumption, NEW d \in Dep, StopBegin(d) \/ StopStep(d)
  PROVE  GoneInv'
<1>1. UNCHANGED <<pass, launch>>
  BY DEF StopBegin, StopStep, StopRun, StopCommit
<1>2. ASSUME NEW e \in Dep, e # d
      PROVE  stop'[e] = stop[e] /\ container'[e] = container[e]
  BY <1>2 DEF TypeOK, StopBegin, StopStep, StopRun, StopCommit
<1>3. container'[d] \in {container[d], "exited", "none"}
  BY DEF TypeOK, StopBegin, StopStep, StopRun, StopCommit
<1>4. stop'[d] = "removed" => container'[d] = "none"
  BY DEF TypeOK, StopBegin, StopStep, StopRun, StopCommit, GoneAssumption
<1> QED
  BY <1>1, <1>2, <1>3, <1>4 DEF GoneInv, HoldsGpu, Running

\* The pass decides on failed only for a container that it has seen exited, or
\* not seen although the launch was over.
LEMMA VerdictFailed ==
  ASSUME NEW s \in ACTIVE_STATUSES, NEW c \in ContainerState,
         NEW up \in BOOLEAN, NEW late \in BOOLEAN, Verdict(s, c, up, late) = "failed"
  PROVE  c = "exited" \/ (c = "none" /\ s \notin {"pending", "pulling"})
<1>1. CASE c = "none"
  BY <1>1 DEF Verdict, Running, ACTIVE_STATUSES
<1>2. CASE c = "looping"
  BY <1>2 DEF Verdict, Running, ACTIVE_STATUSES
<1>3. CASE c \in Running
  BY <1>3 DEF Verdict, Running, ACTIVE_STATUSES
<1> QED
  BY <1>1, <1>2, <1>3 DEF ContainerState, HoldsGpu

LEMMA GonePass ==
  ASSUME TypeOK, SnapInv, GoneInv, PassStep
  PROVE  GoneInv'
<1>1. UNCHANGED <<container, stop, launch>>
  BY DEF PassStep, PassBegin, PassList, PassJudge, PassCommit, MovePass
<1>2. CASE pass' = NoPass
  BY <1>1, <1>2 DEF GoneInv, NoPass
<1>3. CASE PassBegin
  <2> DEFINE rows == [d \in ActiveRows |-> status[d]]
             bad  == {d \in ActiveRows : status[d] = "healthy"}
             fix  == [d \in bad |-> "degraded"]
  <2>1. \/ pass' = [NoPass EXCEPT !.at = "committing", !.writes = fix]
        \/ pass' = [NoPass EXCEPT !.at = "listing", !.rows = rows]
    BY <1>3 DEF PassBegin, MovePass
  <2>2. \A d \in DOMAIN fix : fix[d] # "failed"
    OBVIOUS
  <2>3. pass'.at # "judging" /\ \A d \in DOMAIN pass'.writes : pass'.writes[d] # "failed"
    <3> HIDE DEF fix, rows
    <3> QED
      BY <2>1, <2>2, ZenonT(60) DEF NoPass
  <2> QED
    BY <1>1, <2>3 DEF GoneInv
<1>4. CASE PassList /\ pass' # NoPass
  <2>1. pass'.ps = container /\ pass'.writes = pass.writes /\ pass'.rows = pass.rows
    BY <1>4 DEF PassList, MovePass, TypeOK
  <2> QED
    BY <1>1, <2>1 DEF GoneInv, HoldsGpu, Running
<1>5. ASSUME NEW d \in Dep, PassJudge(d), pass' # NoPass
      PROVE  GoneInv'
  <2>1. /\ pass'.at = pass.at /\ pass'.ps = pass.ps
        /\ pass'.rows = [f \in DOMAIN pass.rows \ {d} |-> pass.rows[f]]
        /\ pass'.writes =
             [f \in DOMAIN pass.writes \cup (IF Found(d) = pass.rows[d] THEN {} ELSE {d}) |->
                IF f = d THEN Found(d) ELSE pass.writes[f]]
    BY <1>5, JudgeEffect
  <2>2. d \in DOMAIN pass.rows /\ pass.at = "judging"
    BY <1>5 DEF PassJudge
  <2>3. pass.rows[d] \in ACTIVE_STATUSES /\ pass.ps[d] \in ContainerState
    <3>1. pass.rows \in [DOMAIN pass.rows -> ACTIVE_STATUSES]
      BY PartialElim DEF TypeOK
    <3> QED
      BY <2>2, <3>1 DEF SnapInv
  <2>4. Found(d) = "failed" => container[d] \notin HoldsGpu
    <3>1. Found(d) = "failed" =>
            pass.ps[d] = "exited" \/ (pass.ps[d] = "none" /\ pass.rows[d] \notin {"pending", "pulling"})
      BY <2>3, VerdictFailed DEF Found, TypeOK
    <3> QED
      BY <2>2, <3>1 DEF GoneInv
  <2>5. ASSUME NEW e \in Dep, container[e] \in HoldsGpu, e \in DOMAIN pass'.writes
        PROVE  pass'.writes[e] # "failed"
    BY <2>1, <2>4, <2>5 DEF GoneInv
  <2>6. ASSUME NEW e \in Dep, e \in DOMAIN pass'.rows
        PROVE  e \in DOMAIN pass.rows /\ pass'.rows[e] = pass.rows[e]
    BY <2>1, <2>6
  <2>7. pass'.at = pass.at /\ pass'.ps = pass.ps
    BY <2>1
  <2> QED
    BY <1>1, <2>5, <2>6, <2>7 DEF GoneInv
<1>6. CASE PassCommit
  BY <1>2, <1>6 DEF PassCommit, MovePass
<1> QED
  BY <1>2, <1>3, <1>4, <1>5, <1>6 DEF PassStep

LEMMA GoneWorld ==
  ASSUME TypeOK, GoneInv, GoneAssumption,
         \/ \E d \in Dep : GraceEnds(d) \/ ContainerMoves(d)
         \/ Inventory \/ NodeFlips \/ Crash
  PROVE  GoneInv'
<1>1. ASSUME NEW d \in Dep, ContainerMoves(d)
      PROVE  GoneInv'
  <2>1. UNCHANGED <<launch, stop, pass>>
    BY <1>1 DEF ContainerMoves
  <2>2. ASSUME NEW e \in Dep, container[e] \notin HoldsGpu
        PROVE  container'[e] \notin HoldsGpu
    BY <1>1, <2>2 DEF ContainerMoves, GoneAssumption, HoldsGpu, Running, TypeOK
  <2> QED
    BY <2>1, <2>2 DEF GoneInv
<1>2. CASE (\E d \in Dep : GraceEnds(d)) \/ Inventory \/ NodeFlips
  BY <1>2 DEF GraceEnds, Inventory, NodeFlips, GoneInv
<1>3. CASE Crash
  BY <1>3 DEF Crash, GoneInv, NoPass
<1> QED
  BY <1>1, <1>2, <1>3

LEMMA GoneStep ==
  ASSUME TypeOK, SnapInv, FreshInv, GoneInv, GoneAssumption, [Next]_vars
  PROVE  GoneInv'
<1>1. CASE UNCHANGED vars
  BY <1>1 DEF vars, GoneInv
<1>2. CASE AdoptList \/ AdoptCommit
  BY <1>2 DEF AdoptList, AdoptCommit, FreshInv, GoneAssumption
<1> QED
  BY <1>1, <1>2, GoneLaunch, GoneStop, GonePass, GoneWorld DEF Next

LEMMA ReleaseStep ==
  ASSUME TypeOK, FreshInv, GoneInv, GoneAssumption, [Next]_vars, NEW d \in Dep,
         status[d] \in ACTIVE_STATUSES, status'[d] \notin ACTIVE_STATUSES
  PROVE  container'[d] \notin HoldsGpu
<1>1. ASSUME NEW e \in Dep, Create(e) \/ LaunchStep(e)
      PROVE  container'[d] \notin HoldsGpu
  <2>1. LaunchCommit(d) /\ launch[d] = "failing"
    BY <1>1 DEF TypeOK, Create, LaunchStep, LaunchBegin, LaunchInspect, LaunchMarkPulling,
           LaunchPull, LaunchRun, LaunchCommit, ACTIVE_STATUSES
  <2> QED
    BY <2>1 DEF LaunchCommit, GoneInv
<1>2. ASSUME NEW e \in Dep, StopBegin(e) \/ StopStep(e)
      PROVE  container'[d] \notin HoldsGpu
  <2>1. StopCommit(d) /\ stop[d] = "removed"
    BY <1>2 DEF TypeOK, StopBegin, StopStep, StopRun, StopCommit, AfterStop, ACTIVE_STATUSES
  <2> QED
    BY <2>1 DEF StopCommit, GoneInv
<1>3. CASE PassStep
  <2>1. PassCommit
    BY <1>3 DEF PassStep, PassBegin, PassList, PassJudge
  <2>2. pass.writes \in [DOMAIN pass.writes -> ACTIVE_STATUSES \cup {"failed"}]
    BY PartialElim DEF TypeOK
  <2>3. d \in DOMAIN pass.writes /\ pass.writes[d] = "failed"
    BY <2>1, <2>2 DEF PassCommit
  <2> QED
    BY <2>1, <2>3 DEF PassCommit, MovePass, GoneInv
<1>4. ASSUME NEW e \in Dep, GraceEnds(e) \/ ContainerMoves(e)
      PROVE  FALSE
  BY <1>4 DEF GraceEnds, ContainerMoves
<1>5. CASE AdoptList \/ AdoptCommit \/ Inventory \/ NodeFlips \/ Crash \/ UNCHANGED vars
  BY <1>5 DEF AdoptList, AdoptCommit, Inventory, NodeFlips, Crash, vars, FreshInv
<1> QED
  BY <1>1, <1>2, <1>3, <1>4, <1>5 DEF Next

\* A claim is given up only when the container no longer holds GPUs: for any
\* number of deployments and stops, through outages, exits, restart loops,
\* removals and crashes, as long as operators leave launches alone, docker
\* reports its failures, and docker does not restart what has exited.
THEOREM ReleaseSafe ==
  ASSUME GoneAssumption
  PROVE  Spec => ReleasedOnlyWhenGone
<1>1. Init => TypeOK /\ SnapInv /\ FreshInv /\ GoneInv
  BY InitType, FreshInit, GoneInit DEF Init, NoPass, SnapInv
<1>2. TypeOK /\ SnapInv /\ FreshInv /\ GoneInv /\ [Next]_vars =>
        (TypeOK /\ SnapInv /\ FreshInv /\ GoneInv)'
  BY TypeStep, SnapStep, FreshStep, GoneStep DEF GoneAssumption
<1>3. TypeOK /\ FreshInv /\ GoneInv /\ [Next]_vars =>
        [\A d \in Dep :
           status[d] \in ACTIVE_STATUSES /\ status'[d] \notin ACTIVE_STATUSES
             => container'[d] \notin HoldsGpu]_vars
  BY ReleaseStep
<1> QED
  BY <1>1, <1>2, <1>3, PTL DEF Spec, ReleasedOnlyWhenGone
=============================================================================
