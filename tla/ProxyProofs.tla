----------------------------- MODULE ProxyProofs ------------------------------
(***************************************************************************)
(* Proofs about Proxy, for any deployments, entries of others and bounds.  *)
(***************************************************************************)
EXTENDS Proxy, TLAPS

\* A row as a session loaded it, a stop's flushed status included, and as the
\* session means to write it.
LoadedRow == [status : DeployStatus \cup {"stopping"}, flag : BOOLEAN]
ViewedRow == [status : DeployStatus, flag : BOOLEAN]

Stage == {"judge", "select", "apply", "deregister", "stop", "commit"}

\* A session under way over the rows of D: it adds and removes deployments only.
Task(D) ==
  [at : Stage, base : [D -> LoadedRow], view : [D -> ViewedRow],
   todo : SUBSET D, add : SUBSET Dep, drop : SUBSET Dep]

Tasks == UNION {Task(D) : D \in SUBSET Dep}

Over == [at |-> "done"]

JobInv == job \in [Session -> {Idle, Over} \cup Tasks]

IInv == TypeOK /\ JobInv /\ OthersKept

-----------------------------------------------------------------------------
LEMMA UnderWay ==
  ASSUME JobInv, NEW s \in Session, job[s].at \notin {Asleep, "done"}
  PROVE  /\ job[s] \in Tasks
         /\ \E D \in SUBSET Dep : job[s] \in Task(D)
BY DEF JobInv, Idle, Over, Tasks

\* What a session loads is typed as the tables are.
LEMMA FreshTask ==
  ASSUME TypeOK, NEW D \in SUBSET Dep, NEW at \in Stage
  PROVE  Fresh(at, D) \in Task(D)
<1>1. Loaded(D) \in [D -> ViewedRow] /\ Loaded(D) \in [D -> LoadedRow]
  BY DEF Loaded, TypeOK, ViewedRow, LoadedRow
<1> QED
  BY <1>1 DEF Fresh, Task

\* A row that is judged, stopped or flagged stays a row.
LEMMA StatusKept ==
  ASSUME NEW D, NEW view \in [D -> ViewedRow], NEW d, NEW new \in DeployStatus
  PROVE  [view EXCEPT ![d].status = new] \in [D -> ViewedRow]
BY DEF ViewedRow

LEMMA FlagKept ==
  ASSUME NEW D, NEW view \in [D -> ViewedRow], NEW d, NEW new \in BOOLEAN
  PROVE  [view EXCEPT ![d].flag = new] \in [D -> ViewedRow]
BY DEF ViewedRow

\* One session changes what it is doing.
LEMMA JobKept ==
  ASSUME JobInv, NEW s \in Session, NEW t \in {Idle, Over} \cup Tasks,
         job' = [job EXCEPT ![s] = t]
  PROVE  JobInv'
BY DEF JobInv

\* A commit writes typed columns.
LEMMA WriteTyped ==
  ASSUME TypeOK, JobInv, NEW s \in Session, NEW cleared \in SUBSET Dep, Write(s, cleared),
         job[s].at \notin {Asleep, "done"}
  PROVE  status' \in [Dep -> DeployStatus] /\ flag' \in [Dep -> BOOLEAN]
<1>1. PICK D \in SUBSET Dep : job[s] \in Task(D)
  BY UnderWay
<1>2. /\ \A d \in D : job[s].view[d].status \in DeployStatus /\ job[s].view[d].flag \in BOOLEAN
      /\ DOMAIN job[s].base = D
  BY <1>1 DEF Task, ViewedRow
<1>3. Writes(s, "status") \subseteq D /\ Writes(s, "flag") \subseteq D
  BY <1>2 DEF Writes
<1>4. \A d \in Dep : status'[d] \in DeployStatus
  BY <1>2, <1>3 DEF Write, TypeOK
<1>5. \A d \in Dep : flag'[d] \in BOOLEAN
  BY <1>2, <1>3 DEF Write, TypeOK
<1> QED
  BY <1>4, <1>5 DEF Write

-----------------------------------------------------------------------------
\* A call to the proxy about a deployment leaves the entries of others alone.
LEMMA RegisterKept ==
  ASSUME NEW d \in Dep, NEW ok, Register(d, ok), Other \subseteq route, route \subseteq Dep \cup Other
  PROVE  Other \subseteq route' /\ route' \subseteq Dep \cup Other
BY DEF Register

LEMMA DeregisterKept ==
  ASSUME NEW d \in Dep, NEW ok, Deregister(d, ok), Other \subseteq route, route \subseteq Dep \cup Other
  PROVE  Other \subseteq route' /\ route' \subseteq Dep \cup Other
BY ProxyAssumption DEF Deregister

LEMMA SyncKept ==
  ASSUME JobInv, NEW s \in Session, job[s].at \notin {Asleep, "done"},
         NEW d \in job[s].add, NEW ok \in BOOLEAN, Sync(s, d, ok)
  PROVE  JobInv' /\ d \in Dep
<1>1. PICK D \in SUBSET Dep : job[s] \in Task(D)
  BY UnderWay
<1> DEFINE view == [job[s].view EXCEPT ![d].flag = ok]
           next == [job[s] EXCEPT !.view = view, !.add = @ \ {d}]
<1>2. view \in [D -> ViewedRow]
  <2>1. job[s].view \in [D -> ViewedRow]
    BY <1>1 DEF Task
  <2> QED
    BY <2>1, FlagKept
<1>3. next \in Task(D) /\ d \in Dep
  BY <1>1, <1>2 DEF Task
<1>4. job' = [job EXCEPT ![s] = next]
  BY DEF Sync
<1> QED
  BY <1>3, <1>4, JobKept DEF Tasks

LEMMA PassInv ==
  ASSUME IInv, PassStep
  PROVE  IInv'
<1>1. CASE PassBegin
  <2> DEFINE active == {d \in Dep : Active(d)}
  <2>1. [Fresh("judge", active) EXCEPT !.todo = active] \in Task(active)
    <3>1. Fresh("judge", active) \in Task(active)
      BY FreshTask DEF IInv, Stage
    <3> QED
      BY <3>1 DEF Task
  <2>2. JobInv'
    BY <1>1, <2>1, JobKept DEF PassBegin, IInv, Session, Tasks
  <2> QED
    BY <1>1, <2>2 DEF PassBegin, IInv, TypeOK, OthersKept
<1>2. CASE PassJudge
  <2>1. PICK D \in SUBSET Dep : job[Pass] \in Task(D)
    BY <1>2, UnderWay DEF PassJudge, Asleep, IInv, Session
  <2>2. PICK d \in job[Pass].todo : \E new \in Verdict(container[d], job[Pass].view[d].status) :
          job' = [job EXCEPT ![Pass].todo = @ \ {d}, ![Pass].view[d].status = new,
                    ![Pass].add = {e \in {d} : container[d] = "answers" /\ ~ job[Pass].view[d].flag}]
    BY <1>2 DEF PassJudge
  <2>2a. PICK new \in Verdict(container[d], job[Pass].view[d].status) :
          job' = [job EXCEPT ![Pass].todo = @ \ {d}, ![Pass].view[d].status = new,
                    ![Pass].add = {e \in {d} : container[d] = "answers" /\ ~ job[Pass].view[d].flag}]
    BY <2>2
  <2> DEFINE t == job[Pass]
             add == {e \in {d} : container[d] = "answers" /\ ~ job[Pass].view[d].flag}
             view == [t.view EXCEPT ![d].status = new]
             next == [t EXCEPT !.todo = @ \ {d}, !.view = view, !.add = add]
  <2>3. d \in Dep /\ new \in DeployStatus
    <3>1. d \in D /\ job[Pass].view[d].status \in DeployStatus
      <4>1. job[Pass].todo \in SUBSET D /\ job[Pass].view \in [D -> ViewedRow]
        BY <2>1 DEF Task
      <4> QED
        BY <2>2, <4>1 DEF ViewedRow
    <3> QED
      BY <2>2a, <3>1 DEF Verdict, IInv, TypeOK, Seen, DeployStatus, ACTIVE_STATUSES
  <2>4. view \in [D -> ViewedRow] /\ add \in SUBSET Dep /\ t.todo \ {d} \in SUBSET D
    BY <2>1, <2>3, StatusKept DEF Task
  <2>5. next \in Task(D)
    BY <2>1, <2>4 DEF Task
  <2>6. job' = [job EXCEPT ![Pass] = next]
    BY <2>2a
  <2>7. JobInv'
    BY <2>5, <2>6, JobKept DEF IInv, Session, Tasks
  <2> QED
    BY <1>2, <2>7 DEF PassJudge, IInv, TypeOK, OthersKept
<1>3. CASE PassRegister
  <2>1. PICK d \in job[Pass].add : \E ok \in BOOLEAN : Register(d, ok) /\ Sync(Pass, d, ok)
    BY <1>3 DEF PassRegister
  <2>2. PICK ok \in BOOLEAN : Register(d, ok) /\ Sync(Pass, d, ok)
    BY <2>1
  <2>3. job[Pass].at \notin {Asleep, "done"}
    BY <1>3 DEF PassRegister, Asleep
  <2>4. JobInv' /\ d \in Dep
    BY <2>1, <2>2, <2>3, SyncKept DEF IInv, Session
  <2>5. Other \subseteq route' /\ route' \subseteq Dep \cup Other
    BY <2>2, <2>4, RegisterKept DEF IInv, TypeOK, OthersKept
  <2> QED
    BY <1>3, <2>4, <2>5 DEF PassRegister, IInv, TypeOK, OthersKept
<1>4. CASE PassCommit
  <2>1. job[Pass].at \notin {Asleep, "done"} /\ Pass \in Session
    BY <1>4 DEF PassCommit, Asleep, Session
  <2>2. status' \in [Dep -> DeployStatus] /\ flag' \in [Dep -> BOOLEAN]
    BY <1>4, <2>1, WriteTyped DEF PassCommit, IInv
  <2>3. JobInv'
    BY <1>4, <2>1, JobKept DEF PassCommit, IInv
  <2> QED
    BY <1>4, <2>2, <2>3 DEF PassCommit, IInv, TypeOK, OthersKept
<1> QED
  BY <1>1, <1>2, <1>3, <1>4 DEF PassStep

LEMMA SyncInv ==
  ASSUME IInv, NEW s \in Syncs, SyncStep(s)
  PROVE  IInv'
<1>0. s \in Session
  BY DEF Session
<1>1. CASE SyncList(s)
  <2>1. Fresh("select", {}) \in Task({})
    BY FreshTask DEF IInv, Stage
  <2>2. [Fresh("select", {}) EXCEPT !.drop = Ours] \in Task({})
    BY <2>1 DEF Task, Ours
  <2>3. JobInv'
    BY <1>0, <1>1, <2>2, JobKept DEF SyncList, IInv, Tasks
  <2> QED
    BY <1>1, <2>3 DEF SyncList, IInv, TypeOK, OthersKept
<1>2. CASE SyncSelect(s)
  <2> DEFINE healthy == {d \in Dep : status[d] = "healthy"}
             listed  == job[s].drop
             fresh   == Fresh("apply", healthy)
             view    == [d \in healthy |-> [status |-> "healthy", flag |-> flag[d] \/ d \in listed]]
             next    == [fresh EXCEPT !.add = healthy \ listed, !.drop = Stale(listed, healthy),
                                      !.view = view]
  <2>1. fresh \in Task(healthy)
    BY FreshTask DEF IInv, Stage
  <2>2. listed \in SUBSET Dep
    BY <1>0, <1>2, UnderWay DEF SyncSelect, IInv, Asleep, Task
  <2>3. view \in [healthy -> ViewedRow]
    <3>1. \A d \in healthy : (flag[d] \/ d \in listed) \in BOOLEAN
      OBVIOUS
    <3> QED
      BY <3>1 DEF ViewedRow, DeployStatus, ACTIVE_STATUSES
  <2>5. next \in Task(healthy)
    BY <2>1, <2>2, <2>3 DEF Task, Stale
  <2>6. job' = [job EXCEPT ![s] = next]
    BY <1>2 DEF SyncSelect
  <2>7. JobInv'
    BY <1>0, <2>5, <2>6, JobKept DEF IInv, Tasks
  <2> QED
    BY <1>2, <2>7 DEF SyncSelect, IInv, TypeOK, OthersKept
<1>3. CASE SyncAdd(s)
  <2>1. PICK d \in job[s].add : \E ok \in BOOLEAN : Register(d, ok) /\ Sync(s, d, ok)
    BY <1>3 DEF SyncAdd
  <2>2. PICK ok \in BOOLEAN : Register(d, ok) /\ Sync(s, d, ok)
    BY <2>1
  <2>3. job[s].at \notin {Asleep, "done"}
    BY <1>3 DEF SyncAdd, Asleep
  <2>4. JobInv' /\ d \in Dep
    BY <1>0, <2>1, <2>2, <2>3, SyncKept DEF IInv
  <2>5. Other \subseteq route' /\ route' \subseteq Dep \cup Other
    BY <2>2, <2>4, RegisterKept DEF IInv, TypeOK, OthersKept
  <2> QED
    BY <1>3, <2>4, <2>5 DEF SyncAdd, IInv, TypeOK, OthersKept
<1>4. CASE SyncRemove(s)
  <2>1. PICK d \in job[s].drop : \E ok \in BOOLEAN :
          Deregister(d, ok) /\ job' = [job EXCEPT ![s].drop = @ \ {d}]
    BY <1>4 DEF SyncRemove
  <2>2. PICK D \in SUBSET Dep : job[s] \in Task(D)
    BY <1>0, <1>4, UnderWay DEF SyncRemove, Asleep, IInv
  <2>3. d \in Dep /\ [job[s] EXCEPT !.drop = @ \ {d}] \in Task(D)
    BY <2>2 DEF Task
  <2>4. job' = [job EXCEPT ![s] = [job[s] EXCEPT !.drop = @ \ {d}]]
    BY <2>1
  <2>5. JobInv'
    BY <1>0, <2>3, <2>4, JobKept DEF IInv, Tasks
  <2>6. Other \subseteq route' /\ route' \subseteq Dep \cup Other
    BY <2>1, <2>3, DeregisterKept DEF IInv, TypeOK, OthersKept
  <2> QED
    BY <1>4, <2>5, <2>6 DEF SyncRemove, IInv, TypeOK, OthersKept
<1>5. CASE SyncCommit(s)
  <2>1. job[s].at \notin {Asleep, "done"}
    BY <1>5 DEF SyncCommit, Asleep
  <2>2. status' \in [Dep -> DeployStatus] /\ flag' \in [Dep -> BOOLEAN]
    BY <1>0, <1>5, <2>1, WriteTyped DEF SyncCommit, IInv, Unhealthy
  <2>3. JobInv'
    BY <1>0, <1>5, JobKept DEF SyncCommit, IInv
  <2> QED
    BY <1>5, <2>2, <2>3 DEF SyncCommit, IInv, TypeOK, OthersKept
<1> QED
  BY <1>1, <1>2, <1>3, <1>4, <1>5 DEF SyncStep

LEMMA StopInv ==
  ASSUME IInv, NEW d \in Stoppable, StopStep(d)
  PROVE  IInv'
<1>0. d \in Session /\ d \in Dep
  BY ProxyAssumption DEF Session
<1>1. CASE StopBegin(d)
  <2> DEFINE at == IF flag[d] THEN "deregister" ELSE "stop"
             next == [Fresh(at, {d}) EXCEPT !.base[d].status = "stopping"]
  <2>1. Fresh(at, {d}) \in Task({d})
    BY <1>0, FreshTask DEF IInv, Stage
  <2>2. next \in Tasks
    <3>1. next \in Task({d})
      BY <2>1 DEF Task, LoadedRow
    <3> QED
      BY <1>0, <3>1 DEF Tasks
  <2>3. job' = [job EXCEPT ![d] = next]
    BY <1>1 DEF StopBegin
  <2>4. JobInv'
    BY <1>0, <2>2, <2>3, JobKept DEF IInv
  <2> QED
    BY <1>1, <2>4 DEF StopBegin, IInv, TypeOK, OthersKept
<1>2. CASE StopDeregister(d)
  <2>1. PICK ok \in BOOLEAN :
          /\ Deregister(d, ok)
          /\ job' = [job EXCEPT ![d].at = "stop", ![d].view[d].flag = ~ ok]
    BY <1>2 DEF StopDeregister
  <2>2. PICK D \in SUBSET Dep : job[d] \in Task(D)
    BY <1>0, <1>2, UnderWay DEF StopDeregister, Asleep, IInv
  <2> DEFINE view == [job[d].view EXCEPT ![d].flag = ~ ok]
             next == [job[d] EXCEPT !.at = "stop", !.view = view]
  <2>3. view \in [D -> ViewedRow]
    <3>1. job[d].view \in [D -> ViewedRow] /\ (~ ok) \in BOOLEAN
      BY <2>2 DEF Task
    <3> QED
      BY <3>1, FlagKept
  <2>4. next \in Task(D)
    BY <2>2, <2>3 DEF Task, Stage
  <2>5. job' = [job EXCEPT ![d] = next]
    BY <2>1
  <2>6. JobInv'
    BY <1>0, <2>4, <2>5, JobKept DEF IInv, Tasks
  <2>7. Other \subseteq route' /\ route' \subseteq Dep \cup Other
    BY <1>0, <2>1, DeregisterKept DEF IInv, TypeOK, OthersKept
  <2> QED
    BY <1>2, <2>6, <2>7 DEF StopDeregister, IInv, TypeOK, OthersKept
<1>3. CASE StopRun(d)
  <2>1. /\ \E ok \in BOOLEAN :
             job' = [job EXCEPT ![d].at = "commit", ![d].view[d].status = AfterStop(ok)]
        /\ container' \in {container, [container EXCEPT ![d] = "gone"]}
    BY <1>3 DEF StopRun
  <2>1a. PICK ok \in BOOLEAN :
           job' = [job EXCEPT ![d].at = "commit", ![d].view[d].status = AfterStop(ok)]
    BY <2>1
  <2>2. PICK D \in SUBSET Dep : job[d] \in Task(D)
    BY <1>0, <1>3, UnderWay DEF StopRun, Asleep, IInv
  <2> DEFINE view == [job[d].view EXCEPT ![d].status = AfterStop(ok)]
             next == [job[d] EXCEPT !.at = "commit", !.view = view]
  <2>3. view \in [D -> ViewedRow]
    <3>1. job[d].view \in [D -> ViewedRow] /\ AfterStop(ok) \in DeployStatus
      BY <2>2 DEF Task, AfterStop, DeployStatus, ACTIVE_STATUSES
    <3> QED
      BY <3>1, StatusKept
  <2>4. next \in Task(D)
    BY <2>2, <2>3 DEF Task, Stage
  <2>5. job' = [job EXCEPT ![d] = next]
    BY <2>1a
  <2>6. JobInv'
    BY <1>0, <2>4, <2>5, JobKept DEF IInv, Tasks
  <2> QED
    BY <1>3, <2>1, <2>6 DEF StopRun, Seen, IInv, TypeOK, OthersKept
<1>4. CASE StopCommit(d)
  <2>1. job[d].at \notin {Asleep, "done"}
    BY <1>4 DEF StopCommit, Asleep
  <2>2. status' \in [Dep -> DeployStatus] /\ flag' \in [Dep -> BOOLEAN]
    BY <1>0, <1>4, <2>1, WriteTyped DEF StopCommit, IInv
  <2>3. JobInv'
    BY <1>0, <1>4, JobKept DEF StopCommit, IInv, Over
  <2> QED
    BY <1>4, <2>2, <2>3 DEF StopCommit, IInv, TypeOK, OthersKept
<1> QED
  BY <1>1, <1>2, <1>3, <1>4 DEF StopStep

-----------------------------------------------------------------------------
\* The inductive invariant: what any session has listed to add or to remove are
\* deployments, so that whatever it has kept from an answer of the proxy, and
\* however often replies are lost, it cannot name an entry of somebody else's.
THEOREM Invariance == Spec => []IInv
<1>1. Init => IInv
  <2> SUFFICES ASSUME Init PROVE IInv
    OBVIOUS
  <2>1. job \in [Session -> {Idle, Over} \cup Tasks]
    BY DEF Init
  <2>2. 0 \in 0..MAX_CRASHES
    BY ProxyAssumption
  <2>3. TypeOK
    BY <2>2 DEF Init, TypeOK, Seen, DeployStatus, ACTIVE_STATUSES
  <2> QED
    BY <2>1, <2>3 DEF Init, IInv, JobInv, OthersKept
<1>2. ASSUME IInv, [Next]_vars
      PROVE  IInv'
  <2>1. ASSUME NEW d \in Dep, ContainerMoves(d)
        PROVE  IInv'
    BY <1>2, <2>1 DEF ContainerMoves, Seen, IInv, TypeOK, JobInv, OthersKept
  <2>2. CASE ProxyMoves
    BY <1>2, <2>2 DEF ProxyMoves, IInv, TypeOK, JobInv, OthersKept
  <2>3. CASE Crash
    <3>1. JobInv'
      BY <1>2, <2>3 DEF Crash, IInv, JobInv, Over
    <3>2. crashes' \in 0..MAX_CRASHES
      BY <1>2, <2>3, ProxyAssumption DEF Crash, IInv, TypeOK
    <3> QED
      BY <1>2, <2>3, <3>1, <3>2 DEF Crash, IInv, TypeOK, OthersKept
  <2>4. CASE UNCHANGED vars
    BY <1>2, <2>4 DEF vars, IInv, TypeOK, JobInv, OthersKept
  <2> QED
    BY <1>2, <2>1, <2>2, <2>3, <2>4, PassInv, SyncInv, StopInv DEF Next
<1> QED
  BY <1>1, <1>2, PTL DEF Spec

\* Every behaviour is type correct, with any number of deployments and stops.
THEOREM TypeCorrect == Spec => []TypeOK
<1>1. IInv => TypeOK
  BY DEF IInv
<1> QED
  BY <1>1, Invariance, PTL

\* "Entries dgxctl did not create are never touched" (reconcile): by no resync,
\* pass or stop, whatever the proxy answers and whenever the worker crashes.
THEOREM OthersSafe == Spec => []OthersKept
<1>1. IInv => OthersKept
  BY DEF IInv
<1> QED
  BY <1>1, Invariance, PTL
=============================================================================
