----------------------------- MODULE Allocation -----------------------------
(***************************************************************************)
(* Claiming GPUs and ports: create_deployment of api/deployments.py with   *)
(* resolve_targets, _check_quota and _reserve of services/deployments.py.  *)
(*                                                                         *)
(* Each request runs in a database session of its own and yields at every  *)
(* await, so requests interleave between the steps below.  A session keeps *)
(* the nodes as it first loaded them (its identity map) until a rollback   *)
(* expires them: it plans on that snapshot, and only the ledger of claims  *)
(* and ports is read afresh, under the allocation lock.                    *)
(*                                                                         *)
(* Which of the feasible GPU groups the planner prefers is left open here. *)
(***************************************************************************)
EXTENDS Choice

CONSTANTS
  Request,      \* the deploy requests
  NoRequest,
  Need,         \* MB per GPU a claim reserves: int(round(per_gpu_gb * 1024))
  PlanNeed,     \* MB per GPU the planner looks for: int(per_gpu_gb * 1024)
  NamedNeed,    \* MB per GPU named targets are checked for at once: what the caller
                \* or the catalog says, before the requirement is worked out
  Tp,           \* tensor_parallel_size
  Replicas,     \* replicas
  Explicit,     \* the targets the caller named; {} lets the planner choose
  Within,       \* node_ids, every node when the caller named none
  CardModel,    \* the name of a card's model
  PLACEMENT_RETRIES,
  Team, NoTeam,
  TeamOf,       \* the caller's team, whose quota is checked
  ChargedTo,    \* the team a session's rows carry, the caller's or the body's
  Admin,        \* the requests of administrators, exempt from the quota
  FromCatalog,  \* the requests that name a catalog entry and no image
  MaxGpus,      \* max_gpus of a team; 0 is no limit
  UsageReading, \* memory_used_mb values a poll may store
  Polled,       \* the cards whose usage changes
  NodeStatus,   \* the statuses the inventory loop and operators may set
  Drainable     \* the nodes whose status changes

Target == [node : Node, gpus : SUBSET Gpu]

ASSUME RequestAssumption ==
  /\ Request \subseteq Session
  /\ NoRequest \notin Request
  /\ Need \in [Request -> 1..MaxMb]
  /\ PlanNeed \in [Request -> Nat] /\ NamedNeed \in [Request -> Nat]
  /\ Tp \in [Request -> Nat \ {0}]
  /\ Replicas \in [Request -> Nat \ {0}]
  /\ Explicit \in [Request -> SUBSET Target]
  /\ \A r \in Request : \A t \in Explicit[r] : \A g \in t.gpus : NodeOf[g] = t.node
  /\ Within \in [Request -> SUBSET Node]
  /\ PLACEMENT_RETRIES \in Nat \ {0}
  /\ TeamOf \in [Request -> Team \cup {NoTeam}]
  /\ ChargedTo \in [Session -> Team \cup {NoTeam}]
  /\ Admin \subseteq Request /\ FromCatalog \subseteq Request
  /\ MaxGpus \in [Team -> Nat]
  /\ UsageReading \subseteq Nat
  /\ 0 \in UsageReading
  /\ "online" \in NodeStatus
  /\ Polled \subseteq Gpu /\ Drainable \subseteq Node

VARIABLES
  active,   \* committed rows whose status is one of ACTIVE_STATUSES
  used,     \* memory_used_mb of every card, as last polled
  status,   \* committed status of every node
  pc,       \* where each request is
  view,     \* the fleet as each request's session last loaded it
  todo,     \* targets a request has still to reserve
  tries,    \* placements a request has attempted
  lock,     \* who holds allocation_lock
  flushed   \* rows the lock's holder has written and not committed

vars == <<active, used, status, pc, view, todo, tries, lock, flushed>>

Running  == {"planning", "checking", "waiting", "reserving", "expired"}
Answered == {"granted", "refused", "lost"}

View == [rows : SUBSET Row, used : [Gpu -> UsageReading], status : [Node -> NodeStatus]]

\* What a SELECT of the nodes loads: committed state, relationships included.
Snapshot == [rows |-> active, used |-> used, status |-> status]

NothingLoaded ==
  [rows |-> {}, used |-> [g \in Gpu |-> 0], status |-> [n \in Node |-> "online"]]

-----------------------------------------------------------------------------
\* placement.plan, in the state the session of request r has in memory.
PlanDemand(r) ==
  [need |-> PlanNeed[r], tp |-> Tp[r], replicas |-> Replicas[r], within |-> Within[r]]

Feasible(r) == Candidates(view[r], CardModel, PlanDemand(r))

Options(r) ==
  UNION {{[node |-> n, gpus |-> G] : G \in Groups(view[r], CardModel, PlanDemand(r), n)}
           : n \in Feasible(r)}

\* Faulty: used_nodes is not passed on, so a replica may join another's node.
MutantPlacements(r) ==
  IF Explicit[r] # {} THEN {Explicit[r]}
  ELSE {T \in SUBSET Options(r) : Cardinality(T) = Replicas[r]}

\* resolve_targets: explicit targets win; otherwise one replica per node, on as
\* many of the feasible nodes as there are replicas to place.
Placements(r) ==
  IF Explicit[r] # {} THEN {Explicit[r]}
  ELSE {T \in SUBSET Options(r) : IsPlacement(view[r], CardModel, PlanDemand(r), T)}

\* _reserve: every card of the target has room for request r by the committed
\* ledger and the session's own rows.  The usage of the cards is the one the
\* session loaded.
HasRoom(r, rows, usage, t) == \A g \in t.gpus : Available(rows, usage, g) >= Need[r]

\* GPUs that a set of rows or targets counts for in the quota.
GpusHeld(S) == Cardinality({x \in S \X Gpu : x[2] \in x[1].gpus})

TeamRows(t) == {d \in active : ChargedTo[d.by] = t}

WithinQuota(r) ==
  LET t == TeamOf[r] IN
    r \notin Admin /\ t \in Team /\ MaxGpus[t] # 0 =>
      GpusHeld(TeamRows(t)) + GpusHeld(todo[r]) <= MaxGpus[t]

\* Faulty: the requirement is converted to MB a second time.
MutantRowFor(r, t, p) ==
  [by |-> r, node |-> t.node, gpus |-> t.gpus, mb |-> Need[r] * 1024, port |-> p]

RowFor(r, t, p) == [by |-> r, node |-> t.node, gpus |-> t.gpus, mb |-> Need[r], port |-> p]

-----------------------------------------------------------------------------
Init ==
  /\ active = {}
  /\ used = [g \in Gpu |-> 0]
  /\ status = [n \in Node |-> "online"]
  /\ pc = [r \in Request |-> "new"]
  /\ view = [r \in Request |-> NothingLoaded]
  /\ todo = [r \in Request |-> {}]
  /\ tries = [r \in Request |-> 0]
  /\ lock = NoRequest
  /\ flushed = {}

\* The request ends: its session is closed, which drops what it had loaded.
Finish(r, answer) ==
  /\ pc' = [pc EXCEPT ![r] = answer]
  /\ view' = [view EXCEPT ![r] = NothingLoaded]
  /\ todo' = [todo EXCEPT ![r] = {}]

\* create_deployment loads the candidate nodes; named targets are checked
\* against the committed ledger at once (_check_free).
Load(r) ==
  /\ pc[r] = "new"
  /\ IF \A t \in Explicit[r] : \A g \in t.gpus : Available(active, used, g) >= NamedNeed[r]
     THEN /\ pc' = [pc EXCEPT ![r] = "planning"]
          /\ view' = [view EXCEPT ![r] = Snapshot]
          /\ UNCHANGED todo
     ELSE Finish(r, "refused")
  /\ UNCHANGED <<active, used, status, tries, lock, flushed>>

\* Faulty: the attempts are not counted.
MutantPlace(r) ==
  /\ pc[r] = "planning"
  /\ \/ /\ Feasible(r) = {}
        /\ Finish(r, "refused")
     \/ /\ Feasible(r) # {}
        /\ \E T \in Placements(r) : todo' = [todo EXCEPT ![r] = T]
        /\ pc' = [pc EXCEPT ![r] = "checking"]
        /\ UNCHANGED view
  /\ UNCHANGED <<active, used, status, tries, lock, flushed>>

\* The preview and resolve_targets: both plan on the session's snapshot, and
\* the request is refused when no candidate node can take a replica.
Place(r) ==
  /\ pc[r] = "planning"
  /\ \/ /\ Feasible(r) = {}
        /\ Finish(r, "refused")
        /\ UNCHANGED tries
     \/ /\ Feasible(r) # {}
        /\ \E T \in Placements(r) : todo' = [todo EXCEPT ![r] = T]
        /\ pc' = [pc EXCEPT ![r] = "checking"]
        /\ tries' = [tries EXCEPT ![r] = @ + 1]
        /\ UNCHANGED view
  /\ UNCHANGED <<active, used, status, lock, flushed>>

\* _check_quota reads the team's committed rows, outside the lock.
CheckQuota(r) ==
  /\ pc[r] = "checking"
  /\ \/ /\ WithinQuota(r)
        /\ pc' = [pc EXCEPT ![r] = "waiting"]
        /\ UNCHANGED <<view, todo>>
     \/ /\ ~ WithinQuota(r)
        /\ Finish(r, "refused")
  /\ UNCHANGED <<active, used, status, tries, lock, flushed>>

\* async with allocation_lock()
Acquire(r) ==
  /\ pc[r] = "waiting"
  /\ lock = NoRequest
  /\ lock' = r
  /\ pc' = [pc EXCEPT ![r] = "reserving"]
  /\ UNCHANGED <<active, used, status, view, todo, tries, flushed>>

\* The rollback of a lost race expired the catalog entry as well, and _reserve reads
\* it before it takes the lock: that raises, unless loading the fleet again brought
\* it along, and the request ends in an error.
EntryExpired(r) ==
  /\ pc[r] = "waiting" /\ tries[r] > 1 /\ r \in FromCatalog
  /\ Finish(r, "lost")
  /\ UNCHANGED <<active, used, status, tries, lock, flushed>>

\* The loop of _reserve, one target per step.  The node's status is the
\* session's copy; the claims and ports are what is committed plus what this
\* session has flushed.
Accepts(r, t) == view[r].status[t.node] \notin {"draining", "maintenance"}

\* Faulty: the session's own rows are not flushed before the ledger is read.
MutantLedger == active

Ledger == active \cup flushed

\* Faulty: the claim is checked against the snapshot it was planned on.
MutantReserve(r, t) ==
  /\ lock = r /\ pc[r] = "reserving" /\ t \in todo[r]
  /\ Accepts(r, t)
  /\ HasRoom(r, view[r].rows, view[r].used, t)
  /\ \E p \in Port :
       /\ IsNextPort(Ledger, t.node, p)
       /\ flushed' = flushed \cup {RowFor(r, t, p)}
  /\ todo' = [todo EXCEPT ![r] = @ \ {t}]
  /\ UNCHANGED <<active, used, status, pc, view, tries, lock>>

Reserve(r, t) ==
  /\ lock = r /\ pc[r] = "reserving" /\ t \in todo[r]
  /\ Accepts(r, t)
  /\ HasRoom(r, Ledger, view[r].used, t)
  /\ \E p \in Port :
       /\ IsNextPort(Ledger, t.node, p)
       /\ flushed' = flushed \cup {RowFor(r, t, p)}
  /\ todo' = [todo EXCEPT ![r] = @ \ {t}]
  /\ UNCHANGED <<active, used, status, pc, view, tries, lock>>

\* Faulty: the rows of the lost attempt are not rolled back.
MutantKeepRows(r, t) ==
  /\ lock = r /\ pc[r] = "reserving" /\ t \in todo[r]
  /\ Accepts(r, t)
  /\ ~ HasRoom(r, Ledger, view[r].used, t)
  /\ lock' = NoRequest
  /\ Finish(r, IF Explicit[r] = {} /\ tries[r] < PLACEMENT_RETRIES
               THEN "expired" ELSE "refused")
  /\ UNCHANGED <<active, used, status, tries, flushed>>

\* Faulty: planning and claiming disagree on the usage they read.
MutantUsage(r, t) ==
  /\ lock = r /\ pc[r] = "reserving" /\ t \in todo[r]
  /\ Accepts(r, t)
  /\ ~ HasRoom(r, Ledger, used, t)
  /\ lock' = NoRequest
  /\ flushed' = {}
  /\ Finish(r, IF Explicit[r] = {} /\ tries[r] < PLACEMENT_RETRIES
               THEN "expired" ELSE "refused")
  /\ UNCHANGED <<active, used, status, tries>>

\* "refresh and pick again": a planned request rolls back, which releases the
\* lock, drops its rows and expires its snapshot, and tries another placement;
\* named targets and the last attempt are refused.
LoseRace(r, t) ==
  /\ lock = r /\ pc[r] = "reserving" /\ t \in todo[r]
  /\ Accepts(r, t)
  /\ ~ HasRoom(r, Ledger, view[r].used, t)
  /\ lock' = NoRequest
  /\ flushed' = {}
  /\ Finish(r, IF Explicit[r] = {} /\ tries[r] < PLACEMENT_RETRIES
               THEN "expired" ELSE "refused")
  /\ UNCHANGED <<active, used, status, tries>>

\* A drained node or an exhausted port range refuses the whole request.
Refuse(r, t) ==
  /\ lock = r /\ pc[r] = "reserving" /\ t \in todo[r]
  /\ \/ ~ Accepts(r, t)
     \/ HasRoom(r, Ledger, view[r].used, t) /\ Port \subseteq TakenPorts(Ledger, t.node)
  /\ lock' = NoRequest
  /\ flushed' = {}
  /\ Finish(r, "refused")
  /\ UNCHANGED <<active, used, status, tries>>

\* Faulty: the lock stays taken when the claim is granted.
MutantKeepLock(r) ==
  /\ lock = r /\ pc[r] = "reserving" /\ todo[r] = {}
  /\ active' = active \cup flushed
  /\ flushed' = {}
  /\ Finish(r, "granted")
  /\ UNCHANGED <<used, status, tries, lock>>

\* The commit that makes the claim visible, still under the lock.
Commit(r) ==
  /\ lock = r /\ pc[r] = "reserving" /\ todo[r] = {}
  /\ active' = active \cup flushed
  /\ flushed' = {}
  /\ lock' = NoRequest
  /\ Finish(r, "granted")
  /\ UNCHANGED <<used, status, tries>>

\* The next attempt's SELECT, in the session the rollback expired.
Reload(r) ==
  /\ pc[r] = "expired"
  /\ view' = [view EXCEPT ![r] = Snapshot]
  /\ pc' = [pc EXCEPT ![r] = "planning"]
  /\ UNCHANGED <<active, used, status, todo, tries, lock, flushed>>

-----------------------------------------------------------------------------
\* A launch that fails, a stop, or the reconciler takes a row out of
\* ACTIVE_STATUSES.
Release(d) ==
  /\ d \in active
  /\ active' = active \ {d}
  /\ UNCHANGED <<used, status, pc, view, todo, tries, lock, flushed>>

\* inventory_pass and metrics_pass store what the node reports.
PollUsage(g) ==
  /\ \E mb \in UsageReading : mb # used[g] /\ used' = [used EXCEPT ![g] = mb]
  /\ UNCHANGED <<active, status, pc, view, todo, tries, lock, flushed>>

\* refresh, drain and update of a node.
SetStatus(n) ==
  /\ \E s \in NodeStatus : s # status[n] /\ status' = [status EXCEPT ![n] = s]
  /\ UNCHANGED <<active, used, pc, view, todo, tries, lock, flushed>>

\* The control plane dies: requests, sessions and the in-memory lock are gone,
\* the database keeps what was committed.
Crash ==
  /\ \E r \in Request : pc[r] \in Running
  /\ pc' = [r \in Request |-> IF pc[r] \in Running THEN "lost" ELSE pc[r]]
  /\ view' = [r \in Request |-> NothingLoaded]
  /\ todo' = [r \in Request |-> {}]
  /\ lock' = NoRequest
  /\ flushed' = {}
  /\ UNCHANGED <<active, used, status, tries>>

RequestStep(r) ==
  \/ Load(r) \/ Place(r) \/ CheckQuota(r) \/ Acquire(r) \/ EntryExpired(r) \/ Commit(r)
  \/ Reload(r)
  \/ \E t \in todo[r] : Reserve(r, t) \/ LoseRace(r, t) \/ Refuse(r, t)

Next ==
  \/ \E r \in Request : RequestStep(r)
  \/ \E d \in active : Release(d)
  \/ \E g \in Polled : PollUsage(g)
  \/ \E n \in Drainable : SetStatus(n)
  \/ Crash

Spec == Init /\ [][Next]_vars

-----------------------------------------------------------------------------
TypeOK ==
  /\ active \subseteq Row
  /\ used \in [Gpu -> UsageReading]
  /\ status \in [Node -> NodeStatus]
  /\ pc \in [Request -> Running \cup Answered \cup {"new"}]
  /\ view \in [Request -> View]
  /\ todo \in [Request -> SUBSET Target]
  /\ tries \in [Request -> Nat]
  /\ lock \in Request \cup {NoRequest}
  /\ flushed \subseteq Row

\* "Two callers must never be handed the same GPU or the same port": however
\* requests interleave, the reservations on a card never exceed what the card
\* has less the headroom (tests/test_concurrency.py, capacity.py).
NoOversubscription == Fits(active)

\* ... and no two active deployments of a node were handed one port.
PortsUnique == PortsDistinct(active)

\* Auto-placement puts one replica per node, so that a node failure never takes
\* the whole model offline (resolve_targets), retries included.
ReplicasSpread ==
  \A d, e \in active :
    d # e /\ d.by = e.by /\ Explicit[d.by] = {} => d.node # e.node

\* The allocator implements the pool: a request is granted all its rows at once
\* and only once, whatever its retries, and a refused, failed or crashed one
\* holds nothing.
Together(rows) == Fits(rows) /\ PortsDistinct(rows)

Pool == INSTANCE GpuPool
          WITH granted <- active, served <- {r \in Request : pc[r] = "granted"}

ImplementsPool == Pool!Spec

\* A planned request goes round again only because a rival's claim was
\* committed after its session loaded the fleet: retries cannot be caused by
\* the request itself.
LostRaceMeansRival ==
  [][\A r \in Request :
       pc[r] = "reserving" /\ pc'[r] = "expired" => ~ (active \subseteq view[r].rows)]_vars

\* How far a request is from the end of an attempt, or from the next one.
StepsLeft ==
  [checking |-> 4, waiting |-> 3, reserving |-> 2, expired |-> 1, planning |-> 0]

\* Request r is answered, starts another of its attempts, goes on to a later stage
\* of this one, or has a target less to reserve.
Nearer(r) ==
  \/ pc'[r] \in Answered
  \/ pc'[r] \in Running /\ tries'[r] > tries[r]
  \/ /\ pc'[r] \in Running /\ tries'[r] = tries[r]
     /\ \/ StepsLeft[pc'[r]] < StepsLeft[pc[r]]
        \/ pc'[r] = pc[r] /\ todo'[r] \subseteq todo[r] /\ todo'[r] # todo[r]

Untouched(r) == pc'[r] = pc[r] /\ tries'[r] = tries[r] /\ todo'[r] = todo[r]

\* "Bounded retry": each step of a request brings it nearer to an answer, and no
\* step of another request, of a restart or of the fleet takes it back, so that
\* no number of rivals makes it go round for ever (create_deployment).
EachStepAdvances ==
  [][\A r \in Request : pc[r] \in Running =>
       IF RequestStep(r) THEN Nearer(r) ELSE Untouched(r) \/ pc'[r] = "lost"]_vars

\* Every request that is being served is answered: no retry loop, lock or
\* refusal leaves a caller hanging.
EveryRequestAnswered == \A r \in Request : pc[r] \in Running ~> pc[r] \in Answered
=============================================================================
