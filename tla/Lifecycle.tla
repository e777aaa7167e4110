----------------------------- MODULE Lifecycle ------------------------------
(***************************************************************************)
(* The life of the deployments of one node: the background launch          *)
(* (_launch_ids, _launch_one) and stop of services/deployments.py,         *)
(* reconcile_pass of worker.py and adopt_and_prune of services/nodes.py,   *)
(* against the containers that the node really has.                        *)
(*                                                                         *)
(* Each of them works in a session of its own.  It decides on the rows as  *)
(* it loaded them and writes, at its commit, the statuses it changed, over *)
(* whatever has been committed meanwhile.  stop flushes its first write,   *)
(* so from then to its commit the database makes every other writer of the *)
(* row wait; the status "stopping" itself is never committed.              *)
(***************************************************************************)
EXTENDS Naturals, FiniteSets

CONSTANTS
  Dep,              \* deployment rows; their reservations were granted already
  Faults,           \* what the node and the driver may do to us, see below
  Operators,        \* what operators do: "stop", "stop_early", "reconcile_node"
  MAX_STOPS,        \* stops of one deployment that a run looks at
  MAX_CRASHES       \* crashes of the control plane that a run looks at

\* exit     a container's process ends and docker does not start it again
\* reboot   ... and a container that ended comes back: --restart unless-stopped
\* vanish   somebody removes a container behind our back
\* loop     a container restart-loops
\* timeout  docker run raises although the container was created
\* unstopped  docker stop and rm fail with an exit code, which SSHDriver ignores
ASSUME LifecycleAssumption ==
  /\ Faults \subseteq {"exit", "reboot", "vanish", "loop", "timeout", "unstopped"}
  /\ Operators \subseteq {"stop", "stop_early", "reconcile_node"}
  /\ MAX_STOPS \in Nat /\ MAX_CRASHES \in Nat

VARIABLES
  status,      \* committed status of every row
  container,   \* the container of a deployment, on the node
  old,         \* STARTUP_GRACE_SECONDS have passed since the row was created
  reachable,   \* whether the node answers now
  nodeSeen,    \* the node's committed status
  launch,      \* the launch task of a deployment
  stop,        \* the stop call of a deployment, which holds its row lock
  stops,       \* stops begun, for MAX_STOPS
  pass,        \* the reconciler's session
  adopt,       \* the session of reconcile_node
  crashes      \* for MAX_CRASHES

vars == <<status, container, old, reachable, nodeSeen, launch, stop, stops, pass, adopt, crashes>>

\* "stopping" is set by stop and flushed, and replaced before its commit.
ACTIVE_STATUSES == {"pending", "pulling", "starting", "healthy", "degraded"}
DeployStatus    == ACTIVE_STATUSES \cup {"absent", "failed", "stopped"}

\* States of docker ps; a running container answers /health once it serves.
Running         == {"loading", "serving"}
HoldsGpu        == Running \cup {"looping"}
ContainerState  == HoldsGpu \cup {"none", "exited"}

LaunchState == {"none", "scheduled", "inspecting", "marking", "pulling", "running",
                "started", "failing", "done"}
StopState   == {"idle", "stopping", "removed", "unconfirmed"}

\* A row that a stop has flushed and not committed cannot be written by others.
Unlocked(D) == \A d \in D : stop[d] = "idle"

ActiveRows == {d \in Dep : status[d] \in ACTIVE_STATUSES}

NoPass  == [at |-> "idle", rows |-> [d \in {} |-> ""], ps |-> [d \in {} |-> ""],
            writes |-> [d \in {} |-> ""]]
NoAdopt == [at |-> "idle", ps |-> [d \in {} |-> ""]]

Init ==
  /\ status = [d \in Dep |-> "absent"]
  /\ container = [d \in Dep |-> "none"]
  /\ old = [d \in Dep |-> FALSE]
  /\ reachable = TRUE
  /\ nodeSeen = "online"
  /\ launch = [d \in Dep |-> "none"]
  /\ stop = [d \in Dep |-> "idle"]
  /\ stops = [d \in Dep |-> 0]
  /\ pass = NoPass
  /\ adopt = NoAdopt
  /\ crashes = 0

-----------------------------------------------------------------------------
(* The launch. *)

\* create and the second half of restart: the row is committed as pending and
\* its launch is scheduled in the background.
Create(d) ==
  /\ status[d] = "absent"
  /\ status' = [status EXCEPT ![d] = "pending"]
  /\ launch' = [launch EXCEPT ![d] = "scheduled"]
  /\ UNCHANGED <<container, old, reachable, nodeSeen, stop, stops, pass, adopt, crashes>>

MoveLaunch(d, at) == launch' = [launch EXCEPT ![d] = at]

\* _launch_ids: only a row that is still pending is launched.
LaunchBegin(d) ==
  /\ launch[d] = "scheduled"
  /\ MoveLaunch(d, IF status[d] = "pending" THEN "inspecting" ELSE "done")
  /\ UNCHANGED <<status, container, old, reachable, nodeSeen, stop, stops, pass, adopt, crashes>>

\* image_present
LaunchInspect(d) ==
  /\ launch[d] = "inspecting"
  /\ IF reachable THEN MoveLaunch(d, "running") \/ MoveLaunch(d, "marking")
                  ELSE MoveLaunch(d, "failing")
  /\ UNCHANGED <<status, container, old, reachable, nodeSeen, stop, stops, pass, adopt, crashes>>

LaunchMarkPulling(d) ==
  /\ launch[d] = "marking"
  /\ Unlocked({d})
  /\ status' = [status EXCEPT ![d] = "pulling"]
  /\ MoveLaunch(d, "pulling")
  /\ UNCHANGED <<container, old, reachable, nodeSeen, stop, stops, pass, adopt, crashes>>

\* pull_image: done, or refused by the registry or cut off.
LaunchPull(d) ==
  /\ launch[d] = "pulling"
  /\ MoveLaunch(d, "failing") \/ (reachable /\ MoveLaunch(d, "running"))
  /\ UNCHANGED <<status, container, old, reachable, nodeSeen, stop, stops, pass, adopt, crashes>>

\* docker run: it starts the container, it fails, or it raises although it did.
LaunchRun(d) ==
  /\ launch[d] = "running"
  /\ \/ /\ reachable
        /\ container' = [container EXCEPT ![d] = "loading"]
        /\ \/ MoveLaunch(d, "started")
           \/ "timeout" \in Faults /\ MoveLaunch(d, "failing")
     \/ MoveLaunch(d, "failing") /\ UNCHANGED container
  /\ UNCHANGED <<status, old, reachable, nodeSeen, stop, stops, pass, adopt, crashes>>

\* The commit that ends _launch_one.
LaunchCommit(d) ==
  /\ launch[d] \in {"started", "failing"}
  /\ Unlocked({d})
  /\ status' = [status EXCEPT ![d] = IF launch[d] = "started" THEN "starting" ELSE "failed"]
  /\ MoveLaunch(d, "done")
  /\ UNCHANGED <<container, old, reachable, nodeSeen, stop, stops, pass, adopt, crashes>>

LaunchStep(d) ==
  \/ LaunchBegin(d) \/ LaunchInspect(d) \/ LaunchMarkPulling(d)
  \/ LaunchPull(d) \/ LaunchRun(d) \/ LaunchCommit(d)

-----------------------------------------------------------------------------
(* stop. *)

\* An operator may stop a deployment in any status; "stop" alone waits until
\* its launch is over.
StopBegin(d) ==
  /\ status[d] # "absent" /\ stop[d] = "idle" /\ stops[d] < MAX_STOPS
  /\ \/ "stop_early" \in Operators
     \/ "stop" \in Operators /\ launch[d] \in {"none", "done"}
  /\ stop' = [stop EXCEPT ![d] = "stopping"]
  /\ stops' = [stops EXCEPT ![d] = @ + 1]
  /\ UNCHANGED <<status, container, old, reachable, nodeSeen, launch, pass, adopt, crashes>>

\* driver.stop: docker stop and docker rm, whose exit codes are not looked at.
\* It raises when the node does not answer, or stops answering on the way.
StopRun(d) ==
  /\ stop[d] = "stopping"
  /\ \/ /\ reachable
        /\ container' = [container EXCEPT ![d] = "none"]
        /\ stop' = [stop EXCEPT ![d] = "removed"]
     \/ /\ reachable /\ "unstopped" \in Faults
        /\ stop' = [stop EXCEPT ![d] = "removed"]
        /\ UNCHANGED container
     \/ /\ stop' = [stop EXCEPT ![d] = "unconfirmed"]
        /\ \E to \in {container[d], "exited", "none"} :
             /\ to # container[d] => reachable /\ container[d] # "none"
             /\ container' = [container EXCEPT ![d] = to]
  /\ UNCHANGED <<status, old, reachable, nodeSeen, launch, stops, pass, adopt, crashes>>

\* Mutants of AfterStop: the status set before the driver was called is left
\* there when it raises; a container that may still be running is given up.
MutantForgets(outcome) == IF outcome = "removed" THEN "stopped" ELSE "stopping"
MutantGivesUp(outcome) == IF outcome = "removed" THEN "stopped" ELSE "failed"

\* A container that may still be running keeps its claim.
AfterStop(outcome) == IF outcome = "removed" THEN "stopped" ELSE "degraded"

StopCommit(d) ==
  /\ stop[d] \in {"removed", "unconfirmed"}
  /\ status' = [status EXCEPT ![d] = AfterStop(stop[d])]
  /\ stop' = [stop EXCEPT ![d] = "idle"]
  /\ UNCHANGED <<container, old, reachable, nodeSeen, launch, stops, pass, adopt, crashes>>

StopStep(d) == StopRun(d) \/ StopCommit(d)

-----------------------------------------------------------------------------
(* reconcile_pass. *)

MovePass(p) ==
  /\ pass' = p
  /\ UNCHANGED <<container, old, reachable, nodeSeen, launch, stop, stops, adopt, crashes>>

\* The active rows are loaded with their node; on a node recorded as
\* unreachable the healthy ones are marked degraded.
PassBegin ==
  /\ pass.at = "idle" /\ ActiveRows # {}
  /\ LET rows == [d \in ActiveRows |-> status[d]]
         bad  == {d \in ActiveRows : status[d] = "healthy"}
     IN  IF nodeSeen = "unreachable"
         THEN MovePass([NoPass EXCEPT !.at = "committing",
                                      !.writes = [d \in bad |-> "degraded"]])
         ELSE MovePass([NoPass EXCEPT !.at = "listing", !.rows = rows])
  /\ UNCHANGED status

\* docker ps -a; a node that does not answer is left for the next pass.
PassList ==
  /\ pass.at = "listing"
  /\ MovePass(IF reachable THEN [pass EXCEPT !.at = "judging", !.ps = container]
                           ELSE NoPass)
  /\ UNCHANGED status

\* Mutants of Verdict: a missing container fails a row that is being launched;
\* a missing container is left to the launch whatever the status; only a row
\* that starts becomes healthy.
MutantImpatient(s, c, up, late) ==
  IF c \in {"none", "exited"} THEN "failed" ELSE IF up THEN "healthy" ELSE s
MutantIgnoresMissing(s, c, up, late) ==
  IF c = "none" THEN s ELSE IF c = "exited" THEN "failed" ELSE IF up THEN "healthy" ELSE s
MutantOnlyStarting(s, c, up, late) ==
  IF c \in {"none", "exited"}
  THEN IF c = "none" /\ s \in {"pending", "pulling"} THEN s ELSE "failed"
  ELSE IF up THEN (IF s = "starting" THEN "healthy" ELSE s)
             ELSE IF late THEN "degraded" ELSE s

\* _reconcile_one: the true status of a row last seen as s, whose container
\* docker ps showed in state c; up is /health answering, late the end of the
\* grace period.
Verdict(s, c, up, late) ==
  CASE c = "none"    -> IF s \in {"pending", "pulling"} THEN s ELSE "failed"
    [] c = "exited"  -> "failed"
    [] c = "looping" -> "degraded"
    [] c \in Running /\ up -> "healthy"
    [] c \in Running /\ ~ up /\ late -> "degraded"
    [] c \in Running /\ ~ up /\ ~ late ->
         IF s \in {"starting", "pulling"} THEN s ELSE "starting"

\* The last lines of an exited container are read over ssh: when that fails the
\* whole pass is given up, and what it had decided is lost.
PassJudge(d) ==
  /\ pass.at = "judging" /\ d \in DOMAIN pass.rows
  /\ LET s    == pass.rows[d]
         c    == pass.ps[d]
         v    == Verdict(s, c, container[d] = "serving" /\ reachable, old[d])
         rest == DOMAIN pass.rows \ {d}
         W    == DOMAIN pass.writes \cup (IF v = s THEN {} ELSE {d})
     IN  IF c = "exited" /\ ~ reachable
         THEN MovePass(NoPass)
         ELSE MovePass([pass EXCEPT
                !.rows   = [e \in rest |-> pass.rows[e]],
                !.writes = [e \in W |-> IF e = d THEN v ELSE pass.writes[e]]])
  /\ UNCHANGED status

\* One commit for the whole pass.
PassCommit ==
  /\ \/ pass.at = "committing"
     \/ pass.at = "judging" /\ DOMAIN pass.rows = {}
  /\ Unlocked(DOMAIN pass.writes)
  /\ status' = [d \in Dep |-> IF d \in DOMAIN pass.writes THEN pass.writes[d] ELSE status[d]]
  /\ MovePass(NoPass)

PassStep == PassBegin \/ PassList \/ (\E d \in Dep : PassJudge(d)) \/ PassCommit

-----------------------------------------------------------------------------
(* adopt_and_prune: the containers are listed first, the rows read after. *)

AdoptList ==
  /\ "reconcile_node" \in Operators
  /\ adopt.at = "idle" /\ reachable
  /\ adopt' = [at |-> "listed", ps |-> container]
  /\ UNCHANGED <<status, container, old, reachable, nodeSeen, launch, stop, stops, pass, crashes>>

Missing == {d \in ActiveRows : adopt.ps[d] = "none" /\ status[d] # "pending"}

AdoptCommit ==
  /\ adopt.at = "listed"
  /\ Unlocked(Missing)
  /\ status' = [d \in Dep |-> IF d \in Missing THEN "failed" ELSE status[d]]
  /\ adopt' = NoAdopt
  /\ UNCHANGED <<container, old, reachable, nodeSeen, launch, stop, stops, pass, crashes>>

-----------------------------------------------------------------------------
(* The node and the control plane. *)

\* refresh, of inventory_pass
Inventory ==
  /\ nodeSeen' = IF reachable THEN "online" ELSE "unreachable"
  /\ UNCHANGED <<status, container, old, reachable, launch, stop, stops, pass, adopt, crashes>>

NodeFlips ==
  /\ reachable' = ~ reachable
  /\ UNCHANGED <<status, container, old, nodeSeen, launch, stop, stops, pass, adopt, crashes>>

GraceEnds(d) ==
  /\ status[d] # "absent" /\ ~ old[d]
  /\ old' = [old EXCEPT ![d] = TRUE]
  /\ UNCHANGED <<status, container, reachable, nodeSeen, launch, stop, stops, pass, adopt, crashes>>

ContainerMoves(d) ==
  /\ \E to \in ContainerState :
       /\ \/ container[d] = "loading" /\ to = "serving"
          \/ container[d] = "serving" /\ to = "loading"
          \/ container[d] \in Running /\ to = "looping" /\ "loop" \in Faults
          \/ container[d] = "looping" /\ to = "loading"
          \/ container[d] \in HoldsGpu /\ to = "exited" /\ "exit" \in Faults
          \/ container[d] = "exited" /\ to = "loading" /\ "reboot" \in Faults
          \/ container[d] # "none" /\ to = "none" /\ "vanish" \in Faults
       /\ container' = [container EXCEPT ![d] = to]
  /\ UNCHANGED <<status, old, reachable, nodeSeen, launch, stop, stops, pass, adopt, crashes>>

\* The control plane dies and comes back.  Transactions that were open are
\* rolled back, a docker command that was under way may still take effect, and
\* nothing reschedules the launches that were pending (lifespan).
Crash ==
  /\ crashes < MAX_CRASHES
  /\ crashes' = crashes + 1
  /\ container' \in {c \in [Dep -> ContainerState] :
       \A d \in Dep : \/ c[d] = container[d]
                      \/ launch[d] = "running" /\ reachable /\ c[d] = "loading"
                      \/ stop[d] = "stopping" /\ reachable /\ c[d] = "none"}
  /\ launch' = [d \in Dep |-> IF launch[d] = "none" THEN "none" ELSE "done"]
  /\ stop' = [d \in Dep |-> "idle"]
  /\ pass' = NoPass
  /\ adopt' = NoAdopt
  /\ UNCHANGED <<status, old, reachable, nodeSeen, stops>>

Next ==
  \/ \E d \in Dep :
       Create(d) \/ LaunchStep(d) \/ StopBegin(d) \/ StopStep(d)
         \/ GraceEnds(d) \/ ContainerMoves(d)
  \/ PassStep
  \/ AdoptList \/ AdoptCommit
  \/ Inventory \/ NodeFlips \/ Crash

Spec == Init /\ [][Next]_vars

\* Tasks and requests that can proceed do, and the worker's loops run for ever;
\* nothing is assumed of the node, the containers or the operators.
FairSpec ==
  /\ Spec
  /\ \A d \in Dep : WF_vars(LaunchStep(d)) /\ WF_vars(StopStep(d))
  /\ WF_vars(PassStep) /\ WF_vars(Inventory) /\ WF_vars(AdoptCommit)

-----------------------------------------------------------------------------
Partial(V) == UNION {[D -> V] : D \in SUBSET Dep}

TypeOK ==
  /\ status \in [Dep -> DeployStatus]
  /\ container \in [Dep -> ContainerState]
  /\ old \in [Dep -> BOOLEAN]
  /\ reachable \in BOOLEAN
  /\ nodeSeen \in {"online", "unreachable"}
  /\ launch \in [Dep -> LaunchState]
  /\ stop \in [Dep -> StopState]
  /\ stops \in [Dep -> 0..MAX_STOPS]
  /\ pass \in [at     : {"idle", "listing", "judging", "committing"},
               rows   : Partial(ACTIVE_STATUSES),
               ps     : Partial(ContainerState),
               writes : Partial(ACTIVE_STATUSES \cup {"failed"})]
  /\ adopt \in [at : {"idle", "listed"}, ps : Partial(ContainerState)]
  /\ crashes \in 0..MAX_CRASHES

\* A row whose image is being pulled is failed by its own launch and by nobody
\* else: its container does not exist yet, which is not the same as gone
\* (_reconcile_one, "the launch has not created a container yet").
PullSurvives ==
  [][\A d \in Dep :
       launch[d] = "pulling" /\ status[d] = "pulling" /\ status'[d] = "failed"
         => launch'[d] # "pulling"]_vars

\* A claim is given up only when the node no longer runs the container: "its
\* GPUs stay reserved until the container is confirmed gone" (stop).
ReleasedOnlyWhenGone ==
  [][\A d \in Dep :
       status[d] \in ACTIVE_STATUSES /\ status'[d] \notin ACTIVE_STATUSES
         => container'[d] \notin HoldsGpu]_vars

\* While the node answers, a claim without a container is settled: the row ends
\* or gets its container ("a reservation outlives the attempt only if the
\* attempt succeeded").
ClaimsSettle ==
  <>[]reachable =>
    \A d \in Dep :
      status[d] \in ACTIVE_STATUSES /\ container[d] \in {"none", "exited"}
        ~> status[d] \notin ACTIVE_STATUSES \/ container[d] \in HoldsGpu

\* A deployment that nobody stops and whose container goes on serving is found
\* healthy in the end, whatever the node went through before.
ServingIsHealthy ==
  \A d \in Dep :
    <>[](reachable /\ container[d] = "serving" /\ stops[d] = 0)
      => <>[](status[d] = "healthy")

=============================================================================
