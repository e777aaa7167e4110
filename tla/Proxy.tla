-------------------------------- MODULE Proxy ---------------------------------
(***************************************************************************)
(* Which deployments the LiteLLM proxy routes to: services/litellm.py,     *)
(* api/litellm_api.py, and what reconcile_pass, litellm_pass and stop do   *)
(* about it.                                                               *)
(*                                                                         *)
(* Three parties change the proxy's list and the litellm_registered flags: *)
(* the reconciler registers what it finds healthy, stop removes what it    *)
(* stops, and the resync of the worker or of an operator makes the list    *)
(* match the rows.  Each works for as long as its requests take on rows it *)
(* loaded before, and commits the columns it changed at its end.           *)
(***************************************************************************)
EXTENDS Naturals, FiniteSets

CONSTANTS
  Dep,        \* the deployments that were launched
  Other,      \* entries of the proxy that were added by hand
  Pass,       \* the session of reconcile_pass
  Timer,      \* the session of litellm_pass
  Operator,   \* the session of a resync call
  Stoppable,  \* the deployments that an operator may stop; each has a session
  MAX_CALLS,  \* calls of operators under way at once
  MAX_CRASHES

Syncs   == {Timer, Operator}
Session == {Pass} \cup Syncs \cup Stoppable

ACTIVE_STATUSES == {"starting", "healthy", "degraded"}
DeployStatus    == ACTIVE_STATUSES \cup {"failed", "stopped"}

ASSUME ProxyAssumption ==
  /\ Stoppable \subseteq Dep
  /\ Dep \cap (Other \cup {Pass, Timer, Operator}) = {}
  /\ Cardinality({Pass, Timer, Operator}) = 3
  /\ MAX_CALLS \in Nat /\ MAX_CRASHES \in Nat

VARIABLES
  status,     \* committed status of a deployment
  flag,       \* committed litellm_registered
  container,  \* what a pass sees of its container (see Seen)
  route,      \* the entries of the proxy: deployments and entries of others
  up,         \* the proxy answers
  job,        \* what each session is doing
  crashes     \* restarts of the control plane so far

vars == <<status, flag, container, route, up, job, crashes>>

\* It answers /health or is silent; it is gone, or has exited; or its node is
\* unreachable, or docker ps fails there.
Seen == {"answers", "silent", "gone", "unseen"}

\* A session: where it is, the rows of D as it loaded them and as it changed them,
\* the deployments it has to look at, to register, and to remove.
Loaded(D) == [d \in D |-> [status |-> status[d], flag |-> flag[d]]]

Fresh(at, D) ==
  [at |-> at, base |-> Loaded(D), view |-> Loaded(D), todo |-> {}, add |-> {}, drop |-> {}]

Asleep == "asleep"
Idle   == [at |-> Asleep]

-----------------------------------------------------------------------------
Init ==
  /\ status = [d \in Dep |-> "starting"]
  /\ flag = [d \in Dep |-> FALSE]
  /\ container = [d \in Dep |-> "silent"]
  /\ route = Other
  /\ up = TRUE
  /\ job = [s \in Session |-> Idle]
  /\ crashes = 0

Active(d) == status[d] \in ACTIVE_STATUSES

\* A stop flushes its row when it starts and so keeps it locked to its end.
Locked(d) == d \in Stoppable /\ job[d].at \notin {Asleep, "done"}

\* The commit of a session: the columns it changed, of rows no stop has locked.
\* Rows that are cleared lose their flag.
Writes(s, column) ==
  {d \in DOMAIN job[s].base : job[s].view[d][column] # job[s].base[d][column]}

Write(s, cleared) ==
  /\ \A d \in (Writes(s, "status") \cup Writes(s, "flag") \cup cleared) \ {s} : ~ Locked(d)
  /\ status' = [d \in Dep |-> IF d \in Writes(s, "status") THEN job[s].view[d].status ELSE status[d]]
  /\ flag' = [d \in Dep |-> IF d \in cleared THEN FALSE
                            ELSE IF d \in Writes(s, "flag") THEN job[s].view[d].flag ELSE flag[d]]

\* A bound: an operator's call is begun when there are not too many.
MayCall == Cardinality({s \in {Operator} \cup Stoppable : job[s].at \notin {Asleep, "done"}}) < MAX_CALLS

-----------------------------------------------------------------------------
\* register: the entry has the deployment's id.  A proxy that has it already may
\* refuse, and one that does not answer may have added it nevertheless.
Register(d, ok) ==
  \/ up /\ (ok \/ d \in route) /\ route' = route \cup {d}
  \/ ~ up /\ ~ ok /\ route' \in {route, route \cup {d}}

\* deregister, likewise.
Deregister(d, ok) ==
  \/ up /\ (ok \/ d \notin route) /\ route' = route \ {d}
  \/ ~ up /\ ~ ok /\ route' \in {route, route \ {d}}

\* sync_deployment answers whether it worked; the session notes the flag.
Sync(s, d, ok) == job' = [job EXCEPT ![s].view[d].flag = ok, ![s].add = @ \ {d}]

-----------------------------------------------------------------------------
\* reconcile_pass loads the active rows, and judges one after the other.
PassBegin ==
  /\ job[Pass].at = Asleep
  /\ \E d \in Dep : Active(d)
  /\ LET active == {d \in Dep : Active(d)}
     IN  job' = [job EXCEPT ![Pass] = [Fresh("judge", active) EXCEPT !.todo = active]]
  /\ UNCHANGED <<status, flag, container, route, up, crashes>>

\* Faulty: the row of a container that is gone is left stopping.
MutantVerdict(c, old) ==
  CASE c = "gone"    -> {"stopping"}
    [] c = "answers" -> {"healthy"}
    [] c = "silent"  -> {"starting", "degraded"}
    [] c = "unseen"  -> {old}

\* _reconcile_one on what the container does; startup_expired is left open.  On an
\* unreachable node a healthy row is degraded; where docker ps fails none is judged.
Verdict(c, old) ==
  CASE c = "gone"    -> {"failed"}
    [] c = "answers" -> {"healthy"}
    [] c = "silent"  -> {"starting", "degraded"}
    [] c = "unseen"  -> {old, IF old = "healthy" THEN "degraded" ELSE old}

\* A deployment that answers is registered unless the row says that it is:
\* when it becomes healthy, and again in every pass until it works.
PassJudge ==
  /\ job[Pass].at = "judge" /\ job[Pass].add = {}
  /\ \E d \in job[Pass].todo : \E new \in Verdict(container[d], job[Pass].view[d].status) :
       job' = [job EXCEPT ![Pass].todo = @ \ {d}, ![Pass].view[d].status = new,
                 ![Pass].add = {e \in {d} : container[d] = "answers" /\ ~ job[Pass].view[d].flag}]
  /\ UNCHANGED <<status, flag, container, route, up, crashes>>

\* _register_litellm.
PassRegister ==
  /\ job[Pass].at = "judge"
  /\ \E d \in job[Pass].add, ok \in BOOLEAN : Register(d, ok) /\ Sync(Pass, d, ok)
  /\ UNCHANGED <<status, flag, container, up, crashes>>

PassCommit ==
  /\ job[Pass].at = "judge" /\ job[Pass].todo = {} /\ job[Pass].add = {}
  /\ Write(Pass, {})
  /\ job' = [job EXCEPT ![Pass] = Idle]
  /\ UNCHANGED <<container, route, up, crashes>>

PassStep == PassBegin \/ PassJudge \/ PassRegister \/ PassCommit

-----------------------------------------------------------------------------
\* Faulty: every entry counts as one of ours.
MutantOurs == route

\* The entries that carry a dgxctl_deployment_id.
Ours == route \cap Dep

\* reconcile asks the proxy for its list; no answer ends it.
SyncList(s) ==
  /\ job[s].at = Asleep /\ up /\ (s = Operator => MayCall)
  /\ job' = [job EXCEPT ![s] = [Fresh("select", {}) EXCEPT !.drop = Ours]]
  /\ UNCHANGED <<status, flag, container, route, up, crashes>>

\* Faulty: nothing is removed.
MutantStale(listed, healthy) == {}

Stale(listed, healthy) == listed \ healthy

\* It loads the rows that are healthy now: those that are listed get their flag,
\* the others are to be registered, and the rest of the list is to be removed.
SyncSelect(s) ==
  LET healthy == {d \in Dep : status[d] = "healthy"}
      listed  == job[s].drop
  IN  /\ job[s].at = "select"
      /\ job' = [job EXCEPT ![s] =
           [Fresh("apply", healthy) EXCEPT
              !.add = healthy \ listed, !.drop = Stale(listed, healthy),
              !.view = [d \in healthy |-> [status |-> "healthy", flag |-> flag[d] \/ d \in listed]]]]
      /\ UNCHANGED <<status, flag, container, route, up, crashes>>

SyncAdd(s) ==
  /\ job[s].at = "apply"
  /\ \E d \in job[s].add, ok \in BOOLEAN : Register(d, ok) /\ Sync(s, d, ok)
  /\ UNCHANGED <<status, flag, container, up, crashes>>

SyncRemove(s) ==
  /\ job[s].at = "apply" /\ job[s].add = {}
  /\ \E d \in job[s].drop, ok \in BOOLEAN :
       Deregister(d, ok) /\ job' = [job EXCEPT ![s].drop = @ \ {d}]
  /\ UNCHANGED <<status, flag, container, up, crashes>>

\* Faulty: nothing is cleared.
MutantUnhealthy(s) == {}

\* The active rows, read now, that are not healthy.  A row the session loaded as
\* healthy is healthy to it still.
Unhealthy(s) == {d \in Dep \ DOMAIN job[s].base : Active(d) /\ status[d] # "healthy"}

\* The last query writes out what was changed, and the commit follows.
SyncCommit(s) ==
  /\ job[s].at = "apply" /\ job[s].add = {} /\ job[s].drop = {}
  /\ Write(s, Unhealthy(s))
  /\ job' = [job EXCEPT ![s] = Idle]
  /\ UNCHANGED <<container, route, up, crashes>>

SyncStep(s) ==
  s \in Syncs /\ (SyncList(s) \/ SyncSelect(s) \/ SyncAdd(s) \/ SyncRemove(s) \/ SyncCommit(s))

-----------------------------------------------------------------------------
\* stop flushes the status stopping, which is never committed, and takes a row
\* that says it is registered off the proxy.
StopBegin(d) ==
  /\ job[d].at = Asleep /\ Active(d) /\ MayCall
  /\ LET at == IF flag[d] THEN "deregister" ELSE "stop"
     IN  job' = [job EXCEPT ![d] = [Fresh(at, {d}) EXCEPT !.base[d].status = "stopping"]]
  /\ UNCHANGED <<status, flag, container, route, up, crashes>>

StopDeregister(d) ==
  /\ job[d].at = "deregister"
  /\ \E ok \in BOOLEAN :
       /\ Deregister(d, ok)
       /\ job' = [job EXCEPT ![d].at = "stop", ![d].view[d].flag = ~ ok]
  /\ UNCHANGED <<status, flag, container, up, crashes>>

AfterStop(ok) == IF ok THEN "stopped" ELSE "degraded"

\* The container is stopped, or that fails.  Either way it may be there still: the
\* driver raises when the node does not answer and ignores what docker says.
StopRun(d) ==
  /\ job[d].at = "stop"
  /\ \E ok \in BOOLEAN :
       /\ job' = [job EXCEPT ![d].at = "commit", ![d].view[d].status = AfterStop(ok)]
       /\ container' \in {container, [container EXCEPT ![d] = "gone"]}
  /\ UNCHANGED <<status, flag, route, up, crashes>>

StopCommit(d) ==
  /\ job[d].at = "commit"
  /\ Write(d, {})
  /\ job' = [job EXCEPT ![d] = [at |-> "done"]]
  /\ UNCHANGED <<container, route, up, crashes>>

StopStep(d) ==
  d \in Stoppable /\ (StopBegin(d) \/ StopDeregister(d) \/ StopRun(d) \/ StopCommit(d))

-----------------------------------------------------------------------------
\* An engine loads, serves, hangs or exits, and docker restarts it (--restart
\* unless-stopped); its node comes and goes.  That one which was removed may come
\* back as well only adds behaviours.
ContainerMoves(d) ==
  /\ \E c \in Seen \ {container[d]} : container' = [container EXCEPT ![d] = c]
  /\ UNCHANGED <<status, flag, route, up, job, crashes>>

\* The proxy keeps its entries in its database.
ProxyMoves == up' = ~ up /\ UNCHANGED <<status, flag, container, route, job, crashes>>

\* The control plane is restarted; its proxy calls are done, its commits are not.
Crash ==
  /\ crashes < MAX_CRASHES /\ crashes' = crashes + 1
  /\ \E s \in Session : job[s].at \notin {Asleep, "done"}
  /\ job' = [s \in Session |-> IF job[s].at \in {Asleep, "done"} THEN job[s]
                               ELSE IF s \in Stoppable THEN [at |-> "done"] ELSE Idle]
  /\ UNCHANGED <<status, flag, container, route, up>>

Next ==
  \/ PassStep
  \/ \E s \in Syncs : SyncStep(s)
  \/ \E d \in Stoppable : StopStep(d)
  \/ \E d \in Dep : ContainerMoves(d)
  \/ ProxyMoves
  \/ Crash

Spec == Init /\ [][Next]_vars

\* The loops of the worker go on and what has begun is finished; nobody need
\* call the resync or stop anything.
FairSpec ==
  /\ Spec
  /\ WF_vars(PassStep)
  /\ WF_vars(SyncStep(Timer))
  /\ WF_vars(SyncStep(Operator) /\ job[Operator].at # Asleep)
  /\ \A d \in Stoppable : WF_vars(StopStep(d) /\ job[d].at # Asleep)

-----------------------------------------------------------------------------
TypeOK ==
  /\ status \in [Dep -> DeployStatus]
  /\ flag \in [Dep -> BOOLEAN]
  /\ container \in [Dep -> Seen]
  /\ route \subseteq Dep \cup Other
  /\ up \in BOOLEAN
  /\ crashes \in 0..MAX_CRASHES

\* "Entries dgxctl did not create (hosted APIs added by hand) are never touched"
\* (reconcile).
OthersKept == Other \subseteq route

Steady(d, c) == <>[](up /\ container[d] \in c)

Serves == {"answers"}
Fails  == {"silent", "gone"}

\* However resyncs, passes, stops, crashes and outages of the proxy crossed: a
\* deployment that from some time on answers is routed to in the end if its row is
\* active, and one that ended is not, nor is one that does not answer ("a stale entry
\* means LiteLLM load-balances onto a backend that is gone").
RoutesConverge ==
  \A d \in Dep :
    /\ Steady(d, Serves) => <>[](d \in route <=> Active(d))
    /\ Steady(d, Fails)  => <>[](d \notin route)

\* The flag that the console shows of an active row follows: it is what makes the
\* reconciler try again and stop remove the entry (sync_deployment: "it just shows up
\* as an unsynced deployment in the UI").
FlagsConverge ==
  \A d \in Dep :
    /\ Steady(d, Serves) => <>[](Active(d) => flag[d])
    /\ Steady(d, Fails)  => <>[](Active(d) => ~ flag[d])
=============================================================================
