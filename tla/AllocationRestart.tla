-------------------------- MODULE AllocationRestart -------------------------
(***************************************************************************)
(* The allocator with restart of services/deployments.py beside it: stop a *)
(* deployment and write a new row for the same cards.  A restart takes the *)
(* allocation lock only to choose a port; the row that holds the port is   *)
(* committed after the lock is released, is not measured against the       *)
(* ledger, and records no reservation.  A deployment that is over may be   *)
(* restarted as well: stop asks for no status, and makes the row active    *)
(* again when it fails.                                                    *)
(***************************************************************************)
EXTENDS Allocation

\* The sessions that serve a restart.  One restarts deployments of one team, which
\* its row is charged to.
CONSTANT Restart

ASSUME RestartAssumption ==
  /\ Restart \subseteq Session
  /\ Restart \cap Request = {}

VARIABLES
  restarting,   \* how far each restart is, and what it carries along
  over          \* the rows that were active and ended, those that came back included

rvars == <<vars, restarting, over>>

NoRestart == [at |-> "idle"]

RInit == Init /\ restarting = [x \in Restart |-> NoRestart] /\ over = {}

\* stop: the container is gone and the row is stopped, or it could not be
\* stopped and the row is active as degraded.  Restart goes on either way.
StopOld(x, d) ==
  /\ restarting[x].at = "idle" /\ ChargedTo[d.by] = ChargedTo[x]
  /\ active' \in {active \cup {d}, active \ {d}}
  /\ restarting' = [restarting EXCEPT ![x] = [at |-> "choosing", old |-> d]]
  /\ UNCHANGED <<used, status, pc, view, todo, tries, lock, flushed>>

\* allocate_port, inside the lock; the lock is free again when this returns.
ChoosePort(x) ==
  /\ restarting[x].at = "choosing"
  /\ lock = NoRequest
  /\ LET d == restarting[x].old IN
       \/ \E p \in Port :
            /\ IsNextPort(active, d.node, p)
            /\ restarting' = [restarting EXCEPT ![x] =
                                [at |-> "claiming", old |-> d, port |-> p]]
       \/ /\ Port \subseteq TakenPorts(active, d.node)
          /\ restarting' = [restarting EXCEPT ![x] = [at |-> "done"]]
  /\ UNCHANGED vars

\* The new row is committed, outside the lock.
Reclaim(x) ==
  /\ restarting[x].at = "claiming"
  /\ LET d == restarting[x].old IN
       active' = active \cup
         {[by |-> x, node |-> d.node, gpus |-> d.gpus, mb |-> 0, port |-> restarting[x].port]}
  /\ restarting' = [restarting EXCEPT ![x] = [at |-> "done"]]
  /\ UNCHANGED <<used, status, pc, view, todo, tries, lock, flushed>>

\* A crash takes the restarts that are under way with it.
RCrash ==
  /\ Crash
  /\ restarting' = [x \in Restart |->
       IF restarting[x].at = "idle" THEN NoRestart ELSE [at |-> "done"]]

NoteOver == over' = over \cup (active \ active')

RNext ==
  /\ \/ /\ \/ \E r \in Request : RequestStep(r)
           \/ \E d \in active : Release(d)
           \/ \E g \in Polled : PollUsage(g)
           \/ \E n \in Drainable : SetStatus(n)
        /\ UNCHANGED restarting
     \/ RCrash
     \/ \E x \in Restart :
          \/ \E d \in active \cup over : StopOld(x, d)
          \/ ChoosePort(x)
          \/ Reclaim(x)
  /\ NoteOver

RSpec == RInit /\ [][RNext]_rvars

\* The event loop runs every request that can proceed, and asyncio's lock hands
\* itself to its waiters in turn.  A restart may be held up for ever.
RFairSpec ==
  RSpec /\ \A r \in Request : WF_rvars(RequestStep(r) /\ UNCHANGED restarting /\ NoteOver)

-----------------------------------------------------------------------------
\* The claims that deploy requests were granted fit together, but for rows that
\* were over and came back, even while restarts write rows beside them.
CreatedFit == Fits({d \in active \ over : d.by \in Request})

\* "The reservations on any one card must never exceed what the card has"
\* (tests/test_concurrency.py).
NoOvercommit == \A g \in Gpu : Claimed(active, g) <= Total[g]
=============================================================================
