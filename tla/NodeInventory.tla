---------------------------- MODULE NodeInventory ----------------------------
(***************************************************************************)
(* The fleet's record of its nodes and of the clusters they are grouped    *)
(* in: services/nodes.py, api/nodes.py, api/clusters.py, inventory_pass of *)
(* worker.py and the connections of drivers/ssh_driver.py.                 *)
(*                                                                         *)
(* The inventory pass and every handler run in a database session of their *)
(* own.  A session keeps the rows as it loaded them, yields while it       *)
(* probes, and at its commit writes only the columns it changed: columns   *)
(* that others changed in the meantime are overwritten or kept by that     *)
(* rule alone.  A commit that finds a row deleted fails as a whole.        *)
(***************************************************************************)
EXTENDS Integers, FiniteSets

CONSTANTS
  Node, Cluster, Host,
  NoHost, NoCluster,
  Pass,        \* the session of inventory_pass
  Call,        \* the sessions of the handlers, one call each
  Ops,         \* the calls operators may make
  FirstHost,   \* [Node -> Host]: the address a node is registered with
  Given,       \* the nodes and the clusters that are there at the start
  Grouped,     \* [Node -> Cluster or NoCluster]: where the nodes start
  Claimable,   \* the nodes that deployments are placed on
  MaxFaults    \* how often the state of a host changes

Session == Call \cup {Pass}
Held    == {"draining", "maintenance"}
Status  == Held \cup {"absent", "unknown", "online", "unreachable"}

OneNode == {{n} : n \in Node}

\* A call: its kind, the nodes it names, and the value it sets (NodeUpdate and
\* NodeMove; a status is one of NodeStatus).
Op ==
  [kind : {"create", "delete", "drain", "undrain", "probe", "authorize"}, nodes : OneNode,
   value : {"none"}]
  \cup [kind : {"update"}, nodes : OneNode, value : Status \ {"absent"}]
  \cup [kind : {"readdress"}, nodes : OneNode, value : Host]
  \cup [kind : {"move", "create cluster"}, nodes : SUBSET Node, value : Cluster]
  \cup [kind : {"unassign"}, nodes : SUBSET Node, value : {"none"}]
  \cup [kind : {"delete cluster"}, nodes : {{}}, value : Cluster]

ASSUME InventoryAssumption ==
  /\ Pass \notin Call
  /\ FirstHost \in [Node -> Host]
  /\ NoHost \notin Host /\ NoCluster \notin Cluster
  /\ Ops \subseteq Op
  /\ Given \subseteq Node \cup Cluster
  /\ Grouped \in [Node -> (Cluster \cap Given) \cup {NoCluster}]
  /\ Claimable \subseteq Node
  /\ MaxFaults \in Nat

VARIABLES
  status,    \* committed status of a node, "absent" while it is not registered
  host,      \* committed address of a node
  cluster,   \* committed cluster_id of a node
  clusters,  \* the clusters there are
  claimed,   \* the nodes that have an active deployment
  conn,      \* the open connections of the driver, by node
  net,       \* what a host does when it is asked: "up", "broken" or "down"
  faults,    \* changes of net so far
  job        \* what each session is doing

vars == <<status, host, cluster, clusters, claimed, conn, net, faults, job>>

Registered(n) == status[n] # "absent"

\* What a session has in memory: a row that another session deleted stays
\* there, and is "gone".
Unloaded == [status |-> "absent", host |-> NoHost, cluster |-> NoCluster, gone |-> FALSE]

Loaded(N) ==
  [n \in Node |-> IF n \in N /\ Registered(n)
                  THEN [status |-> status[n], host |-> host[n], cluster |-> cluster[n],
                        gone |-> FALSE]
                  ELSE Unloaded]

NoOp == [kind |-> "none", nodes |-> {}, value |-> "none"]

Nothing(at) ==
  [at |-> at, op |-> NoOp, todo |-> {}, facts |-> "none", view |-> [n \in Node |-> Unloaded]]

\* The only node of a call that names one.
NodeOfCall(s) == CHOOSE n \in job[s].op.nodes : TRUE

-----------------------------------------------------------------------------
Init ==
  /\ status = [n \in Node |-> IF n \in Given THEN "online" ELSE "absent"]
  /\ host = FirstHost
  /\ cluster = Grouped
  /\ clusters = Cluster \cap Given
  /\ claimed = {}
  /\ conn = [n \in Node |-> NoHost]
  /\ net = [h \in Host |-> "up"]
  /\ faults = 0
  /\ job = [s \in Session |-> Nothing("idle")]

\* Faulty: the loop ends with its first pass.
MutantEnd(s) == job' = [job EXCEPT ![s] = Nothing("done")]

\* The session is closed: the pass starts over at its next interval (_loop), a
\* call is answered.
End(s) == job' = [job EXCEPT ![s] = Nothing(IF s = Pass THEN "idle" ELSE "done")]

\* Faulty: one failure kills the loop.
MutantFail(s) == job' = [job EXCEPT ![s] = Nothing("done")]

\* A commit that fails: the rollback expires what the session has loaded, and
\* the next row it touches raises, so that the pass ends with its call.
Fail(s) == End(s)

-----------------------------------------------------------------------------
\* inventory_pass loads every node and probes one after the other.
PassBegin ==
  /\ job[Pass].at = "idle"
  /\ \E n \in Node : Registered(n)
  /\ job' = [job EXCEPT ![Pass] = [Nothing("probe") EXCEPT !.todo = {n \in Node : Registered(n)},
                                                           !.view = Loaded(Node)]]
  /\ UNCHANGED <<status, host, cluster, clusters, claimed, conn, net, faults>>

\* driver.probe: over the node's open connection if there is one, else over a
\* new one to the address the session loaded.  A failure drops the connection.
\* A deleted row had a key of its own.
Probe(s, n) ==
  LET v == job[s].view[n]
      t == IF conn[n] # NoHost /\ ~ v.gone THEN conn[n] ELSE v.host
  IN  /\ job[s].at = "probe" /\ n \in job[s].todo
      /\ job' = [job EXCEPT ![s].at = "write", ![s].facts = net[t],
                            ![s].op = [kind |-> @.kind, nodes |-> {n}, value |-> @.value]]
      /\ conn' = IF v.gone THEN conn
                 ELSE [conn EXCEPT ![n] = IF net[t] = "down" THEN NoHost ELSE t]
      /\ UNCHANGED <<status, host, cluster, clusters, claimed, net, faults>>

\* The status refresh decides on, from the one its session loaded.
Learned(loaded, facts) ==
  IF facts = "down" THEN "unreachable"
  ELSE IF facts = "broken" \/ loaded \in Held THEN loaded
  ELSE "online"

\* refresh writes what it learned.
Refresh(s) ==
  LET n   == NodeOfCall(s)
      v   == job[s].view[n]
      new == Learned(v.status, job[s].facts)
  IN  /\ job[s].at = "write"
      /\ IF v.gone
         THEN Fail(s) /\ UNCHANGED status
         ELSE /\ status' = [status EXCEPT ![n] = IF new = v.status THEN @ ELSE new]
              /\ IF job[s].todo = {n} THEN End(s)
                 ELSE job' = [job EXCEPT ![s].at = "probe", ![s].todo = @ \ {n}]
      /\ UNCHANGED <<host, cluster, clusters, claimed, conn, net, faults>>

-----------------------------------------------------------------------------
\* What a handler answers before it changes anything: 404 and 409.
Refused(op) ==
  \/ op.kind \in {"create"} /\ \E n \in op.nodes : Registered(n)
  \/ op.kind \notin {"create", "create cluster"} /\ \E n \in op.nodes : ~ Registered(n)
  \/ op.kind = "delete" /\ op.nodes \cap claimed # {}
  \/ op.kind = "create cluster" /\ op.value \in clusters
  \/ op.kind \in {"move", "delete cluster"} /\ op.value \notin clusters

\* A handler loads the rows it needs.  A probe goes on to refresh at once.
Begin(s) ==
  /\ s \in Call /\ job[s].at = "idle"
  /\ \E op \in Ops :
       \/ /\ Refused(op)
          /\ End(s)
       \/ /\ ~ Refused(op)
          /\ job' = [job EXCEPT ![s] =
                       [at |-> IF op.kind = "probe" THEN "probe" ELSE "commit", op |-> op,
                        todo |-> op.nodes, facts |-> "none", view |-> Loaded(op.nodes)]]
  /\ UNCHANGED <<status, host, cluster, clusters, claimed, conn, net, faults>>

Committing(s, kinds) == job[s].at = "commit" /\ job[s].op.kind \in kinds

\* create_node: the name may have been taken since it was looked up.
Create(s) ==
  LET n == NodeOfCall(s) IN
  /\ Committing(s, {"create"})
  /\ IF Registered(n)
     THEN Fail(s) /\ UNCHANGED <<status, host, cluster>>
     ELSE /\ status' = [status EXCEPT ![n] = "unknown"]
          /\ host' = [host EXCEPT ![n] = FirstHost[n]]
          /\ cluster' = [cluster EXCEPT ![n] = NoCluster]
          /\ job' = [job EXCEPT ![s].at = "probe", ![s].todo = {n},
                       ![s].view[n] = [status |-> "unknown", host |-> FirstHost[n],
                                       cluster |-> NoCluster, gone |-> FALSE]]
  /\ UNCHANGED <<clusters, claimed, conn, net, faults>>

\* drain_node, and update_node of a status: the column is written if it is not
\* what the session loaded; undoing a drain goes on to refresh.
Set(s) ==
  LET n   == NodeOfCall(s)
      v   == job[s].view[n]
      new == CASE job[s].op.kind = "drain"   -> "draining"
               [] job[s].op.kind = "undrain" -> "unknown"
               [] job[s].op.kind = "update"  -> job[s].op.value
  IN  /\ Committing(s, {"drain", "undrain", "update"})
      /\ IF new # v.status /\ v.gone
         THEN Fail(s) /\ UNCHANGED status
         ELSE /\ status' = [status EXCEPT ![n] = IF new = v.status THEN @ ELSE new]
              /\ IF job[s].op.kind = "undrain"
                 THEN job' = [job EXCEPT ![s].at = "probe", ![s].view[n].status = new]
                 ELSE End(s)
      /\ UNCHANGED <<host, cluster, clusters, claimed, conn, net, faults>>

\* update_node of the address: the open connection stays the node's.
Readdress(s) ==
  LET n == NodeOfCall(s) IN
  /\ Committing(s, {"readdress"})
  /\ host' = IF job[s].view[n].gone THEN host ELSE [host EXCEPT ![n] = job[s].op.value]
  /\ End(s)
  /\ UNCHANGED <<status, cluster, clusters, claimed, conn, net, faults>>

\* install_authorized_key: over a password connection to the recorded address.
Installed(s) == net[job[s].view[NodeOfCall(s)].host] # "down"

\* authorize_node: a key that is installed drops the open connection.
Authorize(s) ==
  LET n == NodeOfCall(s) IN
  /\ Committing(s, {"authorize"})
  /\ IF Installed(s)
     THEN /\ conn' = IF job[s].view[n].gone THEN conn ELSE [conn EXCEPT ![n] = NoHost]
          /\ job' = [job EXCEPT ![s].at = "probe"]
     ELSE End(s) /\ UNCHANGED conn
  /\ UNCHANGED <<status, host, cluster, clusters, claimed, net, faults>>

\* delete_node: every deployment that names the node goes with it, those
\* committed since they were counted by the foreign key.
Delete(s) ==
  LET n == NodeOfCall(s) IN
  /\ Committing(s, {"delete"})
  /\ IF job[s].view[n].gone
     THEN End(s) /\ UNCHANGED <<status, claimed, conn>>
     ELSE /\ status' = [status EXCEPT ![n] = "absent"]
          /\ claimed' = claimed \ {n}
          /\ conn' = [conn EXCEPT ![n] = NoHost]
          /\ job' = [t \in Session |->
                       IF t = s THEN Nothing("done")
                       ELSE IF job[t].view[n] = Unloaded THEN job[t]
                       ELSE [job[t] EXCEPT !.view[n].gone = TRUE]]
  /\ UNCHANGED <<host, cluster, clusters, net, faults>>

\* _assign: the nodes of a call that it found elsewhere, whose rows are written.
Moved(s, c) == {n \in job[s].op.nodes : job[s].view[n].cluster # c}

Assign(N, c) == cluster' = [n \in Node |-> IF n \in N THEN c ELSE cluster[n]]

\* Faulty: nodes that are gone are skipped.
MutantMove(s) ==
  LET c == IF job[s].op.kind = "unassign" THEN NoCluster ELSE job[s].op.value IN
  /\ Committing(s, {"move", "unassign"})
  /\ IF c \in clusters \cup {NoCluster}
     THEN Assign({n \in Moved(s, c) : ~ job[s].view[n].gone}, c)
     ELSE UNCHANGED cluster
  /\ End(s)
  /\ UNCHANGED <<status, host, clusters, claimed, conn, net, faults>>

\* Faulty: nothing refers a node's cluster to the clusters there are.
MutantNoForeignKey(s) ==
  LET c == IF job[s].op.kind = "unassign" THEN NoCluster ELSE job[s].op.value IN
  /\ Committing(s, {"move", "unassign"})
  /\ IF \A n \in Moved(s, c) : ~ job[s].view[n].gone
     THEN Assign(Moved(s, c), c) ELSE UNCHANGED cluster
  /\ End(s)
  /\ UNCHANGED <<status, host, clusters, claimed, conn, net, faults>>

\* move_nodes_in and unassign_nodes: all of the nodes or, when one is gone or
\* the cluster is, none.
Move(s) ==
  LET c == IF job[s].op.kind = "unassign" THEN NoCluster ELSE job[s].op.value IN
  /\ Committing(s, {"move", "unassign"})
  /\ IF c \in clusters \cup {NoCluster} /\ \A n \in Moved(s, c) : ~ job[s].view[n].gone
     THEN Assign(Moved(s, c), c) ELSE UNCHANGED cluster
  /\ End(s)
  /\ UNCHANGED <<status, host, clusters, claimed, conn, net, faults>>

\* create_cluster: the cluster with its nodes, or neither.
CreateCluster(s) ==
  LET c == job[s].op.value
      N == job[s].op.nodes
  IN  /\ Committing(s, {"create cluster"})
      /\ IF c \notin clusters /\ \A n \in N : job[s].view[n].status # "absent" /\ ~ job[s].view[n].gone
         THEN clusters' = clusters \cup {c} /\ Assign(N, c)
         ELSE UNCHANGED <<clusters, cluster>>
      /\ End(s)
      /\ UNCHANGED <<status, host, claimed, conn, net, faults>>

\* delete_cluster: its nodes are released, those moved in meanwhile as well.
DeleteCluster(s) ==
  LET c == job[s].op.value IN
  /\ Committing(s, {"delete cluster"})
  /\ clusters' = clusters \ {c}
  /\ Assign({n \in Node : cluster[n] = c}, NoCluster)
  /\ End(s)
  /\ UNCHANGED <<status, host, claimed, conn, net, faults>>

-----------------------------------------------------------------------------
\* A claim of the allocator is committed, from whatever its session loaded, or
\* the last one on the node ends.  A claim names a node that exists.
Claim(n) ==
  /\ Registered(n)
  /\ claimed' = IF n \in claimed THEN claimed \ {n} ELSE claimed \cup {n}
  /\ UNCHANGED <<status, host, cluster, clusters, conn, net, faults, job>>

\* A host goes down, comes back, or answers while its GPUs do not.  Going down
\* takes no notice of the connection the driver has open.
Fault(h) ==
  /\ faults < MaxFaults
  /\ \E state \in {"up", "broken", "down"} : state # net[h] /\ net' = [net EXCEPT ![h] = state]
  /\ faults' = faults + 1
  /\ UNCHANGED <<status, host, cluster, clusters, claimed, conn, job>>

\* The control plane restarts: calls are lost, and the driver's connections.
Crash ==
  /\ \E s \in Call : job[s].at \in {"probe", "write", "commit"}
  /\ job' = [s \in Session |-> IF s = Pass \/ job[s].at = "idle" THEN Nothing("idle")
                               ELSE Nothing("done")]
  /\ conn' = [n \in Node |-> NoHost]
  /\ UNCHANGED <<status, host, cluster, clusters, claimed, net, faults>>

Work(s) ==
  \/ Begin(s) \/ Create(s) \/ Set(s) \/ Readdress(s) \/ Authorize(s) \/ Delete(s)
  \/ Move(s) \/ CreateCluster(s) \/ DeleteCluster(s) \/ Refresh(s)
  \/ \E n \in Node : Probe(s, n)

Next ==
  \/ PassBegin
  \/ \E s \in Session : Work(s)
  \/ \E n \in Claimable : Claim(n)
  \/ \E h \in Host : Fault(h)
  \/ Crash

Spec == Init /\ [][Next]_vars

\* The worker's loop and the coroutines that have begun go on; operators need
\* not call, allocators need not claim, and hosts need not recover.
FairSpec ==
  /\ Spec
  /\ WF_vars(PassBegin)
  /\ \A s \in Session : WF_vars(Work(s) /\ job[s].at # "idle")

-----------------------------------------------------------------------------
TypeOK ==
  /\ status \in [Node -> Status]
  /\ host \in [Node -> Host]
  /\ cluster \in [Node -> Cluster \cup {NoCluster}]
  /\ clusters \subseteq Cluster
  /\ claimed \subseteq Node
  /\ conn \in [Node -> Host \cup {NoHost}]
  /\ net \in [Host -> {"up", "broken", "down"}]
  /\ faults \in 0..MaxFaults
  /\ job[Pass].at \in {"idle", "probe", "write"}
  /\ \A s \in Call : job[s].at \in {"idle", "probe", "write", "commit", "done"}

\* A deployment names a node that is registered and a registered node a cluster
\* that exists, however claims, moves and the deletions of nodes and clusters
\* cross: a claim committed while its node is being deleted goes with it, and a
\* node moved into a cluster that is being deleted is released.
ReferencesResolve ==
  /\ \A n \in claimed : Registered(n)
  /\ \A n \in Node : Registered(n) => cluster[n] \in clusters \cup {NoCluster}

\* A call that names several nodes moves every one that it found elsewhere, or
\* none: a node that is deleted under it takes the others with it (_assign).
MoveAllOrNothing ==
  [][\A s \in Call :
       Committing(s, {"move", "unassign", "create cluster"}) /\ job'[s].at = "done"
         /\ cluster' # cluster
       => LET c == cluster'[CHOOSE n \in Node : cluster'[n] # cluster[n]] IN
          \A n \in Moved(s, c) : Registered(n) /\ ~ job[s].view[n].gone /\ cluster'[n] = c]_vars

\* Whatever calls, deletions, failed passes and restarts come in between, a
\* node whose host stays up is taken up by the inventory, and one whose host
\* stays down is known to be unreachable, unless a connection to another host
\* is open in its name (inventory_pass: "one bad node must not poison the rest
\* of the pass"; _loop: "one failure must never kill the loop").
Stays(n, state) ==
  <>[](Registered(n) /\ net[host[n]] = state /\ conn[n] \in {NoHost, host[n]})

StatusSettles ==
  \A n \in Node :
    /\ Stays(n, "up")   => <>[](status[n] \in Held \cup {"online"})
    /\ Stays(n, "down") => <>[](status[n] = "unreachable")

\* "Don't override an operator's deliberate drain/maintenance flag" (refresh): it
\* is lifted by an operator only.
DrainKept ==
  [][\A n \in Node :
       status[n] \in Held /\ status'[n] \notin Held \cup {"absent"} =>
         \E s \in Call : job[s].op.kind \in {"undrain", "update"}]_vars
=============================================================================
