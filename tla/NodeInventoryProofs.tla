------------------------- MODULE NodeInventoryProofs --------------------------
(***************************************************************************)
(* Proofs about NodeInventory, for any nodes, clusters, hosts and calls.   *)
(***************************************************************************)
EXTENDS NodeInventory, TLAPS

\* A row as a session keeps it, and a session.
Sight ==
  [status : Status, host : Host \cup {NoHost}, cluster : Cluster \cup {NoCluster}, gone : BOOLEAN]

AnyOp ==
  [kind : {"none", "create", "delete", "drain", "undrain", "update", "readdress", "probe",
           "authorize", "move", "unassign", "create cluster", "delete cluster"},
   nodes : SUBSET Node, value : {"none"} \cup Status \cup Host \cup Cluster]

Job ==
  [at : {"idle", "probe", "write", "commit", "done"}, op : AnyOp, todo : SUBSET Node,
   facts : {"none", "up", "broken", "down"}, view : [Node -> Sight]]

\* A session has loaded the row of node n, which need not be there any more.
Saw(t, n) == t.view[n].status # "absent"

\* Session s is doing t while the nodes of R are registered: a row that it saw and
\* that nobody deleted is there, and it works on rows that it saw.
Sound(s, t, R) ==
  /\ t \in Job
  /\ s = Pass => t.at \in {"idle", "probe", "write"}
  /\ \A n \in Node : Saw(t, n) => t.view[n].host \in Host /\ (t.view[n].gone \/ n \in R)
  /\ t.at \in {"probe", "write"} => \A n \in t.todo : Saw(t, n)
  /\ t.at = "write" => (\E n \in t.todo : t.op.nodes = {n}) /\ t.facts # "none"
  /\ t.at = "commit" =>
       /\ t.op \in Op /\ t.todo = t.op.nodes
       /\ t.op.kind \notin {"create", "create cluster"} => \A n \in t.op.nodes : Saw(t, n)

Registry == {n \in Node : Registered(n)}

JobInv ==
  /\ DOMAIN job = Session
  /\ \A s \in Session : Sound(s, job[s], Registry)

IInv == TypeOK /\ JobInv /\ ReferencesResolve

-----------------------------------------------------------------------------
LEMMA SoundMore ==
  ASSUME NEW s, NEW t, NEW R, NEW Q, R \subseteq Q, Sound(s, t, R)
  PROVE  Sound(s, t, Q)
BY DEF Sound

LEMMA UnloadedType == Unloaded \in Sight /\ Unloaded.status = "absent"
BY DEF Unloaded, Sight, Status, Held

LEMMA NothingType ==
  ASSUME NEW at \in {"idle", "probe", "done"}
  PROVE  Nothing(at) \in Job
<1>1. NoOp \in AnyOp
  BY DEF NoOp, AnyOp
<1> QED
  BY <1>1, UnloadedType DEF Nothing, Job

\* A session that is closed has nothing in memory.
LEMMA Resting ==
  ASSUME NEW s, NEW at \in {"idle", "done"}, s = Pass => at = "idle", NEW R
  PROVE  Sound(s, Nothing(at), R)
<1>1. Nothing(at) \in Job
  BY NothingType
<1>2. \A n \in Node : ~ Saw(Nothing(at), n)
  BY UnloadedType DEF Nothing, Saw
<1> QED
  BY <1>1, <1>2 DEF Sound, Nothing

\* What an operator may ask for is typed.
LEMMA OpType ==
  ASSUME NEW op \in Op
  PROVE  op \in AnyOp /\ op.nodes \in SUBSET Node
<1>1. CASE op \in [kind : {"create", "delete", "drain", "undrain", "probe", "authorize"},
                   nodes : OneNode, value : {"none"}]
  BY <1>1 DEF AnyOp, OneNode
<1>2. CASE op \in [kind : {"update"}, nodes : OneNode, value : Status \ {"absent"}]
  BY <1>2 DEF AnyOp, OneNode
<1>3. CASE op \in [kind : {"readdress"}, nodes : OneNode, value : Host]
  BY <1>3 DEF AnyOp, OneNode
<1>4. CASE op \in [kind : {"move", "create cluster"}, nodes : SUBSET Node, value : Cluster]
  BY <1>4 DEF AnyOp
<1>5. CASE op \in [kind : {"unassign"}, nodes : SUBSET Node, value : {"none"}]
  BY <1>5 DEF AnyOp
<1>6. CASE op \in [kind : {"delete cluster"}, nodes : {{}}, value : Cluster]
  BY <1>6 DEF AnyOp
<1> QED
  BY <1>1, <1>2, <1>3, <1>4, <1>5, <1>6 DEF Op

\* What a session loads is there.
LEMMA LoadedType ==
  ASSUME TypeOK, NEW N \in SUBSET Node
  PROVE  /\ Loaded(N) \in [Node -> Sight]
         /\ \A n \in Node : Loaded(N)[n].status # "absent" =>
              n \in N /\ n \in Registry /\ Loaded(N)[n].host \in Host
         /\ \A n \in N : Registered(n) => Loaded(N)[n].status # "absent"
<1>1. ASSUME NEW n \in Node
      PROVE  [status |-> status[n], host |-> host[n], cluster |-> cluster[n], gone |-> FALSE] \in Sight
  BY DEF TypeOK, Sight
<1> QED
  BY <1>1, UnloadedType DEF Loaded, Registry, Registered, TypeOK

\* One session goes on, and no node goes.
LEMMA OneJob ==
  ASSUME JobInv, NEW s \in Session, NEW t, job' = [job EXCEPT ![s] = t],
         Registry \subseteq Registry', Sound(s, t, Registry')
  PROVE  JobInv'
<1>1. ASSUME NEW u \in Session
      PROVE  Sound(u, job'[u], Registry')
  <2>1. CASE u = s
    BY <2>1 DEF JobInv
  <2>2. CASE u # s
    <3>1. job'[u] = job[u] /\ Sound(u, job[u], Registry)
      BY <2>2 DEF JobInv
    <3> QED
      BY <3>1, SoundMore
  <2> QED
    BY <2>1, <2>2
<1>2. JobInv' <=> DOMAIN job' = Session /\ \A u \in Session : Sound(u, job'[u], Registry')
  BY DEF JobInv, Sound, Saw, Registry, Registered
<1> QED
  BY <1>1, <1>2 DEF JobInv

LEMMA Ended ==
  ASSUME JobInv, NEW s \in Session, End(s), Registry \subseteq Registry'
  PROVE  JobInv'
<1> DEFINE at == IF s = Pass THEN "idle" ELSE "done"
<1>1. job' = [job EXCEPT ![s] = Nothing(at)]
  BY DEF End
<1>2. Sound(s, Nothing(at), Registry')
  BY Resting
<1> QED
  BY <1>1, <1>2, OneJob

\* The stages of the sessions are typed because the sessions are.
LEMMA TypedFrom ==
  ASSUME JobInv',
         status' \in [Node -> Status], host' \in [Node -> Host],
         cluster' \in [Node -> Cluster \cup {NoCluster}], clusters' \subseteq Cluster,
         claimed' \subseteq Node, conn' \in [Node -> Host \cup {NoHost}],
         net' \in [Host -> {"up", "broken", "down"}], faults' \in 0..MaxFaults
  PROVE  TypeOK'
<1>1. job'[Pass].at \in {"idle", "probe", "write"}
  BY DEF JobInv, Sound, Session
<1>2. \A s \in Call : job'[s].at \in {"idle", "probe", "write", "commit", "done"}
  BY DEF JobInv, Sound, Session, Job
<1> QED
  BY <1>1, <1>2 DEF TypeOK

\* A step that leaves the tables of nodes and clusters alone.
LEMMA TablesKept ==
  ASSUME IInv, JobInv', UNCHANGED <<status, host, cluster, clusters, claimed, net, faults>>,
         conn' \in [Node -> Host \cup {NoHost}]
  PROVE  IInv'
<1>1. TypeOK'
  BY TypedFrom DEF IInv, TypeOK
<1> QED
  BY <1>1 DEF IInv, ReferencesResolve, Registered

LEMMA SameRegistry ==
  ASSUME UNCHANGED status
  PROVE  Registry' = Registry
BY DEF Registry, Registered

\* A status is written to a node that is there, and stays one.
LEMMA StatusKept ==
  ASSUME IInv, JobInv', NEW n \in Registry, NEW new \in Status \ {"absent"},
         status' = [status EXCEPT ![n] = new],
         UNCHANGED <<host, cluster, clusters, claimed, conn, net, faults>>
  PROVE  IInv'
<1>1. TypeOK'
  BY TypedFrom DEF IInv, TypeOK
<1> QED
  BY <1>1 DEF IInv, ReferencesResolve, Registry, Registered, TypeOK

LEMMA RegistryKept ==
  ASSUME TypeOK, NEW n \in Registry, NEW new \in Status \ {"absent"},
         status' = [status EXCEPT ![n] = new]
  PROVE  Registry' = Registry
BY DEF Registry, Registered, TypeOK

-----------------------------------------------------------------------------
LEMMA PassBeginInv ==
  ASSUME IInv, PassBegin
  PROVE  IInv'
<1> DEFINE t == [Nothing("probe") EXCEPT !.todo = {n \in Node : Registered(n)}, !.view = Loaded(Node)]
<1>1. /\ Loaded(Node) \in [Node -> Sight]
      /\ \A n \in Node : Loaded(Node)[n].status # "absent" =>
           n \in Registry /\ Loaded(Node)[n].host \in Host
      /\ \A n \in Node : Registered(n) => Loaded(Node)[n].status # "absent"
  BY LoadedType DEF IInv
<1>2. Nothing("probe") \in Job /\ Nothing("probe").at = "probe"
  BY NothingType DEF Nothing
<1>3. /\ t \in Job /\ t.at = "probe" /\ t.todo = {n \in Node : Registered(n)}
      /\ t.view = Loaded(Node)
  BY <1>1, <1>2 DEF Job
<1> HIDE DEF t
<1>4. Sound(Pass, t, Registry)
  BY <1>1, <1>3 DEF Sound, Saw
<1>5. job' = [job EXCEPT ![Pass] = t] /\ Registry' = Registry /\ Pass \in Session
  BY SameRegistry DEF PassBegin, t, Session
<1>6. JobInv'
  BY <1>4, <1>5, OneJob DEF IInv
<1> QED
  BY <1>6, TablesKept DEF PassBegin, IInv, TypeOK

LEMMA ProbeInv ==
  ASSUME IInv, NEW s \in Session, NEW n \in Node, Probe(s, n)
  PROVE  IInv'
<1> DEFINE v == job[s].view[n]
           a == IF conn[n] # NoHost /\ ~ v.gone THEN conn[n] ELSE v.host
           t == [job[s] EXCEPT !.at = "write", !.facts = net[a],
                   !.op = [kind |-> job[s].op.kind, nodes |-> {n}, value |-> job[s].op.value]]
<1>1. /\ job[s].at = "probe" /\ n \in job[s].todo /\ Sound(s, job[s], Registry)
      /\ job' = [job EXCEPT ![s] = t]
  BY DEF Probe, IInv, JobInv
<1>2. v \in Sight /\ v.host \in Host
  BY <1>1 DEF Sound, Saw, Job
<1>3. a \in Host
  BY <1>2 DEF IInv, TypeOK
<1>4. net[a] \in {"up", "broken", "down"}
  BY <1>3 DEF IInv, TypeOK
<1>5. t \in Job /\ t.view = job[s].view /\ t.todo = job[s].todo /\ t.at = "write" /\ t.op.nodes = {n}
      /\ t.facts # "none"
  <2>1. job[s] \in Job
    BY <1>1 DEF Sound
  <2>2. [kind |-> job[s].op.kind, nodes |-> {n}, value |-> job[s].op.value] \in AnyOp
    BY <2>1 DEF Job, AnyOp
  <2> QED
    BY <1>4, <2>1, <2>2 DEF Job
<1> HIDE DEF t
<1>6. Sound(s, t, Registry)
  BY <1>1, <1>5 DEF Sound, Saw
<1>7. JobInv'
  <2>1. Registry' = Registry
    BY SameRegistry DEF Probe
  <2>2. JobInv /\ job' = [job EXCEPT ![s] = t]
    BY <1>1 DEF IInv
  <2> QED
    BY <1>6, <2>1, <2>2, OneJob
<1>8. conn' \in [Node -> Host \cup {NoHost}]
  BY <1>3 DEF Probe, IInv, TypeOK
<1> QED
  BY <1>7, <1>8, TablesKept DEF Probe

LEMMA RefreshInv ==
  ASSUME IInv, NEW s \in Session, Refresh(s)
  PROVE  IInv'
<1> DEFINE n   == NodeOfCall(s)
           v   == job[s].view[n]
           new == Learned(v.status, job[s].facts)
<1>1. Sound(s, job[s], Registry) /\ job[s] \in Job /\ job[s].at = "write"
  BY DEF Refresh, IInv, JobInv, Sound
<1>2. n \in job[s].todo /\ n \in Node
  BY <1>1 DEF Sound, NodeOfCall, Job
<1>3. v \in Sight /\ v.status \in Status \ {"absent"} /\ (v.gone \/ n \in Registry)
  BY <1>1, <1>2 DEF Sound, Saw, Job, Sight
<1>4. new \in Status \ {"absent"}
  BY <1>3 DEF Learned, Status
<1>5. CASE v.gone
  <2>1. UNCHANGED <<status, host, cluster, clusters, claimed, conn, net, faults>> /\ End(s)
    BY <1>5 DEF Refresh, Fail
  <2>2. JobInv'
    BY <2>1, Ended, SameRegistry DEF IInv
  <2> QED
    BY <2>1, <2>2, TablesKept DEF IInv, TypeOK
<1>6. CASE ~ v.gone
  <2>1. /\ status' = [status EXCEPT ![n] = IF new = v.status THEN @ ELSE new]
        /\ UNCHANGED <<host, cluster, clusters, claimed, conn, net, faults>>
    BY <1>6 DEF Refresh
  <2>2. PICK to \in Status \ {"absent"} : status' = [status EXCEPT ![n] = to]
    <3>1. status[n] \in Status \ {"absent"}
      BY <1>2, <1>3, <1>6 DEF Registry, Registered, IInv, TypeOK
    <3>2. status' = [status EXCEPT ![n] = IF new = v.status THEN status[n] ELSE new]
      BY <2>1
    <3> QED
      BY <1>4, <3>1, <3>2
  <2>3. n \in Registry /\ Registry' = Registry
    BY <1>3, <1>6, <2>2, RegistryKept DEF IInv
  <2>4. JobInv'
    <3>1. CASE End(s)
      BY <2>3, <3>1, Ended DEF IInv
    <3>2. CASE job' = [job EXCEPT ![s].at = "probe", ![s].todo = @ \ {n}]
      <4> DEFINE t == [job[s] EXCEPT !.at = "probe", !.todo = @ \ {n}]
      <4>1. job' = [job EXCEPT ![s] = t]
        BY <3>2
      <4>2. t \in Job /\ t.view = job[s].view /\ t.at = "probe" /\ t.todo \subseteq job[s].todo
        BY <1>1 DEF Job
      <4> HIDE DEF t
      <4>3. Sound(s, t, Registry)
        BY <1>1, <4>2 DEF Sound, Saw
      <4> QED
        BY <2>3, <4>1, <4>3, OneJob DEF IInv
    <3> QED
      BY <1>6, <3>1, <3>2 DEF Refresh
  <2> QED
    BY <2>1, <2>2, <2>3, <2>4, StatusKept
<1> QED
  BY <1>5, <1>6

-----------------------------------------------------------------------------
LEMMA BeginInv ==
  ASSUME IInv, NEW s \in Session, Begin(s)
  PROVE  IInv'
<1>1. PICK op \in Ops :
        \/ Refused(op) /\ End(s)
        \/ /\ ~ Refused(op)
           /\ job' = [job EXCEPT ![s] =
                [at |-> IF op.kind = "probe" THEN "probe" ELSE "commit", op |-> op,
                 todo |-> op.nodes, facts |-> "none", view |-> Loaded(op.nodes)]]
  BY DEF Begin
<1>2. op \in Op /\ op \in AnyOp /\ op.nodes \in SUBSET Node /\ s # Pass
  <2>1. op \in Op /\ s # Pass
    BY InventoryAssumption DEF Begin
  <2> QED
    BY <2>1, OpType
<1>3. CASE End(s)
  <2>1. JobInv'
    BY <1>3, Ended, SameRegistry DEF IInv, Begin
  <2> QED
    BY <2>1, TablesKept DEF Begin, IInv, TypeOK
<1>4. CASE /\ ~ Refused(op)
           /\ job' = [job EXCEPT ![s] =
                [at |-> IF op.kind = "probe" THEN "probe" ELSE "commit", op |-> op,
                 todo |-> op.nodes, facts |-> "none", view |-> Loaded(op.nodes)]]
  <2> DEFINE t == [at |-> IF op.kind = "probe" THEN "probe" ELSE "commit", op |-> op,
                   todo |-> op.nodes, facts |-> "none", view |-> Loaded(op.nodes)]
  <2>1. /\ Loaded(op.nodes) \in [Node -> Sight]
        /\ \A n \in Node : Loaded(op.nodes)[n].status # "absent" =>
             n \in Registry /\ Loaded(op.nodes)[n].host \in Host
        /\ \A n \in op.nodes : Registered(n) => Loaded(op.nodes)[n].status # "absent"
    BY <1>2, LoadedType DEF IInv
  <2>2. op.kind \notin {"create", "create cluster"} =>
          \A n \in op.nodes : Loaded(op.nodes)[n].status # "absent"
    BY <1>4, <2>1 DEF Refused
  <2>3. t \in Job
    BY <1>2, <2>1 DEF Job
  <2>4. Sound(s, t, Registry)
    BY <1>2, <2>1, <2>2, <2>3 DEF Sound, Saw
  <2>5. JobInv'
    BY <1>4, <2>4, OneJob, SameRegistry DEF IInv, Begin
  <2> QED
    BY <2>5, TablesKept DEF Begin, IInv, TypeOK
<1> QED
  BY <1>1, <1>3, <1>4

-----------------------------------------------------------------------------
\* A call that is about to commit has loaded the nodes it names, unless it is
\* there to create something.
LEMMA AtCommit ==
  ASSUME IInv, NEW s \in Session, NEW kinds, Committing(s, kinds)
  PROVE  /\ Sound(s, job[s], Registry) /\ job[s] \in Job /\ job[s].op \in Op /\ s \in Call
         /\ job[s].todo = job[s].op.nodes
         /\ job[s].op.kind \in kinds
         /\ job[s].op.kind \notin {"create", "create cluster"} =>
              \A n \in job[s].op.nodes : Saw(job[s], n)
BY DEF Committing, IInv, JobInv, Sound, Session

OneNodeKinds == {"create", "delete", "drain", "undrain", "probe", "authorize", "update", "readdress"}

LEMMA OneNodeCall ==
  ASSUME IInv, NEW s \in Session, NEW kinds \in SUBSET OneNodeKinds, Committing(s, kinds)
  PROVE  /\ NodeOfCall(s) \in Node /\ job[s].op.nodes = {NodeOfCall(s)}
         /\ job[s].op.kind = "readdress" => job[s].op.value \in Host
         /\ job[s].op.kind = "update" => job[s].op.value \in Status \ {"absent"}
         /\ job[s].view[NodeOfCall(s)] \in Sight
         /\ job[s].op.kind # "create" => /\ Saw(job[s], NodeOfCall(s))
                                         /\ \/ job[s].view[NodeOfCall(s)].gone
                                            \/ NodeOfCall(s) \in Registry
<1>1. job[s].op \in Op /\ job[s].op.kind \in OneNodeKinds /\ job[s] \in Job
  BY AtCommit
<1>2. /\ job[s].op.nodes \in OneNode
      /\ job[s].op.kind = "readdress" => job[s].op.value \in Host
      /\ job[s].op.kind = "update" => job[s].op.value \in Status \ {"absent"}
  BY <1>1 DEF Op, OneNodeKinds
<1>3. PICK n \in Node : job[s].op.nodes = {n}
  BY <1>2 DEF OneNode
<1>4. NodeOfCall(s) = n
  BY <1>3 DEF NodeOfCall
<1>5. job[s].op.kind # "create" => Saw(job[s], n)
  BY <1>1, <1>3, AtCommit DEF OneNodeKinds
<1> QED
  BY <1>1, <1>2, <1>3, <1>4, <1>5, AtCommit DEF Job, Sound

LEMMA CreateInv ==
  ASSUME IInv, NEW s \in Session, Create(s)
  PROVE  IInv'
<1> DEFINE n == NodeOfCall(s)
           row == [status |-> "unknown", host |-> FirstHost[n], cluster |-> NoCluster, gone |-> FALSE]
           t == [job[s] EXCEPT !.at = "probe", !.todo = {n}, !.view[n] = row]
<1>1. Committing(s, {"create"})
  BY DEF Create
<1>2. n \in Node /\ Sound(s, job[s], Registry) /\ job[s] \in Job
  BY <1>1, AtCommit, OneNodeCall DEF OneNodeKinds
<1>3. CASE Registered(n)
  <2>1. End(s) /\ UNCHANGED <<status, host, cluster, clusters, claimed, conn, net, faults>>
    BY <1>3 DEF Create, Fail
  <2>2. JobInv'
    BY <2>1, Ended, SameRegistry DEF IInv
  <2> QED
    BY <2>1, <2>2, TablesKept DEF IInv, TypeOK
<1>4. CASE ~ Registered(n)
  <2>1. /\ status' = [status EXCEPT ![n] = "unknown"] /\ host' = [host EXCEPT ![n] = FirstHost[n]]
        /\ cluster' = [cluster EXCEPT ![n] = NoCluster]
        /\ job' = [job EXCEPT ![s] = t]
        /\ UNCHANGED <<clusters, claimed, conn, net, faults>>
    BY <1>4 DEF Create
  <2>2. Registry' = Registry \cup {n}
    BY <1>2, <2>1 DEF Registry, Registered, IInv, TypeOK
  <2>3. row \in Sight /\ row.status # "absent" /\ row.host \in Host
    BY <1>2, InventoryAssumption DEF Sight, Status
  <2>4. /\ t \in Job /\ t.at = "probe" /\ t.todo = {n}
        /\ t.view = [job[s].view EXCEPT ![n] = row]
    <3>1. [job[s].view EXCEPT ![n] = row] \in [Node -> Sight]
      BY <1>2, <2>3 DEF Job
    <3> QED
      BY <1>2, <3>1 DEF Job
  <2> HIDE DEF t, row
  <2>5. Sound(s, t, Registry')
    BY <1>2, <2>2, <2>3, <2>4 DEF Sound, Saw, Job
  <2>6. JobInv'
    BY <2>1, <2>2, <2>5, OneJob DEF IInv
  <2>7. TypeOK'
    <3>1. status' \in [Node -> Status] /\ host' \in [Node -> Host]
            /\ cluster' \in [Node -> Cluster \cup {NoCluster}]
      BY <1>2, <2>1, InventoryAssumption DEF IInv, TypeOK, Status
    <3> QED
      BY <2>1, <2>6, <3>1, TypedFrom DEF IInv, TypeOK
  <2> QED
    BY <1>2, <2>1, <2>6, <2>7 DEF IInv, TypeOK, ReferencesResolve, Registered
<1> QED
  BY <1>3, <1>4

LEMMA SetInv ==
  ASSUME IInv, NEW s \in Session, Set(s)
  PROVE  IInv'
<1> DEFINE n   == NodeOfCall(s)
           v   == job[s].view[n]
           new == CASE job[s].op.kind = "drain"   -> "draining"
                    [] job[s].op.kind = "undrain" -> "unknown"
                    [] job[s].op.kind = "update"  -> job[s].op.value
           t   == [job[s] EXCEPT !.at = "probe", !.view[n].status = new]
<1>1. Committing(s, {"drain", "undrain", "update"})
  BY DEF Set
<1>2. /\ n \in Node /\ Sound(s, job[s], Registry) /\ job[s] \in Job /\ job[s].op.nodes = {n}
      /\ job[s].todo = {n} /\ v \in Sight /\ Saw(job[s], n) /\ (v.gone \/ n \in Registry)
  <2>1. /\ Sound(s, job[s], Registry) /\ job[s] \in Job /\ job[s].todo = job[s].op.nodes
        /\ job[s].op.kind # "create"
    <3>1. job[s].op.kind \in {"drain", "undrain", "update"}
      BY <1>1 DEF Committing
    <3>2. /\ Sound(s, job[s], Registry) /\ job[s] \in Job /\ job[s].todo = job[s].op.nodes
      BY <1>1, AtCommit
    <3> QED
      BY <3>1, <3>2
  <2>2. {"drain", "undrain", "update"} \in SUBSET OneNodeKinds
    BY DEF OneNodeKinds
  <2> QED
    BY <1>1, <2>1, <2>2, OneNodeCall
<1>3. new \in Status \ {"absent"}
  <2>1. job[s].op.kind = "update" => job[s].op.value \in Status \ {"absent"}
    BY <1>1, OneNodeCall DEF OneNodeKinds
  <2>2. job[s].op.kind \in {"drain", "undrain", "update"}
    BY <1>1 DEF Committing
  <2> QED
    BY <2>1, <2>2 DEF Status, Held
<1>4. CASE new # v.status /\ v.gone
  <2>1. End(s) /\ UNCHANGED <<status, host, cluster, clusters, claimed, conn, net, faults>>
    BY <1>4 DEF Set, Fail
  <2>2. JobInv'
    BY <2>1, Ended, SameRegistry DEF IInv
  <2> QED
    BY <2>1, <2>2, TablesKept DEF IInv, TypeOK
<1>5. CASE ~ (new # v.status /\ v.gone)
  <2>1. /\ status' = [status EXCEPT ![n] = IF new = v.status THEN status[n] ELSE new]
        /\ UNCHANGED <<host, cluster, clusters, claimed, conn, net, faults>>
        /\ End(s) \/ job' = [job EXCEPT ![s] = t]
    BY <1>5 DEF Set
  <2>2. UNCHANGED status \/ (n \in Registry /\ status' = [status EXCEPT ![n] = new])
    <3>1. CASE new = v.status
      BY <2>1, <3>1 DEF IInv, TypeOK
    <3>2. CASE new # v.status
      BY <1>2, <1>5, <2>1, <3>2
    <3> QED
      BY <3>1, <3>2
  <2>3. Registry' = Registry
    BY <1>3, <2>2, RegistryKept, SameRegistry DEF IInv
  <2>4. Sound(s, t, Registry)
    <3>1. /\ t \in Job /\ t.at = "probe" /\ t.todo = {n}
          /\ t.view = [job[s].view EXCEPT ![n] = [v EXCEPT !.status = new]]
      <4>1. [v EXCEPT !.status = new] \in Sight
        BY <1>2, <1>3 DEF Sight
      <4>2. [job[s].view EXCEPT ![n] = [v EXCEPT !.status = new]] \in [Node -> Sight]
        BY <1>2, <4>1 DEF Job
      <4> QED
        BY <1>2, <4>2 DEF Job
    <3>2. /\ [v EXCEPT !.status = new].status = new
          /\ [v EXCEPT !.status = new].host = v.host /\ [v EXCEPT !.status = new].gone = v.gone
      BY <1>2 DEF Sight
    <3>3. \A m \in Node : /\ t.view[m].host = job[s].view[m].host
                          /\ t.view[m].gone = job[s].view[m].gone
                          /\ m # n => t.view[m].status = job[s].view[m].status
                          /\ m = n => t.view[m].status = new
      BY <1>2, <3>1, <3>2 DEF Job
    <3> HIDE DEF t, new, v
    <3> QED
      BY <1>2, <1>3, <3>1, <3>3 DEF Sound, Saw
  <2>5. JobInv'
    BY <2>1, <2>3, <2>4, Ended, OneJob DEF IInv
  <2> QED
    BY <1>3, <2>1, <2>2, <2>5, StatusKept, TablesKept DEF IInv, TypeOK
<1> QED
  BY <1>4, <1>5

LEMMA ReaddressInv ==
  ASSUME IInv, NEW s \in Session, Readdress(s)
  PROVE  IInv'
<1>1. Committing(s, {"readdress"})
  BY DEF Readdress
<1>2. NodeOfCall(s) \in Node /\ job[s].op.value \in Host
  <2>1. {"readdress"} \in SUBSET OneNodeKinds /\ job[s].op.kind = "readdress"
    BY <1>1 DEF OneNodeKinds, Committing
  <2> QED
    BY <1>1, <2>1, OneNodeCall
<1>3. host' \in [Node -> Host]
  BY <1>2 DEF Readdress, IInv, TypeOK
<1>4. JobInv'
  BY Ended, SameRegistry DEF Readdress, IInv
<1>5. TypeOK'
  BY <1>3, <1>4, TypedFrom DEF Readdress, IInv, TypeOK
<1> QED
  BY <1>4, <1>5 DEF Readdress, IInv, ReferencesResolve, Registered

LEMMA AuthorizeInv ==
  ASSUME IInv, NEW s \in Session, Authorize(s)
  PROVE  IInv'
<1> DEFINE t == [job[s] EXCEPT !.at = "probe"]
<1>1. Committing(s, {"authorize"}) /\ Registry' = Registry
  BY SameRegistry DEF Authorize
<1>2. /\ Sound(s, job[s], Registry) /\ job[s] \in Job /\ job[s].todo = job[s].op.nodes
      /\ \A n \in job[s].op.nodes : Saw(job[s], n)
      /\ NodeOfCall(s) \in Node
  <2>1. {"authorize"} \in SUBSET OneNodeKinds /\ job[s].op.kind = "authorize"
    BY <1>1 DEF OneNodeKinds, Committing
  <2>2. NodeOfCall(s) \in Node
    BY <1>1, <2>1, OneNodeCall
  <2> QED
    BY <1>1, <2>1, <2>2, AtCommit
<1>3. t \in Job /\ t.at = "probe" /\ t.todo = job[s].todo /\ t.view = job[s].view
  BY <1>2 DEF Job
<1>4. End(s) \/ job' = [job EXCEPT ![s] = t]
  BY DEF Authorize
<1> HIDE DEF t
<1>5. Sound(s, t, Registry)
  BY <1>2, <1>3 DEF Sound, Saw
<1>6. JobInv'
  BY <1>1, <1>4, <1>5, Ended, OneJob DEF IInv
<1>7. conn' \in [Node -> Host \cup {NoHost}]
  BY <1>2 DEF Authorize, IInv, TypeOK
<1> QED
  BY <1>6, <1>7, TablesKept DEF Authorize

\* A session that has seen the row of a node that is deleted learns that it is
\* gone; nothing else of what it does changes.
LEMMA LosesRow ==
  ASSUME NEW s, NEW j, NEW n \in Node, Sound(s, j, Registry)
  PROVE  LET t == IF j.view[n] = Unloaded THEN j ELSE [j EXCEPT !.view[n].gone = TRUE]
         IN  Sound(s, t, Registry \ {n})
<1> DEFINE row == [j.view[n] EXCEPT !.gone = TRUE]
           u == [j EXCEPT !.view[n].gone = TRUE]
<1>1. j \in Job /\ j.view \in [Node -> Sight] /\ j.view[n] \in Sight
  BY DEF Sound, Job
<1>2. CASE j.view[n] = Unloaded
  <2>1. ~ Saw(j, n)
    BY <1>2, UnloadedType DEF Saw
  <2>2. Sound(s, j, Registry \ {n})
    BY <2>1 DEF Sound
  <2> QED
    BY <1>2, <2>2
<1>3. CASE j.view[n] # Unloaded
  <2>1. row \in Sight /\ row.status = j.view[n].status /\ row.host = j.view[n].host /\ row.gone
    BY <1>1 DEF Sight
  <2>2. [j.view EXCEPT ![n] = row] \in [Node -> Sight]
    BY <1>1, <2>1
  <2>3. /\ u \in Job /\ u.view = [j.view EXCEPT ![n] = row] /\ u.at = j.at /\ u.op = j.op
        /\ u.todo = j.todo /\ u.facts = j.facts
    BY <1>1, <2>2 DEF Job
  <2> HIDE DEF u, row
  <2>4. \A m \in Node : /\ u.view[m].status = j.view[m].status
                        /\ u.view[m].host = j.view[m].host
                        /\ u.view[m].gone = (j.view[m].gone \/ m = n)
    BY <1>1, <2>1, <2>3 DEF Sight
  <2>5. \A m \in Node : Saw(u, m) <=> Saw(j, m)
    BY <2>4 DEF Saw
  <2>6. Sound(s, u, Registry \ {n})
    BY <2>3, <2>4, <2>5, ZenonT(60) DEF Sound, OneNode, Job, AnyOp
  <2> QED
    BY <1>3, <2>6 DEF u
<1> QED
  BY <1>2, <1>3

LEMMA DeleteInv ==
  ASSUME IInv, NEW s \in Session, Delete(s)
  PROVE  IInv'
<1> DEFINE n == NodeOfCall(s)
<1>1. Committing(s, {"delete"}) /\ {"delete"} \in SUBSET OneNodeKinds
  BY DEF Delete, OneNodeKinds
<1>2. n \in Node
  BY <1>1, OneNodeCall
<1>3. CASE job[s].view[n].gone
  <2>1. End(s) /\ UNCHANGED <<status, host, cluster, clusters, claimed, conn, net, faults>>
    BY <1>3 DEF Delete
  <2>2. JobInv'
    BY <2>1, Ended, SameRegistry DEF IInv
  <2> QED
    BY <2>1, <2>2, TablesKept DEF IInv, TypeOK
<1>4. CASE ~ job[s].view[n].gone
  <2> DEFINE left(j) == IF j.view[n] = Unloaded THEN j ELSE [j EXCEPT !.view[n].gone = TRUE]
  <2>1. /\ status' = [status EXCEPT ![n] = "absent"] /\ claimed' = claimed \ {n}
        /\ conn' = [conn EXCEPT ![n] = NoHost] /\ UNCHANGED <<host, cluster, clusters, net, faults>>
        /\ job' = [t \in Session |-> IF t = s THEN Nothing("done") ELSE left(job[t])]
    BY <1>4 DEF Delete
  <2>2. Registry' = Registry \ {n}
    BY <1>2, <2>1 DEF Registry, Registered, IInv, TypeOK
  <2>3. s # Pass
    BY <1>1, AtCommit, InventoryAssumption
  <2>4. \A t \in Session : Sound(t, left(job[t]), Registry')
    BY <1>2, <2>2, LosesRow DEF IInv, JobInv
  <2>5. Sound(s, Nothing("done"), Registry')
    BY <2>3, Resting
  <2> HIDE DEF left
  <2>6. DOMAIN job' = Session /\ \A t \in Session : Sound(t, job'[t], Registry')
    BY <2>1, <2>4, <2>5
  <2>7. JobInv'
    BY <2>6 DEF JobInv, Sound, Saw, Registry, Registered
  <2>8. TypeOK'
    <3>1. status' \in [Node -> Status] /\ claimed' \subseteq Node
            /\ conn' \in [Node -> Host \cup {NoHost}]
      BY <1>2, <2>1 DEF IInv, TypeOK, Status
    <3> QED
      BY <2>1, <2>7, <3>1, TypedFrom DEF IInv, TypeOK
  <2> QED
    BY <1>2, <2>1, <2>7, <2>8 DEF IInv, TypeOK, ReferencesResolve, Registered
<1> QED
  BY <1>3, <1>4

-----------------------------------------------------------------------------
\* The calls on clusters leave the rows of the nodes alone, save their cluster.
LEMMA ClustersInv ==
  ASSUME IInv, NEW s \in Session, End(s), UNCHANGED <<status, host, claimed, conn, net, faults>>,
         cluster' \in [Node -> Cluster \cup {NoCluster}], clusters' \subseteq Cluster,
         \A n \in Registry : cluster'[n] \in clusters' \cup {NoCluster}
  PROVE  IInv'
<1>1. JobInv'
  BY Ended, SameRegistry DEF IInv
<1>2. TypeOK'
  BY <1>1, TypedFrom DEF IInv, TypeOK
<1> QED
  BY <1>1, <1>2 DEF IInv, ReferencesResolve, Registry, Registered

LEMMA AssignType ==
  ASSUME TypeOK, NEW N, NEW c \in Cluster \cup {NoCluster}, Assign(N, c)
  PROVE  /\ cluster' \in [Node -> Cluster \cup {NoCluster}]
         /\ \A n \in Node : cluster'[n] = IF n \in N THEN c ELSE cluster[n]
BY DEF TypeOK, Assign

LEMMA MoveInv ==
  ASSUME IInv, NEW s \in Session, Move(s)
  PROVE  IInv'
<1> DEFINE c == IF job[s].op.kind = "unassign" THEN NoCluster ELSE job[s].op.value
<1>1. /\ End(s) /\ UNCHANGED <<status, host, clusters, claimed, conn, net, faults>>
      /\ \/ c \in clusters \cup {NoCluster} /\ Assign(Moved(s, c), c)
         \/ UNCHANGED cluster
  BY DEF Move
<1> HIDE DEF c
<1>2. CASE c \in clusters \cup {NoCluster} /\ Assign(Moved(s, c), c)
  <2>1. c \in Cluster \cup {NoCluster}
    BY <1>2 DEF IInv, TypeOK
  <2>2. /\ cluster' \in [Node -> Cluster \cup {NoCluster}]
        /\ \A n \in Node : cluster'[n] = c \/ cluster'[n] = cluster[n]
    BY <1>2, <2>1, AssignType DEF IInv
  <2>3. \A n \in Registry : cluster'[n] \in clusters' \cup {NoCluster}
    BY <1>1, <1>2, <2>2 DEF Registry, Registered, IInv, ReferencesResolve
  <2> QED
    BY <1>1, <2>2, <2>3, ClustersInv DEF IInv, TypeOK
<1>3. CASE UNCHANGED cluster
  <2>1. \A n \in Registry : cluster'[n] \in clusters' \cup {NoCluster}
    BY <1>1, <1>3 DEF Registry, Registered, IInv, ReferencesResolve
  <2> QED
    BY <1>1, <1>3, <2>1, ClustersInv DEF IInv, TypeOK
<1> QED
  BY <1>1, <1>2, <1>3

LEMMA ClusterCall ==
  ASSUME IInv, NEW s \in Session,
         NEW kinds \in SUBSET {"move", "create cluster", "delete cluster"}, Committing(s, kinds)
  PROVE  job[s].op.value \in Cluster
<1>1. job[s].op \in Op /\ job[s].op.kind \in {"move", "create cluster", "delete cluster"}
  BY AtCommit
<1> QED
  BY <1>1 DEF Op

LEMMA CreateClusterInv ==
  ASSUME IInv, NEW s \in Session, CreateCluster(s)
  PROVE  IInv'
<1> DEFINE c == job[s].op.value
           N == job[s].op.nodes
<1>1. /\ Committing(s, {"create cluster"})
      /\ {"create cluster"} \in SUBSET {"move", "create cluster", "delete cluster"}
      /\ End(s) /\ UNCHANGED <<status, host, claimed, conn, net, faults>>
      /\ \/ clusters' = clusters \cup {c} /\ Assign(N, c)
         \/ UNCHANGED <<clusters, cluster>>
  BY DEF CreateCluster
<1>2. c \in Cluster
  BY <1>1, ClusterCall
<1> HIDE DEF c, N
<1>3. CASE clusters' = clusters \cup {c} /\ Assign(N, c)
  <2>1. /\ cluster' \in [Node -> Cluster \cup {NoCluster}]
        /\ \A n \in Node : cluster'[n] = c \/ cluster'[n] = cluster[n]
    BY <1>2, <1>3, AssignType DEF IInv
  <2>2. \A n \in Registry : cluster'[n] \in clusters' \cup {NoCluster}
    BY <1>3, <2>1 DEF Registry, Registered, IInv, ReferencesResolve
  <2> QED
    BY <1>1, <1>2, <1>3, <2>1, <2>2, ClustersInv DEF IInv, TypeOK
<1>4. CASE UNCHANGED <<clusters, cluster>>
  <2>1. \A n \in Registry : cluster'[n] \in clusters' \cup {NoCluster}
    BY <1>4 DEF Registry, Registered, IInv, ReferencesResolve
  <2> QED
    BY <1>1, <1>4, <2>1, ClustersInv DEF IInv, TypeOK
<1> QED
  BY <1>1, <1>3, <1>4

LEMMA DeleteClusterInv ==
  ASSUME IInv, NEW s \in Session, DeleteCluster(s)
  PROVE  IInv'
<1> DEFINE c == job[s].op.value
           N == {n \in Node : cluster[n] = c}
<1>1. /\ End(s) /\ UNCHANGED <<status, host, claimed, conn, net, faults>>
      /\ clusters' = clusters \ {c} /\ Assign(N, NoCluster)
  BY DEF DeleteCluster
<1>2. /\ cluster' \in [Node -> Cluster \cup {NoCluster}]
      /\ \A n \in Node : cluster'[n] = IF n \in N THEN NoCluster ELSE cluster[n]
  BY <1>1, AssignType DEF IInv
<1>3. \A n \in Registry : cluster'[n] \in clusters' \cup {NoCluster}
  BY <1>1, <1>2 DEF Registry, Registered, IInv, ReferencesResolve
<1> QED
  BY <1>1, <1>2, <1>3, ClustersInv DEF IInv, TypeOK

-----------------------------------------------------------------------------
\* The steps of others leave every session to what it does.
LEMMA JobsKept ==
  ASSUME JobInv, UNCHANGED <<job, status>>
  PROVE  JobInv'
<1>1. Registry' = Registry /\ job' = job
  BY SameRegistry
<1>2. \A s \in Session : Sound(s, job[s], Registry)
  BY DEF JobInv
<1>3. (\A s \in Session : Sound(s, job[s], Registry))'
  BY <1>1, <1>2
<1> QED
  BY <1>1, <1>3 DEF JobInv

LEMMA ClaimInv ==
  ASSUME IInv, NEW n \in Claimable, Claim(n)
  PROVE  IInv'
<1>1. JobInv'
  BY JobsKept DEF IInv, Claim
<1>2. n \in Node /\ Registered(n) /\ claimed' \subseteq claimed \cup {n}
  BY InventoryAssumption DEF Claim
<1>3. TypeOK'
  BY <1>1, <1>2, TypedFrom DEF Claim, IInv, TypeOK
<1> QED
  BY <1>1, <1>2, <1>3 DEF Claim, IInv, ReferencesResolve, Registered

LEMMA FaultInv ==
  ASSUME IInv, NEW h \in Host, Fault(h)
  PROVE  IInv'
<1>1. JobInv'
  BY JobsKept DEF IInv, Fault
<1>2. net' \in [Host -> {"up", "broken", "down"}]
  BY DEF Fault, IInv, TypeOK
<1>3. faults' \in 0..MaxFaults
  BY InventoryAssumption DEF Fault, IInv, TypeOK
<1>4. TypeOK'
  BY <1>1, <1>2, <1>3, TypedFrom DEF Fault, IInv, TypeOK
<1> QED
  BY <1>1, <1>4 DEF Fault, IInv, ReferencesResolve, Registered

LEMMA CrashInv ==
  ASSUME IInv, Crash
  PROVE  IInv'
<1>1. ASSUME NEW s \in Session
      PROVE  Sound(s, job'[s], Registry)
  <2>1. PICK at \in {"idle", "done"} : job'[s] = Nothing(at) /\ (s = Pass => at = "idle")
    BY DEF Crash
  <2>2. Sound(s, Nothing(at), Registry)
    BY <2>1, Resting
  <2> QED
    BY <2>1, <2>2
<1>2. JobInv'
  <2>1. DOMAIN job' = Session /\ Registry' = Registry
    BY SameRegistry DEF Crash
  <2>2. \A s \in Session : Sound(s, job'[s], Registry')
    BY <1>1, <2>1
  <2> QED
    BY <2>1, <2>2 DEF JobInv, Sound, Saw, Registry, Registered
<1>3. conn' \in [Node -> Host \cup {NoHost}]
  BY DEF Crash
<1> QED
  BY <1>2, <1>3, TablesKept DEF Crash

LEMMA InitInv == Init => IInv
<1> SUFFICES ASSUME Init PROVE IInv
  OBVIOUS
<1>1. \A s \in Session : Sound(s, job[s], Registry)
  BY Resting DEF Init
<1>2. JobInv
  BY <1>1 DEF JobInv, Init
<1>3. TypeOK
  <2>1. status \in [Node -> Status] /\ host \in [Node -> Host]
          /\ cluster \in [Node -> Cluster \cup {NoCluster}] /\ clusters \subseteq Cluster
    BY InventoryAssumption DEF Init, Status
  <2>2. conn \in [Node -> Host \cup {NoHost}] /\ net \in [Host -> {"up", "broken", "down"}]
          /\ claimed \subseteq Node /\ faults \in 0..MaxFaults
    BY InventoryAssumption DEF Init
  <2>3. \A s \in Session : job[s].at = "idle"
    BY DEF Init, Nothing
  <2> QED
    BY <2>1, <2>2, <2>3 DEF TypeOK, Session
<1>4. ReferencesResolve
  BY InventoryAssumption DEF Init, ReferencesResolve, Registered
<1> QED
  BY <1>2, <1>3, <1>4 DEF IInv

LEMMA WorkInv ==
  ASSUME IInv, NEW s \in Session, Work(s)
  PROVE  IInv'
<1>1. CASE Begin(s)
  BY <1>1, BeginInv
<1>2. CASE Create(s)
  BY <1>2, CreateInv
<1>3. CASE Set(s)
  BY <1>3, SetInv
<1>4. CASE Readdress(s)
  BY <1>4, ReaddressInv
<1>5. CASE Authorize(s)
  BY <1>5, AuthorizeInv
<1>6. CASE Delete(s)
  BY <1>6, DeleteInv
<1>7. CASE Move(s)
  BY <1>7, MoveInv
<1>8. CASE CreateCluster(s)
  BY <1>8, CreateClusterInv
<1>9. CASE DeleteCluster(s)
  BY <1>9, DeleteClusterInv
<1>10. CASE Refresh(s)
  BY <1>10, RefreshInv
<1>11. CASE \E n \in Node : Probe(s, n)
  BY <1>11, ProbeInv
<1> QED
  BY <1>1, <1>2, <1>3, <1>4, <1>5, <1>6, <1>7, <1>8, <1>9, <1>10, <1>11 DEF Work

LEMMA NextInv == IInv /\ [Next]_vars => IInv'
<1> SUFFICES ASSUME IInv, [Next]_vars PROVE IInv'
  OBVIOUS
<1>1. CASE PassBegin
  BY <1>1, PassBeginInv
<1>2. CASE \E s \in Session : Work(s)
  BY <1>2, WorkInv
<1>3. CASE \E n \in Claimable : Claim(n)
  BY <1>3, ClaimInv
<1>4. CASE \E h \in Host : Fault(h)
  BY <1>4, FaultInv
<1>5. CASE Crash
  BY <1>5, CrashInv
<1>6. CASE UNCHANGED vars
  <2>1. JobInv'
    BY <1>6, JobsKept DEF IInv, vars
  <2> QED
    BY <1>6, <2>1, TablesKept DEF vars, IInv, TypeOK
<1> QED
  BY <1>1, <1>2, <1>3, <1>4, <1>5, <1>6 DEF Next

\* What every session remembers is sound: the row it has seen is registered, or
\* the session knows that it is gone.
THEOREM Invariance == Spec => []IInv
<1> QED
  BY InitInv, NextInv, PTL DEF Spec

\* The columns of nodes and clusters, the driver's connections and the stages
\* of the sessions keep their types (TypeOK).
THEOREM TypeCorrect == Spec => []TypeOK
<1>1. IInv => TypeOK
  BY DEF IInv
<1> QED
  BY <1>1, Invariance, PTL

\* For any nodes, clusters and calls: a deployment names a registered node, and a
\* registered node a cluster that exists (the foreign keys of delete_node,
\* delete_cluster and _assign).
THEOREM ReferencesSafe == Spec => []ReferencesResolve
<1>1. IInv => ReferencesResolve
  BY DEF IInv
<1> QED
  BY <1>1, Invariance, PTL

-----------------------------------------------------------------------------
\* The cluster that some node was moved to.
Target == cluster'[CHOOSE n \in Node : cluster'[n] # cluster[n]]

LEMMA TargetIs ==
  ASSUME IInv, NEW N, NEW c \in Cluster \cup {NoCluster}, Assign(N, c), cluster' # cluster
  PROVE  Target = c
<1>1. /\ cluster' \in [Node -> Cluster \cup {NoCluster}] /\ cluster \in [Node -> Cluster \cup {NoCluster}]
      /\ \A n \in Node : cluster'[n] = IF n \in N THEN c ELSE cluster[n]
  BY AssignType DEF IInv, TypeOK
<1>2. \E n \in Node : cluster'[n] # cluster[n]
  BY <1>1
<1> DEFINE m == CHOOSE n \in Node : cluster'[n] # cluster[n]
<1>3. m \in Node /\ cluster'[m] # cluster[m]
  BY <1>2
<1> HIDE DEF m
<1>4. cluster'[m] = c
  BY <1>1, <1>3
<1> QED
  BY <1>4 DEF Target, m

\* The step of one call leaves the others where they are.
LEMMA OwnStep ==
  ASSUME IInv, NEW s \in Call, NEW u \in Session, NEW t,
         job' = [job EXCEPT ![u] = t], Committing(s, {"move", "unassign", "create cluster"}),
         job'[s].at = "done"
  PROVE  u = s
<1>1. s \in Session /\ DOMAIN job = Session
  BY DEF Session, IInv, JobInv
<1>2. job[s].at = "commit"
  BY DEF Committing
<1> QED
  BY <1>1, <1>2

\* What a call wrote to the nodes it found elsewhere, when it wrote.
Whole(s) ==
  \A n \in Moved(s, Target) : Registered(n) /\ ~ job[s].view[n].gone /\ cluster'[n] = Target

LEMMA MoveIsWhole ==
  ASSUME IInv, NEW s \in Session, Move(s), cluster' # cluster
  PROVE  Whole(s)
<1> DEFINE c == IF job[s].op.kind = "unassign" THEN NoCluster ELSE job[s].op.value
<1>1. /\ Committing(s, {"move", "unassign"})
      /\ c \in clusters \cup {NoCluster} /\ \A n \in Moved(s, c) : ~ job[s].view[n].gone
      /\ Assign(Moved(s, c), c)
  BY DEF Move
<1> HIDE DEF c
<1>2. c \in Cluster \cup {NoCluster}
  BY <1>1 DEF IInv, TypeOK
<1>3. Target = c
  BY <1>1, <1>2, TargetIs
<1>4. /\ Sound(s, job[s], Registry) /\ job[s].op \in Op /\ job[s].op.kind \in {"move", "unassign"}
      /\ (job[s].op.kind \notin {"create", "create cluster"} =>
             \A n \in job[s].op.nodes : Saw(job[s], n))
  BY <1>1, AtCommit
<1>5. job[s].op.nodes \subseteq Node
  BY <1>4, OpType
<1>6. ASSUME NEW n \in Moved(s, c)
      PROVE  Registered(n) /\ cluster'[n] = c
  <2>1. n \in Node /\ n \in job[s].op.nodes /\ ~ job[s].view[n].gone
    BY <1>1, <1>5, <1>6 DEF Moved
  <2>2. n \in Registry
    BY <1>4, <2>1 DEF Sound
  <2> QED
    BY <1>1, <1>2, <1>6, <2>1, <2>2, AssignType DEF IInv, Registry
<1> QED
  BY <1>1, <1>3, <1>6 DEF Whole

LEMMA CreateClusterIsWhole ==
  ASSUME IInv, NEW s \in Session, CreateCluster(s), cluster' # cluster
  PROVE  Whole(s)
<1> DEFINE c == job[s].op.value
           N == job[s].op.nodes
<1>1. /\ Committing(s, {"create cluster"})
      /\ {"create cluster"} \in SUBSET {"move", "create cluster", "delete cluster"}
      /\ \A n \in N : Saw(job[s], n) /\ ~ job[s].view[n].gone
      /\ Assign(N, c)
  BY DEF CreateCluster, Saw
<1>2. c \in Cluster \cup {NoCluster}
  BY <1>1, ClusterCall
<1>3. Sound(s, job[s], Registry) /\ N \subseteq Node
  <2>1. Sound(s, job[s], Registry) /\ job[s].op \in Op
    BY <1>1, AtCommit
  <2> QED
    BY <2>1, OpType
<1> HIDE DEF c
<1>4. Target = c
  BY <1>1, <1>2, TargetIs
<1>5. ASSUME NEW n \in Moved(s, c)
      PROVE  Registered(n) /\ ~ job[s].view[n].gone /\ cluster'[n] = c
  <2>1. n \in Node /\ n \in N
    BY <1>3, <1>5 DEF Moved
  <2>2. n \in Registry
    BY <1>1, <1>3, <2>1 DEF Sound
  <2>3. TypeOK
    BY DEF IInv
  <2> HIDE DEF N
  <2>4. cluster'[n] = c
    BY <1>1, <1>2, <2>1, <2>3, AssignType
  <2> QED
    BY <1>1, <2>1, <2>2, <2>4 DEF Registry
<1> QED
  BY <1>4, <1>5 DEF Whole

\* Only the call itself goes from its commit to its end with clusters changed.
LEMMA OwnWrite ==
  ASSUME IInv, Next, NEW s \in Call, Committing(s, {"move", "unassign", "create cluster"}),
         job'[s].at = "done", cluster' # cluster
  PROVE  Move(s) \/ CreateCluster(s)
<1>1. PICK u \in Session : Work(u)
  BY DEF Next, PassBegin, Claim, Fault, Crash
<1>2. job[s].op.kind \in {"move", "unassign", "create cluster"}
  BY DEF Committing
<1>3. \/ Create(u) \/ Move(u) \/ CreateCluster(u) \/ DeleteCluster(u)
  BY <1>1 DEF Work, Begin, Set, Readdress, Authorize, Delete, Refresh, Probe
<1>4. \E t : job' = [job EXCEPT ![u] = t]
  <2>1. CASE End(u)
    BY <2>1 DEF End
  <2>2. CASE Create(u) /\ ~ End(u)
    <3> DEFINE n == NodeOfCall(u)
               t == [job[u] EXCEPT !.at = "probe", !.todo = {n},
                       !.view[n] = [status |-> "unknown", host |-> FirstHost[n],
                                    cluster |-> NoCluster, gone |-> FALSE]]
    <3>1. job' = [job EXCEPT ![u] = t]
      BY <2>2 DEF Create, Fail
    <3> QED
      BY <3>1
  <2> QED
    BY <1>3, <2>1, <2>2 DEF Move, CreateCluster, DeleteCluster
<1>5. u = s
  BY <1>4, OwnStep
<1>6. ~ Create(s) /\ ~ DeleteCluster(s)
  BY <1>2 DEF Create, DeleteCluster, Committing
<1> QED
  BY <1>3, <1>5, <1>6

\* move_nodes_in, unassign_nodes and create_cluster move every node they found
\* elsewhere, or none, whatever is deleted while they run.
THEOREM MovesWhole == Spec => MoveAllOrNothing
<1>1. ASSUME IInv, Next, NEW s \in Call,
             Committing(s, {"move", "unassign", "create cluster"}), job'[s].at = "done",
             cluster' # cluster
      PROVE  Whole(s)
  <2>1. s \in Session
    BY DEF Session
  <2> QED
    BY <1>1, <2>1, OwnWrite, MoveIsWhole, CreateClusterIsWhole
<1>2. IInv /\ [Next]_vars =>
        [\A s \in Call :
           Committing(s, {"move", "unassign", "create cluster"}) /\ job'[s].at = "done"
             /\ cluster' # cluster
           => LET c == cluster'[CHOOSE n \in Node : cluster'[n] # cluster[n]] IN
              \A n \in Moved(s, c) : Registered(n) /\ ~ job[s].view[n].gone
                                      /\ cluster'[n] = c]_vars
  <2> SUFFICES ASSUME IInv, Next, NEW s \in Call,
                      Committing(s, {"move", "unassign", "create cluster"}),
                      job'[s].at = "done", cluster' # cluster
               PROVE  LET c == cluster'[CHOOSE n \in Node : cluster'[n] # cluster[n]] IN
                      \A n \in Moved(s, c) : Registered(n) /\ ~ job[s].view[n].gone
                                              /\ cluster'[n] = c
    OBVIOUS
  <2> QED
    BY <1>1 DEF Whole, Target
<1> QED
  BY <1>2, Invariance, PTL DEF Spec, MoveAllOrNothing
-----------------------------------------------------------------------------
\* How a session makes a node that operators had drained available again: in a
\* call for that, or in a refresh whose probe failed, or whose session loaded
\* the node before it was drained, while it was not online.
Lifts(s, n) ==
  \/ Committing(s, {"undrain", "update"}) /\ n \in job[s].op.nodes
  \/ /\ job[s].at = "write" /\ n \in job[s].op.nodes
     /\ \/ job[s].facts = "down"
        \/ job[s].facts = "up" /\ job[s].view[n].status \in {"unknown", "unreachable"}

Lifted(n) == status[n] \in Held /\ status'[n] \notin Held \cup {"absent"}

\* A step of a session that writes one status writes it of the node it names.
LEMMA OneStatus ==
  ASSUME IInv, NEW m \in Node, NEW v, status' = [status EXCEPT ![m] = v], NEW n \in Node, Lifted(n)
  PROVE  n = m /\ status'[n] = v /\ v \notin Held \cup {"absent"}
BY DEF Lifted, IInv, TypeOK

LEMMA RefreshLifts ==
  ASSUME IInv, NEW s \in Session, Refresh(s), NEW n \in Node, Lifted(n)
  PROVE  Lifts(s, n)
<1> DEFINE m   == NodeOfCall(s)
           v   == job[s].view[m]
           new == Learned(v.status, job[s].facts)
<1>1. Sound(s, job[s], Registry) /\ job[s] \in Job /\ job[s].at = "write"
  BY DEF Refresh, IInv, JobInv, Sound
<1>2. m \in Node /\ m \in job[s].op.nodes
  BY <1>1 DEF Sound, NodeOfCall, Job
<1>3. v.status \in Status \ {"absent"}
  BY <1>1, <1>2 DEF Sound, Saw, Job, Sight
<1>4. ~ v.gone /\ status' = [status EXCEPT ![m] = IF new = v.status THEN status[m] ELSE new]
  BY DEF Refresh, Lifted
<1> HIDE DEF m, v, new
<1>5. n = m /\ status'[n] = (IF new = v.status THEN status[m] ELSE new)
  BY <1>2, <1>4, OneStatus
<1>6. new # v.status /\ new \notin Held \cup {"absent"}
  BY <1>5 DEF Lifted
<1>7. \/ job[s].facts = "down"
      \/ job[s].facts = "up" /\ v.status \in {"unknown", "unreachable"}
  BY <1>1, <1>3, <1>6 DEF Learned, Status, Held, Job, Sound, new
<1> QED
  BY <1>1, <1>2, <1>5, <1>7 DEF Lifts, v

LEMMA SetLifts ==
  ASSUME IInv, NEW s \in Session, Set(s), NEW n \in Node, Lifted(n)
  PROVE  Lifts(s, n)
<1> DEFINE m   == NodeOfCall(s)
           v   == job[s].view[m]
           new == CASE job[s].op.kind = "drain"   -> "draining"
                    [] job[s].op.kind = "undrain" -> "unknown"
                    [] job[s].op.kind = "update"  -> job[s].op.value
<1>1. Committing(s, {"drain", "undrain", "update"})
  BY DEF Set
<1>2. m \in Node /\ job[s].op.nodes = {m}
  <2>1. {"drain", "undrain", "update"} \in SUBSET OneNodeKinds
    BY DEF OneNodeKinds
  <2> QED
    BY <1>1, <2>1, OneNodeCall
<1>3. status' = [status EXCEPT ![m] = IF new = v.status THEN status[m] ELSE new]
  BY DEF Set, Lifted
<1> HIDE DEF m, v, new
<1>4. n = m /\ status'[n] = (IF new = v.status THEN status[m] ELSE new)
  BY <1>2, <1>3, OneStatus
<1>5. job[s].op.kind # "drain"
  BY <1>4 DEF Lifted, Held, new
<1> QED
  BY <1>1, <1>2, <1>4, <1>5 DEF Lifts, Committing

LEMMA OthersLiftNothing ==
  ASSUME IInv, NEW n \in Node, Lifted(n), Next
  PROVE  \E s \in Session : Refresh(s) \/ Set(s)
<1>1. PICK s \in Session : Work(s)
  BY DEF Next, PassBegin, Claim, Fault, Crash, Lifted
<1>2. ~ Create(s)
  <2>1. SUFFICES ASSUME Create(s) PROVE FALSE
    OBVIOUS
  <2>2. NodeOfCall(s) \in Node
    BY <2>1, OneNodeCall DEF Create, OneNodeKinds
  <2>3. ~ Registered(NodeOfCall(s)) /\ status' = [status EXCEPT ![NodeOfCall(s)] = "unknown"]
    BY <2>1 DEF Create, Lifted
  <2>4. n = NodeOfCall(s)
    BY <2>2, <2>3, OneStatus
  <2> QED
    BY <2>3, <2>4 DEF Registered, Lifted, Held
<1>3. ~ Delete(s)
  <2>1. SUFFICES ASSUME Delete(s) PROVE FALSE
    OBVIOUS
  <2>2. NodeOfCall(s) \in Node
    BY <2>1, OneNodeCall DEF Delete, OneNodeKinds
  <2>3. status' = [status EXCEPT ![NodeOfCall(s)] = "absent"]
    BY <2>1 DEF Delete, Lifted
  <2> QED
    BY <2>2, <2>3, OneStatus
<1> QED
  BY <1>1, <1>2, <1>3
     DEF Work, Begin, Readdress, Authorize, Move, CreateCluster, DeleteCluster, Probe, Lifted

\* refresh: "Don't override an operator's deliberate drain/maintenance flag". It is
\* overridden in two ways and no other: by a probe that fails, and by a session
\* that loaded the node before the drain, when it was not online.  No other
\* call, restart or pass makes a drained node available.
THEOREM WaysToLoseADrain ==
  Spec => [][\A n \in Node :
               status[n] \in Held /\ status'[n] \notin Held \cup {"absent"} =>
                 \E s \in Session : Lifts(s, n)]_vars
<1>1. IInv /\ [Next]_vars =>
        [\A n \in Node :
           status[n] \in Held /\ status'[n] \notin Held \cup {"absent"} =>
             \E s \in Session : Lifts(s, n)]_vars
  <2> SUFFICES ASSUME IInv, Next, NEW n \in Node, Lifted(n)
               PROVE  \E s \in Session : Lifts(s, n)
    BY DEF Lifted
  <2> QED
    BY OthersLiftNothing, RefreshLifts, SetLifts
<1> QED
  BY <1>1, Invariance, PTL DEF Spec
=============================================================================
