------------------------------ MODULE GpuPool -------------------------------
(***************************************************************************)
(* What the allocator promises, without sessions, snapshots, locks or      *)
(* retries: a pool of cards and ports from which a request is granted all  *)
(* of its rows in one step, once, and only while they fit.                 *)
(***************************************************************************)
CONSTANTS
  Session,      \* who may be granted rows
  Row,          \* the rows that may be granted; row.by is whom a row is for
  Together(_)   \* whether a set of rows can be held at the same time

VARIABLES
  granted,   \* the rows that hold cards and ports now
  served     \* the sessions that were granted their rows

pvars == <<granted, served>>

Init == granted = {} /\ served = {}

\* Session s is granted its rows, all of them or none.
Grant(s) ==
  /\ s \notin served
  /\ granted' # granted /\ granted \subseteq granted' /\ granted' \subseteq Row
  /\ \A d \in granted' \ granted : d.by = s
  /\ Together(granted')
  /\ served' = served \cup {s}

\* A deployment that stops or fails gives its cards and its port back.
Release(d) ==
  /\ d \in granted
  /\ granted' = granted \ {d}
  /\ UNCHANGED served

Next ==
  \/ \E s \in Session : Grant(s)
  \/ \E d \in granted : Release(d)

Spec == Init /\ [][Next]_pvars
=============================================================================
