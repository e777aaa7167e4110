------------------------------ MODULE Capacity ------------------------------
(***************************************************************************)
(* The GPU ledger: what the deployments that count as alive hold of a      *)
(* card's memory and of a node's ports (services/capacity.py and           *)
(* allocate_port of services/deployments.py).                              *)
(*                                                                         *)
(* A deployment row is a record of the fields the ledger reads.  Every     *)
(* operator takes the set of rows whose status is one of ACTIVE_STATUSES,  *)
(* so a row stops counting by leaving the set.  Memory is in units of the  *)
(* model's choice; a unit stands for a megabyte.                           *)
(***************************************************************************)
EXTENDS Integers, FiniteSets

CONSTANTS
  Gpu,          \* the cards of the fleet
  Node,         \* the machines
  NodeOf,       \* [Gpu -> Node]: the machine a card is in
  Total,        \* [Gpu -> 0..MaxMb]: memory_total_mb of a card
  MaxMb,        \* the largest card of the fleet
  RESERVE_MB,   \* headroom kept free on every card
  Port,         \* vllm_port_range_start .. vllm_port_range_end
  Session       \* the database sessions that may write a deployment row

ASSUME FleetAssumption ==
  /\ NodeOf \in [Gpu -> Node]
  /\ MaxMb \in Nat
  /\ Total \in [Gpu -> 0..MaxMb]
  /\ RESERVE_MB \in Nat
  /\ Port \subseteq Nat

\* The columns of a deployment that the ledger reads.  mb is
\* reserved_mb_per_gpu, by the session that wrote the row.
Row == [by : Session, node : Node, gpus : SUBSET Gpu, mb : 0..MaxMb, port : Port]

-----------------------------------------------------------------------------
\* What one row holds of card g: a row with no recorded reservation is read
\* as holding the whole card.
Share(d, g) == IF d.mb = 0 THEN Total[g] ELSE d.mb

Tenants(rows, g) == {d \in rows : g \in d.gpus}

\* The units of card g that are spoken for, each labelled with its holder, so
\* that the sum over the tenants is the size of a set.
Units(rows, g) ==
  {u \in rows \X (1..MaxMb) : g \in u[1].gpus /\ u[2] <= Share(u[1], g)}

\* reserved_mb: index -> memory claimed by deployments alive or coming up.
Claimed(rows, g) == Cardinality(Units(rows, g))

\* available_mb: what a new model could still ask for on card g, given the
\* usage the node last reported.
Available(rows, used, g) ==
  LET claimed == Claimed(rows, g)
      inUse   == IF used[g] > claimed THEN used[g] ELSE claimed
      left    == Total[g] - inUse - RESERVE_MB
  IN  IF left > 0 THEN left ELSE 0

\* The ports of node n that active rows hold, and allocate_port: the lowest
\* port of the range that none of them holds.
TakenPorts(rows, n) == {d.port : d \in {e \in rows : e.node = n}}

IsNextPort(rows, n, p) ==
  /\ p \in Port \ TakenPorts(rows, n)
  /\ \A q \in Port \ TakenPorts(rows, n) : p <= q

-----------------------------------------------------------------------------
\* What the ledger promises of the rows that are active together: no card is
\* claimed beyond its memory less the headroom, and no two of them were handed
\* one port of a machine.
CardFits(rows, g) == Claimed(rows, g) > 0 => Claimed(rows, g) + RESERVE_MB <= Total[g]

Fits(rows) == \A g \in Gpu : CardFits(rows, g)

PortsDistinct(rows) ==
  \A d, e \in rows : d # e /\ d.node = e.node => d.port # e.port
=============================================================================
