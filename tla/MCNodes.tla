------------------------------- MODULE MCNodes --------------------------------
(***************************************************************************)
(* Two nodes that are there: one may be given another address, the other   *)
(* may be deleted, registered again and claimed.  One cluster is there and *)
(* one may be created.  The operators' calls are those whose interleavings *)
(* differ.                                                                 *)
(***************************************************************************)
EXTENDS NodeInventory, TLC

CONSTANTS a, b, g1, g2, h1, h2, c1, c2

McFirstHost == a :> h1 @@ b :> h1
McGrouped == a :> NoCluster @@ b :> NoCluster

Named(kind, N, value) == [kind |-> kind, nodes |-> N, value |-> value]

McOps ==
  {Named("create", {b}, "none"), Named("delete", {b}, "none"),
   Named("drain", {a}, "none"), Named("undrain", {a}, "none"),
   Named("authorize", {a}, "none"), Named("update", {a}, "maintenance"),
   Named("readdress", {a}, h2), Named("move", {a, b}, g1), Named("unassign", {a, b}, "none"),
   Named("create cluster", {a, b}, g2), Named("delete cluster", {}, g1)}

\* The calls that touch the status of the node that is there.
McDrainOps == {Named("drain", {a}, "none"), Named("probe", {a}, "none")}
=============================================================================
