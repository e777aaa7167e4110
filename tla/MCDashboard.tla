----------------------------- MODULE MCDashboard ------------------------------
(* One tab, with fetches that may overtake each other and a queue that one     *)
(* message fills.                                                              *)
EXTENDS Dashboard, TLC

CONSTANTS c1
=============================================================================
