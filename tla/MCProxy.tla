------------------------------- MODULE MCProxy --------------------------------
(* One deployment, which an operator may stop, and one entry of                *)
(* somebody else's.                                                            *)
EXTENDS Proxy, TLC

CONSTANTS d1, hosted
=============================================================================
