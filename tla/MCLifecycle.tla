---------------------------- MODULE MCLifecycle -----------------------------
(* One deployment: its launch, its stop, the reconciler and the operators     *)
(* already interleave four sessions over one row.                             *)
EXTENDS Lifecycle, TLC

CONSTANTS d1
=============================================================================
