-------------------------- MODULE MCServiceStartup --------------------------
(* Values of the constants of ServiceStartup for TLC. *)
EXTENDS ServiceStartup

CONSTANTS p1, p2
=============================================================================
