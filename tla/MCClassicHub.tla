---------------------------- MODULE MCClassicHub ----------------------------
(***************************************************************************)
(* ClassicHub for TLC: the local adb server first, then a paired host.     *)
(***************************************************************************)
EXTENDS ClassicHub

CONSTANTS local, remote, k1

LocalThenRemote == <<local, remote>>
=============================================================================
