--------------------------- MODULE MCDeviceRouting ---------------------------
(***************************************************************************)
(* DeviceRouting for TLC.  The local backend is not the first of the       *)
(* configuration.  Some lists hold a serial that looks like one the merge  *)
(* makes, the last resort of the merge included, or the same serial twice. *)
(***************************************************************************)
EXTENDS DeviceRouting

Decimal(n) == ToString(n)

LabThenLocal == <<"lab", "local", "den">>

Dev(s, st) == [serial |-> s, state |-> st]
x == <<"x">>
y == <<"y">>
labx == <<"lab", "x">>
localx2 == <<"local", "x", "2">>

SmallLists == {<<>>, <<Dev(x, "device")>>, <<Dev(labx, "device")>>, <<Dev(localx2, "device")>>,
               <<Dev(x, "device"), Dev(x, "offline")>>,
               <<Dev(y, "device"), Dev(x, "offline")>>}
=============================================================================
