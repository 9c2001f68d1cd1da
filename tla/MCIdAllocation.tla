--------------------------- MODULE MCIdAllocation ---------------------------
(* The main thread and the uevent thread *)
EXTENDS IdAllocation

CONSTANTS main, uevent, nobody

MCDeviceThreads == {main, uevent}
=============================================================================
