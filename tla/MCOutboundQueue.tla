--------------------------- MODULE MCOutboundQueue ---------------------------
(***************************************************************************)
(* Small instances of OutboundQueue: the rows and the cycle length are     *)
(* bounded by the .cfg files, the fault sets are named here.               *)
(***************************************************************************)
EXTENDS OutboundQueue

NoFaults == {}
Disconnects == {"disconnect"}
AllFaults == {"disconnect", "db", "crash"}
=============================================================================
