--------------------------- MODULE MCTaskScheduler ---------------------------
(***************************************************************************)
(* Small instances of TaskScheduler: the sets the .cfg files choose from.  *)
(***************************************************************************)
EXTENDS TaskScheduler

NoFaults == {}
CrashOnly == {"crash"}
AllFaults == {"disconnect", "db", "crash"}
EveryCall == {"create", "edit", "trigger", "send"}
NoSend == {"create", "edit", "trigger"}
CreateOnly == {"create"}
OneDay == {1}
OneOrTwoDays == {1, 2}
=============================================================================
