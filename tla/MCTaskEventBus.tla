--------------------------- MODULE MCTaskEventBus ---------------------------
(***************************************************************************)
(* Instances of TaskEventBus for TLC.                                      *)
(***************************************************************************)
EXTENDS TaskEventBus
=============================================================================
