---------------------------- MODULE MCTaskThread ----------------------------
(* Instances of TaskThread for TLC. *)
EXTENDS TaskThread
=============================================================================
