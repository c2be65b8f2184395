--------------------------- MODULE MCScheduledTasks ---------------------------
(* Instances of ScheduledTasks for TLC; the bounds are in the cfg files. *)
EXTENDS ScheduledTasks
================================================================================
