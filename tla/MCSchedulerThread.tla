--------------------------- MODULE MCSchedulerThread ---------------------------
(***************************************************************************)
(* SchedulerThread for TLC.  The processes are interchangeable: every one  *)
(* may have a user, and no action or property tells one from another.      *)
(***************************************************************************)
EXTENDS SchedulerThread, TLC

Interchangeable == Permutations(Procs)
=============================================================================
