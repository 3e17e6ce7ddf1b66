------------------------------ MODULE MCWakeLoop ------------------------------
(***************************************************************************)
(* WakeLoop with interchangeable preview workers: they are not told apart, *)
(* and the run that uses the symmetry checks safety only.                  *)
(***************************************************************************)
EXTENDS WakeLoop, TLC

Interchangeable == Permutations(Workers)
=============================================================================
