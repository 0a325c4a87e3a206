------------------------------ MODULE MCLocks ------------------------------
(***************************************************************************)
(* Locks for TLC: three threads, so that one can be between its load and   *)
(* its compare-and-swap while another enters and a third leaves.           *)
(***************************************************************************)
EXTENDS Locks, TLC

ThreadSymmetry == Permutations(Threads)
=============================================================================
