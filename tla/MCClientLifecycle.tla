--------------------------- MODULE MCClientLifecycle ---------------------------
(* Three tasks with one client: one for the block, one to close, one to use it. *)
EXTENDS ClientLifecycle, TLC

CONSTANTS t1, t2, t3

TaskSymmetry == Permutations(Tasks)
===============================================================================
