----------------------------- MODULE MCEventSocket -----------------------------
(* Instances of EventSocket. *)
EXTENDS EventSocket

CONSTANTS p1, p2
===============================================================================
