----------------------------- MODULE MCMediaSocket -----------------------------
(* Two viewers of one socket, opened twice: model values for its consumers. *)
EXTENDS MediaSocket

CONSTANTS c1, c2
===============================================================================
