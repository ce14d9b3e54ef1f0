--------------------------- MODULE MCWebRTCSignalling ---------------------------
(* Instances of WebRTCSignalling. *)
EXTENDS WebRTCSignalling

CONSTANT c1
===============================================================================
