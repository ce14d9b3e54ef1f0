------------------------------ MODULE MCTrackPump ------------------------------
(* Two viewers of one kind of track, in a session entered twice. *)
EXTENDS TrackPump

CONSTANTS c1, c2
===============================================================================
