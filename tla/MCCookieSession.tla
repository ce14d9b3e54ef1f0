---------------------------- MODULE MCCookieSession ----------------------------
(* An instance of SessionSockets: a request, an upload and a socket. *)
EXTENDS SessionSockets

CONSTANTS get, upload, socket
===============================================================================
