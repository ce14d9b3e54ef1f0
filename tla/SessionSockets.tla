----------------------------- MODULE SessionSockets -----------------------------
(***************************************************************************)
(* CookieSession with the sockets of the same client: ws(), media_ws() and    *)
(* webrtc() of src/aiopikvm/_client.py take the session token of the moment   *)
(* they are called, and every upgrade of the socket carries that one.  No     *)
(* login is made for an upgrade, and none after one that was refused.         *)
(***************************************************************************)
EXTENDS CookieSession

CONSTANT Sockets   \* the socket objects that may be built

VARIABLES
    carries,   \* the token each socket object was given, NoToken until it is built
    upgrade    \* its connection: "none", "open", or "refused" by kvmd

sockets == <<carries, upgrade>>

SocketsInit ==
    /\ Init
    /\ carries = [s \in Sockets |-> NoToken]
    /\ upgrade = [s \in Sockets |-> "none"]
-------------------------------------------------------------------------------
\* ws() and the others, which refuse while the jar holds no token.
Build(s) ==
    /\ carries[s] = NoToken
    /\ jar # NoToken
    /\ carries' = [carries EXCEPT ![s] = jar]
    /\ UNCHANGED <<vars, upgrade>>

\* `async with`, once or again: kvmd looks the token up as it does for a request.
Open(s) ==
    /\ carries[s] # NoToken /\ upgrade[s] # "open"
    /\ upgrade' = [upgrade EXCEPT ![s] = IF carries[s] \in valid THEN "open" ELSE "refused"]
    /\ UNCHANGED <<vars, carries>>

\* The block ends.
Close(s) ==
    /\ upgrade[s] = "open"
    /\ upgrade' = [upgrade EXCEPT ![s] = "none"]
    /\ UNCHANGED <<vars, carries>>

SocketsNext ==
    \/ Next /\ UNCHANGED sockets
    \/ \E s \in Sockets : Build(s) \/ Open(s) \/ Close(s)

SocketsSpec == SocketsInit /\ [][SocketsNext]_<<vars, sockets>> /\ Fairness
-------------------------------------------------------------------------------
SocketsTypeOK ==
    /\ TypeOK
    /\ carries \in [Sockets -> 0..issued]
    /\ upgrade \in [Sockets -> {"none", "open", "refused"}]

(* _ensure_session(), "Drop the refused token before asking for a new one": a        *)
(* socket built while other tasks renew the session is not given the token they have *)
(* given up, unless a logout put it back.                                            *)
NoSocketOnDeadToken ==
    [][\A s \in Sockets : carries'[s] # carries[s] /\ logouts = 0
            => renewals[carries'[s]] = 0]_<<vars, sockets>>
===============================================================================
