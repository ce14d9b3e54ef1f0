------------------------------ MODULE EventChannel ------------------------------
(***************************************************************************)
(* What a PiKVMWebSocket promises to the tasks that use it, with no frames,   *)
(* buffer or reader task in it.  A ping is answered, fails or times out, and  *)
(* waits only while somebody is there to answer it.  Whoever iterates over    *)
(* the events is let go when the connection ends, without an exception only   *)
(* if nothing went wrong.  A failure nobody was told of is raised by the end   *)
(* of the block, unless that is interrupted.                                 *)
(***************************************************************************)
CONSTANT Pingers   \* tasks that call ping()

VARIABLES block,     \* "outside", "body", "stopping" or "closing"
          raised,    \* the block raised an exception of its own
          link,      \* the connection: "open", "closed" or "broken"
          served,    \* what the server sends is taken in
          failure,   \* what is known to have gone wrong: "none", "lost", "unconnected"
          told,      \* somebody was told that the connection is gone
          call,      \* each ping: "none", "waiting", given a "pong", or "failed"
          consumer   \* the iteration: "none", "busy", "waiting", "ended" or "failed"

vars == <<block, raised, link, served, failure, told, call, consumer>>

Init == /\ block = "outside" /\ raised = FALSE /\ link = "closed" /\ served = FALSE
        /\ failure = "none" /\ told = FALSE
        /\ call = [p \in Pingers |-> "none"] /\ consumer = "none"
-------------------------------------------------------------------------------
\* Every ping that waits is given the same, and the iteration goes on.
Give(given) == call' = [p \in Pingers |-> IF call[p] = "waiting" THEN given ELSE call[p]]
Wake == consumer' = IF consumer = "waiting" THEN "busy" ELSE consumer

\* Something is taken in: an event, or a pong.
Read ==
    /\ served
    /\ Wake
    /\ Give("pong") \/ UNCHANGED call
    /\ UNCHANGED <<block, raised, link, served, failure, told>>

\* Nothing more will be: the connection has ended, or the block has let go of it.
Notice ==
    /\ served /\ served' = FALSE
    /\ Wake
    /\ \/ /\ link # "open"
          /\ failure' = IF link = "broken" THEN "lost" ELSE failure
          /\ Give("failed")
       \/ /\ block = "outside"
          /\ failure' = "unconnected"
          /\ Give("failed") \/ Give("pong")
    /\ UNCHANGED <<block, raised, link, told>>

LinkGoes ==
    /\ link = "open" /\ link' \in {"closed", "broken"}
    /\ UNCHANGED <<block, raised, served, failure, told, call, consumer>>
-------------------------------------------------------------------------------
\* The iteration begins; it goes on, to wait only while something may come; it is left.
Iterate ==
    /\ block # "outside"
    /\ consumer \in {"none", "ended", "failed"} /\ consumer' \in {"busy", "waiting"}
    /\ served' = TRUE
    /\ UNCHANGED <<block, raised, link, failure, told, call>>

GoOn ==
    /\ consumer = "busy"
    /\ \/ consumer' = "busy" /\ UNCHANGED told
       \/ served /\ consumer' = "waiting" /\ UNCHANGED told
       \/ ~served /\ failure # "none" /\ consumer' = "failed" /\ told' = TRUE
       \/ ~served /\ failure = "none" /\ consumer' = "ended" /\ UNCHANGED told
    /\ UNCHANGED <<block, raised, link, served, failure, call>>

Drop ==
    /\ consumer \in {"busy", "waiting"} /\ consumer' = "none"
    /\ UNCHANGED <<block, raised, link, served, failure, told, call>>

\* A ping goes out on an open connection; on any other its caller is told.
Ping(p) ==
    /\ block # "outside" /\ call[p] = "none"
    /\ served' = TRUE
    /\ \/ link = "open" /\ call' = [call EXCEPT ![p] = "waiting"] /\ UNCHANGED told
       \/ link # "open" /\ UNCHANGED call /\ told' = TRUE
    /\ UNCHANGED <<block, raised, link, failure, consumer>>

\* It is over: answered or timed out; or failed, or stuck in its send when the
\* connection went, and its caller is told.
Return(p) ==
    /\ call[p] # "none" /\ call' = [call EXCEPT ![p] = "none"]
    /\ \/ UNCHANGED told
       \/ (call[p] = "failed" \/ link # "open") /\ told' = TRUE
    /\ UNCHANGED <<block, raised, link, served, failure, consumer>>

\* Another message is sent, or cannot be.
Tell ==
    /\ block # "outside" /\ link # "open"
    /\ told' = TRUE
    /\ UNCHANGED <<block, raised, link, served, failure, call, consumer>>
-------------------------------------------------------------------------------
\* A new connection starts afresh, with no ping of the one before.
Enter ==
    /\ block = "outside" /\ ~served
    /\ \A p \in Pingers : call[p] = "none"
    /\ block' = "body" /\ link' = "open" /\ served' = TRUE
    /\ failure' = "none" /\ told' = FALSE
    /\ UNCHANGED <<raised, call, consumer>>

\* The block is over, and what it leaves is no longer taken in.
Exit ==
    /\ block = "body" /\ raised' \in BOOLEAN
    /\ block' = IF served THEN "stopping" ELSE "closing"
    /\ served' = FALSE
    /\ UNCHANGED <<link, failure, told, call, consumer>>

\* Every ping under way is given up, before the connection is closed.
GiveUp ==
    /\ block = "stopping" /\ block' \in {"stopping", "closing"}
    /\ Give("failed")
    /\ Wake \/ UNCHANGED consumer
    /\ UNCHANGED <<raised, link, served, failure, told>>

\* The connection is closed, and a failure raised unless there is no need to; or
\* the wait for the close is given up.
Leave ==
    /\ block = "closing" /\ block' = "outside"
    /\ \/ link # "open" /\ told' = (told \/ (~raised /\ failure # "none"))
       \/ UNCHANGED told
    /\ UNCHANGED <<raised, link, served, failure, call, consumer>>

Next == \/ Read \/ Notice \/ LinkGoes
        \/ Iterate \/ GoOn \/ Drop
        \/ \E p \in Pingers : Ping(p) \/ Return(p)
        \/ Tell
        \/ Enter \/ Exit \/ GiveUp \/ Leave

Spec == Init /\ [][Next]_vars
===============================================================================
