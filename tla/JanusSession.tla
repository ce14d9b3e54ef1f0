------------------------------ MODULE JanusSession ------------------------------
(***************************************************************************)
(* What the signalling of WebRTCSession promises, with no messages under way  *)
(* or reader in it.  Tasks make calls to Janus, in turns of a connection.  A  *)
(* call goes out only while it can be answered; its answer is its own, not    *)
(* that of another turn, whatever that was about; and when nothing can be     *)
(* answered any more, every call under way fails at once.                    *)
(*                                                                           *)
(* Every call but the first needs the session that one opened.  It is asked   *)
(* to be destroyed at most once, and is forgotten only after that, unless      *)
(* there is nobody left to ask.                                              *)
(***************************************************************************)
EXTENDS Naturals

CONSTANTS Tasks,
          Subjects,  \* what may be asked for, "create" and "destroy" among it
          Replies    \* what Janus says to it

VARIABLES call,      \* what each task has asked, and how it was answered
          turns,     \* how many calls were made on this connection
          served,    \* answers are handed out
          reached,   \* Janus can be sent something
          session    \* "none", "known", or "bid" farewell: asked to be destroyed

vars == <<call, turns, served, reached, session>>

Idle == [turn |-> 0, asks |-> "nothing", answer |-> "none"]
Asked(turn, what) == [turn |-> turn, asks |-> what, answer |-> "none"]
Waits(t) == call[t] # Idle /\ call[t].answer = "none"
-------------------------------------------------------------------------------
Init == /\ call = [t \in Tasks |-> Idle]
        /\ turns = 0
        /\ ~served /\ ~reached
        /\ session = "none"

\* A connection is opened, and a session asked for; nobody else has a call.
Connect(t) ==
    /\ ~served /\ session = "none"
    /\ \A other \in Tasks : other # t => call[other] = Idle
    /\ turns' = 1
    /\ call' = [call EXCEPT ![t] = Asked(1, "create")]
    /\ served' = TRUE /\ reached' = TRUE
    /\ UNCHANGED session

\* The next turn: a call that was under way is given up.
Turn(t, what) ==
    /\ turns' = turns + 1
    /\ call' = [call EXCEPT ![t] = Asked(turns', what)]

\* A call, about a session that is there.
Ask(t, what) ==
    /\ served /\ reached /\ session # "none"
    /\ what \in Subjects \ {"create"}
    /\ what = "destroy" => session = "known"
    /\ session' = IF what = "destroy" THEN "bid" ELSE session
    /\ UNCHANGED <<served, reached>>
    /\ Turn(t, what)

Answer(t, reply) ==
    /\ served /\ Waits(t)
    /\ UNCHANGED <<turns, served, reached, session>>
    /\ call' = [call EXCEPT ![t].answer = reply]

\* The session is opened: the next call follows, if it can.
Learn(t) ==
    /\ call[t].asks = "create" /\ call[t].answer = "ok" /\ session = "none"
    /\ \/ /\ served /\ reached
          /\ \E what \in Subjects \ {"create", "destroy"} : Turn(t, what)
       \/ call' = [call EXCEPT ![t] = Idle] /\ UNCHANGED turns
    /\ session' = "known"
    /\ UNCHANGED <<served, reached>>

\* A call is over for its task: answered, timed out or cancelled.
Return(t) ==
    /\ call[t] # Idle
    /\ UNCHANGED <<turns, served, reached, session>>
    /\ call' = [call EXCEPT ![t] = Idle]

\* The session is forgotten, with the calls of those who kept it.
Part ==
    /\ session = "bid" \/ (session = "known" /\ ~(served /\ reached))
    /\ session' = "none" /\ UNCHANGED <<turns, served, reached>>
    /\ \E among \in SUBSET Tasks :
         call' = [t \in Tasks |-> IF t \in among THEN Idle ELSE call[t]]

\* Nothing can be sent, though what has come may still be handed out.
Lose ==
    /\ reached' = FALSE
    /\ UNCHANGED <<call, turns, served, session>>

\* Nothing is handed out any more: whoever waits is told.
Stop ==
    /\ served
    /\ served' = FALSE
    /\ call' = [t \in Tasks |-> IF Waits(t) THEN [call[t] EXCEPT !.answer = "failed"]
                                            ELSE call[t]]
    /\ UNCHANGED <<turns, reached, session>>

\* Something happens that a task with a call knows nothing of.
Elsewhere == UNCHANGED <<turns, served, reached, session>> /\ UNCHANGED call

Next == \/ Elsewhere \/ Lose
        \/ \E t \in Tasks : Return(t)
        \/ Stop \/ Part
        \/ \E t \in Tasks : \/ Connect(t) \/ Learn(t)
                            \/ \E reply \in Replies : Answer(t, reply)
                            \/ \E what \in Subjects : Ask(t, what)

Spec == Init /\ [][Next]_vars
===============================================================================
