---------------------------- MODULE ClientLifecycle ----------------------------
(***************************************************************************)
(* The life of a PiKVM client (src/aiopikvm/_client.py): entered, closed, and *)
(* meanwhile used by any task for requests and for streamed responses.  What  *)
(* _ensure_session() does is in CookieSession; here it is an await.           *)
(***************************************************************************)
EXTENDS Integers, FiniteSets

CONSTANT Tasks

VARIABLES
    borrowed,  \* self._external_client: http_client was given
    cookie,    \* self._auth is "cookie"
    client,    \* self._client: "none", or an httpx client that is "open" or "closed"
    entered,   \* self._entered
    closed,    \* self._closed
    call,      \* what each task awaits: nothing ("idle"), "session", the answer to what it
               \* "sent", closing a response it is "dropping", in the block of a response it
               \* is "reading" or "leaving", or the httpx client it is "closing"
    stream,    \* the call of a task is stream(), not request()
    attempt,   \* and its first or second attempt
    again,     \* a response is dropped for being refused, and another attempt follows
    held,      \* how many responses its stacks hold open
    (* History: the tasks in an `async with` block of the client; that aclose()  *)
    (* was called otherwise; the tasks that met an exception which is no         *)
    (* PiKVMError.                                                              *)
    inside, explicit, foreign

flavour == <<borrowed, cookie>>
life == <<client, entered, closed>>
calls == <<call, stream, attempt, again, held>>
history == <<inside, explicit, foreign>>
vars == <<flavour, life, calls, history>>

Init ==
    /\ borrowed \in BOOLEAN /\ cookie \in BOOLEAN
    /\ client = IF borrowed THEN "open" ELSE "none"
    /\ entered = FALSE /\ closed = FALSE
    /\ call = [t \in Tasks |-> "idle"]
    /\ stream = [t \in Tasks |-> FALSE]
    /\ attempt = [t \in Tasks |-> 1]
    /\ again = [t \in Tasks |-> FALSE]
    /\ held = [t \in Tasks |-> 0]
    /\ inside = {} /\ explicit = FALSE /\ foreign = {}

Becomes(t, what) == call' = [call EXCEPT ![t] = what]
-------------------------------------------------------------------------------
(* Opening and closing.                                                       *)

\* A mutated form of Enter: it may be entered again.
EnterTwice(t) ==
    /\ call[t] = "idle" /\ t \notin inside
    /\ ~closed
    /\ client' = IF client = "none" THEN "open" ELSE client
    /\ entered' = TRUE
    /\ inside' = inside \cup {t}
    /\ UNCHANGED <<flavour, closed, calls, explicit, foreign>>

\* __aenter__(), unless ConfigurationError is raised.
Enter(t) ==
    /\ call[t] = "idle" /\ t \notin inside
    /\ ~closed /\ ~entered
    /\ client' = IF client = "none" THEN "open" ELSE client
    /\ entered' = TRUE
    /\ inside' = inside \cup {t}
    /\ UNCHANGED <<flavour, closed, calls, explicit, foreign>>

LetGo == client' = "none" /\ entered' = FALSE /\ closed' = TRUE

\* aclose(), at the end of the block or called otherwise.  An httpx client is closed
\* to everyone from the start, and its connections are awaited.
CloseStarts(t) ==
    /\ call[t] = "idle"
    /\ \/ ~borrowed /\ client = "open" /\ client' = "closed"
          /\ UNCHANGED <<entered, closed>> /\ Becomes(t, "closing")
       \/ (borrowed \/ client # "open") /\ LetGo /\ UNCHANGED call
    /\ inside' = inside \ {t}
    /\ explicit' = (explicit \/ t \notin inside)
    /\ UNCHANGED <<flavour, stream, attempt, again, held, foreign>>

CloseEnds(t) ==
    /\ call[t] = "closing"
    /\ Becomes(t, "idle")
    /\ LetGo
    /\ UNCHANGED <<flavour, stream, attempt, again, held, history>>

CloseCancelled(t) ==
    /\ call[t] = "closing"
    /\ Becomes(t, "idle")
    /\ UNCHANGED <<flavour, life, stream, attempt, again, held, history>>
-------------------------------------------------------------------------------
(* request() and stream().                                                    *)

\* One attempt: _ensure_client() raises PiKVMError, or the request goes to httpx,
\* which raises RuntimeError when it has been closed.
Attempt(t) ==
    /\ Becomes(t, IF client = "open" THEN "sent" ELSE "idle")
    /\ foreign' = IF client = "closed" THEN foreign \cup {t} ELSE foreign

Begin(t) ==
    /\ call[t] = "idle"
    /\ \E kind \in BOOLEAN : stream' = [stream EXCEPT ![t] = kind]
    /\ attempt' = [attempt EXCEPT ![t] = 1]
    /\ \/ cookie /\ Becomes(t, "session") /\ UNCHANGED foreign
       \/ ~cookie /\ Attempt(t)
    /\ UNCHANGED <<flavour, life, again, held, inside, explicit>>

\* _ensure_session() returns, or raises; a login in it is a request too.
SessionEnsured(t) ==
    /\ call[t] = "session"
    /\ \/ Attempt(t)
       \/ Becomes(t, "idle") /\ UNCHANGED foreign
    /\ UNCHANGED <<flavour, life, stream, attempt, again, held, inside, explicit>>

\* _send(): the answer is read whole, and its status judged.
Responded(t) ==
    /\ call[t] = "sent" /\ ~stream[t]
    /\ \/ Becomes(t, "idle") /\ UNCHANGED attempt
       \/ /\ cookie /\ attempt[t] = 1
          /\ Becomes(t, "session")
          /\ attempt' = [attempt EXCEPT ![t] = 2]
    /\ UNCHANGED <<flavour, life, stream, again, held, history>>

\* _open_stream(): httpx raises; or there is a response, and the caller's block runs,
\* or the response is refused or another error, which its body is read for.
Opened(t) ==
    /\ call[t] = "sent" /\ stream[t]
    /\ \/ Becomes(t, "idle") /\ UNCHANGED <<again, held>>
       \/ /\ held' = [held EXCEPT ![t] = @ + 1]
          /\ \/ Becomes(t, "reading") /\ UNCHANGED again
             \/ /\ Becomes(t, "dropping")
                /\ again' \in {[again EXCEPT ![t] = FALSE],
                               [again EXCEPT ![t] = cookie /\ attempt[t] = 1]}
    /\ UNCHANGED <<flavour, life, stream, attempt, history>>

\* A mutated form of Dropped: only the response that is yielded is closed.
DroppedOpen(t) ==
    /\ call[t] = "dropping"
    /\ \/ Becomes(t, "idle") /\ UNCHANGED attempt
       \/ again[t] /\ Becomes(t, "session") /\ attempt' = [attempt EXCEPT ![t] = 2]
    /\ UNCHANGED <<flavour, life, stream, again, held, history>>

\* The stack of a failed attempt is closed.  Its body could not be read, the task was
\* cancelled, or the status is raised; or it was refused, and there is another attempt.
Dropped(t) ==
    /\ call[t] = "dropping"
    /\ held' = [held EXCEPT ![t] = @ - 1]
    /\ \/ Becomes(t, "idle") /\ UNCHANGED attempt
       \/ again[t] /\ Becomes(t, "session") /\ attempt' = [attempt EXCEPT ![t] = 2]
    /\ UNCHANGED <<flavour, life, stream, again, history>>

\* The block of a stream ends, whichever way.
Leave(t) ==
    /\ call[t] = "reading"
    /\ Becomes(t, "leaving")
    /\ UNCHANGED <<flavour, life, stream, attempt, again, held, history>>

Left(t) ==
    /\ call[t] = "leaving"
    /\ Becomes(t, "idle")
    /\ held' = [held EXCEPT ![t] = @ - 1]
    /\ UNCHANGED <<flavour, life, stream, attempt, again, history>>
-------------------------------------------------------------------------------
Next == \E t \in Tasks :
    \/ Enter(t) \/ CloseStarts(t) \/ CloseEnds(t) \/ CloseCancelled(t)
    \/ Begin(t) \/ SessionEnsured(t) \/ Responded(t) \/ Opened(t) \/ Dropped(t)
    \/ Leave(t) \/ Left(t)

Spec == Init /\ [][Next]_vars
-------------------------------------------------------------------------------
TypeOK ==
    /\ borrowed \in BOOLEAN /\ cookie \in BOOLEAN
    /\ client \in {"none", "open"} \cup (IF borrowed THEN {} ELSE {"closed"})
    /\ entered \in BOOLEAN /\ closed \in BOOLEAN
    /\ closed => client = "none" /\ ~entered
    /\ entered => client # "none"
    /\ call \in [Tasks -> {"idle", "session", "sent", "dropping", "reading", "leaving",
                           "closing"}]
    /\ stream \in [Tasks -> BOOLEAN] /\ again \in [Tasks -> BOOLEAN]
    /\ attempt \in [Tasks -> 1..2] /\ held \in [Tasks -> Nat]
    /\ inside \subseteq Tasks /\ explicit \in BOOLEAN /\ foreign \subseteq Tasks

(* stream(), _open_stream(): a response is open only while it is judged, read  *)
(* or closed; "an attempt that is about to be made again must not hold a socket *)
(* open meanwhile", and no exception leaves one behind.                        *)
OneResponse ==
    \A t \in Tasks :
        held[t] = IF call[t] \in {"dropping", "reading", "leaving"} THEN 1 ELSE 0

(* __aenter__() refuses a second block, which "would close the connection the   *)
(* outer one is still using": nobody's block loses the HTTP client to the end   *)
(* of another's.                                                               *)
BlockKeepsClient == inside # {} /\ ~explicit => client = "open"

(* _httpx_errors_translated(): "whatever httpx raises out of it comes back as a *)
(* PiKVMError".                                                                *)
ErrorsAreOurs == foreign = {}
===============================================================================
