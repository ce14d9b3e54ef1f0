------------------------------ MODULE EventSocket ------------------------------
(***************************************************************************)
(* The tasks of PiKVMWebSocket (src/aiopikvm/_ws.py): the one that holds the *)
(* `async with` block, the reader it starts and stops, one that iterates     *)
(* events(), and any that call ping() or a send.  What the events say is in  *)
(* EventBuffer; here the buffer is how many there are.                       *)
(*                                                                           *)
(* asyncio runs a task until it awaits something that is not ready, so an    *)
(* action is what a task does from one such point to the next.               *)
(***************************************************************************)
EXTENDS Integers, Sequences

CONSTANTS Pingers,       \* tasks that call ping()
          Binary,        \* self._binary: a pong is a binary frame, not an event
          PendingLimit,  \* _PENDING_LIMIT
          InboxLimit,    \* bound: frames received and not read
          MaxFrames,     \* bound: events and junk the server sends per connection
          MaxPings,      \* bound: calls of ping() per connection
          MaxOpened      \* bound: connections

ASSUME SocketAssumption ==
    /\ Binary \in BOOLEAN
    /\ PendingLimit \in Nat \ {0}
    /\ InboxLimit \in Nat /\ MaxFrames \in Nat /\ MaxPings \in Nat /\ MaxOpened \in Nat

VARIABLES
    main,        \* where the block's task is: "outside", "body", "stopping" the
                 \* reader, or "closing" the connection
    raised,      \* exc_type is not None
    connection,  \* self._connection is not None
    link,        \* the connection: "open", "closed" cleanly, or "broken"
    inbox,       \* frames received and not read
    reader,      \* self._reader: "none", a task not yet "new"ly run, in "recv", "done"
    stopped,     \* the reader _stop_reader() cancelled and awaits, likewise
    failure,     \* self._failure: "none", "lost", "unconnected"
    reported,    \* self._reported
    pending,     \* len(self._pending)
    consumer,    \* the events() generator: "none", "yielded", "waiting" for the
                 \* wakeup, "woken", "ended" or "failed"
    waiters,     \* the pingers in self._pong_waiters
    ping,        \* what each pinger is doing
    (* What the server has been asked and not answered; counters the bounds    *)
    (* are on; and a history variable: some caller was told that the           *)
    (* connection is gone.                                                     *)
    asked, frames, pings, opened, told

readers == <<reader, stopped>>
answers == <<waiters, ping>>
report == <<failure, reported, told>>
server == <<asked, frames, pings>>
vars == <<main, raised, connection, link, inbox, readers, report, pending, consumer,
          answers, server, opened>>

\* What a pong waiter has been given, when it is not the number of a ping.
Unanswered == 0
Failed == -1

Idle == [task |-> "idle", number |-> 0, answer |-> Unanswered]

Event == [kind |-> "event", of |-> 0]
Junk == [kind |-> "junk", of |-> 0]   \* malformed, or an operation not known
Pong(n) == [kind |-> "pong", of |-> n]   \* the answer to the n-th ping

Running(task) == task \in {"new", "recv"}   \* it has been created and is not done()
-------------------------------------------------------------------------------
Init ==
    /\ main = "outside" /\ raised = FALSE
    /\ connection = FALSE /\ link = "closed" /\ inbox = <<>>
    /\ reader = "none" /\ stopped = "none"
    /\ failure = "none" /\ reported = FALSE /\ told = FALSE
    /\ pending = 0 /\ consumer = "none"
    /\ waiters = {} /\ ping = [p \in Pingers |-> Idle]
    /\ asked = <<>> /\ frames = 0 /\ pings = 0 /\ opened = 0
-------------------------------------------------------------------------------
(* The far end, and the network.                                              *)

Arrive(frame) == link = "open" /\ Len(inbox) < InboxLimit /\ inbox' = Append(inbox, frame)

ServerSends ==
    /\ frames < MaxFrames
    /\ \E frame \in {Event, Junk} : Arrive(frame)
    /\ frames' = frames + 1
    /\ UNCHANGED <<main, raised, connection, link, readers, report, pending, consumer,
                   answers, asked, pings, opened>>

ServerAnswers ==
    /\ asked # <<>>
    /\ Arrive(Pong(Head(asked)))
    /\ asked' = Tail(asked)
    /\ UNCHANGED <<main, raised, connection, link, readers, report, pending, consumer,
                   answers, frames, pings, opened>>

\* The server closes cleanly, or the connection is lost.
LinkEnds ==
    /\ link = "open"
    /\ link' \in {"closed", "broken"}
    /\ UNCHANGED <<main, raised, connection, inbox, readers, report, pending, consumer,
                   answers, server, opened>>
-------------------------------------------------------------------------------
\* _start_reader(): unless one is running.
StartReader == reader' = IF Running(reader) THEN reader ELSE "new"

\* self._wakeup.set().  The flag itself is only looked at by the wait() that comes
\* right after clear(), so what matters is who is waiting.
Wakeup == consumer' = IF consumer = "waiting" THEN "woken" ELSE consumer

\* Every waiter is given the answer, and none is left.
Answer(answer) ==
    /\ ping' = [p \in Pingers |-> IF p \in waiters THEN [ping[p] EXCEPT !.answer = answer]
                                  ELSE ping[p]]
    /\ waiters' = {}

\* _fail_pongs()
FailPongs == Answer(Failed)

\* _resolve_pongs(): the pong says nothing of which ping it answers.
ResolvePongs(n) == Answer(n)

\* _buffer(), which drops the oldest event when there is no room.
Buffer(frame) ==
    pending' = IF (frame.kind = "event" \/ (frame.kind = "pong" /\ ~Binary))
                  /\ pending < PendingLimit
               THEN pending + 1 ELSE pending
-------------------------------------------------------------------------------
(* _drain(), the reader.                                                      *)

\* Mutated forms of ReaderFinishes: nobody is woken, or no ping is failed.
FinishesAsleep == FailPongs /\ UNCHANGED consumer
FinishesPinged == Wakeup /\ UNCHANGED answers

\* The finally clause.
ReaderFinishes == Wakeup /\ FailPongs

\* Its first step.  One that was stopped before has had its last by now: both
\* were scheduled, in that order.
ReaderStarts ==
    /\ reader = "new" /\ ~Running(stopped)
    /\ \/ /\ connection
          /\ reader' = "recv"
          /\ UNCHANGED <<failure, consumer, answers>>
       \/ /\ ~connection
          /\ reader' = "done"
          /\ failure' = "unconnected"
          /\ ReaderFinishes
    /\ UNCHANGED <<main, raised, connection, link, inbox, stopped, reported, told, pending,
                   server, opened>>

\* A mutated form of ReaderReads: the reader waits for room in the buffer.
ReadsWhenRoom ==
    /\ reader = "recv" /\ inbox # <<>> /\ connection
    /\ pending < PendingLimit
    /\ inbox' = Tail(inbox)
    /\ Buffer(Head(inbox))
    /\ Wakeup
    /\ \/ Head(inbox).kind = "pong" /\ ResolvePongs(Head(inbox).of)
       \/ Head(inbox).kind # "pong" /\ UNCHANGED answers
    /\ UNCHANGED <<main, raised, connection, link, readers, report, server, opened>>

\* A frame is read and routed, and the next one is awaited.
ReaderReads ==
    /\ reader = "recv" /\ inbox # <<>> /\ connection
    /\ inbox' = Tail(inbox)
    /\ Buffer(Head(inbox))
    /\ Wakeup
    /\ \/ Head(inbox).kind = "pong" /\ ResolvePongs(Head(inbox).of)
       \/ Head(inbox).kind # "pong" /\ UNCHANGED answers
    /\ UNCHANGED <<main, raised, connection, link, readers, report, server, opened>>

\* The same when the block has let go of the connection: there is nothing to await.
ReaderReadsLast ==
    /\ reader = "recv" /\ inbox # <<>> /\ ~connection
    /\ inbox' = Tail(inbox)
    /\ Buffer(Head(inbox))
    /\ Answer(IF Head(inbox).kind = "pong" THEN Head(inbox).of ELSE Failed)
    /\ Wakeup
    /\ reader' = "done"
    /\ failure' = "unconnected"
    /\ UNCHANGED <<main, raised, connection, link, stopped, reported, told, server, opened>>

\* A mutated form of ReaderEnds: every close is taken for a clean one.
EndsQuietly ==
    /\ reader = "recv" /\ inbox = <<>> /\ link # "open"
    /\ reader' = "done"
    /\ ReaderFinishes
    /\ UNCHANGED <<main, raised, connection, link, inbox, stopped, report, pending, server,
                   opened>>

\* Everything received has been read and nothing more will come.
ReaderEnds ==
    /\ reader = "recv" /\ inbox = <<>> /\ link # "open"
    /\ reader' = "done"
    /\ failure' = IF link = "broken" THEN "lost" ELSE failure
    /\ ReaderFinishes
    /\ UNCHANGED <<main, raised, connection, link, inbox, stopped, reported, told, pending,
                   server, opened>>

\* A mutated form of ReaderCancelled: the reader is awaited, and never cancelled.
AwaitedOnly ==
    /\ Running(stopped) /\ link # "open"
    /\ stopped' = "done"
    /\ ReaderFinishes
    /\ UNCHANGED <<main, raised, connection, link, inbox, reader, report, pending, server,
                   opened>>

\* Cancelled by _stop_reader().  A task that never ran does not run its finally.
ReaderCancelled ==
    /\ Running(stopped)
    /\ stopped' = "done"
    /\ \/ stopped = "recv" /\ ReaderFinishes
       \/ stopped = "new" /\ UNCHANGED <<consumer, answers>>
    /\ UNCHANGED <<main, raised, connection, link, inbox, reader, report, pending, server,
                   opened>>
-------------------------------------------------------------------------------
(* events()                                                                   *)

\* Take an event, wait for one, or come to the end, given what the reader is now.
Collect(current) ==
    \/ /\ pending > 0
       /\ pending' = pending - 1
       /\ consumer' = "yielded"
       /\ UNCHANGED <<reported, told>>
    \/ /\ pending = 0 /\ Running(current)
       /\ consumer' = "waiting"
       /\ UNCHANGED <<pending, reported, told>>
    \/ /\ pending = 0 /\ ~Running(current) /\ failure # "none"
       /\ consumer' = "failed"
       /\ reported' = TRUE /\ told' = TRUE
       /\ UNCHANGED pending
    \/ /\ pending = 0 /\ ~Running(current) /\ failure = "none"
       /\ consumer' = "ended"
       /\ UNCHANGED <<pending, reported, told>>

\* The generator is asked for its first event.
Iterate ==
    /\ consumer \in {"none", "ended", "failed"}
    /\ connection
    /\ StartReader
    /\ Collect(reader')
    /\ UNCHANGED <<main, raised, connection, link, inbox, stopped, failure, answers, server,
                   opened>>

\* It is asked for the next one, or has been woken up.
Resume(from) ==
    /\ consumer = from
    /\ Collect(reader)
    /\ UNCHANGED <<main, raised, connection, link, inbox, readers, failure, answers, server,
                   opened>>

\* The loop around it is left, or the task it is in is cancelled.
Leave ==
    /\ consumer \in {"yielded", "waiting", "woken"}
    /\ consumer' = "none"
    /\ UNCHANGED <<main, raised, connection, link, inbox, readers, report, pending, answers,
                   server, opened>>
-------------------------------------------------------------------------------
(* ping(), and the other senders                                              *)

\* A caller is told that the connection is gone, by ping() or by a send.
TellCaller == reported' = TRUE /\ told' = TRUE

\* ping() goes as far as its send.  When the connection is gone the send raises;
\* when the transport is full it waits.
PingStarts(p) ==
    /\ ping[p].task = "idle"
    /\ connection
    /\ pings < MaxPings
    /\ pings' = pings + 1
    /\ StartReader
    /\ \/ /\ link = "open"
          /\ \E task \in {"sending", "waiting"} :
               ping' = [ping EXCEPT ![p] =
                          [task |-> task, number |-> pings', answer |-> Unanswered]]
          /\ waiters' = waiters \cup {p}
          /\ asked' = Append(asked, pings')
          /\ UNCHANGED <<reported, told>>
       \/ /\ link # "open"
          /\ TellCaller
          /\ UNCHANGED <<answers, asked>>
    /\ UNCHANGED <<main, raised, connection, link, inbox, stopped, failure, pending, consumer,
                   frames, opened>>

\* The send that waited is over.
PingSent(p) ==
    /\ ping[p].task = "sending"
    /\ \/ /\ link = "open"
          /\ ping' = [ping EXCEPT ![p].task = "waiting"]
          /\ UNCHANGED <<reported, told, waiters>>
       \/ /\ link # "open"
          /\ ping' = [ping EXCEPT ![p] = Idle]
          /\ waiters' = waiters \ {p}
          /\ TellCaller
    /\ UNCHANGED <<main, raised, connection, link, inbox, readers, failure, pending, consumer,
                   server, opened>>

\* The waiter has been given a pong, or an exception.
PingReturns(p) ==
    /\ ping[p].task = "waiting" /\ ping[p].answer # Unanswered
    /\ ping' = [ping EXCEPT ![p] = Idle]
    /\ \/ ping[p].answer = Failed /\ TellCaller
       \/ ping[p].answer # Failed /\ UNCHANGED <<reported, told>>
    /\ UNCHANGED <<main, raised, connection, link, inbox, readers, failure, pending, consumer,
                   waiters, server, opened>>

\* The timeout passes, before the answer or in the same turn of the loop.
PingTimesOut(p) ==
    /\ ping[p].task = "waiting"
    /\ ping' = [ping EXCEPT ![p] = Idle]
    /\ waiters' = waiters \ {p}
    /\ UNCHANGED <<main, raised, connection, link, inbox, readers, report, pending, consumer,
                   server, opened>>

\* _send_frame() on a connection that is gone; on an open one nothing here changes.
SendFails ==
    /\ connection /\ link # "open"
    /\ TellCaller
    /\ UNCHANGED <<main, raised, connection, link, inbox, readers, failure, pending, consumer,
                   answers, server, opened>>
-------------------------------------------------------------------------------
(* The block.                                                                 *)

\* Opening takes round trips, in which every task that is ready runs.  (A reader
\* started during a close() that was then cancelled could outlive it; entering
\* again before it ends is left out.)
NothingReady ==
    /\ ~Running(reader)
    /\ consumer # "woken"
    /\ \A p \in Pingers : ping[p].task = "idle"

\* A mutated form of Enter: it does not reset who was told.
EnterKeepsReported ==
    /\ main = "outside" /\ opened < MaxOpened /\ NothingReady
    /\ opened' = opened + 1
    /\ main' = "body" /\ connection' = TRUE /\ link' = "open" /\ inbox' = <<>>
    /\ pending' = 0
    /\ failure' = "none"
    /\ reader' = "recv"
    /\ asked' = <<>> /\ frames' = 0 /\ pings' = 0 /\ told' = FALSE
    /\ UNCHANGED <<raised, stopped, reported, consumer, answers>>

\* __aenter__(), once connected.  The reader's first step is before that of any
\* task the block starts or wakes, so it is taken here.
Enter ==
    /\ main = "outside" /\ opened < MaxOpened /\ NothingReady
    /\ opened' = opened + 1
    /\ main' = "body" /\ connection' = TRUE /\ link' = "open" /\ inbox' = <<>>
    /\ pending' = 0
    /\ failure' = "none" /\ reported' = FALSE
    /\ reader' = "recv"
    /\ asked' = <<>> /\ frames' = 0 /\ pings' = 0 /\ told' = FALSE
    /\ UNCHANGED <<raised, stopped, consumer, answers>>

\* __aexit__() up to its first await: a running reader is cancelled and awaited,
\* any other has nothing to wait for.
Exit ==
    /\ main = "body"
    /\ raised' \in BOOLEAN
    /\ reader' = "none"
    /\ \/ /\ Running(reader)
          /\ stopped' = reader
          /\ main' = "stopping"
          /\ UNCHANGED answers
       \/ /\ ~Running(reader)
          /\ FailPongs
          /\ main' = "closing"
          /\ UNCHANGED stopped
    /\ UNCHANGED <<connection, link, inbox, report, pending, consumer, server, opened>>

\* The rest of _stop_reader(), once the reader is done.
ReaderStopped ==
    /\ main = "stopping" /\ stopped = "done"
    /\ stopped' = "none"
    /\ FailPongs
    /\ main' = "closing"
    /\ UNCHANGED <<raised, connection, link, inbox, reader, report, pending, consumer, server,
                   opened>>

\* The closing handshake, which the far end may answer or not.
Close ==
    /\ main = "closing" /\ link = "open"
    /\ link' \in {"closed", "broken"}
    /\ UNCHANGED <<main, raised, connection, inbox, readers, report, pending, consumer, answers,
                   server, opened>>

\* The rest of __aexit__(): raise what nobody has been told.
Raises == ~raised /\ failure # "none" /\ ~reported

Closed ==
    /\ main = "closing" /\ link # "open"
    /\ main' = "outside" /\ connection' = FALSE
    /\ reported' = (reported \/ Raises)
    /\ told' = (told \/ Raises)
    /\ UNCHANGED <<raised, link, inbox, readers, failure, pending, consumer, answers, server,
                   opened>>

\* __aexit__() is cancelled while it waits for the close.
CloseCancelled ==
    /\ main = "closing"
    /\ main' = "outside" /\ connection' = FALSE
    /\ UNCHANGED <<raised, link, inbox, readers, report, pending, consumer, answers, server,
                   opened>>
-------------------------------------------------------------------------------
Reader == \/ ReaderStarts \/ ReaderReads \/ ReaderReadsLast \/ ReaderEnds \/ ReaderCancelled
Pinger(p) == PingStarts(p) \/ PingSent(p) \/ PingReturns(p) \/ PingTimesOut(p)
Block == \/ Enter \/ Exit \/ ReaderStopped \/ Close \/ Closed \/ CloseCancelled

Next == \/ ServerSends \/ ServerAnswers \/ LinkEnds
        \/ Reader
        \/ Iterate \/ Resume("yielded") \/ Resume("woken") \/ Leave
        \/ \E p \in Pingers : Pinger(p)
        \/ SendFails
        \/ Block

(* The event loop runs every task that is ready, and close() gives up after      *)
(* close_timeout.  Nothing makes the server speak, the block end or a caller call. *)
Fairness ==
    /\ WF_vars(Reader)
    /\ WF_vars(Resume("woken"))
    /\ \A p \in Pingers : WF_vars(PingSent(p)) /\ WF_vars(PingReturns(p))
    /\ WF_vars(ReaderStopped) /\ WF_vars(Close) /\ WF_vars(Closed)

Spec == Init /\ [][Next]_vars
FairSpec == Spec /\ Fairness
-------------------------------------------------------------------------------
Tasks == {"none", "new", "recv", "done"}
Frames == {Event, Junk} \cup [kind : {"pong"}, of : Nat \ {0}]

TypeOK ==
    /\ main \in {"outside", "body", "stopping", "closing"} /\ raised \in BOOLEAN
    /\ connection = (main # "outside")
    /\ link \in {"open", "closed", "broken"} /\ inbox \in Seq(Frames)
    /\ reader \in Tasks /\ stopped \in Tasks
    /\ (stopped # "none") = (main = "stopping")
    /\ failure \in {"none", "lost", "unconnected"} /\ reported \in BOOLEAN /\ told \in BOOLEAN
    /\ pending \in 0..PendingLimit
    /\ consumer \in {"none", "yielded", "waiting", "woken", "ended", "failed"}
    /\ waiters \subseteq Pingers
    /\ ping \in [Pingers -> [task : {"idle", "sending", "waiting"}, number : Nat,
                             answer : Nat \cup {Failed}]]
    /\ asked \in Seq(Nat \ {0}) /\ frames \in Nat /\ pings \in Nat /\ opened \in Nat

(* _start_reader() in events(), and the wakeups of _drain(): while the block is   *)
(* open nobody waits for an event that is already there, or that no task reads    *)
(* the socket for.                                                                *)
NobodyWaitsInVain ==
    main = "body" /\ consumer = "waiting" => pending = 0 /\ Running(reader)

(* ping(), _fail_pongs() in _drain() and in _stop_reader(): a ping without an     *)
(* answer has a task that will give it one, across the exit too.                  *)
PingsHaveReader ==
    \A p \in Pingers : ping[p].task # "idle" /\ ping[p].answer = Unanswered =>
        p \in waiters /\ (Running(reader) \/ main = "stopping")

(* __aenter__() resets what the last connection left: a failure is this           *)
(* connection's own, and was seen on it.                                          *)
FailureIsOwn == main = "body" /\ failure # "none" => link = "broken" /\ failure = "lost"

(* __aexit__(): a failure the reader has seen is raised if the block raised        *)
(* nothing, exactly when no caller has been told of one.                          *)
SeenFailureIsTold ==
    [][Closed /\ ~raised /\ failure # "none" => told' /\ (told # Raises)]_vars

(* events(), "a silent end of iteration is never a lost connection", for as long   *)
(* as the block is open.                                                           *)
SilentEndIsClean ==
    [][consumer' = "ended" /\ consumer # "ended" /\ main = "body" => link = "closed"]_vars

(* __aenter__(), "keeps the transport drained": whoever iterates, every frame that *)
(* arrives is read unless the block ends first.                                    *)
AlwaysDrained ==
    main = "body" /\ inbox # <<>> /\ Running(reader) ~> main # "body" \/ inbox = <<>>

(* __aexit__(): it comes to an end, and so does any ping whose connection is gone,  *)
(* without its timeout.                                                             *)
ExitEnds == main = "stopping" ~> main = "outside"
PingsEnd == \A p \in Pingers : ping[p].task # "idle" /\ link # "open" ~> ping[p].task = "idle"

\* A ping as its caller sees it, who is not told which ping a pong answers; and the
\* iteration, which has an event or will look for one.
CallOf(p) ==
    IF ping[p].task = "idle" THEN "none"
    ELSE IF ping[p].answer = Unanswered THEN "waiting"
    ELSE IF ping[p].answer = Failed THEN "failed" ELSE "pong"
Calls == [p \in Pingers |-> CallOf(p)]
Iteration == IF consumer \in {"yielded", "woken"} THEN "busy" ELSE consumer

Channel == INSTANCE EventChannel WITH
    block <- main,
    served <- Running(reader),
    call <- Calls,
    consumer <- Iteration

(* ping(), events(), __aexit__(): whatever the reader, the buffer and the exit do     *)
(* between themselves, and whoever is interrupted, the tasks that use the socket see  *)
(* no ping or iteration that begins to wait on nobody, or is left to when the         *)
(* connection ends, and no end without an exception after a failure.                  *)
ChannelSpec == Channel!Spec

(* events(), while the block is open: a consumer is not left waiting on a           *)
(* connection that has ended.                                                       *)
IterationEndsInBody ==
    main = "body" /\ consumer = "waiting" /\ link # "open" ~> main # "body" \/ consumer # "waiting"

(* events(), "The iteration ends when either side closes the connection cleanly".   *)
IterationEnds == consumer = "waiting" /\ link = "closed" ~> consumer # "waiting"

(* ping(), "The round trip is measured from the frame going out to the pong being   *)
(* read": the pong a ping is given is not the answer to an earlier one.             *)
(* It does not hold: no run checks it.                                              *)
PongIsOwn == \A p \in Pingers : ping[p].answer > 0 => ping[p].answer >= ping[p].number
===============================================================================
