------------------------------ MODULE MediaSocket ------------------------------
(***************************************************************************)
(* The tasks of MediaWebSocket (src/aiopikvm/_media_ws.py): the one that      *)
(* holds the `async with` block, and those that iterate frames().  There is   *)
(* no reader of its own: websockets buffers what arrives, and whoever awaits  *)
(* recv() takes it.                                                          *)
(*                                                                           *)
(* An action is what a task does from one await to the next; each recv() is   *)
(* one, though it does not suspend while there is something to take.          *)
(***************************************************************************)
EXTENDS Integers, Sequences

CONSTANTS Consumers,    \* tasks that iterate frames()
          MaxQueue,     \* _max_queue
          MaxMessages,  \* bound: messages the daemon sends per connection
          MaxOpened     \* bound: connections

ASSUME MediaAssumption ==
    MaxQueue \in Nat \ {0} /\ MaxMessages \in Nat /\ MaxOpened \in Nat

VARIABLES
    pure,        \* self._video is not None
    main,        \* where the block's task is: "outside", "announcing" (_read_media()),
                 \* "body", or "closing" the connection, after the block or without one
    connection,  \* self._connection is not None
    media,       \* self._media: the number of the connection it came on, 0 for None
    link,        \* the connection: "open", "closed" cleanly, or "broken"
    queue,       \* messages received and not taken
    consumer,    \* each frames(): "none", "yielded", "waiting" in recv(), "ended" or
                 \* "failed"
    (* What the daemon has sent on this connection, whether it was asked to      *)
    (* start, and the number of the connection; and history variables: the      *)
    (* frames yielded, and that a close was cancelled.                          *)
    sent, started, opened, got, torn

daemon == <<sent, started, opened>>
vars == <<pure, main, connection, media, link, queue, consumer, daemon, got, torn>>

\* A message is text or binary.  Binary, its first byte is that of a frame, or not:
\* a pong, an operation not known, or nothing at all.
Text == {"media", "unreadable", "other text"}
Binary == {"frame op", "other op"}
Message == [kind : Text \cup Binary, number : 1..MaxMessages]

\* What the daemon meant as a frame.
Meant(message) == message.kind = "frame op" \/ (pure /\ message.kind \in Binary)
-------------------------------------------------------------------------------
Init ==
    /\ pure \in BOOLEAN
    /\ main = "outside" /\ connection = FALSE /\ media = 0
    /\ link = "closed" /\ queue = <<>>
    /\ consumer = [c \in Consumers |-> "none"]
    /\ sent = <<>> /\ started = FALSE /\ opened = 0 /\ got = <<>> /\ torn = FALSE
-------------------------------------------------------------------------------
(* The daemon and the network.                                                *)

\* While the queue is full websockets does not read the socket.  A regular socket
\* has to be asked for frames.
DaemonSends ==
    /\ link = "open" /\ Len(queue) < MaxQueue /\ Len(sent) < MaxMessages
    /\ \E kind \in Text \cup Binary :
         LET message == [kind |-> kind, number |-> Len(sent) + 1]
         IN  /\ kind = "frame op" => pure \/ started
             /\ queue' = Append(queue, message) /\ sent' = Append(sent, message)
    /\ UNCHANGED <<pure, main, connection, media, link, consumer, started, opened, got,
                   torn>>

LinkEnds ==
    /\ link = "open"
    /\ link' \in {"closed", "broken"}
    /\ UNCHANGED <<pure, main, connection, media, queue, consumer, daemon, got, torn>>
-------------------------------------------------------------------------------
(* Messages.                                                                  *)

\* A mutated form of IsFrame: the operation is looked at on either socket.
IsFrameByOp(message) == message.kind = "frame op"

\* _route(): on a pure socket a binary message is a frame as it is.
IsFrame(message) ==
    message.kind \in Binary /\ (pure \/ message.kind = "frame op")

\* _route_text(): an announcement is kept.
Announced(message) == IF message.kind = "media" THEN opened ELSE media

\* websockets lets one task at a time await recv().
InRecv == main = "announcing" \/ \E c \in Consumers : consumer[c] = "waiting"
-------------------------------------------------------------------------------
(* The block.                                                                 *)

\* A mutated form of Enter: what the last connection announced is left.
EnterKeepsMedia ==
    /\ main = "outside" /\ opened < MaxOpened /\ ~InRecv
    /\ main' = IF pure THEN "body" ELSE "announcing"
    /\ connection' = TRUE
    /\ link' = "open" /\ queue' = <<>>
    /\ sent' = <<>> /\ started' = FALSE /\ opened' = opened + 1 /\ got' = <<>> /\ torn' = FALSE
    /\ UNCHANGED <<pure, media, consumer>>

\* The upgrade is through.  When it is not, nothing has changed.
Enter ==
    /\ main = "outside" /\ opened < MaxOpened /\ ~InRecv
    /\ main' = IF pure THEN "body" ELSE "announcing"
    /\ connection' = TRUE /\ media' = 0
    /\ link' = "open" /\ queue' = <<>>
    /\ sent' = <<>> /\ started' = FALSE /\ opened' = opened + 1 /\ got' = <<>> /\ torn' = FALSE
    /\ UNCHANGED <<pure, consumer>>

\* _read_media(): the first message, which is to be the announcement; when it is
\* not, ResponseError is raised.
AnnouncementRead ==
    /\ main = "announcing" /\ queue # <<>>
    /\ queue' = Tail(queue)
    /\ media' = Announced(Head(queue))
    /\ main' = IF Head(queue).kind # "unreadable" /\ media' # 0 THEN "body" ELSE "closing"
    /\ UNCHANGED <<pure, connection, link, consumer, daemon, got, torn>>

\* Mutated forms of AnnouncementFails: the socket is not closed, or there is no
\* timeout.
FailsOpen ==
    /\ main = "announcing"
    /\ main' = "outside" /\ connection' = FALSE
    /\ UNCHANGED <<pure, media, link, queue, consumer, daemon, got, torn>>
FailsOnClose ==
    /\ main = "announcing" /\ queue = <<>> /\ link # "open"
    /\ main' = "closing"
    /\ UNCHANGED <<pure, connection, media, link, queue, consumer, daemon, got, torn>>

\* The timeout, a cancellation, or the connection ending before it came.
AnnouncementFails ==
    /\ main = "announcing"
    /\ main' = "closing"
    /\ UNCHANGED <<pure, connection, media, link, queue, consumer, daemon, got, torn>>

Exit ==
    /\ main = "body"
    /\ main' = "closing"
    /\ UNCHANGED <<pure, connection, media, link, queue, consumer, daemon, got, torn>>

\* close() of websockets: the handshake is through, or was given up.
Close ==
    /\ main = "closing" /\ link = "open"
    /\ link' \in {"closed", "broken"}
    /\ UNCHANGED <<pure, main, connection, media, queue, consumer, daemon, got, torn>>

Closed ==
    /\ main = "closing" /\ link # "open"
    /\ main' = "outside" /\ connection' = FALSE
    /\ UNCHANGED <<pure, media, link, queue, consumer, daemon, got, torn>>

\* The task that closes is cancelled meanwhile.
CloseCancelled ==
    /\ main = "closing"
    /\ main' = "outside" /\ connection' = FALSE /\ torn' = TRUE
    /\ UNCHANGED <<pure, media, link, queue, consumer, daemon, got>>
-------------------------------------------------------------------------------
(* frames(): `_recv()`, `_route()`, and again until there is a frame.          *)

\* It is called, or asked for the next frame.
Ask(c) ==
    /\ consumer[c] # "waiting"
    /\ consumer' = [consumer EXCEPT ![c] = IF connection /\ ~InRecv THEN "waiting"
                                                                    ELSE "failed"]
    /\ UNCHANGED <<pure, main, connection, media, link, queue, daemon, got, torn>>

\* A message is taken.  Without a frame in it, the next recv() finds the connection
\* let go of, or goes on waiting.
Take(c) ==
    /\ consumer[c] = "waiting" /\ queue # <<>>
    /\ LET message == Head(queue)
       IN  /\ media' = Announced(message)
           /\ \/ /\ IsFrame(message)
                 /\ got' = Append(got, message)
                 /\ consumer' = [consumer EXCEPT ![c] = "yielded"]
              \/ /\ ~IsFrame(message)
                 /\ consumer' = [consumer EXCEPT ![c] =
                        IF message.kind = "unreadable" \/ ~connection THEN "failed"
                                                                     ELSE @]
                 /\ UNCHANGED got
    /\ queue' = Tail(queue)
    /\ UNCHANGED <<pure, main, connection, link, daemon, torn>>

\* A mutated form of Ends: a clean close is waited past.
EndsOnBreak(c) ==
    /\ consumer[c] = "waiting" /\ queue = <<>> /\ link = "broken"
    /\ consumer' = [consumer EXCEPT ![c] = "failed"]
    /\ UNCHANGED <<pure, main, connection, media, link, queue, daemon, got, torn>>

\* Everything received has been taken, and no more will come.
Ends(c) ==
    /\ consumer[c] = "waiting" /\ queue = <<>> /\ link # "open"
    /\ consumer' = [consumer EXCEPT ![c] = IF link = "closed" THEN "ended" ELSE "failed"]
    /\ UNCHANGED <<pure, main, connection, media, link, queue, daemon, got, torn>>

\* The loop is left, or its task is cancelled.
Leave(c) ==
    /\ consumer[c] \in {"yielded", "waiting"}
    /\ consumer' = [consumer EXCEPT ![c] = "none"]
    /\ UNCHANGED <<pure, main, connection, media, link, queue, daemon, got, torn>>

\* start(), by any task: ConfigurationError on a pure socket, WebSocketError when
\* there is no connection to send it on.  A ping or a keyframe request goes out in
\* the same way and changes nothing told apart here.
Start ==
    /\ ~pure /\ connection /\ link = "open"
    /\ started' = TRUE
    /\ UNCHANGED <<pure, main, connection, media, link, queue, consumer, sent, opened, got,
                   torn>>
-------------------------------------------------------------------------------
Block ==
    Enter \/ AnnouncementRead \/ AnnouncementFails \/ Exit \/ Close \/ Closed \/ CloseCancelled

Next ==
    \/ DaemonSends \/ LinkEnds
    \/ Block \/ Start
    \/ \E c \in Consumers : Ask(c) \/ Take(c) \/ Ends(c) \/ Leave(c)

\* Every ready task runs in the end, and each wait has its timeout, but for recv().
Fairness ==
    /\ WF_vars(AnnouncementRead \/ AnnouncementFails)
    /\ WF_vars(Close \/ Closed)
    /\ \A c \in Consumers : WF_vars(Take(c) \/ Ends(c))

Spec == Init /\ [][Next]_vars /\ Fairness
-------------------------------------------------------------------------------
TypeOK ==
    /\ pure \in BOOLEAN /\ torn \in BOOLEAN
    /\ main \in {"outside", "announcing", "body", "closing"}
    /\ connection = (main # "outside")
    /\ started \in BOOLEAN
    /\ media \in 0..opened /\ opened \in 0..MaxOpened
    /\ link \in {"open", "closed", "broken"}
    /\ queue \in Seq(Message) /\ Len(queue) <= MaxQueue
    /\ sent \in Seq(Message) /\ got \in Seq(Message)
    /\ consumer \in [Consumers -> {"none", "yielded", "waiting", "ended", "failed"}]

(* __aenter__(): whatever goes wrong with the announcement, no connection is   *)
(* left open behind the exception; nor after the block.  Only cancelling the    *)
(* close itself leaves one to websockets.                                      *)
NothingLeftOpen == main = "outside" /\ ~torn => link # "open"

(* "it is set by the time the block runs" on a regular socket, to what this    *)
(* connection announced and not the one before; on a pure socket it is None     *)
(* unless the daemon speaks up.                                                 *)
MediaIsOwn ==
    /\ main = "body" /\ ~pure => media = opened
    /\ connection => media \in {0, opened}

(* frames(): every frame the daemon sent is yielded once, to one consumer or   *)
(* another, in the order it was sent, or is still in the queue.                 *)
NoFrameLost ==
    LET taken == Len(sent) - Len(queue)
    IN  main = "body" =>
            /\ queue = SubSeq(sent, taken + 1, Len(sent))
            /\ {got[i].number : i \in DOMAIN got} = {n \in 1..taken : Meant(sent[n])}
            /\ \A i, j \in DOMAIN got : i < j => got[i].number < got[j].number
            /\ \A i \in DOMAIN got : got[i] = sent[got[i].number]

(* __aenter__() ends, a daemon that says nothing included.                     *)
EntryEnds == main = "announcing" ~> main \in {"body", "outside"}

(* frames(): nobody waits on a connection that is gone, from either side.       *)
FramesEnd ==
    \A c \in Consumers : (consumer[c] = "waiting" /\ link # "open") ~> consumer[c] # "waiting"
===============================================================================
