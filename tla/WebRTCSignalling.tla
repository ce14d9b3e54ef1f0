---------------------------- MODULE WebRTCSignalling ----------------------------
(***************************************************************************)
(* The signalling of WebRTCSession (src/aiopikvm/_webrtc.py): the task that  *)
(* holds the `async with` block negotiates with Janus and says goodbye to    *)
(* it, the reader hands out what Janus says, the keeper keeps the session    *)
(* alive, callers ask for keyframes, and one task iterates events().         *)
(*                                                                           *)
(* An action is what a task does from one await to the next.  A request goes *)
(* out in one step: the messages are small.  Media and tracks are left out.  *)
(***************************************************************************)
EXTENDS Integers, Sequences

CONSTANTS Main, Keeper,  \* the block's task and _keepalive()
          Callers,       \* tasks that call request_keyframe() or keepalive()
          PushLimit,     \* _PUSH_BUFFER
          InboxLimit,    \* bound: messages received and not read
          MaxExtra,      \* bound: what is said on top of the negotiation, by keeper,
                         \* callers or Janus, per connection
          MaxOpened      \* bound: connections

ASSUME SignallingAssumption ==
    /\ Main # Keeper /\ Main \notin Callers /\ Keeper \notin Callers
    /\ PushLimit \in Nat \ {0}
    /\ InboxLimit \in Nat /\ MaxExtra \in Nat /\ MaxOpened \in Nat

VARIABLES
    step,       \* what the block's task awaits: see Negotiating and Leaving
    raised,     \* exc_type is not None
    ids,        \* which of self._session_id and self._handle_id it has
    pc,         \* self._pc is not None
    link,       \* the connection: "open" or "closed"; ReaderEnds is where it tells how
    inbox,      \* messages received and not read
    reader,     \* self._reader: "none", in "recv", or "done"
    keeper,     \* self._keeper: "none", "sleeping", "asking" or "done"
    counter,    \* self._counter
    request,    \* what each task has asked, and been answered
    pushes,     \* self._pushes
    up,         \* self._up
    failure,    \* self._failure: "none", a "socket" error or a "webrtc" one
    reported,   \* self._reported
    consumer,   \* the events() generator: "none", "yielded", "waiting", "woken"
    (* The far end: the requests Janus has not answered, the pushes the plugin   *)
    (* owes, whether the peers have met; and counters the bounds are on.         *)
    asked, owed, met, extra, opened,
    (* History: the worst a caller was told of this connection, and whether a    *)
    (* session was made known, and a destroy went out.                           *)
    seen, learnt, bid

block == <<step, raised, ids, pc>>
tasks == <<reader, keeper>>
requests == <<counter, request>>
report == <<failure, reported, seen>>
plugin == <<owed, met>>
server == <<asked, plugin>>
bounds == <<extra, opened>>
farewell == <<learnt, bid>>
vars == <<block, link, inbox, tasks, requests, pushes, up, report, consumer, server, bounds,
          farewell>>

Tasks == {Main, Keeper} \cup Callers

\* The steps of _negotiate(), in order, and those of __aexit__().
Asking == {"create", "attach", "features", "watch", "start", "trickle"}
Pushed == {"features push", "watch push", "start push"}
Negotiating == Asking \cup Pushed \cup {"answering", "up"}
Goodbyes == {"stop", "detach", "destroy"}
Leaving == {"pumps", "reader", "closing"} \cup Goodbyes
\* Outside the block; the last when its exit was cancelled on the way.
Outside == {"outside", "abandoned"}

\* A message to Janus as Janus knows it: its transaction, and what it is about.
Message(number, what) == [number |-> number, what |-> what]
NoMessage == Message(0, "nothing")

Quiet == [number |-> 0, asks |-> "nothing", answer |-> "none", to |-> NoMessage]
Unanswered(t) == request[t].number # 0 /\ request[t].answer = "none"

Answer(message, answer) == [kind |-> "answer", to |-> message, says |-> answer]
Says(kind, what) == [kind |-> kind, to |-> NoMessage, says |-> what]
-------------------------------------------------------------------------------
Init ==
    /\ step = "outside" /\ raised = FALSE /\ ids = {} /\ pc = FALSE
    /\ link = "closed" /\ inbox = <<>>
    /\ reader = "none" /\ keeper = "none"
    /\ counter = 0 /\ request = [t \in Tasks |-> Quiet]
    /\ pushes = <<>> /\ up = FALSE
    /\ failure = "none" /\ reported = FALSE /\ seen = "nothing"
    /\ consumer = "none"
    /\ asked = <<>> /\ owed = <<>> /\ met = "no" /\ extra = 0
    /\ opened = 0 /\ learnt = FALSE /\ bid = FALSE
-------------------------------------------------------------------------------
(* The far end, and the network.                                              *)

Arrive(message) ==
    link = "open" /\ Len(inbox) < InboxLimit /\ inbox' = Append(inbox, message)

\* Janus answers the oldest request, refuses it, for instance because it has dropped
\* the session, or says nothing.  An "odd" answer has no id in it.  The plugin pushes
\* what it has to say itself afterwards.
JanusAnswers ==
    /\ asked # <<>>
    /\ asked' = Tail(asked)
    /\ LET what == Head(asked).what
           answers(says) == Arrive(Answer(Head(asked), says))
       IN  \/ answers("refused") /\ UNCHANGED <<owed, met>>
           \/ UNCHANGED <<inbox, owed, met>>
           \/ what \in {"create", "attach"} /\ answers("odd") /\ UNCHANGED <<owed, met>>
           \/ /\ answers("ok")
              /\ owed' = IF what \in {"features", "watch", "start"}
                         THEN Append(owed, what) ELSE owed
              /\ met' = IF what = "start" THEN "soon" ELSE met
    /\ UNCHANGED <<block, link, tasks, requests, pushes, up, report, consumer, bounds,
                   farewell>>

PluginPushes ==
    /\ owed # <<>>
    /\ owed' = Tail(owed)
    /\ \E says \in {Head(owed), "refused", "odd"} : Arrive(Says("push", says))
    /\ UNCHANGED <<block, link, tasks, requests, pushes, up, report, consumer, asked,
                   met, bounds, farewell>>

\* The peers have met: `webrtcup`.
PeersMeet ==
    /\ met = "soon"
    /\ met' = "met"
    /\ Arrive(Says("up", "nothing"))
    /\ UNCHANGED <<block, link, tasks, requests, pushes, up, report, consumer, asked,
                   owed, bounds, farewell>>

\* An event, a push nobody asked for, or what is not a JSON object.
JanusSays ==
    /\ extra < MaxExtra
    /\ extra' = extra + 1
    /\ \E message \in {Says("event", "nothing"), Says("push", "odd"), Says("junk", "nothing")} :
         Arrive(message)
    /\ UNCHANGED <<block, link, tasks, requests, pushes, up, report, consumer, server,
                   opened, farewell>>

\* What Janus has not sent by then does not arrive.
LinkGoes ==
    /\ link = "open"
    /\ link' = "closed"
    /\ asked' = <<>> /\ owed' = <<>>
    /\ met' = IF met = "met" THEN met ELSE "no"

LinkEnds ==
    /\ LinkGoes
    /\ UNCHANGED <<block, inbox, tasks, requests, pushes, up, report, consumer, bounds, farewell>>
-------------------------------------------------------------------------------
(* _request()                                                                 *)

\* A mutated form of CanAsk: that the reader has gone is not looked at.
CanSend == link = "open"

\* The reader runs to match the answer, and the send does not raise.
CanAsk == reader = "recv" /\ link = "open"

\* What _request() raises when not: what the reader stopped on, or that it did.
Refusal == IF reader # "recv" /\ failure # "none" THEN failure ELSE "socket"

\* The request goes out, and is awaited.
Ask(t, what) ==
    /\ CanAsk
    /\ counter' = counter + 1
    /\ request' = [request EXCEPT ![t] = [Quiet EXCEPT !.number = counter', !.asks = what]]
    /\ asked' = Append(asked, Message(counter', what))

\* It is over for its task: the acknowledgement is forgotten.
Forget(t) == request' = [request EXCEPT ![t] = Quiet]

\* _fail_acks(), in the requests of the tasks it is called for.
FailAcks(among) ==
    request' = [t \in Tasks |-> IF t \in among /\ Unanswered(t)
                                THEN [request[t] EXCEPT !.answer = "failed"] ELSE request[t]]

\* The first failure is the one that is kept.
Record(kind) == failure' = IF failure = "none" THEN kind ELSE failure
-------------------------------------------------------------------------------
(* _drain(), the reader.                                                      *)

Wakeup == consumer' = IF consumer = "waiting" THEN "woken" ELSE consumer

\* The finally clause.
ReaderFinishes ==
    /\ reader' = "done"
    /\ up' = TRUE
    /\ FailAcks(Tasks)
    /\ Wakeup

\* A mutated form of Resolve: the answer goes to whoever waits.
ResolveAny(message) ==
    request' = [t \in Tasks |->
        IF Unanswered(t)
        THEN [request[t] EXCEPT !.answer = message.says, !.to = message.to] ELSE request[t]]

\* _route(): an acknowledgement is matched by its transaction.
Resolve(message) ==
    request' = [t \in Tasks |->
        IF Unanswered(t) /\ request[t].number = message.to.number
        THEN [request[t] EXCEPT !.answer = message.says, !.to = message.to] ELSE request[t]]

\* A mutated form of Queue: it has no limit.
QueueAll(push) == pushes' = Append(pushes, push)

\* _route() of a push: the oldest makes room.
Queue(push) ==
    pushes' = Append(IF Len(pushes) < PushLimit THEN pushes ELSE Tail(pushes), push)

ReaderRoutes ==
    /\ reader = "recv" /\ inbox # <<>> /\ Head(inbox).kind # "junk"
    /\ inbox' = Tail(inbox)
    /\ LET message == Head(inbox)
       IN  \/ /\ message.kind = "answer"
              /\ Resolve(message)
              /\ UNCHANGED <<pushes, up, consumer>>
           \/ /\ message.kind # "answer"
              /\ IF message.kind = "push" THEN Queue(message.says) ELSE UNCHANGED pushes
              /\ up' = (up \/ message.kind = "up")
              /\ Wakeup
              /\ UNCHANGED request
    /\ UNCHANGED <<block, link, tasks, counter, report, server, bounds, farewell>>

\* What is not a JSON object stops it.
ReaderChokes ==
    /\ reader = "recv" /\ inbox # <<>> /\ Head(inbox).kind = "junk"
    /\ inbox' = Tail(inbox)
    /\ Record("socket")
    /\ ReaderFinishes
    /\ UNCHANGED <<block, link, keeper, counter, pushes, reported, seen, server, bounds,
                   farewell>>

\* A mutated form of ReaderEnds: a clean close is never a failure.
EndsClean ==
    /\ reader = "recv" /\ inbox = <<>> /\ link # "open"
    /\ Record("socket") \/ UNCHANGED failure
    /\ ReaderFinishes
    /\ UNCHANGED <<block, link, inbox, keeper, counter, pushes, reported, seen, server, bounds,
                   farewell>>

\* The link broke, or was closed cleanly: that is no failure, unless the peer connection
\* never came up.  To everybody else it is gone either way.
ReaderEnds ==
    /\ reader = "recv" /\ inbox = <<>> /\ link # "open"
    /\ Record("socket") \/ (up /\ UNCHANGED failure)
    /\ ReaderFinishes
    /\ UNCHANGED <<block, link, inbox, keeper, counter, pushes, reported, seen, server,
                   bounds, farewell>>
-------------------------------------------------------------------------------
(* _keepalive(), the keeper.                                                  *)

\* Its request cannot go out, or came to nothing: it is recorded and the keeper ends.
KeeperStops(kind) == keeper' = "done" /\ Record(kind)

KeeperWakes ==
    /\ keeper = "sleeping"
    /\ \/ /\ extra < MaxExtra /\ extra' = extra + 1
          /\ Ask(Keeper, "keepalive")
          /\ keeper' = "asking"
          /\ UNCHANGED failure
       \/ /\ ~CanAsk
          /\ KeeperStops(Refusal)
          /\ UNCHANGED <<requests, asked, extra>>
    /\ UNCHANGED <<block, link, inbox, reader, pushes, up, reported, seen, consumer,
                   plugin, opened, farewell>>

KeeperReturns ==
    /\ request[Keeper].answer # "none"
    /\ Forget(Keeper)
    /\ \/ /\ request[Keeper].answer = "ok"
          /\ keeper' = "sleeping"
          /\ UNCHANGED failure
       \/ request[Keeper].answer = "refused" /\ KeeperStops("webrtc")
       \/ request[Keeper].answer = "failed" /\ KeeperStops("socket")
    /\ UNCHANGED <<block, link, inbox, reader, counter, pushes, up, reported, seen, consumer,
                   server, bounds, farewell>>

KeeperTimesOut ==
    /\ keeper = "asking"
    /\ Forget(Keeper)
    /\ KeeperStops("webrtc")
    /\ UNCHANGED <<block, link, inbox, reader, counter, pushes, up, reported, seen, consumer,
                   server, bounds, farewell>>
-------------------------------------------------------------------------------
(* request_keyframe() and keepalive()                                         *)

\* The worse of what a caller was told of the link before and is told now: that it is
\* gone, or something else while a failure of it is recorded.
See(kind) ==
    seen' = IF kind = "socket" THEN "break"
            ELSE IF seen = "nothing" /\ failure # "none" THEN "trouble" ELSE seen

\* A mutated form of ToldTheCaller: a failure the reader has not seen is not recorded.
TellsOnly(kind) ==
    /\ UNCHANGED failure
    /\ reported' = (reported \/ failure # "none")
    /\ See(kind)

\* _told_the_caller(): the exception goes to the caller.
ToldTheCaller(kind) ==
    /\ failure' = IF kind = "socket" /\ failure = "none" THEN kind ELSE failure
    /\ reported' = (reported \/ failure' # "none")
    /\ See(kind)

CallStarts(c) ==
    /\ step # "outside" /\ ids # {}
    /\ request[c] = Quiet
    /\ \/ /\ extra < MaxExtra /\ extra' = extra + 1
          /\ Ask(c, "call")
          /\ UNCHANGED report
       \/ /\ ~CanAsk
          /\ ToldTheCaller(Refusal)
          /\ UNCHANGED <<requests, asked, extra>>
    /\ UNCHANGED <<block, link, inbox, tasks, pushes, up, consumer, plugin, opened,
                   farewell>>

\* _ensure_open() refuses; request_keyframe() tells of it as of any failure.  (Outside
\* the block it does too, and the next _connect() forgets what it told.)
CallRefused ==
    /\ step # "outside" /\ ids = {}
    /\ ToldTheCaller("webrtc")
    /\ UNCHANGED <<block, link, inbox, tasks, requests, pushes, up, consumer, server, bounds,
                   farewell>>

CallReturns(c) ==
    /\ request[c].answer # "none"
    /\ Forget(c)
    /\ \/ request[c].answer = "ok" /\ UNCHANGED report
       \/ request[c].answer = "refused" /\ ToldTheCaller("webrtc")
       \/ request[c].answer = "failed" /\ ToldTheCaller("socket")
    /\ UNCHANGED <<block, link, inbox, tasks, counter, pushes, up, consumer, server, bounds,
                   farewell>>

CallTimesOut(c) ==
    /\ request[c].number # 0
    /\ Forget(c)
    /\ ToldTheCaller("webrtc")
    /\ UNCHANGED <<block, link, inbox, tasks, counter, pushes, up, consumer, server, bounds,
                   farewell>>

CallCancelled(c) ==
    /\ request[c].number # 0
    /\ Forget(c)
    /\ UNCHANGED <<block, link, inbox, tasks, counter, pushes, up, report, consumer, server,
                   bounds, farewell>>
-------------------------------------------------------------------------------
(* events().  How many are buffered, _remember() and its limit, are left out.     *)

\* There are events left to take, or the next is awaited, or it comes to its end.
Collect ==
    \/ /\ consumer' = "yielded"
       /\ UNCHANGED report
    \/ /\ reader = "recv"
       /\ consumer' = "waiting"
       /\ UNCHANGED report
    \/ /\ reader # "recv"
       /\ consumer' = "none"
       /\ IF failure # "none" THEN reported' = TRUE /\ See(failure) /\ UNCHANGED failure
                              ELSE UNCHANGED report

\* The generator is asked for its first event, in an open session.
Iterate ==
    /\ consumer = "none"
    /\ step # "outside" /\ ids # {}
    /\ Collect
    /\ UNCHANGED <<block, link, inbox, tasks, requests, pushes, up, server, bounds, farewell>>

\* It is asked for the next one, or has been woken up.
Resume(from) ==
    /\ consumer = from
    /\ Collect
    /\ UNCHANGED <<block, link, inbox, tasks, requests, pushes, up, server, bounds, farewell>>

\* The loop around it is left, or its task is cancelled.
Drop ==
    /\ consumer \in {"yielded", "waiting", "woken"}
    /\ consumer' = "none"
    /\ UNCHANGED <<block, link, inbox, tasks, requests, pushes, up, report, server,
                   bounds, farewell>>
-------------------------------------------------------------------------------
(* _negotiate()                                                               *)

\* An exception leaves the block's task: __aexit__() is called with it, and waits
\* for the pumps first.
Raise == raised' = TRUE /\ step' = "pumps"

\* The next request, or what it raises.
Then(what) ==
    \/ Ask(Main, what) /\ step' = what /\ UNCHANGED raised
    \/ ~CanAsk /\ Forget(Main) /\ Raise /\ UNCHANGED <<counter, asked>>

\* The next push is awaited, or `webrtcup` is.
Await(next) == Forget(Main) /\ step' = next /\ UNCHANGED <<raised, counter, asked>>

\* What the answer to a request leads to.
Answered ==
    /\ step \in Asking /\ request[Main].answer # "none"
    /\ \/ /\ request[Main].answer # "ok"
          /\ Raise
          /\ Forget(Main)
          /\ UNCHANGED <<ids, keeper, learnt, counter, asked>>
       \/ /\ request[Main].answer = "ok" /\ step = "create"
          /\ ids' = {"session"} /\ learnt' = TRUE
          /\ keeper' = "sleeping"
          /\ Then("attach")
       \/ /\ request[Main].answer = "ok" /\ step = "attach"
          /\ ids' = {"session", "handle"}
          /\ Then("features")
          /\ UNCHANGED <<keeper, learnt>>
       \/ /\ request[Main].answer = "ok"
          /\ \/ step = "features" /\ Await("features push")
             \/ step = "watch" /\ Await("watch push")
             \/ step = "start" /\ Await("start push")
             \/ step = "trickle" /\ Await("up")
          /\ UNCHANGED <<ids, keeper, learnt>>
    /\ UNCHANGED <<pc, link, inbox, reader, pushes, up, report, consumer, plugin, bounds,
                   bid>>

\* _features() and _offer(): neither is in the push.
Unreadable(push) == \/ step = "features push" /\ push # "features"
                    \/ step = "watch push" /\ push # "watch"

\* _push() returns, and what was pushed is read.
PushTaken ==
    /\ step \in Pushed /\ pushes # <<>>
    /\ pushes' = Tail(pushes)
    /\ LET push == Head(pushes)
       IN  \/ /\ push = "refused" \/ Unreadable(push)
              /\ Raise
              /\ UNCHANGED <<pc, requests, asked>>
           \/ /\ step = "features push" /\ push = "features"
              /\ pc' = TRUE
              /\ Then("watch")
           \/ /\ step = "watch push" /\ push = "watch"
              /\ step' = "answering"
              /\ UNCHANGED <<raised, pc, requests, asked>>
           \/ /\ step = "start push" /\ push # "refused"
              /\ Then("trickle")
              /\ UNCHANGED pc
    /\ UNCHANGED <<ids, link, inbox, tasks, up, report, consumer, plugin, bounds,
                   farewell>>

\* aiortc has made an answer of the offer, or could not.
OfferAnswered ==
    /\ step = "answering"
    /\ \/ Then("start")
       \/ Raise /\ UNCHANGED <<requests, asked>>
    /\ UNCHANGED <<ids, pc, link, inbox, tasks, pushes, up, report, consumer, plugin,
                   bounds, farewell>>

\* self._up is set, by `webrtcup` or by the reader on its way out.
Up ==
    /\ step = "up" /\ up
    /\ \/ /\ failure = "none"
          /\ step' = "body"
          /\ UNCHANGED <<raised, reported>>
       \/ /\ failure # "none"
          /\ Raise
          /\ reported' = TRUE
    /\ UNCHANGED <<ids, pc, link, inbox, tasks, requests, pushes, up, failure, seen, consumer,
                   server, bounds, farewell>>

\* The timeout of a request, of a push or of the whole negotiation, or a cancellation
\* from outside.
Interrupted ==
    /\ step \in Negotiating
    /\ Raise
    /\ Forget(Main)
    /\ UNCHANGED <<ids, pc, link, inbox, tasks, counter, pushes, up, report, consumer, server,
                   bounds, farewell>>
-------------------------------------------------------------------------------
(* The block.                                                                 *)

\* Opening takes round trips, in which every task that is ready runs.
NothingReady == consumer # "woken" /\ \A c \in Callers : request[c] = Quiet

\* __aenter__(), once _connect() has the connection, up to the answer to `create`.
\* The reader's first step comes before any other task's.
Enter ==
    /\ step = "outside" /\ opened < MaxOpened /\ NothingReady
    /\ opened' = opened + 1
    /\ link' = "open" /\ inbox' = <<>>
    /\ counter' = 1
    /\ request' = [request EXCEPT ![Main] = [Quiet EXCEPT !.number = 1, !.asks = "create"]]
    /\ step' = "create" /\ raised' = FALSE
    /\ pushes' = <<>> /\ up' = FALSE
    /\ failure' = "none" /\ reported' = FALSE
    /\ reader' = "recv"
    /\ asked' = <<Message(1, "create")>>
    /\ owed' = <<>> /\ met' = "no" /\ extra' = 0
    /\ seen' = "nothing" /\ learnt' = FALSE /\ bid' = FALSE
    /\ UNCHANGED <<ids, pc, keeper, consumer>>

\* The block ends, by itself or with an exception.
Exit ==
    /\ step = "body"
    /\ raised' \in BOOLEAN
    /\ step' = "pumps"
    /\ UNCHANGED <<ids, pc, link, inbox, tasks, requests, pushes, up, report, consumer, server,
                   bounds, farewell>>

\* The keeper is cancelled and gone, and the next await is the peer connection's.
FarewellEnds ==
    /\ request' = [request EXCEPT ![Main] = Quiet, ![Keeper] = Quiet]
    /\ step' = "reader" /\ ids' = {} /\ keeper' = "none"
    /\ UNCHANGED <<counter, asked, bid>>

\* _farewell() goes on with `what`; when that cannot go out nor can the rest.
Bid(what) ==
    \/ /\ Ask(Main, what)
       /\ step' = what
       /\ bid' = (bid \/ what = "destroy")
       /\ UNCHANGED <<ids, keeper>>
    \/ ~CanAsk /\ FarewellEnds

\* A mutated form of NextGoodbye: the first that is not answered well is the last.
GivesUp ==
    \/ step = "stop" /\ request[Main].answer = "ok" /\ Bid("detach")
    \/ step = "detach" /\ request[Main].answer = "ok" /\ Bid("destroy")
    \/ (step = "destroy" \/ request[Main].answer # "ok") /\ FarewellEnds

\* Each goodbye is answered, fails or times out, and the next one is tried.
NextGoodbye ==
    \/ step = "stop" /\ Bid("detach")
    \/ step = "detach" /\ Bid("destroy")
    \/ step = "destroy" /\ FarewellEnds

Goodbye ==
    /\ \/ /\ step = "pumps"
          /\ \/ "handle" \in ids /\ Bid("stop")
             \/ ids = {"session"} /\ Bid("destroy")
             \/ ids = {} /\ FarewellEnds
       \/ step \in Goodbyes /\ NextGoodbye
    /\ UNCHANGED <<raised, pc, link, inbox, reader, pushes, up, report, consumer, plugin, bounds,
                   learnt>>

\* The peer connection is closed; the reader is cancelled, and gone.
ReaderStopped ==
    /\ step = "reader"
    /\ pc' = FALSE
    /\ reader' = "none"
    /\ IF reader = "recv" THEN up' = TRUE /\ FailAcks(Tasks) /\ Wakeup
                          ELSE UNCHANGED <<up, request, consumer>>
    /\ step' = "closing"
    /\ UNCHANGED <<raised, ids, link, inbox, keeper, counter, pushes, report, server,
                   bounds, farewell>>

\* The closing handshake, which the far end may answer or not.
Close ==
    /\ step = "closing"
    /\ LinkGoes
    /\ UNCHANGED <<block, inbox, tasks, requests, pushes, up, report, consumer, bounds, farewell>>

\* self._connection is None, and what it held has gone with it.
LetGo ==
    /\ link' = "closed" /\ inbox' = <<>>
    /\ asked' = <<>> /\ owed' = <<>> /\ met' = "no"

\* The rest of __aexit__(): raise what nobody has been told.
Raises == ~raised /\ failure # "none" /\ ~reported

Closed ==
    /\ step = "closing" /\ link # "open"
    /\ step' = "outside"
    /\ LetGo
    /\ FailAcks(Tasks)
    /\ reported' = (reported \/ Raises)
    /\ UNCHANGED <<raised, ids, pc, tasks, counter, pushes, up, failure, seen, consumer, bounds,
                   farewell>>

\* A cancellation while the exit says goodbye, or closes the peer connection: the
\* rest of it is not run.
ExitCancelled ==
    /\ step \in Goodbyes \/ (step = "reader" /\ pc)
    /\ step' = "abandoned" /\ raised' = TRUE
    /\ Forget(Main)
    /\ UNCHANGED <<ids, pc, link, inbox, tasks, counter, pushes, up, report, consumer, server,
                   bounds, farewell>>

\* The same while it closes the connection, which it lets go of all the same.
CloseCancelled ==
    /\ step = "closing"
    /\ step' = "outside" /\ raised' = TRUE
    /\ LetGo
    /\ UNCHANGED <<ids, pc, tasks, requests, pushes, up, report, consumer, bounds, farewell>>
-------------------------------------------------------------------------------
Reader == ReaderRoutes \/ ReaderChokes \/ ReaderEnds
Negotiation == Answered \/ PushTaken \/ OfferAnswered \/ Up
Caller(c) == CallStarts(c) \/ CallReturns(c) \/ CallTimesOut(c) \/ CallCancelled(c)
Block == \/ Enter \/ Exit \/ Goodbye \/ ReaderStopped
         \/ Close \/ Closed \/ ExitCancelled \/ CloseCancelled

Next == \/ JanusAnswers \/ PluginPushes \/ PeersMeet \/ JanusSays \/ LinkEnds
        \/ Reader
        \/ KeeperWakes \/ KeeperReturns \/ KeeperTimesOut
        \/ \E c \in Callers : Caller(c)
        \/ CallRefused
        \/ Iterate \/ Resume("yielded") \/ Resume("woken") \/ Drop
        \/ Negotiation \/ Interrupted
        \/ Block

Spec == Init /\ [][Next]_vars
-------------------------------------------------------------------------------
Asks == {"keepalive", "call"} \cup Asking \cup Goodbyes
Pushes == {"features", "watch", "start", "refused", "odd"}
Answers == {"ok", "odd", "refused"}

Sent == [number : Nat, what : Asks]   \* what Janus has been sent

Requests == [number : Nat, asks : {"nothing"} \cup Asks,
             answer : {"none", "failed"} \cup Answers, to : {NoMessage} \cup Sent]

Messages == [kind : {"answer"}, to : Sent, says : Answers]
            \cup [kind : {"push"}, to : {NoMessage}, says : Pushes]
            \cup [kind : {"up", "event", "junk"}, to : {NoMessage}, says : {"nothing"}]

TypeOK ==
    /\ step \in {"outside", "abandoned", "body"} \cup Negotiating \cup Leaving
    /\ raised \in BOOLEAN
    /\ ids \in {{}, {"session"}, {"session", "handle"}} /\ pc \in BOOLEAN
    /\ link \in {"open", "closed"} /\ inbox \in Seq(Messages)
    /\ reader \in {"none", "recv", "done"}
    /\ keeper \in {"none", "sleeping", "asking", "done"}
    /\ counter \in Nat /\ request \in [Tasks -> Requests]
    /\ pushes \in Seq(Pushes) /\ Len(pushes) <= PushLimit
    /\ up \in BOOLEAN /\ failure \in {"none", "socket", "webrtc"} /\ reported \in BOOLEAN
    /\ seen \in {"nothing", "trouble", "break"}
    /\ consumer \in {"none", "yielded", "waiting", "woken"}
    /\ asked \in Seq(Sent)
    /\ owed \in Seq({"features", "watch", "start"}) /\ met \in {"no", "soon", "met"}
    /\ learnt \in BOOLEAN /\ bid \in BOOLEAN

(* _request(), the finally clause of _drain(), and events(): nobody waits for an     *)
(* answer, for `webrtcup` or for an event with no reader to bring it, before, in     *)
(* and after the teardown.                                                           *)
NobodyWaitsInVain ==
    reader # "recv" =>
        /\ \A t \in Tasks : ~Unanswered(t)
        /\ step = "up" => up
        /\ consumer # "waiting"

(* _request(), "transactions match up Janus's acknowledgements": an answer that is   *)
(* taken was sent to the very message of the task, its number and what it asks for.  *)
AnswersMatch ==
    \A t \in Tasks : request[t].answer \notin {"none", "failed"} =>
        request[t].to = Message(request[t].number, request[t].asks)

(* _request(), _connect(): a request goes out under a number that nobody else's has,  *)
(* and no other message on the connection: neither one that Janus has yet to answer,  *)
(* nor an answer nobody has read.                                                     *)
NumbersAreFresh ==
    [][\A t \in Tasks : LET number == request'[t].number
                        IN  number \notin {0, request[t].number} =>
         /\ \A u \in Tasks : request'[u].number = number => u = t
         /\ \A i, j \in 1..Len(asked') :
              asked'[i].number = number /\ asked'[j].number = number => i = j
         /\ \A i \in 1..Len(inbox') : inbox'[i].to.number # number]_vars

(* _farewell(), "one that fails does not take the rest with it": whatever went       *)
(* wrong on the way, a session that was made known is asked to be destroyed while    *)
(* there is anybody to ask.                                                          *)
SessionIsDestroyed == step = "reader" /\ learnt /\ CanAsk => bid

(* __aenter__(), "returns once Janus reports the peer connection up": a reader that  *)
(* has gone does not pass for it.                                                    *)
EnteredMeansUp == [][step = "up" /\ step' = "body" => met = "met"]_vars

(* __aexit__(), _told_the_caller(): a clean exit raises the failure nobody was told   *)
(* of, however many requests of keeper and farewell it broke, and keeps quiet after  *)
(* a caller was told that the link is gone.                                          *)
ToldOnce ==
    [][Closed /\ ~raised =>
         /\ failure # "none" /\ seen = "nothing" => Raises
         /\ seen = "break" => ~Raises]_vars

\* An acknowledgement, as that of the message it was sent for.
CallOf(t) ==
    IF request[t].answer \in {"none", "failed"}
    THEN [turn |-> request[t].number, asks |-> request[t].asks, answer |-> request[t].answer]
    ELSE [turn |-> request[t].to.number, asks |-> request[t].to.what,
          answer |-> request[t].answer]

Session == INSTANCE JanusSession WITH
    Subjects <- Asks,
    Replies <- Answers,
    call <- [t \in Tasks |-> CallOf(t)],
    turns <- counter,
    served <- reader = "recv",
    reached <- link = "open",
    session <- IF ids = {} THEN "none" ELSE IF bid THEN "bid" ELSE "known"

(* _request(), _keepalive(), _farewell(): however answers are late, lost or matched   *)
(* by number, and whoever is interrupted, a task that asks is given the answer to     *)
(* that or told that there will be none, nobody asks about a session that is not      *)
(* there, and it is asked to be destroyed once before it is forgotten.                *)
SessionSpec == Session!Spec

(* __aexit__(), "tear the session down, whatever happened": a block that was left     *)
(* leaves no task behind that reads the socket or keeps the session alive.           *)
(* It does not hold: no run checks it.                                               *)
NothingLeftRunning ==
    step \in Outside => reader \in {"none", "done"} /\ keeper \in {"none", "done"}
===============================================================================
