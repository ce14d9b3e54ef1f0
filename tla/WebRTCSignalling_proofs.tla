------------------------- MODULE WebRTCSignalling_proofs -------------------------
(***************************************************************************)
(* For any number of callers, connections and messages, and any limit on the  *)
(* pushes kept: nobody waits for what no reader will bring, an answer is that  *)
(* of the request it is taken for, entering means that the peers have met,     *)
(* a failure that no caller met is told at the end of the block and no other,  *)
(* and a session that was made known is given up.                              *)
(***************************************************************************)
EXTENDS WebRTCSignalling, SequenceTheorems, TLAPS

(* The reader's finally clause sets self._up, and __aexit__() is the only one to   *)
(* forget a reader.                                                                *)
ReaderLeavesUp ==
    /\ reader = "done" => up
    /\ reader = "none" => step \in {"outside", "closing"}

(* The keeper runs from the answer to `create` until the farewell is over, and     *)
(* has nothing under way unless it waits for its answer.                           *)
KeeperIsQuiet ==
    /\ keeper # "asking" => request[Keeper] = Quiet
    /\ step \in {"outside", "create", "reader", "closing"} => keeper = "none"

\* Whoever waits for the answer numbered n asked for `what`.
Matches(n, what) ==
    /\ n <= counter
    /\ \A t \in Tasks : Unanswered(t) /\ request[t].number = n => request[t].asks = what

\* A number is given once on a connection: what is under way belongs to its request.
NumbersMatch ==
    /\ \A t \in Tasks : request[t].number <= counter
    /\ \A a \in Range(asked) : Matches(a.number, a.what)
    /\ \A m \in Range(inbox) : m.kind = "answer" => Matches(m.to.number, m.to.what)

\* A session that was made known has an id until the farewell has used it.
LearntHasIds ==
    learnt /\ step \in Negotiating \cup {"body", "pumps"} => ids # {}

DestroyIsBid == step = "destroy" => bid

(* `start` is asked for once a connection, and the peers meet after it.            *)
BeforeStart == {"create", "attach", "features", "features push", "watch", "watch push",
                "answering"}
StartOnce ==
    /\ \A a \in Range(asked) : a.what = "start" => met = "no" /\ step \notin BeforeStart
    /\ \A i, j \in 1..Len(asked) : asked[i].what = "start" /\ asked[j].what = "start" => i = j
    /\ step \in BeforeStart => met = "no"

\* self._up is set when the peers have met, or when the reader went with a failure.
UpIsEarned ==
    /\ \A m \in Range(inbox) : m.kind = "up" => met = "met"
    /\ up /\ step \notin {"outside", "closing"} => met = "met" \/ failure # "none"

(* self._reported is set where somebody is told, and by an exception that goes out  *)
(* of the block anyway.                                                            *)
ReportedIsSeen ==
    /\ seen = "break" => reported
    /\ reported /\ ~raised /\ step # "outside" => seen # "nothing"
    /\ step \in Negotiating \cup {"body"} => ~raised

IInv == /\ TypeOK
        /\ NobodyWaitsInVain /\ ReaderLeavesUp
        /\ KeeperIsQuiet
        /\ NumbersMatch /\ AnswersMatch
        /\ LearntHasIds /\ DestroyIsBid /\ SessionIsDestroyed
        /\ StartOnce /\ UpIsEarned
        /\ ReportedIsSeen
USE DEF block, tasks, requests, report, plugin, server, bounds, farewell, Message, NoMessage, Sent
-------------------------------------------------------------------------------
(* What the operators shared by the actions do, in types.                          *)

LEMMA QuietIsRequest == Quiet \in Requests /\ Quiet.number = 0 /\ Quiet.answer = "none"
BY DEF Quiet, Requests

LEMMA AskTyped ==
    ASSUME TypeOK, NEW t \in Tasks, NEW what \in Asks, Ask(t, what)
    PROVE  /\ counter' \in Nat /\ request' \in [Tasks -> Requests]
           /\ asked' \in Seq(Sent)
<1>1. counter' \in Nat
  BY DEF Ask, TypeOK
<1>2. [Quiet EXCEPT !.number = counter', !.asks = what] \in Requests
  BY <1>1 DEF Quiet, Requests
<1>3. request' \in [Tasks -> Requests]
  BY <1>2 DEF Ask, TypeOK
<1>4. [number |-> counter', what |-> what] \in Sent
  BY <1>1
<1>5. asked' \in Seq(Sent)
  BY <1>4, AppendProperties DEF Ask, TypeOK
<1>6. QED
  BY <1>1, <1>3, <1>5

LEMMA ForgetTyped ==
    ASSUME TypeOK, NEW t \in Tasks, Forget(t)
    PROVE  request' \in [Tasks -> Requests]
BY QuietIsRequest DEF Forget, TypeOK

LEMMA FailAcksTyped ==
    ASSUME TypeOK, FailAcks(Tasks)
    PROVE  /\ request' \in [Tasks -> Requests]
           /\ \A t \in Tasks : request'[t].number # 0 => request'[t].answer # "none"
<1>1. ASSUME NEW t \in Tasks
      PROVE  /\ request'[t] \in Requests
             /\ request'[t].number # 0 => request'[t].answer # "none"
  <2>1. request[t] \in Requests
    BY DEF TypeOK
  <2>2. request'[t] = IF Unanswered(t) THEN [request[t] EXCEPT !.answer = "failed"] ELSE request[t]
    BY DEF FailAcks
  <2>3. QED
    BY <2>1, <2>2 DEF Unanswered, Requests
<1>2. QED
  BY <1>1 DEF FailAcks

LEMMA ResolveTyped ==
    ASSUME TypeOK, NEW message, message.says \in Answers, message.to \in Sent, Resolve(message)
    PROVE  request' \in [Tasks -> Requests]
<1>1. ASSUME NEW t \in Tasks
      PROVE  request'[t] \in Requests
  <2>1. request[t] \in Requests
    BY DEF TypeOK
  <2>2. request'[t] = IF Unanswered(t) /\ request[t].number = message.to.number
                      THEN [request[t] EXCEPT !.answer = message.says, !.to = message.to]
                      ELSE request[t]
    BY DEF Resolve
  <2>3. QED
    BY <2>1, <2>2 DEF Requests
<1>2. QED
  BY <1>1 DEF Resolve

(* What comes in is typed, and so is what is left when it has been read.            *)
LEMMA ArriveTyped ==
    ASSUME TypeOK, NEW message \in Messages, Arrive(message)
    PROVE  inbox' \in Seq(Messages)
BY AppendProperties DEF Arrive, TypeOK

LEMMA InboxRead ==
    ASSUME TypeOK, inbox # <<>>
    PROVE  /\ Head(inbox) \in Messages /\ Tail(inbox) \in Seq(Messages)
           /\ Head(inbox).kind = "answer" => Head(inbox).says \in Answers /\ Head(inbox).to \in Sent
           /\ Head(inbox).kind = "push" => Head(inbox).says \in Pushes
<1>1. Head(inbox) \in Messages /\ Tail(inbox) \in Seq(Messages)
  BY HeadTailProperties DEF TypeOK
<1>2. QED
  BY <1>1 DEF Messages

LEMMA QueueTyped ==
    ASSUME TypeOK, NEW push \in Pushes, Queue(push)
    PROVE  pushes' \in Seq(Pushes) /\ Len(pushes') <= PushLimit
<1>1. pushes \in Seq(Pushes) /\ Len(pushes) \in Nat /\ Len(pushes) <= PushLimit
  BY LenProperties DEF TypeOK
<1>2. PushLimit \in Nat /\ PushLimit >= 1
  BY SignallingAssumption
<1>3. CASE Len(pushes) < PushLimit
  <2>1. pushes' = Append(pushes, push)
    BY <1>3 DEF Queue
  <2>2. pushes' \in Seq(Pushes) /\ Len(pushes') = Len(pushes) + 1
    BY <1>1, <2>1, AppendProperties
  <2>3. QED
    BY <1>1, <1>2, <1>3, <2>2
<1>4. CASE ~(Len(pushes) < PushLimit)
  <2>1. pushes # <<>>
    BY <1>1, <1>2, <1>4, EmptySeq
  <2>2. Tail(pushes) \in Seq(Pushes) /\ Len(Tail(pushes)) = Len(pushes) - 1
    BY <1>1, <2>1, HeadTailProperties
  <2>3. pushes' = Append(Tail(pushes), push)
    BY <1>4 DEF Queue
  <2>4. pushes' \in Seq(Pushes) /\ Len(pushes') = Len(pushes) - 1 + 1
    BY <2>2, <2>3, AppendProperties
  <2>5. QED
    BY <1>1, <1>2, <2>4
<1>5. QED
  BY <1>3, <1>4

LEMMA ToldTyped ==
    ASSUME TypeOK, NEW kind \in {"socket", "webrtc"}, ToldTheCaller(kind)
    PROVE  /\ failure' \in {"none", "socket", "webrtc"} /\ reported' \in BOOLEAN
           /\ seen' \in {"nothing", "trouble", "break"}
BY DEF ToldTheCaller, See, TypeOK

LEMMA RefusalTyped == TypeOK => Refusal \in {"socket", "webrtc"}
BY DEF TypeOK, Refusal
-------------------------------------------------------------------------------
(* Every step keeps the types.                                                     *)

LEMMA ServerTypes ==
    ASSUME TypeOK, JanusAnswers \/ PluginPushes \/ PeersMeet \/ JanusSays \/ LinkEnds
    PROVE  TypeOK'
<1>1. CASE JanusAnswers
  <2> DEFINE what == Head(asked).what
             message == Head(asked)
  <2>1. asked # <<>> /\ asked' = Tail(asked)
    BY <1>1 DEF JanusAnswers
  <2>2. Head(asked) \in Sent /\ Tail(asked) \in Seq(Sent)
    BY <2>1, HeadTailProperties DEF TypeOK
  <2>3. what \in Asks /\ message \in Sent
    BY <2>2
  <2>4. \A says \in Answers : Answer(message, says) \in Messages
    BY <2>3 DEF Answer, Messages
  <2>5. /\ inbox' = inbox \/ \E says \in Answers : Arrive(Answer(message, says))
        /\ owed' = owed \/ (what \in {"features", "watch", "start"} /\ owed' = Append(owed, what))
        /\ met' \in {met, "soon"}
    BY <1>1 DEF JanusAnswers, Answers
  <2> HIDE DEF what, message
  <2>6. inbox' \in Seq(Messages)
    BY <2>4, <2>5, ArriveTyped DEF TypeOK
  <2>7. owed' \in Seq({"features", "watch", "start"})
    <3>1. owed \in Seq({"features", "watch", "start"})
      BY DEF TypeOK
    <3>2. CASE what \in {"features", "watch", "start"} /\ owed' = Append(owed, what)
      BY <3>1, <3>2, AppendProperties
    <3>3. QED
      BY <2>5, <3>1, <3>2
  <2>8. UNCHANGED <<block, link, tasks, requests, pushes, up, report, consumer, farewell>>
    BY <1>1 DEF JanusAnswers
  <2>9. QED
    BY <2>1, <2>2, <2>5, <2>6, <2>7, <2>8 DEF TypeOK
<1>2. CASE PluginPushes
  <2>1. owed # <<>> /\ owed' = Tail(owed)
    BY <1>2 DEF PluginPushes
  <2>2. /\ Head(owed) \in {"features", "watch", "start"}
        /\ owed' \in Seq({"features", "watch", "start"})
    BY <2>1, HeadTailProperties DEF TypeOK
  <2>3. \A says \in {Head(owed), "refused", "odd"} : Says("push", says) \in Messages
    BY <2>2 DEF Says, Messages, Pushes
  <2>4. inbox' \in Seq(Messages)
    BY <1>2, <2>3, ArriveTyped DEF PluginPushes
  <2>5. QED
    BY <1>2, <2>2, <2>4 DEF PluginPushes, TypeOK
<1>3. CASE PeersMeet
  <2>1. Says("up", "nothing") \in Messages
    BY DEF Says, Messages
  <2>2. inbox' \in Seq(Messages)
    BY <1>3, <2>1, ArriveTyped DEF PeersMeet
  <2>3. QED
    BY <1>3, <2>2 DEF PeersMeet, TypeOK
<1>4. CASE JanusSays
  <2>1. \A m \in {Says("event", "nothing"), Says("push", "odd"), Says("junk", "nothing")} : m \in Messages
    BY DEF Says, Messages, Pushes
  <2>2. inbox' \in Seq(Messages)
    BY <1>4, <2>1, ArriveTyped DEF JanusSays
  <2>3. QED
    BY <1>4, <2>2 DEF JanusSays, TypeOK
<1>5. CASE LinkEnds
  <2>1. <<>> \in Seq(Sent) /\ <<>> \in Seq({"features", "watch", "start"})
    BY EmptySeq
  <2>2. QED
    BY <1>5, <2>1 DEF LinkEnds, LinkGoes, TypeOK
<1>6. QED
  BY <1>1, <1>2, <1>3, <1>4, <1>5

LEMMA ReaderTypes ==
    ASSUME TypeOK, Reader
    PROVE  TypeOK'
<1>1. CASE ReaderRoutes
  <2> DEFINE message == Head(inbox)
  <2>1. inbox # <<>> /\ inbox' = Tail(inbox)
    BY <1>1 DEF ReaderRoutes
  <2>2. /\ inbox' \in Seq(Messages)
        /\ message.kind = "answer" => message.says \in Answers /\ message.to \in Sent
        /\ message.kind = "push" => message.says \in Pushes
    BY <2>1, InboxRead
  <2>3. /\ \/ UNCHANGED request
           \/ message.kind = "answer" /\ Resolve(message)
        /\ \/ UNCHANGED pushes
           \/ message.kind = "push" /\ Queue(message.says)
        /\ UNCHANGED up \/ up' = (up \/ message.kind = "up")
        /\ UNCHANGED consumer \/ Wakeup
    BY <1>1 DEF ReaderRoutes
  <2> HIDE DEF message
  <2>4. request' \in [Tasks -> Requests]
    BY <2>2, <2>3, ResolveTyped DEF TypeOK
  <2>5. pushes' \in Seq(Pushes) /\ Len(pushes') <= PushLimit
    BY <2>2, <2>3, QueueTyped DEF TypeOK
  <2>6. up' \in BOOLEAN
    BY <2>3 DEF TypeOK
  <2>7. consumer' \in {"none", "yielded", "waiting", "woken"}
    BY <2>3 DEF Wakeup, TypeOK
  <2>8. QED
    BY <1>1, <2>2, <2>4, <2>5, <2>6, <2>7 DEF ReaderRoutes, TypeOK
<1>2. ASSUME ReaderChokes \/ ReaderEnds
      PROVE  TypeOK'
  <2>1. ReaderFinishes /\ inbox' \in Seq(Messages)
    BY <1>2, InboxRead DEF ReaderChokes, ReaderEnds, TypeOK
  <2>2. request' \in [Tasks -> Requests]
    BY <2>1, FailAcksTyped DEF ReaderFinishes
  <2>3. failure' \in {"none", "socket", "webrtc"}
    BY <1>2 DEF ReaderChokes, ReaderEnds, Record, TypeOK
  <2>4. /\ reader' = "done" /\ up' = TRUE
        /\ consumer' \in {"none", "yielded", "waiting", "woken"}
    BY <2>1 DEF ReaderFinishes, Wakeup, TypeOK
  <2>5. UNCHANGED <<block, link, keeper, counter, pushes, reported, seen, server, farewell>>
    BY <1>2 DEF ReaderChokes, ReaderEnds
  <2>6. QED
    BY <2>1, <2>2, <2>3, <2>4, <2>5 DEF TypeOK
<1>3. QED
  BY <1>1, <1>2 DEF Reader

LEMMA KeeperTypes ==
    ASSUME TypeOK, KeeperWakes \/ KeeperReturns \/ KeeperTimesOut
    PROVE  TypeOK'
<1>1. Keeper \in Tasks
  BY DEF Tasks
<1>2. CASE KeeperWakes
  <2>1. CASE Ask(Keeper, "keepalive") /\ keeper' = "asking" /\ UNCHANGED failure
    <3>1. "keepalive" \in Asks
      BY DEF Asks
    <3>2. /\ counter' \in Nat /\ request' \in [Tasks -> Requests]
          /\ asked' \in Seq(Sent)
      BY <1>1, <2>1, <3>1, AskTyped
    <3>3. QED
      BY <1>2, <2>1, <3>2 DEF KeeperWakes, TypeOK
  <2>2. CASE KeeperStops(Refusal) /\ UNCHANGED <<requests, asked>>
    BY <1>2, <2>2, RefusalTyped DEF KeeperWakes, KeeperStops, Record, TypeOK
  <2>3. QED
    BY <1>2, <2>1, <2>2 DEF KeeperWakes
<1>3. ASSUME KeeperReturns \/ KeeperTimesOut
      PROVE  TypeOK'
  <2>1. request' \in [Tasks -> Requests]
    BY <1>1, <1>3, ForgetTyped DEF KeeperReturns, KeeperTimesOut
  <2>2. keeper' \in {"sleeping", "done"} /\ failure' \in {"none", "socket", "webrtc"}
    BY <1>3 DEF KeeperReturns, KeeperTimesOut, KeeperStops, Record, TypeOK
  <2>3. UNCHANGED <<block, link, inbox, reader, counter, pushes, up, reported, seen, consumer,
                    server, farewell>>
    BY <1>3 DEF KeeperReturns, KeeperTimesOut
  <2>4. QED
    BY <2>1, <2>2, <2>3 DEF TypeOK
<1>4. QED
  BY <1>2, <1>3

LEMMA CallerTypes ==
    ASSUME TypeOK, (\E c \in Callers : Caller(c)) \/ CallRefused
    PROVE  TypeOK'
<1>1. ASSUME NEW c \in Callers, CallStarts(c)
      PROVE  TypeOK'
  <2>1. CASE Ask(c, "call") /\ UNCHANGED report
    <3>1. c \in Tasks /\ "call" \in Asks
      BY DEF Tasks, Asks
    <3>2. /\ counter' \in Nat /\ request' \in [Tasks -> Requests]
          /\ asked' \in Seq(Sent)
      BY <2>1, <3>1, AskTyped
    <3>3. QED
      BY <1>1, <2>1, <3>2 DEF CallStarts, TypeOK
  <2>2. CASE ToldTheCaller(Refusal) /\ UNCHANGED <<requests, asked>>
    BY <1>1, <2>2, RefusalTyped, ToldTyped DEF CallStarts, TypeOK
  <2>3. QED
    BY <1>1, <2>1, <2>2 DEF CallStarts
<1>2. ASSUME NEW c \in Callers, CallReturns(c) \/ CallTimesOut(c) \/ CallCancelled(c)
      PROVE  TypeOK'
  <2>1. c \in Tasks /\ Forget(c)
    BY <1>2 DEF Tasks, CallReturns, CallTimesOut, CallCancelled
  <2>2. request' \in [Tasks -> Requests]
    BY <2>1, ForgetTyped
  <2>3. UNCHANGED report \/ \E kind \in {"socket", "webrtc"} : ToldTheCaller(kind)
    BY <1>2 DEF CallReturns, CallTimesOut, CallCancelled
  <2>4. /\ failure' \in {"none", "socket", "webrtc"} /\ reported' \in BOOLEAN
        /\ seen' \in {"nothing", "trouble", "break"}
    BY <2>3, ToldTyped DEF TypeOK
  <2>5. UNCHANGED <<block, link, inbox, tasks, counter, pushes, up, consumer, server, farewell>>
    BY <1>2 DEF CallReturns, CallTimesOut, CallCancelled
  <2>6. QED
    BY <2>2, <2>4, <2>5 DEF TypeOK
<1>3. CASE CallRefused
  BY <1>3, ToldTyped DEF CallRefused, TypeOK
<1>4. QED
  BY <1>1, <1>2, <1>3 DEF Caller

LEMMA ConsumerTypes ==
    ASSUME TypeOK, Iterate \/ Resume("yielded") \/ Resume("woken") \/ Drop
    PROVE  TypeOK'
<1>1. CASE Collect
  <2>1. consumer' \in {"none", "yielded", "waiting"}
    BY <1>1 DEF Collect
  <2>2. UNCHANGED failure /\ reported' \in BOOLEAN /\ seen' \in {"nothing", "trouble", "break"}
    BY <1>1 DEF Collect, See, TypeOK
  <2>3. UNCHANGED <<block, link, inbox, tasks, requests, pushes, up, server, farewell>>
    BY DEF Iterate, Resume, Drop
  <2>4. QED
    BY <2>1, <2>2, <2>3 DEF TypeOK
<1>2. CASE Drop
  BY <1>2 DEF Drop, TypeOK
<1>3. QED
  BY <1>1, <1>2 DEF Iterate, Resume

LEMMA ThenTyped ==
    ASSUME TypeOK, NEW what \in Asking, Then(what)
    PROVE  /\ step' \in {what, "pumps"} /\ raised' \in BOOLEAN
           /\ counter' \in Nat /\ request' \in [Tasks -> Requests]
           /\ asked' \in Seq(Sent)
<1>1. Main \in Tasks /\ what \in Asks
  BY DEF Tasks, Asks
<1>2. CASE Ask(Main, what) /\ step' = what /\ UNCHANGED raised
  BY <1>1, <1>2, AskTyped DEF TypeOK
<1>3. CASE Forget(Main) /\ Raise /\ UNCHANGED <<counter, asked>>
  BY <1>1, <1>3, ForgetTyped DEF Raise, TypeOK
<1>4. QED
  BY <1>2, <1>3 DEF Then

LEMMA NegotiationTypes ==
    ASSUME TypeOK, Negotiation \/ Interrupted
    PROVE  TypeOK'
<1>1. Main \in Tasks
  BY DEF Tasks
<1>2. CASE Answered
  <2>1. /\ ids' \in {ids, {"session"}, {"session", "handle"}}
        /\ keeper' \in {keeper, "sleeping"} /\ learnt' \in BOOLEAN
    BY <1>2 DEF Answered, TypeOK
  <2>2. /\ step' \in {"pumps"} \cup Negotiating /\ raised' \in BOOLEAN
        /\ counter' \in Nat /\ request' \in [Tasks -> Requests]
        /\ asked' \in Seq(Sent)
    <3>1. CASE Raise /\ Forget(Main) /\ UNCHANGED <<counter, asked>>
      BY <1>1, <3>1, ForgetTyped DEF Raise, TypeOK
    <3>2. CASE Then("attach") \/ Then("features")
      BY <3>2, ThenTyped DEF Asking, Negotiating
    <3>3. CASE \E next \in {"features push", "watch push", "start push", "up"} : Await(next)
      BY <1>1, <3>3, ForgetTyped DEF Await, Negotiating, Pushed, TypeOK
    <3>4. QED
      BY <1>2, <3>1, <3>2, <3>3 DEF Answered
  <2>3. UNCHANGED <<pc, link, inbox, reader, pushes, up, report, consumer, plugin, bid>>
    BY <1>2 DEF Answered
  <2>4. QED
    BY <2>1, <2>2, <2>3 DEF TypeOK, Leaving
<1>3. CASE PushTaken
  <2>1. pushes # <<>> /\ pushes' = Tail(pushes)
    BY <1>3 DEF PushTaken
  <2>2. pushes' \in Seq(Pushes) /\ Len(pushes') <= PushLimit
    <3>1. /\ Tail(pushes) \in Seq(Pushes) /\ Len(Tail(pushes)) = Len(pushes) - 1
          /\ Len(pushes) \in Nat /\ Len(pushes) <= PushLimit
      BY <2>1, HeadTailProperties, LenProperties DEF TypeOK
    <3>2. QED
      BY <2>1, <3>1, SignallingAssumption
  <2>3. /\ step' \in {"pumps"} \cup Negotiating /\ raised' \in BOOLEAN /\ pc' \in BOOLEAN
        /\ counter' \in Nat /\ request' \in [Tasks -> Requests]
        /\ asked' \in Seq(Sent)
    <3>1. CASE Raise /\ UNCHANGED <<pc, requests, asked>>
      BY <3>1 DEF Raise, TypeOK
    <3>2. CASE Then("watch") /\ pc' = TRUE
      BY <3>2, ThenTyped DEF Asking, Negotiating
    <3>3. CASE step' = "answering" /\ UNCHANGED <<raised, pc, requests, asked>>
      BY <3>3 DEF Negotiating, TypeOK
    <3>4. CASE Then("trickle") /\ UNCHANGED pc
      BY <3>4, ThenTyped DEF Asking, Negotiating, TypeOK
    <3>5. QED
      BY <1>3, <3>1, <3>2, <3>3, <3>4 DEF PushTaken
  <2>4. UNCHANGED <<ids, link, inbox, tasks, up, report, consumer, plugin, farewell>>
    BY <1>3 DEF PushTaken
  <2>5. QED
    BY <2>2, <2>3, <2>4 DEF TypeOK, Leaving
<1>4. CASE OfferAnswered
  <2>1. /\ step' \in {"pumps"} \cup Negotiating /\ raised' \in BOOLEAN
        /\ counter' \in Nat /\ request' \in [Tasks -> Requests]
        /\ asked' \in Seq(Sent)
    <3>1. CASE Then("start")
      BY <3>1, ThenTyped DEF Asking, Negotiating
    <3>2. CASE Raise /\ UNCHANGED <<requests, asked>>
      BY <3>2 DEF Raise, TypeOK
    <3>3. QED
      BY <1>4, <3>1, <3>2 DEF OfferAnswered
  <2>2. UNCHANGED <<ids, pc, link, inbox, tasks, pushes, up, report, consumer, plugin, farewell>>
    BY <1>4 DEF OfferAnswered
  <2>3. QED
    BY <2>1, <2>2 DEF TypeOK, Leaving
<1>5. CASE Up
  <2>1. step' \in {"body", "pumps"} /\ raised' \in BOOLEAN /\ reported' \in BOOLEAN
    BY <1>5 DEF Up, Raise, TypeOK
  <2>2. UNCHANGED <<ids, pc, link, inbox, tasks, requests, pushes, up, failure, seen, consumer,
                    server, farewell>>
    BY <1>5 DEF Up
  <2>3. QED
    BY <2>1, <2>2 DEF TypeOK, Leaving
<1>6. CASE Interrupted
  <2>1. request' \in [Tasks -> Requests]
    BY <1>1, <1>6, ForgetTyped DEF Interrupted
  <2>2. QED
    BY <1>6, <2>1 DEF Interrupted, Raise, TypeOK, Leaving
<1>7. QED
  BY <1>2, <1>3, <1>4, <1>5, <1>6 DEF Negotiation

LEMMA LetGoTyped ==
    ASSUME LetGo
    PROVE  /\ link' \in {"open", "closed"} /\ inbox' \in Seq(Messages)
           /\ asked' \in Seq(Sent)
           /\ owed' \in Seq({"features", "watch", "start"}) /\ met' \in {"no", "soon", "met"}
BY EmptySeq DEF LetGo

\* What any of the goodbyes does: the next one is bid, or they are over.
LEMMA GoodbyeSteps ==
    ASSUME Goodbye
    PROVE  /\ step \in {"pumps"} \cup Goodbyes
           /\ \/ FarewellEnds
              \/ \E what \in Goodbyes : /\ Ask(Main, what) /\ step' = what
                                       /\ bid' = (bid \/ what = "destroy")
                                       /\ UNCHANGED <<ids, keeper>>
           /\ UNCHANGED <<raised, pc, link, inbox, reader, pushes, up, report, consumer, plugin,
                          bounds, learnt>>
<1>1. UNCHANGED <<raised, pc, link, inbox, reader, pushes, up, report, consumer, plugin, bounds,
                  learnt>>
  BY DEF Goodbye
<1>2. step \in {"pumps"} \cup Goodbyes
  BY DEF Goodbye
<1>3. FarewellEnds \/ Bid("stop") \/ Bid("detach") \/ Bid("destroy")
  BY DEF Goodbye, NextGoodbye
<1>4. ASSUME NEW what \in Goodbyes, Bid(what)
      PROVE  \/ FarewellEnds
             \/ /\ Ask(Main, what) /\ step' = what
                /\ bid' = (bid \/ what = "destroy")
                /\ UNCHANGED <<ids, keeper>>
  BY <1>4 DEF Bid
<1>5. "stop" \in Goodbyes /\ "detach" \in Goodbyes /\ "destroy" \in Goodbyes
  BY DEF Goodbyes
<1>6. \/ FarewellEnds
      \/ \E what \in Goodbyes : /\ Ask(Main, what) /\ step' = what
                               /\ bid' = (bid \/ what = "destroy")
                               /\ UNCHANGED <<ids, keeper>>
  BY <1>3, <1>4, <1>5
<1>7. QED
  BY <1>1, <1>2, <1>6

LEMMA GoodbyeTypes ==
    ASSUME TypeOK, Goodbye
    PROVE  TypeOK'
<1>1. Main \in Tasks /\ Keeper \in Tasks
  BY DEF Tasks
<1>2. /\ step' \in Goodbyes \cup {"reader"}
      /\ ids' \in {ids, {}} /\ keeper' \in {keeper, "none"} /\ bid' \in BOOLEAN
      /\ counter' \in Nat /\ request' \in [Tasks -> Requests]
      /\ asked' \in Seq(Sent)
  <2>1. ASSUME NEW what \in Goodbyes, Ask(Main, what), step' = what,
               bid' = (bid \/ what = "destroy"), UNCHANGED <<ids, keeper>>
        PROVE  /\ step' \in Goodbyes \cup {"reader"}
               /\ ids' \in {ids, {}} /\ keeper' \in {keeper, "none"} /\ bid' \in BOOLEAN
               /\ counter' \in Nat /\ request' \in [Tasks -> Requests]
               /\ asked' \in Seq(Sent)
    BY <1>1, <2>1, AskTyped DEF Asks, TypeOK
  <2>2. CASE FarewellEnds
    BY <1>1, <2>2, QuietIsRequest DEF FarewellEnds, TypeOK
  <2>3. QED
    BY <2>1, <2>2, GoodbyeSteps
<1>3. UNCHANGED <<raised, pc, link, inbox, reader, pushes, up, report, consumer, plugin, bounds,
                  learnt>>
  BY GoodbyeSteps
<1>4. QED
  BY <1>2, <1>3 DEF TypeOK, Leaving

LEMMA BlockTypes ==
    ASSUME TypeOK, Block
    PROVE  TypeOK'
<1>1. Main \in Tasks
  BY DEF Tasks
<1>2. CASE Enter
  <2>1. [Quiet EXCEPT !.number = 1, !.asks = "create"] \in Requests
    BY DEF Quiet, Requests, Asks, Asking
  <2>2. request' \in [Tasks -> Requests]
    BY <1>2, <2>1 DEF Enter, TypeOK
  <2>3. /\ asked' = <<[number |-> 1, what |-> "create"]>>
        /\ [number |-> 1, what |-> "create"] \in Sent
    BY <1>2 DEF Enter, Asks, Asking
  <2>4. asked' \in Seq(Sent)
    BY <2>3
  <2>5. /\ inbox' = <<>> /\ inbox' \in Seq(Messages)
        /\ pushes' \in Seq(Pushes) /\ Len(pushes') <= PushLimit
        /\ owed' \in Seq({"features", "watch", "start"})
    BY <1>2, EmptySeq, SignallingAssumption DEF Enter
  <2>6. /\ counter' = 1 /\ step' = "create" /\ raised' = FALSE /\ up' = FALSE /\ failure' = "none"
        /\ reported' = FALSE /\ reader' = "recv" /\ link' = "open" /\ met' = "no"
        /\ seen' = "nothing" /\ learnt' = FALSE /\ bid' = FALSE
        /\ UNCHANGED <<ids, pc, keeper, consumer>>
    BY <1>2 DEF Enter
  <2>7. QED
    BY <2>2, <2>4, <2>5, <2>6 DEF TypeOK, Negotiating, Asking
<1>3. CASE Exit
  BY <1>3 DEF Exit, TypeOK, Leaving
<1>4. CASE Goodbye
  BY <1>4, GoodbyeTypes
<1>5. CASE ReaderStopped
  <2>1. /\ request' \in [Tasks -> Requests] /\ up' \in BOOLEAN
        /\ consumer' \in {"none", "yielded", "waiting", "woken"}
    <3>1. CASE reader = "recv"
      BY <1>5, <3>1, FailAcksTyped DEF ReaderStopped, Wakeup, TypeOK
    <3>2. CASE reader # "recv"
      BY <1>5, <3>2 DEF ReaderStopped, TypeOK
    <3>3. QED
      BY <3>1, <3>2
  <2>2. /\ step' = "closing" /\ pc' = FALSE /\ reader' = "none"
        /\ UNCHANGED <<raised, ids, link, inbox, keeper, counter, pushes>>
    BY <1>5 DEF ReaderStopped
  <2>3. UNCHANGED <<failure, reported, seen, asked, owed, met, learnt, bid>>
    BY <1>5 DEF ReaderStopped
  <2>4. {raised', pc', up', reported', learnt', bid'} \subseteq BOOLEAN
    BY <2>1, <2>2, <2>3 DEF TypeOK
  <2>5. /\ step' \in Leaving /\ inbox' \in Seq(Messages) /\ pushes' \in Seq(Pushes)
        /\ Len(pushes') <= PushLimit /\ counter' \in Nat
        /\ asked' \in Seq(Sent)
        /\ owed' \in Seq({"features", "watch", "start"})
    BY <2>2, <2>3 DEF TypeOK, Leaving
  <2>6. QED
    BY <2>1, <2>2, <2>3, <2>4, <2>5 DEF TypeOK
<1>6. CASE Close
  <2>1. <<>> \in Seq(Sent) /\ <<>> \in Seq({"features", "watch", "start"})
    BY EmptySeq
  <2>2. QED
    BY <1>6, <2>1 DEF Close, LinkGoes, TypeOK
<1>7. CASE Closed
  <2>1. request' \in [Tasks -> Requests]
    BY <1>7, FailAcksTyped DEF Closed
  <2>2. reported' \in BOOLEAN
    BY <1>7 DEF Closed, Raises, TypeOK
  <2>3. /\ step' = "outside"
        /\ UNCHANGED <<raised, ids, pc, tasks, counter, pushes, up, failure, seen, consumer, farewell>>
    BY <1>7 DEF Closed
  <2>4. LetGo
    BY <1>7 DEF Closed
  <2>5. QED
    BY <2>1, <2>2, <2>3, <2>4, LetGoTyped DEF TypeOK
<1>8. CASE ExitCancelled
  <2>1. request' \in [Tasks -> Requests]
    BY <1>1, <1>8, ForgetTyped DEF ExitCancelled
  <2>2. QED
    BY <1>8, <2>1 DEF ExitCancelled, TypeOK
<1>9. CASE CloseCancelled
  BY <1>9, LetGoTyped DEF CloseCancelled, TypeOK
<1>10. QED
  BY <1>2, <1>3, <1>4, <1>5, <1>6, <1>7, <1>8, <1>9 DEF Block

LEMMA TypesStep == TypeOK /\ [Next]_vars => TypeOK'
<1> SUFFICES ASSUME TypeOK, [Next]_vars
             PROVE  TypeOK'
  OBVIOUS
<1>1. CASE Next
  BY <1>1, ServerTypes, ReaderTypes, KeeperTypes, CallerTypes, ConsumerTypes, NegotiationTypes,
     BlockTypes DEF Next
<1>2. CASE UNCHANGED vars
  BY <1>2 DEF vars, TypeOK
<1>3. QED
  BY <1>1, <1>2
-------------------------------------------------------------------------------
(* The range of a sequence that is added to, and of one that is taken from.         *)

LEMMA RangeOfEmpty == Range(<<>>) = {}
BY DEF Range

LEMMA RangeOfAppend ==
    ASSUME NEW S, NEW s \in Seq(S), NEW e \in S
    PROVE  Range(Append(s, e)) = Range(s) \cup {e}
<1>1. /\ Append(s, e) \in Seq(S) /\ Len(Append(s, e)) = Len(s) + 1
      /\ \A i \in 1..Len(s) : Append(s, e)[i] = s[i]
      /\ Append(s, e)[Len(s) + 1] = e
  BY AppendProperties
<1>2. /\ Range(s) = {s[i] : i \in 1..Len(s)}
      /\ Range(Append(s, e)) = {Append(s, e)[i] : i \in 1..Len(Append(s, e))}
  BY <1>1, RangeEquality
<1>3. Len(s) \in Nat
  BY LenProperties
<1>4. QED
  BY <1>1, <1>2, <1>3

LEMMA RangeOfTail ==
    ASSUME NEW S, NEW s \in Seq(S), s # <<>>
    PROVE  Range(Tail(s)) \subseteq Range(s) /\ Head(s) \in Range(s)
<1>1. /\ Head(s) = s[1] /\ Tail(s) \in Seq(S) /\ Len(Tail(s)) = Len(s) - 1
      /\ \A i \in 1..Len(Tail(s)) : Tail(s)[i] = s[i + 1]
  BY HeadTailProperties
<1>2. /\ Range(s) = {s[i] : i \in 1..Len(s)}
      /\ Range(Tail(s)) = {Tail(s)[i] : i \in 1..Len(Tail(s))}
  <2>1. Range(s) = {s[i] : i \in 1..Len(s)}
    BY RangeEquality
  <2> DEFINE t == Tail(s)
  <2>2. t \in Seq(S)
    BY <1>1
  <2> HIDE DEF t
  <2>3. Range(t) = {t[i] : i \in 1..Len(t)}
    BY <2>2, RangeEquality
  <2> QED
    BY <2>1, <2>3 DEF t
<1>3. Len(s) \in Nat /\ Len(s) # 0
  BY LenProperties, EmptySeq
<1>4. QED
  BY <1>1, <1>2, <1>3
-------------------------------------------------------------------------------
(* What each group of steps leaves alone, and what it can do to the requests.       *)

FarEnd == JanusAnswers \/ PluginPushes \/ PeersMeet \/ JanusSays \/ LinkEnds
Keepalive == KeeperWakes \/ KeeperReturns \/ KeeperTimesOut
Calls == (\E c \in Callers : Caller(c)) \/ CallRefused
Events == Iterate \/ Resume("yielded") \/ Resume("woken") \/ Drop
Elsewhere == FarEnd \/ Reader \/ Keepalive \/ Calls \/ Events

LEMMA NextByGroups == Next <=> Elsewhere \/ Negotiation \/ Interrupted \/ Block
BY DEF Next, Elsewhere, FarEnd, Keepalive, Calls, Events

\* No other task moves the block, or gives its session up.
LEMMA ElsewhereKeepsBlock ==
    ASSUME Elsewhere
    PROVE  UNCHANGED <<step, raised, ids, pc, learnt, bid>>
<1>1. CASE FarEnd
  BY <1>1 DEF FarEnd, JanusAnswers, PluginPushes, PeersMeet, JanusSays, LinkEnds
<1>2. CASE Reader
  BY <1>2 DEF Reader, ReaderRoutes, ReaderChokes, ReaderEnds
<1>3. CASE Keepalive
  BY <1>3 DEF Keepalive, KeeperWakes, KeeperReturns, KeeperTimesOut
<1>4. CASE Calls
  BY <1>4 DEF Calls, Caller, CallStarts, CallReturns, CallTimesOut, CallCancelled, CallRefused
<1>5. CASE Events
  BY <1>5 DEF Events, Iterate, Resume, Drop
<1>6. QED
  BY <1>1, <1>2, <1>3, <1>4, <1>5 DEF Elsewhere

\* Negotiating goes on by a request, or without one.
AsksOrNot ==
    \/ step' \in Asking \ {"create"} /\ Ask(Main, step')
    \/ step' \notin Asking /\ UNCHANGED <<counter, asked>> /\ (Forget(Main) \/ UNCHANGED request)

\* It leads on, to its end, or out of the block by an exception.
LeadsOn ==
    \/ step' \in Negotiating /\ UNCHANGED <<raised, reported>>
    \/ /\ step' = "body" /\ step = "up" /\ up /\ failure = "none"
       /\ UNCHANGED <<raised, reported>>
    \/ step' = "pumps" /\ raised' = TRUE

\* A session is made known with its id, and its keeper then starts.
GivesIds ==
    \/ UNCHANGED <<ids, learnt, keeper>>
    \/ ids' # {} /\ UNCHANGED <<learnt, keeper>>
    \/ step = "create" /\ ids' # {} /\ keeper' = "sleeping"

\* Nothing comes before `start` again, and `webrtcup` is awaited after `trickle`.
InOrder ==
    /\ step' \in BeforeStart => step \in BeforeStart
    /\ step' = "start" => step = "answering"
    /\ step' = "up" => step = "trickle"

NegotiatesBy == AsksOrNot /\ LeadsOn /\ GivesIds /\ InOrder

LEMMA ThenNegotiates ==
    ASSUME NEW what \in Asking \ {"create"}, Then(what), UNCHANGED reported
    PROVE  AsksOrNot /\ LeadsOn /\ step' \in {what, "pumps"}
<1>1. CASE Ask(Main, what) /\ step' = what /\ UNCHANGED raised
  <2>1. AsksOrNot
    BY <1>1 DEF AsksOrNot
  <2>2. LeadsOn
    BY <1>1 DEF LeadsOn, Negotiating
  <2>3. QED
    BY <1>1, <2>1, <2>2
<1>2. CASE Forget(Main) /\ Raise /\ UNCHANGED <<counter, asked>>
  <2>1. AsksOrNot
    BY <1>2 DEF AsksOrNot, Raise, Asking
  <2>2. LeadsOn
    BY <1>2 DEF LeadsOn, Raise
  <2>3. QED
    BY <1>2, <2>1, <2>2 DEF Raise
<1>3. QED
  BY <1>1, <1>2 DEF Then

LEMMA NegotiationSteps ==
    ASSUME Negotiation \/ Interrupted
    PROVE  /\ step \in Negotiating
           /\ NegotiatesBy
           /\ UNCHANGED <<link, inbox, reader, up, failure, seen, consumer, owed, met, bid, extra,
                          opened>>
<1> DEFINE Kept == UNCHANGED <<link, inbox, reader, up, failure, seen, consumer, owed, met, bid,
                               extra, opened>>
<1>1. CASE Answered
  <2>1. step \in Asking /\ step \in Negotiating /\ Kept /\ UNCHANGED reported
    BY <1>1 DEF Answered, Negotiating
  <2>2. CASE Raise /\ Forget(Main) /\ UNCHANGED <<ids, keeper, learnt, counter, asked>>
    BY <2>1, <2>2 DEF Raise, NegotiatesBy, AsksOrNot, LeadsOn, GivesIds, InOrder, Asking, BeforeStart
  <2>3. CASE step = "create" /\ ids' = {"session"} /\ keeper' = "sleeping" /\ Then("attach")
    <3>1. AsksOrNot /\ LeadsOn /\ step' \in {"attach", "pumps"}
      BY <2>1, <2>3, ThenNegotiates DEF Asking
    <3>2. GivesIds /\ InOrder
      BY <2>3, <3>1 DEF GivesIds, InOrder, BeforeStart
    <3>3. QED
      BY <2>1, <3>1, <3>2 DEF NegotiatesBy
  <2>4. CASE /\ step = "attach" /\ ids' = {"session", "handle"} /\ Then("features")
             /\ UNCHANGED <<keeper, learnt>>
    <3>1. AsksOrNot /\ LeadsOn /\ step' \in {"features", "pumps"}
      BY <2>1, <2>4, ThenNegotiates DEF Asking
    <3>2. GivesIds /\ InOrder
      BY <2>4, <3>1 DEF GivesIds, InOrder, BeforeStart
    <3>3. QED
      BY <2>1, <3>1, <3>2 DEF NegotiatesBy
  <2>5. CASE /\ \/ step = "features" /\ Await("features push")
                \/ step = "watch" /\ Await("watch push")
                \/ step = "start" /\ Await("start push")
                \/ step = "trickle" /\ Await("up")
             /\ UNCHANGED <<ids, keeper, learnt>>
    <3>1. AsksOrNot /\ LeadsOn
      BY <2>1, <2>5 DEF Await, AsksOrNot, LeadsOn, Asking, Negotiating, Pushed
    <3>2. GivesIds /\ InOrder
      BY <2>5 DEF Await, GivesIds, InOrder, BeforeStart
    <3>3. QED
      BY <2>1, <3>1, <3>2 DEF NegotiatesBy
  <2>6. QED
    BY <1>1, <2>2, <2>3, <2>4, <2>5 DEF Answered
<1>2. CASE PushTaken
  <2>1. /\ step \in Negotiating /\ Kept /\ UNCHANGED <<reported, ids, learnt, keeper>>
    BY <1>2 DEF PushTaken, Negotiating
  <2>2. GivesIds
    BY <2>1 DEF GivesIds
  <2>3. CASE Raise /\ UNCHANGED <<requests, asked>>
    BY <2>1, <2>2, <2>3
       DEF Raise, NegotiatesBy, AsksOrNot, LeadsOn, InOrder, Asking, BeforeStart
  <2>4. CASE step = "features push" /\ Then("watch")
    <3>1. AsksOrNot /\ LeadsOn /\ step' \in {"watch", "pumps"}
      BY <2>1, <2>4, ThenNegotiates DEF Asking
    <3>2. InOrder
      BY <2>4, <3>1 DEF InOrder, BeforeStart
    <3>3. QED
      BY <2>1, <2>2, <3>1, <3>2 DEF NegotiatesBy
  <2>5. CASE step = "watch push" /\ step' = "answering" /\ UNCHANGED <<raised, requests, asked>>
    <3>1. AsksOrNot /\ InOrder
      BY <2>5 DEF AsksOrNot, InOrder, Asking, BeforeStart
    <3>2. LeadsOn
      BY <2>1, <2>5 DEF LeadsOn, Negotiating
    <3>3. QED
      BY <2>1, <2>2, <3>1, <3>2 DEF NegotiatesBy
  <2>6. CASE step = "start push" /\ Then("trickle")
    <3>1. AsksOrNot /\ LeadsOn /\ step' \in {"trickle", "pumps"}
      BY <2>1, <2>6, ThenNegotiates DEF Asking
    <3>2. InOrder
      BY <2>6, <3>1 DEF InOrder, BeforeStart
    <3>3. QED
      BY <2>1, <2>2, <3>1, <3>2 DEF NegotiatesBy
  <2>7. QED
    BY <1>2, <2>3, <2>4, <2>5, <2>6 DEF PushTaken
<1>3. CASE OfferAnswered
  <2>1. /\ step = "answering" /\ step \in Negotiating
        /\ Kept /\ UNCHANGED <<reported, ids, learnt, keeper>>
    BY <1>3 DEF OfferAnswered, Negotiating
  <2>2. GivesIds
    BY <2>1 DEF GivesIds
  <2>3. CASE Then("start")
    <3>1. AsksOrNot /\ LeadsOn /\ step' \in {"start", "pumps"}
      BY <2>1, <2>3, ThenNegotiates DEF Asking
    <3>2. InOrder
      BY <2>1, <3>1 DEF InOrder, BeforeStart
    <3>3. QED
      BY <2>1, <2>2, <3>1, <3>2 DEF NegotiatesBy
  <2>4. CASE Raise /\ UNCHANGED <<requests, asked>>
    BY <2>1, <2>2, <2>4
       DEF Raise, NegotiatesBy, AsksOrNot, LeadsOn, InOrder, Asking, BeforeStart
  <2>5. QED
    BY <1>3, <2>3, <2>4 DEF OfferAnswered
<1>4. CASE Up
  <2>1. /\ step = "up" /\ step \in Negotiating /\ Kept
        /\ UNCHANGED <<ids, learnt, keeper, counter, request, asked>>
        /\ step' \in {"body", "pumps"}
    BY <1>4 DEF Up, Raise, Negotiating
  <2>2. LeadsOn
    BY <1>4 DEF Up, Raise, LeadsOn
  <2>3. AsksOrNot /\ GivesIds /\ InOrder
    BY <2>1 DEF AsksOrNot, GivesIds, InOrder, Asking, BeforeStart
  <2>4. QED
    BY <2>1, <2>2, <2>3 DEF NegotiatesBy
<1>5. CASE Interrupted
  <2>1. /\ step \in Negotiating /\ Kept
        /\ UNCHANGED <<ids, learnt, keeper, counter, asked>>
        /\ step' = "pumps" /\ raised' = TRUE /\ Forget(Main)
    BY <1>5 DEF Interrupted, Raise
  <2>2. QED
    BY <2>1 DEF NegotiatesBy, AsksOrNot, LeadsOn, GivesIds, InOrder, Asking, BeforeStart
<1>6. QED
  BY <1>1, <1>2, <1>3, <1>4, <1>5 DEF Negotiation

\* What becomes of a task's request when no task asks anything: it is kept, forgotten,
\* failed, or answered by what the reader takes from the inbox.
Settles(t) ==
    \/ request'[t] \in {request[t], Quiet}
    \/ Unanswered(t) /\ request'[t] = [request[t] EXCEPT !.answer = "failed"]
    \/ \E m \in Range(inbox) :
         /\ m.kind = "answer" /\ m.says \in Answers
         /\ reader = "recv" /\ Unanswered(t) /\ request[t].number = m.to.number
         /\ request'[t] = [request[t] EXCEPT !.answer = m.says, !.to = m.to]

NobodyAsks == /\ UNCHANGED counter /\ Range(asked') \subseteq Range(asked)
              /\ \A t \in Tasks : Settles(t)

SomebodyAsks == /\ \E t \in Tasks, what \in Asks :
                     Ask(t, what) /\ (t = Keeper => keeper' = "asking")
                /\ UNCHANGED <<reader, inbox>>

LEMMA ForgetSettles ==
    ASSUME TypeOK, NEW t \in Tasks, Forget(t) \/ UNCHANGED request
    PROVE  \A u \in Tasks : Settles(u)
BY DEF Forget, Settles, TypeOK

LEMMA FailAcksSettles ==
    ASSUME FailAcks(Tasks) \/ UNCHANGED request
    PROVE  \A u \in Tasks : Settles(u)
BY DEF FailAcks, Settles

LEMMA RequestsStep ==
    ASSUME TypeOK, Next
    PROVE  NobodyAsks \/ SomebodyAsks \/ Enter
<1>1. /\ Main \in Tasks /\ Keeper \in Tasks /\ \A c \in Callers : c \in Tasks /\ c # Keeper
      /\ Main # Keeper
  BY SignallingAssumption DEF Tasks
<1>2. CASE FarEnd
  <2>1. UNCHANGED <<counter, request>>
    BY <1>2 DEF FarEnd, JanusAnswers, PluginPushes, PeersMeet, JanusSays, LinkEnds
  <2>2. asked' \in {asked, <<>>} \/ (asked # <<>> /\ asked' = Tail(asked))
    BY <1>2 DEF FarEnd, JanusAnswers, PluginPushes, PeersMeet, JanusSays, LinkEnds, LinkGoes
  <2>3. Range(asked') \subseteq Range(asked)
    BY <2>2, RangeOfEmpty, RangeOfTail DEF TypeOK
  <2>4. QED
    BY <2>1, <2>3 DEF NobodyAsks, Settles
<1>3. CASE Reader
  <2>1. UNCHANGED <<counter, asked>>
    BY <1>3 DEF Reader, ReaderRoutes, ReaderChokes, ReaderEnds
  <2>2. CASE ReaderRoutes
    <3> DEFINE message == Head(inbox)
    <3>1. reader = "recv" /\ inbox # <<>>
      BY <2>2 DEF ReaderRoutes
    <3>2. /\ message \in Range(inbox)
          /\ message.kind = "answer" => message.says \in Answers
      BY <3>1, RangeOfTail, InboxRead DEF TypeOK
    <3>3. UNCHANGED request \/ (message.kind = "answer" /\ Resolve(message))
      BY <2>2 DEF ReaderRoutes
    <3> HIDE DEF message
    <3>4. ASSUME NEW t \in Tasks
          PROVE  Settles(t)
      <4>1. CASE UNCHANGED request
        BY <4>1 DEF Settles
      <4>2. CASE /\ message.kind = "answer" /\ Resolve(message)
                 /\ Unanswered(t) /\ request[t].number = message.to.number
        <5>1. request'[t] = [request[t] EXCEPT !.answer = message.says, !.to = message.to]
          BY <4>2 DEF Resolve
        <5>2. QED
          BY <3>1, <3>2, <4>2, <5>1 DEF Settles
      <4>3. CASE Resolve(message) /\ ~(Unanswered(t) /\ request[t].number = message.to.number)
        BY <4>3 DEF Resolve, Settles
      <4>4. QED
        BY <3>3, <4>1, <4>2, <4>3
    <3>5. QED
      BY <2>1, <3>4 DEF NobodyAsks
  <2>3. CASE ReaderChokes \/ ReaderEnds
    <3>1. FailAcks(Tasks)
      BY <2>3 DEF ReaderChokes, ReaderEnds, ReaderFinishes
    <3>2. QED
      BY <2>1, <3>1, FailAcksSettles DEF NobodyAsks
  <2>4. QED
    BY <1>3, <2>2, <2>3 DEF Reader
<1>4. CASE Keepalive
  <2>1. CASE Ask(Keeper, "keepalive") /\ keeper' = "asking" /\ UNCHANGED <<reader, inbox>>
    BY <1>1, <2>1 DEF SomebodyAsks, Asks
  <2>2. CASE /\ UNCHANGED <<counter, asked>> /\ (Forget(Keeper) \/ UNCHANGED request)
    BY <1>1, <2>2, ForgetSettles DEF NobodyAsks
  <2>3. QED
    BY <1>4, <2>1, <2>2 DEF Keepalive, KeeperWakes, KeeperReturns, KeeperTimesOut
<1>5. CASE Calls
  <2>1. ASSUME NEW c \in Callers, Caller(c)
        PROVE  NobodyAsks \/ SomebodyAsks
    <3>1. CASE Ask(c, "call") /\ UNCHANGED <<reader, inbox>>
      BY <1>1, <3>1 DEF SomebodyAsks, Asks
    <3>2. CASE UNCHANGED <<counter, asked>> /\ (Forget(c) \/ UNCHANGED request)
      BY <1>1, <3>2, ForgetSettles DEF NobodyAsks
    <3>3. QED
      BY <2>1, <3>1, <3>2 DEF Caller, CallStarts, CallReturns, CallTimesOut, CallCancelled
  <2>2. CASE CallRefused
    BY <1>1, <2>2, ForgetSettles DEF CallRefused, NobodyAsks
  <2>3. QED
    BY <1>5, <2>1, <2>2 DEF Calls
<1>6. CASE Events
  <2>1. UNCHANGED <<counter, request, asked>>
    BY <1>6 DEF Events, Iterate, Resume, Drop
  <2>2. QED
    BY <1>1, <2>1, ForgetSettles DEF NobodyAsks
<1>7. CASE Negotiation \/ Interrupted
  <2>1. AsksOrNot /\ UNCHANGED <<reader, inbox>>
    BY <1>7, NegotiationSteps DEF NegotiatesBy
  <2>2. CASE step' \in Asking /\ Ask(Main, step')
    BY <1>1, <2>1, <2>2 DEF SomebodyAsks, Asks
  <2>3. CASE UNCHANGED <<counter, asked>> /\ (Forget(Main) \/ UNCHANGED request)
    BY <1>1, <2>3, ForgetSettles DEF NobodyAsks
  <2>4. QED
    BY <2>1, <2>2, <2>3 DEF AsksOrNot
<1>8. CASE Goodbye
  <2>1. CASE FarewellEnds
    <3>1. \A t \in Tasks : request'[t] \in {request[t], Quiet}
      BY <2>1 DEF FarewellEnds, TypeOK
    <3>2. QED
      BY <2>1, <3>1 DEF FarewellEnds, NobodyAsks, Settles
  <2>2. CASE \E what \in Goodbyes : Ask(Main, what)
    BY <1>1, <1>8, <2>2, GoodbyeSteps DEF SomebodyAsks, Asks
  <2>3. QED
    BY <1>8, <2>1, <2>2, GoodbyeSteps
<1>9. CASE Block /\ ~Goodbye /\ ~Enter
  <2>1. CASE Exit \/ ExitCancelled
    <3>1. UNCHANGED <<counter, asked>> /\ (Forget(Main) \/ UNCHANGED request)
      BY <2>1 DEF Exit, ExitCancelled
    <3>2. QED
      BY <1>1, <3>1, ForgetSettles DEF NobodyAsks
  <2>2. CASE ReaderStopped \/ Close \/ Closed \/ CloseCancelled
    <3>1. UNCHANGED counter /\ asked' \in {asked, <<>>} /\ (FailAcks(Tasks) \/ UNCHANGED request)
      BY <2>2 DEF ReaderStopped, Close, LinkGoes, Closed, CloseCancelled, LetGo
    <3>2. QED
      BY <3>1, RangeOfEmpty, FailAcksSettles DEF NobodyAsks
  <2>3. QED
    BY <1>9, <2>1, <2>2 DEF Block
<1>10. QED
  BY <1>2, <1>3, <1>4, <1>5, <1>6, <1>7, <1>8, <1>9, NextByGroups DEF Elsewhere

\* What comes in answers what has been asked, or is no answer; only the peers' meeting
\* is told as such.
LEMMA InboxStep ==
    ASSUME TypeOK, Next
    PROVE  \A m \in Range(inbox') :
             \/ m \in Range(inbox)
             \/ /\ m.kind = "answer" /\ JanusAnswers
                /\ m.to \in Range(asked)
             \/ m.kind \notin {"answer", "up"}
             \/ m.kind = "up" /\ PeersMeet
<1>1. CASE JanusAnswers
  <2> DEFINE a == Head(asked)
  <2>1. asked # <<>>
    BY <1>1 DEF JanusAnswers
  <2>2. a \in Range(asked) /\ a \in Sent
    BY <2>1, RangeOfTail, HeadTailProperties DEF TypeOK
  <2>3. UNCHANGED inbox \/ \E says \in Answers : Arrive(Answer(a, says))
    BY <1>1 DEF JanusAnswers, Answers
  <2> HIDE DEF a
  <2>4. ASSUME NEW says \in Answers, Arrive(Answer(a, says))
        PROVE  Range(inbox') = Range(inbox) \cup {Answer(a, says)}
    <3>1. Answer(a, says) \in Messages
      BY <2>2, <2>4 DEF Answer, Messages
    <3>2. QED
      BY <2>4, <3>1, RangeOfAppend DEF Arrive, TypeOK
  <2>5. \A says : Answer(a, says).kind = "answer" /\ Answer(a, says).to = a
    BY DEF Answer
  <2>6. QED
    BY <1>1, <2>2, <2>3, <2>4, <2>5
<1>2. CASE PluginPushes
  <2>1. owed # <<>>
    BY <1>2 DEF PluginPushes
  <2>2. Head(owed) \in {"features", "watch", "start"}
    BY <2>1, HeadTailProperties DEF TypeOK
  <2>3. \A says \in {Head(owed), "refused", "odd"} : Says("push", says) \in Messages
    BY <2>2 DEF Says, Messages, Pushes
  <2>4. \E says \in {Head(owed), "refused", "odd"} : inbox' = Append(inbox, Says("push", says))
    BY <1>2 DEF PluginPushes, Arrive
  <2>5. \E says : Range(inbox') = Range(inbox) \cup {Says("push", says)}
    BY <2>3, <2>4, RangeOfAppend DEF TypeOK
  <2>6. QED
    BY <2>5 DEF Says
<1>3. CASE PeersMeet
  <2>1. Says("up", "nothing") \in Messages /\ inbox' = Append(inbox, Says("up", "nothing"))
    BY <1>3 DEF PeersMeet, Arrive, Says, Messages
  <2>2. Range(inbox') = Range(inbox) \cup {Says("up", "nothing")}
    BY <2>1, RangeOfAppend DEF TypeOK
  <2>3. QED
    BY <1>3, <2>2 DEF Says
<1>4. CASE JanusSays
  <2> DEFINE said == {Says("event", "nothing"), Says("push", "odd"), Says("junk", "nothing")}
  <2>1. \A m \in said : m \in Messages /\ m.kind \notin {"answer", "up"}
    BY DEF Says, Messages, Pushes
  <2>2. PICK m \in said : inbox' = Append(inbox, m)
    BY <1>4 DEF JanusSays, Arrive
  <2> HIDE DEF said
  <2>3. m \in Messages /\ inbox \in Seq(Messages)
    BY <2>1 DEF TypeOK
  <2>4. Range(inbox') = Range(inbox) \cup {m}
    BY <2>2, <2>3, RangeOfAppend
  <2>5. QED
    BY <2>1, <2>4
<1>5. CASE inbox' \in {inbox, <<>>} \/ (inbox # <<>> /\ inbox' = Tail(inbox))
  <2>1. Range(inbox') \subseteq Range(inbox)
    BY <1>5, RangeOfEmpty, RangeOfTail DEF TypeOK
  <2>2. QED
    BY <2>1
<1>6. ASSUME Next, ~JanusAnswers, ~PluginPushes, ~PeersMeet, ~JanusSays
      PROVE  inbox' \in {inbox, <<>>} \/ (inbox # <<>> /\ inbox' = Tail(inbox))
  <2>1. CASE LinkEnds \/ Reader
    BY <2>1 DEF LinkEnds, Reader, ReaderRoutes, ReaderChokes, ReaderEnds
  <2>2. CASE Keepalive \/ Events
    BY <2>2 DEF Keepalive, KeeperWakes, KeeperReturns, KeeperTimesOut, Events, Iterate, Resume, Drop
  <2>3. CASE Calls
    BY <2>3 DEF Calls, Caller, CallStarts, CallReturns, CallTimesOut, CallCancelled, CallRefused
  <2>4. CASE Negotiation \/ Interrupted
    BY <2>4, NegotiationSteps
  <2>5. CASE Block
    BY <2>5, GoodbyeSteps
       DEF Block, Enter, Exit, ReaderStopped, Close, Closed, LetGo, ExitCancelled, CloseCancelled
  <2>6. QED
    BY <1>6, <2>1, <2>2, <2>3, <2>4, <2>5, NextByGroups DEF Elsewhere, FarEnd
<1>7. QED
  BY <1>1, <1>2, <1>3, <1>4, <1>5, <1>6
-------------------------------------------------------------------------------
(* Answers are matched by their number.                                            *)

LEMMA NumbersStep ==
    ASSUME IInv, Next
    PROVE  NumbersMatch'
<1>1. /\ counter \in Nat /\ request \in [Tasks -> Requests]
      /\ \A t \in Tasks : request[t].number \in Nat /\ request[t].number <= counter
      /\ \A a \in Range(asked) : Matches(a.number, a.what)
      /\ \A m \in Range(inbox) : m.kind = "answer" => Matches(m.to.number, m.to.what)
  BY DEF IInv, TypeOK, NumbersMatch, Requests
<1>2. ASSUME ~Enter
      PROVE  NumbersMatch'
  <2>1. \A a \in Range(asked) : a.number \in Nat
    <3>1. asked \in Seq(Sent)
      BY DEF IInv, TypeOK
    <3>2. Range(asked) \subseteq Sent
      BY <3>1, RangeOfSeq
    <3>3. QED
      BY <3>2
  <2>2. \A m \in Range(inbox) : m.to.number \in Nat
    <3>1. \A m \in Range(inbox) : m \in Messages
      BY RangeOfSeq DEF IInv, TypeOK
    <3>2. QED
      BY <3>1 DEF Messages
  <2>3. /\ counter' \in Nat /\ counter <= counter'
        /\ \A t \in Tasks : request'[t].number <= counter'
        /\ \A n \in Nat : \A what : Matches(n, what) => Matches(n, what)'
    <3>1. CASE NobodyAsks
      <4>1. counter' = counter
        BY <3>1 DEF NobodyAsks
      <4>2. ASSUME NEW t \in Tasks
            PROVE  /\ request'[t].number <= counter'
                   /\ request'[t].number # 0 /\ request'[t].answer = "none" => request'[t] = request[t]
        <5>1. Settles(t) /\ request[t] \in Requests
          BY <1>1, <3>1 DEF NobodyAsks
        <5>2. CASE request'[t] = request[t]
          BY <1>1, <4>1, <5>2
        <5>3. CASE request'[t] = Quiet
          BY <1>1, <4>1, <5>3, QuietIsRequest
        <5>4. CASE request'[t] = [request[t] EXCEPT !.answer = "failed"]
          BY <1>1, <4>1, <5>1, <5>4 DEF Requests
        <5>5. CASE \E m \in Range(inbox) :
                     /\ m.says \in Answers
                     /\ request'[t] = [request[t] EXCEPT !.answer = m.says, !.to = m.to]
          BY <1>1, <4>1, <5>1, <5>5 DEF Requests, Answers
        <5>6. QED
          BY <5>1, <5>2, <5>3, <5>4, <5>5 DEF Settles
      <4>3. QED
        BY <1>1, <4>1, <4>2 DEF Matches, Unanswered
    <3>2. CASE SomebodyAsks
      <4>1. PICK t \in Tasks, what \in Asks : Ask(t, what)
        BY <3>2 DEF SomebodyAsks
      <4>2. /\ counter' = counter + 1
            /\ request' = [request EXCEPT ![t] = [Quiet EXCEPT !.number = counter', !.asks = what]]
        BY <4>1 DEF Ask
      <4>3. [Quiet EXCEPT !.number = counter', !.asks = what].number = counter'
        BY DEF Quiet
      <4>4. \A u \in Tasks : (u = t /\ request'[u].number = counter') \/ request'[u] = request[u]
        BY <1>1, <4>2, <4>3
      <4>5. QED
        BY <1>1, <4>2, <4>4 DEF Matches, Unanswered
    <3>3. QED
      BY <1>2, <3>1, <3>2, RequestsStep DEF IInv
  <2>4. \A a \in Range(asked) : Matches(a.number, a.what)'
    BY <1>1, <2>1, <2>3
  <2>5. \A a \in Range(asked') : Matches(a.number, a.what)'
    <3>1. CASE NobodyAsks
      BY <2>4, <3>1 DEF NobodyAsks
    <3>2. CASE SomebodyAsks
      <4>1. PICK t \in Tasks, what \in Asks : Ask(t, what)
        BY <3>2 DEF SomebodyAsks
      <4>2. /\ counter' = counter + 1
            /\ request' = [request EXCEPT ![t] = [Quiet EXCEPT !.number = counter', !.asks = what]]
            /\ asked' = Append(asked, [number |-> counter', what |-> what])
        BY <4>1 DEF Ask
      <4>3. Range(asked') = Range(asked) \cup {[number |-> counter', what |-> what]}
        <5> DEFINE R == Sent
                   e == [number |-> counter', what |-> what]
        <5>1. e \in R /\ asked \in Seq(R) /\ asked' = Append(asked, e)
          BY <2>3, <4>2 DEF IInv, TypeOK
        <5> HIDE DEF R, e
        <5>2. Range(asked') = Range(asked) \cup {e}
          BY <5>1, RangeOfAppend
        <5>3. QED
          BY <5>2 DEF e
      <4>4. ASSUME NEW n, n = counter'
            PROVE  Matches(n, what)'
        <5>1. [Quiet EXCEPT !.number = counter', !.asks = what].asks = what
          BY DEF Quiet
        <5>2. \A u \in Tasks : u # t => request'[u].number # n
          BY <1>1, <4>2, <4>4
        <5>3. request'[t].asks = what
          BY <1>1, <4>2, <5>1
        <5>4. n <= counter'
          BY <2>3, <4>4
        <5>5. QED
          BY <5>2, <5>3, <5>4 DEF Matches
      <4>5. ASSUME NEW a \in Range(asked')
            PROVE  Matches(a.number, a.what)'
        <5>1. CASE a \in Range(asked)
          BY <2>4, <5>1
        <5>2. CASE a = [number |-> counter', what |-> what]
          BY <4>4, <5>2
        <5>3. QED
          BY <4>3, <5>1, <5>2
      <4>6. QED
        BY <4>5
    <3>3. QED
      BY <1>2, <3>1, <3>2, RequestsStep DEF IInv
  <2>6. \A m \in Range(inbox') : m.kind = "answer" => Matches(m.to.number, m.to.what)'
    BY <1>1, <2>1, <2>2, <2>3, InboxStep DEF IInv
  <2>7. QED
    BY <2>3, <2>5, <2>6 DEF NumbersMatch
<1>3. CASE Enter
  <2> DEFINE first == [Quiet EXCEPT !.number = 1, !.asks = "create"]
  <2>1. /\ counter' = 1 /\ inbox' = <<>>
        /\ request' = [request EXCEPT ![Main] = first]
        /\ asked' = <<[number |-> 1, what |-> "create"]>>
    BY <1>3 DEF Enter
  <2>2. \A t \in Tasks : t # Main => request[t].number = 0
    <3>1. keeper = "none" /\ request[Keeper] = Quiet
      BY <1>3 DEF Enter, IInv, KeeperIsQuiet
    <3>2. \A c \in Callers : request[c] = Quiet
      BY <1>3 DEF Enter, NothingReady
    <3>3. QED
      BY <3>1, <3>2, QuietIsRequest DEF Tasks
  <2>3. first.number = 1 /\ first.asks = "create"
    BY DEF Quiet
  <2>4. Range(inbox') = {} /\ Range(asked') = {[number |-> 1, what |-> "create"]}
    <3>1. Range(<<[number |-> 1, what |-> "create"]>>) = {[number |-> 1, what |-> "create"]}
      BY DEF Range
    <3>2. QED
      BY <2>1, <3>1, RangeOfEmpty
  <2> HIDE DEF first
  <2>5. \A t \in Tasks : \/ t = Main /\ request'[t] = first
                         \/ t # Main /\ request'[t].number = 0
    BY <1>1, <2>1, <2>2
  <2>6. Matches(1, "create")'
    BY <2>1, <2>3, <2>5 DEF Matches
  <2>7. \A t \in Tasks : request'[t].number <= counter'
    BY <2>1, <2>3, <2>5
  <2>8. QED
    BY <2>4, <2>6, <2>7 DEF NumbersMatch
<1>4. QED
  BY <1>2, <1>3

LEMMA AnswersStep ==
    ASSUME IInv, Next
    PROVE  AnswersMatch'
<1> SUFFICES ASSUME NEW t \in Tasks, request'[t].answer \notin {"none", "failed"}
             PROVE  request'[t].to = Message(request'[t].number, request'[t].asks)
  BY DEF AnswersMatch
<1>1. request \in [Tasks -> Requests] /\ request[t] \in Requests
  BY DEF IInv, TypeOK
<1>2. request[t].answer \notin {"none", "failed"} =>
        request[t].to = Message(request[t].number, request[t].asks)
  BY DEF IInv, AnswersMatch
<1>3. CASE NobodyAsks
  <2>1. Settles(t)
    BY <1>3 DEF NobodyAsks
  <2>2. CASE request'[t] \in {request[t], Quiet}
    BY <1>2, <2>2, QuietIsRequest
  <2>3. CASE request'[t] = [request[t] EXCEPT !.answer = "failed"]
    BY <1>1, <2>3 DEF Requests
  <2>4. ASSUME NEW m \in Range(inbox), m.kind = "answer",
               Unanswered(t), request[t].number = m.to.number,
               request'[t] = [request[t] EXCEPT !.answer = m.says, !.to = m.to]
        PROVE  request'[t].to = Message(request'[t].number, request'[t].asks)
    <3>1. m.to = Message(request[t].number, request[t].asks)
      <4>1. m \in Messages
        BY <2>4, RangeOfSeq DEF IInv, TypeOK
      <4>2. m.to \in Sent
        BY <2>4, <4>1 DEF Messages
      <4>3. request[t].asks = m.to.what
        BY <2>4 DEF IInv, NumbersMatch, Matches
      <4>4. QED
        BY <2>4, <4>2, <4>3
    <3>2. /\ request'[t].to = m.to /\ request'[t].asks = request[t].asks
          /\ request'[t].number = request[t].number
      BY <1>1, <2>4 DEF Requests
    <3>3. QED
      BY <3>1, <3>2
  <2>5. QED
    BY <2>1, <2>2, <2>3, <2>4 DEF Settles
<1>4. CASE SomebodyAsks
  <2>1. PICK u \in Tasks, what \in Asks : Ask(u, what)
    BY <1>4 DEF SomebodyAsks
  <2>2. [Quiet EXCEPT !.number = counter', !.asks = what].answer = "none"
    BY DEF Quiet
  <2>3. request'[t] = request[t] \/ request'[t].answer = "none"
    BY <1>1, <2>1, <2>2 DEF Ask
  <2>4. QED
    BY <1>2, <2>3
<1>5. CASE Enter
  <2>1. [Quiet EXCEPT !.number = 1, !.asks = "create"].answer = "none"
    BY DEF Quiet
  <2>2. request'[t] = request[t] \/ request'[t].answer = "none"
    BY <1>1, <1>5, <2>1 DEF Enter
  <2>3. QED
    BY <1>2, <2>2
<1>6. QED
  BY <1>3, <1>4, <1>5, RequestsStep DEF IInv

\* What NumbersAreFresh says of one task.
Fresh(t) ==
    LET number == request'[t].number
    IN  number \notin {0, request[t].number} =>
          /\ \A u \in Tasks : request'[u].number = number => u = t
          /\ \A i, j \in 1..Len(asked') :
               asked'[i].number = number /\ asked'[j].number = number => i = j
          /\ \A i \in 1..Len(inbox') : inbox'[i].to.number # number

LEMMA FreshStep ==
    ASSUME IInv, Next, NEW t \in Tasks
    PROVE  Fresh(t)
<1>1. /\ request \in [Tasks -> Requests] /\ counter \in Nat
      /\ \A u \in Tasks : request[u].number \in Nat /\ request[u].number <= counter
  BY DEF IInv, TypeOK, NumbersMatch, Requests
<1>2. CASE NobodyAsks
  <2>1. Settles(t) /\ request[t] \in Requests
    BY <1>1, <1>2 DEF NobodyAsks
  <2>2. request'[t].number \in {0, request[t].number}
    BY <2>1, QuietIsRequest DEF Settles, Requests
  <2>3. QED
    BY <2>2 DEF Fresh
<1>3. CASE SomebodyAsks
  <2>1. PICK u \in Tasks, what \in Asks : Ask(u, what) /\ UNCHANGED inbox
    BY <1>3 DEF SomebodyAsks
  <2>2. /\ request'[u].number = counter + 1
        /\ \A v \in Tasks : v # u => request'[v] = request[v]
    BY <1>1, <2>1 DEF Ask, Quiet
  <2>3. CASE t # u
    BY <2>2, <2>3 DEF Fresh
  <2>4. CASE t = u
    <3>1. \A v \in Tasks : request'[v].number = counter + 1 => v = t
      BY <1>1, <2>2, <2>4
    <3>2. \A i, j \in 1..Len(asked') :
            asked'[i].number = counter + 1 /\ asked'[j].number = counter + 1 => i = j
      <4> DEFINE e == [number |-> counter + 1, what |-> what]
      <4>1. asked \in Seq(Sent) /\ e \in Sent /\ asked' = Append(asked, e)
        BY <1>1, <2>1 DEF Ask, IInv, TypeOK
      <4> HIDE DEF e
      <4>2. /\ Len(asked) \in Nat /\ Len(asked') = Len(asked) + 1
            /\ \A i \in 1..Len(asked) : asked'[i] = asked[i]
        BY <4>1, AppendProperties, LenProperties
      <4>3. \A i \in 1..Len(asked) : asked[i].number \in Nat /\ asked[i].number <= counter
        <5>1. Range(asked) = {asked[i] : i \in 1..Len(asked)}
          BY <4>1, RangeEquality
        <5>2. \A a \in Range(asked) : a.number <= counter
          BY DEF IInv, NumbersMatch, Matches
        <5>3. \A i \in 1..Len(asked) : asked[i] \in Sent
          BY <4>1, ElementOfSeq
        <5>4. QED
          BY <5>1, <5>2, <5>3
      <4>4. \A i \in 1..Len(asked') : asked'[i].number = counter + 1 => i = Len(asked) + 1
        BY <1>1, <4>2, <4>3
      <4>5. QED
        BY <4>4
    <3>3. \A i \in 1..Len(inbox') : inbox'[i].to.number # counter + 1
      <4>1. inbox' = inbox /\ inbox \in Seq(Messages)
        BY <2>1 DEF IInv, TypeOK
      <4>2. Range(inbox) = {inbox[i] : i \in 1..Len(inbox)}
        BY <4>1, RangeEquality
      <4>3. \A m \in Range(inbox) : m.to.number <= counter /\ m.to.number \in Nat
        <5>1. ASSUME NEW m \in Range(inbox)
              PROVE  m.to.number <= counter /\ m.to.number \in Nat
          <6>1. m \in Messages
            BY <4>1, RangeOfSeq
          <6>2. CASE m.kind = "answer"
            BY <6>1, <6>2 DEF Messages, IInv, NumbersMatch, Matches
          <6>3. CASE m.kind # "answer"
            BY <1>1, <6>1, <6>3 DEF Messages
          <6>4. QED
            BY <6>2, <6>3
        <5>2. QED
          BY <5>1
      <4>4. QED
        BY <1>1, <4>1, <4>2, <4>3
    <3>4. QED
      BY <2>2, <2>4, <3>1, <3>2, <3>3 DEF Fresh
  <2>5. QED
    BY <2>3, <2>4
<1>4. CASE Enter
  <2>1. inbox' = <<>> /\ asked' = <<Message(1, "create")>>
    BY <1>4 DEF Enter
  <2>2. \A u \in Tasks : u # Main => request'[u] = request[u] /\ request[u].number = 0
    <3>1. request[Keeper] = Quiet
      BY <1>4 DEF Enter, IInv, KeeperIsQuiet
    <3>2. \A c \in Callers : request[c] = Quiet
      BY <1>4 DEF Enter, NothingReady
    <3>3. \A u \in Tasks : u # Main => request'[u] = request[u]
      BY <1>1, <1>4 DEF Enter
    <3>4. QED
      BY <3>1, <3>2, <3>3, QuietIsRequest DEF Tasks
  <2>3. Len(asked') = 1 /\ Len(inbox') = 0
    BY <2>1
  <2>4. QED
    BY <2>2, <2>3 DEF Fresh
<1>5. QED
  BY <1>2, <1>3, <1>4, RequestsStep DEF IInv
-------------------------------------------------------------------------------
(* Who runs when: the keeper from the first answer to the end of the farewell, the  *)
(* reader from the connection to the end of the exit.                               *)

\* Where the steps of the block lead from and to.
LEMMA BlockSteps ==
    ASSUME Block
    PROVE  \/ Enter
           \/ Exit /\ step = "body" /\ step' = "pumps"
           \/ Goodbye /\ step \in {"pumps"} \cup Goodbyes /\ step' \in {"reader"} \cup Goodbyes
           \/ ReaderStopped /\ step = "reader" /\ step' = "closing" /\ reader' = "none"
           \/ Close /\ step = "closing" /\ step' = "closing"
           \/ (Closed \/ CloseCancelled) /\ step = "closing" /\ step' = "outside"
           \/ ExitCancelled /\ step \in Goodbyes \cup {"reader"} /\ step' = "abandoned"
<1>1. CASE Goodbye
  BY <1>1, GoodbyeSteps DEF FarewellEnds
<1>2. CASE Exit \/ ReaderStopped \/ Close
  BY <1>2 DEF Exit, ReaderStopped, Close
<1>3. CASE Closed \/ ExitCancelled \/ CloseCancelled
  BY <1>3 DEF Closed, ExitCancelled, CloseCancelled
<1>4. QED
  BY <1>1, <1>2, <1>3 DEF Block

\* The keeper's task, in every step.
LEMMA KeeperSteps ==
    ASSUME Next
    PROVE  \/ UNCHANGED keeper
           \/ keeper = "sleeping" /\ keeper' = "asking"
           \/ KeeperWakes /\ keeper = "sleeping" /\ UNCHANGED request
           \/ (KeeperReturns \/ KeeperTimesOut) /\ Forget(Keeper)
           \/ Negotiation /\ step = "create" /\ step' # "create" /\ keeper' = "sleeping"
           \/ Goodbye /\ FarewellEnds
<1>1. CASE KeeperWakes
  BY <1>1 DEF KeeperWakes
<1>2. CASE KeeperReturns \/ KeeperTimesOut
  BY <1>2 DEF KeeperReturns, KeeperTimesOut
<1>3. CASE Negotiation \/ Interrupted
  <2>1. CASE Negotiation
    BY <2>1, NegotiationSteps DEF NegotiatesBy, GivesIds, AsksOrNot, LeadsOn, Asking, Negotiating, Pushed
  <2>2. CASE Interrupted
    BY <2>2 DEF Interrupted
  <2>3. QED
    BY <1>3, <2>1, <2>2
<1>4. CASE Goodbye
  BY <1>4, GoodbyeSteps
<1>5. CASE FarEnd \/ Reader
  BY <1>5 DEF FarEnd, JanusAnswers, PluginPushes, PeersMeet, JanusSays, LinkEnds, Reader,
              ReaderRoutes, ReaderChokes, ReaderEnds
<1>6. CASE Calls
  BY <1>6 DEF Calls, Caller, CallStarts, CallReturns, CallTimesOut, CallCancelled, CallRefused
<1>7. CASE Events
  BY <1>7 DEF Events, Iterate, Resume, Drop
<1>8. CASE Block /\ ~Goodbye
  BY <1>8 DEF Block, Enter, Exit, ReaderStopped, Close, Closed, ExitCancelled, CloseCancelled
<1>9. QED
  BY <1>1, <1>2, <1>3, <1>4, <1>5, <1>6, <1>7, <1>8, NextByGroups DEF Elsewhere, Keepalive

\* The reader goes only as its finally clause or its cancellation runs.
LEMMA ReaderSteps ==
    ASSUME TypeOK, Next
    PROVE  \/ UNCHANGED reader
           \/ Enter
           \/ /\ reader = "recv" /\ ReaderFinishes
              /\ reader' = "done" /\ up' = TRUE /\ UNCHANGED step
           \/ ReaderStopped /\ step' = "closing"
<1>1. CASE Reader
  BY <1>1, ElsewhereKeepsBlock
     DEF Elsewhere, Reader, ReaderRoutes, ReaderChokes, ReaderEnds, ReaderFinishes
<1>2. CASE FarEnd \/ Keepalive \/ Events
  BY <1>2 DEF FarEnd, JanusAnswers, PluginPushes, PeersMeet, JanusSays, LinkEnds,
     Keepalive, KeeperWakes, KeeperReturns, KeeperTimesOut, Events, Iterate, Resume, Drop
<1>3. CASE Calls
  BY <1>3 DEF Calls, Caller, CallStarts, CallReturns, CallTimesOut, CallCancelled, CallRefused
<1>4. CASE Negotiation \/ Interrupted
  BY <1>4, NegotiationSteps
<1>5. CASE Block
  BY <1>5, GoodbyeSteps
     DEF Block, Enter, Exit, ReaderStopped, Close, Closed, ExitCancelled, CloseCancelled
<1>6. QED
  BY <1>1, <1>2, <1>3, <1>4, <1>5, NextByGroups DEF Elsewhere

LEMMA KeeperStep ==
    ASSUME IInv, Next
    PROVE  KeeperIsQuiet'
<1>1. /\ Keeper \in Tasks /\ Main # Keeper /\ request \in [Tasks -> Requests]
      /\ keeper # "asking" => request[Keeper] = Quiet
      /\ step \in {"outside", "create", "reader", "closing"} => keeper = "none"
  BY SignallingAssumption DEF Tasks, IInv, TypeOK, KeeperIsQuiet
<1>2. request[Keeper] = Quiet /\ keeper' # "asking" => request'[Keeper] = Quiet
  <2> SUFFICES ASSUME request[Keeper] = Quiet, keeper' # "asking"
               PROVE  request'[Keeper] = Quiet
    OBVIOUS
  <2>1. CASE NobodyAsks
    <3>1. Settles(Keeper) /\ ~Unanswered(Keeper)
      BY <1>1, <2>1, QuietIsRequest DEF NobodyAsks, Unanswered
    <3>2. QED
      BY <3>1 DEF Settles
  <2>2. CASE SomebodyAsks
    BY <1>1, <2>2 DEF SomebodyAsks, Ask
  <2>3. CASE Enter
    BY <1>1, <2>3 DEF Enter
  <2>4. QED
    BY <2>1, <2>2, <2>3, RequestsStep DEF IInv
<1>3. keeper' # "asking" => request'[Keeper] = Quiet
  <2> SUFFICES ASSUME keeper' # "asking"
               PROVE  request'[Keeper] = Quiet
    OBVIOUS
  <2>1. CASE keeper # "asking"
    BY <1>1, <1>2, <2>1
  <2>2. CASE Forget(Keeper)
    BY <1>1, <2>2 DEF Forget
  <2>3. CASE FarewellEnds
    BY <1>1, <2>3 DEF FarewellEnds
  <2>4. QED
    BY <1>1, <2>1, <2>2, <2>3, KeeperSteps
<1>4. step' \in {"outside", "create", "reader", "closing"} => keeper' = "none"
  <2>1. CASE Elsewhere
    <3>1. UNCHANGED step
      BY <2>1, ElsewhereKeepsBlock
    <3> SUFFICES ASSUME step \in {"outside", "create", "reader", "closing"}
                 PROVE  keeper' = "none"
      BY <3>1
    <3>2. keeper = "none" /\ request[Keeper].answer = "none"
      BY <1>1, QuietIsRequest
    <3>3. UNCHANGED keeper \/ (Goodbye /\ FarewellEnds)
      BY <3>1, <3>2, KeeperSteps DEF KeeperReturns, KeeperTimesOut
    <3>4. QED
      BY <3>2, <3>3 DEF FarewellEnds
  <2>2. CASE Negotiation \/ Interrupted
    BY <2>2, NegotiationSteps DEF NegotiatesBy, AsksOrNot, LeadsOn, Negotiating, Asking, Pushed
  <2>3. CASE Goodbye
    BY <2>3, GoodbyeSteps DEF FarewellEnds, Goodbyes
  <2>4. CASE Block /\ ~Goodbye
    <3>1. UNCHANGED keeper
      BY <2>4
         DEF Block, Enter, Exit, ReaderStopped, Close, Closed, ExitCancelled, CloseCancelled
    <3>2. step' \in {"outside", "create", "reader", "closing"} => step \in {"outside", "reader", "closing"}
      BY <2>4, BlockSteps DEF Enter
    <3>3. QED
      BY <1>1, <3>1, <3>2
  <2>5. QED
    BY <2>1, <2>2, <2>3, <2>4, NextByGroups
<1>5. QED
  BY <1>3, <1>4 DEF KeeperIsQuiet

\* self._up is reset by the next connection alone.
LEMMA UpSteps ==
    ASSUME TypeOK, Next
    PROVE  \/ Enter
           \/ UNCHANGED up
           \/ up' = TRUE /\ (reader' # "recv" \/ (ReaderRoutes /\ Head(inbox).kind = "up"))
<1>1. CASE Reader
  <2>1. CASE ReaderRoutes
    <3>1. up' = up \/ up' = (up \/ Head(inbox).kind = "up")
      BY <2>1 DEF ReaderRoutes
    <3>2. QED
      BY <2>1, <3>1 DEF TypeOK
  <2>2. CASE ReaderChokes \/ ReaderEnds
    BY <2>2 DEF ReaderChokes, ReaderEnds, ReaderFinishes
  <2>3. QED
    BY <1>1, <2>1, <2>2 DEF Reader
<1>2. CASE FarEnd \/ Keepalive \/ Events
  BY <1>2 DEF FarEnd, JanusAnswers, PluginPushes, PeersMeet, JanusSays, LinkEnds,
     Keepalive, KeeperWakes, KeeperReturns, KeeperTimesOut, Events, Iterate, Resume, Drop
<1>3. CASE Calls
  BY <1>3 DEF Calls, Caller, CallStarts, CallReturns, CallTimesOut, CallCancelled, CallRefused
<1>4. CASE Negotiation \/ Interrupted
  BY <1>4, NegotiationSteps
<1>5. CASE Block
  BY <1>5, GoodbyeSteps
     DEF Block, Enter, Exit, ReaderStopped, Close, Closed, ExitCancelled, CloseCancelled
<1>6. QED
  BY <1>1, <1>2, <1>3, <1>4, <1>5, NextByGroups DEF Elsewhere

\* The consumer waits for an event only while the reader reads.
LEMMA ConsumerSteps ==
    ASSUME Next
    PROVE  UNCHANGED consumer \/ consumer' # "waiting" \/ (reader = "recv" /\ UNCHANGED reader)
<1>1. CASE Reader
  BY <1>1 DEF Reader, ReaderRoutes, ReaderChokes, ReaderEnds, ReaderFinishes, Wakeup
<1>2. CASE FarEnd \/ Keepalive
  BY <1>2 DEF FarEnd, JanusAnswers, PluginPushes, PeersMeet, JanusSays, LinkEnds,
     Keepalive, KeeperWakes, KeeperReturns, KeeperTimesOut
<1>3. CASE Calls
  BY <1>3 DEF Calls, Caller, CallStarts, CallReturns, CallTimesOut, CallCancelled, CallRefused
<1>4. CASE Events
  BY <1>4 DEF Events, Iterate, Resume, Drop, Collect
<1>5. CASE Negotiation \/ Interrupted
  BY <1>5, NegotiationSteps
<1>6. CASE Block
  BY <1>6, GoodbyeSteps
     DEF Block, Enter, Exit, ReaderStopped, Wakeup, Close, Closed, ExitCancelled, CloseCancelled
<1>7. QED
  BY <1>1, <1>2, <1>3, <1>4, <1>5, <1>6, NextByGroups DEF Elsewhere

LEMMA WaitersStep ==
    ASSUME IInv, Next
    PROVE  NobodyWaitsInVain' /\ ReaderLeavesUp'
<1>1. /\ reader \in {"none", "recv", "done"} /\ up \in BOOLEAN /\ request \in [Tasks -> Requests]
      /\ reader = "done" => up
      /\ reader = "none" => step \in {"outside", "closing"}
  BY DEF IInv, TypeOK, ReaderLeavesUp
<1>2. CASE Enter
  BY <1>2 DEF Enter, NobodyWaitsInVain, ReaderLeavesUp
<1>3. CASE ~Enter /\ UNCHANGED reader
  <2>1. ASSUME reader # "recv", NEW t \in Tasks
        PROVE  ~Unanswered(t)'
    <3>1. ~Unanswered(t) /\ request[t] \in Requests
      BY <1>1, <2>1 DEF IInv, NobodyWaitsInVain
    <3>2. NobodyAsks
      BY <1>3, <2>1, RequestsStep DEF SomebodyAsks, Ask, CanAsk, IInv
    <3>3. request'[t] \in {request[t], Quiet}
      BY <3>1, <3>2 DEF NobodyAsks, Settles
    <3>4. QED
      BY <3>1, <3>3, QuietIsRequest DEF Unanswered
  <2>2. reader # "recv" => consumer' # "waiting"
    BY <1>3, ConsumerSteps DEF IInv, NobodyWaitsInVain
  <2>3. reader' = "done" => up'
    BY <1>1, <1>3, UpSteps DEF IInv
  <2>4. reader' = "none" => step' \in {"outside", "closing"}
    <3>1. step \in {"outside", "closing"} => step' \in {"outside", "closing"}
      BY <1>3, ElsewhereKeepsBlock, NegotiationSteps, BlockSteps, NextByGroups
         DEF Negotiating, Asking, Pushed, Goodbyes
    <3>2. QED
      BY <1>1, <1>3, <3>1
  <2>5. reader # "recv" /\ step' = "up" => up'
    BY <1>1, <1>3, <2>3, <2>4
  <2>6. QED
    BY <1>3, <2>1, <2>2, <2>3, <2>4, <2>5 DEF NobodyWaitsInVain, ReaderLeavesUp
<1>4. CASE ReaderFinishes /\ reader' = "done" /\ up' = TRUE /\ UNCHANGED step
  <2>1. \A t \in Tasks : ~Unanswered(t)'
    BY <1>4, FailAcksTyped DEF IInv, ReaderFinishes, Unanswered
  <2>2. consumer' # "waiting"
    BY <1>4 DEF ReaderFinishes, Wakeup
  <2>3. QED
    BY <1>4, <2>1, <2>2 DEF NobodyWaitsInVain, ReaderLeavesUp
<1>5. CASE ReaderStopped /\ step' = "closing"
  <2>1. reader' = "none"
    BY <1>5 DEF ReaderStopped
  <2>2. CASE reader = "recv"
    <3>1. \A t \in Tasks : ~Unanswered(t)'
      BY <1>5, <2>2, FailAcksTyped DEF IInv, ReaderStopped, Unanswered
    <3>2. consumer' # "waiting"
      BY <1>5, <2>2 DEF ReaderStopped, Wakeup
    <3>3. QED
      BY <1>5, <2>1, <3>1, <3>2 DEF NobodyWaitsInVain, ReaderLeavesUp
  <2>3. CASE reader # "recv"
    <3>1. UNCHANGED <<request, consumer>>
      BY <1>5, <2>3 DEF ReaderStopped
    <3>2. \A t \in Tasks : ~Unanswered(t)
      BY <2>3 DEF IInv, NobodyWaitsInVain
    <3>3. consumer # "waiting"
      BY <2>3 DEF IInv, NobodyWaitsInVain
    <3>4. QED
      BY <1>5, <2>1, <3>1, <3>2, <3>3 DEF NobodyWaitsInVain, ReaderLeavesUp, Unanswered
  <2>4. QED
    BY <2>2, <2>3
<1>6. QED
  BY <1>2, <1>3, <1>4, <1>5, ReaderSteps DEF IInv
-------------------------------------------------------------------------------
(* A session that was made known is given up.                                      *)

LEMMA FarewellStep ==
    ASSUME IInv, Next
    PROVE  LearntHasIds' /\ DestroyIsBid' /\ SessionIsDestroyed'
<1>1. /\ learnt \in BOOLEAN /\ bid \in BOOLEAN
      /\ ids \in {{}, {"session"}, {"session", "handle"}}
      /\ learnt /\ step \in Negotiating \cup {"body", "pumps"} => ids # {}
      /\ step = "destroy" => bid
      /\ step = "reader" /\ learnt /\ CanAsk => bid
  BY DEF IInv, TypeOK, LearntHasIds, DestroyIsBid, SessionIsDestroyed
<1>2. CASE Elsewhere
  <2>1. UNCHANGED <<step, ids, learnt, bid>>
    BY <1>2, ElsewhereKeepsBlock
  <2>2. CanAsk' => CanAsk
    <3>1. reader' = "recv" /\ ~Enter /\ ~ReaderStopped => reader = "recv"
      BY ReaderSteps DEF IInv
    <3>2. link' = "open" => link = "open"
      <4>1. CASE FarEnd
        BY <4>1 DEF FarEnd, JanusAnswers, PluginPushes, PeersMeet, JanusSays, LinkEnds, LinkGoes
      <4>2. CASE Reader \/ Keepalive
        BY <4>2 DEF Reader, ReaderRoutes, ReaderChokes, ReaderEnds, Keepalive, KeeperWakes,
           KeeperReturns, KeeperTimesOut
      <4>3. CASE Calls
        BY <4>3 DEF Calls, Caller, CallStarts, CallReturns, CallTimesOut, CallCancelled, CallRefused
      <4>4. CASE Events
        BY <4>4 DEF Events, Iterate, Resume, Drop
      <4>5. QED
        BY <1>2, <4>1, <4>2, <4>3, <4>4 DEF Elsewhere
    <3>3. ~Enter
      BY <2>1 DEF Enter
    <3>4. ~ReaderStopped
      BY <2>1 DEF ReaderStopped
    <3>5. QED
      BY <3>1, <3>2, <3>3, <3>4 DEF CanAsk
  <2>3. QED
    BY <1>1, <2>1, <2>2 DEF LearntHasIds, DestroyIsBid, SessionIsDestroyed
<1>3. CASE Negotiation \/ Interrupted
  <2>1. NegotiatesBy /\ step \in Negotiating /\ UNCHANGED bid
    BY <1>3, NegotiationSteps
  <2>2. step' \in Negotiating \cup {"body", "pumps"} /\ step' # "destroy" /\ step' # "reader"
    BY <2>1 DEF NegotiatesBy, LeadsOn, Negotiating, Asking, Pushed
  <2>3. ids' # {} \/ UNCHANGED <<ids, learnt>>
    BY <2>1 DEF NegotiatesBy, GivesIds
  <2>4. QED
    BY <1>1, <2>1, <2>2, <2>3 DEF LearntHasIds, DestroyIsBid, SessionIsDestroyed
<1>4. CASE Goodbye
  <2>1. step \in {"pumps"} \cup Goodbyes /\ UNCHANGED <<link, reader, learnt>>
    BY <1>4, GoodbyeSteps
  <2>2. CASE \E what \in Goodbyes : step' = what /\ bid' = (bid \/ what = "destroy")
    BY <1>1, <2>2 DEF Goodbyes, LearntHasIds, DestroyIsBid, SessionIsDestroyed, Negotiating,
                      Asking, Pushed
  <2>3. CASE FarewellEnds
    <3>1. step' = "reader" /\ UNCHANGED bid
      BY <2>3 DEF FarewellEnds
    <3>2. \/ step = "destroy"
          \/ step = "pumps" /\ ids = {}
          \/ ~CanAsk
          \/ step' # "reader"
      <4>1. ASSUME NEW what \in Goodbyes, Bid(what)
            PROVE  ~CanAsk \/ step' # "reader"
        BY <4>1 DEF Bid, Goodbyes
      <4>2. \/ step = "destroy"
            \/ step = "pumps" /\ ids = {}
            \/ Bid("stop") \/ Bid("detach") \/ Bid("destroy")
        BY <1>4 DEF Goodbye, NextGoodbye
      <4>3. QED
        BY <4>1, <4>2 DEF Goodbyes
    <3>3. CanAsk' => CanAsk
      BY <2>1 DEF CanAsk
    <3>4. QED
      BY <1>1, <2>1, <3>1, <3>2, <3>3
         DEF LearntHasIds, DestroyIsBid, SessionIsDestroyed, Negotiating, Asking, Pushed
  <2>4. QED
    BY <1>4, <2>2, <2>3, GoodbyeSteps
<1>5. CASE Block /\ ~Goodbye
  <2>1. CASE Enter
    BY <2>1 DEF Enter, LearntHasIds, DestroyIsBid, SessionIsDestroyed
  <2>2. CASE ~Enter
    <3>1. UNCHANGED <<ids, learnt, bid>>
      BY <1>5, <2>2
         DEF Block, Exit, ReaderStopped, Close, Closed, ExitCancelled, CloseCancelled
    <3>2. \/ step = "body" /\ step' = "pumps"
          \/ step' \in {"closing", "outside", "abandoned"}
      BY <1>5, <2>2, BlockSteps
    <3>3. QED
      BY <1>1, <3>1, <3>2
         DEF LearntHasIds, DestroyIsBid, SessionIsDestroyed, Negotiating, Asking, Pushed
  <2>3. QED
    BY <2>1, <2>2
<1>6. QED
  BY <1>2, <1>3, <1>4, <1>5, NextByGroups
-------------------------------------------------------------------------------
(* The peers have met when the block is entered.                                   *)

\* A step asks for `start` from before it, or not at all; what is asked is kept in order.
LEMMA AskedSteps ==
    ASSUME TypeOK, Next
    PROVE  \/ UNCHANGED asked
           \/ Range(asked') = {}
           \/ JanusAnswers /\ asked # <<>> /\ asked' = Tail(asked)
           \/ /\ UNCHANGED met
              /\ \E n \in Nat, what \in Asks :
                   /\ asked' = Append(asked, [number |-> n, what |-> what])
                   /\ what = "start" => step \in BeforeStart /\ step' = "start"
           \/ Enter
<1>1. ASSUME NEW t \in Tasks, NEW what \in Asks, Ask(t, what)
      PROVE  \E n \in Nat : asked' = Append(asked, [number |-> n, what |-> what])
  <2>1. counter' \in Nat /\ asked' = Append(asked, [number |-> counter', what |-> what])
    BY <1>1 DEF Ask, TypeOK
  <2>2. QED
    BY <2>1
<1>2. /\ Main \in Tasks /\ Keeper \in Tasks /\ \A c \in Callers : c \in Tasks
      /\ "keepalive" \in Asks /\ "call" \in Asks
  BY DEF Tasks, Asks
<1>3. CASE FarEnd
  BY <1>3, RangeOfEmpty
     DEF FarEnd, JanusAnswers, PluginPushes, PeersMeet, JanusSays, LinkEnds, LinkGoes
<1>4. CASE Reader
  BY <1>4 DEF Reader, ReaderRoutes, ReaderChokes, ReaderEnds
<1>5. CASE Keepalive
  <2>1. UNCHANGED met /\ (UNCHANGED asked \/ Ask(Keeper, "keepalive"))
    BY <1>5 DEF Keepalive, KeeperWakes, KeeperReturns, KeeperTimesOut
  <2>2. QED
    BY <1>1, <1>2, <2>1
<1>6. CASE Calls
  <2>1. UNCHANGED met /\ (UNCHANGED asked \/ \E c \in Callers : Ask(c, "call"))
    BY <1>6 DEF Calls, Caller, CallStarts, CallReturns, CallTimesOut, CallCancelled, CallRefused
  <2>2. QED
    BY <1>1, <1>2, <2>1
<1>7. CASE Events
  BY <1>7 DEF Events, Iterate, Resume, Drop
<1>8. CASE Negotiation \/ Interrupted
  <2>1. UNCHANGED met /\ NegotiatesBy
    BY <1>8, NegotiationSteps
  <2>2. CASE step' \in Asking /\ Ask(Main, step')
    <3>1. step' = "start" => step \in BeforeStart
      BY <2>1 DEF NegotiatesBy, InOrder, BeforeStart
    <3>2. step' \in Asks
      BY <2>2 DEF Asks
    <3>3. QED
      BY <1>1, <1>2, <2>1, <2>2, <3>1, <3>2
  <2>3. QED
    BY <2>1, <2>2 DEF NegotiatesBy, AsksOrNot
<1>9. CASE Goodbye
  <2>1. UNCHANGED met /\ (UNCHANGED asked \/ \E what \in Goodbyes : Ask(Main, what))
    BY <1>9, GoodbyeSteps DEF FarewellEnds
  <2>2. \A what \in Goodbyes : what \in Asks /\ what # "start"
    BY DEF Asks, Goodbyes
  <2>3. QED
    BY <1>1, <1>2, <2>1, <2>2
<1>10. CASE Block /\ ~Goodbye
  BY <1>10, RangeOfEmpty
     DEF Block, Exit, ReaderStopped, Close, LinkGoes, Closed, LetGo, ExitCancelled, CloseCancelled
<1>11. QED
  BY <1>3, <1>4, <1>5, <1>6, <1>7, <1>8, <1>9, <1>10, NextByGroups DEF Elsewhere

\* Nothing takes the block back to before `start`, but for the next connection.
LEMMA StartStaysAsked ==
    ASSUME Next, ~Enter, step' \in BeforeStart
    PROVE  step \in BeforeStart
<1>1. CASE Elsewhere
  BY <1>1, ElsewhereKeepsBlock
<1>2. CASE Negotiation \/ Interrupted
  BY <1>2, NegotiationSteps DEF NegotiatesBy, InOrder
<1>3. CASE Block
  BY <1>3, BlockSteps DEF BeforeStart, Goodbyes
<1>4. QED
  BY <1>1, <1>2, <1>3, NextByGroups

\* What becomes of the meeting of the peers.
LEMMA MetSteps ==
    ASSUME Next
    PROVE  \/ UNCHANGED met
           \/ JanusAnswers /\ Head(asked).what = "start" /\ met' = "soon"
           \/ PeersMeet /\ met = "soon" /\ met' = "met"
           \/ Range(asked') = {} /\ met # "met" /\ met' = "no"
           \/ /\ step = "closing" /\ step' = "outside"
              /\ Range(asked') = {} /\ Range(inbox') = {} /\ met' = "no"
           \/ Enter
<1>1. CASE FarEnd
  BY <1>1, RangeOfEmpty
     DEF FarEnd, JanusAnswers, PluginPushes, PeersMeet, JanusSays, LinkEnds, LinkGoes
<1>2. CASE Reader \/ Keepalive
  BY <1>2 DEF Reader, ReaderRoutes, ReaderChokes, ReaderEnds, Keepalive, KeeperWakes,
              KeeperReturns, KeeperTimesOut
<1>3. CASE Calls
  BY <1>3 DEF Calls, Caller, CallStarts, CallReturns, CallTimesOut, CallCancelled, CallRefused
<1>4. CASE Events
  BY <1>4 DEF Events, Iterate, Resume, Drop
<1>5. CASE Negotiation \/ Interrupted
  BY <1>5, NegotiationSteps
<1>6. CASE Goodbye
  BY <1>6, GoodbyeSteps
<1>7. CASE Block /\ ~Goodbye
  BY <1>7, RangeOfEmpty
     DEF Block, Exit, ReaderStopped, Close, LinkGoes, Closed, LetGo, ExitCancelled, CloseCancelled
<1>8. QED
  BY <1>1, <1>2, <1>3, <1>4, <1>5, <1>6, <1>7, NextByGroups DEF Elsewhere

LEMMA StartStep ==
    ASSUME IInv, Next
    PROVE  StartOnce'
<1> DEFINE R == Sent
           Alone(s) == \A i, j \in 1..Len(s) : s[i].what = "start" /\ s[j].what = "start" => i = j
<1>1. /\ asked \in Seq(R) /\ Len(asked) \in Nat
      /\ Range(asked) = {asked[i] : i \in 1..Len(asked)}
  <2>1. asked \in Seq(R)
    BY DEF IInv, TypeOK
  <2> HIDE DEF R
  <2> QED
    BY <2>1, LenProperties, RangeEquality
<1>2. /\ \A a \in Range(asked) : a.what = "start" => met = "no" /\ step \notin BeforeStart
      /\ Alone(asked)
      /\ step \in BeforeStart => met = "no"
  BY DEF IInv, StartOnce
<1> HIDE DEF R
<1>3. CASE Enter
  <2>1. met' = "no" /\ asked' = <<[number |-> 1, what |-> "create"]>>
    BY <1>3 DEF Enter
  <2>2. Len(asked') = 1 /\ asked'[1].what = "create"
    BY <2>1
  <2>3. \A a \in Range(asked') : a.what = "create"
    BY <2>1 DEF Range
  <2>4. QED
    BY <2>1, <2>2, <2>3 DEF StartOnce
<1>4. ASSUME ~Enter
      PROVE  StartOnce'
  <2>1. /\ \A a \in Range(asked') : a.what = "start" => met' = "no" /\ step' \notin BeforeStart
        /\ Alone(asked')
    <3>1. CASE UNCHANGED asked
      <4>1. (\E a \in Range(asked) : a.what = "start") => met = "no" /\ step \notin BeforeStart
        BY <1>2
      <4>2. ASSUME \E a \in Range(asked) : a.what = "start"
            PROVE  met' = "no" /\ step' \notin BeforeStart
        <5>1. met = "no" /\ step' \notin BeforeStart
          BY <1>4, <4>1, <4>2, StartStaysAsked
        <5>2. ~JanusAnswers
          <6>1. JanusAnswers => asked # <<>> /\ asked' = Tail(asked)
            BY DEF JanusAnswers
          <6>2. asked # <<>> => Len(Tail(asked)) = Len(asked) - 1
            BY <1>1, HeadTailProperties
          <6>3. QED
            BY <1>1, <3>1, <6>1, <6>2
        <5>3. QED
          BY <1>4, <5>1, <5>2, MetSteps
      <4>3. QED
        BY <1>2, <3>1, <4>2
    <3>2. CASE Range(asked') = {}
      <4>1. \A i \in 1..Len(asked') : FALSE
        <5>1. asked' \in Seq(R) /\ Len(asked') \in Nat
          BY TypesStep, LenProperties DEF IInv, TypeOK, R
        <5>2. Range(asked') = {asked'[i] : i \in 1..Len(asked')}
          BY <5>1, RangeEquality
        <5>3. QED
          BY <3>2, <5>2
      <4>2. QED
        BY <3>2, <4>1
    <3>3. CASE JanusAnswers /\ asked # <<>> /\ asked' = Tail(asked)
      <4>1. /\ Range(asked') \subseteq Range(asked) /\ Head(asked) \in Range(asked)
            /\ Head(asked) = asked[1] /\ Len(asked') = Len(asked) - 1
            /\ \A i \in 1..Len(asked') : asked'[i] = asked[i + 1]
            /\ Range(asked') = {asked'[i] : i \in 1..Len(asked')}
        <5>1. /\ Head(asked) = asked[1] /\ asked' \in Seq(R) /\ Len(asked') = Len(asked) - 1
              /\ \A i \in 1..Len(asked') : asked'[i] = asked[i + 1]
          BY <1>1, <3>3, HeadTailProperties
        <5>2. Range(asked') = {asked'[i] : i \in 1..Len(asked')}
          BY <5>1, RangeEquality
        <5>3. Range(asked') \subseteq Range(asked) /\ Head(asked) \in Range(asked)
          BY <1>1, <3>3, RangeOfTail
        <5>4. QED
          BY <5>1, <5>2, <5>3
      <4>2. Alone(asked')
        <5> SUFFICES ASSUME NEW i \in 1..Len(asked'), NEW j \in 1..Len(asked'),
                            asked'[i].what = "start", asked'[j].what = "start"
                     PROVE  i = j
          OBVIOUS
        <5>1. i + 1 \in 1..Len(asked) /\ j + 1 \in 1..Len(asked)
          BY <1>1, <4>1
        <5>2. asked[i + 1].what = "start" /\ asked[j + 1].what = "start"
          BY <4>1
        <5>3. i + 1 = j + 1
          BY <1>2, <5>1, <5>2
        <5>4. QED
          BY <1>1, <4>1, <5>3
      <4>3. ASSUME NEW a \in Range(asked'), a.what = "start"
            PROVE  met' = "no" /\ step' \notin BeforeStart
        <5>1. met = "no" /\ step' \notin BeforeStart
          BY <1>2, <1>4, <4>1, <4>3, StartStaysAsked
        <5>2. Head(asked).what # "start"
          <6>1. PICK i \in 1..Len(asked') : a = asked'[i]
            BY <4>1, <4>3
          <6>2. /\ i + 1 \in 1..Len(asked) /\ 1 \in 1..Len(asked) /\ i + 1 # 1
                /\ asked[i + 1].what = "start"
            BY <1>1, <4>1, <4>3, <6>1
          <6>3. QED
            BY <1>2, <4>1, <6>2
        <5>3. QED
          BY <1>4, <5>1, <5>2, MetSteps
      <4>4. QED
        BY <4>2, <4>3
    <3>4. ASSUME NEW n \in Nat, NEW what \in Asks, UNCHANGED met,
                 asked' = Append(asked, [number |-> n, what |-> what]),
                 what = "start" => step \in BeforeStart /\ step' = "start"
          PROVE  /\ \A a \in Range(asked') : a.what = "start" => met' = "no" /\ step' \notin BeforeStart
                 /\ Alone(asked')
      <4> DEFINE e == [number |-> n, what |-> what]
      <4>1. e \in R /\ e.what = what /\ asked' = Append(asked, e)
        BY <3>4 DEF R
      <4> HIDE DEF e
      <4>2. /\ Range(asked') = Range(asked) \cup {e}
            /\ Len(asked') = Len(asked) + 1 /\ asked'[Len(asked) + 1] = e
            /\ \A i \in 1..Len(asked) : asked'[i] = asked[i]
        BY <1>1, <4>1, RangeOfAppend, AppendProperties
      <4>3. ASSUME what = "start"
            PROVE  /\ \A i \in 1..Len(asked) : asked[i].what # "start"
                   /\ met = "no" /\ step' \notin BeforeStart
        BY <1>1, <1>2, <3>4, <4>3 DEF BeforeStart
      <4>4. Alone(asked')
        <5> SUFFICES ASSUME NEW i \in 1..Len(asked'), NEW j \in 1..Len(asked'),
                            asked'[i].what = "start", asked'[j].what = "start"
                     PROVE  i = j
          OBVIOUS
        <5>1. /\ i \in 1..Len(asked) \/ i = Len(asked) + 1
              /\ j \in 1..Len(asked) \/ j = Len(asked) + 1
          BY <1>1, <4>2
        <5>2. CASE i \in 1..Len(asked) /\ j \in 1..Len(asked)
          BY <1>2, <4>2, <5>2
        <5>3. CASE what = "start"
          BY <4>2, <4>3, <5>1, <5>3
        <5>4. CASE what # "start"
          BY <4>1, <4>2, <5>1, <5>2, <5>4
        <5>5. QED
          BY <5>3, <5>4
      <4>5. ASSUME NEW a \in Range(asked'), a.what = "start"
            PROVE  met' = "no" /\ step' \notin BeforeStart
        <5>1. CASE a \in Range(asked)
          BY <1>2, <1>4, <3>4, <4>5, <5>1, StartStaysAsked
        <5>2. CASE a = e
          BY <3>4, <4>1, <4>3, <4>5, <5>2
        <5>3. QED
          BY <4>2, <4>5, <5>1, <5>2
      <4>6. QED
        BY <4>4, <4>5
    <3>5. QED
      BY <1>4, <3>1, <3>2, <3>3, <3>4, AskedSteps DEF IInv
  <2>2. step' \in BeforeStart => met' = "no"
    <3> SUFFICES ASSUME step' \in BeforeStart
                 PROVE  met' = "no"
      OBVIOUS
    <3>1. step \in BeforeStart /\ met = "no"
      BY <1>2, <1>4, StartStaysAsked
    <3>2. ~(JanusAnswers /\ Head(asked).what = "start")
      <4>1. JanusAnswers => asked # <<>>
        BY DEF JanusAnswers
      <4>2. asked # <<>> => Head(asked) \in Range(asked)
        BY <1>1, RangeOfTail
      <4>3. QED
        BY <1>2, <3>1, <4>1, <4>2
    <3>3. QED
      BY <1>4, <3>1, <3>2, MetSteps
  <2>3. QED
    BY <2>1, <2>2 DEF StartOnce
<1>5. QED
  BY <1>3, <1>4

\* A failure, once recorded, is kept until the next connection.
LEMMA FailureSteps ==
    ASSUME Next
    PROVE  Enter \/ UNCHANGED failure \/ failure' # "none"
<1>1. CASE FarEnd \/ Events
  BY <1>1 DEF FarEnd, JanusAnswers, PluginPushes, PeersMeet, JanusSays, LinkEnds, Events,
              Iterate, Resume, Drop, Collect
<1>2. CASE Reader
  BY <1>2 DEF Reader, ReaderRoutes, ReaderChokes, ReaderEnds, Record
<1>3. CASE Keepalive
  BY <1>3 DEF Keepalive, KeeperWakes, KeeperReturns, KeeperTimesOut, KeeperStops, Record, Refusal
<1>4. CASE Calls
  <2>1. UNCHANGED report \/ \E kind : ToldTheCaller(kind)
    BY <1>4 DEF Calls, Caller, CallStarts, CallReturns, CallTimesOut, CallCancelled, CallRefused
  <2>2. QED
    BY <2>1 DEF ToldTheCaller
<1>5. CASE Negotiation \/ Interrupted
  BY <1>5, NegotiationSteps
<1>6. CASE Goodbye
  BY <1>6, GoodbyeSteps
<1>7. CASE Block /\ ~Goodbye
  BY <1>7 DEF Block, Exit, ReaderStopped, Close, Closed, ExitCancelled, CloseCancelled
<1>8. QED
  BY <1>1, <1>2, <1>3, <1>4, <1>5, <1>6, <1>7, NextByGroups DEF Elsewhere

LEMMA UpStep ==
    ASSUME IInv, Next
    PROVE  UpIsEarned'
<1>1. /\ asked \in Seq(Sent) /\ inbox \in Seq(Messages) /\ up \in BOOLEAN
      /\ \A m \in Range(inbox) : m.kind = "up" => met = "met"
      /\ up /\ step \notin {"outside", "closing"} => met = "met" \/ failure # "none"
      /\ \A a \in Range(asked) : a.what = "start" => met = "no"
  BY DEF IInv, TypeOK, UpIsEarned, StartOnce
<1>2. CASE Enter
  BY <1>2, RangeOfEmpty DEF Enter, UpIsEarned
<1>3. ASSUME ~Enter
      PROVE  UpIsEarned'
  <2>1. met = "met" => met' = "met" \/ (step' = "outside" /\ Range(inbox') = {})
    <3>1. JanusAnswers => met = "no" \/ Head(asked).what # "start"
      <4>1. JanusAnswers => asked # <<>>
        BY DEF JanusAnswers
      <4>2. asked # <<>> => Head(asked) \in Range(asked)
        BY <1>1, RangeOfTail
      <4>3. QED
        BY <1>1, <4>1, <4>2
    <3>2. QED
      BY <1>3, <3>1, MetSteps
  <2>2. ASSUME NEW m \in Range(inbox'), m.kind = "up"
        PROVE  met' = "met"
    <3>1. CASE m \in Range(inbox)
      BY <1>1, <2>1, <2>2, <3>1
    <3>2. CASE PeersMeet
      BY <3>2 DEF PeersMeet
    <3>3. QED
      BY <2>2, <3>1, <3>2, InboxStep DEF IInv
  <2>3. ASSUME up', step' \notin {"outside", "closing"}
        PROVE  met' = "met" \/ failure' # "none"
    <3>1. step \notin {"outside", "closing"}
      BY <1>3, <2>3, ElsewhereKeepsBlock, NegotiationSteps, BlockSteps, NextByGroups
         DEF Negotiating, Asking, Pushed, Goodbyes
    <3>2. CASE up
      BY <1>1, <1>3, <2>1, <2>3, <3>1, <3>2, FailureSteps
    <3>3. CASE ~up /\ ReaderRoutes /\ Head(inbox).kind = "up"
      <4>1. Head(inbox) \in Range(inbox)
        BY <1>1, <3>3, RangeOfTail DEF ReaderRoutes
      <4>2. met = "met"
        BY <1>1, <3>3, <4>1
      <4>3. QED
        BY <2>1, <2>3, <4>2
    <3>4. CASE ~up /\ reader' # "recv"
      <4>1. CASE UNCHANGED reader
        <5>1. reader \in {"none", "done"}
          BY <3>4, <4>1 DEF IInv, TypeOK
        <5>2. QED
          BY <3>1, <3>4, <5>1 DEF IInv, ReaderLeavesUp
      <4>2. CASE ReaderFinishes /\ UNCHANGED step /\ reader = "recv" /\ reader' = "done"
        <5>1. CASE ReaderChokes \/ ReaderEnds
          BY <3>4, <5>1 DEF ReaderChokes, ReaderEnds, Record
        <5>2. ~ReaderRoutes
          BY <4>2 DEF ReaderRoutes
        <5>3. Reader
          <6>1. CASE FarEnd \/ Keepalive \/ Events
            BY <4>2, <6>1 DEF FarEnd, JanusAnswers, PluginPushes, PeersMeet, JanusSays, LinkEnds,
               Keepalive, KeeperWakes, KeeperReturns, KeeperTimesOut, Events, Iterate, Resume, Drop
          <6>2. CASE Calls
            BY <4>2, <6>2 DEF Calls, Caller, CallStarts, CallReturns, CallTimesOut, CallCancelled,
               CallRefused
          <6>3. CASE Negotiation \/ Interrupted
            BY <4>2, <6>3, NegotiationSteps
          <6>4. CASE Block
            BY <1>3, <4>2, <6>4, BlockSteps, GoodbyeSteps DEF Goodbyes, Exit, Close
          <6>5. QED
            BY <6>1, <6>2, <6>3, <6>4, NextByGroups DEF Elsewhere
        <5>4. QED
          BY <5>1, <5>2, <5>3 DEF Reader
      <4>3. CASE ReaderStopped
        BY <2>3, <4>3 DEF ReaderStopped
      <4>4. QED
        BY <1>3, <4>1, <4>2, <4>3, ReaderSteps DEF IInv
    <3>5. QED
      BY <1>1, <1>3, <2>3, <3>2, <3>3, <3>4, UpSteps DEF IInv
  <2>4. QED
    BY <2>2, <2>3 DEF UpIsEarned
<1>4. QED
  BY <1>2, <1>3
-------------------------------------------------------------------------------
(* A failure is raised by the exit unless somebody was told of it.                 *)

\* How what was told and what was reported move together.
LEMMA ReportSteps ==
    ASSUME TypeOK, Next
    PROVE  \/ UNCHANGED <<failure, reported, seen>>
           \/ UNCHANGED <<reported, seen>>
           \/ Elsewhere /\ \E kind : ToldTheCaller(kind)
           \/ Elsewhere /\ reported' = TRUE /\ failure # "none" /\ See(failure)
           \/ step' = "pumps" /\ raised' = TRUE /\ UNCHANGED seen /\ reported' = TRUE
           \/ Closed
           \/ Enter
<1>1. CASE FarEnd
  BY <1>1 DEF FarEnd, JanusAnswers, PluginPushes, PeersMeet, JanusSays, LinkEnds
<1>2. CASE Reader \/ Keepalive
  BY <1>2 DEF Reader, ReaderRoutes, ReaderChokes, ReaderEnds, Keepalive, KeeperWakes,
              KeeperReturns, KeeperTimesOut
<1>3. CASE Calls
  <2>1. UNCHANGED report \/ \E kind : ToldTheCaller(kind)
    BY <1>3 DEF Calls, Caller, CallStarts, CallReturns, CallTimesOut, CallCancelled, CallRefused
  <2>2. QED
    BY <1>3, <2>1 DEF Elsewhere
<1>4. CASE Events
  <2>1. Collect \/ UNCHANGED report
    BY <1>4 DEF Events, Iterate, Resume, Drop
  <2>2. QED
    BY <1>4, <2>1 DEF Elsewhere, Collect
<1>5. CASE Negotiation \/ Interrupted
  <2>1. UNCHANGED report \/ (step' = "pumps" /\ raised' = TRUE /\ UNCHANGED seen /\ reported' = TRUE)
    BY <1>5 DEF Negotiation, Answered, PushTaken, OfferAnswered, Up, Raise, Interrupted
  <2>2. QED
    BY <2>1
<1>6. CASE Goodbye
  BY <1>6, GoodbyeSteps
<1>7. CASE Block /\ ~Goodbye
  BY <1>7 DEF Block, Exit, ReaderStopped, Close, ExitCancelled, CloseCancelled
<1>8. QED
  BY <1>1, <1>2, <1>3, <1>4, <1>5, <1>6, <1>7, NextByGroups DEF Elsewhere

LEMMA ReportStep ==
    ASSUME IInv, Next
    PROVE  ReportedIsSeen'
<1>1. /\ raised \in BOOLEAN /\ reported \in BOOLEAN
      /\ seen = "break" => reported
      /\ reported /\ ~raised /\ step # "outside" => seen # "nothing"
      /\ step \in Negotiating \cup {"body"} => ~raised
  BY DEF IInv, TypeOK, ReportedIsSeen
<1>2. CASE Enter
  <2>1. step' = "create" /\ raised' = FALSE /\ reported' = FALSE /\ seen' = "nothing"
    BY <1>2 DEF Enter
  <2>2. QED
    BY <2>1 DEF ReportedIsSeen
<1>3. ASSUME ~Enter
      PROVE  ReportedIsSeen'
  <2>1. step' \in Negotiating \cup {"body"} => ~raised'
    <3>1. CASE Elsewhere
      BY <1>1, <3>1, ElsewhereKeepsBlock
    <3>2. CASE Negotiation \/ Interrupted
      <4>1. step \in Negotiating /\ LeadsOn
        BY <3>2, NegotiationSteps DEF NegotiatesBy
      <4>2. QED
        BY <1>1, <4>1 DEF LeadsOn, Negotiating, Asking, Pushed
    <3>3. CASE Block
      BY <1>3, <3>3, BlockSteps DEF Negotiating, Asking, Pushed, Goodbyes
    <3>4. QED
      BY <3>1, <3>2, <3>3, NextByGroups
  <2>2. ~raised' /\ step' # "outside" => ~raised /\ step # "outside"
    <3>1. CASE Elsewhere
      BY <3>1, ElsewhereKeepsBlock
    <3>2. CASE Negotiation \/ Interrupted
      <4>1. step \in Negotiating
        BY <3>2, NegotiationSteps
      <4>2. QED
        BY <1>1, <4>1 DEF Negotiating, Asking, Pushed
    <3>3. CASE Exit
      BY <1>1, <3>3 DEF Exit
    <3>4. CASE Goodbye
      BY <3>4, GoodbyeSteps DEF Goodbyes
    <3>5. CASE ReaderStopped \/ Close \/ Closed
      BY <3>5 DEF ReaderStopped, Close, Closed
    <3>6. CASE ExitCancelled \/ CloseCancelled
      BY <3>6 DEF ExitCancelled, CloseCancelled
    <3>7. QED
      BY <1>3, <3>1, <3>2, <3>3, <3>4, <3>5, <3>6, NextByGroups DEF Block
  <2>3. /\ seen' = "break" => reported'
        /\ reported' /\ ~raised' /\ step' # "outside" => seen' # "nothing"
    <3>1. CASE UNCHANGED <<reported, seen>>
      BY <1>1, <2>2, <3>1
    <3>2. ASSUME NEW kind, ToldTheCaller(kind)
          PROVE  /\ seen' = "break" => reported'
                 /\ reported' /\ ~raised' /\ step' # "outside" => seen' # "nothing"
      <4>1. /\ kind = "socket" => failure' # "none" /\ seen' = "break" /\ reported' = TRUE
            /\ kind # "socket" =>
                 /\ failure' = failure
                 /\ seen' = IF seen = "nothing" /\ failure # "none" THEN "trouble" ELSE seen
        BY <3>2 DEF ToldTheCaller, See
      <4>2. reported' = (reported \/ failure' # "none")
        BY <3>2 DEF ToldTheCaller
      <4>3. CASE kind = "socket"
        BY <4>1, <4>3
      <4>4. CASE kind # "socket"
        <5>1. seen' = "break" => reported'
          BY <1>1, <4>1, <4>2, <4>4
        <5>2. reported' /\ seen' = "nothing" => reported /\ seen = "nothing"
          BY <4>1, <4>2, <4>4
        <5>3. QED
          BY <1>1, <2>2, <5>1, <5>2
      <4>5. QED
        BY <4>3, <4>4
    <3>3. CASE reported' = TRUE /\ failure # "none" /\ See(failure)
      BY <3>3 DEF See
    <3>4. CASE step' = "pumps" /\ raised' = TRUE /\ UNCHANGED seen /\ reported' = TRUE
      BY <1>1, <3>4
    <3>5. CASE Closed
      <4>1. step' = "outside" /\ UNCHANGED seen /\ reported' = (reported \/ Raises)
        BY <3>5 DEF Closed
      <4>2. QED
        BY <1>1, <4>1
    <3>6. QED
      BY <1>3, <3>1, <3>2, <3>3, <3>4, <3>5, ReportSteps DEF IInv
  <2>4. QED
    BY <2>1, <2>3 DEF ReportedIsSeen
<1>4. QED
  BY <1>2, <1>3
-------------------------------------------------------------------------------
(* The invariant, and what follows from it.                                        *)

LEMMA InitInvariant == Init => IInv
<1> SUFFICES ASSUME Init
             PROVE  IInv
  OBVIOUS
<1>1. /\ \A t \in Tasks : request[t] = Quiet
      /\ request = [t \in Tasks |-> Quiet]
      /\ Range(asked) = {} /\ Range(inbox) = {} /\ asked = <<>>
  BY RangeOfEmpty DEF Init
<1>2. TypeOK
  <2>1. request \in [Tasks -> Requests]
    BY <1>1, QuietIsRequest
  <2>2. /\ inbox \in Seq(Messages) /\ pushes \in Seq(Pushes)
        /\ asked \in Seq(Sent)
        /\ owed \in Seq({"features", "watch", "start"})
    BY EmptySeq DEF Init
  <2>3. Len(pushes) <= PushLimit
    BY SignallingAssumption DEF Init
  <2>4. counter \in Nat /\ {raised, pc, up, reported, learnt, bid} \subseteq BOOLEAN
    BY DEF Init
  <2>5. QED
    BY <2>1, <2>2, <2>3, <2>4 DEF Init, TypeOK
<1>3. NobodyWaitsInVain /\ ReaderLeavesUp /\ KeeperIsQuiet
  BY <1>1, QuietIsRequest
     DEF Init, NobodyWaitsInVain, Unanswered, ReaderLeavesUp, KeeperIsQuiet, Tasks
<1>4. NumbersMatch /\ AnswersMatch
  BY <1>1, QuietIsRequest DEF Init, NumbersMatch, AnswersMatch
<1>5. LearntHasIds /\ DestroyIsBid /\ SessionIsDestroyed /\ StartOnce /\ UpIsEarned
  BY <1>1 DEF Init, LearntHasIds, DestroyIsBid, SessionIsDestroyed, StartOnce, BeforeStart, UpIsEarned
<1>6. ReportedIsSeen
  BY DEF Init, ReportedIsSeen, Negotiating, Asking, Pushed
<1>7. QED
  BY <1>2, <1>3, <1>4, <1>5, <1>6 DEF IInv

LEMMA StepInvariant == IInv /\ [Next]_vars => IInv'
<1> SUFFICES ASSUME IInv, [Next]_vars
             PROVE  IInv'
  OBVIOUS
<1>1. CASE Next
  <2>1. TypeOK'
    BY <1>1, TypesStep DEF IInv
  <2>2. NobodyWaitsInVain' /\ ReaderLeavesUp' /\ KeeperIsQuiet' /\ NumbersMatch' /\ AnswersMatch'
    BY <1>1, WaitersStep, KeeperStep, NumbersStep, AnswersStep
  <2>3. LearntHasIds' /\ DestroyIsBid' /\ SessionIsDestroyed'
    BY <1>1, FarewellStep
  <2>4. StartOnce' /\ UpIsEarned' /\ ReportedIsSeen'
    BY <1>1, StartStep, UpStep, ReportStep
  <2>5. QED
    BY <2>1, <2>2, <2>3, <2>4 DEF IInv
<1>2. CASE UNCHANGED vars
  <2>1. TypeOK' /\ NobodyWaitsInVain' /\ ReaderLeavesUp' /\ KeeperIsQuiet'
    BY <1>2 DEF vars, IInv, TypeOK, NobodyWaitsInVain, Unanswered, ReaderLeavesUp, KeeperIsQuiet
  <2>2. NumbersMatch' /\ AnswersMatch'
    BY <1>2 DEF vars, IInv, NumbersMatch, Matches, Unanswered, AnswersMatch
  <2>3. LearntHasIds' /\ DestroyIsBid' /\ SessionIsDestroyed'
    BY <1>2 DEF vars, IInv, LearntHasIds, DestroyIsBid, SessionIsDestroyed, CanAsk
  <2>4. StartOnce' /\ UpIsEarned' /\ ReportedIsSeen'
    BY <1>2 DEF vars, IInv, StartOnce, UpIsEarned, ReportedIsSeen
  <2>5. QED
    BY <2>1, <2>2, <2>3, <2>4 DEF IInv
<1>3. QED
  BY <1>1, <1>2

LEMMA Invariance == Spec => []IInv
BY InitInvariant, StepInvariant, PTL DEF Spec

(* The state of the session, of its requests and of the far end stays in its      *)
(* types, and no more pushes are kept than _PUSH_BUFFER.                           *)
THEOREM TypeCorrect == Spec => []TypeOK
<1>1. IInv => TypeOK
  BY DEF IInv
<1>2. QED
  BY <1>1, Invariance, PTL

(* _request(), _drain() and events(): whatever closes, breaks, times out or is    *)
(* cancelled, nobody is left waiting for what only a reader that has gone brings.   *)
THEOREM WaitersAreWoken == Spec => []NobodyWaitsInVain
<1>1. IInv => NobodyWaitsInVain
  BY DEF IInv
<1>2. QED
  BY <1>1, Invariance, PTL

(* _request(), _route(), _connect(): the answer a request was given was sent to its *)
(* own message, by its number and what it asks for; and that number was fresh when   *)
(* the request went out: no other request has it, and nothing under way on the       *)
(* connection.  So an answer that comes late, to a task that has asked again or on   *)
(* a connection that followed, is never taken for that of another request, not even  *)
(* of one that asks for the same.                                                    *)
THEOREM AnswersAreOwn == Spec => []AnswersMatch /\ NumbersAreFresh
<1>1. IInv => AnswersMatch
  BY DEF IInv
<1>2. IInv /\ [Next]_vars => [\A t \in Tasks : Fresh(t)]_vars
  BY FreshStep
<1>3. Spec => [][\A t \in Tasks : Fresh(t)]_vars
  BY <1>2, Invariance, PTL DEF Spec
<1>4. NumbersAreFresh <=> [][\A t \in Tasks : Fresh(t)]_vars
  BY PTL DEF NumbersAreFresh, Fresh
<1>5. QED
  BY <1>1, <1>3, <1>4, Invariance, PTL

(* _farewell(): once the farewell is over, a session that was made known has been   *)
(* asked to be destroyed, unless there was nobody left to ask.                      *)
THEOREM SessionsAreDestroyed == Spec => []SessionIsDestroyed
<1>1. IInv => SessionIsDestroyed
  BY DEF IInv
<1>2. QED
  BY <1>1, Invariance, PTL

(* __aenter__(): the block is entered only when the peers have met, although the    *)
(* reader sets self._up on its way out too.                                         *)
THEOREM EnteringMeansUp == Spec => EnteredMeansUp
<1>1. IInv /\ [Next]_vars => [step = "up" /\ step' = "body" => met = "met"]_vars
  <2> SUFFICES ASSUME IInv, Next, step = "up", step' = "body"
               PROVE  met = "met"
    OBVIOUS
  <2>1. Negotiation \/ Interrupted
    BY ElsewhereKeepsBlock, BlockSteps, NextByGroups DEF Goodbyes, Enter
  <2>2. up /\ failure = "none"
    BY <2>1, NegotiationSteps DEF NegotiatesBy, LeadsOn, Negotiating, Asking, Pushed
  <2>3. QED
    BY <2>2 DEF IInv, UpIsEarned
<1>2. QED
  BY <1>1, Invariance, PTL DEF Spec, EnteredMeansUp

(* __aexit__(), _told_the_caller(): a clean exit raises a failure that nobody was   *)
(* told of, and none after a caller was told that the link is gone.                *)
THEOREM FailureIsToldOnce == Spec => ToldOnce
<1>1. IInv /\ [Next]_vars => [Closed /\ ~raised =>
                                  /\ failure # "none" /\ seen = "nothing" => Raises
                                  /\ seen = "break" => ~Raises]_vars
  <2> SUFFICES ASSUME IInv, Closed, ~raised
               PROVE  /\ failure # "none" /\ seen = "nothing" => Raises
                      /\ seen = "break" => ~Raises
    OBVIOUS
  <2>1. step = "closing"
    BY DEF Closed
  <2>2. seen = "break" => reported
    BY DEF IInv, ReportedIsSeen
  <2>3. reported => seen # "nothing"
    BY <2>1 DEF IInv, ReportedIsSeen
  <2>4. QED
    BY <2>2, <2>3 DEF Raises
<1>2. QED
  BY <1>1, Invariance, PTL DEF Spec, ToldOnce
-------------------------------------------------------------------------------
(* The session as JanusSession has it: what the mapping needs besides IInv.         *)

\* A task has no request, or one of its own with a number of its own.
CallsAreApart ==
    /\ \A t \in Tasks : request[t] = Quiet \/ (request[t].number # 0 /\ request[t].asks \in Asks)
    /\ \A t, u \in Tasks : request[t].number # 0 /\ request[t].number = request[u].number => t = u

\* There is no reader outside the block, nor once the exit has cancelled it.
ReaderIsGone == step \in {"outside", "closing"} => reader = "none"

\* The ids are there from the answer to `create` to the end of the farewell, and
\* whenever there is a keeper.
IdsFollow ==
    /\ step \in {"outside", "create", "reader", "closing"} => ids = {}
    /\ step \in (Negotiating \ {"create"}) \cup {"body"} \cup Goodbyes => ids # {}
    /\ keeper # "none" => ids # {}

CreateIsAsked == step = "create" => request[Main].asks = "create"

\* `destroy` is the last that is asked of a session.
BidIsLate == bid => step \in {"destroy", "reader", "closing"} \cup Outside

SessionInv == CallsAreApart /\ ReaderIsGone /\ IdsFollow /\ CreateIsAsked /\ BidIsLate

\* The steps of the negotiation are none of the others.
LEMMA StepsApart ==
    /\ \A s \in Negotiating : s \notin {"body", "outside", "abandoned"} \cup Leaving
    /\ "create" \in Negotiating /\ "up" \in Negotiating
    /\ Goodbyes \cap ({"body", "create", "outside", "abandoned", "pumps", "reader", "closing"}) = {}
BY ZenonT(30) DEF Negotiating, Asking, Pushed, Leaving, Goodbyes

LEMMA CallsStep ==
    ASSUME IInv, SessionInv, Next
    PROVE  CallsAreApart'
<1>1. /\ \A t \in Tasks : request[t] = Quiet \/ (request[t].number # 0 /\ request[t].asks \in Asks)
      /\ \A t, u \in Tasks : request[t].number # 0 /\ request[t].number = request[u].number => t = u
      /\ request \in [Tasks -> Requests] /\ counter \in Nat
      /\ \A t \in Tasks : request[t].number <= counter
  BY DEF SessionInv, CallsAreApart, IInv, TypeOK, NumbersMatch
<1>2. CASE NobodyAsks
  <2>1. ASSUME NEW t \in Tasks
        PROVE  \/ request'[t] = Quiet
               \/ /\ request[t].number # 0 /\ request[t].asks \in Asks
                  /\ request'[t].number = request[t].number
                  /\ request'[t].asks = request[t].asks
    <3>1. request[t] \in Requests /\ Settles(t)
      BY <1>1, <1>2 DEF NobodyAsks
    <3>2. Unanswered(t) => request[t].number # 0 /\ request[t] # Quiet
      BY DEF Unanswered, Quiet
    <3>3. ASSUME NEW answer, NEW to
          PROVE  /\ [request[t] EXCEPT !.answer = answer].number = request[t].number
                 /\ [request[t] EXCEPT !.answer = answer].asks = request[t].asks
                 /\ [request[t] EXCEPT !.answer = answer, !.to = to].number = request[t].number
                 /\ [request[t] EXCEPT !.answer = answer, !.to = to].asks = request[t].asks
      BY <3>1 DEF Requests
    <3>4. \/ request'[t] \in {request[t], Quiet}
          \/ /\ Unanswered(t) /\ request'[t].number = request[t].number
             /\ request'[t].asks = request[t].asks
      <4>1. ASSUME Unanswered(t), request'[t] = [request[t] EXCEPT !.answer = "failed"]
            PROVE  /\ request'[t].number = request[t].number
                   /\ request'[t].asks = request[t].asks
        BY <3>3, <4>1
      <4>2. ASSUME NEW m, request'[t] = [request[t] EXCEPT !.answer = m.says, !.to = m.to]
            PROVE  /\ request'[t].number = request[t].number
                   /\ request'[t].asks = request[t].asks
        BY <3>3, <4>2
      <4>3. QED
        BY <3>1, <4>1, <4>2, Zenon DEF Settles
    <3>5. QED
      BY <1>1, <3>2, <3>4
  <2>2. QED
    BY <1>1, <2>1 DEF CallsAreApart, Quiet
<1>3. CASE SomebodyAsks
  <2>1. PICK t \in Tasks, what \in Asks : Ask(t, what)
    BY <1>3 DEF SomebodyAsks
  <2>2. /\ request'[t].number = counter + 1 /\ request'[t].asks = what
        /\ \A u \in Tasks : u # t => request'[u] = request[u]
    BY <1>1, <2>1 DEF Ask, Quiet
  <2>3. \A u \in Tasks : request[u].number \in Nat
    BY <1>1 DEF Requests
  <2>4. QED
    BY <1>1, <2>2, <2>3 DEF CallsAreApart
<1>4. CASE Enter
  <2>1. \A t \in Tasks : t # Main => request'[t] = Quiet
    <3>1. step = "outside" => request[Keeper] = Quiet
      BY DEF IInv, KeeperIsQuiet
    <3>2. \A t \in Tasks : t # Main => request'[t] = request[t]
      BY <1>1, <1>4 DEF Enter
    <3>3. QED
      BY <1>4, <3>1, <3>2 DEF Enter, NothingReady, Tasks
  <2>2. Main \in Tasks => request'[Main].number = 1 /\ request'[Main].asks = "create"
    BY <1>1, <1>4 DEF Enter, Quiet
  <2>3. "create" \in Asks /\ Quiet.number = 0
    BY DEF Asks, Asking, Quiet
  <2>4. QED
    BY <2>1, <2>2, <2>3 DEF CallsAreApart
<1>5. QED
  BY <1>2, <1>3, <1>4, RequestsStep DEF IInv

LEMMA ReaderGoneStep ==
    ASSUME IInv, SessionInv, Next
    PROVE  ReaderIsGone'
<1>1. step \in {"outside", "closing"} => reader = "none"
  BY DEF SessionInv, ReaderIsGone
<1>2. CASE Enter
  BY <1>2 DEF Enter, ReaderIsGone
<1>3. CASE ReaderStopped
  BY <1>3 DEF ReaderStopped, ReaderIsGone
<1>4. ASSUME ~Enter, ~ReaderStopped
      PROVE  ReaderIsGone'
  <2>1. step' \in {"outside", "closing"} => step \in {"outside", "closing"}
    <3>1. CASE Elsewhere
      BY <3>1, ElsewhereKeepsBlock
    <3>2. CASE Negotiation \/ Interrupted
      BY <3>2, NegotiationSteps, StepsApart DEF NegotiatesBy, LeadsOn, Leaving
    <3>3. CASE Block
      BY <1>4, <3>3, BlockSteps, StepsApart
    <3>4. QED
      BY <3>1, <3>2, <3>3, NextByGroups
  <2>2. UNCHANGED reader \/ reader = "recv"
    <3>1. TypeOK
      BY DEF IInv
    <3>2. QED
      BY <1>4, <3>1, ReaderSteps
  <2>3. QED
    BY <1>1, <2>1, <2>2 DEF ReaderIsGone
<1>5. QED
  BY <1>2, <1>3, <1>4

\* What the answer to `create` leads to.
LEMMA CreateSteps ==
    ASSUME Negotiation \/ Interrupted, step = "create"
    PROVE  \/ request[Main].answer = "ok" /\ ids' # {} /\ Then("attach")
           \/ step' = "pumps" /\ Forget(Main) /\ UNCHANGED <<ids, counter>>
BY DEF Negotiation, Answered, PushTaken, OfferAnswered, Up, Interrupted, Raise, Pushed

\* Which goodbye is bid, and when they are over.
LEMMA GoodbyeGoesOn ==
    ASSUME Goodbye
    PROVE  \/ FarewellEnds /\ (ids = {} \/ step = "destroy" \/ ~CanAsk)
           \/ \E what \in Goodbyes :
                /\ Ask(Main, what) /\ step' = what
                /\ bid' = (bid \/ what = "destroy")
                /\ UNCHANGED <<ids, keeper>>
                /\ step # "destroy" /\ (step \in Goodbyes \/ ids # {})
BY DEF Goodbye, NextGoodbye, Bid, Goodbyes

LEMMA IdsStep ==
    ASSUME IInv, SessionInv, Next
    PROVE  IdsFollow'
<1>1. /\ step \in {"outside", "create", "reader", "closing"} => ids = {}
      /\ step \in (Negotiating \ {"create"}) \cup {"body"} \cup Goodbyes => ids # {}
      /\ keeper # "none" => ids # {}
  BY DEF SessionInv, IdsFollow
<1>2. CASE Elsewhere
  <2>1. UNCHANGED <<step, ids>>
    BY <1>2, ElsewhereKeepsBlock
  <2>2. keeper' # "none" => keeper # "none"
    <3>1. KeeperReturns \/ KeeperTimesOut => keeper # "none"
      <4>1. keeper # "asking" => request[Keeper].answer = "none"
        BY QuietIsRequest DEF IInv, KeeperIsQuiet
      <4>2. QED
        BY <4>1 DEF KeeperReturns, KeeperTimesOut
    <3>2. FarewellEnds => keeper' = "none"
      BY DEF FarewellEnds
    <3>3. QED
      BY <2>1, <3>1, <3>2, KeeperSteps
  <2>3. QED
    BY <1>1, <2>1, <2>2 DEF IdsFollow
<1>3. CASE Negotiation \/ Interrupted
  <2>1. step \in Negotiating /\ LeadsOn /\ GivesIds /\ step' # "create"
    BY <1>3, NegotiationSteps DEF NegotiatesBy, AsksOrNot, Asking
  <2>2. CASE step = "create"
    <3>1. ids' # {} \/ step' = "pumps"
      BY <1>3, <2>2, CreateSteps
    <3>2. keeper' # "none" => ids' # {}
      BY <1>1, <2>1 DEF GivesIds
    <3>3. QED
      BY <2>1, <3>1, <3>2, StepsApart DEF IdsFollow, LeadsOn, Leaving
  <2>3. CASE step # "create"
    <3>1. ids' # {}
      BY <1>1, <2>1, <2>3 DEF GivesIds
    <3>2. QED
      BY <2>1, <3>1, StepsApart DEF IdsFollow, LeadsOn, Leaving
  <2>4. QED
    BY <2>2, <2>3
<1>4. CASE Enter
  <2>1. step = "outside" /\ step' = "create" /\ UNCHANGED <<ids, keeper>>
    BY <1>4 DEF Enter
  <2>2. QED
    BY <1>1, <2>1 DEF IdsFollow, Goodbyes
<1>5. CASE Goodbye
  <2>1. CASE FarewellEnds
    BY <2>1 DEF FarewellEnds, IdsFollow, Negotiating, Asking, Pushed, Goodbyes
  <2>2. CASE ~FarewellEnds
    <3>1. step' \in Goodbyes /\ UNCHANGED <<ids, keeper>> /\ (step \in Goodbyes \/ ids # {})
      BY <1>5, <2>2, GoodbyeGoesOn
    <3>2. QED
      BY <1>1, <3>1 DEF IdsFollow, Goodbyes
  <2>3. QED
    BY <2>1, <2>2
<1>6. CASE Exit \/ ReaderStopped \/ Close \/ Closed \/ ExitCancelled \/ CloseCancelled
  <2>1. UNCHANGED <<ids, keeper>>
    BY <1>6 DEF Exit, ReaderStopped, Close, Closed, ExitCancelled, CloseCancelled
  <2>2. \/ step' \in {"pumps", "abandoned"}
        \/ step \in {"reader", "closing"} /\ step' \in {"closing", "outside"}
    BY <1>6 DEF Exit, ReaderStopped, Close, Closed, ExitCancelled, CloseCancelled
  <2>3. QED
    BY <1>1, <2>1, <2>2, StepsApart DEF IdsFollow, Leaving
<1>7. QED
  BY <1>2, <1>3, <1>4, <1>5, <1>6, NextByGroups DEF Block

\* No other task touches what the block's task has asked.
LEMMA ElsewhereKeepsMain ==
    ASSUME TypeOK, Elsewhere
    PROVE  request'[Main].asks = request[Main].asks
<1>1. /\ Main \in Tasks /\ Main # Keeper /\ \A c \in Callers : Main # c
      /\ request \in [Tasks -> Requests] /\ request[Main] \in Requests
  BY SignallingAssumption DEF Tasks, TypeOK
<1>2. CASE FarEnd \/ Events
  BY <1>2 DEF FarEnd, JanusAnswers, PluginPushes, PeersMeet, JanusSays, LinkEnds,
              Events, Iterate, Resume, Drop
<1>3. CASE Reader
  <2>1. UNCHANGED request \/ FailAcks(Tasks) \/ \E m : Resolve(m)
    BY <1>3 DEF Reader, ReaderRoutes, ReaderChokes, ReaderEnds, ReaderFinishes
  <2>2. ASSUME FailAcks(Tasks)
        PROVE  request'[Main].asks = request[Main].asks
    <3>1. request'[Main] = IF Unanswered(Main) THEN [request[Main] EXCEPT !.answer = "failed"]
                                              ELSE request[Main]
      BY <1>1, <2>2 DEF FailAcks
    <3>2. QED
      BY <1>1, <3>1 DEF Requests
  <2>3. ASSUME NEW m, Resolve(m)
        PROVE  request'[Main].asks = request[Main].asks
    <3>1. request'[Main] = IF Unanswered(Main) /\ request[Main].number = m.to.number
                           THEN [request[Main] EXCEPT !.answer = m.says, !.to = m.to]
                           ELSE request[Main]
      BY <1>1, <2>3, ZenonT(20) DEF Resolve
    <3>2. QED
      BY <1>1, <3>1 DEF Requests
  <2>4. QED
    BY <2>1, <2>2, <2>3
<1>4. CASE Keepalive
  <2>1. UNCHANGED request \/ Forget(Keeper) \/ Ask(Keeper, "keepalive")
    BY <1>4 DEF Keepalive, KeeperWakes, KeeperReturns, KeeperTimesOut
  <2>2. QED
    BY <1>1, <2>1 DEF Forget, Ask
<1>5. CASE Calls
  <2>1. UNCHANGED request \/ \E c \in Callers : Forget(c) \/ Ask(c, "call")
    BY <1>5 DEF Calls, Caller, CallStarts, CallReturns, CallTimesOut, CallCancelled, CallRefused
  <2>2. QED
    BY <1>1, <2>1 DEF Forget, Ask
<1>6. QED
  BY <1>2, <1>3, <1>4, <1>5 DEF Elsewhere

LEMMA CreateStep ==
    ASSUME IInv, SessionInv, Next
    PROVE  CreateIsAsked'
<1>1. CASE Elsewhere
  BY <1>1, ElsewhereKeepsMain, ElsewhereKeepsBlock DEF IInv, SessionInv, CreateIsAsked
<1>2. CASE Negotiation \/ Interrupted
  BY <1>2, NegotiationSteps DEF NegotiatesBy, AsksOrNot, Asking, CreateIsAsked
<1>3. CASE Enter
  <2>1. Main \in Tasks /\ request \in [Tasks -> Requests]
    BY DEF Tasks, IInv, TypeOK
  <2>2. request'[Main] = [Quiet EXCEPT !.number = 1, !.asks = "create"]
    BY <1>3, <2>1 DEF Enter
  <2>3. QED
    BY <2>2 DEF Quiet, CreateIsAsked
<1>4. CASE Block /\ ~Enter
  BY <1>4, BlockSteps DEF CreateIsAsked, Goodbyes
<1>5. QED
  BY <1>1, <1>2, <1>3, <1>4, NextByGroups

LEMMA BidStep ==
    ASSUME IInv, SessionInv, Next
    PROVE  BidIsLate'
<1>1. bid \in BOOLEAN /\ (bid => step \in {"destroy", "reader", "closing"} \cup Outside)
  BY DEF IInv, TypeOK, SessionInv, BidIsLate
<1>2. CASE Elsewhere
  BY <1>1, <1>2, ElsewhereKeepsBlock DEF BidIsLate
<1>3. CASE Negotiation \/ Interrupted
  <2>1. step \in Negotiating /\ bid' = bid
    BY <1>3, NegotiationSteps
  <2>2. step \notin {"destroy", "reader", "closing", "outside", "abandoned"}
    BY <2>1, StepsApart DEF Leaving, Goodbyes
  <2>3. QED
    BY <1>1, <2>1, <2>2 DEF BidIsLate, Outside
<1>4. CASE Enter
  BY <1>4 DEF Enter, BidIsLate
<1>5. CASE Goodbye
  <2>1. CASE FarewellEnds
    BY <2>1 DEF FarewellEnds, BidIsLate
  <2>2. CASE ~FarewellEnds
    <3>1. PICK what \in Goodbyes : /\ step' = what /\ bid' = (bid \/ what = "destroy")
                                   /\ step # "destroy"
      BY <1>5, <2>2, GoodbyeGoesOn
    <3>2. ~bid
      BY <1>1, <1>5, <3>1, GoodbyeSteps DEF Goodbyes, Outside
    <3>3. QED
      BY <3>1, <3>2 DEF BidIsLate
  <2>3. QED
    BY <2>1, <2>2
<1>6. CASE Exit \/ ReaderStopped \/ Close \/ Closed \/ ExitCancelled \/ CloseCancelled
  <2>1. UNCHANGED bid
    BY <1>6 DEF Exit, ReaderStopped, Close, Closed, ExitCancelled, CloseCancelled
  <2>2. step = "body" \/ step' \in {"closing"} \cup Outside
    BY <1>6 DEF Exit, ReaderStopped, Close, Closed, ExitCancelled, CloseCancelled, Outside
  <2>3. QED
    BY <1>1, <2>1, <2>2 DEF BidIsLate, Outside
<1>7. QED
  BY <1>2, <1>3, <1>4, <1>5, <1>6, NextByGroups DEF Block

LEMMA InitSession == Init => SessionInv
<1> SUFFICES ASSUME Init
             PROVE  SessionInv
  OBVIOUS
<1>1. CallsAreApart
  BY QuietIsRequest DEF Init, CallsAreApart
<1>2. ReaderIsGone /\ IdsFollow /\ CreateIsAsked /\ BidIsLate
  BY DEF Init, ReaderIsGone, IdsFollow, CreateIsAsked, BidIsLate, Negotiating, Asking, Pushed,
         Goodbyes
<1>3. QED
  BY <1>1, <1>2 DEF SessionInv

LEMMA StepSession == IInv /\ SessionInv /\ [Next]_vars => SessionInv'
<1> SUFFICES ASSUME IInv, SessionInv, [Next]_vars
             PROVE  SessionInv'
  OBVIOUS
<1>1. CASE Next
  BY <1>1, CallsStep, ReaderGoneStep, IdsStep, CreateStep, BidStep DEF SessionInv
<1>2. CASE UNCHANGED vars
  BY <1>2 DEF vars, SessionInv, CallsAreApart, ReaderIsGone, IdsFollow, CreateIsAsked, BidIsLate
<1>3. QED
  BY <1>1, <1>2

LEMMA SessionInvariance == Spec => []SessionInv
BY Invariance, InitSession, StepSession, PTL DEF Spec

(* How what JanusSession speaks of moves with what it is mapped to.                 *)

Called == [t \in Tasks |-> CallOf(t)]
Known == IF ids = {} THEN "none" ELSE IF bid THEN "bid" ELSE "known"

\* Of one request, the call it is seen as.
LEMMA CallSeen ==
    ASSUME IInv, SessionInv, NEW t \in Tasks
    PROVE  /\ CallOf(t) = [turn |-> request[t].number, asks |-> request[t].asks,
                             answer |-> request[t].answer]
           /\ Session!Waits(t) <=> Unanswered(t)
<1>1. /\ request[t].answer \notin {"none", "failed"} =>
           request[t].to = Message(request[t].number, request[t].asks)
      /\ request[t] = Quiet \/ (request[t].number # 0 /\ request[t].asks \in Asks)
  BY DEF IInv, AnswersMatch, SessionInv, CallsAreApart
<1>2. CallOf(t) = [turn |-> request[t].number, asks |-> request[t].asks,
                   answer |-> request[t].answer]
  BY <1>1 DEF CallOf
<1>3. "nothing" \notin Asks
  BY DEF Asks, Asking, Goodbyes
<1>4. Called[t] = CallOf(t)
  BY DEF Called
<1>5. Session!Waits(t) <=> CallOf(t) # Session!Idle /\ CallOf(t).answer = "none"
  BY DEF Session!Waits
<1>6. CASE request[t] = Quiet
  BY <1>2, <1>5, <1>6 DEF Quiet, Session!Idle, Unanswered
<1>7. CASE request[t].number # 0 /\ request[t].asks \in Asks
  BY <1>2, <1>3, <1>5, <1>7 DEF Session!Idle, Unanswered
<1>8. QED
  BY <1>1, <1>2, <1>6, <1>7

LEMMA ForgottenCall ==
    ASSUME TypeOK, NEW t \in Tasks, Forget(t)
    PROVE  Called' = [Called EXCEPT ![t] = Session!Idle]
<1>1. /\ request'[t] = Quiet /\ \A u \in Tasks : u # t => request'[u] = request[u]
  BY DEF Forget, TypeOK
<1>2. CallOf(t)' = Session!Idle /\ \A u \in Tasks : u # t => CallOf(u)' = CallOf(u)
  BY <1>1 DEF CallOf, Quiet, Session!Idle
<1>3. QED
  BY <1>2 DEF Called

LEMMA AskedCall ==
    ASSUME TypeOK, NEW t \in Tasks, NEW what, Ask(t, what)
    PROVE  Session!Turn(t, what)
<1>1. /\ request'[t].asks = what /\ request'[t].answer = "none" /\ request'[t].number = counter'
      /\ counter' = counter + 1
      /\ \A u \in Tasks : u # t => request'[u] = request[u]
  BY DEF Ask, TypeOK, Quiet
<1>2. CallOf(t)' = Session!Asked(counter', what) /\ \A u \in Tasks : u # t => CallOf(u)' = CallOf(u)
  BY <1>1 DEF CallOf, Session!Asked
<1>3. QED
  BY <1>1, <1>2 DEF Session!Turn

LEMMA FailedCalls ==
    ASSUME IInv, SessionInv, FailAcks(Tasks)
    PROVE  Called' = [t \in Tasks |-> IF Session!Waits(t) THEN [Called[t] EXCEPT !.answer = "failed"]
                                                         ELSE Called[t]]
<1>1. ASSUME NEW t \in Tasks
      PROVE  CallOf(t)' = IF Session!Waits(t) THEN [CallOf(t) EXCEPT !.answer = "failed"]
                                             ELSE CallOf(t)
  <2>1. request[t] \in Requests
    BY DEF IInv, TypeOK
  <2>2. request'[t] = IF Unanswered(t) THEN [request[t] EXCEPT !.answer = "failed"] ELSE request[t]
    BY DEF FailAcks
  <2>3. CASE Unanswered(t)
    <3>1. /\ request'[t].answer = "failed" /\ request'[t].asks = request[t].asks
          /\ request'[t].number = request[t].number
      BY <2>1, <2>2, <2>3 DEF Requests
    <3>2. CallOf(t)' = [turn |-> request[t].number, asks |-> request[t].asks, answer |-> "failed"]
      BY <3>1 DEF CallOf
    <3>3. QED
      BY <2>3, <3>2, CallSeen
  <2>4. CASE ~Unanswered(t)
    BY <2>2, <2>4, CallSeen DEF CallOf
  <2>5. QED
    BY <2>3, <2>4
<1>2. QED
  BY <1>1 DEF Called

\* An acknowledgement is the answer of one call, or of none.
LEMMA AnsweredCall ==
    ASSUME IInv, SessionInv,
           NEW m, m \in Range(inbox), m.kind = "answer", m.says \in Answers, Resolve(m)
    PROVE  \/ Called' = Called
           \/ \E t \in Tasks : /\ Session!Waits(t)
                               /\ Called' = [Called EXCEPT ![t].answer = m.says]
<1>1. \A t \in Tasks : request'[t] = IF Unanswered(t) /\ request[t].number = m.to.number
                                     THEN [request[t] EXCEPT !.answer = m.says, !.to = m.to]
                                     ELSE request[t]
  BY DEF Resolve
<1>2. CASE \A t \in Tasks : ~(Unanswered(t) /\ request[t].number = m.to.number)
  <2>1. \A t \in Tasks : CallOf(t)' = CallOf(t)
    BY <1>1, <1>2 DEF CallOf
  <2>2. QED
    BY <2>1 DEF Called
<1>3. ASSUME NEW t \in Tasks, Unanswered(t), request[t].number = m.to.number
      PROVE  Session!Waits(t) /\ Called' = [Called EXCEPT ![t].answer = m.says]
  <2>1. \A u \in Tasks : u # t => ~(Unanswered(u) /\ request[u].number = m.to.number)
    BY <1>3 DEF Unanswered, SessionInv, CallsAreApart
  <2>2. \A u \in Tasks : u # t => CallOf(u)' = CallOf(u)
    BY <1>1, <2>1 DEF CallOf
  <2>3. request[t] \in Requests /\ request[t].asks = m.to.what
    BY <1>3 DEF IInv, TypeOK, NumbersMatch, Matches
  <2>4. request'[t].answer = m.says /\ request'[t].to = m.to
    BY <1>1, <1>3, <2>3 DEF Requests
  <2>5. CallOf(t)' = [turn |-> m.to.number, asks |-> m.to.what, answer |-> m.says]
    <3>1. m.says \notin {"none", "failed"}
      BY DEF Answers
    <3>2. QED
      BY <2>4, <3>1 DEF CallOf
  <2>6. /\ CallOf(t) = [turn |-> request[t].number, asks |-> request[t].asks,
                        answer |-> request[t].answer]
        /\ Session!Waits(t)
    BY <1>3, CallSeen
  <2>7. CallOf(t)' = [CallOf(t) EXCEPT !.answer = m.says]
    BY <1>3, <2>3, <2>5, <2>6
  <2>8. QED
    BY <2>2, <2>6, <2>7 DEF Called
<1>4. QED
  BY <1>2, <1>3

(* The steps of the abstract session that a change of the mapped state is.          *)

LEMMA SeenUnchanged ==
    ASSUME UNCHANGED <<Called, counter, Known>>, (reader' = "recv") <=> (reader = "recv"),
           UNCHANGED link
    PROVE  [Session!Next]_(Session!vars)
<1>1. UNCHANGED Session!vars
  BY DEF Session!vars, Called, Known
<1>2. QED
  BY <1>1

LEMMA SeenReturn ==
    ASSUME TypeOK, NEW t \in Tasks, Forget(t), UNCHANGED <<counter, Known, reader, link>>
    PROVE  [Session!Next]_(Session!vars)
<1>1. Called' = [Called EXCEPT ![t] = Session!Idle]
  BY ForgottenCall
<1>2. CASE Called[t] = Session!Idle
  <2>1. Called' = Called
    BY <1>1, <1>2 DEF Called
  <2>2. QED
    BY <2>1, SeenUnchanged
<1>3. CASE Called[t] # Session!Idle
  <2>1. Session!Return(t)
    BY <1>1, <1>3 DEF Session!Return, Called, Known
  <2>2. QED
    BY <2>1 DEF Session!Next
<1>4. QED
  BY <1>2, <1>3

LEMMA SeenAsk ==
    ASSUME TypeOK, NEW t \in Tasks, NEW what \in Asks \ {"create"}, Ask(t, what),
           ids # {}, what = "destroy" => ~bid,
           Known' = IF what = "destroy" THEN "bid" ELSE Known,
           UNCHANGED <<reader, link>>
    PROVE  [Session!Next]_(Session!vars)
<1>1. Session!Turn(t, what)
  BY AskedCall
<1>2. reader = "recv" /\ link = "open" /\ Known # "none"
  BY DEF Ask, CanAsk, Known
<1>3. Session!Ask(t, what)
  BY <1>1, <1>2 DEF Session!Ask, Known
<1>4. QED
  BY <1>3 DEF Session!Next

LEMMA SeenStop ==
    ASSUME IInv, SessionInv, FailAcks(Tasks), reader = "recv", reader' # "recv",
           UNCHANGED <<counter, Known, link>>
    PROVE  [Session!Next]_(Session!vars)
<1>1. Session!Stop
  BY FailedCalls DEF Session!Stop, Called, Known
<1>2. QED
  BY <1>1 DEF Session!Next

LEMMA SeenLose ==
    ASSUME UNCHANGED <<Called, counter, Known, reader>>, link' # "open"
    PROVE  [Session!Next]_(Session!vars)
<1>1. Session!Lose
  BY DEF Session!Lose, Called, Known
<1>2. QED
  BY <1>1 DEF Session!Next

(* Each group of steps, as the abstract session sees it.                            *)

LEMMA FarEndSeen ==
    ASSUME FarEnd \/ Events
    PROVE  [Session!Next]_(Session!vars)
<1>1. UNCHANGED <<request, counter, reader, ids, bid>> /\ (UNCHANGED link \/ link' # "open")
  BY DEF FarEnd, JanusAnswers, PluginPushes, PeersMeet, JanusSays, LinkEnds, LinkGoes,
         Events, Iterate, Resume, Drop
<1>2. UNCHANGED <<Called, Known>>
  BY <1>1 DEF Called, CallOf, Known
<1>3. QED
  BY <1>1, <1>2, SeenUnchanged, SeenLose

LEMMA ReaderSeen ==
    ASSUME IInv, SessionInv, Reader
    PROVE  [Session!Next]_(Session!vars)
<1>1. UNCHANGED <<link, counter, ids, bid>>
  BY DEF Reader, ReaderRoutes, ReaderChokes, ReaderEnds
<1>2. UNCHANGED Known
  BY <1>1 DEF Known
<1>3. CASE ReaderRoutes
  <2> DEFINE m == Head(inbox)
  <2>1. reader = "recv" /\ UNCHANGED reader /\ inbox # <<>>
    BY <1>3 DEF ReaderRoutes
  <2>2. m \in Range(inbox) /\ (m.kind = "answer" => m.says \in Answers)
    BY <2>1, RangeOfTail, InboxRead DEF IInv, TypeOK
  <2>3. UNCHANGED request \/ (m.kind = "answer" /\ Resolve(m))
    BY <1>3 DEF ReaderRoutes
  <2> HIDE DEF m
  <2>4. CASE UNCHANGED request
    <3>1. UNCHANGED Called
      BY <2>4 DEF Called, CallOf
    <3>2. QED
      BY <1>1, <1>2, <2>1, <3>1, SeenUnchanged
  <2>5. CASE m.kind = "answer" /\ Resolve(m)
    <3>1. CASE Called' = Called
      BY <1>1, <1>2, <2>1, <3>1, SeenUnchanged
    <3>2. ASSUME NEW t \in Tasks, Session!Waits(t),
                 Called' = [Called EXCEPT ![t].answer = m.says]
          PROVE  [Session!Next]_(Session!vars)
      <4>1. Session!Answer(t, m.says)
        BY <1>1, <1>2, <2>1, <3>2 DEF Session!Answer, Called, Known
      <4>2. m.says \in Answers
        BY <2>2, <2>5
      <4>3. QED
        BY <4>1, <4>2 DEF Session!Next
    <3>3. QED
      BY <2>2, <2>5, <3>1, <3>2, AnsweredCall
  <2>6. QED
    BY <2>3, <2>4, <2>5
<1>4. CASE ReaderChokes \/ ReaderEnds
  <2>1. reader = "recv" /\ reader' # "recv" /\ FailAcks(Tasks)
    BY <1>4 DEF ReaderChokes, ReaderEnds, ReaderFinishes
  <2>2. QED
    BY <1>1, <1>2, <2>1, SeenStop
<1>5. QED
  BY <1>3, <1>4 DEF Reader

LEMMA KeeperSeen ==
    ASSUME IInv, SessionInv, Keepalive
    PROVE  [Session!Next]_(Session!vars)
<1>1. UNCHANGED <<link, reader, ids, bid>>
  BY DEF Keepalive, KeeperWakes, KeeperReturns, KeeperTimesOut
<1>2. UNCHANGED Known /\ Keeper \in Tasks /\ TypeOK
  BY <1>1 DEF Known, Tasks, IInv
<1>3. \/ UNCHANGED counter /\ (UNCHANGED request \/ Forget(Keeper))
      \/ keeper = "sleeping" /\ Ask(Keeper, "keepalive")
  BY DEF Keepalive, KeeperWakes, KeeperReturns, KeeperTimesOut
<1>4. CASE UNCHANGED <<counter, request>>
  <2>1. UNCHANGED Called
    BY <1>4 DEF Called, CallOf
  <2>2. QED
    BY <1>1, <1>2, <1>4, <2>1, SeenUnchanged
<1>5. CASE UNCHANGED counter /\ Forget(Keeper)
  BY <1>1, <1>2, <1>5, SeenReturn
<1>6. CASE keeper = "sleeping" /\ Ask(Keeper, "keepalive")
  <2>1. ids # {}
    BY <1>6 DEF SessionInv, IdsFollow
  <2>2. "keepalive" \in Asks \ {"create"}
    BY DEF Asks
  <2>3. QED
    BY <1>1, <1>2, <1>6, <2>1, <2>2, SeenAsk
<1>7. QED
  BY <1>3, <1>4, <1>5, <1>6

LEMMA CallsSeen ==
    ASSUME IInv, SessionInv, Calls
    PROVE  [Session!Next]_(Session!vars)
<1>1. UNCHANGED <<link, reader, ids, bid>>
  BY DEF Calls, Caller, CallStarts, CallReturns, CallTimesOut, CallCancelled, CallRefused
<1>2. UNCHANGED Known /\ TypeOK
  BY <1>1 DEF Known, IInv
<1>3. \/ UNCHANGED counter /\ (UNCHANGED request \/ \E c \in Callers : Forget(c))
      \/ \E c \in Callers : ids # {} /\ Ask(c, "call")
  BY DEF Calls, Caller, CallStarts, CallReturns, CallTimesOut, CallCancelled, CallRefused
<1>4. CASE UNCHANGED <<counter, request>>
  <2>1. UNCHANGED Called
    BY <1>4 DEF Called, CallOf
  <2>2. QED
    BY <1>1, <1>2, <1>4, <2>1, SeenUnchanged
<1>5. ASSUME NEW c \in Callers, UNCHANGED counter, Forget(c)
      PROVE  [Session!Next]_(Session!vars)
  <2>1. c \in Tasks
    BY DEF Tasks
  <2>2. QED
    BY <1>1, <1>2, <1>5, <2>1, SeenReturn
<1>6. ASSUME NEW c \in Callers, ids # {}, Ask(c, "call")
      PROVE  [Session!Next]_(Session!vars)
  <2>1. c \in Tasks /\ "call" \in Asks \ {"create"}
    BY DEF Tasks, Asks
  <2>2. QED
    BY <1>1, <1>2, <1>6, <2>1, SeenAsk
<1>7. QED
  BY <1>3, <1>4, <1>5, <1>6

LEMMA NegotiationSeen ==
    ASSUME IInv, SessionInv, Negotiation \/ Interrupted
    PROVE  [Session!Next]_(Session!vars)
<1>1. /\ step \in Negotiating /\ AsksOrNot /\ GivesIds
      /\ UNCHANGED <<link, reader, bid>>
  BY NegotiationSteps DEF NegotiatesBy
<1>2. Main \in Tasks /\ TypeOK /\ ~bid
  <2>1. step \notin {"destroy", "reader", "closing", "outside", "abandoned"}
    BY <1>1, StepsApart DEF Leaving, Goodbyes
  <2>2. QED
    BY <2>1 DEF Tasks, IInv, SessionInv, BidIsLate, Outside
<1>3. CASE step = "create"
  <2>1. ids = {} /\ request[Main].asks = "create"
    BY <1>3 DEF SessionInv, IdsFollow, CreateIsAsked
  <2>2. CASE step' = "pumps" /\ Forget(Main) /\ UNCHANGED <<ids, counter>>
    <3>1. UNCHANGED Known
      BY <1>1, <2>2 DEF Known
    <3>2. QED
      BY <1>1, <1>2, <2>2, <3>1, SeenReturn
  <2>3. CASE request[Main].answer = "ok" /\ ids' # {} /\ Then("attach")
    <3>1. Called[Main].asks = "create" /\ Called[Main].answer = "ok"
      BY <1>2, <2>1, <2>3, CallSeen DEF Called
    <3>2. Known = "none" /\ Known' = "known"
      BY <1>1, <1>2, <2>1, <2>3 DEF Known
    <3>3. CASE Ask(Main, "attach")
      <4>1. reader = "recv" /\ link = "open" /\ Session!Turn(Main, "attach")
        BY <1>2, <3>3, AskedCall DEF Ask, CanAsk
      <4>2. "attach" \in Asks \ {"create", "destroy"}
        BY DEF Asks, Asking
      <4>3. Session!Learn(Main)
        BY <1>1, <3>1, <3>2, <4>1, <4>2 DEF Session!Learn, Called, Known
      <4>4. QED
        BY <1>2, <4>3 DEF Session!Next
    <3>4. CASE Forget(Main) /\ UNCHANGED counter
      <4>1. Called' = [Called EXCEPT ![Main] = Session!Idle]
        BY <1>2, <3>4, ForgottenCall
      <4>2. Session!Learn(Main)
        BY <1>1, <3>1, <3>2, <3>4, <4>1 DEF Session!Learn, Called, Known
      <4>3. QED
        BY <1>2, <4>2 DEF Session!Next
    <3>5. QED
      BY <2>3, <3>3, <3>4 DEF Then
  <2>4. QED
    BY <1>3, <2>2, <2>3, CreateSteps
<1>4. CASE step # "create"
  <2>1. ids # {} /\ ids' # {}
    BY <1>1, <1>4 DEF SessionInv, IdsFollow, GivesIds
  <2>2. UNCHANGED Known
    BY <1>1, <2>1 DEF Known
  <2>3. CASE step' \in Asking \ {"create"} /\ Ask(Main, step')
    <3>1. step' \in Asks \ {"create"} /\ step' # "destroy"
      BY <2>3 DEF Asks, Asking
    <3>2. QED
      BY <1>1, <1>2, <2>1, <2>2, <2>3, <3>1, SeenAsk
  <2>4. CASE Forget(Main) /\ UNCHANGED counter
    BY <1>1, <1>2, <2>2, <2>4, SeenReturn
  <2>5. CASE UNCHANGED <<counter, request>>
    <3>1. UNCHANGED Called
      BY <2>5 DEF Called, CallOf
    <3>2. QED
      BY <1>1, <2>2, <2>5, <3>1, SeenUnchanged
  <2>6. QED
    BY <1>1, <2>3, <2>4, <2>5 DEF AsksOrNot
<1>5. QED
  BY <1>3, <1>4

LEMMA EnterSeen ==
    ASSUME IInv, SessionInv, Enter
    PROVE  Session!Connect(Main)
<1>1. step = "outside" /\ request \in [Tasks -> Requests] /\ Main \in Tasks
  BY DEF Enter, IInv, TypeOK, Tasks
<1>2. reader = "none" /\ ids = {}
  BY <1>1 DEF SessionInv, ReaderIsGone, IdsFollow
<1>3. \A t \in Tasks : t # Main => request[t] = Quiet
  BY <1>1 DEF Enter, NothingReady, Tasks, IInv, KeeperIsQuiet
<1>4. \A t \in Tasks : t # Main => Called[t] = Session!Idle
  BY <1>3 DEF Called, CallOf, Quiet, Session!Idle
<1>5. /\ request'[Main].asks = "create" /\ request'[Main].answer = "none"
      /\ request'[Main].number = 1
      /\ \A t \in Tasks : t # Main => request'[t] = request[t]
  BY <1>1 DEF Enter, Quiet
<1>6. /\ CallOf(Main)' = Session!Asked(1, "create")
      /\ \A t \in Tasks : t # Main => CallOf(t)' = CallOf(t)
  BY <1>5 DEF CallOf, Session!Asked
<1>7. Called' = [Called EXCEPT ![Main] = Session!Asked(1, "create")]
  BY <1>6 DEF Called
<1>8. counter' = 1 /\ reader' = "recv" /\ link' = "open" /\ Known = "none" /\ Known' = "none"
  BY <1>2 DEF Enter, Known
<1>9. QED
  BY <1>2, <1>4, <1>7, <1>8 DEF Session!Connect, Called, Known

LEMMA GoodbyeSeen ==
    ASSUME IInv, SessionInv, Goodbye
    PROVE  [Session!Next]_(Session!vars)
<1>1. UNCHANGED <<reader, link>> /\ step \in {"pumps"} \cup Goodbyes
  BY GoodbyeSteps
<1>2. Main \in Tasks /\ Keeper \in Tasks /\ TypeOK
  BY DEF Tasks, IInv
<1>3. CASE FarewellEnds /\ (ids = {} \/ step = "destroy" \/ ~CanAsk)
  <2>1. ids' = {} /\ UNCHANGED <<counter, bid>> /\ request' = [request EXCEPT ![Main] = Quiet, ![Keeper] = Quiet]
    BY <1>3 DEF FarewellEnds
  <2>2. Known' = "none"
    BY <2>1 DEF Known
  <2>3. CASE ids = {}
    <3>1. keeper = "none" /\ request[Keeper] = Quiet
      BY <2>3 DEF SessionInv, IdsFollow, IInv, KeeperIsQuiet
    <3>2. Forget(Main)
      BY <1>2, <2>1, <3>1 DEF Forget, TypeOK
    <3>3. UNCHANGED Known
      BY <2>2, <2>3 DEF Known
    <3>4. QED
      BY <1>1, <1>2, <2>1, <3>2, <3>3, SeenReturn
  <2>4. CASE ids # {}
    <3>1. Known = "bid" \/ (Known = "known" /\ ~(reader = "recv" /\ link = "open"))
      BY <1>3, <2>4 DEF Known, CanAsk, IInv, DestroyIsBid
    <3>2. \A t \in Tasks : request'[t] = IF t \in {Main, Keeper} THEN Quiet ELSE request[t]
      BY <1>2, <2>1 DEF TypeOK
    <3>3. \A t \in Tasks : CallOf(t)' = IF t \in {Main, Keeper} THEN Session!Idle ELSE CallOf(t)
      BY <3>2 DEF CallOf, Quiet, Session!Idle
    <3>4. Called' = [t \in Tasks |-> IF t \in {Main, Keeper} THEN Session!Idle ELSE Called[t]]
      BY <3>3 DEF Called
    <3>5. {Main, Keeper} \in SUBSET Tasks
      BY <1>2
    <3>6. Session!Part
      BY <1>1, <2>1, <2>2, <3>1, <3>4, <3>5 DEF Session!Part, Called, Known
    <3>7. QED
      BY <3>6 DEF Session!Next
  <2>5. QED
    BY <2>3, <2>4
<1>4. ASSUME NEW what \in Goodbyes, Ask(Main, what), bid' = (bid \/ what = "destroy"),
             UNCHANGED ids, step # "destroy", step \in Goodbyes \/ ids # {}
      PROVE  [Session!Next]_(Session!vars)
  <2>1. ids # {}
    BY <1>4 DEF SessionInv, IdsFollow
  <2>2. ~bid
    BY <1>1, <1>4, StepsApart DEF SessionInv, BidIsLate, Outside, Goodbyes
  <2>3. what \in Asks \ {"create"}
    BY StepsApart DEF Asks
  <2>4. Known' = IF what = "destroy" THEN "bid" ELSE Known
    BY <1>4, <2>1, <2>2 DEF Known
  <2>5. QED
    BY <1>1, <1>2, <1>4, <2>1, <2>2, <2>3, <2>4, SeenAsk
<1>5. QED
  BY <1>3, <1>4, GoodbyeGoesOn

LEMMA LeavingSeen ==
    ASSUME IInv, SessionInv,
           Exit \/ ReaderStopped \/ Close \/ Closed \/ ExitCancelled \/ CloseCancelled
    PROVE  [Session!Next]_(Session!vars)
<1>1. UNCHANGED <<counter, ids, bid>> /\ Main \in Tasks /\ TypeOK
  BY DEF Exit, ReaderStopped, Close, Closed, ExitCancelled, CloseCancelled, Tasks, IInv
<1>2. UNCHANGED Known
  BY <1>1 DEF Known
<1>3. CASE ReaderStopped /\ reader = "recv"
  BY <1>2, <1>3, SeenStop DEF ReaderStopped
<1>4. CASE ExitCancelled
  BY <1>1, <1>2, <1>4, SeenReturn DEF ExitCancelled
<1>5. CASE Exit \/ (ReaderStopped /\ reader # "recv") \/ Close \/ Closed \/ CloseCancelled
  <2>1. UNCHANGED request
    <3>1. Closed => \A t \in Tasks : ~Unanswered(t)
      BY DEF Closed, SessionInv, ReaderIsGone, IInv, NobodyWaitsInVain
    <3>2. Closed => UNCHANGED request
      <4>1. Closed => FailAcks(Tasks)
        BY DEF Closed
      <4>2. QED
        BY <1>1, <3>1, <4>1 DEF FailAcks, TypeOK
    <3>3. QED
      BY <1>5, <3>2 DEF Exit, ReaderStopped, Close, CloseCancelled
  <2>2. UNCHANGED Called
    BY <2>1 DEF Called, CallOf
  <2>3. CASE Close \/ Closed \/ CloseCancelled
    <3>1. link' # "open" /\ UNCHANGED reader
      BY <2>3 DEF Close, Closed, CloseCancelled, LinkGoes, LetGo
    <3>2. QED
      BY <1>1, <1>2, <2>2, <3>1, SeenLose
  <2>4. CASE Exit \/ (ReaderStopped /\ reader # "recv")
    <3>1. UNCHANGED link /\ ((reader' = "recv") <=> (reader = "recv"))
      BY <2>4 DEF Exit, ReaderStopped
    <3>2. QED
      BY <1>1, <1>2, <2>2, <3>1, SeenUnchanged
  <2>5. QED
    BY <1>5, <2>3, <2>4
<1>6. QED
  BY <1>3, <1>4, <1>5

(* _request(), _route(), _keepalive(), _farewell(): the signalling, with its          *)
(* messages, its reader and its timeouts, is a session in which each call is given    *)
(* its own answer or told that there will be none, and which is asked to be destroyed *)
(* before it is forgotten.                                                            *)
THEOREM ImplementsSession == Spec => SessionSpec
<1>1. Init => Session!Init
  <2> SUFFICES ASSUME Init
               PROVE  Session!Init
    OBVIOUS
  <2>1. \A t \in Tasks : CallOf(t) = Session!Idle
    BY DEF Init, CallOf, Quiet, Session!Idle
  <2>2. counter = 0 /\ reader # "recv" /\ link # "open" /\ ids = {}
    BY DEF Init
  <2>3. QED
    BY <2>1, <2>2 DEF Session!Init
<1>2. IInv /\ SessionInv /\ [Next]_vars => [Session!Next]_(Session!vars)
  <2> SUFFICES ASSUME IInv, SessionInv, [Next]_vars
               PROVE  [Session!Next]_(Session!vars)
    OBVIOUS
  <2>1. CASE UNCHANGED vars
    BY <2>1, SeenUnchanged DEF vars, Called, CallOf, Known
  <2>2. CASE Elsewhere
    BY <2>2, FarEndSeen, ReaderSeen, KeeperSeen, CallsSeen DEF Elsewhere
  <2>3. CASE Negotiation \/ Interrupted
    BY <2>3, NegotiationSeen
  <2>4. CASE Block
    <3>1. CASE Enter
      <4>1. Session!Connect(Main) /\ Main \in Tasks
        BY <3>1, EnterSeen DEF Tasks
      <4>2. QED
        BY <4>1 DEF Session!Next
    <3>2. QED
      BY <2>4, <3>1, GoodbyeSeen, LeavingSeen DEF Block
  <2>5. QED
    BY <2>1, <2>2, <2>3, <2>4, NextByGroups
<1>3. QED
  BY <1>1, <1>2, Invariance, SessionInvariance, PTL DEF Spec, SessionSpec, Session!Spec
===============================================================================
