--------------------------- MODULE EventSocket_proofs ---------------------------
(***************************************************************************)
(* For any number of tasks that call ping() and any limits: nobody waits on  *)
(* a PiKVMWebSocket for what no task will ever bring, and a connection that   *)
(* the reader saw break is reported.                                         *)
(***************************************************************************)
EXTENDS EventSocket, SequenceTheorems, TLAPS

(* The reader of an open block stops only at the end of the connection, and    *)
(* leaves the reason where the next caller looks for it.                       *)
ReaderSays ==
    main = "body" /\ ~Running(reader) => link = "closed" \/ failure = "lost"

\* self._reported is set where somebody is told, and nowhere else.
ReportedIsTold == reported = told

IInv == /\ TypeOK
        /\ NobodyWaitsInVain
        /\ PingsHaveReader
        /\ FailureIsOwn
        /\ ReaderSays
        /\ ReportedIsTold

USE DEF Unanswered, Failed
-------------------------------------------------------------------------------
LEMMA InitInvariant == Init => IInv
<1> SUFFICES ASSUME Init
             PROVE  IInv
  OBVIOUS
<1>1. inbox \in Seq(Frames) /\ asked \in Seq(Nat \ {0})
  BY DEF Init
<1>2. TypeOK
  <2>1. connection = (main # "outside") /\ (stopped # "none") = (main = "stopping")
    BY DEF Init
  <2>2. /\ raised \in BOOLEAN /\ reported \in BOOLEAN /\ told \in BOOLEAN
    BY DEF Init
  <2>3. ping \in [Pingers -> [task : {"idle", "sending", "waiting"}, number : Nat,
                              answer : Nat \cup {Failed}]]
    BY DEF Init, Idle
  <2>4. pending \in 0..PendingLimit /\ frames \in Nat /\ pings \in Nat /\ opened \in Nat
    BY SocketAssumption DEF Init
  <2>5. QED
    BY <1>1, <2>1, <2>2, <2>3, <2>4 DEF Init, TypeOK, Tasks
<1>3. PingsHaveReader
  BY DEF Init, PingsHaveReader, Idle
<1>4. NobodyWaitsInVain /\ FailureIsOwn /\ ReaderSays /\ ReportedIsTold
  BY DEF Init, NobodyWaitsInVain, FailureIsOwn, ReaderSays, ReportedIsTold
<1>5. QED
  BY <1>2, <1>3, <1>4 DEF IInv

(* A frame in the inbox is an event, junk, or a pong with a number.            *)
LEMMA FrameRead ==
    ASSUME TypeOK, inbox # <<>>
    PROVE  /\ Tail(inbox) \in Seq(Frames)
           /\ Head(inbox).kind = "pong" => Head(inbox).of \in Nat \ {0}
<1>1. inbox \in Seq(Frames)
  BY DEF TypeOK
<1>2. Tail(inbox) \in Seq(Frames) /\ Head(inbox) \in Frames
  BY <1>1, HeadTailProperties
<1>3. QED
  BY <1>2 DEF Frames, Event, Junk, Pong

(* What every waiter is given is typed, and nobody is left without an answer.  *)
LEMMA AnswerAll ==
    ASSUME TypeOK, NEW answer \in (Nat \ {0}) \cup {Failed}, Answer(answer)
    PROVE  /\ ping' \in [Pingers -> [task : {"idle", "sending", "waiting"}, number : Nat,
                                     answer : Nat \cup {Failed}]]
           /\ waiters' = {}
           /\ PingsHaveReader =>
                \A p \in Pingers : ping'[p].task # "idle" => ping'[p].answer # Unanswered
<1>1. \A p \in Pingers : ping[p] \in [task : {"idle", "sending", "waiting"}, number : Nat,
                                      answer : Nat \cup {Failed}]
  BY DEF TypeOK
<1>2. \A p \in Pingers : ping'[p] = IF p \in waiters THEN [ping[p] EXCEPT !.answer = answer]
                                    ELSE ping[p]
  BY DEF Answer
<1>3. \A p \in Pingers : ping'[p] \in [task : {"idle", "sending", "waiting"}, number : Nat,
                                       answer : Nat \cup {Failed}]
  BY <1>1, <1>2
<1>4. \A p \in Pingers : p \in waiters => ping'[p].answer = answer
  BY <1>1, <1>2
<1>5. \A p \in Pingers : p \notin waiters => ping'[p] = ping[p]
  BY <1>2
<1>6. QED
  BY <1>3, <1>4, <1>5 DEF Answer, PingsHaveReader

LEMMA ServerInvariant ==
    ASSUME IInv, ServerSends \/ ServerAnswers \/ LinkEnds
    PROVE  IInv'
<1> USE SocketAssumption
<1>1. CASE ServerSends
  <2>1. inbox' \in Seq(Frames)
    BY <1>1, AppendProperties DEF ServerSends, Arrive, IInv, TypeOK, Frames
  <2>2. TypeOK'
    BY <1>1, <2>1 DEF ServerSends, IInv, TypeOK, readers, report, answers
  <2>3. QED
    BY <1>1, <2>2 DEF ServerSends, IInv, NobodyWaitsInVain, PingsHaveReader, FailureIsOwn,
       ReaderSays, ReportedIsTold, Running, readers, report, answers
<1>2. CASE ServerAnswers
  <2>1. Head(asked) \in Nat \ {0} /\ Tail(asked) \in Seq(Nat \ {0})
    BY <1>2, HeadTailProperties DEF ServerAnswers, IInv, TypeOK
  <2>2. inbox' \in Seq(Frames)
    BY <1>2, <2>1, AppendProperties DEF ServerAnswers, Arrive, IInv, TypeOK, Frames, Pong
  <2>3. TypeOK'
    BY <1>2, <2>1, <2>2 DEF ServerAnswers, IInv, TypeOK, readers, report, answers
  <2>4. QED
    BY <1>2, <2>3 DEF ServerAnswers, IInv, NobodyWaitsInVain, PingsHaveReader, FailureIsOwn,
       ReaderSays, ReportedIsTold, Running, readers, report, answers
<1>3. CASE LinkEnds
  <2>1. TypeOK'
    BY <1>3 DEF LinkEnds, IInv, TypeOK, readers, report, answers, server
  <2>2. QED
    BY <1>3, <2>1 DEF LinkEnds, IInv, NobodyWaitsInVain, PingsHaveReader, FailureIsOwn,
       ReaderSays, ReportedIsTold, Running, readers, report, answers, server
<1>4. QED
  BY <1>1, <1>2, <1>3
-------------------------------------------------------------------------------
(* The reader ends: it wakes whoever waits and fails every ping.               *)
LEMMA FinishInvariant ==
    ASSUME IInv, ReaderFinishes
    PROVE  /\ consumer' # "waiting"
           /\ consumer' \in {"none", "yielded", "waiting", "woken", "ended", "failed"}
           /\ ping' \in [Pingers -> [task : {"idle", "sending", "waiting"}, number : Nat,
                                     answer : Nat \cup {Failed}]]
           /\ waiters' = {}
           /\ \A p \in Pingers : ping'[p].task # "idle" => ping'[p].answer # Unanswered
<1>1. Answer(Failed)
  BY DEF ReaderFinishes, FailPongs
<1>2. QED
  BY <1>1, AnswerAll DEF ReaderFinishes, Wakeup, IInv, TypeOK

LEMMA ReaderInvariant ==
    ASSUME IInv, Reader
    PROVE  IInv'
<1> USE SocketAssumption
<1>1. CASE ReaderStarts
  <2>1. CASE connection
    <3>1. TypeOK'
      BY <1>1, <2>1 DEF ReaderStarts, IInv, TypeOK, Tasks, answers, server
    <3>2. QED
      BY <1>1, <2>1, <3>1 DEF ReaderStarts, IInv, TypeOK, NobodyWaitsInVain, PingsHaveReader,
         FailureIsOwn, ReaderSays, ReportedIsTold, Running, answers, server
  <2>2. CASE ~connection
    <3>1. ReaderFinishes /\ main = "outside" /\ main' = main
      BY <1>1, <2>2 DEF ReaderStarts, IInv, TypeOK
    <3>2. TypeOK'
      BY <1>1, <2>2, <3>1, FinishInvariant DEF ReaderStarts, IInv, TypeOK, Tasks, server
    <3>3. QED
      BY <1>1, <2>2, <3>1, <3>2, FinishInvariant DEF ReaderStarts, IInv, NobodyWaitsInVain,
         PingsHaveReader, FailureIsOwn, ReaderSays, ReportedIsTold
  <2>3. QED
    BY <1>1, <2>1, <2>2 DEF ReaderStarts
<1>2. CASE ReaderReads
  <2>1. pending' \in 0..PendingLimit
    BY <1>2 DEF ReaderReads, Buffer, IInv, TypeOK
  <2>2. consumer' # "waiting"
        /\ consumer' \in {"none", "yielded", "waiting", "woken", "ended", "failed"}
    BY <1>2 DEF ReaderReads, Wakeup, IInv, TypeOK
  <2>3. inbox' \in Seq(Frames)
    BY <1>2, FrameRead DEF ReaderReads, IInv
  <2>4. CASE Head(inbox).kind = "pong"
    <3> DEFINE n == Head(inbox).of
    <3>1. n \in Nat \ {0} /\ Answer(n)
      BY <1>2, <2>4, FrameRead DEF ReaderReads, ResolvePongs, IInv
    <3>2. /\ ping' \in [Pingers -> [task : {"idle", "sending", "waiting"}, number : Nat,
                                    answer : Nat \cup {Failed}]]
          /\ waiters' = {}
          /\ \A p \in Pingers : ping'[p].task # "idle" => ping'[p].answer # Unanswered
      BY <3>1, AnswerAll DEF IInv
    <3>3. TypeOK'
      BY <1>2, <2>1, <2>2, <2>3, <3>2 DEF ReaderReads, IInv, TypeOK, readers, report, server
    <3>4. QED
      BY <1>2, <2>2, <3>2, <3>3 DEF ReaderReads, IInv, NobodyWaitsInVain, PingsHaveReader,
         FailureIsOwn, ReaderSays, ReportedIsTold, Running, readers, report
  <2>5. CASE Head(inbox).kind # "pong"
    <3>1. UNCHANGED answers
      BY <1>2, <2>5 DEF ReaderReads
    <3>2. TypeOK'
      BY <1>2, <2>1, <2>2, <2>3, <3>1
         DEF ReaderReads, IInv, TypeOK, readers, report, server, answers
    <3>3. QED
      BY <1>2, <2>2, <3>1, <3>2 DEF ReaderReads, IInv, NobodyWaitsInVain, PingsHaveReader,
         FailureIsOwn, ReaderSays, ReportedIsTold, Running, readers, report, answers
  <2>6. QED
    BY <2>4, <2>5
<1>3. CASE ReaderReadsLast
  <2> DEFINE given == IF Head(inbox).kind = "pong" THEN Head(inbox).of ELSE Failed
  <2>1. given \in (Nat \ {0}) \cup {Failed} /\ Answer(given) /\ inbox' \in Seq(Frames)
    BY <1>3, FrameRead DEF ReaderReadsLast, IInv
  <2>2. /\ ping' \in [Pingers -> [task : {"idle", "sending", "waiting"}, number : Nat,
                                  answer : Nat \cup {Failed}]]
        /\ waiters' = {}
        /\ \A p \in Pingers : ping'[p].task # "idle" => ping'[p].answer # Unanswered
    <3> HIDE DEF given
    <3>1. QED
      BY <2>1, AnswerAll DEF IInv
  <2>3. pending' \in 0..PendingLimit
    BY <1>3 DEF ReaderReadsLast, Buffer, IInv, TypeOK
  <2>4. consumer' # "waiting"
        /\ consumer' \in {"none", "yielded", "waiting", "woken", "ended", "failed"}
    BY <1>3 DEF ReaderReadsLast, Wakeup, IInv, TypeOK
  <2>5. main = "outside" /\ main' = main
    BY <1>3 DEF ReaderReadsLast, IInv, TypeOK
  <2>6. TypeOK'
    BY <1>3, <2>1, <2>2, <2>3, <2>4 DEF ReaderReadsLast, IInv, TypeOK, Tasks, server
  <2>7. QED
    BY <1>3, <2>2, <2>5, <2>6 DEF ReaderReadsLast, IInv, NobodyWaitsInVain, PingsHaveReader,
       FailureIsOwn, ReaderSays, ReportedIsTold
<1>4. CASE ReaderEnds
  <2>1. ReaderFinishes
    BY <1>4 DEF ReaderEnds
  <2>2. TypeOK'
    BY <1>4, <2>1, FinishInvariant DEF ReaderEnds, IInv, TypeOK, Tasks, server
  <2>3. QED
    BY <1>4, <2>1, <2>2, FinishInvariant DEF ReaderEnds, IInv, TypeOK, NobodyWaitsInVain,
       PingsHaveReader, FailureIsOwn, ReaderSays, ReportedIsTold, Running
<1>5. CASE ReaderCancelled
  <2>1. main = "stopping" /\ main' = "stopping"
    BY <1>5 DEF ReaderCancelled, IInv, TypeOK, Running
  <2>2. CASE stopped = "recv"
    <3>1. ReaderFinishes
      BY <1>5, <2>2 DEF ReaderCancelled
    <3>2. TypeOK'
      BY <1>5, <2>1, <3>1, FinishInvariant DEF ReaderCancelled, IInv, TypeOK, Tasks, report, server
    <3>3. QED
      BY <1>5, <2>1, <3>1, <3>2, FinishInvariant DEF ReaderCancelled, IInv, NobodyWaitsInVain,
         PingsHaveReader, FailureIsOwn, ReaderSays, ReportedIsTold, report
  <2>3. CASE stopped = "new"
    <3>1. UNCHANGED <<consumer, answers>>
      BY <1>5, <2>3 DEF ReaderCancelled
    <3>2. TypeOK'
      BY <1>5, <2>1, <3>1 DEF ReaderCancelled, IInv, TypeOK, Tasks, report, server, answers
    <3>3. QED
      BY <1>5, <2>1, <3>1, <3>2 DEF ReaderCancelled, IInv, NobodyWaitsInVain,
         PingsHaveReader, FailureIsOwn, ReaderSays, ReportedIsTold, report, answers
  <2>4. QED
    BY <1>5, <2>2, <2>3 DEF ReaderCancelled
<1>6. QED
  BY <1>1, <1>2, <1>3, <1>4, <1>5 DEF Reader
-------------------------------------------------------------------------------
LEMMA ConsumerInvariant ==
    ASSUME IInv, Iterate \/ Resume("yielded") \/ Resume("woken") \/ Leave
    PROVE  IInv'
<1> USE SocketAssumption
<1>1. CASE Iterate
  <2>1. Running(reader') /\ reader' \in Tasks
    BY <1>1 DEF Iterate, StartReader, Running, IInv, TypeOK, Tasks
  <2>2. /\ pending' \in 0..PendingLimit
        /\ consumer' \in {"yielded", "waiting"}
        /\ consumer' = "waiting" => pending' = 0
        /\ UNCHANGED <<reported, told>>
    BY <1>1, <2>1 DEF Iterate, Collect, IInv, TypeOK
  <2>3. TypeOK'
    BY <1>1, <2>1, <2>2 DEF Iterate, IInv, TypeOK, answers, server
  <2>4. QED
    BY <1>1, <2>1, <2>2, <2>3 DEF Iterate, IInv, NobodyWaitsInVain, PingsHaveReader,
       FailureIsOwn, ReaderSays, ReportedIsTold, answers, server
<1>2. ASSUME NEW from, Resume(from)
      PROVE  IInv'
  <2>1. /\ pending' \in 0..PendingLimit
        /\ consumer' \in {"yielded", "waiting", "failed", "ended"}
        /\ consumer' = "waiting" => pending' = 0 /\ Running(reader)
        /\ reported' \in BOOLEAN /\ told' = reported'
    <3>1. Collect(reader) /\ reported \in BOOLEAN /\ told \in BOOLEAN /\ reported = told
      BY <1>2 DEF Resume, IInv, TypeOK, ReportedIsTold
    <3>2. reported' \in BOOLEAN /\ told' = reported'
      <4>1. CASE UNCHANGED <<reported, told>>
        BY <3>1, <4>1
      <4>2. CASE reported' = TRUE /\ told' = TRUE
        BY <4>2
      <4>3. QED
        BY <3>1, <4>1, <4>2 DEF Collect
    <3>3. QED
      BY <3>1, <3>2 DEF Collect, IInv, TypeOK
  <2>2. TypeOK'
    BY <1>2, <2>1 DEF Resume, IInv, TypeOK, readers, answers, server
  <2>3. QED
    BY <1>2, <2>1, <2>2 DEF Resume, IInv, NobodyWaitsInVain, PingsHaveReader,
       FailureIsOwn, ReaderSays, ReportedIsTold, Running, readers, answers, server
<1>3. CASE Leave
  <2>1. TypeOK'
    BY <1>3 DEF Leave, IInv, TypeOK, readers, report, answers, server
  <2>2. QED
    BY <1>3, <2>1 DEF Leave, IInv, NobodyWaitsInVain, PingsHaveReader,
       FailureIsOwn, ReaderSays, ReportedIsTold, Running, readers, report, answers, server
<1>4. QED
  BY <1>1, <1>2, <1>3
-------------------------------------------------------------------------------
LEMMA PingerInvariant ==
    ASSUME IInv, NEW p \in Pingers, Pinger(p)
    PROVE  IInv'
<1> USE SocketAssumption
<1>1. CASE PingStarts(p)
  <2>1. Running(reader') /\ reader' \in Tasks /\ pings' \in Nat \ {0}
    BY <1>1 DEF PingStarts, StartReader, Running, IInv, TypeOK, Tasks
  <2>2. CASE link = "open"
    <3>1. PICK task \in {"sending", "waiting"} :
            ping' = [ping EXCEPT ![p] = [task |-> task, number |-> pings', answer |-> Unanswered]]
      BY <1>1, <2>2 DEF PingStarts
    <3>2. /\ waiters' = waiters \cup {p} /\ asked' = Append(asked, pings')
          /\ UNCHANGED <<reported, told>>
      BY <1>1, <2>2 DEF PingStarts
    <3>3. asked' \in Seq(Nat \ {0})
      BY <2>1, <3>2, AppendProperties DEF IInv, TypeOK
    <3>4. TypeOK'
      <4>1. ping' \in [Pingers -> [task : {"idle", "sending", "waiting"}, number : Nat,
                                      answer : Nat \cup {Failed}]]
        BY <2>1, <3>1 DEF IInv, TypeOK
      <4>2. waiters' \subseteq Pingers
        BY <3>2 DEF IInv, TypeOK
      <4>3. UNCHANGED <<main, raised, connection, link, inbox, stopped, failure, pending, consumer,
                        frames, opened>>
        BY <1>1 DEF PingStarts
      <4>4. QED
        BY <2>1, <3>2, <3>3, <4>1, <4>2, <4>3 DEF IInv, TypeOK
    <3>5. PingsHaveReader'
      BY <2>1, <3>1, <3>2 DEF IInv, TypeOK, PingsHaveReader
    <3>6. QED
      BY <1>1, <2>1, <3>2, <3>4, <3>5 DEF PingStarts, IInv, NobodyWaitsInVain, FailureIsOwn,
         ReaderSays, ReportedIsTold
  <2>3. CASE link # "open"
    <3>1. UNCHANGED <<answers, asked>> /\ reported' = TRUE /\ told' = TRUE
      BY <1>1, <2>3 DEF PingStarts, TellCaller
    <3>2. TypeOK'
      BY <1>1, <2>1, <3>1 DEF PingStarts, IInv, TypeOK, answers
    <3>3. QED
      BY <1>1, <2>1, <3>1, <3>2 DEF PingStarts, IInv, NobodyWaitsInVain, PingsHaveReader,
         FailureIsOwn, ReaderSays, ReportedIsTold, answers
  <2>4. QED
    BY <2>2, <2>3
<1>2. ASSUME PingSent(p) \/ PingReturns(p) \/ PingTimesOut(p)
      PROVE  IInv'
  <2>1. /\ UNCHANGED <<main, raised, connection, link, inbox, readers, failure, pending, consumer,
                       server, opened>>
        /\ (reported' = TRUE /\ told' = TRUE) \/ UNCHANGED <<reported, told>>
    BY <1>2 DEF PingSent, PingReturns, PingTimesOut, TellCaller, report
  <2>2. \/ ping' = [ping EXCEPT ![p] = Idle] /\ waiters' \in {waiters, waiters \ {p}}
        \/ /\ ping' = [ping EXCEPT ![p].task = "waiting"] /\ waiters' = waiters
           /\ ping[p].task # "idle"
    BY <1>2 DEF PingSent, PingReturns, PingTimesOut
  <2>3. /\ ping' \in [Pingers -> [task : {"idle", "sending", "waiting"}, number : Nat,
                                  answer : Nat \cup {Failed}]]
        /\ waiters' \subseteq Pingers
    <3>1. /\ ping \in [Pingers -> [task : {"idle", "sending", "waiting"}, number : Nat,
                                        answer : Nat \cup {Failed}]]
          /\ waiters \subseteq Pingers
      BY DEF IInv, TypeOK
    <3>2. CASE ping' = [ping EXCEPT ![p] = Idle] /\ waiters' \in {waiters, waiters \ {p}}
      BY <3>1, <3>2 DEF Idle
    <3>3. CASE ping' = [ping EXCEPT ![p].task = "waiting"] /\ waiters' = waiters
      BY <3>1, <3>3
    <3>4. QED
      BY <2>2, <3>2, <3>3
  <2>4. TypeOK'
    <3>1. reported' \in BOOLEAN /\ told' \in BOOLEAN
      BY <2>1 DEF IInv, TypeOK
    <3>2. QED
      BY <2>1, <2>3, <3>1 DEF IInv, TypeOK, readers, server
  <2>5. PingsHaveReader'
    <3>1. \A q \in Pingers : ping'[q].task # "idle" /\ ping'[q].answer = Unanswered =>
            /\ ping[q].task # "idle" /\ ping[q].answer = Unanswered
            /\ q \in waiters => q \in waiters'
      <4>1. \A q \in Pingers : ping[q] \in [task : {"idle", "sending", "waiting"}, number : Nat,
                                            answer : Nat \cup {Failed}]
        BY DEF IInv, TypeOK
      <4>2. ping = [q \in Pingers |-> ping[q]]
        BY DEF IInv, TypeOK
      <4>3. CASE ping' = [ping EXCEPT ![p] = Idle] /\ waiters' \in {waiters, waiters \ {p}}
        BY <4>1, <4>2, <4>3 DEF Idle
      <4>4. CASE /\ ping' = [ping EXCEPT ![p].task = "waiting"] /\ waiters' = waiters
                 /\ ping[p].task # "idle"
        BY <4>1, <4>2, <4>4
      <4>5. QED
        BY <2>2, <4>3, <4>4
    <3>2. QED
      BY <2>1, <3>1 DEF IInv, PingsHaveReader, Running, readers
  <2>6. QED
    BY <2>1, <2>4, <2>5 DEF IInv, NobodyWaitsInVain, FailureIsOwn, ReaderSays, ReportedIsTold,
       Running, readers
<1>3. QED
  BY <1>1, <1>2 DEF Pinger

LEMMA SendFailsInvariant ==
    ASSUME IInv, SendFails
    PROVE  IInv'
<1>1. reported' = TRUE /\ told' = TRUE
  BY DEF SendFails, TellCaller
<1>2. TypeOK'
  BY <1>1 DEF SendFails, IInv, TypeOK, readers, answers, server
<1>3. QED
  BY <1>1, <1>2 DEF SendFails, IInv, NobodyWaitsInVain, PingsHaveReader, FailureIsOwn,
     ReaderSays, ReportedIsTold, Running, readers, answers

LEMMA BlockInvariant ==
    ASSUME IInv, Block
    PROVE  IInv'
<1> USE SocketAssumption
<1>1. CASE Enter
  <2>1. inbox' \in Seq(Frames) /\ asked' \in Seq(Nat \ {0})
    BY <1>1 DEF Enter
  <2>2. TypeOK'
    <3>1. /\ connection' = (main' # "outside") /\ (stopped' # "none") = (main' = "stopping")
          /\ reported' \in BOOLEAN /\ told' \in BOOLEAN
      BY <1>1 DEF Enter, IInv, TypeOK
    <3>2. pending' \in 0..PendingLimit /\ frames' \in Nat /\ pings' \in Nat /\ opened' \in Nat
      BY <1>1 DEF Enter, IInv, TypeOK
    <3>3. QED
      BY <1>1, <2>1, <3>1, <3>2 DEF Enter, IInv, TypeOK, Tasks, answers
  <2>3. PingsHaveReader'
    BY <1>1 DEF Enter, NothingReady, PingsHaveReader, answers
  <2>4. QED
    BY <1>1, <2>2, <2>3 DEF Enter, IInv, NobodyWaitsInVain, FailureIsOwn, ReaderSays,
       ReportedIsTold, Running
<1>2. CASE Exit
  <2>1. CASE Running(reader)
    <3>1. UNCHANGED answers /\ stopped' = reader /\ main' = "stopping"
      BY <1>2, <2>1 DEF Exit
    <3>2. TypeOK'
      BY <1>2, <2>1, <3>1 DEF Exit, IInv, TypeOK, Tasks, Running, report, answers, server
    <3>3. QED
      BY <1>2, <3>1, <3>2 DEF Exit, IInv, NobodyWaitsInVain, PingsHaveReader, FailureIsOwn,
         ReaderSays, ReportedIsTold, report, answers
  <2>2. CASE ~Running(reader)
    <3>1. Answer(Failed) /\ stopped' = stopped /\ main' = "closing" /\ main = "body"
      BY <1>2, <2>2 DEF Exit, FailPongs
    <3>2. TypeOK'
      BY <1>2, <3>1, AnswerAll DEF Exit, IInv, TypeOK, Tasks, report, server
    <3>3. PingsHaveReader'
      BY <3>1, AnswerAll DEF IInv, PingsHaveReader
    <3>4. QED
      BY <1>2, <3>1, <3>2, <3>3 DEF Exit, IInv, NobodyWaitsInVain, FailureIsOwn,
         ReaderSays, ReportedIsTold, report
  <2>3. QED
    BY <2>1, <2>2
<1>3. CASE ReaderStopped
  <2>1. Answer(Failed)
    BY <1>3 DEF ReaderStopped, FailPongs
  <2>2. TypeOK'
    BY <1>3, <2>1, AnswerAll DEF ReaderStopped, IInv, TypeOK, Tasks, report, server
  <2>3. PingsHaveReader'
    BY <2>1, AnswerAll DEF IInv, PingsHaveReader
  <2>4. QED
    BY <1>3, <2>2, <2>3 DEF ReaderStopped, IInv, NobodyWaitsInVain, FailureIsOwn,
       ReaderSays, ReportedIsTold, report
<1>4. CASE Close
  <2>1. TypeOK'
    BY <1>4 DEF Close, IInv, TypeOK, readers, report, answers, server
  <2>2. QED
    BY <1>4, <2>1 DEF Close, IInv, NobodyWaitsInVain, PingsHaveReader, FailureIsOwn,
       ReaderSays, ReportedIsTold, Running, readers, report, answers, server
<1>5. ASSUME Closed \/ CloseCancelled
      PROVE  IInv'
  <2>1. /\ main = "closing" /\ main' = "outside" /\ connection' = FALSE
        /\ UNCHANGED <<raised, link, inbox, readers, failure, pending, consumer, answers, server, opened>>
    BY <1>5 DEF Closed, CloseCancelled, report
  <2>2. reported' \in BOOLEAN /\ told' = reported'
    <3>1. reported = told /\ reported \in BOOLEAN
      BY DEF IInv, TypeOK, ReportedIsTold
    <3>2. CASE Closed
      BY <3>1, <3>2 DEF Closed
    <3>3. CASE CloseCancelled
      BY <3>1, <3>3 DEF CloseCancelled, report
    <3>4. QED
      BY <1>5, <3>2, <3>3
  <2>3. TypeOK'
    BY <2>1, <2>2 DEF IInv, TypeOK, readers, answers, server
  <2>4. QED
    BY <2>1, <2>2, <2>3 DEF IInv, NobodyWaitsInVain, PingsHaveReader, FailureIsOwn,
       ReaderSays, ReportedIsTold, Running, readers, answers
<1>6. QED
  BY <1>1, <1>2, <1>3, <1>4, <1>5 DEF Block

LEMMA StepInvariant == IInv /\ [Next]_vars => IInv'
<1> SUFFICES ASSUME IInv, [Next]_vars
             PROVE  IInv'
  OBVIOUS
<1>1. CASE Next
  <2>1. ServerSends \/ ServerAnswers \/ LinkEnds => IInv'
    BY ServerInvariant
  <2>2. Reader => IInv'
    BY ReaderInvariant
  <2>3. Iterate \/ Resume("yielded") \/ Resume("woken") \/ Leave => IInv'
    BY ConsumerInvariant
  <2>4. ASSUME NEW p \in Pingers, Pinger(p)
        PROVE  IInv'
    BY <2>4, PingerInvariant
  <2>5. SendFails => IInv'
    BY SendFailsInvariant
  <2>6. Block => IInv'
    BY BlockInvariant
  <2>7. QED
    BY <1>1, <2>1, <2>2, <2>3, <2>4, <2>5, <2>6 DEF Next
<1>2. CASE UNCHANGED vars
  BY <1>2 DEF vars, readers, answers, report, server, IInv, TypeOK, NobodyWaitsInVain,
     PingsHaveReader, FailureIsOwn, ReaderSays, ReportedIsTold, Running
<1>3. QED
  BY <1>1, <1>2
-------------------------------------------------------------------------------
(* The invariant holds in every state the socket can be in.                     *)
THEOREM Invariance == Spec => []IInv
BY InitInvariant, StepInvariant, PTL DEF Spec

(* events(): while the block is open nobody waits for an event that is there,   *)
(* or on a socket nobody reads.                                                  *)
THEOREM NobodyWaits == Spec => []NobodyWaitsInVain
BY Invariance, PTL DEF IInv

(* ping(): whoever waits for a pong has a task that will end the wait.           *)
THEOREM PingsAreServed == Spec => []PingsHaveReader
BY Invariance, PTL DEF IInv

(* __aenter__(): no failure is carried over from one connection to the next.     *)
THEOREM FailuresAreOwn == Spec => []FailureIsOwn
BY Invariance, PTL DEF IInv

(* __aexit__(): a failure the reader saw reaches somebody, and __aexit__() raises *)
(* it exactly when it has not.                                                    *)
THEOREM FailuresAreTold == Spec => SeenFailureIsTold
<1>1. ASSUME IInv, Closed, ~raised, failure # "none"
      PROVE  told' /\ (told # Raises)
  <2>1. reported = told /\ reported \in BOOLEAN /\ told' = (told \/ Raises)
    BY <1>1 DEF IInv, TypeOK, ReportedIsTold, Closed
  <2>2. Raises = ~reported
    BY <1>1, <2>1 DEF Raises
  <2>3. QED
    BY <2>1, <2>2
<1>2. IInv => [Closed /\ ~raised /\ failure # "none" => told' /\ (told # Raises)]_vars
  BY <1>1
<1>3. QED
  BY <1>2, Invariance, PTL DEF SeenFailureIsTold

(* events(): while the block is open, an iteration that ends without an exception *)
(* ends because the server closed the connection cleanly.                         *)
THEOREM SilentEndsAreClean == Spec => SilentEndIsClean
<1> DEFINE Clean == consumer' = "ended" /\ consumer # "ended" /\ main = "body" => link = "closed"
<1>1. ASSUME IInv, [Next]_vars, consumer' = "ended", consumer # "ended", main = "body"
      PROVE  link = "closed"
  <2>1. ASSUME NEW from, Resume(from)
        PROVE  link = "closed"
    BY <1>1, <2>1 DEF Resume, Collect, IInv, ReaderSays
  <2>2. ~Iterate
    BY <1>1 DEF Iterate, StartReader, Collect, Running
  <2>3. CASE consumer' \in {consumer, "woken", "none"}
    BY <1>1, <2>3
  <2>4. QED
    <3>1. ServerSends \/ ServerAnswers \/ LinkEnds \/ Block => consumer' = consumer
      BY DEF ServerSends, ServerAnswers, LinkEnds, Block, Enter, Exit, ReaderStopped, Close,
         Closed, CloseCancelled
    <3>2. Reader => consumer' \in {consumer, "woken"}
      BY DEF Reader, ReaderStarts, ReaderReads, ReaderReadsLast, ReaderEnds, ReaderCancelled,
         ReaderFinishes, Wakeup
    <3>3. Leave => consumer' = "none"
      BY DEF Leave
    <3>4. SendFails \/ (\E p \in Pingers : Pinger(p)) => consumer' = consumer
      BY DEF SendFails, Pinger, PingStarts, PingSent, PingReturns, PingTimesOut
    <3>5. UNCHANGED vars => consumer' = consumer
      BY DEF vars
    <3>6. QED
      BY <1>1, <2>1, <2>2, <2>3, <3>1, <3>2, <3>3, <3>4, <3>5 DEF Next
<1>2. IInv /\ [Next]_vars => [Clean]_vars
  BY <1>1
<1>3. QED
  BY <1>2, Invariance, PTL DEF Spec, SilentEndIsClean
-------------------------------------------------------------------------------
(* What the socket is to those who use it: an EventChannel.                     *)

\* Whoever is in self._pong_waiters has a ping under way, and no answer to it.
WaitersWait == \A p \in waiters : ping[p].task # "idle" /\ ping[p].answer = Unanswered

(* A waiter is in self._pong_waiters from its ping's send to its answer.        *)
LEMMA WaitersInit == Init => WaitersWait
BY DEF Init, WaitersWait

LEMMA WaitersStep == IInv /\ WaitersWait /\ [Next]_vars => WaitersWait'
<1> SUFFICES ASSUME IInv, WaitersWait, [Next]_vars
             PROVE  WaitersWait'
  OBVIOUS
<1>1. CASE UNCHANGED answers
  BY <1>1 DEF WaitersWait, answers
<1>2. CASE waiters' = {}
  BY <1>2 DEF WaitersWait
<1>3. ASSUME NEW p \in Pingers, Pinger(p)
      PROVE  WaitersWait'
  <2>1. \A q \in Pingers : ping[q] \in [task : {"idle", "sending", "waiting"}, number : Nat,
                                        answer : Nat \cup {Failed}]
    BY DEF IInv, TypeOK
  <2>2. waiters \subseteq Pingers /\ DOMAIN ping = Pingers
    BY DEF IInv, TypeOK
  <2>3. CASE PingStarts(p)
    <3>1. CASE link = "open"
      <4>1. PICK task \in {"sending", "waiting"} :
              ping' = [ping EXCEPT ![p] = [task |-> task, number |-> pings', answer |-> Unanswered]]
        BY <2>3, <3>1 DEF PingStarts
      <4>2. waiters' = waiters \cup {p}
        BY <2>3, <3>1 DEF PingStarts
      <4>3. ping'[p].task # "idle" /\ ping'[p].answer = Unanswered
        BY <2>2, <4>1
      <4>4. \A q \in waiters : q # p => ping'[q] = ping[q]
        BY <2>2, <4>1
      <4>5. QED
        BY <4>2, <4>3, <4>4 DEF WaitersWait
    <3>2. CASE link # "open"
      BY <1>1, <2>3, <3>2 DEF PingStarts
    <3>3. QED
      BY <3>1, <3>2
  <2>4. CASE \/ ping' = [ping EXCEPT ![p] = Idle] /\ waiters' = waiters \ {p}
             \/ /\ ping' = [ping EXCEPT ![p] = Idle] /\ waiters' = waiters
                /\ ping[p].answer # Unanswered
    <3>1. \A q \in waiters' : q \in waiters /\ q # p
      BY <2>4 DEF WaitersWait
    <3>2. \A q \in waiters' : ping'[q] = ping[q]
      BY <2>2, <2>4, <3>1
    <3>3. QED
      BY <3>1, <3>2 DEF WaitersWait
  <2>5. CASE ping' = [ping EXCEPT ![p].task = "waiting"] /\ waiters' = waiters
    <3>1. ping'[p].task # "idle" /\ ping'[p].answer = ping[p].answer
      BY <2>1, <2>2, <2>5
    <3>2. \A q \in waiters : q # p => ping'[q] = ping[q]
      BY <2>2, <2>5
    <3>3. QED
      BY <2>5, <3>1, <3>2 DEF WaitersWait
  <2>6. QED
    BY <1>3, <2>3, <2>4, <2>5 DEF Pinger, PingSent, PingReturns, PingTimesOut
<1>4. ServerSends \/ ServerAnswers \/ LinkEnds => UNCHANGED answers
  BY DEF ServerSends, ServerAnswers, LinkEnds
<1>5. Reader => UNCHANGED answers \/ waiters' = {}
  BY DEF Reader, ReaderStarts, ReaderReads, ReaderReadsLast, ReaderEnds, ReaderCancelled,
     ReaderFinishes, FailPongs, ResolvePongs, Answer
<1>6. Iterate \/ Resume("yielded") \/ Resume("woken") \/ Leave \/ SendFails => UNCHANGED answers
  BY DEF Iterate, Resume, Leave, SendFails
<1>7. Block => UNCHANGED answers \/ waiters' = {}
  BY DEF Block, Enter, Exit, ReaderStopped, Close, Closed, CloseCancelled, FailPongs, Answer
<1>8. UNCHANGED vars => UNCHANGED answers
  BY DEF vars
<1>9. QED
  BY <1>1, <1>2, <1>3, <1>4, <1>5, <1>6, <1>7, <1>8 DEF Next

(* ping(): it is in self._pong_waiters only while its call is under way, whatever *)
(* ends that call.                                                                 *)
THEOREM WaitersAreWaiting == Spec => []WaitersWait
BY WaitersInit, WaitersStep, Invariance, PTL DEF Spec

(* What the tasks see of a ping changes only with what it is doing.             *)
LEMMA CallsUnchanged ==
    ASSUME UNCHANGED answers
    PROVE  Calls' = Calls
BY DEF answers, Calls, CallOf

(* The pings that wait for an answer are those in self._pong_waiters.           *)
LEMMA CallsWaiting ==
    ASSUME IInv, WaitersWait, NEW p \in Pingers
    PROVE  /\ CallOf(p) = "waiting" <=> p \in waiters
           /\ Calls[p] = CallOf(p)
BY DEF IInv, TypeOK, PingsHaveReader, WaitersWait, Calls, CallOf

(* An answer to all of them is one to each that waits, and to no other.         *)
LEMMA CallsAnswered ==
    ASSUME IInv, WaitersWait, NEW answer \in (Nat \ {0}) \cup {Failed}, Answer(answer)
    PROVE  Calls' = [p \in Pingers |-> IF Calls[p] = "waiting"
                                       THEN IF answer = Failed THEN "failed" ELSE "pong"
                                       ELSE Calls[p]]
<1>1. ASSUME NEW p \in Pingers
      PROVE  CallOf(p)' = IF Calls[p] = "waiting"
                          THEN IF answer = Failed THEN "failed" ELSE "pong"
                          ELSE Calls[p]
  <2>1. ping[p] \in [task : {"idle", "sending", "waiting"}, number : Nat,
                     answer : Nat \cup {Failed}]
    BY DEF IInv, TypeOK
  <2>2. ping'[p] = IF p \in waiters THEN [ping[p] EXCEPT !.answer = answer] ELSE ping[p]
    BY DEF Answer
  <2>3. CASE p \in waiters
    <3>1. ping'[p].task = ping[p].task /\ ping'[p].answer = answer
      BY <2>1, <2>2, <2>3
    <3>2. ping'[p].task # "idle" /\ Calls[p] = "waiting"
      BY <2>3, <3>1, CallsWaiting DEF WaitersWait
    <3>3. QED
      BY <3>1, <3>2 DEF CallOf
  <2>4. CASE p \notin waiters
    <3>1. CallOf(p)' = CallOf(p)
      BY <2>2, <2>4 DEF CallOf
    <3>2. QED
      BY <2>4, <3>1, CallsWaiting
  <2>5. QED
    BY <2>3, <2>4
<1>2. QED
  BY <1>1 DEF Calls

(* With nobody in self._pong_waiters, failing all changes nothing.              *)
LEMMA NobodyAnswered ==
    ASSUME IInv, WaitersWait, waiters = {}, FailPongs
    PROVE  Calls' = Calls
<1>1. \A p \in Pingers : ping'[p] = ping[p]
  BY DEF FailPongs, Answer
<1>2. QED
  BY <1>1 DEF Calls, CallOf

(* One ping changes, and the others are what they were.                         *)
LEMMA CallChanged ==
    ASSUME IInv, NEW p \in Pingers, NEW r,
           ping' = [ping EXCEPT ![p] = r]
    PROVE  Calls' = [Calls EXCEPT ![p] = CallOf(p)'] /\ ping'[p] = r
<1>1. DOMAIN ping = Pingers
  BY DEF IInv, TypeOK
<1>2. ping'[p] = r /\ \A q \in Pingers : q # p => ping'[q] = ping[q]
  BY <1>1
<1>3. \A q \in Pingers : q # p => CallOf(q)' = CallOf(q)
  BY <1>2 DEF CallOf
<1>4. Calls' = [q \in Pingers |-> CallOf(q)'] /\ Calls = [q \in Pingers |-> CallOf(q)]
  BY DEF Calls
<1>5. QED
  BY <1>2, <1>3, <1>4

(* Waking the consumer is no news to one that is busy.                          *)
LEMMA IterationWoken ==
    ASSUME IInv, Wakeup
    PROVE  Iteration' = IF Iteration = "waiting" THEN "busy" ELSE Iteration
BY DEF IInv, TypeOK, Wakeup, Iteration
-------------------------------------------------------------------------------
\* A step of the channel, or none that it knows of.
ChannelStep == [Channel!Next]_(Channel!vars)

(* Before it is entered, an unused channel.                                     *)
LEMMA ChannelInit == Init => Channel!Init
<1> SUFFICES ASSUME Init
             PROVE  Channel!Init
  OBVIOUS
<1>1. Calls = [p \in Pingers |-> "none"]
  BY DEF Init, Idle, Calls, CallOf
<1>2. Running(reader) = FALSE /\ Iteration = "none"
  BY DEF Init, Running, Iteration
<1>3. QED
  BY <1>1, <1>2 DEF Init, Channel!Init

(* Nothing the tasks see changes.                                               *)
LEMMA ChannelStutters ==
    ASSUME UNCHANGED <<main, raised, link, failure, told>>,
           Running(reader)' = Running(reader), Calls' = Calls, Iteration' = Iteration
    PROVE  ChannelStep
BY DEF ChannelStep, Channel!vars

(* Frames that arrive are seen when they are read; the end of the connection    *)
(* when it comes.                                                               *)
LEMMA ServerSeen ==
    ASSUME IInv, ServerSends \/ ServerAnswers \/ LinkEnds \/ Close
    PROVE  ChannelStep
<1>1. /\ UNCHANGED <<main, raised, readers, report, consumer, answers>>
      /\ UNCHANGED link \/ (link = "open" /\ link' \in {"closed", "broken"})
  BY DEF ServerSends, ServerAnswers, LinkEnds, Close, Arrive
<1>2. /\ UNCHANGED <<main, raised, failure, told>>
      /\ Running(reader)' = Running(reader) /\ Calls' = Calls /\ Iteration' = Iteration
  BY <1>1, CallsUnchanged DEF readers, report, Running, Iteration
<1>3. CASE UNCHANGED link
  BY <1>2, <1>3, ChannelStutters
<1>4. CASE link = "open" /\ link' \in {"closed", "broken"}
  <2>1. Channel!LinkGoes
    BY <1>2, <1>4 DEF Channel!LinkGoes
  <2>2. QED
    BY <2>1 DEF ChannelStep, Channel!Next
<1>5. QED
  BY <1>1, <1>3, <1>4

(* The reader: what it reads, and what it leaves behind when it ends.           *)
LEMMA FinishSeen ==
    ASSUME IInv, WaitersWait, ReaderFinishes
    PROVE  Channel!Give("failed") /\ Channel!Wake
<1>1. Answer(Failed) /\ Wakeup
  BY DEF ReaderFinishes, FailPongs
<1>2. QED
  BY <1>1, CallsAnswered, IterationWoken DEF Channel!Give, Channel!Wake

LEMMA ReaderSeen ==
    ASSUME IInv, WaitersWait, Reader
    PROVE  ChannelStep
<1>1. CASE ReaderStarts
  <2>1. CASE connection
    <3>1. /\ UNCHANGED <<main, raised, link, failure, told>>
          /\ Running(reader)' = Running(reader) /\ Calls' = Calls /\ Iteration' = Iteration
      BY <1>1, <2>1, CallsUnchanged DEF ReaderStarts, Running, Iteration
    <3>2. QED
      BY <3>1, ChannelStutters
  <2>2. CASE ~connection
    <3>1. ReaderFinishes /\ main = "outside" /\ Running(reader) /\ Running(reader)' = FALSE
      <4>1. main = "outside"
        BY <2>2 DEF IInv, TypeOK
      <4>2. ReaderFinishes /\ reader = "new" /\ reader' = "done"
        BY <1>1, <2>2 DEF ReaderStarts
      <4>3. QED
        BY <4>1, <4>2 DEF Running
    <3>2. failure' = "unconnected" /\ UNCHANGED <<main, raised, link, told>>
      BY <1>1, <2>2 DEF ReaderStarts
    <3>3. Channel!Notice
      BY <3>1, <3>2, FinishSeen DEF Channel!Notice
    <3>4. QED
      BY <3>3 DEF ChannelStep, Channel!Next
  <2>3. QED
    BY <2>1, <2>2
<1>2. CASE ReaderReads
  <2>1. /\ UNCHANGED <<main, raised, link, failure, told>>
        /\ Running(reader) /\ Running(reader)' = Running(reader)
    BY <1>2 DEF ReaderReads, Running, readers, report
  <2>2. Channel!Wake
    BY <1>2, IterationWoken DEF ReaderReads, Channel!Wake
  <2>3. Channel!Give("pong") \/ Calls' = Calls
    <3>1. CASE Head(inbox).kind = "pong"
      <4> DEFINE n == Head(inbox).of
      <4>1. n \in Nat \ {0} /\ Answer(n)
        BY <1>2, <3>1, FrameRead DEF ReaderReads, ResolvePongs, IInv
      <4> HIDE DEF n
      <4>2. QED
        BY <4>1, CallsAnswered DEF Channel!Give, Failed
    <3>2. CASE Head(inbox).kind # "pong"
      BY <1>2, <3>2, CallsUnchanged DEF ReaderReads
    <3>3. QED
      BY <3>1, <3>2
  <2>4. Channel!Read
    BY <2>1, <2>2, <2>3 DEF Channel!Read
  <2>5. QED
    BY <2>4 DEF ChannelStep, Channel!Next
<1>3. CASE ReaderReadsLast
  <2> DEFINE given == IF Head(inbox).kind = "pong" THEN Head(inbox).of ELSE Failed
  <2>1. given \in (Nat \ {0}) \cup {Failed} /\ Answer(given)
    BY <1>3, FrameRead DEF ReaderReadsLast, IInv
  <2>2. /\ main = "outside" /\ failure' = "unconnected" /\ UNCHANGED <<main, raised, link, told>>
        /\ Running(reader) /\ Running(reader)' = FALSE
    <3>1. main = "outside"
      BY <1>3 DEF ReaderReadsLast, IInv, TypeOK
    <3>2. /\ failure' = "unconnected" /\ UNCHANGED <<main, raised, link, told>>
          /\ reader = "recv" /\ reader' = "done"
      BY <1>3 DEF ReaderReadsLast
    <3>3. QED
      BY <3>1, <3>2 DEF Running
  <2>3. Channel!Wake
    BY <1>3, IterationWoken DEF ReaderReadsLast, Channel!Wake
  <2> HIDE DEF given
  <2>4. Channel!Give("failed") \/ Channel!Give("pong")
    <3>1. CASE given = Failed
      BY <2>1, <3>1, CallsAnswered DEF Channel!Give
    <3>2. CASE given # Failed
      BY <2>1, <3>2, CallsAnswered DEF Channel!Give
    <3>3. QED
      BY <3>1, <3>2
  <2>5. Channel!Notice
    BY <2>2, <2>3, <2>4 DEF Channel!Notice
  <2>6. QED
    BY <2>5 DEF ChannelStep, Channel!Next
<1>4. CASE ReaderEnds
  <2>1. /\ link # "open" /\ failure' = (IF link = "broken" THEN "lost" ELSE failure)
        /\ UNCHANGED <<main, raised, link, told>>
        /\ Running(reader) /\ Running(reader)' = FALSE
    BY <1>4 DEF ReaderEnds, Running
  <2>2. Channel!Give("failed") /\ Channel!Wake
    BY <1>4, FinishSeen DEF ReaderEnds
  <2>3. Channel!Notice
    BY <2>1, <2>2 DEF Channel!Notice
  <2>4. QED
    BY <2>3 DEF ChannelStep, Channel!Next
<1>5. CASE ReaderCancelled
  <2>1. /\ main = "stopping" /\ UNCHANGED <<main, raised, link, failure, told>>
        /\ Running(reader)' = Running(reader)
    BY <1>5 DEF ReaderCancelled, Running, IInv, TypeOK, report
  <2>2. CASE stopped = "recv"
    <3>1. Channel!Give("failed") /\ Channel!Wake
      BY <1>5, <2>2, FinishSeen DEF ReaderCancelled
    <3>2. Channel!GiveUp
      BY <2>1, <3>1 DEF Channel!GiveUp
    <3>3. QED
      BY <3>2 DEF ChannelStep, Channel!Next
  <2>3. CASE stopped = "new"
    <3>1. Calls' = Calls /\ Iteration' = Iteration
      BY <1>5, <2>3, CallsUnchanged DEF ReaderCancelled, Iteration
    <3>2. QED
      BY <2>1, <3>1, ChannelStutters
  <2>4. QED
    BY <1>5, <2>2, <2>3 DEF ReaderCancelled
<1>6. QED
  BY <1>1, <1>2, <1>3, <1>4, <1>5 DEF Reader

(* The iteration, which waits for the wakeup or goes on with an event.          *)
LEMMA ConsumerSeen ==
    ASSUME IInv, Iterate \/ Resume("yielded") \/ Resume("woken") \/ Leave
    PROVE  ChannelStep
<1>1. Calls' = Calls /\ UNCHANGED <<main, raised, link, failure>>
  BY CallsUnchanged DEF Iterate, Resume, Leave, report
<1>2. CASE Iterate
  <2>1. Running(reader') /\ main # "outside" /\ consumer \in {"none", "ended", "failed"}
    BY <1>2 DEF Iterate, StartReader, Running, IInv, TypeOK
  <2>2. consumer' \in {"yielded", "waiting"} /\ told' = told
    BY <1>2, <2>1 DEF Iterate, Collect
  <2>3. Iteration \in {"none", "ended", "failed"} /\ Iteration' \in {"busy", "waiting"}
    BY <2>1, <2>2 DEF Iteration
  <2>4. Running(reader)' = TRUE
    BY <2>1
  <2>5. Channel!Iterate
    BY <1>1, <2>1, <2>2, <2>3, <2>4 DEF Channel!Iterate
  <2>6. QED
    BY <2>5 DEF ChannelStep, Channel!Next
<1>3. ASSUME NEW from \in {"yielded", "woken"}, Resume(from)
      PROVE  ChannelStep
  <2>1. Iteration = "busy" /\ Running(reader)' = Running(reader)
    BY <1>3 DEF Resume, Iteration, Running, readers
  <2>2. \/ consumer' = "yielded" /\ UNCHANGED told
        \/ Running(reader) /\ consumer' = "waiting" /\ UNCHANGED told
        \/ ~Running(reader) /\ failure # "none" /\ consumer' = "failed" /\ told' = TRUE
        \/ ~Running(reader) /\ failure = "none" /\ consumer' = "ended" /\ UNCHANGED told
    BY <1>3 DEF Resume, Collect
  <2>3. Channel!GoOn
    BY <1>1, <2>1, <2>2 DEF Channel!GoOn, Iteration
  <2>4. QED
    BY <2>3 DEF ChannelStep, Channel!Next
<1>4. CASE Leave
  <2>1. /\ consumer \in {"yielded", "waiting", "woken"} /\ consumer' = "none" /\ told' = told
        /\ Running(reader)' = Running(reader)
    BY <1>4 DEF Leave, report, readers, Running
  <2>2. Channel!Drop
    BY <1>1, <2>1 DEF Channel!Drop, Iteration
  <2>3. QED
    BY <2>2 DEF ChannelStep, Channel!Next
<1>5. QED
  BY <1>2, <1>3, <1>4

(* A ping: the number it is sent with, and the time its send takes, are its own *)
(* affair.                                                                      *)
LEMMA PingerSeen ==
    ASSUME IInv, WaitersWait, NEW p \in Pingers, Pinger(p)
    PROVE  ChannelStep
<1>1. /\ UNCHANGED <<main, raised, link, failure>> /\ Iteration' = Iteration
      /\ ping[p] \in [task : {"idle", "sending", "waiting"}, number : Nat,
                      answer : Nat \cup {Failed}]
  BY DEF Pinger, PingStarts, PingSent, PingReturns, PingTimesOut, Iteration, IInv, TypeOK, report
<1>2. Calls[p] = CallOf(p) /\ CallOf(p) \in {"none", "waiting", "failed", "pong"}
  BY CallsWaiting DEF CallOf
<1>3. CASE PingStarts(p)
  <2>1. Running(reader)' = TRUE /\ main # "outside" /\ Calls[p] = "none"
    <3>1. Running(reader')
      BY <1>3 DEF PingStarts, StartReader, Running
    <3>2. QED
      BY <1>2, <1>3, <3>1 DEF PingStarts, CallOf, IInv, TypeOK
  <2>2. CASE link = "open"
    <3>1. PICK task \in {"sending", "waiting"} :
            ping' = [ping EXCEPT ![p] = [task |-> task, number |-> pings', answer |-> Unanswered]]
      BY <1>3, <2>2 DEF PingStarts
    <3>2. told' = told
      BY <1>3, <2>2 DEF PingStarts
    <3>3. ping'[p].task = task /\ ping'[p].answer = Unanswered
      <4>1. ping'[p] = [task |-> task, number |-> pings', answer |-> Unanswered]
        BY <3>1, CallChanged
      <4>2. QED
        BY <4>1
    <3>4. CallOf(p)' = "waiting"
      BY <3>3 DEF CallOf
    <3>5. Calls' = [Calls EXCEPT ![p] = "waiting"]
      BY <3>1, <3>4, CallChanged
    <3>6. Channel!Ping(p)
      BY <1>1, <2>1, <2>2, <3>2, <3>5 DEF Channel!Ping
    <3>7. QED
      BY <3>6 DEF ChannelStep, Channel!Next
  <2>3. CASE link # "open"
    <3>1. Calls' = Calls /\ told' = TRUE
      BY <1>3, <2>3, CallsUnchanged DEF PingStarts, TellCaller
    <3>2. Channel!Ping(p)
      BY <1>1, <2>1, <2>3, <3>1 DEF Channel!Ping
    <3>3. QED
      BY <3>2 DEF ChannelStep, Channel!Next
  <2>4. QED
    BY <2>2, <2>3
<1>4. CASE PingSent(p) /\ link = "open"
  <2>1. ping' = [ping EXCEPT ![p].task = "waiting"] /\ UNCHANGED <<told, readers>>
    BY <1>4 DEF PingSent
  <2>2. ping' = [ping EXCEPT ![p] = [ping[p] EXCEPT !.task = "waiting"]]
    BY <2>1
  <2>3. ping'[p].task = "waiting" /\ ping'[p].answer = ping[p].answer
    <3>1. ping'[p] = [ping[p] EXCEPT !.task = "waiting"]
      BY <2>2, CallChanged
    <3>2. QED
      BY <1>1, <3>1
  <2>4. CallOf(p)' = CallOf(p)
    BY <1>4, <2>3 DEF CallOf, PingSent
  <2>5. Calls' = Calls
    BY <1>2, <2>2, <2>4, CallChanged DEF Calls
  <2>6. QED
    BY <1>1, <2>1, <2>5, ChannelStutters DEF readers, Running
<1>5. CASE PingReturns(p) \/ PingTimesOut(p) \/ (PingSent(p) /\ link # "open")
  <2>1. /\ ping' = [ping EXCEPT ![p] = Idle] /\ UNCHANGED readers
        /\ ping[p].task # "idle"
    BY <1>5 DEF PingReturns, PingTimesOut, PingSent
  <2>2. told' = told \/ ((ping[p].answer = Failed \/ link # "open") /\ told' = TRUE)
    BY <1>5 DEF PingReturns, PingTimesOut, PingSent, TellCaller, report
  <2>3. Calls[p] # "none" /\ (ping[p].answer = Failed => Calls[p] = "failed")
    BY <1>2, <2>1 DEF CallOf
  <2>4. ping'[p] = Idle
    BY <2>1, CallChanged
  <2>5. CallOf(p)' = "none"
    BY <2>4 DEF CallOf, Idle
  <2>6. Calls' = [Calls EXCEPT ![p] = "none"]
    BY <2>1, <2>5, CallChanged
  <2>7. Running(reader)' = Running(reader)
    BY <2>1 DEF readers, Running
  <2>8. Channel!Return(p)
    BY <1>1, <2>2, <2>3, <2>6, <2>7 DEF Channel!Return
  <2>9. QED
    BY <2>8 DEF ChannelStep, Channel!Next
<1>6. QED
  BY <1>3, <1>4, <1>5 DEF Pinger

(* Any other send that finds the connection gone.                               *)
LEMMA SendSeen ==
    ASSUME IInv, SendFails
    PROVE  ChannelStep
<1>1. /\ main # "outside" /\ link # "open" /\ told' = TRUE
      /\ UNCHANGED <<main, raised, link, readers, failure, consumer, answers>>
  BY DEF SendFails, TellCaller, IInv, TypeOK
<1>2. Channel!Tell
  BY <1>1, CallsUnchanged DEF Channel!Tell, readers, Running, Iteration
<1>3. QED
  BY <1>2 DEF ChannelStep, Channel!Next

(* The block: the reader it starts, stops and awaits is all the tasks see of    *)
(* the tasks behind it.                                                         *)
LEMMA BlockSeen ==
    ASSUME IInv, WaitersWait, Block
    PROVE  ChannelStep
<1>1. Iteration' = Iteration
  BY DEF Block, Enter, Exit, ReaderStopped, Close, Closed, CloseCancelled, Iteration
<1>2. CASE Enter
  <2>1. \A p \in Pingers : Calls[p] = "none"
    BY <1>2 DEF Enter, NothingReady, Calls, CallOf
  <2>2. ~Running(reader) /\ Running(reader)' = TRUE /\ Calls' = Calls
    BY <1>2, CallsUnchanged DEF Enter, NothingReady, Running
  <2>3. /\ main = "outside" /\ main' = "body" /\ link' = "open" /\ UNCHANGED raised
        /\ failure' = "none" /\ told' = FALSE
    BY <1>2 DEF Enter
  <2>4. Channel!Enter
    BY <1>1, <2>1, <2>2, <2>3 DEF Channel!Enter
  <2>5. QED
    BY <2>4 DEF ChannelStep, Channel!Next
<1>3. CASE Exit
  <2>1. /\ main = "body" /\ raised' \in BOOLEAN /\ Running(reader)' = FALSE
        /\ main' = IF Running(reader) THEN "stopping" ELSE "closing"
        /\ UNCHANGED <<link, failure, told>>
    BY <1>3 DEF Exit, Running, report
  <2>2. Calls' = Calls
    <3>1. CASE Running(reader)
      BY <1>3, <3>1, CallsUnchanged DEF Exit
    <3>2. CASE ~Running(reader)
      <4>1. waiters = {}
        BY <2>1, <3>2 DEF IInv, TypeOK, PingsHaveReader, WaitersWait
      <4>2. FailPongs
        BY <1>3, <3>2 DEF Exit
      <4>3. QED
        BY <4>1, <4>2, NobodyAnswered
    <3>3. QED
      BY <3>1, <3>2
  <2>3. Channel!Exit
    BY <1>1, <2>1, <2>2 DEF Channel!Exit
  <2>4. QED
    BY <2>3 DEF ChannelStep, Channel!Next
<1>4. CASE ReaderStopped
  <2>1. /\ main = "stopping" /\ main' = "closing" /\ UNCHANGED <<raised, link, failure, told>>
        /\ Running(reader)' = Running(reader)
    BY <1>4 DEF ReaderStopped, Running, report
  <2>2. Channel!Give("failed")
    BY <1>4, CallsAnswered DEF ReaderStopped, FailPongs, Channel!Give
  <2>3. Channel!GiveUp
    BY <1>1, <2>1, <2>2 DEF Channel!GiveUp
  <2>4. QED
    BY <2>3 DEF ChannelStep, Channel!Next
<1>5. CASE Close
  BY <1>5, ServerSeen
<1>6. ASSUME Closed \/ CloseCancelled
      PROVE  ChannelStep
  <2>1. /\ main = "closing" /\ main' = "outside" /\ UNCHANGED <<raised, link, failure>>
        /\ Running(reader)' = Running(reader) /\ Calls' = Calls
    BY <1>6, CallsUnchanged DEF Closed, CloseCancelled, readers, report, Running
  <2>2. CASE Closed
    <3>1. link # "open" /\ told' = (told \/ Raises) /\ reported = told
      BY <2>2 DEF Closed, IInv, ReportedIsTold
    <3>2. told' = (told \/ (~raised /\ failure # "none"))
      <4>1. told \/ Raises <=> told \/ (~raised /\ failure # "none")
        BY <3>1 DEF Raises
      <4>2. QED
        BY <3>1, <4>1
    <3>3. Channel!Leave
      BY <1>1, <2>1, <3>1, <3>2 DEF Channel!Leave
    <3>4. QED
      BY <3>3 DEF ChannelStep, Channel!Next
  <2>3. CASE CloseCancelled
    <3>1. Channel!Leave
      BY <1>1, <2>1, <2>3 DEF Channel!Leave, CloseCancelled, report
    <3>2. QED
      BY <3>1 DEF ChannelStep, Channel!Next
  <2>4. QED
    BY <1>6, <2>2, <2>3
<1>7. QED
  BY <1>2, <1>3, <1>4, <1>5, <1>6 DEF Block

LEMMA ChannelRefined == IInv /\ WaitersWait /\ [Next]_vars => [Channel!Next]_(Channel!vars)
<1> SUFFICES ASSUME IInv, WaitersWait, [Next]_vars
             PROVE  ChannelStep
  BY DEF ChannelStep
<1>1. ServerSends \/ ServerAnswers \/ LinkEnds => ChannelStep
  BY ServerSeen
<1>2. Reader => ChannelStep
  BY ReaderSeen
<1>3. Iterate \/ Resume("yielded") \/ Resume("woken") \/ Leave => ChannelStep
  BY ConsumerSeen
<1>4. ASSUME NEW p \in Pingers, Pinger(p)
      PROVE  ChannelStep
  BY <1>4, PingerSeen
<1>5. SendFails => ChannelStep
  BY SendSeen
<1>6. Block => ChannelStep
  BY BlockSeen
<1>7. CASE UNCHANGED vars
  <2>1. /\ UNCHANGED <<main, raised, link, failure, told>>
        /\ Running(reader)' = Running(reader) /\ Calls' = Calls /\ Iteration' = Iteration
    BY <1>7, CallsUnchanged DEF vars, readers, report, Running, Iteration
  <2>2. QED
    BY <2>1, ChannelStutters
<1>8. QED
  BY <1>1, <1>2, <1>3, <1>4, <1>5, <1>6, <1>7 DEF Next

(* PiKVMWebSocket, to the tasks that use it: for any number of them, and any     *)
(* limits, every step of the reader, the buffer and the exit is one an            *)
(* EventChannel may take, or none that they can see.                              *)
THEOREM ImplementsChannel == Spec => ChannelSpec
<1>1. Init => Channel!Init
  BY ChannelInit
<1>2. IInv /\ WaitersWait /\ [Next]_vars => [Channel!Next]_(Channel!vars)
  BY ChannelRefined
<1>3. QED
  BY <1>1, <1>2, Invariance, WaitersAreWaiting, PTL DEF Spec, ChannelSpec, Channel!Spec
===============================================================================
