--------------------------- MODULE MediaSocket_proofs ---------------------------
(* Proofs about MediaSocket, for any number of viewers, messages and connections. *)
EXTENDS MediaSocket, SequenceTheorems, TLAPS

(* The parts of TypeOK.                                                         *)
BlockTypes ==
    /\ pure \in BOOLEAN /\ torn \in BOOLEAN /\ started \in BOOLEAN
    /\ main \in {"outside", "announcing", "body", "closing"}
    /\ connection = (main # "outside")
    /\ link \in {"open", "closed", "broken"}
CountTypes == opened \in 0..MaxOpened /\ media \in 0..opened
MessageTypes ==
    /\ queue \in Seq(Message) /\ Len(queue) <= MaxQueue
    /\ sent \in Seq(Message) /\ got \in Seq(Message)
ConsumerTypes ==
    consumer \in [Consumers -> {"none", "yielded", "waiting", "ended", "failed"}]

Types == BlockTypes /\ CountTypes /\ MessageTypes /\ ConsumerTypes

LEMMA SameTypes == Types <=> TypeOK
BY DEF Types, TypeOK, BlockTypes, CountTypes, MessageTypes, ConsumerTypes

LEMMA NoMessage == <<>> \in Seq(Message) /\ Len(<<>>) <= MaxQueue
BY MediaAssumption

LEMMA InitTypes == Init => Types
<1> SUFFICES ASSUME Init PROVE Types
  OBVIOUS
<1>1. BlockTypes /\ ConsumerTypes
  BY DEF Init, BlockTypes, ConsumerTypes
<1>2. CountTypes
  <2>1. opened = 0 /\ media = 0
    BY DEF Init
  <2> QED
    BY <2>1, MediaAssumption DEF CountTypes
<1>3. MessageTypes
  BY NoMessage DEF Init, MessageTypes
<1> QED
  BY <1>1, <1>2, <1>3 DEF Types

(* What the queue holds, and what is taken from it, are messages.               *)
LEMMA HeadIsMessage ==
    ASSUME MessageTypes, queue # <<>>
    PROVE  /\ Head(queue) \in Message
           /\ Tail(queue) \in Seq(Message) /\ Len(Tail(queue)) <= MaxQueue
BY MediaAssumption DEF MessageTypes

LEMMA TypeStep == Types /\ [Next]_vars => Types'
<1> SUFFICES ASSUME Types, [Next]_vars PROVE Types'
  OBVIOUS
<1> USE MediaAssumption DEF Types, daemon
<1>1. CASE UNCHANGED vars
  BY <1>1 DEF vars, BlockTypes, CountTypes, MessageTypes, ConsumerTypes
<1>2. CASE DaemonSends
  <2> USE DEF MessageTypes
  <2>1. PICK kind \in Text \cup Binary :
          LET message == [kind |-> kind, number |-> Len(sent) + 1]
          IN  queue' = Append(queue, message) /\ sent' = Append(sent, message)
    BY <1>2 DEF DaemonSends
  <2> DEFINE message == [kind |-> kind, number |-> Len(sent) + 1]
  <2>2. message \in Message
    <3>1. Len(sent) < MaxMessages
      BY <1>2 DEF DaemonSends
    <3>2. Len(sent) \in Nat
      OBVIOUS
    <3>3. Len(sent) + 1 \in 1..MaxMessages
      BY <3>1, <3>2
    <3> QED
      BY <3>3 DEF Message
  <2>3. queue' = Append(queue, message) /\ sent' = Append(sent, message)
    BY <2>1
  <2> HIDE DEF message
  <2>4. Len(queue) < MaxQueue /\ got' = got
    BY <1>2 DEF DaemonSends
  <2>5. MessageTypes'
    BY <2>2, <2>3, <2>4
  <2> QED
    BY <1>2, <2>5 DEF DaemonSends, BlockTypes, CountTypes, ConsumerTypes
<1>3. CASE LinkEnds
  BY <1>3 DEF LinkEnds, BlockTypes, CountTypes, MessageTypes, ConsumerTypes
<1>4. CASE Enter
  <2>1. BlockTypes' /\ ConsumerTypes'
    BY <1>4 DEF Enter, BlockTypes, ConsumerTypes
  <2>2. CountTypes'
    <3>1. opened < MaxOpened /\ opened' = opened + 1 /\ media' = 0
      BY <1>4 DEF Enter
    <3> QED
      BY <3>1 DEF CountTypes
  <2>3. MessageTypes'
    BY <1>4, NoMessage DEF Enter, MessageTypes
  <2> QED
    BY <2>1, <2>2, <2>3
<1>5. CASE AnnouncementRead
  BY <1>5, HeadIsMessage
  DEF AnnouncementRead, Announced, BlockTypes, CountTypes, MessageTypes, ConsumerTypes
<1>6. CASE AnnouncementFails \/ Exit \/ Close \/ Closed \/ CloseCancelled
  BY <1>6 DEF AnnouncementFails, Exit, Close, Closed, CloseCancelled,
              BlockTypes, CountTypes, MessageTypes, ConsumerTypes
<1>7. CASE Start
  BY <1>7 DEF Start, BlockTypes, CountTypes, MessageTypes, ConsumerTypes
<1>8. ASSUME NEW c \in Consumers, Ask(c) \/ Ends(c) \/ Leave(c)
      PROVE  Types'
  BY <1>8 DEF Ask, Ends, Leave, BlockTypes, CountTypes, MessageTypes, ConsumerTypes
<1>9. ASSUME NEW c \in Consumers, Take(c)
      PROVE  Types'
  <2>1. BlockTypes' /\ CountTypes'
    BY <1>9 DEF Take, Announced, BlockTypes, CountTypes
  <2>2. MessageTypes'
    <3>1. queue # <<>> /\ queue' = Tail(queue) /\ sent' = sent
      BY <1>9 DEF Take
    <3>2. Head(queue) \in Message
      BY <3>1, HeadIsMessage
    <3>3. queue' \in Seq(Message) /\ Len(queue') <= MaxQueue
      BY <3>1, HeadIsMessage
    <3>4. got' = got \/ got' = Append(got, Head(queue))
      BY <1>9 DEF Take
    <3>5. got \in Seq(Message) /\ sent \in Seq(Message)
      BY DEF MessageTypes
    <3>6. got' \in Seq(Message)
      BY <3>2, <3>4, <3>5
    <3> QED
      BY <3>1, <3>3, <3>5, <3>6 DEF MessageTypes
  <2>3. ConsumerTypes'
    BY <1>9 DEF Take, ConsumerTypes
  <2> QED
    BY <2>1, <2>2, <2>3
<1> QED
  BY <1>1, <1>2, <1>3, <1>4, <1>5, <1>6, <1>7, <1>8, <1>9 DEF Next, Block

(* Every state has the types of TypeOK.                                         *)
THEOREM TypeCorrect == Spec => []TypeOK
BY InitTypes, TypeStep, SameTypes, PTL DEF Spec

LEMMA OpenStep == Types /\ NothingLeftOpen /\ [Next]_vars => NothingLeftOpen'
<1> SUFFICES ASSUME Types, NothingLeftOpen, [Next]_vars PROVE NothingLeftOpen'
  OBVIOUS
<1> USE DEF NothingLeftOpen
<1>1. CASE UNCHANGED vars
  BY <1>1 DEF vars
<1>2. CASE DaemonSends \/ LinkEnds \/ Start
  BY <1>2 DEF DaemonSends, LinkEnds, Start
<1>3. CASE Block
  BY <1>3 DEF Block, Enter, AnnouncementRead, AnnouncementFails, Exit, Close, Closed,
              CloseCancelled
<1>4. CASE \E c \in Consumers : Ask(c) \/ Take(c) \/ Ends(c) \/ Leave(c)
  BY <1>4 DEF Ask, Take, Ends, Leave
<1> QED
  BY <1>1, <1>2, <1>3, <1>4 DEF Next

LEMMA MediaStep == Types /\ MediaIsOwn /\ [Next]_vars => MediaIsOwn'
<1> SUFFICES ASSUME Types, MediaIsOwn, [Next]_vars PROVE MediaIsOwn'
  OBVIOUS
<1> USE DEF MediaIsOwn, Types, BlockTypes, CountTypes
<1>1. CASE UNCHANGED vars
  BY <1>1 DEF vars, daemon
<1>2. CASE DaemonSends \/ LinkEnds \/ Start
  BY <1>2 DEF DaemonSends, LinkEnds, Start, daemon
<1>3. CASE Enter
  BY <1>3 DEF Enter
<1>4. CASE AnnouncementRead
  BY <1>4 DEF AnnouncementRead, Announced, daemon
<1>5. CASE AnnouncementFails \/ Exit \/ Close \/ Closed \/ CloseCancelled
  BY <1>5 DEF AnnouncementFails, Exit, Close, Closed, CloseCancelled, daemon
<1>6. ASSUME NEW c \in Consumers, Ask(c) \/ Take(c) \/ Ends(c) \/ Leave(c)
      PROVE  MediaIsOwn'
  BY <1>6 DEF Ask, Take, Ends, Leave, Announced, daemon
<1> QED
  BY <1>1, <1>2, <1>3, <1>4, <1>5, <1>6 DEF Next, Block

LEMMA Invariance == Spec => [](NothingLeftOpen /\ MediaIsOwn)
<1>1. Init => NothingLeftOpen /\ MediaIsOwn
  BY DEF Init, NothingLeftOpen, MediaIsOwn
<1> QED
  BY <1>1, InitTypes, TypeStep, OpenStep, MediaStep, PTL DEF Spec

(* __aenter__(), __aexit__(): no connection is left open, however the           *)
(* announcement went wrong, unless the close itself was cancelled.              *)
THEOREM ConnectionsAreClosed == Spec => []NothingLeftOpen
BY Invariance, PTL

(* _read_media(): inside the block of a regular socket `media` is what this     *)
(* connection announced.                                                       *)
THEOREM AnnouncementsAreOwn == Spec => []MediaIsOwn
BY Invariance, PTL
-------------------------------------------------------------------------------
(* No frame is lost.  While the connection is read, the queue is the end of what   *)
(* the daemon has sent on it, and what was yielded are the frames before that.      *)

Taken == Len(sent) - Len(queue)
Reading == main \in {"announcing", "body"}

Numbered == \A n \in 1..Len(sent) : sent[n].number = n

QueueIsRest ==
    Reading => /\ Taken >= 0
               /\ \A j \in 1..Len(queue) : queue[j] = sent[Taken + j]

YieldedWereSent ==
    Reading => \A i \in 1..Len(got) : /\ got[i].number \in 1..Taken
                                      /\ got[i] = sent[got[i].number]
                                      /\ Meant(got[i])

MeantAreYielded ==
    Reading => \A n \in 1..Taken : Meant(sent[n]) => \E i \in 1..Len(got) : got[i].number = n

InOrder ==
    Reading => \A i, j \in 1..Len(got) : i < j => got[i].number < got[j].number

\* What comes before the announcement is not taken by frames().
Alone == main = "announcing" => media = 0 /\ \A c \in Consumers : consumer[c] # "waiting"

Flow ==
    /\ Numbered /\ QueueIsRest
    /\ YieldedWereSent /\ MeantAreYielded /\ InOrder
    /\ Alone

LEMMA FlowSuffices == Types /\ Flow => NoFrameLost
<1> SUFFICES ASSUME Types, Flow, main = "body"
             PROVE  /\ queue = SubSeq(sent, Taken + 1, Len(sent))
                    /\ {got[i].number : i \in DOMAIN got} = {n \in 1..Taken : Meant(sent[n])}
                    /\ \A i, j \in DOMAIN got : i < j => got[i].number < got[j].number
                    /\ \A i \in DOMAIN got : got[i] = sent[got[i].number]
  BY DEF NoFrameLost, Taken
<1>1. /\ sent \in Seq(Message) /\ queue \in Seq(Message) /\ got \in Seq(Message)
      /\ DOMAIN got = 1..Len(got) /\ DOMAIN queue = 1..Len(queue)
  BY DEF Types, MessageTypes
<1>2. Reading
  BY DEF Reading
<1>3. queue = SubSeq(sent, Taken + 1, Len(sent))
  <2>1. Taken \in Nat /\ Taken + Len(queue) = Len(sent) /\ Len(queue) \in Nat /\ Len(sent) \in Nat
    BY <1>1, <1>2 DEF Flow, QueueIsRest, Taken
  <2>2. \A j \in 1..Len(queue) : queue[j] = sent[Taken + j]
    BY <1>2 DEF Flow, QueueIsRest
  <2> DEFINE rest == SubSeq(sent, Taken + 1, Len(sent))
  <2>3. /\ rest \in Seq(Message) /\ Len(rest) = Len(queue)
        /\ \A j \in 1..Len(queue) : rest[j] = sent[Taken + j]
    BY <1>1, <2>1, SubSeqProperties
  <2> HIDE DEF rest
  <2>4. rest = queue
    BY <1>1, <2>2, <2>3, SeqEqual
  <2>5. QED
    BY <2>4 DEF rest
<1>4. {got[i].number : i \in DOMAIN got} = {n \in 1..Taken : Meant(sent[n])}
  <2>1. ASSUME NEW i \in 1..Len(got)
        PROVE  got[i].number \in {n \in 1..Taken : Meant(sent[n])}
    BY <1>2 DEF Flow, YieldedWereSent
  <2>2. ASSUME NEW n \in 1..Taken, Meant(sent[n])
        PROVE  \E i \in 1..Len(got) : got[i].number = n
    BY <1>2, <2>2 DEF Flow, MeantAreYielded
  <2>3. QED
    BY <1>1, <2>1, <2>2
<1>5. QED
  BY <1>1, <1>2, <1>3, <1>4 DEF Flow, InOrder, YieldedWereSent

\* Most steps neither send, take nor yield, and none of those starts reading.
LEMMA FlowKept ==
    ASSUME Flow, UNCHANGED <<pure, sent, queue, got>>, Reading' => Reading, Alone'
    PROVE  Flow'
<1>1. Taken' = Taken /\ \A m : Meant(m)' <=> Meant(m)
  BY DEF Taken, Meant
<1>2. Numbered' /\ QueueIsRest' /\ InOrder'
  BY <1>1 DEF Flow, Numbered, QueueIsRest, InOrder
<1>3. YieldedWereSent' /\ MeantAreYielded'
  BY <1>1 DEF Flow, YieldedWereSent, MeantAreYielded, Meant
<1> QED
  BY <1>2, <1>3 DEF Flow

LEMMA EnterFlow == Types /\ Enter => Flow'
<1> SUFFICES ASSUME Types, Enter PROVE Flow'
  OBVIOUS
<1>1. sent' = <<>> /\ queue' = <<>> /\ got' = <<>> /\ media' = 0 /\ consumer' = consumer
  BY DEF Enter
<1>2. Taken' = 0
  BY <1>1 DEF Taken
<1>3. Numbered' /\ QueueIsRest' /\ YieldedWereSent' /\ MeantAreYielded' /\ InOrder'
  BY <1>1, <1>2 DEF Numbered, QueueIsRest, YieldedWereSent, MeantAreYielded, InOrder
<1>4. Alone'
  BY <1>1 DEF Enter, InRecv, Alone
<1> QED
  BY <1>3, <1>4 DEF Flow

LEMMA SendFlow == Types /\ Flow /\ DaemonSends => Flow'
<1> SUFFICES ASSUME Types, Flow, DaemonSends PROVE Flow'
  OBVIOUS
<1>1. /\ sent \in Seq(Message) /\ queue \in Seq(Message) /\ got \in Seq(Message)
      /\ Len(sent) \in Nat /\ Len(queue) \in Nat /\ Len(got) \in Nat
  BY DEF Types, MessageTypes
<1>2. PICK kind \in Text \cup Binary :
        LET message == [kind |-> kind, number |-> Len(sent) + 1]
        IN  queue' = Append(queue, message) /\ sent' = Append(sent, message)
  BY DEF DaemonSends
<1> DEFINE message == [kind |-> kind, number |-> Len(sent) + 1]
<1>3. message \in Message /\ message.number = Len(sent) + 1
  <2>1. Len(sent) < MaxMessages
    BY DEF DaemonSends
  <2>2. Len(sent) + 1 \in 1..MaxMessages
    BY <1>1, <2>1, MediaAssumption
  <2> QED
    BY <2>2 DEF Message
<1>4. queue' = Append(queue, message) /\ sent' = Append(sent, message)
  BY <1>2
<1> HIDE DEF message
<1>5. /\ Len(sent') = Len(sent) + 1 /\ sent'[Len(sent) + 1] = message
      /\ \A n \in 1..Len(sent) : sent'[n] = sent[n]
  BY <1>1, <1>3, <1>4, AppendProperties
<1>6. /\ Len(queue') = Len(queue) + 1 /\ queue'[Len(queue) + 1] = message
      /\ \A n \in 1..Len(queue) : queue'[n] = queue[n]
  BY <1>1, <1>3, <1>4, AppendProperties
<1>7. Taken' = Taken /\ Taken \in Int
  BY <1>1, <1>5, <1>6 DEF Taken
<1>8. /\ UNCHANGED <<pure, main, media, consumer, got>>
      /\ Reading' <=> Reading
  BY DEF DaemonSends, Reading
<1>9. Numbered'
  BY <1>1, <1>3, <1>5 DEF Flow, Numbered
<1>10. QueueIsRest'
  <2> SUFFICES ASSUME Reading
               PROVE  /\ Taken >= 0
                      /\ \A j \in 1..Len(queue') : queue'[j] = sent'[Taken + j]
    BY <1>7, <1>8 DEF QueueIsRest
  <2>1. Taken >= 0 /\ \A j \in 1..Len(queue) : queue[j] = sent[Taken + j]
    BY DEF Flow, QueueIsRest
  <2>2. ASSUME NEW j \in 1..Len(queue')
        PROVE  queue'[j] = sent'[Taken + j]
    <3>1. CASE j = Len(queue) + 1
      BY <1>1, <1>5, <1>6, <3>1 DEF Taken
    <3>2. CASE j \in 1..Len(queue)
      <4>1. Taken + j \in 1..Len(sent)
        BY <1>1, <1>7, <2>1, <3>2 DEF Taken
      <4> QED
        BY <1>5, <1>6, <2>1, <3>2, <4>1
    <3>3. QED
      BY <1>1, <1>6, <3>1, <3>2
  <2> QED
    BY <2>1, <2>2
<1>11. YieldedWereSent' /\ MeantAreYielded'
  <2>1. \A n \in 1..Taken : sent'[n] = sent[n]
    <3>1. 1..Taken \subseteq 1..Len(sent)
      BY <1>1 DEF Taken
    <3> QED
      BY <1>5, <3>1
  <2> QED
    BY <1>7, <1>8, <2>1 DEF Flow, YieldedWereSent, MeantAreYielded, Meant
<1>12. InOrder' /\ Alone'
  BY <1>8 DEF Flow, InOrder, Alone
<1> QED
  BY <1>9, <1>10, <1>11, <1>12 DEF Flow

\* One more message is taken from the queue.
LEMMA TakenIsNext ==
    ASSUME Types, Flow, Reading, queue # <<>>, queue' = Tail(queue), sent' = sent,
           pure' = pure, Reading'
    PROVE  /\ Taken \in Nat /\ Taken' = Taken + 1 /\ Taken + 1 \in 1..Len(sent)
           /\ Head(queue) = sent[Taken + 1] /\ Head(queue).number = Taken + 1
           /\ Numbered' /\ QueueIsRest'
<1>1. /\ sent \in Seq(Message) /\ queue \in Seq(Message)
      /\ Len(sent) \in Nat /\ Len(queue) \in Nat
  BY DEF Types, MessageTypes
<1>2. /\ Len(queue) >= 1 /\ Len(queue') = Len(queue) - 1 /\ Head(queue) = queue[1]
      /\ \A j \in 1..Len(queue') : queue'[j] = queue[j + 1]
  BY <1>1, HeadTailProperties, EmptySeq
<1>3. Taken \in Nat /\ \A j \in 1..Len(queue) : queue[j] = sent[Taken + j]
  BY <1>1 DEF Flow, QueueIsRest, Taken
<1>4. Taken' = Taken + 1 /\ Taken + 1 \in 1..Len(sent)
  BY <1>1, <1>2, <1>3 DEF Taken
<1>5. Head(queue) = sent[Taken + 1] /\ Head(queue).number = Taken + 1
  BY <1>1, <1>2, <1>3, <1>4 DEF Flow, Numbered
<1>6. Numbered'
  BY DEF Flow, Numbered
<1>7. QueueIsRest'
  <2>1. ASSUME NEW j \in 1..Len(queue')
        PROVE  queue'[j] = sent[Taken' + j]
    <3>1. j + 1 \in 1..Len(queue)
      BY <1>1, <1>2
    <3> QED
      BY <1>2, <1>3, <1>4, <3>1
  <2> QED
    BY <1>3, <1>4, <2>1 DEF QueueIsRest
<1> QED
  BY <1>3, <1>4, <1>5, <1>6, <1>7

LEMMA AnnouncementFlow == Types /\ Flow /\ AnnouncementRead => Flow'
<1> SUFFICES ASSUME Types, Flow, AnnouncementRead PROVE Flow'
  OBVIOUS
<1>1. /\ main = "announcing" /\ queue # <<>> /\ queue' = Tail(queue)
      /\ UNCHANGED <<pure, sent, got, consumer>> /\ main' \in {"body", "closing"}
      /\ main' = "body" => media' # 0
  BY DEF AnnouncementRead, daemon
<1>2. Numbered' /\ Alone'
  BY <1>1 DEF Flow, Numbered, Alone
<1>3. CASE main' = "closing"
  BY <1>2, <1>3 DEF Flow, Reading, QueueIsRest, YieldedWereSent, MeantAreYielded, InOrder
<1>4. CASE main' = "body"
  <2>1. Reading /\ Reading'
    BY <1>1, <1>4 DEF Reading
  <2>2. /\ Taken \in Nat /\ Taken' = Taken + 1 /\ Head(queue) = sent[Taken + 1] /\ QueueIsRest'
    BY <1>1, <2>1, TakenIsNext
  <2>3. ~Meant(sent[Taken + 1])
    <3>1. media = 0
      BY <1>1 DEF Flow, Alone
    <3>2. Head(queue).kind = "media"
      BY <1>1, <1>4, <3>1 DEF AnnouncementRead, Announced
    <3> QED
      BY <2>2, <3>2 DEF Meant, Binary
  <2>4. YieldedWereSent'
    <3>1. \A i \in 1..Len(got) : /\ got[i].number \in 1..Taken /\ Meant(got[i])
                                 /\ got[i] = sent[got[i].number]
      BY <2>1 DEF Flow, YieldedWereSent
    <3>2. 1..Taken \subseteq 1..(Taken + 1) /\ \A m : Meant(m)' <=> Meant(m)
      BY <1>1, <2>2 DEF Meant
    <3> QED
      BY <1>1, <2>2, <3>1, <3>2 DEF YieldedWereSent
  <2>5. MeantAreYielded'
    <3> SUFFICES ASSUME NEW n \in 1..(Taken + 1), Meant(sent[n])
                 PROVE  \E i \in 1..Len(got) : got[i].number = n
      BY <1>1, <2>2 DEF MeantAreYielded, Meant
    <3>1. n \in 1..Taken
      BY <2>2, <2>3
    <3> QED
      BY <2>1, <3>1 DEF Flow, MeantAreYielded
  <2>6. InOrder'
    BY <1>1, <2>1 DEF Flow, InOrder
  <2> QED
    BY <1>2, <2>2, <2>4, <2>5, <2>6 DEF Flow
<1> QED
  BY <1>1, <1>3, <1>4

LEMMA TakeFlow ==
    ASSUME Types, Flow, NEW c \in Consumers, Take(c)
    PROVE  Flow'
<1>1. /\ consumer[c] = "waiting" /\ queue # <<>> /\ queue' = Tail(queue)
      /\ UNCHANGED <<pure, sent, main>>
  BY DEF Take, daemon
<1>2. got \in Seq(Message) /\ Len(got) \in Nat
  BY DEF Types, MessageTypes
<1>3. main # "announcing"
  BY <1>1 DEF Flow, Alone
<1>4. Alone'
  BY <1>1, <1>3 DEF Alone
<1>5. CASE ~Reading
  BY <1>1, <1>4, <1>5
  DEF Flow, Reading, Numbered, QueueIsRest, YieldedWereSent, MeantAreYielded, InOrder
<1>6. CASE Reading
  <2> DEFINE message == Head(queue)
  <2>1. Reading' /\ message \in Message
    BY <1>1, <1>6, HeadIsMessage DEF Reading, Types
  <2>2. /\ Taken \in Nat /\ Taken' = Taken + 1 /\ Taken + 1 \in 1..Len(sent)
        /\ message = sent[Taken + 1] /\ message.number = Taken + 1
        /\ Numbered' /\ QueueIsRest'
    BY <1>1, <1>6, <2>1, TakenIsNext
  <2>3. /\ \A i \in 1..Len(got) : /\ got[i].number \in 1..Taken /\ Meant(got[i])
                                  /\ got[i] = sent[got[i].number]
        /\ \A i, j \in 1..Len(got) : i < j => got[i].number < got[j].number
        /\ \A n \in 1..Taken : Meant(sent[n]) => \E i \in 1..Len(got) : got[i].number = n
    BY <1>6 DEF Flow, YieldedWereSent, InOrder, MeantAreYielded
  <2>4. \A m : Meant(m)' <=> Meant(m)
    BY <1>1 DEF Meant
  <2>5. \/ IsFrame(message) /\ got' = Append(got, message)
        \/ ~IsFrame(message) /\ got' = got
    BY DEF Take
  <2>6. IsFrame(message) <=> Meant(message)
    BY DEF IsFrame, Meant, Binary
  <2> HIDE DEF message
  <2>7. CASE IsFrame(message)
    <3>1. /\ Len(got') = Len(got) + 1 /\ got'[Len(got) + 1] = message
          /\ \A i \in 1..Len(got) : got'[i] = got[i]
      BY <1>2, <2>1, <2>5, <2>7, AppendProperties
    <3>2. \A i \in 1..Len(got') : i = Len(got) + 1 \/ i \in 1..Len(got)
      BY <1>2, <3>1
    <3>3. YieldedWereSent'
      <4> SUFFICES ASSUME NEW i \in 1..Len(got')
                   PROVE  /\ got'[i].number \in 1..(Taken + 1) /\ Meant(got'[i])
                          /\ got'[i] = sent[got'[i].number]
        BY <1>1, <2>2, <2>4 DEF YieldedWereSent, Meant
      <4>1. CASE i = Len(got) + 1
        BY <2>2, <2>6, <2>7, <3>1, <4>1
      <4>2. CASE i \in 1..Len(got)
        BY <2>2, <2>3, <3>1, <4>2
      <4> QED
        BY <3>2, <4>1, <4>2
    <3>4. MeantAreYielded'
      <4> SUFFICES ASSUME NEW n \in 1..(Taken + 1), Meant(sent[n])
                   PROVE  \E i \in 1..Len(got') : got'[i].number = n
        BY <1>1, <2>2, <2>4 DEF MeantAreYielded, Meant
      <4>1. CASE n = Taken + 1
        BY <1>2, <2>2, <3>1, <4>1
      <4>2. CASE n \in 1..Taken
        <5>1. PICK i \in 1..Len(got) : got[i].number = n
          BY <2>3, <4>2
        <5>2. i \in 1..Len(got') /\ got'[i].number = n
          BY <1>2, <3>1, <5>1
        <5> QED
          BY <5>2
      <4> QED
        BY <2>2, <4>1, <4>2
    <3>5. InOrder'
      <4> SUFFICES ASSUME NEW i \in 1..Len(got'), NEW j \in 1..Len(got'), i < j
                   PROVE  got'[i].number < got'[j].number
        BY DEF InOrder
      <4>1. i \in 1..Len(got)
        BY <1>2, <3>1
      <4>2. CASE j = Len(got) + 1
        <5>1. got[i].number \in 1..Taken /\ got'[i] = got[i]
          BY <2>3, <3>1, <4>1
        <5> QED
          BY <2>2, <3>1, <4>2, <5>1
      <4>3. CASE j \in 1..Len(got)
        BY <2>3, <3>1, <4>1, <4>3
      <4> QED
        BY <3>2, <4>2, <4>3
    <3> QED
      BY <1>4, <2>2, <3>3, <3>4, <3>5 DEF Flow
  <2>8. CASE ~IsFrame(message)
    <3>1. got' = got /\ ~Meant(sent[Taken + 1])
      BY <2>2, <2>5, <2>6, <2>8
    <3>2. YieldedWereSent'
      <4>1. 1..Taken \subseteq 1..(Taken + 1)
        BY <2>2
      <4> QED
        BY <1>1, <2>2, <2>3, <2>4, <3>1, <4>1 DEF YieldedWereSent
    <3>3. MeantAreYielded'
      <4> SUFFICES ASSUME NEW n \in 1..(Taken + 1), Meant(sent[n])
                   PROVE  \E i \in 1..Len(got) : got[i].number = n
        BY <1>1, <2>2, <3>1 DEF MeantAreYielded, Meant
      <4>1. n \in 1..Taken
        BY <2>2, <3>1
      <4> QED
        BY <2>3, <4>1
    <3>4. InOrder'
      BY <2>3, <3>1 DEF InOrder
    <3> QED
      BY <1>4, <2>2, <3>2, <3>3, <3>4 DEF Flow
  <2> QED
    BY <2>7, <2>8
<1> QED
  BY <1>5, <1>6

LEMMA FlowStep == Types /\ Flow /\ [Next]_vars => Flow'
<1> SUFFICES ASSUME Types, Flow, [Next]_vars PROVE Flow'
  OBVIOUS
<1>1. CASE UNCHANGED vars
  <2>1. UNCHANGED <<pure, main, media, queue, consumer, sent, got>>
    BY <1>1 DEF vars, daemon
  <2>2. (Reading' => Reading) /\ Alone'
    BY <2>1 DEF Reading, Flow, Alone
  <2> QED
    BY <2>1, <2>2, FlowKept
<1>2. CASE \/ LinkEnds \/ Start \/ AnnouncementFails \/ Exit \/ Close \/ Closed
           \/ CloseCancelled
  <2>1. /\ UNCHANGED <<pure, media, queue, consumer, sent, got>>
        /\ main' \in {main, "closing", "outside"}
    BY <1>2
    DEF LinkEnds, Start, AnnouncementFails, Exit, Close, Closed, CloseCancelled, daemon
  <2>2. (Reading' => Reading) /\ Alone'
    BY <2>1 DEF Reading, Flow, Alone
  <2> QED
    BY <2>1, <2>2, FlowKept
<1>3. ASSUME NEW c \in Consumers, Ask(c) \/ Ends(c) \/ Leave(c)
      PROVE  Flow'
  <2>1. UNCHANGED <<pure, main, media, queue, sent, got>>
    BY <1>3 DEF Ask, Ends, Leave, daemon
  <2>2. Reading' => Reading
    BY <2>1 DEF Reading
  <2>3. Alone'
    <3> SUFFICES ASSUME main = "announcing", NEW d \in Consumers
                 PROVE  media = 0 /\ consumer'[d] # "waiting"
      BY <2>1 DEF Alone
    <3>1. media = 0 /\ consumer[d] # "waiting" /\ consumer[c] # "waiting"
      BY DEF Flow, Alone
    <3>2. InRecv
      BY DEF InRecv
    <3> QED
      BY <1>3, <3>1, <3>2 DEF Ask, Ends, Leave, Types, ConsumerTypes
  <2> QED
    BY <2>1, <2>2, <2>3, FlowKept
<1> QED
  BY <1>1, <1>2, <1>3, EnterFlow, SendFlow, AnnouncementFlow, TakeFlow DEF Next, Block

(* frames(): for any number of viewers and messages, every frame the daemon sent   *)
(* is yielded once and in the order it was sent, or is in the queue still.         *)
THEOREM FramesAreNotLost == Spec => []NoFrameLost
<1>1. Init => Flow
  <2> SUFFICES ASSUME Init PROVE Flow
    OBVIOUS
  <2>1. sent = <<>> /\ queue = <<>> /\ got = <<>> /\ main = "outside"
    BY DEF Init
  <2> QED
    BY <2>1 DEF Flow, Numbered, QueueIsRest, YieldedWereSent, MeantAreYielded, InOrder, Alone,
                Reading
<1> QED
  BY <1>1, InitTypes, TypeStep, FlowStep, FlowSuffices, PTL DEF Spec
===============================================================================
