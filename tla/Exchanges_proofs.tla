---------------------------- MODULE Exchanges_proofs ----------------------------
(***************************************************************************)
(* Proofs about Exchanges, whatever is told: any event with any numbers, any  *)
(* announced size, any list of keys, any answer of kvmd, any lines of a remote *)
(* upload and any stream, cut anywhere.                                       *)
(***************************************************************************)
EXTENDS Exchanges, SequenceTheorems, FiniteSetTheorems, WellFoundedInduction, TLAPS

-------------------------------------------------------------------------------
(* Numbers survive the binary encoding.                                       *)

(* _clamp() puts any number into the range it is given.                    *)
LEMMA ClampInRange ==
    ASSUME NEW value \in Int, NEW low \in Int, NEW high \in Int, low <= high
    PROVE  /\ Clamp(value, low, high) \in Int
           /\ low <= Clamp(value, low, high) /\ Clamp(value, low, high) <= high
BY DEF Clamp

(* struct.pack(">b"): a signed byte is read back as what it was.           *)
LEMMA ByteSurvives ==
    ASSUME NEW v \in Int, -128 <= v, v <= 127
    PROVE  FromByte(Byte(v)) = v
<1>1. CASE v >= 0
  <2>1. Byte(v) = v
    BY <1>1 DEF Byte
  <2> QED
    BY <1>1, <2>1 DEF FromByte
<1>2. CASE v < 0
  <2>1. Byte(v) = v + 256
    BY <1>2 DEF Byte
  <2> QED
    BY <1>2, <2>1 DEF FromByte
<1> QED
  BY <1>1, <1>2

(* The two bytes of an unsigned short.                                     *)
LEMMA TwoBytes ==
    ASSUME NEW u \in Int, 0 <= u, u < 65536
    PROVE  /\ u \div 256 \in Int /\ u % 256 \in Int
           /\ (u \div 256) * 256 + (u % 256) = u
OBVIOUS

(* struct.pack(">h"): a signed short is read back from its two bytes.      *)
LEMMA ShortSurvives ==
    ASSUME NEW v \in Int, MoveMin <= v, v <= MoveMax
    PROVE  FromShort(Short(v)[1], Short(v)[2]) = v
<1> DEFINE u == v % 65536
<1>1. u \in Int /\ 0 <= u /\ u < 65536
  OBVIOUS
<1>2. Short(v) = <<u \div 256, v % 256>>
  BY DEF Short
<1>3. v % 256 = u % 256
  OBVIOUS
<1>4. (v < 0 => u = v + 65536) /\ (v >= 0 => u = v)
  BY DEF MoveMin, MoveMax
<1> HIDE DEF u
<1>5. FromShort(u \div 256, u % 256) = IF u < 32768 THEN u ELSE u - 65536
  BY <1>1, TwoBytes DEF FromShort
<1>6. FromShort(u \div 256, u % 256) = v
  BY <1>1, <1>4, <1>5 DEF MoveMin, MoveMax
<1> QED
  BY <1>2, <1>3, <1>6

-------------------------------------------------------------------------------
(* An event is heard the same in a binary frame, as JSON and as a request.     *)

LEMMA SameTruth ==
    ASSUME NEW a \in BOOLEAN, NEW b \in BOOLEAN, a <=> b
    PROVE  a = b
OBVIOUS

\* The flags of a frame are two bits.
LEMMA FlagsSurvive ==
    ASSUME NEW a \in BOOLEAN, NEW b \in BOOLEAN
    PROVE  /\ Bit(Flag(1, a), 1) = a
           /\ Bit(Flag(1, a) + Flag(2, b), 1) = a
           /\ Bit(Flag(1, a) + Flag(2, b), 2) = b
<1>1. Flag(1, a) \in Int /\ Flag(2, b) \in Int
  BY DEF Flag
<1>2. Bit(Flag(1, a), 1) <=> a
  BY DEF Bit, Flag
<1>3. Bit(Flag(1, a) + Flag(2, b), 1) <=> a
  <2>1. (Flag(1, a) = 1 /\ a) \/ (Flag(1, a) = 0 /\ ~a)
    BY DEF Flag
  <2>2. Flag(2, b) = 2 \/ Flag(2, b) = 0
    BY DEF Flag
  <2> QED
    BY <2>1, <2>2 DEF Bit
<1>4. Bit(Flag(1, a) + Flag(2, b), 2) <=> b
  <2>1. Flag(1, a) = 1 \/ Flag(1, a) = 0
    BY DEF Flag
  <2>2. (Flag(2, b) = 2 /\ b) \/ (Flag(2, b) = 0 /\ ~b)
    BY DEF Flag
  <2> QED
    BY <2>1, <2>2 DEF Bit
<1>5. \A flags, bit : Bit(flags, bit) \in BOOLEAN
  BY DEF Bit
<1> QED
  BY <1>2, <1>3, <1>4, <1>5, SameTruth

KeyEvents == [kind : {"key"}, name : [ascii : BOOLEAN, length : Nat],
              state : BOOLEAN, finish : BOOLEAN]
ButtonEvents == [kind : {"button"}, name : [ascii : BOOLEAN, length : Nat], state : BOOLEAN]
MoveEvents == [kind : {"move"}, x : Int, y : Int]
StepEvents == [kind : {"relative", "wheel"}, squash : BOOLEAN, steps : Seq(Int \X Int)]

\* send_key(): the name and both flags arrive.
LEMMA KeysAgree ==
    ASSUME NEW e \in KeyEvents
    PROVE  /\ HeardFrame(Frame(e)) = HeardJson(Json(e))
           /\ HeardParams(Params(e)) = HeardJson(Json(e))
<1>1. e.kind = "key" /\ e.state \in BOOLEAN /\ e.finish \in BOOLEAN
  BY DEF KeyEvents
<1>2. Finish(e) \in BOOLEAN
  BY <1>1 DEF Finish
<1> DEFINE heard == [kind |-> "key", name |-> e.name, state |-> e.state, finish |-> Finish(e)]
<1>3. HeardJson(Json(e)) = heard
  BY <1>1, <1>2 DEF KeyEvents, Json, HeardJson
<1>4. HeardFrame(Frame(e)) = heard
  <2>1. Frame(e) = <<1, Flag(1, e.state) + Flag(2, Finish(e)), e.name>>
    BY <1>1 DEF Frame, KeyFrame, Op
  <2>2. /\ Bit(Flag(1, e.state) + Flag(2, Finish(e)), 1) = e.state
        /\ Bit(Flag(1, e.state) + Flag(2, Finish(e)), 2) = Finish(e)
    BY <1>1, <1>2, FlagsSurvive
  <2>3. QED
    BY <2>1, <2>2 DEF HeardFrame, Op
<1>5. HeardParams(Params(e)) = heard
  <2>1. Params(e) = [key |-> e.name, state |-> Flag(1, e.state), finish |-> Flag(1, Finish(e))]
    BY <1>1 DEF Params, KeyParams
  <2>2. (Flag(1, e.state) = 1) = e.state /\ (Flag(1, Finish(e)) = 1) = Finish(e)
    BY <1>1, <1>2 DEF Flag
  <2>3. QED
    BY <2>1, <2>2 DEF HeardParams
<1> QED
  BY <1>3, <1>4, <1>5

\* send_mouse_button()
LEMMA ButtonsAgree ==
    ASSUME NEW e \in ButtonEvents
    PROVE  /\ HeardFrame(Frame(e)) = HeardJson(Json(e))
           /\ HeardParams(Params(e)) = HeardJson(Json(e))
<1>1. e.kind = "button" /\ e.state \in BOOLEAN
  BY DEF ButtonEvents
<1> DEFINE heard == [kind |-> "button", name |-> e.name, state |-> e.state]
<1>2. HeardJson(Json(e)) = heard
  BY <1>1 DEF ButtonEvents, Json, HeardJson
<1>3. HeardFrame(Frame(e)) = heard
  <2>1. Frame(e) = <<2, Flag(1, e.state), e.name>>
    BY <1>1 DEF Frame, ButtonFrame, Op
  <2>2. Bit(Flag(1, e.state), 1) = e.state
    BY <1>1, FlagsSurvive
  <2>3. QED
    BY <2>1, <2>2 DEF HeardFrame, Op
<1>4. HeardParams(Params(e)) = heard
  <2>1. Params(e) = [button |-> e.name, state |-> Flag(1, e.state)]
    BY <1>1 DEF Params, ButtonParams
  <2>2. (Flag(1, e.state) = 1) = e.state
    BY <1>1 DEF Flag
  <2>3. QED
    BY <2>1, <2>2 DEF HeardParams
<1> QED
  BY <1>2, <1>3, <1>4

\* send_mouse_move(): for any coordinates kvmd moves the pointer to the same place.
LEMMA MovesAgree ==
    ASSUME NEW e \in MoveEvents
    PROVE  /\ HeardFrame(Frame(e)) = HeardJson(Json(e))
           /\ HeardParams(Params(e)) = HeardJson(Json(e))
<1> DEFINE x == Clamp(e.x, MoveMin, MoveMax)
           y == Clamp(e.y, MoveMin, MoveMax)
           heard == [kind |-> "move", x |-> x, y |-> y]
<1>1. e.kind = "move" /\ e.x \in Int /\ e.y \in Int /\ DOMAIN e = {"kind", "x", "y"}
  BY DEF MoveEvents
<1>2. /\ x \in Int /\ MoveMin <= x /\ x <= MoveMax
      /\ y \in Int /\ MoveMin <= y /\ y <= MoveMax
  <2>1. MoveMin \in Int /\ MoveMax \in Int /\ MoveMin <= MoveMax
    BY DEF MoveMin, MoveMax
  <2> QED
    BY <1>1, <2>1, ClampInRange
<1>3. HeardJson(Json(e)) = heard
  BY <1>1 DEF Json, HeardJson, MoveEvents
<1>4. HeardFrame(Frame(e)) = heard
  <2>1. Frame(e) = <<3, Short(x)[1], Short(x)[2], Short(y)[1], Short(y)[2]>>
    BY <1>1 DEF Frame, MoveFrame, Op
  <2>2. FromShort(Short(x)[1], Short(x)[2]) = x /\ FromShort(Short(y)[1], Short(y)[2]) = y
    BY <1>2, ShortSurvives
  <2> HIDE DEF x, y
  <2> QED
    BY <2>1, <2>2 DEF HeardFrame, Op
<1>5. HeardParams(Params(e)) = heard
  <2>1. Params(e) = [to_x |-> e.x, to_y |-> e.y]
    BY <1>1 DEF Params, MoveParams
  <2> QED
    BY <2>1 DEF HeardParams
<1> QED
  BY <1>3, <1>4, <1>5

\* The bytes of the n-th step of a frame, and what is made of them.
LEMMA StepSurvives ==
    ASSUME NEW x \in Int, NEW y \in Int
    PROVE  /\ FromByte(PackDelta(x, y)[1]) = Clamp(x, DeltaMin, DeltaMax)
           /\ FromByte(PackDelta(x, y)[2]) = Clamp(y, DeltaMin, DeltaMax)
<1> DEFINE cx == Clamp(x, DeltaMin, DeltaMax)
           cy == Clamp(y, DeltaMin, DeltaMax)
<1>1. /\ cx \in Int /\ -128 <= cx /\ cx <= 127
      /\ cy \in Int /\ -128 <= cy /\ cy <= 127
  <2>1. DeltaMin \in Int /\ DeltaMax \in Int /\ DeltaMin = -127 /\ DeltaMax = 127
    BY DEF DeltaMin, DeltaMax
  <2>2. \A v \in Int : LET c == Clamp(v, DeltaMin, DeltaMax)
                       IN  c \in Int /\ -127 <= c /\ c <= 127
    BY <2>1, ClampInRange
  <2> QED
    BY <2>2
<1>2. FromByte(Byte(cx)) = cx /\ FromByte(Byte(cy)) = cy
  BY <1>1, ByteSurvives
<1>3. PackDelta(x, y) = <<Byte(cx), Byte(cy)>>
  BY DEF PackDelta
<1> HIDE DEF cx, cy
<1>4. PackDelta(x, y)[1] = Byte(cx) /\ PackDelta(x, y)[2] = Byte(cy)
  BY <1>3
<1> QED
  BY <1>2, <1>4 DEF cx, cy

LEMMA StepsSurvive ==
    ASSUME NEW steps \in Seq(Int \X Int)
    PROVE  /\ Packed(steps) \in Seq(Int) /\ Len(Packed(steps)) = 2 * Len(steps)
           /\ Steps(Packed(steps)) =
                [i \in 1..Len(steps) |-> <<Clamp(steps[i][1], DeltaMin, DeltaMax),
                                          Clamp(steps[i][2], DeltaMin, DeltaMax)>>]
<1> DEFINE n == Len(steps)
           bytes == Packed(steps)
<1>1. n \in Nat /\ 2 * n \in Nat /\ (2 * n) \div 2 = n
  OBVIOUS
<1>2. ASSUME NEW i \in 1..n
      PROVE  steps[i][1] \in Int /\ steps[i][2] \in Int
  BY <1>2
<1>3. bytes = [k \in 1..(2 * n) |-> PackDelta(steps[(k + 1) \div 2][1],
                                             steps[(k + 1) \div 2][2])
                                      [IF k % 2 = 1 THEN 1 ELSE 2]]
  BY DEF Packed
<1>4. ASSUME NEW i \in 1..n
      PROVE  /\ bytes[2 * i - 1] = PackDelta(steps[i][1], steps[i][2])[1]
             /\ bytes[2 * i] = PackDelta(steps[i][1], steps[i][2])[2]
  <2>1. /\ 2 * i - 1 \in 1..(2 * n) /\ (2 * i - 1 + 1) \div 2 = i /\ (2 * i - 1) % 2 = 1
        /\ 2 * i \in 1..(2 * n) /\ (2 * i + 1) \div 2 = i /\ (2 * i) % 2 # 1
    BY <1>1
  <2> HIDE DEF n, bytes
  <2> QED
    BY <1>3, <2>1
<1>5. \A k \in 1..(2 * n) : bytes[k] \in Int
  <2> SUFFICES ASSUME NEW k \in 1..(2 * n)
               PROVE  bytes[k] \in Int
    OBVIOUS
  <2>1. (k + 1) \div 2 \in 1..n
    BY <1>1
  <2> DEFINE x == steps[(k + 1) \div 2][1]
             y == steps[(k + 1) \div 2][2]
  <2>2. x \in Int /\ y \in Int
    BY <1>2, <2>1
  <2>3. bytes[k] = PackDelta(x, y)[IF k % 2 = 1 THEN 1 ELSE 2]
    BY <1>3
  <2> HIDE DEF n, bytes, x, y
  <2>4. DeltaMin \in Int /\ DeltaMax \in Int /\ DeltaMin <= DeltaMax
    BY DEF DeltaMin, DeltaMax
  <2>5. Clamp(x, DeltaMin, DeltaMax) \in Int /\ Clamp(y, DeltaMin, DeltaMax) \in Int
    BY <2>2, <2>4, ClampInRange
  <2>6. PackDelta(x, y)[1] \in Int /\ PackDelta(x, y)[2] \in Int
    BY <2>5 DEF PackDelta, Byte
  <2> QED
    BY <2>3, <2>6
<1>6. bytes \in Seq(Int) /\ Len(bytes) = 2 * n
  BY <1>1, <1>3, <1>5
<1>7. Steps(bytes) = [i \in 1..n |-> <<FromByte(bytes[2 * i - 1]), FromByte(bytes[2 * i])>>]
  <2> HIDE DEF n, bytes
  <2> QED
    BY <1>1, <1>6 DEF Steps
<1>8. ASSUME NEW i \in 1..n
      PROVE  /\ FromByte(bytes[2 * i - 1]) = Clamp(steps[i][1], DeltaMin, DeltaMax)
             /\ FromByte(bytes[2 * i]) = Clamp(steps[i][2], DeltaMin, DeltaMax)
  <2> DEFINE x == steps[i][1]
             y == steps[i][2]
  <2>1. x \in Int /\ y \in Int
    BY <1>2
  <2>2. bytes[2 * i - 1] = PackDelta(x, y)[1] /\ bytes[2 * i] = PackDelta(x, y)[2]
    BY <1>4
  <2> HIDE DEF n, bytes, x, y
  <2>3. /\ FromByte(bytes[2 * i - 1]) = Clamp(x, DeltaMin, DeltaMax)
        /\ FromByte(bytes[2 * i]) = Clamp(y, DeltaMin, DeltaMax)
    BY <2>1, <2>2, StepSurvives
  <2> QED
    BY <2>3 DEF x, y
<1> HIDE DEF n, bytes
<1>9. Steps(bytes) = [i \in 1..n |-> <<Clamp(steps[i][1], DeltaMin, DeltaMax),
                                      Clamp(steps[i][2], DeltaMin, DeltaMax)>>]
  BY <1>7, <1>8
<1> QED
  BY <1>6, <1>9 DEF n, bytes

\* send_mouse_wheel(), send_mouse_relative(), and several of their steps at once: each
\* step is read back as what kvmd would have clamped it to.
LEMMA DeltasAgree ==
    ASSUME NEW e \in StepEvents
    PROVE  HeardFrame(Frame(e)) = HeardJson(Json(e))
<1> DEFINE bytes == Packed(e.steps)
           op == Op[e.kind]
           flag == Flag(1, e.squash)
           heard == [i \in 1..Len(e.steps) |-> <<Clamp(e.steps[i][1], DeltaMin, DeltaMax),
                                                 Clamp(e.steps[i][2], DeltaMin, DeltaMax)>>]
<1>1. /\ e.kind \in {"relative", "wheel"} /\ e.squash \in BOOLEAN /\ e.steps \in Seq(Int \X Int)
      /\ e = [kind |-> e.kind, squash |-> e.squash, steps |-> e.steps]
  BY DEF StepEvents
<1>2. HeardJson(Json(e)) = [kind |-> e.kind, squash |-> e.squash, steps |-> heard]
  <2>1. DOMAIN e.steps = 1..Len(e.steps)
    BY <1>1
  <2>2. Json(e) = e
    BY <1>1 DEF Json
  <2>3. HeardJson(e) = [e EXCEPT !.steps = heard]
    BY <1>1, <2>1 DEF HeardJson
  <2> HIDE DEF heard
  <2> QED
    BY <1>1, <2>2, <2>3
<1>3. bytes \in Seq(Int) /\ Len(bytes) \in Nat /\ Steps(bytes) = heard
  BY <1>1, StepsSurvive
<1>4. /\ op \in {4, 5} /\ (op = 5 <=> e.kind = "wheel") /\ flag \in Int
      /\ Bit(flag, 1) = e.squash
  BY <1>1, FlagsSurvive DEF Op, Flag
<1>5. Frame(e) = <<op, flag>> \o bytes
  BY <1>1 DEF Frame, DeltasFrame
<1> HIDE DEF bytes, op, flag, heard
<1>6. <<op, flag>> \in Seq(Int) /\ Len(<<op, flag>>) = 2
  BY <1>4
<1>7. /\ Frame(e) \in Seq(Int) /\ Len(Frame(e)) = Len(bytes) + 2
      /\ Frame(e)[1] = op /\ Frame(e)[2] = flag
  BY <1>3, <1>5, <1>6, ConcatProperties
<1>8. SubSeq(Frame(e), 3, Len(Frame(e))) = bytes
  <2>1. CASE Len(bytes) = 0
    <3>1. bytes = <<>> /\ SubSeq(Frame(e), 3, Len(Frame(e))) = <<>>
      BY <1>3, <1>7, <2>1, EmptySeq, SubSeqEmpty
    <3> QED
      BY <3>1
  <2>2. CASE Len(bytes) > 0
    <3>1. SubSeq(<<op, flag>> \o bytes, 3, Len(bytes) + 2) = SubSeq(bytes, 1, Len(bytes))
      BY <1>3, <1>6, <2>2, SubSeqOfConcat2
    <3> QED
      BY <1>3, <1>5, <1>7, <3>1, SubSeqFull
  <2> QED
    BY <1>3, <2>1, <2>2
<1>9. HeardFrame(Frame(e)) = [kind |-> IF op = 5 THEN "wheel" ELSE "relative",
                              steps |-> Steps(bytes), squash |-> Bit(flag, 1)]
  <2>1. op # 1 /\ op # 2 /\ op # 3
    BY <1>4
  <2> QED
    BY <1>4, <1>7, <1>8, <2>1 DEF HeardFrame, Op
<1> QED
  BY <1>1, <1>2, <1>3, <1>4, <1>9

(* Every event that may be sent on a binary socket.                           *)
LEMMA EventAgrees ==
    ASSUME NEW e \in Events
    PROVE  /\ HeardFrame(Frame(e)) = HeardJson(Json(e))
           /\ e.kind \in {"key", "button", "move"} => HeardParams(Params(e)) = HeardJson(Json(e))
<1>1. \/ e \in KeyEvents \/ e \in ButtonEvents \/ e \in MoveEvents
      \/ e \in StepEvents /\ e.kind \notin {"key", "button", "move"}
  BY EventAssumption DEF KeyEvents, ButtonEvents, MoveEvents, StepEvents
<1> QED
  BY <1>1, KeysAgree, ButtonsAgree, MovesAgree, DeltasAgree

SentIsFramed == about = "hid" => told \in Events /\ (state # "not sent" => state = Frame(told))

(* send_key() and the others: kvmd makes the same of the binary frame, of the  *)
(* JSON event and of the request, for any name, any numbers and any number of  *)
(* steps.                                                                      *)
THEOREM EventsAgree == Spec => []SameEvent
<1>1. Init => SentIsFramed
  BY DEF Init, SentIsFramed
<1>2. SentIsFramed /\ [Next]_vars => SentIsFramed'
  BY DEF SentIsFramed, Next, vars, Give, Send, SendShortcut, Read, Hear, HearNoMore,
              Receive, TakeNext
<1>3. SentIsFramed => SameEvent
  BY EventAgrees DEF SentIsFramed, SameEvent
<1> QED
  BY <1>1, <1>2, <1>3, PTL DEF Spec
-------------------------------------------------------------------------------
(* The body of an upload.                                                     *)

\* While it runs, everything the iterator gave was passed on.
HeldToSize ==
    about = "upload" =>
        /\ told.size \in Nat
        /\ state \in [sent : Nat, passed : Nat, ended : {"running", "done", "short", "long"}]
        /\ state.ended = "running" => state.sent = state.passed
        /\ state.ended = "long" => state.sent > told.size
        /\ state.ended = "short" => state.sent # told.size
        /\ state.ended = "done" => state.sent = told.size
        /\ state.passed <= told.size

(* _AsyncStream, "holds an iterator to the length it promised": whatever the    *)
(* iterator gives, never more than announced goes out, and only a body of that  *)
(* length ends well.                                                           *)
THEOREM UploadsKeepTheirWord == Spec => []BodyAsAnnounced
<1>1. Init => HeldToSize
  <2>1. \A size \in Announced(Sizes) : size \in Nat
    BY UploadAssumption DEF Announced
  <2> QED
    BY <2>1 DEF Init, HeldToSize, Uploading
<1>2. HeldToSize /\ [Next]_vars => HeldToSize'
  <2> SUFFICES ASSUME HeldToSize, [Next]_vars, about = "upload", about' = "upload"
               PROVE  HeldToSize'
    BY DEF HeldToSize, Next, vars, Give, Send, SendShortcut, Read, Hear, HearNoMore,
              Receive, TakeNext
  <2>1. CASE UNCHANGED vars
    BY <2>1 DEF vars, HeldToSize
  <2>2. ASSUME Give
        PROVE  HeldToSize'
    <3>1. /\ told' = told /\ told.size \in Nat /\ state.ended = "running"
          /\ state \in [sent : Nat, passed : Nat, ended : {"running", "done", "short", "long"}]
          /\ state.sent = state.passed /\ state.passed <= told.size
      BY <2>2 DEF Give, HeldToSize
    <3>2. ASSUME NEW n \in Chunks, state' = PassOn(state, n, told.size)
          PROVE  HeldToSize'
      <4>1. n \in Nat
        BY UploadAssumption
      <4>2. CASE state.sent + n > told.size
        <5>1. state' = [sent |-> state.sent + n, passed |-> state.passed, ended |-> "long"]
          BY <3>1, <3>2, <4>2 DEF PassOn
        <5>2. state.sent \in Nat /\ state.passed \in Nat /\ state.sent + n \in Nat
          BY <3>1, <4>1
        <5> QED
          BY <3>1, <4>2, <5>1, <5>2 DEF HeldToSize
      <4>3. CASE ~(state.sent + n > told.size)
        <5>1. state' = [sent |-> state.sent + n, passed |-> state.sent + n,
                        ended |-> "running"]
          BY <3>1, <3>2, <4>3 DEF PassOn
        <5>2. state.sent + n \in Nat /\ state.sent + n <= told.size
          BY <3>1, <4>1, <4>3
        <5> QED
          BY <3>1, <5>1, <5>2 DEF HeldToSize
      <4> QED
        BY <4>2, <4>3
    <3>3. ASSUME state' = Finished(state, told.size)
          PROVE  HeldToSize'
      BY <3>1, <3>3 DEF Finished, HeldToSize
    <3> QED
      BY <2>2, <3>2, <3>3 DEF Give
  <2> QED
    BY <2>1, <2>2 DEF Next, Send, SendShortcut, Read, Hear, HearNoMore, Receive, TakeNext
<1>3. HeldToSize => BodyAsAnnounced
  BY DEF HeldToSize, BodyAsAnnounced
<1> QED
  BY <1>1, <1>2, <1>3, PTL DEF Spec
-------------------------------------------------------------------------------
(* An answer, as a request, an upgrade and one line of a stream.               *)

\* What _status_error() raises is never a return.
LEMMA StatusFails ==
    ASSUME NEW status \in Nat, NEW fields
    PROVE  /\ IsFailure(StatusError(status, fields))
           /\ status \notin 300..399 => /\ StatusError(status, fields).error = fields.error
                                        /\ StatusError(status, fields).error_msg = fields.error_msg
<1>1. ClassOf(status) # "returned"
  <2>1. CASE status \in {401, 403}
    BY <2>1 DEF ClassOf
  <2>2. CASE status = 409
    BY <2>2 DEF ClassOf
  <2>3. CASE status = 503
    BY <2>3 DEF ClassOf
  <2>4. CASE status \notin {401, 403, 409, 503}
    BY <2>4 DEF ClassOf
  <2> QED
    BY <2>1, <2>2, <2>3, <2>4
<1>2. CASE status \in 300..399
  BY <1>2 DEF StatusError, Raised, IsFailure
<1>3. CASE status \notin 300..399
  BY <1>1, <1>3 DEF StatusError, Raised, IsFailure
<1> QED
  BY <1>2, <1>3

\* A refusal in an HTTP 200 carries the words of the body.
LEMMA EnvelopeFails ==
    ASSUME NEW body
    PROVE  /\ IsFailure(EnvelopeError(body))
           /\ EnvelopeError(body).error = ErrorFields(body).error
           /\ EnvelopeError(body).error_msg = ErrorFields(body).error_msg
<1> DEFINE fields == ErrorFields(body)
<1>1. EnvelopeError(body) = [class |-> "APIError", status |-> 0, error |-> fields.error,
                             error_msg |-> fields.error_msg]
  BY DEF EnvelopeError, Raised
<1> HIDE DEF fields
<1>2. IsFailure(EnvelopeError(body))
  BY <1>1 DEF IsFailure
<1> QED
  BY <1>1, <1>2 DEF fields

LEMMA UnwrapFails ==
    ASSUME NEW body, IsAnswer(body), NEW status
    PROVE  /\ IsFailure(Unwrap(body, status)) <=> body.shape # "object" \/ ~body.ok
           /\ body.shape = "object" /\ ~body.ok => Unwrap(body, status) = EnvelopeError(body)
<1>1. CASE body.shape # "object"
  BY <1>1 DEF Unwrap, IsFailure, Raised
<1>2. CASE body.shape = "object" /\ ~body.ok
  BY <1>2, EnvelopeFails DEF Unwrap
<1>3. CASE body.shape = "object" /\ body.ok
  <2>1. Unwrap(body, status) = Returned(body.result)
    BY <1>3 DEF Unwrap
  <2> QED
    BY <1>3, <2>1 DEF IsFailure, Returned
<1> QED
  BY <1>1, <1>2, <1>3 DEF IsAnswer

LEMMA AnswerAgrees ==
    ASSUME NEW status \in Nat, NEW body, IsAnswer(body)
    PROVE  LET response == [status |-> status, body |-> body]
           IN  /\ status >= 300 => Request(response) = HandshakeError(response)
               /\ IsFailure(Request(response))
                    <=> status >= 300 \/ body.shape # "object" \/ ~body.ok
               /\ body.shape = "object" /\ ~body.ok /\ status \notin 300..399 =>
                    \A way \in {Request(response), WriteRecord(body)} :
                        /\ way.error = HandshakeError(response).error
                        /\ way.error_msg = HandshakeError(response).error_msg
<1> DEFINE response == [status |-> status, body |-> body]
           fields == ErrorFields(body)
<1>1. response.status = status /\ response.body = body
  OBVIOUS
<1> HIDE DEF response
<1>2. HandshakeError(response) = StatusError(status, fields)
  BY <1>1 DEF HandshakeError
<1>3. ASSUME status >= 300
      PROVE  Request(response) = StatusError(status, fields)
  <2>1. Request(response) = RestError(response)
    BY <1>1, <1>3 DEF Request
  <2>2. CASE status < 400
    BY <1>1, <1>3, <2>1, <2>2 DEF RestError, StatusError
  <2>3. CASE ~(status < 400)
    BY <1>1, <2>1, <2>3 DEF RestError
  <2> QED
    BY <2>2, <2>3
<1>4. ASSUME status < 300
      PROVE  /\ body.shape = "text" => Request(response) = Raised("ResponseError", status,
                                                                  Nothing, Nothing)
             /\ body.shape # "text" => Request(response) = Unwrap(body, status)
  <2>1. CASE body.shape = "text"
    BY <1>1, <1>4, <2>1 DEF Request
  <2>2. CASE body.shape # "text"
    BY <1>1, <1>4, <2>2 DEF Request
  <2> QED
    BY <2>1, <2>2
<1>5. IsFailure(Request(response)) <=> status >= 300 \/ body.shape # "object" \/ ~body.ok
  <2>1. CASE status >= 300
    BY <1>3, <2>1, StatusFails
  <2>2. CASE status < 300 /\ body.shape = "text"
    BY <1>4, <2>2 DEF Raised, IsFailure
  <2>3. CASE status < 300 /\ body.shape # "text"
    BY <1>4, <2>3, UnwrapFails
  <2> QED
    BY <2>1, <2>2, <2>3
<1>6. ASSUME body.shape = "object", ~body.ok, status \notin 300..399
      PROVE  /\ Request(response).error = fields.error
             /\ Request(response).error_msg = fields.error_msg
             /\ WriteRecord(body).error = fields.error
             /\ WriteRecord(body).error_msg = fields.error_msg
             /\ HandshakeError(response).error = fields.error
             /\ HandshakeError(response).error_msg = fields.error_msg
  <2>1. WriteRecord(body) = EnvelopeError(body)
    <3>1. WriteRecord(body) = WriteInfo(EnvelopeError(body))
      BY <1>6, UnwrapFails DEF WriteRecord
    <3>2. IsFailure(EnvelopeError(body))
      BY EnvelopeFails
    <3> QED
      BY <3>1, <3>2 DEF WriteInfo
  <2>2. Request(response) = StatusError(status, fields) \/ Request(response) = EnvelopeError(body)
    BY <1>3, <1>4, <1>6, UnwrapFails
  <2> QED
    BY <1>2, <1>6, <2>1, <2>2, StatusFails, EnvelopeFails
<1> HIDE DEF fields
<1> QED
  BY <1>2, <1>3, <1>5, <1>6 DEF response

ReadThreeWays ==
    about = "answer" =>
        /\ told \in [status : Statuses, body : Answers]
        /\ state # <<>> => state = [request |-> Request(told), upgrade |-> HandshakeError(told),
                                    line |-> WriteRecord(told.body)]

(* _exceptions.py: what kvmd refuses with means the same over both transports, *)
(* whatever the status and the body, and its words reach the caller however    *)
(* they come.                                                                  *)
THEOREM RefusalsAgree == Spec => []FailuresAgree
<1>1. Init => ReadThreeWays
  BY DEF Init, ReadThreeWays
<1>2. ReadThreeWays /\ [Next]_vars => ReadThreeWays'
  BY DEF ReadThreeWays, Next, vars, Give, Send, SendShortcut, Read, Hear, HearNoMore,
              Receive, TakeNext
<1>3. ReadThreeWays => FailuresAgree
  <2> SUFFICES ASSUME told \in [status : Statuses, body : Answers],
                      state = [request |-> Request(told), upgrade |-> HandshakeError(told),
                               line |-> WriteRecord(told.body)]
               PROVE  FailuresAgree
    BY DEF ReadThreeWays, FailuresAgree
  <2>1. /\ told.status \in Nat /\ IsAnswer(told.body)
        /\ told = [status |-> told.status, body |-> told.body]
    BY AnswerAssumption
  <2>2. /\ told.status >= 300 => Request(told) = HandshakeError(told)
        /\ IsFailure(Request(told))
             <=> told.status >= 300 \/ told.body.shape # "object" \/ ~told.body.ok
        /\ told.body.shape = "object" /\ ~told.body.ok /\ told.status \notin 300..399 =>
             \A way \in {Request(told), WriteRecord(told.body)} :
                 /\ way.error = HandshakeError(told).error
                 /\ way.error_msg = HandshakeError(told).error_msg
    BY <2>1, AnswerAgrees
  <2>3. /\ state.request = Request(told) /\ state.upgrade = HandshakeError(told)
        /\ state.line = WriteRecord(told.body)
    OBVIOUS
  <2>4. IsFailure(state.request)
          = (told.status >= 300 \/ told.body.shape # "object" \/ ~told.body.ok)
    <3>1. IsFailure(state.request) \in BOOLEAN
      BY DEF IsFailure
    <3> QED
      BY <2>2, <2>3, <3>1, SameTruth
  <2> QED
    BY <2>2, <2>3, <2>4 DEF FailuresAgree
<1> QED
  BY <1>1, <1>2, <1>3, PTL DEF Spec
-------------------------------------------------------------------------------
(* The records of a remote upload.                                            *)

IsRecord(line) ==
    line.shape = "object" /\ line.ok /\ line.result.dict /\ line.result.image > 0
IsRefusal(line) == line.shape = "object" /\ ~line.ok

Records(lines) == {n \in 1..Len(lines) : lines[n] # Blank}
Sound(lines) == {n \in Records(lines) : IsRecord(lines[n])}
Refusals(lines) == {n \in Records(lines) : IsRefusal(lines[n])}

\* What was yielded are the records among the lines, in order.
InTurn(lines, yielded) ==
    \E at \in [1..Len(yielded) -> 1..Len(lines)] :
        /\ {at[i] : i \in 1..Len(yielded)} = Sound(lines)
        /\ \A i, j \in 1..Len(yielded) : i < j => at[i] < at[j]
        /\ \A i \in 1..Len(yielded) : yielded[i] = lines[at[i]].result.image

\* How it stands.
Outcome(lines, end, outcome) ==
    /\ Refusals(lines) # {} => outcome.class = "APIError"
    /\ Refusals(lines) = {} /\ Records(lines) # Sound(lines) => outcome.class = "ResponseError"
    /\ Records(lines) = Sound(lines) =>
         /\ end = "none" => outcome.class = "running"
         /\ end = "broken" => outcome.class = "ConnectError"
         /\ end = "ended" => outcome.class = IF Records(lines) = {} THEN "ResponseError"
                                                                    ELSE "returned"

DownloadTypes ==
    /\ told = [lines |-> told.lines, end |-> told.end]
    /\ told.lines \in Seq(Lines) /\ told.end \in {"none", "ended", "broken"}
    /\ state = [last |-> state.last, yielded |-> state.yielded, outcome |-> state.outcome]
    /\ state.yielded \in Seq(Nat \ {0})

DownloadTold ==
    about = "remote" =>
        /\ DownloadTypes
        /\ state.last = IF state.yielded = <<>> THEN NoRecord
                                                ELSE state.yielded[Len(state.yielded)]
        /\ state.outcome.class = "running" =>
             told.end = "none" /\ Records(told.lines) = Sound(told.lines)
        /\ InTurn(told.lines, state.yielded)
        /\ Outcome(told.lines, told.end, state.outcome)
        /\ \A n \in Refusals(told.lines) :
             told.lines[n].result.dict => state.outcome.error = Str(told.lines[n].result.error)
        /\ state.outcome.class = "returned" =>
             state.yielded # <<>> /\ state.outcome.result = state.last

LEMMA LinesAreAnswers ==
    ASSUME NEW line \in Lines
    PROVE  /\ line # Blank => IsAnswer(line)
           /\ IsAnswer(line) => line # Blank
           /\ IsRecord(line) => ~IsRefusal(line)
<1>1. line = Blank \/ IsAnswer(line)
  BY AnswerAssumption
<1>2. IsAnswer(line) => line.shape # "blank"
  BY DEF IsAnswer
<1>3. Blank.shape = "blank"
  BY DEF Blank
<1> QED
  BY <1>1, <1>2, <1>3 DEF IsRecord, IsRefusal

\* _write_record(): a line is a record, a refusal, or a ResponseError.
LEMMA LineIsRead ==
    ASSUME NEW line, IsAnswer(line)
    PROVE  /\ IsRecord(line) => WriteRecord(line) = Returned(line.result.image)
           /\ IsRefusal(line) =>
                /\ IsFailure(WriteRecord(line)) /\ WriteRecord(line).class = "APIError"
                /\ line.result.dict => WriteRecord(line).error = Str(line.result.error)
           /\ ~IsRecord(line) /\ ~IsRefusal(line) =>
                IsFailure(WriteRecord(line)) /\ WriteRecord(line).class = "ResponseError"
<1>1. Raised("ResponseError", 0, Nothing, Nothing).class = "ResponseError"
  BY DEF Raised
<1>2. CASE line.shape = "text"
  BY <1>1, <1>2 DEF WriteRecord, IsRecord, IsRefusal, IsFailure
<1>3. CASE line.shape = "value"
  <2>1. Unwrap(line, 0) = Raised("ResponseError", 0, Nothing, Nothing)
    BY <1>3 DEF Unwrap
  <2>2. IsFailure(Unwrap(line, 0))
    BY <1>1, <2>1 DEF IsFailure
  <2>3. WriteRecord(line) = Unwrap(line, 0)
    BY <1>3, <2>2 DEF WriteRecord, WriteInfo
  <2> QED
    BY <1>1, <1>3, <2>1, <2>2, <2>3 DEF IsRecord, IsRefusal
<1>4. CASE IsRefusal(line)
  <2>1. Unwrap(line, 0) = EnvelopeError(line)
    BY <1>4, UnwrapFails DEF IsRefusal
  <2>2. WriteRecord(line) = EnvelopeError(line)
    BY <1>4, <2>1, EnvelopeFails DEF WriteRecord, WriteInfo, IsRefusal
  <2>3. EnvelopeError(line).class = "APIError"
    BY DEF EnvelopeError, Raised
  <2>4. line.result.dict => ErrorFields(line).error = Str(line.result.error)
    BY <1>4 DEF ErrorFields, IsRefusal
  <2> QED
    BY <1>4, <2>2, <2>3, <2>4, EnvelopeFails DEF IsRecord, IsRefusal
<1>5. CASE line.shape = "object" /\ line.ok
  <2> DEFINE result == line.result
  <2>1. Unwrap(line, 0) = Returned(result)
    BY <1>5 DEF Unwrap
  <2>2. ~IsFailure(Returned(result)) /\ Returned(result).result = result
    BY DEF IsFailure, Returned
  <2>3. WriteRecord(line) = WriteInfo(Returned(result))
    BY <1>5, <2>1 DEF WriteRecord
  <2>4. CASE result.dict /\ result.image > 0
    <3>1. WriteRecord(line) = Returned(result.image)
      BY <2>2, <2>3, <2>4 DEF WriteInfo
    <3> QED
      BY <1>5, <2>4, <3>1 DEF IsRecord, IsRefusal
  <2>5. CASE ~(result.dict /\ result.image > 0)
    <3>1. WriteRecord(line) = Raised("ResponseError", 0, Nothing, Nothing)
      BY <2>2, <2>3, <2>5 DEF WriteInfo
    <3> QED
      BY <1>1, <1>5, <2>5, <3>1 DEF IsRecord, IsRefusal, IsFailure
  <2> QED
    BY <2>4, <2>5
<1> QED
  BY <1>2, <1>3, <1>4, <1>5 DEF IsAnswer, IsRefusal

\* One more line adds itself to the records, or to the refusals, or to neither.
With(n, set, holds) == IF holds THEN set \cup {n} ELSE set

OneMore(more, lines, line) ==
    /\ more \in Seq(Lines) /\ Len(more) = Len(lines) + 1 /\ Len(lines) \in Nat
    /\ more[Len(lines) + 1] = line /\ \A n \in 1..Len(lines) : more[n] = lines[n]
    /\ Records(more) = With(Len(lines) + 1, Records(lines), line # Blank)
    /\ Sound(more) = With(Len(lines) + 1, Sound(lines), line # Blank /\ IsRecord(line))
    /\ Refusals(more) = With(Len(lines) + 1, Refusals(lines), line # Blank /\ IsRefusal(line))
    /\ Len(lines) + 1 \notin Sound(lines) /\ Len(lines) + 1 \notin Records(lines)

LEMMA OneMoreLine ==
    ASSUME NEW lines \in Seq(Lines), NEW line \in Lines, NEW more, more = Append(lines, line)
    PROVE  OneMore(more, lines, line)
<1>1. /\ more \in Seq(Lines) /\ Len(more) = Len(lines) + 1 /\ Len(lines) \in Nat
      /\ more[Len(lines) + 1] = line /\ \A n \in 1..Len(lines) : more[n] = lines[n]
  BY AppendProperties, LenProperties
<1>2. 1..Len(more) = 1..Len(lines) \cup {Len(lines) + 1} /\ Len(lines) + 1 \notin 1..Len(lines)
  BY <1>1
<1>3. Records(more) = With(Len(lines) + 1, Records(lines), line # Blank)
  BY <1>1, <1>2 DEF Records, With
<1>4. \A n \in Records(lines) : more[n] = lines[n]
  BY <1>1 DEF Records
<1>5. Sound(more) = With(Len(lines) + 1, Sound(lines), line # Blank /\ IsRecord(line))
  BY <1>1, <1>3, <1>4 DEF Sound, With
<1>6. Refusals(more) = With(Len(lines) + 1, Refusals(lines), line # Blank /\ IsRefusal(line))
  BY <1>1, <1>3, <1>4 DEF Refusals, With
<1>7. Len(lines) + 1 \notin Sound(lines) /\ Len(lines) + 1 \notin Records(lines)
  BY <1>2 DEF Sound, Records
<1> QED
  BY <1>1, <1>3, <1>5, <1>6, <1>7 DEF OneMore

\* A line without a record yields nothing.
LEMMA InTurnKept ==
    ASSUME NEW lines \in Seq(Lines), NEW line \in Lines, NEW more, more = Append(lines, line),
           line = Blank \/ ~IsRecord(line), NEW yielded, InTurn(lines, yielded)
    PROVE  InTurn(more, yielded)
<1>1. PICK at \in [1..Len(yielded) -> 1..Len(lines)] :
        /\ {at[i] : i \in 1..Len(yielded)} = Sound(lines)
        /\ \A i, j \in 1..Len(yielded) : i < j => at[i] < at[j]
        /\ \A i \in 1..Len(yielded) : yielded[i] = lines[at[i]].result.image
  BY DEF InTurn
<1>2. /\ Sound(more) = Sound(lines) /\ 1..Len(lines) \subseteq 1..Len(more)
      /\ \A n \in 1..Len(lines) : more[n] = lines[n]
  <2>1. OneMore(more, lines, line)
    BY OneMoreLine
  <2>2. Sound(more) = Sound(lines)
    BY <2>1 DEF OneMore, With
  <2> QED
    BY <2>1, <2>2 DEF OneMore
<1>3. at \in [1..Len(yielded) -> 1..Len(more)]
  BY <1>1, <1>2
<1>4. \A i \in 1..Len(yielded) : yielded[i] = more[at[i]].result.image
  BY <1>1, <1>2
<1> QED
  BY <1>1, <1>2, <1>3, <1>4 DEF InTurn

\* A line with one yields it, after all that were yielded before.
LEMMA InTurnAdded ==
    ASSUME NEW lines \in Seq(Lines), NEW line \in Lines, NEW more, more = Append(lines, line),
           line # Blank, IsRecord(line), NEW image, image = line.result.image,
           NEW yielded \in Seq(Nat \ {0}), image \in Nat \ {0}, InTurn(lines, yielded)
    PROVE  InTurn(more, Append(yielded, image))
<1> DEFINE k == Len(yielded)
           m == Len(lines)
           all == Append(yielded, image)
<1>1. PICK at \in [1..k -> 1..m] :
        /\ {at[i] : i \in 1..k} = Sound(lines)
        /\ \A i, j \in 1..k : i < j => at[i] < at[j]
        /\ \A i \in 1..k : yielded[i] = lines[at[i]].result.image
  BY DEF InTurn
<1>2. /\ Sound(more) = Sound(lines) \cup {m + 1} /\ Len(more) = m + 1 /\ m \in Nat
      /\ more[m + 1] = line /\ \A n \in 1..m : more[n] = lines[n]
  <2>1. OneMore(more, lines, line)
    BY OneMoreLine
  <2>2. Sound(more) = Sound(lines) \cup {m + 1}
    BY <2>1 DEF OneMore, With
  <2> QED
    BY <2>1, <2>2 DEF OneMore
<1>3. /\ Len(all) = k + 1 /\ k \in Nat /\ all[k + 1] = image
      /\ \A i \in 1..k : all[i] = yielded[i]
  BY AppendProperties, LenProperties
<1> HIDE DEF k, m, all
<1> DEFINE to == [i \in 1..(k + 1) |-> IF i = k + 1 THEN m + 1 ELSE at[i]]
<1>4. /\ \A i \in 1..k : i \in 1..(k + 1) /\ i # k + 1
      /\ \A i \in 1..(k + 1) : i = k + 1 \/ i \in 1..k
      /\ k + 1 \in 1..(k + 1)
  BY <1>3
<1>5. to[k + 1] = m + 1 /\ \A i \in 1..k : to[i] = at[i]
  BY <1>4
<1>6. to \in [1..(k + 1) -> 1..(m + 1)]
  <2>1. ASSUME NEW i \in 1..k
        PROVE  at[i] \in 1..(m + 1)
    <3>1. at[i] \in 1..m /\ m \in Nat
      BY <1>1, <1>2
    <3> QED
      BY <3>1
  <2>2. m + 1 \in 1..(m + 1)
    BY <1>2
  <2> QED
    BY <1>4, <2>1, <2>2
<1> HIDE DEF to
<1>7. {to[i] : i \in 1..(k + 1)} = Sound(more)
  <2>1. ASSUME NEW i \in 1..(k + 1)
        PROVE  to[i] \in Sound(more)
    <3>1. CASE i = k + 1
      BY <1>2, <1>5, <3>1
    <3>2. CASE i \in 1..k
      BY <1>1, <1>2, <1>5, <3>2
    <3> QED
      BY <1>4, <3>1, <3>2
  <2>2. ASSUME NEW n \in Sound(more)
        PROVE  \E i \in 1..(k + 1) : to[i] = n
    <3>1. CASE n = m + 1
      BY <1>4, <1>5, <3>1
    <3>2. CASE n \in Sound(lines)
      <4>1. PICK i \in 1..k : at[i] = n
        BY <1>1, <3>2
      <4> QED
        BY <1>4, <1>5, <4>1
    <3> QED
      BY <1>2, <3>1, <3>2
  <2> QED
    BY <2>1, <2>2
<1>8. ASSUME NEW i \in 1..(k + 1), NEW j \in 1..(k + 1), i < j
      PROVE  to[i] < to[j]
  <2>1. i \in 1..k
    BY <1>3, <1>8
  <2>2. to[i] = at[i] /\ at[i] \in 1..m
    BY <1>1, <1>5, <2>1
  <2>3. CASE j = k + 1
    BY <1>2, <1>5, <2>2, <2>3
  <2>4. CASE j \in 1..k
    BY <1>1, <1>5, <1>8, <2>1, <2>2, <2>4
  <2> QED
    BY <1>4, <2>3, <2>4
<1>9. ASSUME NEW i \in 1..(k + 1)
      PROVE  all[i] = more[to[i]].result.image
  <2>1. CASE i = k + 1
    BY <1>2, <1>3, <1>5, <2>1
  <2>2. CASE i \in 1..k
    <3>1. all[i] = yielded[i] /\ to[i] = at[i] /\ at[i] \in 1..m
      BY <1>1, <1>3, <1>5, <2>2
    <3>2. more[at[i]] = lines[at[i]]
      BY <1>2, <3>1
    <3> QED
      BY <1>1, <2>2, <3>1, <3>2
  <2> QED
    BY <1>4, <2>1, <2>2
<1>10. Len(all) = k + 1 /\ Len(more) = m + 1
  BY <1>2, <1>3
<1>11. InTurn(more, all)
  BY <1>6, <1>7, <1>8, <1>9, <1>10 DEF InTurn
<1> QED
  BY <1>11 DEF all

\* What has to be known of a download before its next line, or its end.
LEMMA WhileItRuns ==
    ASSUME DownloadTold, about = "remote", state.outcome.class = "running"
    PROVE  /\ DownloadTypes /\ told.end = "none" /\ InTurn(told.lines, state.yielded)
           /\ Records(told.lines) = Sound(told.lines) /\ Refusals(told.lines) = {}
           /\ state.last = IF state.yielded = <<>> THEN NoRecord
                                                   ELSE state.yielded[Len(state.yielded)]
<1>1. /\ DownloadTypes /\ told.end = "none" /\ InTurn(told.lines, state.yielded)
      /\ Records(told.lines) = Sound(told.lines)
      /\ state.last = IF state.yielded = <<>> THEN NoRecord
                                              ELSE state.yielded[Len(state.yielded)]
  BY DEF DownloadTold
<1>2. ASSUME NEW n \in Refusals(told.lines)
      PROVE  FALSE
  <2>1. n \in Sound(told.lines) /\ n \in 1..Len(told.lines)
    BY <1>1, <1>2 DEF Refusals, Records
  <2>2. told.lines[n] \in Lines
    BY <1>1, <2>1 DEF DownloadTypes
  <2> QED
    BY <1>2, <2>1, <2>2, LinesAreAnswers DEF Refusals, Sound
<1> QED
  BY <1>1, <1>2

LEMMA HearKeeps ==
    ASSUME DownloadTold, Hear
    PROVE  DownloadTold'
<1>1. about = "remote" /\ about' = "remote" /\ state.outcome.class = "running"
  BY DEF Hear
<1>2. PICK line \in Lines : /\ told' = [told EXCEPT !.lines = Append(@, line)]
                            /\ state' = Yielded(state, line)
  BY DEF Hear
<1> DEFINE lines == told.lines
           more == Append(lines, line)
           yielded == state.yielded
<1>3. /\ told = [lines |-> lines, end |-> "none"] /\ lines \in Seq(Lines)
      /\ state = [last |-> state.last, yielded |-> yielded, outcome |-> state.outcome]
      /\ yielded \in Seq(Nat \ {0})
      /\ InTurn(lines, yielded) /\ Records(lines) = Sound(lines) /\ Refusals(lines) = {}
      /\ state.last = IF yielded = <<>> THEN NoRecord ELSE yielded[Len(yielded)]
  BY <1>1, WhileItRuns DEF DownloadTypes
<1>4. told' = [lines |-> more, end |-> "none"]
  <2>1. told' = [told EXCEPT !.lines = Append(lines, line)]
    BY <1>2
  <2> HIDE DEF lines
  <2> QED
    BY <1>3, <2>1
<1>5. OneMore(more, lines, line)
  BY <1>3, OneMoreLine
<1>6. told'.lines = more /\ told'.end = "none" /\ more \in Seq(Lines)
  BY <1>4, <1>5 DEF OneMore
<1> DEFINE n == Len(lines) + 1
<1>7. more[n] = line
  BY <1>5 DEF OneMore
<1> HIDE DEF lines, more, yielded, n
<1>8. CASE line = Blank
  <2>1. state' = state
    BY <1>2, <1>8 DEF Yielded
  <2>2. Records(more) = Records(lines) /\ Sound(more) = Sound(lines) /\ Refusals(more) = {}
    BY <1>3, <1>5, <1>8 DEF OneMore, With
  <2>3. InTurn(more, yielded)
    BY <1>3, <1>8, InTurnKept DEF more
  <2>4. DownloadTypes'
    BY <1>3, <1>4, <1>6, <2>1 DEF DownloadTypes, yielded
  <2>5. Outcome(more, "none", state.outcome)
    BY <1>1, <1>3, <2>2 DEF Outcome
  <2> QED
    BY <1>1, <1>3, <1>6, <2>1, <2>2, <2>3, <2>4, <2>5 DEF DownloadTold, yielded
<1>9. CASE line # Blank /\ IsRecord(line)
  <2> DEFINE image == line.result.image
             all == Append(yielded, image)
  <2>1. image \in Nat \ {0}
    <3>1. IsAnswer(line)
      BY <1>9, LinesAreAnswers
    <3> QED
      BY <1>9, <3>1 DEF IsAnswer, IsRecord
  <2>2. WriteRecord(line) = Returned(image)
    BY <1>9, LinesAreAnswers, LineIsRead
  <2>3. state' = [last |-> image, yielded |-> all, outcome |-> state.outcome]
    <3>1. ~IsFailure(Returned(image)) /\ Returned(image).result = image
      BY DEF IsFailure, Returned
    <3> QED
      BY <1>2, <1>3, <1>9, <2>2, <3>1 DEF Yielded, yielded
  <2>4. /\ all \in Seq(Nat \ {0}) /\ all # <<>> /\ all[Len(all)] = image
    <3>1. /\ all \in Seq(Nat \ {0}) /\ Len(all) = Len(yielded) + 1 /\ Len(yielded) \in Nat
          /\ all[Len(yielded) + 1] = image
      BY <1>3, <2>1, AppendProperties, LenProperties
    <3> QED
      BY <3>1
  <2>5. /\ Records(more) = Records(lines) \cup {n} /\ Sound(more) = Sound(lines) \cup {n}
        /\ Refusals(more) = {}
    <3>1. ~IsRefusal(line)
      BY <1>9, LinesAreAnswers
    <3> QED
      BY <1>3, <1>5, <1>9, <3>1 DEF OneMore, With, n
  <2>6. InTurn(more, all)
    BY <1>3, <1>9, <2>1, InTurnAdded DEF more
  <2> HIDE DEF image, all
  <2>7. /\ state'.yielded = all /\ state'.last = image /\ state'.outcome = state.outcome
    BY <2>3
  <2>8. DownloadTypes'
    BY <1>4, <1>6, <2>3, <2>4, <2>7 DEF DownloadTypes
  <2>9. Outcome(more, "none", state.outcome)
    BY <1>1, <1>3, <2>5 DEF Outcome
  <2> QED
    BY <1>1, <1>3, <1>6, <2>4, <2>5, <2>6, <2>7, <2>8, <2>9 DEF DownloadTold
<1>10. CASE line # Blank /\ ~IsRecord(line)
  <2> DEFINE record == WriteRecord(line)
  <2>1. IsAnswer(line)
    BY <1>10, LinesAreAnswers
  <2>2. /\ IsFailure(record)
        /\ IsRefusal(line) =>
             /\ record.class = "APIError"
             /\ line.result.dict => record.error = Str(line.result.error)
        /\ ~IsRefusal(line) => record.class = "ResponseError"
    BY <1>10, <2>1, LineIsRead
  <2>3. record.class # "running" /\ record.class # "returned"
    BY <2>2
  <2> HIDE DEF record
  <2>4. state' = [last |-> state.last, yielded |-> yielded, outcome |-> record]
    <3>1. state' = [state EXCEPT !.outcome = record]
      BY <1>2, <1>10, <2>2 DEF Yielded, record
    <3> QED
      BY <1>3, <3>1
  <2>5. /\ state'.yielded = yielded /\ state'.last = state.last /\ state'.outcome = record
    BY <2>4
  <2>6. /\ Records(more) = Records(lines) \cup {n} /\ Sound(more) = Sound(lines)
        /\ n \notin Sound(lines)
        /\ Refusals(more) = IF IsRefusal(line) THEN {n} ELSE {}
    BY <1>3, <1>5, <1>10 DEF OneMore, With, n
  <2>7. InTurn(more, yielded)
    BY <1>3, <1>10, InTurnKept DEF more
  <2>8. DownloadTypes'
    BY <1>3, <1>4, <1>6, <2>4, <2>5 DEF DownloadTypes
  <2>9. Outcome(more, "none", record)
    BY <1>3, <2>2, <2>6 DEF Outcome
  <2>10. \A i \in Refusals(more) : more[i].result.dict => record.error = Str(more[i].result.error)
    BY <1>7, <2>2, <2>6
  <2> QED
    BY <1>1, <1>3, <1>6, <2>3, <2>5, <2>7, <2>8, <2>9, <2>10 DEF DownloadTold
<1> QED
  BY <1>8, <1>9, <1>10

\* Nothing was yielded exactly when there is no record.
LEMMA NothingInTurn ==
    ASSUME NEW lines, NEW yielded \in Seq(Nat \ {0}), InTurn(lines, yielded)
    PROVE  yielded = <<>> <=> Sound(lines) = {}
<1>1. PICK at \in [1..Len(yielded) -> 1..Len(lines)] :
        {at[i] : i \in 1..Len(yielded)} = Sound(lines)
  BY DEF InTurn
<1>2. yielded = <<>> <=> Len(yielded) = 0
  BY EmptySeq
<1>3. Len(yielded) \in Nat
  BY LenProperties
<1>4. CASE Len(yielded) = 0
  BY <1>1, <1>2, <1>4
<1>5. CASE Len(yielded) # 0
  <2>1. 1 \in 1..Len(yielded)
    BY <1>3, <1>5
  <2> QED
    BY <1>1, <1>2, <1>5, <2>1
<1> QED
  BY <1>4, <1>5

LEMMA EndKeeps ==
    ASSUME DownloadTold, HearNoMore
    PROVE  DownloadTold'
<1>1. about = "remote" /\ about' = "remote" /\ state.outcome.class = "running"
  BY DEF HearNoMore
<1>2. PICK end \in {"ended", "broken"} :
        /\ told' = [told EXCEPT !.end = end]
        /\ state' = IF end = "ended" THEN Ended(state) ELSE Broken(state)
  BY DEF HearNoMore
<1> DEFINE lines == told.lines
           yielded == state.yielded
<1>3. /\ told = [lines |-> lines, end |-> "none"] /\ lines \in Seq(Lines)
      /\ state = [last |-> state.last, yielded |-> yielded, outcome |-> state.outcome]
      /\ yielded \in Seq(Nat \ {0})
      /\ InTurn(lines, yielded) /\ Records(lines) = Sound(lines) /\ Refusals(lines) = {}
      /\ state.last = IF yielded = <<>> THEN NoRecord ELSE yielded[Len(yielded)]
  BY <1>1, WhileItRuns DEF DownloadTypes
<1>4. told' = [lines |-> lines, end |-> end] /\ told'.lines = lines /\ told'.end = end
  BY <1>2, <1>3
<1>5. state.last = NoRecord <=> yielded = <<>>
  <2>1. ASSUME yielded # <<>>
        PROVE  yielded[Len(yielded)] # NoRecord
    <3>1. Len(yielded) \in 1..Len(yielded)
      BY <1>3, <2>1, LenProperties, EmptySeq
    <3>2. yielded[Len(yielded)] \in Nat \ {0}
      BY <1>3, <3>1
    <3> QED
      BY <3>2 DEF NoRecord
  <2> QED
    BY <1>3, <2>1
<1>6. yielded = <<>> <=> Sound(lines) = {}
  BY <1>3, NothingInTurn
<1> HIDE DEF lines, yielded
<1>7. CASE end = "broken"
  <2> DEFINE outcome == [class |-> "ConnectError"]
  <2>1. state' = [last |-> state.last, yielded |-> yielded, outcome |-> outcome]
    BY <1>2, <1>3, <1>7 DEF Broken
  <2>2. outcome.class = "ConnectError"
    OBVIOUS
  <2> HIDE DEF outcome
  <2>3. state'.yielded = yielded /\ state'.last = state.last /\ state'.outcome = outcome
    BY <2>1
  <2>4. DownloadTypes'
    BY <1>3, <1>4, <2>1, <2>3 DEF DownloadTypes
  <2>5. Outcome(lines, end, outcome)
    BY <1>3, <1>7, <2>2 DEF Outcome
  <2> QED
    BY <1>1, <1>3, <1>4, <2>2, <2>3, <2>4, <2>5 DEF DownloadTold
<1>8. CASE end = "ended" /\ yielded = <<>>
  <2> DEFINE outcome == Raised("ResponseError", 0, Nothing, Nothing)
  <2>1. state' = [last |-> state.last, yielded |-> yielded, outcome |-> outcome]
    BY <1>2, <1>3, <1>5, <1>8 DEF Ended
  <2>2. outcome.class = "ResponseError"
    BY DEF Raised
  <2> HIDE DEF outcome
  <2>3. state'.yielded = yielded /\ state'.last = state.last /\ state'.outcome = outcome
    BY <2>1
  <2>4. DownloadTypes'
    BY <1>3, <1>4, <2>1, <2>3 DEF DownloadTypes
  <2>5. Outcome(lines, end, outcome)
    BY <1>3, <1>6, <1>8, <2>2 DEF Outcome
  <2> QED
    BY <1>1, <1>3, <1>4, <2>2, <2>3, <2>4, <2>5 DEF DownloadTold
<1>9. CASE end = "ended" /\ yielded # <<>>
  <2> DEFINE outcome == Returned(state.last)
  <2>1. state' = [last |-> state.last, yielded |-> yielded, outcome |-> outcome]
    BY <1>2, <1>3, <1>5, <1>9 DEF Ended
  <2>2. outcome.class = "returned" /\ outcome.result = state.last
    BY DEF Returned
  <2> HIDE DEF outcome
  <2>3. state'.yielded = yielded /\ state'.last = state.last /\ state'.outcome = outcome
    BY <2>1
  <2>4. DownloadTypes'
    BY <1>3, <1>4, <2>1, <2>3 DEF DownloadTypes
  <2>5. Outcome(lines, end, outcome)
    BY <1>3, <1>6, <1>9, <2>2 DEF Outcome
  <2> QED
    BY <1>1, <1>3, <1>4, <1>9, <2>2, <2>3, <2>4, <2>5 DEF DownloadTold
<1> QED
  BY <1>7, <1>8, <1>9

\* The invariant in the words of UploadTold.
LEMMA DownloadSuffices == DownloadTold => UploadTold
<1> SUFFICES ASSUME DownloadTold, about = "remote"
             PROVE  UploadTold
  BY DEF UploadTold
<1> DEFINE lines == told.lines
           yielded == state.yielded
<1>1. /\ DOMAIN lines = 1..Len(lines) /\ DOMAIN yielded = 1..Len(yielded)
      /\ lines \in Seq(Lines) /\ told.end \in {"none", "ended", "broken"}
  BY DEF DownloadTold, DownloadTypes
<1>2. /\ {n \in DOMAIN lines : lines[n] # Blank} = Records(lines)
      /\ {n \in Records(lines) : /\ lines[n].shape = "object" /\ lines[n].ok
                                 /\ lines[n].result.dict /\ lines[n].result.image > 0}
           = Sound(lines)
      /\ {n \in Records(lines) : lines[n].shape = "object" /\ ~lines[n].ok} = Refusals(lines)
  BY <1>1 DEF Records, Sound, Refusals, IsRecord, IsRefusal
<1>3. \E at \in [DOMAIN yielded -> DOMAIN lines] :
        /\ {at[i] : i \in DOMAIN at} = Sound(lines)
        /\ \A i, j \in DOMAIN at : i < j => at[i] < at[j]
        /\ \A i \in DOMAIN at : yielded[i] = lines[at[i]].result.image
  <2>1. PICK at \in [1..Len(yielded) -> 1..Len(lines)] :
          /\ {at[i] : i \in 1..Len(yielded)} = Sound(lines)
          /\ \A i, j \in 1..Len(yielded) : i < j => at[i] < at[j]
          /\ \A i \in 1..Len(yielded) : yielded[i] = lines[at[i]].result.image
    BY DEF DownloadTold, InTurn
  <2>2. DOMAIN at = 1..Len(yielded)
    BY <2>1
  <2> HIDE DEF lines, yielded
  <2> QED
    BY <1>1, <2>1, <2>2
<1>4. state.outcome.class =
        CASE Refusals(lines) # {} -> "APIError"
          [] Refusals(lines) = {} /\ Records(lines) # Sound(lines) -> "ResponseError"
          [] Records(lines) = Sound(lines) /\ told.end = "none" -> "running"
          [] Records(lines) = Sound(lines) /\ told.end = "broken" -> "ConnectError"
          [] Records(lines) = Sound(lines) /\ told.end = "ended" ->
               IF Records(lines) = {} THEN "ResponseError" ELSE "returned"
  <2>1. Outcome(lines, told.end, state.outcome)
    BY DEF DownloadTold
  <2>2. Records(lines) = Sound(lines) => Refusals(lines) = {}
    <3>1. \A n \in 1..Len(lines) : lines[n] \in Lines
      BY <1>1
    <3> QED
      BY <3>1, LinesAreAnswers DEF Records, Sound, Refusals
  <2> HIDE DEF lines
  <2>3. CASE Refusals(lines) # {}
    BY <2>1, <2>2, <2>3 DEF Outcome
  <2>4. CASE Refusals(lines) = {} /\ Records(lines) # Sound(lines)
    BY <2>1, <2>4 DEF Outcome
  <2>5. CASE Records(lines) = Sound(lines) /\ told.end = "none"
    BY <2>1, <2>2, <2>5 DEF Outcome
  <2>6. CASE Records(lines) = Sound(lines) /\ told.end = "broken"
    BY <2>1, <2>2, <2>6 DEF Outcome
  <2>7. CASE Records(lines) = Sound(lines) /\ told.end = "ended"
    BY <2>1, <2>2, <2>7 DEF Outcome
  <2> QED
    BY <1>1, <2>3, <2>4, <2>5, <2>6, <2>7
<1>5. \A n \in Refusals(lines) :
        lines[n].result.dict => state.outcome.error = Str(lines[n].result.error)
  BY DEF DownloadTold
<1>6. state.outcome.class = "returned" => state.outcome.result = Last(yielded)
  BY DEF DownloadTold, Last
<1> HIDE DEF lines, yielded
<1> QED
  BY <1>2, <1>3, <1>4, <1>5, <1>6 DEF UploadTold, lines, yielded

(* upload_remote(): for any number of lines and whatever is in them, a refusal *)
(* is told in kvmd's words although the connection breaks behind it, what is   *)
(* no record is a ResponseError, and only a download that ended after a record *)
(* returns, with the last one.                                                *)
THEOREM RemoteUploadsAreTold == Spec => []UploadTold
<1>1. Init => DownloadTold
  <2> SUFFICES ASSUME Init, about = "remote"
               PROVE  DownloadTold
    BY DEF DownloadTold
  <2>1. told = [lines |-> <<>>, end |-> "none"] /\ state = Waiting
    BY DEF Init
  <2>2. /\ told.lines = <<>> /\ told.end = "none" /\ state.yielded = <<>>
        /\ state.last = NoRecord /\ state.outcome.class = "running"
        /\ state = [last |-> state.last, yielded |-> state.yielded, outcome |-> state.outcome]
    BY <2>1 DEF Waiting
  <2>3. Records(<<>>) = {} /\ Sound(<<>>) = {} /\ Refusals(<<>>) = {}
    BY DEF Records, Sound, Refusals
  <2>4. InTurn(<<>>, <<>>)
    <3> DEFINE none == [i \in 1..Len(<<>>) |-> i]
    <3>1. Len(<<>>) = 0 /\ 1..0 = {}
      OBVIOUS
    <3>2. none \in [1..Len(<<>>) -> 1..Len(<<>>)]
      OBVIOUS
    <3> HIDE DEF none
    <3>3. {none[i] : i \in 1..Len(<<>>)} = {}
      BY <3>1
    <3> QED
      BY <2>3, <3>1, <3>2, <3>3 DEF InTurn
  <2>5. DownloadTypes
    BY <2>1, <2>2 DEF DownloadTypes
  <2> QED
    BY <2>2, <2>3, <2>4, <2>5 DEF DownloadTold, Outcome
<1>2. DownloadTold /\ [Next]_vars => DownloadTold'
  <2>1. CASE UNCHANGED vars
    BY <2>1 DEF vars, DownloadTold, DownloadTypes
  <2>2. CASE Give \/ Send \/ SendShortcut \/ Read \/ Receive \/ TakeNext
    BY <2>2 DEF Give, Send, SendShortcut, Read, Receive, TakeNext, DownloadTold
  <2> QED
    BY <2>1, <2>2, HearKeeps, EndKeeps DEF Next
<1> QED
  BY <1>1, <1>2, DownloadSuffices, PTL DEF Spec

-------------------------------------------------------------------------------
(* Induction.  The induction theorems of the library take an operator as a      *)
(* parameter; that a set of naturals has a least element says the same without. *)

\* Every set of naturals that is not empty has a least element.
LEMMA LeastNatural ==
    ASSUME NEW T, T \subseteq Nat, T # {}
    PROVE  \E x \in T : \A y \in T : x <= y
<1> DEFINE R == {ss \in Nat \X Nat : ss[1] < ss[2]}
<1>1. IsWellFoundedOn(R, Nat)
  BY NatLessThanWellFounded DEF OpToRel
<1> HIDE DEF R
<1>2. \E x \in T : \A y \in T : ~ (<<y, x>> \in R)
    BY <1>1, WFMin
<1>3. \A x, y \in Nat : <<y, x>> \in R <=> y < x
  BY DEF R
<1>4. PICK x \in T : \A y \in T : ~ (<<y, x>> \in R)
  BY <1>2
<1>5. \A y \in T : ~(y < x)
  BY <1>3, <1>4
<1>6. \A y \in T : x <= y
  BY <1>5
<1> QED
  BY <1>6

\* Induction, for a set: what 0 is in, and n + 1 with n, every natural is in.
LEMMA Induction ==
    ASSUME NEW S, 0 \in S, \A n \in Nat : n \in S => n + 1 \in S
    PROVE  Nat \subseteq S
<1> DEFINE T == Nat \ S
<1>1. CASE T = {}
  BY <1>1
<1>2. CASE T # {}
  <2>1. PICK x \in T : \A y \in T : x <= y
    <3> HIDE DEF T
    <3>1. T \subseteq Nat
      BY DEF T
    <3> QED BY LeastNatural, <3>1, <1>2
  <2>2. x # 0 /\ x \in Nat
    OBVIOUS
  <2>3. x - 1 \in Nat /\ x - 1 \in S
    BY <2>1, <2>2
  <2>4. x \in S
    BY <2>2, <2>3
  <2> QED BY <2>4
<1> QED BY <1>1, <1>2

-------------------------------------------------------------------------------
(* What a shortcut looks like on the wire.                                    *)

\* f[i] is the first i parts, one after the other, as FlattenSeq computes it.
Flat(parts, n, f) == f = [i \in 1..n |-> IF i = 1 THEN parts[i] ELSE f[i - 1] \o parts[i]]

\* Such a function exists for every number of parts.
LEMMA FlatExists ==
    ASSUME NEW parts, NEW n \in Nat
    PROVE  \E f : Flat(parts, n, f)
<1> DEFINE S == {k \in Nat : \E f : Flat(parts, k, f)}
<1>1. 0 \in S
  <2>1. Flat(parts, 0, [i \in 1..0 |-> <<>>])
    BY DEF Flat
  <2> QED
    BY <2>1
<1>2. ASSUME NEW k \in Nat, k \in S
      PROVE  k + 1 \in S
  <2>1. PICK f : Flat(parts, k, f)
    BY <1>2
  <2> DEFINE g == [i \in 1..k + 1 |-> IF i <= k THEN f[i]
                                      ELSE IF i = 1 THEN parts[i] ELSE f[i - 1] \o parts[i]]
  <2>2. \A i \in 1..k : f[i] = IF i = 1 THEN parts[i] ELSE f[i - 1] \o parts[i]
    BY <2>1 DEF Flat
  <2>3. \A i \in 1..k : g[i] = f[i]
    OBVIOUS
  <2>4. \A i \in 1..k + 1 : i # 1 => i - 1 \in 1..k
    OBVIOUS
  <2>5. \A i \in 1..k + 1 : g[i] = IF i = 1 THEN parts[i] ELSE g[i - 1] \o parts[i]
    BY <2>2, <2>3, <2>4
  <2>6. g = [i \in 1..k + 1 |-> IF i = 1 THEN parts[i] ELSE g[i - 1] \o parts[i]]
    <3>1. g = [i \in 1..k + 1 |-> g[i]]
      OBVIOUS
    <3> HIDE DEF g
    <3>2. QED
      BY <2>5, <3>1
  <2>7. Flat(parts, k + 1, g)
    BY <2>6 DEF Flat
  <2> HIDE DEF g
  <2> QED
    BY <2>7
<1> HIDE DEF S
<1>3. Nat \subseteq S
  BY <1>1, <1>2, Induction
<1> QED
  BY <1>3 DEF S

\* Hence FlattenSeq is its last value.
LEMMA FlattenStep ==
    ASSUME NEW parts, Len(parts) \in Nat \ {0}
    PROVE  \E f : Flat(parts, Len(parts), f) /\ FlattenSeq(parts) = f[Len(parts)]
<1> DEFINE n == Len(parts)
           f == CHOOSE f : f = [i \in 1..n |-> IF i = 1 THEN parts[i] ELSE f[i - 1] \o parts[i]]
<1>1. Flat(parts, n, f)
  BY FlatExists DEF Flat
<1>2. FlattenSeq(parts) = f[n]
  BY DEF FlattenSeq
<1> QED
  BY <1>1, <1>2


\* A sequence followed by one character and another sequence.
LEMMA Followed ==
    ASSUME NEW C, NEW c \in C, NEW s \in Seq(C), NEW w \in Seq(C)
    PROVE  LET t == s \o (<<c>> \o w)
           IN  /\ t \in Seq(C) /\ Len(t) = Len(s) + 1 + Len(w)
               /\ \A q \in 1..Len(s) : t[q] = s[q]
               /\ t[Len(s) + 1] = c
               /\ \A q \in 1..Len(w) : t[Len(s) + 1 + q] = w[q]
<1> DEFINE u == <<c>> \o w
           t == s \o u
<1>1. u \in Seq(C) /\ Len(u) = 1 + Len(w)
  OBVIOUS
<1>2. u[1] = c
  OBVIOUS
<1>3. \A q \in 1..Len(w) : u[1 + q] = w[q]
  OBVIOUS
<1> HIDE DEF u
<1>4. t \in Seq(C) /\ Len(t) = Len(s) + Len(u)
  BY <1>1
<1>5. \A q \in 1..Len(s) : t[q] = s[q]
  BY <1>1
<1>6. \A q \in 1..Len(u) : t[Len(s) + q] = u[q]
  BY <1>1
<1> HIDE DEF t
<1>7. t[Len(s) + 1] = c
  <2>1. Len(u) \in Nat /\ 1 \in 1..Len(u)
    BY <1>1
  <2> QED
    BY <1>2, <1>6, <2>1
<1>8. \A q \in 1..Len(w) : t[Len(s) + 1 + q] = w[q]
  <2>1. ASSUME NEW q \in 1..Len(w)
        PROVE  t[Len(s) + 1 + q] = w[q]
    <3>1. 1 + q \in 1..Len(u) /\ Len(s) + (1 + q) = Len(s) + 1 + q
      BY <1>1
    <3>2. t[Len(s) + (1 + q)] = u[1 + q]
      BY <1>6, <3>1
    <3> QED
      BY <1>3, <3>1, <3>2
  <2> QED
    BY <2>1
<1>9. Len(t) = Len(s) + 1 + Len(w)
  BY <1>1, <1>4
<1> QED
  BY <1>4, <1>5, <1>7, <1>8, <1>9 DEF t, u


\* w stands in s from b to e, and the characters beside it are commas.
Piece(s, w, b, e) ==
    /\ b <= e /\ e <= Len(s) /\ e = b + Len(w) - 1
    /\ \A q \in b..e : s[q] = w[q - b + 1]
    /\ b = 1 \/ s[b - 1] = Comma
    /\ e = Len(s) \/ s[e + 1] = Comma

\* A piece stays one when a comma and something else are put behind.
LEMMA PieceKept ==
    ASSUME NEW s, NEW t, NEW w, Len(s) \in Nat, Len(t) \in Nat, Len(s) < Len(t),
           \A q \in 1..Len(s) : t[q] = s[q], t[Len(s) + 1] = Comma,
           NEW b \in Nat \ {0}, NEW e \in Nat, Piece(s, w, b, e)
    PROVE  Piece(t, w, b, e)
<1>1. b <= e /\ e <= Len(s) /\ e = b + Len(w) - 1
  BY DEF Piece
<1>2. \A q \in b..e : q \in 1..Len(s)
  BY <1>1
<1>3. \A q \in b..e : t[q] = w[q - b + 1]
  BY <1>2 DEF Piece
<1>4. b = 1 \/ t[b - 1] = Comma
  <2>1. b = 1 \/ b - 1 \in 1..Len(s)
    BY <1>1
  <2> QED
    BY <2>1 DEF Piece
<1>5. t[e + 1] = Comma
  <2>1. e = Len(s) \/ e + 1 \in 1..Len(s)
    BY <1>1
  <2> QED
    BY <2>1 DEF Piece
<1>6. e <= Len(t)
  BY <1>1
<1> QED
  BY <1>1, <1>3, <1>4, <1>5, <1>6 DEF Piece

\* And what is put behind the comma is a piece.
LEMMA PieceAdded ==
    ASSUME NEW s, NEW t, NEW w, Len(s) \in Nat, Len(w) \in Nat \ {0},
           Len(t) = Len(s) + 1 + Len(w), t[Len(s) + 1] = Comma,
           \A q \in 1..Len(w) : t[Len(s) + 1 + q] = w[q]
    PROVE  Piece(t, w, Len(s) + 2, Len(s) + 1 + Len(w))
<1> DEFINE b == Len(s) + 2
           e == Len(s) + 1 + Len(w)
<1>1. b \in Nat \ {0} /\ e \in Nat /\ b <= e /\ e = Len(t) /\ e = b + Len(w) - 1 /\ b - 1 = Len(s) + 1
  OBVIOUS
<1>2. \A q \in b..e : t[q] = w[q - b + 1]
  <2>1. ASSUME NEW q \in b..e
        PROVE  t[q] = w[q - b + 1]
    <3> DEFINE r == q - b + 1
    <3>1. r \in 1..Len(w) /\ Len(s) + 1 + r = q
      OBVIOUS
    <3> HIDE DEF r
    <3>2. t[q] = w[r]
      BY <3>1
    <3> QED
      BY <3>2 DEF r
  <2> QED
    BY <2>1
<1> HIDE DEF b, e
<1>3. Piece(t, w, b, e)
  BY <1>1, <1>2 DEF Piece
<1> QED
  BY <1>3 DEF b, e

\* What is behind the first a of a + 1 + b places.
LEMMA Longer ==
    ASSUME NEW a \in Nat, NEW b \in Nat \ {0}, NEW c, c = a + 1 + b
    PROVE  /\ c \in Nat /\ a < c
           /\ \A q \in 1..c : q \in 1..a \/ q = a + 1 \/ q \in a + 2..a + 1 + b
OBVIOUS

\* The first k keys are pieces of s, in their order, and cover it but for the commas.
Laid(s, keys, from, to, k) ==
    /\ from \in [1..k -> Nat \ {0}] /\ to \in [1..k -> Nat]
    /\ \A i \in 1..k : Piece(s, keys[i], from[i], to[i])
    /\ \A i, j \in 1..k : i < j => to[i] + 1 < from[j]
    /\ \A q \in 1..Len(s) : s[q] = Comma \/ \E i \in 1..k : q \in from[i]..to[i]
    /\ from[1] = 1 /\ to[k] = Len(s)

\* One key alone.
LEMMA LaidFirst ==
    ASSUME NEW keys, Len(keys[1]) \in Nat \ {0}
    PROVE  Laid(keys[1], keys, [i \in 1..1 |-> 1], [i \in 1..1 |-> Len(keys[1])], 1)
<1> DEFINE key == keys[1]
           from == [i \in 1..1 |-> 1]
           to == [i \in 1..1 |-> Len(key)]
<1>1. \A i \in 1..1 : i = 1
  OBVIOUS
<1>2. from \in [1..1 -> Nat \ {0}] /\ to \in [1..1 -> Nat] /\ from[1] = 1 /\ to[1] = Len(key)
  OBVIOUS
<1>3. Len(key) \in Nat \ {0}
  OBVIOUS
<1>4. Piece(key, key, 1, Len(key))
  <2> HIDE DEF key
  <2>1. \A q \in 1..Len(key) : q - 1 + 1 = q
    OBVIOUS
  <2>2. 1 <= Len(key) /\ Len(key) = 1 + Len(key) - 1
    BY <1>3
  <2> QED
    BY <1>3, <2>1, <2>2 DEF Piece
<1> HIDE DEF from, to
<1>5. \A i \in 1..1 : Piece(key, keys[i], from[i], to[i])
  BY <1>1, <1>2, <1>4
<1> HIDE DEF key
<1>6. \A i, j \in 1..1 : ~(i < j)
  OBVIOUS
<1>7. \A q \in 1..Len(key) : \E i \in 1..1 : q \in from[i]..to[i]
  BY <1>1, <1>2
<1>8. Laid(key, keys, from, to, 1)
  BY <1>2, <1>5, <1>6, <1>7 DEF Laid
<1> QED
  BY <1>8 DEF key, from, to

\* A comma and the next key are put behind.
LEMMA LaidNext ==
    ASSUME NEW s, NEW t, NEW keys, NEW from, NEW to, NEW k \in Nat \ {0},
           Len(s) \in Nat, Len(keys[k + 1]) \in Nat \ {0},
           Laid(s, keys, from, to, k),
           Len(t) = Len(s) + 1 + Len(keys[k + 1]),
           \A q \in 1..Len(s) : t[q] = s[q],
           t[Len(s) + 1] = Comma,
           \A q \in 1..Len(keys[k + 1]) : t[Len(s) + 1 + q] = keys[k + 1][q]
    PROVE  \E begin, end : Laid(t, keys, begin, end, k + 1)
<1> DEFINE w == keys[k + 1]
           begin == [i \in 1..k + 1 |-> IF i <= k THEN from[i] ELSE Len(s) + 2]
           end == [i \in 1..k + 1 |-> IF i <= k THEN to[i] ELSE Len(s) + 1 + Len(w)]
<1>1. Len(w) \in Nat \ {0} /\ Len(t) = Len(s) + 1 + Len(w)
      /\ \A q \in 1..Len(w) : t[Len(s) + 1 + q] = w[q]
  OBVIOUS
<1>2. \A i \in 1..k : from[i] \in Nat \ {0} /\ to[i] \in Nat /\ from[i] <= to[i] /\ to[i] <= Len(s)
  BY DEF Laid, Piece
<1>3. keys[k + 1] = w
  OBVIOUS
<1> HIDE DEF w
<1>4. \A i \in 1..k + 1 : i \in 1..k \/ i = k + 1
  OBVIOUS
<1>5. \A i \in 1..k : i \in 1..k + 1 /\ begin[i] = from[i] /\ end[i] = to[i]
  OBVIOUS
<1>6. k + 1 \in 1..k + 1 /\ begin[k + 1] = Len(s) + 2 /\ end[k + 1] = Len(s) + 1 + Len(w)
  OBVIOUS
<1>7. begin \in [1..k + 1 -> Nat \ {0}] /\ end \in [1..k + 1 -> Nat]
  BY <1>1, <1>2
<1> HIDE DEF begin, end
<1>8. \A i \in 1..k + 1 : Piece(t, keys[i], begin[i], end[i])
  <2>1. Len(t) \in Nat /\ Len(s) < Len(t)
    BY <1>1, Longer
  <2>2. ASSUME NEW i \in 1..k
        PROVE  Piece(t, keys[i], from[i], to[i])
    <3>1. Piece(s, keys[i], from[i], to[i])
      BY DEF Laid
    <3> QED
      BY <1>2, <2>1, <3>1, PieceKept
  <2>3. Piece(t, w, Len(s) + 2, Len(s) + 1 + Len(w))
    BY <1>1, PieceAdded
  <2> QED
    BY <1>3, <1>4, <1>5, <1>6, <2>2, <2>3
<1>9. \A i, j \in 1..k + 1 : i < j => end[i] + 1 < begin[j]
  <2> SUFFICES ASSUME NEW i \in 1..k + 1, NEW j \in 1..k + 1, i < j
               PROVE  end[i] + 1 < begin[j]
    OBVIOUS
  <2>1. i \in 1..k
    OBVIOUS
  <2>2. CASE j \in 1..k
    BY <1>5, <2>1, <2>2 DEF Laid
  <2>3. CASE j = k + 1
    BY <1>2, <1>5, <1>6, <2>1, <2>3
  <2> QED
    BY <1>4, <2>2, <2>3
<1>10. \A q \in 1..Len(t) : t[q] = Comma \/ \E i \in 1..k + 1 : q \in begin[i]..end[i]
  <2> SUFFICES ASSUME NEW q \in 1..Len(t)
               PROVE  t[q] = Comma \/ \E i \in 1..k + 1 : q \in begin[i]..end[i]
    OBVIOUS
  <2>1. CASE q \in 1..Len(s)
    <3>1. s[q] = Comma \/ \E i \in 1..k : q \in from[i]..to[i]
      BY <2>1 DEF Laid
    <3> QED
      BY <1>5, <2>1, <3>1
  <2>2. CASE q = Len(s) + 1
    BY <2>2
  <2>3. CASE q \in Len(s) + 2..Len(s) + 1 + Len(w)
    BY <1>6, <2>3
  <2>4. q \in 1..Len(s) \/ q = Len(s) + 1 \/ q \in Len(s) + 2..Len(s) + 1 + Len(w)
    BY <1>1, Longer
  <2> QED
    BY <2>1, <2>2, <2>3, <2>4
<1>11. begin[1] = 1 /\ end[k + 1] = Len(t)
  <2>1. 1 \in 1..k /\ from[1] = 1
    BY DEF Laid
  <2> QED
    BY <1>1, <1>5, <1>6, <2>1
<1>12. Laid(t, keys, begin, end, k + 1)
  BY <1>7, <1>8, <1>9, <1>10, <1>11 DEF Laid
<1> QED
  BY <1>12


\* ",".join(): all the keys, however many, whatever their lengths.
LEMMA JoinedIsLaid ==
    ASSUME NEW C, Comma \in C, NEW keys \in Seq(Seq(C)), keys # <<>>,
           \A i \in 1..Len(keys) : keys[i] # <<>>
    PROVE  /\ Joined(keys) \in Seq(C)
           /\ \E from, to : Laid(Joined(keys), keys, from, to, Len(keys))
<1> DEFINE n == Len(keys)
           parts == [i \in DOMAIN keys |-> IF i = 1 THEN keys[i] ELSE <<Comma>> \o keys[i]]
<1>1. n \in Nat \ {0} /\ DOMAIN keys = 1..n
  BY EmptySeq
<1>2. \A i \in 1..n : keys[i] \in Seq(C) /\ Len(keys[i]) \in Nat \ {0}
  <2>1. ASSUME NEW i \in 1..n
        PROVE  keys[i] \in Seq(C) /\ Len(keys[i]) \in Nat \ {0}
    <3>1. keys[i] \in Seq(C) /\ keys[i] # <<>>
      OBVIOUS
    <3> QED
      BY <3>1, EmptySeq
  <2> QED
    BY <2>1
<1>3. parts \in Seq(Seq(C)) /\ Len(parts) = n
  <2>1. \A i \in 1..n : <<Comma>> \o keys[i] \in Seq(C)
    BY <1>2
  <2>2. parts \in [1..n -> Seq(C)]
    BY <1>1, <1>2, <2>1
  <2> HIDE DEF parts, n
  <2> QED
    BY <1>1, <2>2
<1>4. \A i \in 1..n : parts[i] = IF i = 1 THEN keys[i] ELSE <<Comma>> \o keys[i]
  BY <1>1
<1>5. Joined(keys) = FlattenSeq(parts)
  BY DEF Joined
<1> HIDE DEF parts, n
<1>6. PICK f : Flat(parts, n, f) /\ FlattenSeq(parts) = f[n]
  BY <1>1, <1>3, FlattenStep
<1>7. /\ f[1] = keys[1]
      /\ \A k \in 1..n - 1 : f[k + 1] = f[k] \o (<<Comma>> \o keys[k + 1])
  <2>1. \A i \in 1..n : f[i] = IF i = 1 THEN parts[i] ELSE f[i - 1] \o parts[i]
    BY <1>6 DEF Flat
  <2>2. 1 \in 1..n /\ \A k \in 1..n - 1 : k + 1 \in 1..n /\ k + 1 # 1 /\ (k + 1) - 1 = k
    BY <1>1
  <2> QED
    BY <1>4, <2>1, <2>2
<1> DEFINE Sofar(k) == f[k] \in Seq(C) /\ \E from, to : Laid(f[k], keys, from, to, k)
           S == {m \in Nat : m + 1 <= n => Sofar(m + 1)}
<1>8. Sofar(1)
  <2>1. 1 \in 1..n
    BY <1>1
  <2>2. \E from, to : Laid(keys[1], keys, from, to, 1)
    BY <1>2, <2>1, LaidFirst
  <2> QED
    BY <1>2, <1>7, <2>1, <2>2
<1>9. ASSUME NEW k \in 1..n - 1, Sofar(k)
      PROVE  Sofar(k + 1)
  <2>1. PICK from, to : Laid(f[k], keys, from, to, k)
    BY <1>9
  <2>2. k + 1 \in 1..n /\ k \in Nat \ {0}
    BY <1>1
  <2> DEFINE s == f[k]
             w == keys[k + 1]
             t == s \o (<<Comma>> \o w)
  <2>3. s \in Seq(C) /\ w \in Seq(C) /\ Len(w) \in Nat \ {0}
    BY <1>2, <1>9, <2>2
  <2>4. /\ t \in Seq(C) /\ Len(t) = Len(s) + 1 + Len(w)
        /\ \A q \in 1..Len(s) : t[q] = s[q]
        /\ t[Len(s) + 1] = Comma
        /\ \A q \in 1..Len(w) : t[Len(s) + 1 + q] = w[q]
    <3> HIDE DEF s, w
    <3> QED
      BY <2>3, Followed
  <2>5. f[k + 1] = t
    BY <1>7
  <2> HIDE DEF t
  <2>6. Len(s) \in Nat
    <3> HIDE DEF s
    <3> QED
      BY <2>3
  <2>7. \E begin, end : Laid(t, keys, begin, end, k + 1)
    BY <2>1, <2>2, <2>3, <2>4, <2>6, LaidNext
  <2> QED
    BY <2>4, <2>5, <2>7
<1> HIDE DEF Sofar
<1>10. Nat \subseteq S
  <2>1. 0 \in S
    BY <1>8
  <2>2. ASSUME NEW m \in Nat, m \in S
        PROVE  m + 1 \in S
    <3>1. CASE m + 1 + 1 <= n
      <4>1. m + 1 \in 1..n - 1 /\ m + 1 <= n
        BY <1>1, <3>1
      <4>2. Sofar(m + 1)
        BY <2>2, <4>1
      <4> QED
        BY <1>9, <4>1, <4>2
    <3> QED
      BY <3>1
  <2> HIDE DEF S
  <2> QED
    BY <2>1, <2>2, Induction
<1>11. Sofar(n)
  <2>1. n - 1 \in Nat /\ (n - 1) + 1 = n
    BY <1>1
  <2>2. n - 1 \in S
    BY <1>10, <2>1
  <2> QED
    BY <1>1, <2>1, <2>2
<1> QED
  BY <1>5, <1>6, <1>11 DEF Sofar, n


-------------------------------------------------------------------------------
(* What kvmd makes of it.                                                     *)

\* Neither a comma nor whitespace is within a piece.
Between(s, from, to, k) ==
    \A i \in 1..k : \A q \in from[i]..to[i] : s[q] \notin {Comma} \cup Whitespace

\* Which is what send_shortcut() sees to.
LEMMA NothingInside ==
    ASSUME NEW s, NEW keys, NEW from, NEW to, NEW n, Laid(s, keys, from, to, n),
           \A i \in 1..n : /\ Len(keys[i]) \in Nat
                           /\ \A q \in 1..Len(keys[i]) : keys[i][q] \notin {Comma} \cup Whitespace
    PROVE  Between(s, from, to, n)
<1> SUFFICES ASSUME NEW i \in 1..n, NEW q \in from[i]..to[i]
             PROVE  s[q] \notin {Comma} \cup Whitespace
  BY DEF Between
<1>1. from[i] \in Nat /\ to[i] \in Nat /\ Piece(s, keys[i], from[i], to[i])
  BY DEF Laid
<1>2. s[q] = keys[i][q - from[i] + 1] /\ to[i] = from[i] + Len(keys[i]) - 1
  BY <1>1 DEF Piece
<1> DEFINE a == from[i]
           b == to[i]
           l == Len(keys[i])
<1>3. a \in Nat /\ b = a + l - 1 /\ l \in Nat /\ q \in a..b
  BY <1>1, <1>2
<1> HIDE DEF a, b, l
<1>4. q - a + 1 \in 1..l
  BY <1>3
<1>5. \A j \in 1..l : keys[i][j] \notin {Comma} \cup Whitespace
  BY DEF l
<1>6. keys[i][q - a + 1] \notin {Comma} \cup Whitespace
  BY <1>4, <1>5
<1> QED
  BY <1>2, <1>6 DEF a

\* Where the first k begin and end.
Pairs(from, to, k) == {<<from[i], to[i]>> : i \in 1..k}

\* The items kvmd finds are these pieces: none is lost, none is split.
LEMMA ItemsOfTheLaid ==
    ASSUME NEW C, NEW s \in Seq(C), NEW keys, NEW from, NEW to, NEW n \in Nat \ {0},
           Laid(s, keys, from, to, n), Between(s, from, to, n)
    PROVE  Items(s) = Pairs(from, to, n)
<1>1. Len(s) \in Nat /\ DOMAIN s = 1..Len(s)
  OBVIOUS
<1>2. \A i \in 1..n : /\ from[i] \in Nat \ {0} /\ to[i] \in Nat
                      /\ from[i] <= to[i] /\ to[i] <= Len(s)
                      /\ from[i] = 1 \/ s[from[i] - 1] = Comma
                      /\ to[i] = Len(s) \/ s[to[i] + 1] = Comma
  BY DEF Laid, Piece
<1>3. Comma \in Separators /\ Separators \subseteq {Comma} \cup Whitespace
  BY DEF Separators, Whitespace
<1>4. \A i \in 1..n : \A q \in from[i]..to[i] : s[q] \notin Separators
  BY <1>3 DEF Between
<1>5. ASSUME NEW i \in 1..n
      PROVE  <<from[i], to[i]>> \in Items(s)
  <2> DEFINE b == from[i]
             e == to[i]
             item == <<b, e>>
  <2>1. /\ b \in DOMAIN s /\ e \in DOMAIN s /\ b <= e
        /\ \A q \in b..e : s[q] \notin Separators
        /\ b = 1 \/ s[b - 1] \in Separators
        /\ e = Len(s) \/ s[e + 1] \in Separators
    BY <1>1, <1>2, <1>3, <1>4
  <2>2. item \in (DOMAIN s) \X (DOMAIN s) /\ item[1] = b /\ item[2] = e
    BY <2>1
  <2> HIDE DEF b, e, item
  <2>3. item \in Items(s)
    BY <2>1, <2>2 DEF Items
  <2> QED
    BY <2>3 DEF b, e, item
<1>6. ASSUME NEW item \in Items(s)
      PROVE  \E i \in 1..n : item = <<from[i], to[i]>>
  <2> DEFINE b == item[1]
             e == item[2]
  <2> DEFINE size == Len(s)
  <2>0. size \in Nat
    OBVIOUS
  <2>1. /\ item = <<b, e>> /\ b \in 1..size /\ e \in 1..size /\ b <= e
        /\ \A q \in b..e : s[q] \notin Separators
        /\ b = 1 \/ s[b - 1] \in Separators
        /\ e = size \/ s[e + 1] \in Separators
    BY <1>1 DEF Items
  <2> HIDE DEF b, e, size
  <2>2. /\ b \in Nat /\ e \in Nat /\ 1 <= b /\ b <= e /\ e <= size
        /\ b \in b..e
    BY <2>0, <2>1
  <2>3. PICK i \in 1..n : b \in from[i]..to[i]
    <3>1. s[b] # Comma
      BY <1>3, <2>1, <2>2
    <3> QED
      BY <2>1, <3>1 DEF Laid, size
  <2> DEFINE first == from[i]
             last == to[i]
  <2>6. /\ first \in Nat \ {0} /\ last \in Nat /\ last <= size /\ first <= b /\ b <= last
        /\ last = size \/ s[last + 1] = Comma
    BY <1>2, <2>2, <2>3 DEF size
  <2>7. \A q \in first..last : s[q] \notin Separators
    BY <1>4
  <2> HIDE DEF first, last
  <2>4. b = first
    <3>1. SUFFICES ASSUME b # first
                   PROVE  FALSE
      OBVIOUS
    <3>2. b - 1 \in first..last /\ b # 1
      BY <2>2, <2>6, <3>1
    <3> QED
      BY <2>1, <2>7, <3>2
  <2>5. e = last
    <3>1. ASSUME e < last
          PROVE  FALSE
      <4>1. e + 1 \in first..last /\ e # size
        BY <2>0, <2>2, <2>6, <3>1
      <4> QED
        BY <2>1, <2>7, <4>1
    <3>2. ASSUME last < e
          PROVE  FALSE
      <4>1. last + 1 \in b..e /\ last # size
        BY <2>0, <2>2, <2>6, <3>2
      <4> QED
        BY <1>3, <2>1, <2>6, <4>1
    <3> QED
      BY <2>2, <2>6, <3>1, <3>2
  <2> QED
    BY <2>1, <2>4, <2>5 DEF first, last
<1> QED
  BY <1>5, <1>6 DEF Pairs

\* There are k of them.
LEMMA Counted ==
    ASSUME NEW from, NEW to, NEW n \in Nat, NEW k \in 0..n,
           \A i, j \in 1..n : i < j => from[i] # from[j]
    PROVE  Cardinality(Pairs(from, to, k)) = k
<1> DEFINE T == {<<from[i], to[i]>> : i \in 1..k}
           f == [i \in 1..k |-> <<from[i], to[i]>>]
<1>1. \A i, j \in 1..k : i # j => <<from[i], to[i]>> # <<from[j], to[j]>>
  <2>1. ASSUME NEW i \in 1..k, NEW j \in 1..k, i # j
        PROVE  from[i] # from[j]
    <3>1. i \in 1..n /\ j \in 1..n /\ (i < j \/ j < i)
      BY <2>1
    <3> QED
      BY <3>1
  <2> QED
    BY <2>1
<1>2. f \in Bijection(1..k, T)
  <2>1. f \in [1..k -> T]
    OBVIOUS
  <2>2. \A i, j \in 1..k : f[i] = f[j] => i = j
    BY <1>1
  <2>3. \A t \in T : \E i \in 1..k : f[i] = t
    OBVIOUS
  <2> HIDE DEF f, T
  <2> QED
    BY <2>1, <2>2, <2>3 DEF Bijection, Injection, Surjection, IsInjective
<1>3. ExistsBijection(1..k, T)
  BY <1>2 DEF ExistsBijection
<1> HIDE DEF T
<1>4. Cardinality(T) = k
  BY <1>3, FS_CountingElements
<1> QED
  BY <1>4 DEF T, Pairs


\* A piece, cut out, is the key.
LEMMA Extracted ==
    ASSUME NEW C, NEW s \in Seq(C), NEW w \in Seq(C), NEW b \in Nat \ {0}, NEW e \in Nat,
           Len(w) \in Nat \ {0}, Piece(s, w, b, e)
    PROVE  SubSeq(s, b, e) = w
<1> DEFINE t == SubSeq(s, b, e)
           n == Len(w)
<1>1. b <= e /\ e <= Len(s) /\ e = b + n - 1 /\ n \in Nat \ {0}
      /\ \A q \in b..e : s[q] = w[q - b + 1]
  BY DEF Piece
<1>2. b \in 1..Len(s) + 1 /\ e \in b - 1..Len(s)
  BY <1>1
<1>3. t \in Seq(C) /\ Len(t) = n /\ \A i \in 1..n : t[i] = s[b + i - 1]
  <2>1. Len(t) = e - b + 1 /\ t \in Seq(C)
    BY <1>1, <1>2
  <2>2. \A i \in 1..e - b + 1 : t[i] = s[b + i - 1]
    BY <1>1, <1>2
  <2>3. e - b + 1 = n
    <3> HIDE DEF n
    <3> QED
      BY <1>1
  <2> HIDE DEF t, n
  <2> QED
    BY <2>1, <2>2, <2>3
<1>4. \A i \in 1..n : t[i] = w[i]
  <2>1. ASSUME NEW i \in 1..n
        PROVE  t[i] = w[i]
    <3>1. b + i - 1 \in b..e /\ (b + i - 1) - b + 1 = i
      <4> HIDE DEF n
      <4> QED
        BY <1>1
    <3>2. s[b + i - 1] = w[i]
      BY <1>1, <3>1
    <3> HIDE DEF t, n
    <3> QED
      BY <1>3, <3>2
  <2> QED
    BY <2>1
<1>5. t \in Seq(C) /\ Len(t) = Len(w) /\ \A i \in 1..Len(w) : t[i] = w[i]
  BY <1>3, <1>4
<1> HIDE DEF t
<1>6. t = w
  BY <1>5, SeqEqual
<1> QED
  BY <1>6 DEF t

\* What neither begins nor ends with whitespace is not trimmed.
LEMMA NothingToStrip ==
    ASSUME NEW C, NEW s \in Seq(C), Len(s) \in Nat \ {0},
           s[1] \notin Whitespace, s[Len(s)] \notin Whitespace
    PROVE  Strip(s) = s
<1> DEFINE kept == {i \in DOMAIN s : s[i] \notin Whitespace}
           n == Len(s)
<1>1. n \in Nat \ {0} /\ DOMAIN s = 1..n
  OBVIOUS
<1>2. kept \subseteq 1..n /\ 1 \in kept /\ n \in kept
  BY <1>1
<1> HIDE DEF kept
<1>3. Min(kept) = 1
  <2>1. \A y \in kept : 1 <= y
    BY <1>1, <1>2
  <2>2. \A x \in kept : (\A y \in kept : x <= y) => x = 1
    BY <1>1, <1>2
  <2> QED
    BY <1>2, <2>1, <2>2 DEF Min
<1>4. Max(kept) = n
  <2> HIDE DEF n
  <2>1. \A y \in kept : n >= y
    BY <1>1, <1>2
  <2>2. \A x \in kept : (\A y \in kept : x >= y) => x = n
    BY <1>1, <1>2
  <2> QED
    BY <1>2, <2>1, <2>2 DEF Max
<1>5. SubSeq(s, 1, n) = s
  <2> DEFINE t == SubSeq(s, 1, n)
  <2>1. t \in Seq(C) /\ Len(t) = n /\ \A i \in 1..n : t[i] = s[i]
    BY <1>1
  <2> HIDE DEF t
  <2>2. t = s
    BY <2>1, SeqEqual
  <2> QED
    BY <2>2 DEF t
<1>6. kept # {}
  BY <1>2
<1> QED
  BY <1>3, <1>4, <1>5, <1>6 DEF Strip, kept


\* The piece of the i-th key is the i-th item from the left.
LEMMA PlacesOfTheLaid ==
    ASSUME NEW s, NEW keys, NEW from, NEW to, NEW n \in Nat \ {0}, Laid(s, keys, from, to, n)
    PROVE  /\ Cardinality(Pairs(from, to, n)) = n
           /\ \A i \in 1..n : Place(<<from[i], to[i]>>, Pairs(from, to, n)) = i
<1> DEFINE items == Pairs(from, to, n)
<1>1. \A i, j \in 1..n : i < j => from[i] < from[j]
  <2>1. ASSUME NEW i \in 1..n, NEW j \in 1..n, i < j
        PROVE  from[i] < from[j]
    <3>1. from[i] \in Nat /\ to[i] \in Nat /\ from[j] \in Nat /\ from[i] <= to[i]
          /\ to[i] + 1 < from[j]
      BY <2>1 DEF Laid, Piece
    <3> QED
      BY <3>1
  <2> QED
    BY <2>1
<1>2. \A i \in 1..n : from[i] \in Nat
  BY DEF Laid
<1>3. \A i, j \in 1..n : i < j => from[i] # from[j]
  BY <1>1, <1>2
<1>4. Cardinality(items) = n
  <2>1. n \in Nat /\ n \in 0..n
    OBVIOUS
  <2> QED
    BY <1>3, <2>1, Counted
<1>5. ASSUME NEW i \in 1..n
      PROVE  Place(<<from[i], to[i]>>, items) = i
  <2> DEFINE T == Pairs(from, to, i)
             L == {other \in items : other[1] <= from[i]}
  <2>1. \A j \in 1..n : from[j] <= from[i] <=> j \in 1..i
    <3>1. ASSUME NEW j \in 1..n
          PROVE  from[j] <= from[i] <=> j \in 1..i
      <4>1. from[j] \in Nat /\ from[i] \in Nat
        BY <1>2
      <4>2. i < j => from[i] < from[j]
        BY <1>1
      <4>3. j < i => from[j] < from[i]
        BY <1>1
      <4> QED
        BY <4>1, <4>2, <4>3
    <3> QED
      BY <3>1
  <2>2. \A j \in 1..i : j \in 1..n
    OBVIOUS
  <2>3. T \subseteq L
    <3>1. ASSUME NEW j \in 1..i
          PROVE  <<from[j], to[j]>> \in L
      <4>1. j \in 1..n /\ from[j] <= from[i]
        BY <2>1, <2>2
      <4> QED
        BY <4>1 DEF Pairs
    <3> QED
      BY <3>1 DEF Pairs
  <2>4. L \subseteq T
    <3>1. ASSUME NEW other \in L
          PROVE  other \in T
      <4>1. PICK j \in 1..n : other = <<from[j], to[j]>>
        BY DEF Pairs
      <4>2. from[j] <= from[i]
        BY <4>1
      <4> QED
        BY <2>1, <4>1, <4>2 DEF Pairs
    <3> QED
      BY <3>1
  <2>5. Cardinality(T) = i
    <3>1. n \in Nat /\ i \in 0..n
      OBVIOUS
    <3> QED
      BY <1>3, <3>1, Counted
  <2>6. Place(<<from[i], to[i]>>, items) = Cardinality(L)
    BY DEF Place
  <2>7. T = L
    BY <2>3, <2>4
  <2> HIDE DEF T, L, items
  <2> QED
    BY <2>5, <2>6, <2>7
<1> QED
  BY <1>4, <1>5

\* Hence the items are the keys, in their order.
LEMMA SplitOfTheLaid ==
    ASSUME NEW C, NEW s \in Seq(C), NEW keys \in Seq(Seq(C)), NEW from, NEW to, keys # <<>>,
           \A i \in 1..Len(keys) : keys[i] # <<>>,
           Laid(s, keys, from, to, Len(keys)), Between(s, from, to, Len(keys))
    PROVE  Split(s) = keys
<1> DEFINE n == Len(keys)
           items == Items(s)
           Nth(k) == CHOOSE i \in items : Place(i, items) = k
<1>1. n \in Nat \ {0}
  BY EmptySeq
<1> HIDE DEF n
<1>2. Laid(s, keys, from, to, n)
  BY DEF n
<1>3. items = Pairs(from, to, n)
  BY <1>1, <1>2, ItemsOfTheLaid DEF n
<1>4. Cardinality(items) = n /\ \A i \in 1..n : Place(<<from[i], to[i]>>, items) = i
  BY <1>1, <1>2, <1>3, PlacesOfTheLaid
<1> HIDE DEF items
<1>5. ASSUME NEW k \in 1..n
      PROVE  SubSeq(s, Nth(k)[1], Nth(k)[2]) = keys[k]
  <2>1. <<from[k], to[k]>> \in items /\ Place(<<from[k], to[k]>>, items) = k
    BY <1>3, <1>4 DEF Pairs
  <2>2. \A i \in items : Place(i, items) = k => i = <<from[k], to[k]>>
    <3>1. ASSUME NEW i \in items, Place(i, items) = k
          PROVE  i = <<from[k], to[k]>>
      <4>1. PICK j \in 1..n : i = <<from[j], to[j]>>
        BY <1>3 DEF Pairs
      <4>2. j = k
        BY <1>4, <3>1, <4>1
      <4> QED
        BY <4>1, <4>2
    <3> QED
      BY <3>1
  <2>3. Nth(k) = <<from[k], to[k]>>
    BY <2>1, <2>2
  <2> HIDE DEF Nth
  <2>4. Nth(k)[1] = from[k] /\ Nth(k)[2] = to[k]
    BY <2>3
  <2>5. from[k] \in Nat \ {0} /\ to[k] \in Nat /\ Piece(s, keys[k], from[k], to[k])
    BY <1>2 DEF Laid
  <2>6. keys[k] \in Seq(C) /\ Len(keys[k]) \in Nat \ {0}
    <3>1. k \in 1..Len(keys)
      BY DEF n
    <3>2. keys[k] \in Seq(C)
      BY <3>1, ElementOfSeq
    <3>3. keys[k] # <<>>
      BY <3>1
    <3> QED
      BY <3>2, <3>3, EmptySeq
  <2>7. SubSeq(s, from[k], to[k]) = keys[k]
    <3> DEFINE key == keys[k]
               b == from[k]
               e == to[k]
    <3>1. /\ key \in Seq(C) /\ Len(key) \in Nat \ {0} /\ b \in Nat \ {0} /\ e \in Nat
          /\ Piece(s, key, b, e)
      BY <2>5, <2>6
    <3> HIDE DEF key, b, e
    <3>2. SubSeq(s, b, e) = key
      BY <3>1, Extracted
    <3> QED
      BY <3>2 DEF key, b, e
  <2> QED
    BY <2>4, <2>7
<1>6. Split(s) = [k \in 1..n |-> SubSeq(s, Nth(k)[1], Nth(k)[2])]
  BY <1>4 DEF Split, items
<1> HIDE DEF Nth
<1>7. keys = [k \in 1..n |-> keys[k]]
  BY DEF n
<1> QED
  BY <1>5, <1>6, <1>7

\* Every list of keys that is not refused is heard as it was given.
LEMMA KeysAreHeard ==
    ASSUME NEW keys \in Seq(Seq(STRING)), Accepted(keys)
    PROVE  HeardKeys(Joined(keys)) = keys /\ Joined(keys) # <<>>
<1> DEFINE C == STRING \cup {Comma}
           n == Len(keys)
           s == Joined(keys)
<1>1. keys \in Seq(Seq(C)) /\ Comma \in C
  OBVIOUS
<1> HIDE DEF C
<1>2. keys # <<>> /\ n \in Nat \ {0} /\ DOMAIN keys = 1..n
  BY EmptySeq DEF Accepted
<1>3. \A i \in 1..n : keys[i] # <<>> /\ keys[i] \in Seq(C) /\ Len(keys[i]) \in Nat \ {0}
  <2>1. ASSUME NEW i \in 1..n
        PROVE  keys[i] # <<>> /\ keys[i] \in Seq(C) /\ Len(keys[i]) \in Nat \ {0}
    <3>1. keys[i] # <<>>
      BY <1>2 DEF Accepted
    <3>2. keys[i] \in Seq(C)
      <4>1. i \in 1..Len(keys) /\ keys \in Seq(Seq(C))
        BY <1>1
      <4> QED
        BY <4>1, ElementOfSeq
    <3> QED
      BY <3>1, <3>2, EmptySeq
  <2> QED
    BY <2>1
<1>4. \A i \in 1..n : \A q \in 1..Len(keys[i]) : keys[i][q] \notin {Comma} \cup Whitespace
  <2>1. ASSUME NEW i \in 1..n, NEW q \in 1..Len(keys[i])
        PROVE  keys[i][q] \notin {Comma} \cup Whitespace
    <3>1. ToSet(keys[i]) \cap ({Comma} \cup Whitespace) = {}
      BY <1>2 DEF Accepted
    <3>2. keys[i][q] \in ToSet(keys[i])
      BY <1>3 DEF ToSet
    <3> QED
      BY <3>1, <3>2
  <2> QED
    BY <2>1
<1>5. s \in Seq(C) /\ \E from, to : Laid(s, keys, from, to, n)
  BY <1>1, <1>2, <1>3, JoinedIsLaid
<1> HIDE DEF s, n
<1>6. PICK from, to : Laid(s, keys, from, to, n)
  BY <1>5
<1>7. Between(s, from, to, n)
  BY <1>3, <1>4, <1>6, NothingInside
<1>8. Split(s) = keys
  BY <1>1, <1>2, <1>3, <1>5, <1>6, <1>7, SplitOfTheLaid DEF n
<1>9. Len(s) \in Nat \ {0} /\ s[1] \notin Whitespace /\ s[Len(s)] \notin Whitespace
  <2>1. /\ 1 \in 1..n /\ n \in 1..n /\ from[1] = 1 /\ to[n] = Len(s)
        /\ from[1] \in Nat /\ to[1] \in Nat /\ from[n] \in Nat /\ to[n] \in Nat
        /\ from[1] <= to[1] /\ to[1] <= Len(s) /\ from[n] <= to[n]
    BY <1>2, <1>6 DEF Laid, Piece
  <2>2. 1 \in from[1]..to[1] /\ Len(s) \in from[n]..to[n]
    BY <2>1
  <2>3. Len(s) \in Nat \ {0}
    BY <2>1
  <2> QED
    BY <1>7, <2>1, <2>2, <2>3 DEF Between
<1>10. Strip(s) = s
  BY <1>5, <1>9, NothingToStrip
<1>11. \A i \in 1..n : Strip(keys[i]) = keys[i]
  <2>1. ASSUME NEW i \in 1..n
        PROVE  Strip(keys[i]) = keys[i]
    <3>1. 1 \in 1..Len(keys[i]) /\ Len(keys[i]) \in 1..Len(keys[i])
      BY <1>3
    <3>2. keys[i][1] \notin Whitespace /\ keys[i][Len(keys[i])] \notin Whitespace
      BY <1>4, <3>1
    <3> QED
      BY <1>3, <3>2, NothingToStrip
  <2> QED
    BY <2>1
<1>12. HeardKeys(s) = [i \in 1..n |-> Strip(keys[i])]
  BY <1>2, <1>8, <1>10 DEF HeardKeys
<1>13. keys = [i \in 1..n |-> keys[i]]
  BY <1>1, <1>2
<1>14. HeardKeys(s) = keys
  BY <1>11, <1>12, <1>13
<1>15. s # <<>>
  BY <1>5, <1>9, EmptySeq
<1> QED
  BY <1>14, <1>15 DEF s

\* A shortcut that went out was not refused.
ShortcutSent ==
    about = "shortcut" =>
        /\ told \in Shortcuts
        /\ state = <<>> \/ (Accepted(told) /\ state = Joined(told))

(* send_shortcut(): of any list of keys, of any lengths, that it does not       *)
(* refuse, kvmd hears every key, whole and in the order they were given.       *)
THEOREM ShortcutsArrive == Spec => []ShortcutArrives
<1>1. Init => ShortcutSent
  BY DEF Init, ShortcutSent
<1>2. ShortcutSent /\ [Next]_vars => ShortcutSent'
  <2> SUFFICES ASSUME ShortcutSent, [Next]_vars
               PROVE  ShortcutSent'
    OBVIOUS
  <2>1. CASE SendShortcut
    BY <2>1 DEF SendShortcut, ShortcutSent
  <2>2. CASE Give \/ Send \/ Read \/ Hear \/ HearNoMore \/ Receive \/ TakeNext
    BY <2>2 DEF Give, Send, Read, Hear, HearNoMore, Receive, TakeNext, ShortcutSent
  <2>3. CASE UNCHANGED vars
    BY <2>3 DEF vars, ShortcutSent
  <2> QED
    BY <2>1, <2>2, <2>3 DEF Next
<1>3. ShortcutSent => ShortcutArrives
  <2> SUFFICES ASSUME ShortcutSent, about = "shortcut", state # <<>>
               PROVE  HeardKeys(state) = told
    BY DEF ShortcutArrives
  <2>1. told \in Seq(Seq(STRING)) /\ Accepted(told) /\ state = Joined(told)
    BY ShortcutAssumption DEF ShortcutSent
  <2> QED
    BY <2>1, KeysAreHeard
<1> QED
  BY <1>1, <1>2, <1>3, PTL DEF Spec
-------------------------------------------------------------------------------
(* Bytes of a stream, looked at where they stand in the wire.                 *)

\* What the reader looks for.
LEMMA Literals ==
    /\ Marker \in Seq(Nat) /\ Len(Marker) = 3
    /\ Marker[1] = 45 /\ Marker[2] = 45 /\ Marker[3] = 120
    /\ Closing \in Seq(Nat) /\ Len(Closing) = 2 /\ Closing[1] = 45 /\ Closing[2] = 45
    /\ HeadEnd \in Seq(Nat) /\ Len(HeadEnd) = 4
    /\ HeadEnd[1] = 13 /\ HeadEnd[2] = 10 /\ HeadEnd[3] = 13 /\ HeadEnd[4] = 10
BY DEF Marker, Closing, HeadEnd, Dash, CR, LF

\* bytes is what came from place d on, up to place r.
Window(bytes, wire, d, r) ==
    /\ d \in Nat /\ r \in Nat /\ d <= r
    /\ bytes \in Seq(Nat) /\ Len(bytes) = r - d
    /\ \A i \in 1..r - d : bytes[i] = wire[d + i]

\* The marker at a place of the wire.
LEMMA AtWindow ==
    ASSUME NEW bytes, NEW wire, NEW d, NEW r, Window(bytes, wire, d, r),
           NEW n \in Nat, NEW what, Len(what) \in Nat
    PROVE  At(bytes, n, what) <=>
             d + n + Len(what) <= r /\ \A i \in 1..Len(what) : wire[d + n + i] = what[i]
<1> DEFINE m == Len(what)
<1>1. m \in Nat
  OBVIOUS
<1>2. d \in Nat /\ r \in Nat /\ d <= r /\ Len(bytes) = r - d
      /\ \A i \in 1..r - d : bytes[i] = wire[d + i]
  BY DEF Window
<1>3. At(bytes, n, what) <=> n + m <= r - d /\ \A i \in 1..m : bytes[n + i] = what[i]
  BY <1>2 DEF At
<1> HIDE DEF m
<1>4. n + m <= r - d <=> d + n + m <= r
  BY <1>1, <1>2
<1>5. ASSUME n + m <= r - d
      PROVE  \A i \in 1..m : bytes[n + i] = wire[d + n + i]
  <2>1. ASSUME NEW i \in 1..m
        PROVE  bytes[n + i] = wire[d + n + i]
    <3>1. n + i \in 1..r - d /\ d + (n + i) = d + n + i
      BY <1>1, <1>2, <1>5
    <3> QED
      BY <1>2, <3>1
  <2> QED
    BY <2>1
<1>6. At(bytes, n, what) <=> d + n + m <= r /\ \A i \in 1..m : wire[d + n + i] = what[i]
  BY <1>3, <1>4, <1>5
<1> QED
  BY <1>6 DEF m

\* find() is the first place there is,
LEMMA FindsIt ==
    ASSUME NEW bytes, Len(bytes) \in Nat, NEW what, Len(what) \in Nat, NEW skip \in Nat,
           NEW n \in Nat, skip <= n, At(bytes, n, what),
           \A m \in Nat : skip <= m /\ m < n => ~ At(bytes, m, what)
    PROVE  Find(bytes, what, skip) = n
<1> DEFINE found == {m \in skip..Len(bytes) : At(bytes, m, what)}
<1>1. n + Len(what) <= Len(bytes)
  BY DEF At
<1>2. n \in found
  BY <1>1
<1>3. \A m \in found : m \in Nat /\ n <= m
  OBVIOUS
<1>4. Find(bytes, what, skip) = IF found = {} THEN -1 ELSE Min(found)
  BY DEF Find
<1> HIDE DEF found
<1>5. \A m \in found : (\A y \in found : m <= y) => m = n
  BY <1>2, <1>3
<1>6. Min(found) = n
  BY <1>2, <1>3, <1>5 DEF Min
<1> QED
  BY <1>2, <1>4, <1>6

\* -1 when there is none,
LEMMA FindsNone ==
    ASSUME NEW bytes, Len(bytes) \in Nat, NEW what, NEW skip \in Nat,
           \A m \in Nat : skip <= m => ~ At(bytes, m, what)
    PROVE  Find(bytes, what, skip) = -1
<1>1. {m \in skip..Len(bytes) : At(bytes, m, what)} = {}
  OBVIOUS
<1> QED
  BY <1>1 DEF Find

\* and where it is not, what it found is there and nothing is before.
LEMMA Finds ==
    ASSUME NEW bytes, Len(bytes) \in Nat, NEW what, Len(what) \in Nat, NEW skip \in Nat,
           Find(bytes, what, skip) >= 0
    PROVE  /\ Find(bytes, what, skip) \in Nat /\ skip <= Find(bytes, what, skip)
           /\ At(bytes, Find(bytes, what, skip), what)
           /\ \A m \in Nat : skip <= m /\ m < Find(bytes, what, skip) => ~ At(bytes, m, what)
<1> DEFINE found == {m \in skip..Len(bytes) : At(bytes, m, what)}
<1>1. Find(bytes, what, skip) = IF found = {} THEN -1 ELSE Min(found)
  BY DEF Find
<1>2. found \subseteq Nat /\ \A m \in found : skip <= m /\ At(bytes, m, what)
  OBVIOUS
<1>3. \A m \in Nat : skip <= m /\ At(bytes, m, what) => m \in found
  BY DEF At
<1> HIDE DEF found
<1>4. found # {}
  BY <1>1
<1>5. PICK n \in found : \A m \in found : n <= m
  BY <1>2, <1>4, LeastNatural
<1>6. \A m \in found : (\A y \in found : m <= y) => m = n
  BY <1>2, <1>5
<1>7. Min(found) = n
  BY <1>5, <1>6 DEF Min
<1>8. Find(bytes, what, skip) = n
  BY <1>1, <1>4, <1>7
<1>9. \A m \in Nat : skip <= m /\ m < n => ~ At(bytes, m, what)
  <2>1. ASSUME NEW m \in Nat, skip <= m, m < n, At(bytes, m, what)
        PROVE  FALSE
    <3>1. m \in found
      BY <1>3, <2>1
    <3>2. n <= m /\ n \in Nat
      BY <1>2, <1>5, <3>1
    <3> QED
      BY <2>1, <3>2
  <2> QED
    BY <2>1
<1> QED
  BY <1>2, <1>5, <1>8, <1>9

\* What is where, when one sequence is put behind another.
LEMMA Concatenated ==
    ASSUME NEW C, NEW s \in Seq(C), NEW w \in Seq(C)
    PROVE  /\ s \o w \in Seq(C) /\ Len(s \o w) = Len(s) + Len(w)
           /\ \A i \in 1..Len(s) : (s \o w)[i] = s[i]
           /\ \A i \in 1..Len(w) : (s \o w)[Len(s) + i] = w[i]
OBVIOUS

\* What is left of a window when its beginning is dropped.
LEMMA DropWindow ==
    ASSUME NEW bytes, NEW wire, NEW d, NEW r, Window(bytes, wire, d, r),
           NEW n \in Nat, d + n <= r
    PROVE  Window(Drop(bytes, n), wire, d + n, r)
<1> DEFINE b == SubSeq(bytes, n + 1, Len(bytes))
<1>1. d \in Nat /\ r \in Nat /\ d <= r /\ bytes \in Seq(Nat) /\ Len(bytes) = r - d
      /\ \A i \in 1..r - d : bytes[i] = wire[d + i]
  BY DEF Window
<1>2. n + 1 \in 1..Len(bytes) + 1 /\ Len(bytes) \in n..Len(bytes) /\ Len(bytes) - (n + 1) + 1 = r - (d + n)
  BY <1>1
<1>3. b \in Seq(Nat) /\ Len(b) = r - (d + n) /\ \A i \in 1..r - (d + n) : b[i] = bytes[n + i]
  BY <1>1, <1>2
<1> HIDE DEF b
<1>4. \A i \in 1..r - (d + n) : b[i] = wire[(d + n) + i]
  <2>1. ASSUME NEW i \in 1..r - (d + n)
        PROVE  b[i] = wire[(d + n) + i]
    <3>1. n + i \in 1..r - d /\ d + (n + i) = (d + n) + i
      BY <1>1
    <3> QED
      BY <1>1, <1>3, <3>1
  <2> QED
    BY <2>1
<1>5. Window(b, wire, d + n, r)
  BY <1>1, <1>3, <1>4 DEF Window
<1> QED
  BY <1>5 DEF b, Drop

\* feed() adds a chunk: a window up to where the chunk ends.
LEMMA JoinWindow ==
    ASSUME NEW wire \in Seq(Nat), NEW bytes, NEW d, NEW r, Window(bytes, wire, d, r),
           NEW e \in Nat, r <= e, e <= Len(wire)
    PROVE  Window(bytes \o SubSeq(wire, r + 1, e), wire, d, e)
<1> DEFINE c == SubSeq(wire, r + 1, e)
           b == bytes \o c
<1>1. d \in Nat /\ r \in Nat /\ d <= r /\ bytes \in Seq(Nat) /\ Len(bytes) = r - d
      /\ \A i \in 1..r - d : bytes[i] = wire[d + i]
  BY DEF Window
<1>2. c \in Seq(Nat) /\ Len(c) = e - r /\ \A i \in 1..e - r : c[i] = wire[r + i]
  BY <1>1
<1> HIDE DEF c
<1>3. b \in Seq(Nat) /\ Len(b) = (r - d) + (e - r)
      /\ (\A i \in 1..r - d : b[i] = bytes[i]) /\ \A i \in 1..e - r : b[(r - d) + i] = c[i]
  <2>1. /\ b \in Seq(Nat) /\ Len(b) = Len(bytes) + Len(c)
        /\ \A i \in 1..Len(bytes) : b[i] = bytes[i]
        /\ \A i \in 1..Len(c) : b[Len(bytes) + i] = c[i]
    <3>1. bytes \in Seq(Nat) /\ c \in Seq(Nat)
      BY <1>1, <1>2
    <3> QED
      BY <3>1, Concatenated
  <2> HIDE DEF b
  <2> QED
    BY <1>1, <1>2, <2>1
<1> HIDE DEF b
<1>4. Len(b) = e - d
  BY <1>1, <1>3
<1>5. \A i \in 1..e - d : b[i] = wire[d + i]
  <2>1. ASSUME NEW i \in 1..e - d
        PROVE  b[i] = wire[d + i]
    <3>1. CASE i \in 1..r - d
      BY <1>1, <1>3, <3>1
    <3>2. CASE i \notin 1..r - d
      <4> DEFINE j == i - (r - d)
      <4>1. j \in 1..e - r /\ (r - d) + j = i /\ r + j = d + i
        BY <1>1, <3>2
      <4> HIDE DEF j
      <4> QED
        BY <1>2, <1>3, <4>1
    <3> QED
      BY <3>1, <3>2
  <2> QED
    BY <2>1
<1>6. d <= e
  BY <1>1
<1>7. Window(b, wire, d, e)
  BY <1>1, <1>3, <1>4, <1>5, <1>6 DEF Window
<1> QED
  BY <1>7 DEF b, c

-------------------------------------------------------------------------------
(* How a stream is laid out.                                                 *)

\* b begins with a.
Prefix(a, b) == Len(a) <= Len(b) /\ \A i \in 1..Len(a) : b[i] = a[i]

\* body stands in the wire as a part, from there on.
IsPart(wire, at, body) ==
    /\ wire[at + 1] = 45 /\ wire[at + 2] = 45 /\ wire[at + 3] = 120
    /\ wire[at + 4] = 13 /\ wire[at + 5] = 10 /\ wire[at + 6] = 61
    /\ wire[at + 7] = 256 + Len(body)
    /\ wire[at + 8] = 13 /\ wire[at + 9] = 10 /\ wire[at + 10] = 13 /\ wire[at + 11] = 10
    /\ \A i \in 1..Len(body) : wire[at + 11 + i] = body[i]

\* A part stands in itself.
LEMMA PartIsPart ==
    ASSUME NEW body \in Seq(Nat)
    PROVE  Part(body) \in Seq(Nat) /\ Len(Part(body)) = 11 + Len(body) /\ IsPart(Part(body), 0, body)
<1> DEFINE n == Len(body)
           w == 256 + n
           a == <<45, 45, 120>>
           b == <<13, 10, 61, w>>
           c == <<13, 10, 13, 10>>
           ab == a \o b
           abc == ab \o c
           p == abc \o body
<1>1. n \in Nat /\ body \in Seq(Nat) /\ Len(body) = n
  OBVIOUS
<1>2. p = Part(body)
  BY DEF Part, Marker, HeadEnd, Digits, CR, LF, Dash, Equals
<1> HIDE DEF n
<1>3. w \in Nat
  BY <1>1
<1> HIDE DEF w
<1>4. a \in Seq(Nat) /\ Len(a) = 3 /\ a[1] = 45 /\ a[2] = 45 /\ a[3] = 120
  OBVIOUS
<1>5. b \in Seq(Nat) /\ Len(b) = 4 /\ b[1] = 13 /\ b[2] = 10 /\ b[3] = 61 /\ b[4] = w
  BY <1>3
<1>6. c \in Seq(Nat) /\ Len(c) = 4 /\ c[1] = 13 /\ c[2] = 10 /\ c[3] = 13 /\ c[4] = 10
  OBVIOUS
<1> HIDE DEF a, b, c
<1>7. ab \in Seq(Nat) /\ Len(ab) = 7 /\ ab[1] = 45 /\ ab[2] = 45 /\ ab[3] = 120
      /\ ab[4] = 13 /\ ab[5] = 10 /\ ab[6] = 61 /\ ab[7] = w
  <2>1. /\ ab \in Seq(Nat) /\ Len(ab) = Len(a) + Len(b)
        /\ \A i \in 1..Len(a) : ab[i] = a[i]
        /\ \A i \in 1..Len(b) : ab[Len(a) + i] = b[i]
    <3>1. a \in Seq(Nat) /\ b \in Seq(Nat)
      BY <1>4, <1>5
    <3> QED
      BY <3>1, Concatenated
  <2> HIDE DEF ab
  <2>2. (\A i \in 1..3 : ab[i] = a[i]) /\ \A i \in 1..4 : ab[3 + i] = b[i]
    BY <1>4, <1>5, <2>1
  <2>3. ab[3 + 1] = b[1] /\ ab[3 + 2] = b[2] /\ ab[3 + 3] = b[3] /\ ab[3 + 4] = b[4]
    BY <2>2
  <2> QED
    BY <1>4, <1>5, <2>1, <2>2, <2>3
<1> HIDE DEF ab
<1>8. abc \in Seq(Nat) /\ Len(abc) = 11 /\ (\A i \in 1..7 : abc[i] = ab[i])
      /\ abc[8] = 13 /\ abc[9] = 10 /\ abc[10] = 13 /\ abc[11] = 10
  <2>1. /\ abc \in Seq(Nat) /\ Len(abc) = Len(ab) + Len(c)
        /\ \A i \in 1..Len(ab) : abc[i] = ab[i]
        /\ \A i \in 1..Len(c) : abc[Len(ab) + i] = c[i]
    <3>1. ab \in Seq(Nat) /\ c \in Seq(Nat)
      BY <1>6, <1>7
    <3> QED
      BY <3>1, Concatenated
  <2> HIDE DEF abc
  <2>2. \A i \in 1..4 : abc[7 + i] = c[i]
    <3>1. Len(ab) = 7 /\ Len(c) = 4
      BY <1>6, <1>7
    <3> QED
      BY <2>1, <3>1
  <2>3. abc[7 + 1] = c[1] /\ abc[7 + 2] = c[2] /\ abc[7 + 3] = c[3] /\ abc[7 + 4] = c[4]
    BY <2>2
  <2> QED
    BY <1>6, <1>7, <2>1, <2>3
<1> HIDE DEF abc
<1>10. p \in Seq(Nat) /\ Len(p) = 11 + n /\ (\A i \in 1..11 : p[i] = abc[i])
      /\ \A i \in 1..n : p[11 + i] = body[i]
  <2>1. /\ p \in Seq(Nat) /\ Len(p) = Len(abc) + Len(body)
        /\ \A i \in 1..Len(abc) : p[i] = abc[i]
        /\ \A i \in 1..Len(body) : p[Len(abc) + i] = body[i]
    <3>1. abc \in Seq(Nat) /\ body \in Seq(Nat)
      BY <1>1, <1>8
    <3> QED
      BY <3>1, Concatenated
  <2> HIDE DEF p
  <2> QED
    BY <1>1, <1>8, <2>1
<1> HIDE DEF p
<1>9. IsPart(p, 0, body)
  <2>1. /\ p[1] = 45 /\ p[2] = 45 /\ p[3] = 120 /\ p[4] = 13 /\ p[5] = 10 /\ p[6] = 61
        /\ p[7] = w
    BY <1>7, <1>8, <1>10
  <2>2. p[8] = 13 /\ p[9] = 10 /\ p[10] = 13 /\ p[11] = 10
    BY <1>8, <1>10
  <2>3. w = 256 + Len(body)
    BY <1>1 DEF w
  <2>4. \A i \in 1..Len(body) : p[11 + i] = body[i]
    BY <1>1, <1>10
  <2> QED
    BY <2>1, <2>2, <2>3, <2>4 DEF IsPart
<1> QED
  BY <1>1, <1>2, <1>10, <1>9

\* The bytes up to the end of part n, as Sent computes them.
IsSent(stream, m, f) ==
    f = [n \in 0..m |-> IF n = 0 THEN <<>>
                        ELSE f[n - 1] \o Gap(stream, n - 1) \o Part(stream.parts[n])]

\* There is such a function for every stream.
LEMMA SentExists ==
    ASSUME NEW stream, NEW n \in Nat
    PROVE  \E f : IsSent(stream, n, f)
<1> DEFINE S == {k \in Nat : \E f : IsSent(stream, k, f)}
<1>1. 0 \in S
  <2> DEFINE f == [i \in 0..0 |-> <<>>]
  <2>1. \A i \in 0..0 : i = 0
    OBVIOUS
  <2>2. IsSent(stream, 0, f)
    BY <2>1 DEF IsSent
  <2> QED
    BY <2>2
<1>2. ASSUME NEW k \in Nat, k \in S
      PROVE  k + 1 \in S
  <2>1. PICK f : IsSent(stream, k, f)
    BY <1>2
  <2> DEFINE more(i, h) == h[i - 1] \o Gap(stream, i - 1) \o Part(stream.parts[i])
             g == [i \in 0..k + 1 |-> IF i <= k THEN f[i] ELSE more(i, f)]
  <2>2. \A i \in 0..k : f[i] = IF i = 0 THEN <<>> ELSE more(i, f)
    BY <2>1 DEF IsSent
  <2>3. \A i \in 0..k : g[i] = f[i]
    OBVIOUS
  <2>4. \A i \in 0..k + 1 : i # 0 => i - 1 \in 0..k
    OBVIOUS
  <2>5. \A i \in 0..k + 1 : i # 0 => more(i, g) = more(i, f)
    BY <2>3, <2>4
  <2>7. g = [i \in 0..k + 1 |-> g[i]]
    OBVIOUS
  <2> HIDE DEF more
  <2>6. \A i \in 0..k + 1 : i \notin 0..k => i # 0 /\ g[i] = more(i, f)
    OBVIOUS
  <2> HIDE DEF g
  <2>8. \A i \in 0..k + 1 : g[i] = IF i = 0 THEN <<>> ELSE more(i, g)
    <3>1. ASSUME NEW i \in 0..k + 1
          PROVE  g[i] = IF i = 0 THEN <<>> ELSE more(i, g)
      <4>1. CASE i \in 0..k
        BY <2>2, <2>3, <2>5, <4>1
      <4>2. CASE i \notin 0..k
        BY <2>5, <2>6, <4>2
      <4> QED
        BY <4>1, <4>2
    <3> QED
      BY <3>1
  <2>9. g = [i \in 0..k + 1 |-> IF i = 0 THEN <<>> ELSE more(i, g)]
    BY <2>7, <2>8
  <2>10. IsSent(stream, k + 1, g)
    BY <2>9 DEF IsSent, more
  <2> QED
    BY <2>10
<1> HIDE DEF S
<1>3. Nat \subseteq S
  BY <1>1, <1>2, Induction
<1> QED
  BY <1>3 DEF S

\* Hence Sent adds one part at a time.
LEMMA SentGrows ==
    ASSUME NEW stream, Len(stream.parts) \in Nat
    PROVE  /\ Sent(stream)[0] = <<>>
           /\ \A k \in 1..Len(stream.parts) :
                Sent(stream)[k] = Sent(stream)[k - 1] \o Gap(stream, k - 1) \o Part(stream.parts[k])
<1> DEFINE m == Len(stream.parts)
           f == CHOOSE f : f = [n \in 0..m |-> IF n = 0 THEN <<>>
                        ELSE f[n - 1] \o Gap(stream, n - 1) \o Part(stream.parts[n])]
<1>1. IsSent(stream, m, f)
  BY SentExists DEF IsSent
<1>2. Sent(stream) = f
  BY DEF Sent
<1> HIDE DEF f
<1>3. \A k \in 0..m : f[k] = IF k = 0 THEN <<>> ELSE f[k - 1] \o Gap(stream, k - 1) \o Part(stream.parts[k])
  BY <1>1 DEF IsSent
<1>4. 0 \in 0..m /\ \A k \in 1..m : k \in 0..m /\ k # 0
  OBVIOUS
<1>5. f[0] = <<>> /\ \A k \in 1..m : f[k] = f[k - 1] \o Gap(stream, k - 1) \o Part(stream.parts[k])
  BY <1>3, <1>4
<1> QED
  BY <1>2, <1>5

\* Where part k ends, and where the marker after it begins.
Ends(stream, k) == Len(Sent(stream)[k])
NextAt(stream, k) == Ends(stream, k) + Len(Gap(stream, k))

\* What comes between two parts is bytes.
LEMMA GapIsShort ==
    ASSUME NEW stream, IsStream(stream), NEW k \in Nat
    PROVE  Gap(stream, k) \in Seq(Nat) /\ Len(Gap(stream, k)) \in Nat
<1>1. stream.before \in Seq(Nat)
  BY DEF IsStream
<1>2. <<CR, LF>> \in Seq(Nat)
  BY DEF CR, LF
<1> QED
  BY <1>1, <1>2 DEF Gap

\* A part within something longer is a part of it, further on.
LEMMA IsPartMoves ==
    ASSUME NEW p, NEW w, NEW at \in Nat, NEW body \in Seq(Nat), IsPart(p, 0, body),
           Len(p) = 11 + Len(body), \A i \in 1..Len(p) : w[at + i] = p[i]
    PROVE  IsPart(w, at, body)
<1> DEFINE n == Len(body)
<1>1. n \in Nat
  OBVIOUS
<1>2. \A i \in 1..11 + n : w[at + i] = p[i]
  OBVIOUS
<1>3. \A i \in 1..n : p[11 + i] = body[i]
  <2>1. \A i \in 1..n : 0 + 11 + i = 11 + i
    OBVIOUS
  <2> QED
    BY <2>1 DEF IsPart
<1> HIDE DEF n
<1>4. \A i \in 1..11 : w[at + i] = p[i]
  BY <1>1, <1>2
<1>5. \A i \in 1..n : w[at + 11 + i] = body[i]
  <2>1. ASSUME NEW i \in 1..n
        PROVE  w[at + 11 + i] = body[i]
    <3>1. 11 + i \in 1..11 + n /\ at + (11 + i) = at + 11 + i
      BY <1>1
    <3> QED
      BY <1>2, <1>3, <3>1
  <2> QED
    BY <2>1
<1>6. /\ p[1] = 45 /\ p[2] = 45 /\ p[3] = 120 /\ p[4] = 13 /\ p[5] = 10 /\ p[6] = 61
      /\ p[7] = 256 + n /\ p[8] = 13 /\ p[9] = 10 /\ p[10] = 13 /\ p[11] = 10
  BY DEF IsPart, n
<1>7. /\ w[at + 1] = 45 /\ w[at + 2] = 45 /\ w[at + 3] = 120 /\ w[at + 4] = 13 /\ w[at + 5] = 10
      /\ w[at + 6] = 61 /\ w[at + 7] = 256 + n /\ w[at + 8] = 13 /\ w[at + 9] = 10
      /\ w[at + 10] = 13 /\ w[at + 11] = 10
  <2>1. /\ w[at + 1] = p[1] /\ w[at + 2] = p[2] /\ w[at + 3] = p[3] /\ w[at + 4] = p[4]
        /\ w[at + 5] = p[5] /\ w[at + 6] = p[6]
    BY <1>4
  <2>2. /\ w[at + 7] = p[7] /\ w[at + 8] = p[8] /\ w[at + 9] = p[9] /\ w[at + 10] = p[10]
        /\ w[at + 11] = p[11]
    BY <1>4
  <2> QED
    BY <1>6, <2>1, <2>2
<1> QED
  BY <1>5, <1>7 DEF IsPart, n

\* A beginning of a beginning is a beginning.
LEMMA PrefixTransitive ==
    ASSUME NEW a, NEW b, NEW c, Len(a) \in Nat, Len(b) \in Nat, Len(c) \in Nat,
           Prefix(a, b), Prefix(b, c)
    PROVE  Prefix(a, c)
BY DEF Prefix

\* One part more.
LEMMA SentStep ==
    ASSUME NEW stream, IsStream(stream), NEW k \in 0..Len(stream.parts) - 1,
           Sent(stream)[k] \in Seq(Nat)
    PROVE  /\ stream.parts[k + 1] \in Seq(Nat)
           /\ Sent(stream)[k + 1] \in Seq(Nat)
           /\ Ends(stream, k) \in Nat /\ NextAt(stream, k) \in Nat
           /\ Ends(stream, k + 1) = NextAt(stream, k) + 11 + Len(stream.parts[k + 1])
           /\ Prefix(Sent(stream)[k], Sent(stream)[k + 1])
           /\ \A i \in 1..Len(Gap(stream, k)) : Sent(stream)[k + 1][Ends(stream, k) + i] = Gap(stream, k)[i]
           /\ IsPart(Sent(stream)[k + 1], NextAt(stream, k), stream.parts[k + 1])
<1> DEFINE m == Len(stream.parts)
           s == Sent(stream)[k]
           g == Gap(stream, k)
           body == stream.parts[k + 1]
           p == Part(body)
           sg == s \o g
           t == sg \o p
<1>1. stream.parts \in Seq(Seq(Nat)) /\ m \in Nat
  BY DEF IsStream
<1>2. k \in Nat /\ k + 1 \in 1..m /\ (k + 1) - 1 = k
  BY <1>1
<1>3. body \in Seq(Nat)
  BY <1>1, <1>2
<1>4. g \in Seq(Nat) /\ Len(g) \in Nat
  BY <1>2, GapIsShort
<1>5. Sent(stream)[k + 1] = t
  BY <1>1, <1>2, SentGrows
<1> HIDE DEF body
<1>6. p \in Seq(Nat) /\ Len(p) = 11 + Len(body) /\ IsPart(p, 0, body)
  BY <1>3, PartIsPart
<1>7. s \in Seq(Nat) /\ Len(s) \in Nat /\ Len(s) = Ends(stream, k) /\ Len(s) + Len(g) = NextAt(stream, k)
  BY DEF Ends, NextAt
<1> HIDE DEF s, g, p
<1>8. /\ sg \in Seq(Nat) /\ Len(sg) = Len(s) + Len(g)
      /\ \A i \in 1..Len(s) : sg[i] = s[i]
      /\ \A i \in 1..Len(g) : sg[Len(s) + i] = g[i]
  <2>1. s \in Seq(Nat) /\ g \in Seq(Nat)
    BY <1>4, <1>7
  <2> QED
    BY <2>1, Concatenated
<1> HIDE DEF sg
<1>9. /\ t \in Seq(Nat) /\ Len(t) = Len(sg) + Len(p)
      /\ \A i \in 1..Len(sg) : t[i] = sg[i]
      /\ \A i \in 1..Len(p) : t[Len(sg) + i] = p[i]
  <2>1. sg \in Seq(Nat) /\ p \in Seq(Nat)
    BY <1>6, <1>8
  <2> QED
    BY <2>1, Concatenated
<1> HIDE DEF t
<1>10. Len(t) = NextAt(stream, k) + 11 + Len(body)
  <2>1. Len(body) \in Nat
    BY <1>3
  <2> QED
    BY <1>4, <1>6, <1>7, <1>8, <1>9, <2>1
<1>11. Prefix(s, t)
  <2>1. Len(s) <= Len(sg) /\ Len(sg) <= Len(t) /\ Len(sg) \in Nat /\ Len(p) \in Nat
    <3>1. Len(sg) \in Nat /\ Len(p) \in Nat
      BY <1>6, <1>8
    <3>2. Len(s) <= Len(sg)
      BY <1>4, <1>7, <1>8
    <3>3. Len(sg) <= Len(t)
      BY <1>9, <3>1
    <3> QED
      BY <3>1, <3>2, <3>3
  <2>2. \A i \in 1..Len(s) : i \in 1..Len(sg)
    BY <1>7, <2>1
  <2>3. Len(s) <= Len(t)
    <3>1. Len(t) \in Nat
      BY <1>9
    <3> QED
      BY <1>7, <2>1, <3>1
  <2> QED
    BY <1>8, <1>9, <2>2, <2>3 DEF Prefix
<1>12. \A i \in 1..Len(g) : t[Len(s) + i] = g[i]
  <2>1. ASSUME NEW i \in 1..Len(g)
        PROVE  t[Len(s) + i] = g[i]
    <3> DEFINE a == Len(s)
               b == Len(g)
    <3>1. a \in Nat /\ b \in Nat /\ i \in 1..b /\ Len(sg) = a + b
      BY <1>4, <1>7, <1>8
    <3> HIDE DEF a, b
    <3>2. a + i \in 1..Len(sg)
      BY <3>1
    <3>3. t[a + i] = sg[a + i]
      BY <1>9, <3>2
    <3>4. sg[a + i] = g[i]
      BY <1>8 DEF a
    <3> QED
      BY <3>3, <3>4 DEF a
  <2> QED
    BY <2>1
<1>13. IsPart(t, NextAt(stream, k), body)
  <2>1. \A i \in 1..Len(p) : t[NextAt(stream, k) + i] = p[i]
    BY <1>7, <1>8, <1>9
  <2>2. NextAt(stream, k) \in Nat
    BY <1>4, <1>7
  <2> QED
    BY <1>3, <1>6, <2>1, <2>2, IsPartMoves
<1>14. NextAt(stream, k) \in Nat /\ Ends(stream, k) \in Nat
  BY <1>4, <1>7
<1>15. Ends(stream, k + 1) = Len(t)
  BY <1>5 DEF Ends
<1> QED
  BY <1>3, <1>5, <1>7, <1>9, <1>10, <1>11, <1>12, <1>13, <1>14, <1>15 DEF s, g, body

\* A part of a beginning is a part of the whole.
LEMMA IsPartStays ==
    ASSUME NEW t, NEW w, NEW at \in Nat, NEW body \in Seq(Nat), IsPart(t, at, body), Prefix(t, w),
           Len(t) = at + 11 + Len(body)
    PROVE  IsPart(w, at, body)
<1> DEFINE n == Len(body)
<1>1. n \in Nat
  OBVIOUS
<1>2. \A i \in 1..at + 11 + n : w[i] = t[i]
  BY DEF Prefix
<1>3. /\ t[at + 1] = 45 /\ t[at + 2] = 45 /\ t[at + 3] = 120 /\ t[at + 4] = 13 /\ t[at + 5] = 10
      /\ t[at + 6] = 61 /\ t[at + 7] = 256 + n /\ t[at + 8] = 13 /\ t[at + 9] = 10
      /\ t[at + 10] = 13 /\ t[at + 11] = 10 /\ \A i \in 1..n : t[at + 11 + i] = body[i]
  BY DEF IsPart
<1> HIDE DEF n
<1>4. \A i \in 1..11 + n : at + i \in 1..at + 11 + n
  BY <1>1
<1>5. /\ w[at + 1] = t[at + 1] /\ w[at + 2] = t[at + 2] /\ w[at + 3] = t[at + 3]
      /\ w[at + 4] = t[at + 4] /\ w[at + 5] = t[at + 5] /\ w[at + 6] = t[at + 6]
  <2>1. 1 \in 1..11 + n /\ 2 \in 1..11 + n /\ 3 \in 1..11 + n /\ 4 \in 1..11 + n
        /\ 5 \in 1..11 + n /\ 6 \in 1..11 + n
    BY <1>1
  <2> QED
    BY <1>2, <1>4, <2>1
<1>6. /\ w[at + 7] = t[at + 7] /\ w[at + 8] = t[at + 8] /\ w[at + 9] = t[at + 9]
      /\ w[at + 10] = t[at + 10] /\ w[at + 11] = t[at + 11]
  <2>1. 7 \in 1..11 + n /\ 8 \in 1..11 + n /\ 9 \in 1..11 + n /\ 10 \in 1..11 + n
        /\ 11 \in 1..11 + n
    BY <1>1
  <2> QED
    BY <1>2, <1>4, <2>1
<1>7. \A i \in 1..n : w[at + 11 + i] = body[i]
  <2>1. ASSUME NEW i \in 1..n
        PROVE  w[at + 11 + i] = body[i]
    <3>1. at + 11 + i \in 1..at + 11 + n
      BY <1>1
    <3> QED
      BY <1>2, <1>3, <3>1
  <2> QED
    BY <2>1
<1>8. /\ w[at + 1] = 45 /\ w[at + 2] = 45 /\ w[at + 3] = 120 /\ w[at + 4] = 13 /\ w[at + 5] = 10
      /\ w[at + 6] = 61 /\ w[at + 7] = 256 + n /\ w[at + 8] = 13 /\ w[at + 9] = 10
      /\ w[at + 10] = 13 /\ w[at + 11] = 10
  BY <1>3, <1>5, <1>6
<1> QED
  BY <1>7, <1>8 DEF IsPart, n

\* The parts sent before are a beginning of all that is sent.
LEMMA SentIsPrefix ==
    ASSUME NEW stream, IsStream(stream)
    PROVE  \A k \in 0..Len(stream.parts) :
             /\ Sent(stream)[k] \in Seq(Nat)
             /\ Prefix(Sent(stream)[k], Sent(stream)[Len(stream.parts)])
<1> DEFINE m == Len(stream.parts)
           s == Sent(stream)
           Upto(n) == s[n] \in Seq(Nat) /\ \A k \in 0..n : s[k] \in Seq(Nat) /\ Prefix(s[k], s[n])
           S == {n \in Nat : n <= m => Upto(n)}
<1>1. m \in Nat
  BY DEF IsStream
<1>2. s[0] = <<>>
  BY <1>1, SentGrows
<1>3. \A n \in 0..m - 1 : s[n] \in Seq(Nat) => s[n + 1] \in Seq(Nat) /\ Prefix(s[n], s[n + 1])
  BY SentStep
<1> HIDE DEF m, s
<1>4. Upto(0)
  <2>1. \A k \in 0..0 : k = 0
    OBVIOUS
  <2>2. s[0] \in Seq(Nat) /\ Len(s[0]) = 0
    BY <1>2
  <2>3. Prefix(s[0], s[0])
    BY <2>2 DEF Prefix
  <2> QED
    BY <2>1, <2>2, <2>3
<1>5. ASSUME NEW n \in 0..m - 1, Upto(n)
      PROVE  Upto(n + 1)
  <2>1. s[n] \in Seq(Nat) /\ s[n + 1] \in Seq(Nat) /\ Prefix(s[n], s[n + 1])
    BY <1>3, <1>5
  <2>2. ASSUME NEW k \in 0..n + 1
        PROVE  s[k] \in Seq(Nat) /\ Prefix(s[k], s[n + 1])
    <3>1. CASE k \in 0..n
      <4>1. s[k] \in Seq(Nat) /\ Prefix(s[k], s[n])
        BY <1>5, <3>1
      <4>2. Len(s[k]) \in Nat /\ Len(s[n]) \in Nat /\ Len(s[n + 1]) \in Nat
        BY <2>1, <4>1
      <4> QED
        BY <2>1, <4>1, <4>2, PrefixTransitive
    <3>2. CASE k = n + 1
      <4>1. Len(s[n + 1]) \in Nat
        BY <2>1
      <4>2. Prefix(s[n + 1], s[n + 1])
        BY <4>1 DEF Prefix
      <4> QED
        BY <2>1, <3>2, <4>2
    <3> QED
      BY <1>1, <3>1, <3>2
  <2> QED
    BY <2>1, <2>2
<1> HIDE DEF Upto
<1>6. Nat \subseteq S
  <2>1. 0 \in S
    BY <1>4
  <2>2. ASSUME NEW n \in Nat, n \in S
        PROVE  n + 1 \in S
    <3>1. n + 1 <= m => n \in 0..m - 1 /\ n <= m
      BY <1>1
    <3> QED
      BY <1>5, <2>2, <3>1
  <2> HIDE DEF S
  <2> QED
    BY <2>1, <2>2, Induction
<1>7. Upto(m)
  BY <1>1, <1>6
<1> QED
  BY <1>7 DEF Upto, m, s

\* How the wire is laid out.
WireIsLaid(wire, stream) ==
    LET m == Len(stream.parts)
    IN  /\ wire \in Seq(Nat) /\ m \in Nat /\ Ends(stream, 0) = 0
        /\ \A k \in 0..m :
             /\ Ends(stream, k) \in Nat /\ NextAt(stream, k) \in Nat
             /\ NextAt(stream, k) = Ends(stream, k) + Len(Gap(stream, k))
             /\ \A i \in 1..Len(Gap(stream, k)) : wire[Ends(stream, k) + i] = Gap(stream, k)[i]
        /\ \A k \in 0..m - 1 :
             /\ stream.parts[k + 1] \in Seq(Nat)
             /\ Ends(stream, k + 1) = NextAt(stream, k) + 11 + Len(stream.parts[k + 1])
             /\ Ends(stream, k + 1) <= Len(wire)
             /\ IsPart(wire, NextAt(stream, k), stream.parts[k + 1])
        /\ Len(wire) = NextAt(stream, m) + Len(stream.after)
        /\ \A i \in 1..Len(stream.after) : wire[NextAt(stream, m) + i] = stream.after[i]

\* The wire of every stream is laid out so.
LEMMA WireLaid ==
    ASSUME NEW stream, IsStream(stream)
    PROVE  WireIsLaid(Wire(stream), stream)
<1> DEFINE m == Len(stream.parts)
           s == Sent(stream)[m]
           g == Gap(stream, m)
           a == stream.after
           sg == s \o g
           w == sg \o a
<1>1. m \in Nat /\ a \in Seq(Nat)
  BY DEF IsStream
<1>2. \A k \in 0..m : Sent(stream)[k] \in Seq(Nat) /\ Prefix(Sent(stream)[k], s)
  BY SentIsPrefix
<1>3. m \in 0..m
  BY <1>1
<1>4. s \in Seq(Nat) /\ Len(s) \in Nat
  BY <1>2, <1>3
<1>5. g \in Seq(Nat) /\ Len(g) \in Nat
  BY <1>1, GapIsShort
<1>6. Wire(stream) = w
  BY DEF Wire
<1>7. Len(s) = Ends(stream, m) /\ NextAt(stream, m) = Len(s) + Len(g)
  BY DEF Ends, NextAt
<1>8. Ends(stream, 0) = 0
  <2>1. Sent(stream)[0] = <<>>
    BY <1>1, SentGrows
  <2> HIDE DEF m, s, g, a, sg, w
  <2> QED
    BY <2>1 DEF Ends
<1>9. \A k \in 0..m : /\ Ends(stream, k) \in Nat /\ NextAt(stream, k) \in Nat
                      /\ NextAt(stream, k) = Ends(stream, k) + Len(Gap(stream, k))
  <2>1. ASSUME NEW k \in 0..m
        PROVE  /\ Ends(stream, k) \in Nat /\ NextAt(stream, k) \in Nat
               /\ NextAt(stream, k) = Ends(stream, k) + Len(Gap(stream, k))
    <3>1. Len(Gap(stream, k)) \in Nat
      BY GapIsShort
    <3>2. Ends(stream, k) \in Nat
      BY <1>2 DEF Ends
    <3> QED
      BY <3>1, <3>2 DEF NextAt
  <2> QED
    BY <2>1
<1> HIDE DEF s, g, a
<1>10. /\ sg \in Seq(Nat) /\ Len(sg) = Len(s) + Len(g)
       /\ \A i \in 1..Len(s) : sg[i] = s[i]
       /\ \A i \in 1..Len(g) : sg[Len(s) + i] = g[i]
  <2>1. s \in Seq(Nat) /\ g \in Seq(Nat)
    BY <1>4, <1>5
  <2> QED
    BY <2>1, Concatenated
<1> HIDE DEF sg
<1>11. /\ w \in Seq(Nat) /\ Len(w) = Len(sg) + Len(a)
       /\ \A i \in 1..Len(sg) : w[i] = sg[i]
       /\ \A i \in 1..Len(a) : w[Len(sg) + i] = a[i]
  <2>1. sg \in Seq(Nat) /\ a \in Seq(Nat)
    BY <1>1, <1>10
  <2> QED
    BY <2>1, Concatenated
<1> HIDE DEF w
<1>12. Len(sg) \in Nat /\ Len(a) \in Nat /\ Len(w) \in Nat /\ Len(s) <= Len(w)
  <2>1. Len(sg) \in Nat /\ Len(a) \in Nat
    BY <1>1, <1>10
  <2> QED
    BY <1>4, <1>5, <1>10, <1>11, <2>1
<1>13. Prefix(s, w)
  <2>1. \A i \in 1..Len(s) : i \in 1..Len(sg)
    BY <1>4, <1>5, <1>10
  <2> QED
    BY <1>10, <1>11, <1>12, <2>1 DEF Prefix
<1>14. ASSUME NEW k \in 0..m
       PROVE  Prefix(Sent(stream)[k], w)
  <2>1. Len(Sent(stream)[k]) \in Nat /\ Prefix(Sent(stream)[k], s)
    BY <1>2
  <2> QED
    BY <1>4, <1>12, <1>13, <2>1, PrefixTransitive
<1>15. ASSUME NEW k \in 0..m - 1
       PROVE  /\ stream.parts[k + 1] \in Seq(Nat)
              /\ Ends(stream, k + 1) = NextAt(stream, k) + 11 + Len(stream.parts[k + 1])
              /\ Ends(stream, k + 1) <= Len(w)
              /\ IsPart(w, NextAt(stream, k), stream.parts[k + 1])
              /\ \A i \in 1..Len(Gap(stream, k)) : w[Ends(stream, k) + i] = Gap(stream, k)[i]
  <2> DEFINE t == Sent(stream)[k + 1]
             body == stream.parts[k + 1]
             e == Ends(stream, k)
             x == NextAt(stream, k)
             gap == Gap(stream, k)
  <2>1. k \in 0..m /\ k + 1 \in 0..m
    BY <1>1
  <2>2. /\ body \in Seq(Nat) /\ t \in Seq(Nat) /\ e \in Nat /\ x \in Nat
        /\ Ends(stream, k + 1) = x + 11 + Len(body)
        /\ \A i \in 1..Len(gap) : t[e + i] = gap[i]
        /\ IsPart(t, x, body)
    BY <1>2, <2>1, SentStep DEF m
  <2>3. Prefix(t, w)
    BY <1>14, <2>1
  <2>4. Len(t) = Ends(stream, k + 1)
    BY DEF Ends
  <2>5. x = e + Len(gap) /\ Len(gap) \in Nat
    <3>1. Len(gap) \in Nat
      BY GapIsShort
    <3> QED
      BY <1>9, <2>1, <3>1
  <2> HIDE DEF t, body, e, x, gap
  <2>6. IsPart(w, x, body)
    BY <2>2, <2>3, <2>4, IsPartStays
  <2>7. Len(t) <= Len(w) /\ \A i \in 1..Len(t) : w[i] = t[i]
    BY <2>3 DEF Prefix
  <2>8. \A i \in 1..Len(gap) : w[e + i] = gap[i]
    <3>1. ASSUME NEW i \in 1..Len(gap)
          PROVE  w[e + i] = gap[i]
      <4>1. Len(body) \in Nat
        BY <2>2
      <4>2. e + i \in 1..Len(t)
        BY <2>2, <2>4, <2>5, <4>1
      <4> QED
        BY <2>2, <2>7, <4>2
    <3> QED
      BY <3>1
  <2> QED
    BY <2>2, <2>4, <2>6, <2>7, <2>8 DEF body, x, e, gap
<1>16. \A i \in 1..Len(g) : w[Ends(stream, m) + i] = g[i]
  <2>1. ASSUME NEW i \in 1..Len(g)
        PROVE  w[Len(s) + i] = g[i]
    <3>1. Len(s) + i \in 1..Len(sg)
      BY <1>4, <1>5, <1>10
    <3> QED
      BY <1>10, <1>11, <3>1
  <2> QED
    BY <1>7, <2>1
<1>17. \A k \in 0..m : \A i \in 1..Len(Gap(stream, k)) : w[Ends(stream, k) + i] = Gap(stream, k)[i]
  <2>1. \A k \in 0..m : k \in 0..m - 1 \/ k = m
    BY <1>1
  <2> QED
    BY <1>15, <1>16, <2>1 DEF g
<1>18. Len(w) = NextAt(stream, m) + Len(a) /\ \A i \in 1..Len(a) : w[NextAt(stream, m) + i] = a[i]
  BY <1>7, <1>10, <1>11
<1>19. WireIsLaid(w, stream)
  BY <1>1, <1>8, <1>9, <1>11, <1>15, <1>17, <1>18 DEF WireIsLaid, m, a
<1> QED
  BY <1>6, <1>19

\* A marker, a closing and the end of a head, byte by byte.
MarkerIn(w, p) == w[p + 1] = 45 /\ w[p + 2] = 45 /\ w[p + 3] = 120
ClosingIn(w, p) == w[p + 1] = 45 /\ w[p + 2] = 45
HeadEndIn(w, p) == w[p + 1] = 13 /\ w[p + 2] = 10 /\ w[p + 3] = 13 /\ w[p + 4] = 10

\* They are there in a window when they are there in the wire, and have come.
LEMMA AtLiterals ==
    ASSUME NEW bytes, NEW wire, NEW d, NEW r, Window(bytes, wire, d, r), NEW n \in Nat
    PROVE  /\ At(bytes, n, Marker) <=> d + n + 3 <= r /\ MarkerIn(wire, d + n)
           /\ At(bytes, n, Closing) <=> d + n + 2 <= r /\ ClosingIn(wire, d + n)
           /\ At(bytes, n, HeadEnd) <=> d + n + 4 <= r /\ HeadEndIn(wire, d + n)
<1>1. (\A i \in 1..2 : i = 1 \/ i = 2) /\ (\A i \in 1..3 : i = 1 \/ i = 2 \/ i = 3)
      /\ \A i \in 1..4 : i = 1 \/ i = 2 \/ i = 3 \/ i = 4
  OBVIOUS
<1>5. Len(Marker) \in Nat /\ Len(Closing) \in Nat /\ Len(HeadEnd) \in Nat
  BY Literals
<1>2. At(bytes, n, Marker) <=> d + n + 3 <= r /\ MarkerIn(wire, d + n)
  <2>1. At(bytes, n, Marker) <=>
          d + n + Len(Marker) <= r /\ \A i \in 1..Len(Marker) : wire[d + n + i] = Marker[i]
    BY <1>5, AtWindow
  <2>2. (\A i \in 1..3 : wire[d + n + i] = Marker[i]) <=> MarkerIn(wire, d + n)
    BY <1>1, Literals DEF MarkerIn
  <2> QED
    BY <2>1, <2>2, Literals
<1>3. At(bytes, n, Closing) <=> d + n + 2 <= r /\ ClosingIn(wire, d + n)
  <2>1. At(bytes, n, Closing) <=>
          d + n + Len(Closing) <= r /\ \A i \in 1..Len(Closing) : wire[d + n + i] = Closing[i]
    BY <1>5, AtWindow
  <2>2. (\A i \in 1..2 : wire[d + n + i] = Closing[i]) <=> ClosingIn(wire, d + n)
    BY <1>1, Literals DEF ClosingIn
  <2> QED
    BY <2>1, <2>2, Literals
<1>4. At(bytes, n, HeadEnd) <=> d + n + 4 <= r /\ HeadEndIn(wire, d + n)
  <2>1. At(bytes, n, HeadEnd) <=>
          d + n + Len(HeadEnd) <= r /\ \A i \in 1..Len(HeadEnd) : wire[d + n + i] = HeadEnd[i]
    BY <1>5, AtWindow
  <2>2. (\A i \in 1..4 : wire[d + n + i] = HeadEnd[i]) <=> HeadEndIn(wire, d + n)
    BY <1>1, Literals DEF HeadEndIn
  <2> QED
    BY <2>1, <2>2, Literals
<1> QED
  BY <1>2, <1>3, <1>4

\* A sequence, seen as a window of itself.
LEMMA WholeWindow ==
    ASSUME NEW s \in Seq(Nat)
    PROVE  Window(s, s, 0, Len(s))
BY DEF Window

\* Behind every part comes a marker.
LEMMA MarkersAreThere ==
    ASSUME NEW stream, IsStream(stream), NEW wire, WireIsLaid(wire, stream),
           NEW k \in 0..Len(stream.parts)
    PROVE  MarkerIn(wire, NextAt(stream, k)) /\ NextAt(stream, k) + 3 <= Len(wire)
<1> DEFINE m == Len(stream.parts)
           x == NextAt(stream, k)
<1>1. m \in Nat /\ x \in Nat /\ Len(wire) \in Nat
  BY DEF WireIsLaid
<1>2. CASE k \in 0..m - 1
  <2>1. /\ IsPart(wire, x, stream.parts[k + 1]) /\ Len(stream.parts[k + 1]) \in Nat
        /\ x + 11 + Len(stream.parts[k + 1]) <= Len(wire)
    <3>1. stream.parts[k + 1] \in Seq(Nat) /\ IsPart(wire, x, stream.parts[k + 1])
          /\ x + 11 + Len(stream.parts[k + 1]) <= Len(wire)
      BY <1>2 DEF WireIsLaid
    <3> QED
      BY <3>1
  <2>2. MarkerIn(wire, x)
    BY <2>1 DEF IsPart, MarkerIn
  <2>3. x + 3 <= Len(wire)
    <3> DEFINE n == Len(stream.parts[k + 1])
    <3>1. n \in Nat /\ x + 11 + n <= Len(wire)
      BY <2>1
    <3> HIDE DEF n, x
    <3> QED
      BY <1>1, <3>1
  <2> QED
    BY <2>2, <2>3
<1>3. CASE k = m
  <2> DEFINE a == stream.after
  <2>1. a \in Seq(Nat) /\ At(a, 0, Marker)
    BY DEF IsStream
  <2>2. Len(wire) = x + Len(a) /\ \A i \in 1..Len(a) : wire[x + i] = a[i]
    BY <1>3 DEF WireIsLaid
  <2> HIDE DEF a, x
  <2>3. 0 + 0 + 3 <= Len(a) /\ MarkerIn(a, 0 + 0)
    BY <2>1, WholeWindow, AtLiterals
  <2>4. a[1] = 45 /\ a[2] = 45 /\ a[3] = 120 /\ 1 \in 1..Len(a) /\ 2 \in 1..Len(a) /\ 3 \in 1..Len(a)
    <3>1. Len(a) \in Nat
      BY <2>1
    <3> QED
      BY <2>3, <3>1 DEF MarkerIn
  <2>5. MarkerIn(wire, x)
    BY <2>2, <2>4 DEF MarkerIn
  <2> QED
    BY <1>1, <2>1, <2>2, <2>3, <2>5 DEF x
<1> QED
  BY <1>1, <1>2, <1>3

\* And none begins before it: the frames are skipped by length, and do not count.
LEMMA NoMarkerInGap ==
    ASSUME NEW stream, IsStream(stream), NEW wire, WireIsLaid(wire, stream),
           NEW k \in 0..Len(stream.parts),
           NEW p \in Nat, Ends(stream, k) <= p, p < NextAt(stream, k)
    PROVE  ~ MarkerIn(wire, p)
<1> DEFINE g == Gap(stream, k)
           e == Ends(stream, k)
           x == NextAt(stream, k)
<1>1. Len(stream.parts) \in Nat /\ k \in Nat
  BY DEF WireIsLaid
<1>2. g \in Seq(Nat) /\ Len(g) \in Nat
  BY <1>1, GapIsShort
<1>3. e \in Nat /\ x \in Nat /\ x = e + Len(g) /\ \A i \in 1..Len(g) : wire[e + i] = g[i]
  BY DEF WireIsLaid
<1>4. CASE k = 0
  <2> DEFINE b == stream.before
             bm == b \o Marker
  <2>1. b \in Seq(Nat) /\ g = b /\ \A n \in 0..(Len(b) - 1) : ~ At(bm, n, Marker)
    BY <1>4 DEF IsStream, Gap
  <2>2. e = 0
    BY <1>4 DEF WireIsLaid
  <2> HIDE DEF b, g, e, x
  <2>3. /\ bm \in Seq(Nat) /\ Len(bm) = Len(b) + 3
        /\ \A i \in 1..Len(b) : bm[i] = b[i]
        /\ \A i \in 1..3 : bm[Len(b) + i] = Marker[i]
    <3>1. Marker \in Seq(Nat) /\ Len(Marker) = 3
      BY Literals
    <3>2. /\ bm \in Seq(Nat) /\ Len(bm) = Len(b) + Len(Marker)
          /\ \A i \in 1..Len(b) : bm[i] = b[i]
          /\ \A i \in 1..Len(Marker) : bm[Len(b) + i] = Marker[i]
      <4>1. b \in Seq(Nat) /\ Marker \in Seq(Nat)
        BY <2>1, <3>1
      <4> QED
        BY <4>1, Concatenated
    <3> HIDE DEF bm
    <3> QED
      BY <3>1, <3>2
  <2>4. ~ At(bm, p, Marker)
    BY <1>2, <1>3, <2>1, <2>2 DEF e, x
  <2> HIDE DEF bm
  <2>5. Len(b) \in Nat /\ x = Len(b)
    <3>1. Len(b) \in Nat
      BY <2>1
    <3> QED
      BY <1>2, <1>3, <2>1, <2>2, <3>1
  <2>6. ~ MarkerIn(bm, p)
    <3>1. Window(bm, bm, 0, Len(bm))
      BY <2>3, WholeWindow
    <3>2. 0 + p + 3 <= Len(bm) /\ 0 + p = p
      BY <2>3, <2>5 DEF x
    <3> QED
      BY <2>4, <3>1, <3>2, AtLiterals
  <2>7. \A i \in 1..Len(b) + 3 : wire[i] = bm[i]
    <3>1. MarkerIn(wire, x)
      BY MarkersAreThere DEF x
    <3>2. \A i \in 1..Len(b) : wire[i] = b[i]
      BY <1>3, <2>1, <2>2
    <3>3. \A i \in 1..3 : wire[Len(b) + i] = Marker[i]
      <4>1. \A i \in 1..3 : i = 1 \/ i = 2 \/ i = 3
        OBVIOUS
      <4>2. wire[x + 1] = Marker[1] /\ wire[x + 2] = Marker[2] /\ wire[x + 3] = Marker[3]
        BY <3>1, Literals DEF MarkerIn
      <4> QED
        BY <2>5, <4>1, <4>2
    <3>4. ASSUME NEW i \in 1..Len(b) + 3
          PROVE  wire[i] = bm[i]
      <4>1. CASE i \in 1..Len(b)
        BY <2>3, <3>2, <4>1
      <4>2. CASE i \notin 1..Len(b)
        <5> DEFINE j == i - Len(b)
        <5>1. j \in 1..3 /\ Len(b) + j = i
          BY <2>5, <4>2
        <5> HIDE DEF j
        <5> QED
          BY <2>3, <3>3, <5>1
      <4> QED
        BY <4>1, <4>2
    <3> QED
      BY <3>4
  <2>8. p + 1 \in 1..Len(b) + 3 /\ p + 2 \in 1..Len(b) + 3 /\ p + 3 \in 1..Len(b) + 3
    BY <2>5 DEF x
  <2> QED
    BY <2>6, <2>7, <2>8 DEF MarkerIn
<1>5. CASE k # 0
  <2>1. g = <<13, 10>>
    BY <1>5 DEF Gap, CR, LF
  <2>2. Len(g) = 2 /\ g[1] = 13 /\ g[2] = 10
    BY <2>1
  <2> HIDE DEF g, e, x
  <2>3. wire[e + 1] = 13 /\ wire[e + 2] = 10
    BY <1>3, <2>2
  <2>4. p = e \/ p = e + 1
    BY <1>3, <2>2 DEF e, x
  <2>5. p + 1 = e + 1 \/ p + 1 = e + 2
    BY <1>3, <2>4
  <2> QED
    BY <2>3, <2>5 DEF MarkerIn
<1> QED
  BY <1>4, <1>5

\* A window that begins behind part k and not behind the next marker.
Before(bytes, wire, stream, k, d, r) ==
    /\ WireIsLaid(wire, stream) /\ IsStream(stream) /\ k \in 0..Len(stream.parts)
    /\ Window(bytes, wire, d, r) /\ Ends(stream, k) <= d /\ d <= NextAt(stream, k)

\* The numbers it is about.
LEMMA Numbers ==
    ASSUME NEW bytes, NEW wire, NEW stream, NEW k, NEW d, NEW r, Before(bytes, wire, stream, k, d, r)
    PROVE  /\ d \in Nat /\ r \in Nat /\ d <= r /\ Len(bytes) = r - d /\ Len(bytes) \in Nat
           /\ Ends(stream, k) \in Nat /\ NextAt(stream, k) \in Nat
           /\ Ends(stream, k) <= d /\ d <= NextAt(stream, k)
<1>1. d \in Nat /\ r \in Nat /\ d <= r /\ Len(bytes) = r - d
  BY DEF Before, Window
<1>2. Ends(stream, k) \in Nat /\ NextAt(stream, k) \in Nat
  BY DEF Before, WireIsLaid
<1> QED
  BY <1>1, <1>2 DEF Before

\* What is kept without a marker is the end of the window.
LEMMA KeptWindow ==
    ASSUME NEW bytes, NEW wire, NEW d, NEW r, Window(bytes, wire, d, r)
    PROVE  \E n \in Nat : /\ Window(Kept(bytes), wire, n, r) /\ d <= n
                          /\ n = d \/ n = r - 3
<1>1. d \in Nat /\ r \in Nat /\ d <= r /\ Len(bytes) = r - d
  BY DEF Window
<1>2. Kept(bytes) = IF r - d <= 3 THEN bytes ELSE Drop(bytes, r - d - 3)
  BY <1>1, Literals DEF Kept
<1>3. CASE r - d <= 3
  BY <1>1, <1>2, <1>3
<1>4. CASE ~(r - d <= 3)
  <2> DEFINE n == r - d - 3
  <2>1. n \in Nat /\ d + n <= r /\ d + n = r - 3 /\ d <= r - 3 /\ r - 3 \in Nat
    BY <1>1, <1>4
  <2> HIDE DEF n
  <2>2. Window(Drop(bytes, n), wire, d + n, r)
    BY <2>1, DropWindow
  <2>3. Kept(bytes) = Drop(bytes, n)
    BY <1>2, <1>4 DEF n
  <2> QED
    BY <2>1, <2>2, <2>3
<1> QED
  BY <1>3, <1>4

\* _take(), when the next marker has not come: something is kept, the marker's beginning with it.
LEMMA TakeTooEarly ==
    ASSUME NEW bytes, NEW wire, NEW stream, NEW k, NEW d, NEW r,
           Before(bytes, wire, stream, k, d, r), r < NextAt(stream, k) + 3
    PROVE  /\ Take(bytes) = Waits(Kept(bytes))
           /\ \E n \in Nat : Before(Kept(bytes), wire, stream, k, n, r)
<1> DEFINE x == NextAt(stream, k)
           e == Ends(stream, k)
<1>1. /\ d \in Nat /\ r \in Nat /\ d <= r /\ Len(bytes) \in Nat /\ e \in Nat /\ x \in Nat
      /\ e <= d /\ d <= x
  BY Numbers
<1>2. ASSUME NEW n \in Nat, At(bytes, n, Marker)
      PROVE  FALSE
  <2>1. d + n + 3 <= r /\ MarkerIn(wire, d + n)
    BY <1>2, AtLiterals DEF Before
  <2>2. d + n \in Nat /\ e <= d + n /\ d + n < x
    BY <1>1, <2>1
  <2> QED
    BY <2>1, <2>2, NoMarkerInGap DEF Before
<1>3. Find(bytes, Marker, 0) = -1
  BY <1>1, <1>2, FindsNone
<1>4. Take(bytes) = Waits(Kept(bytes))
  BY <1>3 DEF Take
<1>5. PICK n \in Nat : Window(Kept(bytes), wire, n, r) /\ d <= n /\ (n = d \/ n = r - 3)
  BY KeptWindow DEF Before
<1>6. e <= n /\ n <= x
  BY <1>1, <1>5
<1> QED
  BY <1>4, <1>5, <1>6 DEF Before

\* When it has, what is before it is dropped.
LEMMA TakeAtMarker ==
    ASSUME NEW bytes, NEW wire, NEW stream, NEW k, NEW d, NEW r,
           Before(bytes, wire, stream, k, d, r), NextAt(stream, k) + 3 <= r
    PROVE  \E rest : Window(rest, wire, NextAt(stream, k), r) /\ Take(bytes) = TakeFrom(rest)
<1> DEFINE x == NextAt(stream, k)
           e == Ends(stream, k)
           n == x - d
<1>1. /\ d \in Nat /\ r \in Nat /\ d <= r /\ Len(bytes) \in Nat /\ e \in Nat /\ x \in Nat
      /\ e <= d /\ d <= x
  BY Numbers
<1>2. n \in Nat /\ d + n = x
  BY <1>1
<1> HIDE DEF n
<1>3. At(bytes, n, Marker)
  <2>1. MarkerIn(wire, x)
    BY MarkersAreThere DEF Before
  <2> QED
    BY <1>2, <2>1, AtLiterals DEF Before
<1>4. ASSUME NEW i \in Nat, 0 <= i, i < n, At(bytes, i, Marker)
      PROVE  FALSE
  <2>1. MarkerIn(wire, d + i)
    BY <1>4, AtLiterals DEF Before
  <2>2. d + i \in Nat /\ e <= d + i /\ d + i < x
    BY <1>1, <1>2, <1>4
  <2> QED
    BY <2>1, <2>2, NoMarkerInGap DEF Before
<1>5. Find(bytes, Marker, 0) = n
  <2>1. Len(Marker) \in Nat /\ 0 <= n
    BY <1>2, Literals
  <2> QED
    BY <1>1, <1>2, <1>3, <1>4, <2>1, FindsIt
<1>6. Take(bytes) = TakeFrom(Drop(bytes, n))
  BY <1>2, <1>5 DEF Take
<1>7. Window(Drop(bytes, n), wire, x, r)
  <2>1. d + n <= r
    BY <1>1, <1>2
  <2> QED
    BY <1>2, <2>1, DropWindow DEF Before
<1> QED
  BY <1>6, <1>7

\* The head of a part ends where it was written, whatever its body looks like.
LEMMA HeadOfPart ==
    ASSUME NEW bytes, NEW wire, NEW x, NEW r, Window(bytes, wire, x, r),
           NEW body, IsPart(wire, x, body), Len(body) \in Nat
    PROVE  /\ ~ At(bytes, 3, Closing)
           /\ r < x + 11 => Find(bytes, HeadEnd, 3) = -1
           /\ x + 11 <= r => Find(bytes, HeadEnd, 3) = 7
<1>1. /\ wire[x + 4] = 13 /\ wire[x + 5] = 10 /\ wire[x + 6] = 61 /\ wire[x + 7] = 256 + Len(body)
      /\ wire[x + 8] = 13 /\ wire[x + 9] = 10 /\ wire[x + 10] = 13 /\ wire[x + 11] = 10
  BY DEF IsPart
<1>2. x \in Nat /\ r \in Nat /\ x <= r /\ Len(bytes) \in Nat
  BY DEF Window
<1>3. ~ At(bytes, 3, Closing)
  <2>1. ~ ClosingIn(wire, x + 3)
    <3>1. (x + 3) + 1 = x + 4
      BY <1>2
    <3> QED
      BY <1>1, <3>1 DEF ClosingIn
  <2> QED
    BY <2>1, AtLiterals
<1>4. ASSUME NEW n \in Nat, 3 <= n, n < 7
      PROVE  ~ At(bytes, n, HeadEnd)
  <2>1. n = 3 \/ n = 4 \/ n = 5 \/ n = 6
    BY <1>4
  <2>2. CASE n = 3
    <3>1. (x + 3) + 3 = x + 6
      BY <1>2
    <3>2. ~ HeadEndIn(wire, x + 3)
      BY <1>1, <3>1 DEF HeadEndIn
    <3> QED
      BY <2>2, <3>2, AtLiterals
  <2>3. CASE n = 4
    <3>1. (x + 4) + 1 = x + 5
      BY <1>2
    <3>2. ~ HeadEndIn(wire, x + 4)
      BY <1>1, <3>1 DEF HeadEndIn
    <3> QED
      BY <2>3, <3>2, AtLiterals
  <2>4. CASE n = 5
    <3>1. (x + 5) + 1 = x + 6
      BY <1>2
    <3>2. ~ HeadEndIn(wire, x + 5)
      BY <1>1, <3>1 DEF HeadEndIn
    <3> QED
      BY <2>4, <3>2, AtLiterals
  <2>5. CASE n = 6
    <3>1. (x + 6) + 1 = x + 7 /\ 256 + Len(body) # 13
      BY <1>2
    <3>2. ~ HeadEndIn(wire, x + 6)
      BY <1>1, <3>1 DEF HeadEndIn
    <3> QED
      BY <2>5, <3>2, AtLiterals
  <2> QED
    BY <2>1, <2>2, <2>3, <2>4, <2>5
<1>5. ASSUME r < x + 11
      PROVE  Find(bytes, HeadEnd, 3) = -1
  <2>1. ASSUME NEW n \in Nat, 3 <= n, At(bytes, n, HeadEnd)
        PROVE  FALSE
    <3>1. x + n + 4 <= r
      BY <2>1, AtLiterals
    <3>2. n < 7
      BY <1>2, <1>5, <3>1
    <3> QED
      BY <1>4, <2>1, <3>2
  <2> QED
    BY <1>2, <2>1, FindsNone
<1>6. ASSUME x + 11 <= r
      PROVE  Find(bytes, HeadEnd, 3) = 7
  <2>1. At(bytes, 7, HeadEnd)
    <3>1. (x + 7) + 1 = x + 8 /\ (x + 7) + 2 = x + 9 /\ (x + 7) + 3 = x + 10 /\ (x + 7) + 4 = x + 11
      BY <1>2
    <3>2. HeadEndIn(wire, x + 7)
      BY <1>1, <3>1 DEF HeadEndIn
    <3>3. x + 7 + 4 <= r
      BY <1>2, <1>6
    <3> QED
      BY <3>2, <3>3, AtLiterals
  <2>2. Len(HeadEnd) \in Nat
    BY Literals
  <2> QED
    BY <1>2, <1>4, <2>1, <2>2, FindsIt
<1> QED
  BY <1>3, <1>5, <1>6

\* Its only length is the body's.
LEMMA LengthOfPart ==
    ASSUME NEW bytes, NEW wire, NEW x, NEW r, Window(bytes, wire, x, r), x + 11 <= r,
           NEW body, IsPart(wire, x, body), Len(body) \in Nat
    PROVE  Lengths(SubSeq(bytes, 4, 7)) = {Len(body)}
<1> DEFINE head == SubSeq(bytes, 4, 7)
           n == Len(body)
           big == 256 + n
<1>1. x \in Nat /\ r \in Nat /\ bytes \in Seq(Nat) /\ Len(bytes) = r - x
      /\ \A i \in 1..r - x : bytes[i] = wire[x + i]
  BY DEF Window
<1>2. wire[x + 4] = 13 /\ wire[x + 5] = 10 /\ wire[x + 6] = 61 /\ wire[x + 7] = big
  BY DEF IsPart
<1>3. n \in Nat
  OBVIOUS
<1> HIDE DEF n
<1>4. big \in Nat /\ big >= 256 /\ big - 256 = n
  BY <1>3
<1> HIDE DEF big
<1>5. bytes[4] = 13 /\ bytes[5] = 10 /\ bytes[6] = 61 /\ bytes[7] = big
  <2>1. 4 \in 1..r - x /\ 5 \in 1..r - x /\ 6 \in 1..r - x /\ 7 \in 1..r - x
    BY <1>1
  <2> QED
    BY <1>1, <1>2, <2>1
<1>6. Len(head) = 4 /\ head[1] = 13 /\ head[2] = 10 /\ head[3] = 61 /\ head[4] = big
  <2>1. 4 \in 1..Len(bytes) + 1 /\ 7 \in 3..Len(bytes)
    BY <1>1
  <2>2. Len(head) = 4 /\ \A i \in 1..4 : head[i] = bytes[3 + i]
    BY <1>1, <2>1
  <2> HIDE DEF head
  <2>3. head[1] = bytes[3 + 1] /\ head[2] = bytes[3 + 2] /\ head[3] = bytes[3 + 3] /\ head[4] = bytes[3 + 4]
    BY <2>2
  <2> QED
    BY <1>5, <2>2, <2>3
<1> HIDE DEF head
<1>7. {i \in 1..(Len(head) - 1) : head[i] = Equals /\ head[i + 1] >= Digits(0)} = {3}
  <2>1. Len(head) - 1 = 3 /\ \A i \in 1..3 : i = 1 \/ i = 2 \/ i = 3
    BY <1>6
  <2>2. Equals = 61 /\ Digits(0) = 256 /\ 3 + 1 = 4
    BY DEF Equals, Digits
  <2> QED
    BY <1>4, <1>6, <2>1, <2>2
<1>8. Lengths(head) = {head[3 + 1] - Digits(0)}
  BY <1>7 DEF Lengths
<1>9. head[3 + 1] - Digits(0) = n
  <2>1. 3 + 1 = 4 /\ Digits(0) = 256
    BY DEF Digits
  <2> QED
    BY <1>4, <1>6, <2>1
<1> QED
  BY <1>8, <1>9 DEF head, n

\* Which is the greatest.
LEMMA MaxOfOne ==
    ASSUME NEW n \in Nat
    PROVE  Max({n}) = n
<1>1. n \in {n} /\ \A y \in {n} : n >= y
  OBVIOUS
<1>2. \A y \in {n} : y = n
  OBVIOUS
<1> QED
  BY <1>1, <1>2 DEF Max

\* _take(), at the marker of a part.
LEMMA TakeAPart ==
    ASSUME NEW bytes, NEW wire, NEW x, NEW r, Window(bytes, wire, x, r),
           NEW body \in Seq(Nat), IsPart(wire, x, body)
    PROVE  /\ r < x + 11 + Len(body) => TakeFrom(bytes) = Waits(bytes)
           /\ x + 11 + Len(body) <= r =>
                \E rest : /\ Window(rest, wire, x + 11 + Len(body), r)
                          /\ TakeFrom(bytes) = Took(rest, body)
<1> DEFINE n == Len(body)
           headEnd == Find(bytes, HeadEnd, 3)
           head == SubSeq(bytes, 4, headEnd)
           bodyAt == headEnd + 4
           length == Max(Lengths(head))
<1>1. n \in Nat /\ x \in Nat /\ r \in Nat /\ x <= r /\ Len(bytes) = r - x /\ bytes \in Seq(Nat)
  BY DEF Window
<1>2. /\ ~ At(bytes, 3, Closing)
      /\ r < x + 11 => headEnd = -1
      /\ x + 11 <= r => headEnd = 7
  BY HeadOfPart
<1>3. TakeFrom(bytes) =
        IF At(bytes, 3, Closing) THEN Waits(<<>>)
        ELSE IF headEnd < 0 THEN Waits(bytes)
        ELSE IF Lengths(head) = {} THEN Fails(bytes)
        ELSE IF Len(bytes) < bodyAt + length THEN Waits(bytes)
        ELSE Took(Drop(bytes, bodyAt + length), SubSeq(bytes, bodyAt + 1, bodyAt + length))
  <2>1. Len(Marker) = 3 /\ Len(HeadEnd) = 4 /\ 3 + 1 = 4
    BY Literals
  <2> QED
    BY <2>1 DEF TakeFrom
<1>4. CASE r < x + 11
  <2>1. headEnd = -1 /\ ~ At(bytes, 3, Closing)
    BY <1>2, <1>4
  <2> HIDE DEF headEnd, n
  <2>2. TakeFrom(bytes) = Waits(bytes)
    BY <1>3, <2>1
  <2> HIDE DEF head, bodyAt, length
  <2>3. r < x + 11 + n /\ ~(x + 11 + n <= r)
    BY <1>1, <1>4
  <2> QED
    BY <2>2, <2>3 DEF n
<1>5. CASE x + 11 <= r
  <2>1. headEnd = 7 /\ ~ At(bytes, 3, Closing)
    BY <1>2, <1>5
  <2> HIDE DEF headEnd
  <2>2. Lengths(head) = {n}
    BY <1>1, <1>5, <2>1, LengthOfPart
  <2>3. length = n
    BY <1>1, <2>2, MaxOfOne
  <2> HIDE DEF head, length, n
  <2>4. TakeFrom(bytes) =
          IF Len(bytes) < 11 + n THEN Waits(bytes)
          ELSE Took(Drop(bytes, 11 + n), SubSeq(bytes, 11 + 1, 11 + n))
    <3>1. bodyAt = 11 /\ ~(headEnd < 0) /\ Lengths(head) # {}
      BY <2>1, <2>2
    <3> HIDE DEF bodyAt
    <3> QED
      BY <1>3, <2>1, <2>3, <3>1
  <2>5. ASSUME r < x + 11 + n
        PROVE  TakeFrom(bytes) = Waits(bytes)
    <3>1. Len(bytes) < 11 + n
      BY <1>1, <2>5
    <3> QED
      BY <2>4, <3>1
  <2>6. ASSUME x + 11 + n <= r
        PROVE  /\ Window(Drop(bytes, 11 + n), wire, x + 11 + n, r)
               /\ TakeFrom(bytes) = Took(Drop(bytes, 11 + n), body)
    <3>1. 11 + n \in Nat /\ x + (11 + n) <= r /\ x + (11 + n) = x + 11 + n /\ ~(Len(bytes) < 11 + n)
      BY <1>1, <2>6
    <3>2. Window(Drop(bytes, 11 + n), wire, x + 11 + n, r)
      <4>1. Window(Drop(bytes, 11 + n), wire, x + (11 + n), r)
        BY <3>1, DropWindow
      <4> QED
        BY <3>1, <4>1
    <3> DEFINE part == SubSeq(bytes, 11 + 1, 11 + n)
    <3>3. part = body
      <4>1. 12 \in 1..Len(bytes) + 1 /\ 11 + n \in 11..Len(bytes) /\ (11 + n) - 12 + 1 = n
        BY <1>1, <3>1
      <4>2. part \in Seq(Nat) /\ Len(part) = n /\ \A i \in 1..n : part[i] = bytes[11 + i]
        BY <1>1, <4>1
      <4> HIDE DEF part
      <4>3. \A i \in 1..n : bytes[11 + i] = body[i]
        <5>1. ASSUME NEW i \in 1..n
              PROVE  bytes[11 + i] = body[i]
          <6>1. 11 + i \in 1..r - x /\ x + (11 + i) = x + 11 + i
            BY <1>1, <2>6
          <6>2. bytes[11 + i] = wire[x + (11 + i)]
            BY <6>1 DEF Window
          <6>3. wire[x + 11 + i] = body[i]
            BY DEF IsPart, n
          <6> QED
            BY <6>1, <6>2, <6>3
        <5> QED
          BY <5>1
      <4>4. Len(part) = Len(body) /\ \A i \in 1..Len(part) : part[i] = body[i]
        BY <4>2, <4>3 DEF n
      <4> QED
        BY <4>2, <4>4, SeqEqual
    <3> HIDE DEF part
    <3>4. TakeFrom(bytes) = Took(Drop(bytes, 11 + n), body)
      BY <2>4, <3>1, <3>3 DEF part
    <3> QED
      BY <3>2, <3>4
  <2> QED
    BY <2>5, <2>6 DEF n
<1> QED
  BY <1>1, <1>4, <1>5

\* The stream ends with a closing marker.
Closes(stream) == At(stream.after, Len(Marker), Closing)

\* Where the stream's end stands in the wire.
After(wire, x, after) ==
    /\ x \in Nat /\ after \in Seq(Nat) /\ Len(wire) = x + Len(after)
    /\ \A i \in 1..Len(after) : wire[x + i] = after[i]

\* It stands behind the last part.
LEMMA AfterIsThere ==
    ASSUME NEW stream, IsStream(stream), NEW wire, WireIsLaid(wire, stream)
    PROVE  After(wire, NextAt(stream, Len(stream.parts)), stream.after)
<1>1. Len(stream.parts) \in 0..Len(stream.parts)
  BY DEF WireIsLaid
<1> QED
  BY <1>1 DEF WireIsLaid, IsStream, After

\* Something in a window that begins there, or further on, and in the stream's end.
LEMMA SeenInAfter ==
    ASSUME NEW wire, NEW x, NEW after, After(wire, x, after),
           NEW bytes, NEW d, NEW r, Window(bytes, wire, d, r), x <= d, r <= Len(wire),
           NEW n \in Nat, NEW what, Len(what) \in Nat, At(bytes, n, what)
    PROVE  At(after, d - x + n, what)
<1> DEFINE m == Len(what)
           q == d - x + n
<1>1. x \in Nat /\ d \in Nat /\ r \in Nat /\ Len(after) \in Nat /\ Len(wire) = x + Len(after)
      /\ m \in Nat
  BY DEF After, Window
<1>2. d + n + m <= r /\ \A i \in 1..m : wire[d + n + i] = what[i]
  BY AtWindow
<1>3. q \in Nat /\ x + q = d + n
  BY <1>1
<1> HIDE DEF m, q
<1>4. q + m <= Len(after)
  BY <1>1, <1>2, <1>3
<1>5. \A i \in 1..m : after[q + i] = what[i]
  <2>1. ASSUME NEW i \in 1..m
        PROVE  after[q + i] = what[i]
    <3>1. q + i \in 1..Len(after) /\ x + (q + i) = d + n + i
      BY <1>1, <1>3, <1>4
    <3>2. wire[x + (q + i)] = after[q + i]
      BY <3>1 DEF After
    <3>3. wire[d + n + i] = what[i]
      BY <1>2
    <3> QED
      BY <3>1, <3>2, <3>3
  <2> QED
    BY <2>1
<1>6. At(after, q, what)
  BY <1>4, <1>5 DEF At, m
<1> QED
  BY <1>6 DEF q

\* And the other way round.
LEMMA SeenOfAfter ==
    ASSUME NEW wire, NEW x, NEW after, After(wire, x, after),
           NEW bytes, NEW r, Window(bytes, wire, x, r),
           NEW n \in Nat, NEW what, Len(what) \in Nat, At(after, n, what), x + n + Len(what) <= r
    PROVE  At(bytes, n, what)
<1> DEFINE m == Len(what)
<1>1. x \in Nat /\ r \in Nat /\ Len(after) \in Nat /\ m \in Nat
  BY DEF After, Window
<1>2. n + m <= Len(after) /\ \A i \in 1..m : after[n + i] = what[i]
  BY DEF At
<1>3. x + n + m <= r
  OBVIOUS
<1> HIDE DEF m
<1>4. \A i \in 1..m : wire[x + n + i] = what[i]
  <2>1. ASSUME NEW i \in 1..m
        PROVE  wire[x + n + i] = what[i]
    <3>1. n + i \in 1..Len(after) /\ x + (n + i) = x + n + i
      BY <1>1, <1>2
    <3>2. wire[x + (n + i)] = after[n + i]
      BY <3>1 DEF After
    <3> QED
      BY <1>2, <3>1, <3>2
  <2> QED
    BY <2>1
<1> QED
  BY <1>3, <1>4, AtWindow DEF m

\* Behind a closing marker nothing is ever taken.
LEMMA TakeWhenClosed ==
    ASSUME NEW stream, IsStream(stream), NEW wire, WireIsLaid(wire, stream), Closes(stream),
           NEW bytes, NEW d, NEW r, Window(bytes, wire, d, r), r <= Len(wire),
           NextAt(stream, Len(stream.parts)) < d
    PROVE  /\ Take(bytes) = Waits(Kept(bytes))
           /\ \E n \in Nat : d <= n /\ Window(Kept(bytes), wire, n, r)
<1> DEFINE x == NextAt(stream, Len(stream.parts))
           after == stream.after
<1>1. After(wire, x, after)
  BY AfterIsThere
<1>2. x \in Nat /\ d \in Nat /\ r \in Nat /\ d <= r /\ Len(bytes) \in Nat /\ x < d
      /\ Len(after) \in Nat
  BY <1>1 DEF Window, After
<1>3. \A n \in 1..Len(after) : ~ At(after, n, Marker)
  BY DEF IsStream, Closes
<1> HIDE DEF x, after
<1>4. ASSUME NEW n \in Nat, At(bytes, n, Marker)
      PROVE  FALSE
  <2>1. At(after, d - x + n, Marker)
    <3>1. x <= d /\ Len(Marker) \in Nat
      BY <1>2, Literals
    <3> QED
      BY <1>1, <1>4, <3>1, SeenInAfter
  <2>2. d - x + n + Len(Marker) <= Len(after)
    BY <2>1 DEF At
  <2>3. d - x + n \in 1..Len(after)
    BY <1>2, <2>2, Literals
  <2> QED
    BY <1>3, <2>1, <2>3
<1>5. Find(bytes, Marker, 0) = -1
  BY <1>2, <1>4, FindsNone
<1>6. Take(bytes) = Waits(Kept(bytes))
  BY <1>5 DEF Take
<1> QED
  BY <1>6, KeptWindow

\* _take(), at the marker behind the last part.
LEMMA TakeAfterTheLast ==
    ASSUME NEW stream, IsStream(stream), NEW wire, WireIsLaid(wire, stream),
           NEW bytes, NEW r, Window(bytes, wire, NextAt(stream, Len(stream.parts)), r),
           r <= Len(wire)
    PROVE  \/ TakeFrom(bytes) = Waits(<<>>) /\ Closes(stream)
                /\ NextAt(stream, Len(stream.parts)) < r
           \/ TakeFrom(bytes) = Waits(bytes) /\ ~ (EndsUnreadable(stream) /\ r = Len(wire))
           \/ TakeFrom(bytes) = Fails(bytes) /\ EndsUnreadable(stream) /\ r = Len(wire)
<1> DEFINE x == NextAt(stream, Len(stream.parts))
           after == stream.after
           headEnd == Find(bytes, HeadEnd, 3)
           itsEnd == Find(after, HeadEnd, 3)
           head == SubSeq(bytes, 4, headEnd)
           bodyAt == headEnd + 4
           length == Max(Lengths(head))
<1>1. After(wire, x, after)
  BY AfterIsThere
<1>2. x \in Nat /\ r \in Nat /\ x <= r /\ Len(bytes) = r - x /\ bytes \in Seq(Nat)
      /\ after \in Seq(Nat) /\ Len(after) \in Nat /\ Len(wire) = x + Len(after) /\ Len(bytes) \in Nat
  BY <1>1 DEF Window, After
<1>3. Len(Marker) = 3 /\ Len(HeadEnd) = 4 /\ Len(Closing) = 2
  BY Literals
<1>4. TakeFrom(bytes) =
        IF At(bytes, 3, Closing) THEN Waits(<<>>)
        ELSE IF headEnd < 0 THEN Waits(bytes)
        ELSE IF Lengths(head) = {} THEN Fails(bytes)
        ELSE IF Len(bytes) < bodyAt + length THEN Waits(bytes)
        ELSE Took(Drop(bytes, bodyAt + length), SubSeq(bytes, bodyAt + 1, bodyAt + length))
  <2>1. 3 + 1 = 4
    OBVIOUS
  <2> QED
    BY <1>3, <2>1 DEF TakeFrom
<1>5. EndsUnreadable(stream) <=> itsEnd >= 0 /\ ~ At(after, 3, Closing)
  BY <1>3 DEF EndsUnreadable
<1>6. Closes(stream) <=> At(after, 3, Closing)
  BY <1>3 DEF Closes
<1>7. ~ At(after, 3, Closing) /\ itsEnd >= 0 =>
        itsEnd + 4 = Len(after) /\ Lengths(SubSeq(after, 4, itsEnd)) = {}
  <2>1. 3 + 1 = 4
    OBVIOUS
  <2> QED
    BY <1>3, <2>1 DEF IsStream
<1>8. Window(bytes, wire, x, r)
  OBVIOUS
<1> HIDE DEF x, after, headEnd, itsEnd, head, bodyAt, length
<1>9. \A n \in Nat : \A what : Len(what) \in Nat /\ At(bytes, n, what) => At(after, n, what)
  <2>1. ASSUME NEW n \in Nat, NEW what, Len(what) \in Nat, At(bytes, n, what)
        PROVE  At(after, n, what)
    <3>1. At(after, x - x + n, what)
      <4>1. x <= x
        BY <1>2
      <4> QED
        BY <1>1, <1>8, <2>1, <4>1, SeenInAfter
    <3>2. x - x + n = n
      BY <1>2
    <3> QED
      BY <3>1, <3>2
  <2> QED
    BY <2>1
<1>14. \A n \in Nat : \A what :
          Len(what) \in Nat /\ At(after, n, what) /\ x + n + Len(what) <= r => At(bytes, n, what)
  <2>1. ASSUME NEW n \in Nat, NEW what, Len(what) \in Nat, At(after, n, what),
               x + n + Len(what) <= r
        PROVE  At(bytes, n, what)
    BY <1>1, <1>8, <2>1, SeenOfAfter
  <2> QED
    BY <2>1
<1>15. 3 \in Nat /\ Len(HeadEnd) \in Nat /\ Len(Closing) \in Nat
  BY <1>3
<1>10. CASE At(bytes, 3, Closing)
  <2>1. At(after, 3, Closing)
    BY <1>3, <1>9, <1>10
  <2>2. 3 + Len(Closing) <= Len(bytes)
    BY <1>10 DEF At
  <2>3. x < r
    BY <1>2, <1>3, <2>2
  <2>4. TakeFrom(bytes) = Waits(<<>>)
    BY <1>4, <1>10
  <2> QED
    BY <1>6, <2>1, <2>3, <2>4 DEF x
<1>11. CASE ~ At(bytes, 3, Closing) /\ headEnd < 0
  <2>1. TakeFrom(bytes) = Waits(bytes)
    BY <1>4, <1>11
  <2>2. ASSUME EndsUnreadable(stream), r = Len(wire)
        PROVE  FALSE
    <3>1. itsEnd >= 0
      BY <1>5, <2>2
    <3>2. itsEnd \in Nat /\ 3 <= itsEnd /\ At(after, itsEnd, HeadEnd)
      BY <1>2, <1>3, <3>1, Finds DEF itsEnd
    <3>3. itsEnd + Len(HeadEnd) <= Len(after)
      BY <3>2 DEF At
    <3>4. At(bytes, itsEnd, HeadEnd)
      <4>1. x + itsEnd + Len(HeadEnd) <= r
        BY <1>2, <1>3, <2>2, <3>2, <3>3
      <4> QED
        BY <1>14, <1>15, <3>2, <4>1
    <3>5. \E n \in Nat : 3 <= n /\ n <= Len(bytes) /\ At(bytes, n, HeadEnd)
      <4>1. itsEnd <= Len(bytes)
        <5>1. itsEnd + Len(HeadEnd) <= Len(bytes)
          BY <3>4 DEF At
        <5> QED
          BY <1>2, <1>3, <3>2, <5>1
      <4> QED
        BY <3>2, <3>4, <4>1
    <3>6. headEnd # -1 /\ (headEnd < 0 => FALSE)
      <4> DEFINE found == {n \in 3..Len(bytes) : At(bytes, n, HeadEnd)}
      <4>1. found # {} /\ found \subseteq Nat
        <5>1. PICK n \in Nat : 3 <= n /\ n <= Len(bytes) /\ At(bytes, n, HeadEnd)
          BY <3>5
        <5>2. n \in found
          BY <1>2, <5>1
        <5> QED
          BY <5>2
      <4>2. headEnd = Min(found)
        BY <4>1 DEF Find, headEnd
      <4> HIDE DEF found
      <4>3. \E n \in found : \A m \in found : n <= m
        BY <4>1, LeastNatural
      <4>4. Min(found) \in found
        BY <4>3 DEF Min
      <4>5. headEnd \in Nat
        BY <4>1, <4>2, <4>4
      <4> QED
        BY <4>5
    <3> QED
      BY <1>11, <3>6
  <2> QED
    BY <2>1, <2>2
<1>12. CASE ~ At(bytes, 3, Closing) /\ ~ (headEnd < 0)
  <2>0. headEnd \in Nat \/ headEnd = -1
    <3> DEFINE found == {n \in 3..Len(bytes) : At(bytes, n, HeadEnd)}
    <3>1. headEnd = IF found = {} THEN -1 ELSE Min(found)
      BY DEF Find, headEnd
    <3>2. found \subseteq Nat
      OBVIOUS
    <3> HIDE DEF found
    <3>3. found # {} => Min(found) \in found
      BY <3>2, LeastNatural DEF Min
    <3> QED
      BY <3>1, <3>2, <3>3
  <2>1. headEnd >= 0
    BY <1>12, <2>0
  <2>2. headEnd \in Nat /\ 3 <= headEnd /\ At(bytes, headEnd, HeadEnd)
        /\ \A m \in Nat : 3 <= m /\ m < headEnd => ~ At(bytes, m, HeadEnd)
    BY <1>2, <1>3, <2>1, Finds DEF headEnd
  <2>3. At(after, headEnd, HeadEnd)
    BY <1>3, <1>9, <2>2
  <2>4. headEnd + 4 <= r - x /\ headEnd + 4 <= Len(after)
    <3>1. headEnd + Len(HeadEnd) <= Len(bytes) /\ headEnd + Len(HeadEnd) <= Len(after)
      BY <2>2, <2>3 DEF At
    <3> QED
      BY <1>2, <1>3, <3>1
  <2>5. itsEnd = headEnd
    <3>1. ASSUME NEW m \in Nat, 3 <= m, m < headEnd, At(after, m, HeadEnd)
          PROVE  FALSE
      <4>1. x + m + Len(HeadEnd) <= r
        BY <1>2, <1>3, <2>2, <2>4, <3>1
      <4>2. At(bytes, m, HeadEnd)
        BY <1>14, <1>15, <3>1, <4>1
      <4> QED
        BY <2>2, <3>1, <4>2
    <3>2. \A m \in Nat : 3 <= m /\ m < headEnd => ~ At(after, m, HeadEnd)
      BY <3>1
    <3>3. Find(after, HeadEnd, 3) = headEnd
      <4>1. Len(after) \in Nat
        BY <1>2
      <4>2. headEnd \in Nat /\ 3 <= headEnd
        BY <2>2
      <4> QED
        BY <1>15, <2>3, <3>2, <4>1, <4>2, FindsIt
    <3> QED
      BY <3>3 DEF itsEnd
  <2>6. ~ At(after, 3, Closing)
    <3>1. ASSUME At(after, 3, Closing)
          PROVE  FALSE
      <4>1. x + 3 + Len(Closing) <= r
        BY <1>2, <1>3, <2>2, <2>4
      <4>2. At(bytes, 3, Closing)
        BY <1>14, <1>15, <3>1, <4>1
      <4> QED
        BY <1>12, <4>2
    <3> QED
      BY <3>1
  <2>7. itsEnd >= 0 /\ itsEnd + 4 = Len(after) /\ Lengths(SubSeq(after, 4, itsEnd)) = {}
    BY <1>7, <2>1, <2>5, <2>6
  <2>8. r = Len(wire)
    <3> DEFINE there == Len(wire)
               a == Len(after)
    <3>1. there = x + a /\ a \in Nat /\ x \in Nat /\ r \in Nat /\ r <= there
      BY <1>2
    <3>2. headEnd + 4 = a /\ headEnd + 4 <= r - x /\ headEnd \in Nat
      BY <2>2, <2>4, <2>5, <2>7
    <3> HIDE DEF there, a
    <3>3. r = there
      BY <3>1, <3>2
    <3> QED
      BY <3>3 DEF there
  <2>9. bytes = after
    <3>1. Len(bytes) = Len(after)
      BY <1>2, <2>8
    <3>2. \A i \in 1..Len(bytes) : bytes[i] = after[i]
      BY <1>1, <1>2, <1>8, <3>1 DEF Window, After
    <3> QED
      BY <1>2, <3>1, <3>2, SeqEqual
  <2>10. Lengths(head) = {}
    BY <2>5, <2>7, <2>9 DEF head
  <2>11. TakeFrom(bytes) = Fails(bytes)
    BY <1>4, <1>12, <2>10
  <2> QED
    BY <1>5, <2>6, <2>7, <2>8, <2>11
<1> QED
  BY <1>10, <1>11, <1>12

-------------------------------------------------------------------------------
(* A reader of the stream.                                                   *)

\* Parts end in their order.
LEMMA EndsGrow ==
    ASSUME NEW stream, IsStream(stream), NEW wire, WireIsLaid(wire, stream),
           NEW i \in 0..Len(stream.parts), NEW j \in 0..Len(stream.parts), i <= j
    PROVE  Ends(stream, i) <= Ends(stream, j)
<1> DEFINE m == Len(stream.parts)
           e(n) == Ends(stream, n)
           S == {n \in Nat : i <= n /\ n <= m => e(i) <= e(n)}
<1>1. m \in Nat /\ (\A n \in 0..m : e(n) \in Nat)
      /\ \A n \in 0..m - 1 : e(n) <= e(n + 1)
  <2>1. m \in Nat /\ \A n \in 0..m : e(n) \in Nat /\ NextAt(stream, n) \in Nat
                      /\ NextAt(stream, n) = e(n) + Len(Gap(stream, n))
    BY DEF WireIsLaid
  <2>2. ASSUME NEW n \in 0..m - 1
        PROVE  e(n) <= e(n + 1)
    <3>1. n \in 0..m /\ n \in Nat
      BY <2>1
    <3>2. e(n) \in Nat /\ NextAt(stream, n) = e(n) + Len(Gap(stream, n)) /\ Len(Gap(stream, n)) \in Nat
      BY <2>1, <3>1, GapIsShort
    <3>3. e(n + 1) = NextAt(stream, n) + 11 + Len(stream.parts[n + 1])
          /\ stream.parts[n + 1] \in Seq(Nat)
      BY DEF WireIsLaid
    <3> DEFINE g == Len(Gap(stream, n))
               l == Len(stream.parts[n + 1])
               x == e(n)
               y == e(n + 1)
    <3>4. l \in Nat /\ g \in Nat /\ x \in Nat /\ y = x + g + 11 + l
      BY <3>2, <3>3
    <3> HIDE DEF e, g, l, x, y
    <3>5. x <= y
      BY <3>4
    <3> QED
      BY <3>5 DEF x, y
  <2> QED
    BY <2>1, <2>2
<1>2. i \in 0..m /\ j \in 0..m
  OBVIOUS
<1> HIDE DEF m, e
<1>3. 0 \in S
  BY <1>1, <1>2
<1>4. ASSUME NEW n \in Nat, n \in S
      PROVE  n + 1 \in S
  <2>1. ASSUME i <= n + 1, n + 1 <= m
        PROVE  e(i) <= e(n + 1)
    <3>1. CASE i = n + 1
      BY <1>1, <1>2, <3>1
    <3>2. CASE i <= n
      <4>1. e(i) <= e(n)
        BY <1>1, <1>4, <2>1, <3>2
      <4>2. n \in 0..m - 1 /\ n \in 0..m /\ n + 1 \in 0..m
        BY <1>1, <2>1
      <4>3. e(n) <= e(n + 1) /\ e(i) \in Nat /\ e(n) \in Nat /\ e(n + 1) \in Nat
        BY <1>1, <1>2, <4>2
      <4> QED
        BY <4>1, <4>3
    <3> QED
      BY <1>2, <2>1, <3>1, <3>2
  <2> QED
    BY <2>1
<1> HIDE DEF S
<1>5. \A n \in Nat : n \in S
  BY <1>3, <1>4, Induction
<1>6. e(i) <= e(j)
  <2>1. j \in Nat /\ j <= m
    BY <1>1, <1>2
  <2>2. j \in S
    BY <1>5, <2>1
  <2> QED
    BY <2>1, <2>2 DEF S
<1> QED
  BY <1>6 DEF e

\* A set of places has a greatest.
LEMMA GreatestBelow ==
    ASSUME NEW m \in Nat, NEW T, T \subseteq 0..m, T # {}
    PROVE  Max(T) \in T /\ \A n \in T : n <= Max(T)
<1> DEFINE S == {m - n : n \in T}
<1>1. S \subseteq Nat /\ S # {}
  <2>1. \A n \in T : n \in 0..m /\ m - n \in Nat
    OBVIOUS
  <2>2. PICK n : n \in T
    OBVIOUS
  <2>3. m - n \in S
    BY <2>2
  <2> QED
    BY <2>1, <2>3
<1>2. PICK s \in S : \A n \in S : s <= n
  BY <1>1, LeastNatural
<1>3. PICK n \in T : s = m - n
  BY <1>2
<1>4. \A i \in T : i <= n
  <2>1. ASSUME NEW i \in T
        PROVE  i <= n
    <3>1. m - i \in S
      OBVIOUS
    <3>2. s <= m - i
      BY <1>2, <3>1
    <3>3. i \in Int /\ n \in Int
      OBVIOUS
    <3> QED
      BY <1>3, <3>2, <3>3
  <2> QED
    BY <2>1
<1>5. \E x \in T : \A y \in T : x >= y
  BY <1>4
<1>6. Max(T) \in T /\ \A y \in T : Max(T) >= y
  BY <1>5 DEF Max
<1> QED
  BY <1>6

\* What the reader holds: the parts up to k, and the bytes from d on.
Stands(bytes, parts, stream, k, d, r) ==
    /\ k \in 0..Len(stream.parts) /\ parts = SubSeq(stream.parts, 1, k)
    /\ Window(bytes, Wire(stream), d, r) /\ r <= Len(Wire(stream))
    /\ Ends(stream, k) <= d
    /\ \/ d <= NextAt(stream, k)
       \/ k = Len(stream.parts) /\ Closes(stream) /\ NextAt(stream, k) < d

\* Nothing more can be taken of what has come.
Settled(stream, k, r, failed) ==
    /\ k < Len(stream.parts) => r < Ends(stream, k + 1)
    /\ failed <=> EndsUnreadable(stream) /\ r = Len(Wire(stream))

\* What _take() may answer.
Answered(took, parts, stream, r) ==
    \E k, d : /\ Stands(took.rest, parts \o took.parts, stream, k, d, r)
              /\ took.parts = <<>> => Settled(stream, k, r, took.failed)

\* An answer without a part.
LEMMA NothingTaken ==
    ASSUME NEW stream, IsStream(stream), NEW rest, NEW parts, NEW k, NEW d, NEW r,
           Stands(rest, parts, stream, k, d, r)
    PROVE  /\ Settled(stream, k, r, FALSE) => Answered(Waits(rest), parts, stream, r)
           /\ Settled(stream, k, r, TRUE) => Answered(Fails(rest), parts, stream, r)
<1>1. stream.parts \in Seq(Seq(Nat)) /\ k \in 0..Len(stream.parts) /\ parts = SubSeq(stream.parts, 1, k)
  BY DEF IsStream, Stands
<1>2. parts \in Seq(Seq(Nat))
  BY <1>1
<1>3. parts \o <<>> = parts
  BY <1>2
<1>4. Waits(rest).rest = rest /\ Waits(rest).parts = <<>> /\ Waits(rest).failed = FALSE
      /\ Fails(rest).rest = rest /\ Fails(rest).parts = <<>> /\ Fails(rest).failed = TRUE
  BY DEF Waits, Fails
<1> QED
  BY <1>3, <1>4 DEF Answered

\* One part more.
LEMMA PartTaken ==
    ASSUME NEW stream, IsStream(stream), NEW k \in 0..Len(stream.parts) - 1
    PROVE  SubSeq(stream.parts, 1, k) \o <<stream.parts[k + 1]>> = SubSeq(stream.parts, 1, k + 1)
<1> DEFINE p == stream.parts
           a == SubSeq(p, 1, k)
           b == <<p[k + 1]>>
           c == SubSeq(p, 1, k + 1)
           C == Seq(Nat)
<1>1. p \in Seq(C) /\ Len(p) \in Nat /\ k \in 0..Len(p) - 1 /\ k + 1 \in 1..Len(p)
  BY DEF IsStream
<1> HIDE DEF p, C
<1>2. a \in Seq(C) /\ Len(a) = k /\ \A i \in 1..k : a[i] = p[i]
  BY <1>1
<1>3. c \in Seq(C) /\ Len(c) = k + 1 /\ \A i \in 1..k + 1 : c[i] = p[i]
  BY <1>1
<1>4. b \in Seq(C) /\ Len(b) = 1 /\ b[1] = p[k + 1]
  BY <1>1
<1> HIDE DEF a, b, c
<1>5. /\ a \o b \in Seq(C) /\ Len(a \o b) = Len(a) + Len(b)
      /\ \A i \in 1..Len(a) : (a \o b)[i] = a[i]
      /\ \A i \in 1..Len(b) : (a \o b)[Len(a) + i] = b[i]
  <2>1. a \in Seq(C) /\ b \in Seq(C)
    BY <1>2, <1>4
  <2> QED
    BY <2>1, Concatenated
<1> DEFINE ab == a \o b
<1>6. ab \in Seq(C) /\ Len(ab) = k + 1 /\ (\A i \in 1..k : ab[i] = p[i]) /\ ab[k + 1] = p[k + 1]
  BY <1>1, <1>2, <1>4, <1>5
<1> HIDE DEF ab
<1>7. \A i \in 1..k + 1 : ab[i] = c[i]
  BY <1>1, <1>3, <1>6
<1>8. ab = c
  BY <1>3, <1>6, <1>7, SeqEqual
<1> QED
  BY <1>8 DEF ab, a, b, c, p

\* _take(), whatever has come of the stream and whatever was taken of it.
LEMMA TakesOne ==
    ASSUME NEW stream, IsStream(stream), NEW bytes, NEW parts, NEW k, NEW d, NEW r,
           Stands(bytes, parts, stream, k, d, r)
    PROVE  Answered(Take(bytes), parts, stream, r)
<1> DEFINE m == Len(stream.parts)
           wire == Wire(stream)
           e(n) == Ends(stream, n)
           x == NextAt(stream, k)
           end == Len(wire)
<1>1. WireIsLaid(wire, stream)
  BY WireLaid
<1>2. /\ k \in 0..m /\ parts = SubSeq(stream.parts, 1, k) /\ Window(bytes, wire, d, r) /\ r <= end
      /\ e(k) <= d
      /\ d <= x \/ (k = m /\ Closes(stream) /\ x < d)
  BY Zenon DEF Stands
<1>3. m \in Nat /\ d \in Nat /\ r \in Nat /\ d <= r /\ e(k) \in Nat /\ x \in Nat /\ e(k) <= x
      /\ end \in Nat
  <2>1. m \in Nat /\ e(k) \in Nat /\ x \in Nat /\ x = e(k) + Len(Gap(stream, k)) /\ wire \in Seq(Nat)
    BY <1>1, <1>2 DEF WireIsLaid
  <2>2. d \in Nat /\ r \in Nat /\ d <= r
    BY <1>2 DEF Window
  <2>3. Len(Gap(stream, k)) \in Nat /\ end \in Nat
    <3>1. k \in Nat
      BY <1>2, <2>1
    <3> QED
      BY <2>1, <3>1, GapIsShort
  <2> HIDE DEF e, x, end
  <2> QED
    BY <2>1, <2>2, <2>3
<1>4. ASSUME k < m
      PROVE  /\ stream.parts[k + 1] \in Seq(Nat) /\ Len(stream.parts[k + 1]) \in Nat
             /\ e(k + 1) \in Nat /\ e(k + 1) = x + 11 + Len(stream.parts[k + 1]) /\ e(k + 1) <= end
             /\ IsPart(wire, x, stream.parts[k + 1]) /\ e(k + 1) <= NextAt(stream, k + 1)
             /\ k \in 0..m - 1 /\ k + 1 \in 0..m
  <2>1. k \in 0..m - 1 /\ k + 1 \in 0..m /\ k + 1 \in Nat
    BY <1>2, <1>3, <1>4
  <2>2. stream.parts[k + 1] \in Seq(Nat) /\ e(k + 1) = x + 11 + Len(stream.parts[k + 1])
        /\ e(k + 1) <= end /\ IsPart(wire, x, stream.parts[k + 1])
    BY <1>1, <2>1 DEF WireIsLaid
  <2>3. e(k + 1) \in Nat /\ NextAt(stream, k + 1) = e(k + 1) + Len(Gap(stream, k + 1))
    BY <1>1, <2>1 DEF WireIsLaid
  <2>4. Len(Gap(stream, k + 1)) \in Nat
    BY <2>1, GapIsShort
  <2>5. Len(stream.parts[k + 1]) \in Nat
    BY <2>2
  <2>6. e(k + 1) <= NextAt(stream, k + 1)
    <3> HIDE DEF e
    <3> QED
      BY <2>3, <2>4
  <2> QED
    BY <2>1, <2>2, <2>3, <2>5, <2>6
<1>5. x + 3 <= end
  BY <1>1, <1>2, MarkersAreThere
<1>6. \A rest, n : /\ Window(rest, wire, n, r) /\ e(k) <= n
                   /\ n <= x \/ (k = m /\ Closes(stream) /\ x < n)
                   => Stands(rest, parts, stream, k, n, r)
  <2>1. ASSUME NEW rest, NEW n, Window(rest, wire, n, r), e(k) <= n,
               n <= x \/ (k = m /\ Closes(stream) /\ x < n)
        PROVE  Stands(rest, parts, stream, k, n, r)
    BY <1>2, <2>1, Zenon DEF Stands
  <2> QED
    BY <2>1
<1>7. Closes(stream) => ~ EndsUnreadable(stream)
  BY DEF Closes, EndsUnreadable
<1>8. (k < m => r < e(k + 1)) /\ (r # end \/ ~ EndsUnreadable(stream))
        => Settled(stream, k, r, FALSE)
  BY Zenon DEF Settled
<1> HIDE DEF m, wire, e, x, end
<1>9. CASE k = m /\ Closes(stream) /\ x < d
  <2>1. Take(bytes) = Waits(Kept(bytes)) /\ \E n \in Nat : d <= n /\ Window(Kept(bytes), wire, n, r)
    BY <1>1, <1>2, <1>9, TakeWhenClosed DEF m, x, end
  <2>2. PICK n \in Nat : d <= n /\ Window(Kept(bytes), wire, n, r)
    BY <2>1
  <2>3. e(k) <= n /\ x < n
    BY <1>2, <1>3, <1>9, <2>2
  <2>4. Stands(Kept(bytes), parts, stream, k, n, r)
    BY <1>6, <1>9, <2>2, <2>3
  <2>5. Settled(stream, k, r, FALSE)
    <3>1. ~ (k < m)
      BY <1>3, <1>9
    <3> QED
      BY <1>7, <1>8, <1>9, <3>1
  <2> QED
    BY <2>1, <2>4, <2>5, NothingTaken
<1>10. CASE d <= x /\ r < x + 3
  <2>1. Before(bytes, wire, stream, k, d, r)
    BY <1>1, <1>2, <1>10 DEF Before, m, e, x
  <2>2. Take(bytes) = Waits(Kept(bytes)) /\ \E n \in Nat : Before(Kept(bytes), wire, stream, k, n, r)
    BY <1>10, <2>1, TakeTooEarly DEF x
  <2>3. PICK n \in Nat : Before(Kept(bytes), wire, stream, k, n, r)
    BY <2>2
  <2>4. Window(Kept(bytes), wire, n, r) /\ e(k) <= n /\ n <= x
    BY <2>3 DEF Before, e, x
  <2>5. Stands(Kept(bytes), parts, stream, k, n, r)
    BY <1>6, <2>4
  <2>6. r # end /\ (k < m => r < e(k + 1))
    <3>1. r # end
      BY <1>3, <1>5, <1>10
    <3>2. ASSUME k < m
          PROVE  r < e(k + 1)
      <4> DEFINE l == Len(stream.parts[k + 1])
                 f == e(k + 1)
      <4>1. l \in Nat /\ f = x + 11 + l
        BY <1>4, <3>2
      <4> HIDE DEF l, f
      <4>2. r < f
        BY <1>3, <1>10, <4>1
      <4> QED
        BY <4>2 DEF f
    <3> QED
      BY <3>1, <3>2
  <2>7. Settled(stream, k, r, FALSE)
    BY <1>8, <2>6
  <2> QED
    BY <2>2, <2>5, <2>7, NothingTaken
<1>11. CASE d <= x /\ x + 3 <= r
  <2>1. Before(bytes, wire, stream, k, d, r)
    BY <1>1, <1>2, <1>11 DEF Before, m, e, x
  <2>2. PICK rest : Window(rest, wire, x, r) /\ Take(bytes) = TakeFrom(rest)
    <3>1. NextAt(stream, k) + 3 <= r
      BY <1>11 DEF x
    <3> QED
      BY <2>1, <3>1, TakeAtMarker DEF x
  <2>3. Stands(rest, parts, stream, k, x, r)
    <3>1. e(k) <= x /\ x <= x
      BY <1>3
    <3> QED
      BY <1>6, <2>2, <3>1
  <2>4. CASE k < m
    <3> DEFINE body == stream.parts[k + 1]
    <3>1. /\ r < e(k + 1) => TakeFrom(rest) = Waits(rest)
          /\ e(k + 1) <= r =>
               \E more : Window(more, wire, e(k + 1), r) /\ TakeFrom(rest) = Took(more, body)
      <4>1. body \in Seq(Nat) /\ IsPart(wire, x, body) /\ e(k + 1) = x + 11 + Len(body)
        BY <1>4, <2>4
      <4> HIDE DEF body
      <4> QED
        BY <2>2, <4>1, TakeAPart
    <3>2. CASE r < e(k + 1)
      <4>1. r # end
        BY <1>3, <1>4, <2>4, <3>2
      <4>2. Settled(stream, k, r, FALSE)
        BY <1>8, <3>2, <4>1
      <4> QED
        BY <2>2, <2>3, <3>1, <3>2, <4>2, NothingTaken
    <3>3. CASE ~ (r < e(k + 1))
      <4>1. e(k + 1) <= r
        BY <1>3, <1>4, <2>4, <3>3
      <4>2. PICK more : Window(more, wire, e(k + 1), r) /\ TakeFrom(rest) = Took(more, body)
        BY <3>1, <4>1
      <4>3. Take(bytes).rest = more /\ Take(bytes).parts = <<body>>
        BY <2>2, <4>2 DEF Took
      <4>4. parts \o <<body>> = SubSeq(stream.parts, 1, k + 1)
        <5>1. k \in 0..Len(stream.parts) - 1
          BY <1>4, <2>4 DEF m
        <5> QED
          BY <1>2, <5>1, PartTaken
      <4>5. e(k + 1) <= e(k + 1) /\ e(k + 1) <= NextAt(stream, k + 1) /\ k + 1 \in 0..m
        BY <1>4, <2>4
      <4>6. Stands(more, parts \o <<body>>, stream, k + 1, e(k + 1), r)
        <5>1. r <= Len(Wire(stream)) /\ Window(more, Wire(stream), e(k + 1), r)
          BY <1>2, <4>2 DEF end, wire
        <5>2. k + 1 \in 0..Len(stream.parts) /\ Ends(stream, k + 1) <= e(k + 1)
          BY <4>5 DEF m, e
        <5> QED
          BY <4>4, <4>5, <5>1, <5>2 DEF Stands
      <4>7. <<body>> # <<>>
        OBVIOUS
      <4> HIDE DEF body
      <4> QED
        BY <4>3, <4>6, <4>7 DEF Answered
    <3> QED
      BY <3>2, <3>3
  <2>5. CASE ~ (k < m)
    <3>1. k = m
      BY <1>2, <1>3, <2>5
    <3>2. \/ TakeFrom(rest) = Waits(<<>>) /\ Closes(stream) /\ x < r
          \/ TakeFrom(rest) = Waits(rest) /\ ~ (EndsUnreadable(stream) /\ r = end)
          \/ TakeFrom(rest) = Fails(rest) /\ EndsUnreadable(stream) /\ r = end
      <4>1. Window(rest, wire, NextAt(stream, Len(stream.parts)), r)
        BY <2>2, <3>1 DEF x, m
      <4>2. r <= Len(wire)
        BY <1>2 DEF end
      <4>3. \/ TakeFrom(rest) = Waits(<<>>) /\ Closes(stream) /\ NextAt(stream, Len(stream.parts)) < r
            \/ TakeFrom(rest) = Waits(rest) /\ ~ (EndsUnreadable(stream) /\ r = Len(wire))
            \/ TakeFrom(rest) = Fails(rest) /\ EndsUnreadable(stream) /\ r = Len(wire)
        BY <1>1, <4>1, <4>2, TakeAfterTheLast
      <4> QED
        BY <3>1, <4>3 DEF x, m, end
    <3>3. CASE TakeFrom(rest) = Waits(<<>>) /\ Closes(stream) /\ x < r
      <4>1. Window(<<>>, wire, r, r)
        BY <1>3 DEF Window
      <4>2. e(k) <= r
        BY <1>3, <3>3
      <4>3. Stands(<<>>, parts, stream, k, r, r)
        BY <1>6, <3>1, <3>3, <4>1, <4>2
      <4>4. Settled(stream, k, r, FALSE)
        BY <1>7, <1>8, <2>5, <3>3
      <4> QED
        BY <2>2, <3>3, <4>3, <4>4, NothingTaken
    <3>4. CASE TakeFrom(rest) = Waits(rest) /\ ~ (EndsUnreadable(stream) /\ r = end)
      <4>1. Settled(stream, k, r, FALSE)
        BY <1>8, <2>5, <3>4
      <4> QED
        BY <2>2, <2>3, <3>4, <4>1, NothingTaken
    <3>5. CASE TakeFrom(rest) = Fails(rest) /\ EndsUnreadable(stream) /\ r = end
      <4>1. Settled(stream, k, r, TRUE)
        BY <2>5, <3>5 DEF Settled, m, end, wire
      <4> QED
        BY <2>2, <2>3, <3>5, <4>1, NothingTaken
    <3> QED
      BY <3>2, <3>3, <3>4, <3>5
  <2> QED
    BY <2>4, <2>5
<1> QED
  <2>1. (d <= x /\ r < x + 3) \/ (d <= x /\ x + 3 <= r) \/ (k = m /\ Closes(stream) /\ x < d)
    BY <1>2, <1>3
  <2> QED
    BY <1>9, <1>10, <1>11, <2>1

\* The parts taken are among those that came whole, and all of them when it settled.
LEMMA PartsOfThese ==
    ASSUME NEW bytes, NEW parts, NEW stream, IsStream(stream), NEW k, NEW d, NEW r,
           Stands(bytes, parts, stream, k, d, r)
    PROVE  /\ IsPrefix(parts, PartsIn(stream, r))
           /\ (k < Len(stream.parts) => r < Ends(stream, k + 1)) => parts = PartsIn(stream, r)
<1> DEFINE p == stream.parts
           m == Len(p)
           e(n) == Ends(stream, n)
           T == {n \in 0..m : e(n) <= r}
           all == Max(T)
<1>1. WireIsLaid(Wire(stream), stream)
  BY WireLaid
<1>2. k \in 0..m /\ parts = SubSeq(p, 1, k) /\ e(k) <= r /\ m \in Nat /\ r \in Nat
  <2>1. k \in 0..m /\ parts = SubSeq(p, 1, k) /\ e(k) <= d /\ d \in Nat /\ r \in Nat /\ d <= r
    BY DEF Stands, Window
  <2>2. e(k) \in Nat /\ m \in Nat
    BY <1>1, <2>1 DEF WireIsLaid
  <2> HIDE DEF e
  <2> QED
    BY <2>1, <2>2
<1>3. \A i, j \in 0..m : i <= j => e(i) <= e(j)
  BY <1>1, EndsGrow
<1>4. \A i \in 0..m : e(i) \in Nat
  BY <1>1 DEF WireIsLaid
<1>5. PartsIn(stream, r) = SubSeq(p, 1, all)
  BY DEF PartsIn, Ends
<1>6. p \in Seq(Seq(Nat))
  BY DEF IsStream
<1>7. (k < Len(stream.parts) => r < Ends(stream, k + 1)) <=> (k < m => r < e(k + 1))
  OBVIOUS
<1> HIDE DEF p, m, e
<1>8. T \subseteq 0..m /\ k \in T
  BY <1>2
<1>9. all \in T /\ \A n \in T : n <= all
  <2> HIDE DEF T
  <2>1. T # {}
    BY <1>8
  <2> QED
    BY <1>2, <1>8, <2>1, GreatestBelow
<1>10. all \in 0..m /\ e(all) <= r /\ k <= all
  BY <1>8, <1>9
<1> HIDE DEF all, T
<1>11. IsPrefix(parts, SubSeq(p, 1, all))
  <2> DEFINE came == SubSeq(p, 1, all)
             C == Seq(Nat)
  <2>1. p \in Seq(C) /\ m = Len(p) /\ k \in Nat /\ all \in Nat /\ k <= all /\ all <= m
    BY <1>2, <1>6, <1>10 DEF m
  <2> HIDE DEF C
  <2>2. came \in Seq(C) /\ Len(came) = all /\ \A i \in 1..all : came[i] = p[i]
    BY <2>1
  <2>3. parts \in Seq(C) /\ Len(parts) = k /\ \A i \in 1..k : parts[i] = p[i]
    BY <1>2, <2>1
  <2> DEFINE a == SubSeq(parts, 1, k)
             b == SubSeq(came, 1, k)
  <2> HIDE DEF came
  <2>4. a \in Seq(C) /\ Len(a) = k /\ \A i \in 1..k : a[i] = parts[i]
    BY <2>1, <2>3
  <2>5. b \in Seq(C) /\ Len(b) = k /\ \A i \in 1..k : b[i] = came[i]
    BY <2>1, <2>2
  <2> HIDE DEF a, b
  <2>6. \A i \in 1..k : a[i] = b[i]
    BY <2>1, <2>2, <2>3, <2>4, <2>5
  <2>7. a = b
    BY <2>4, <2>5, <2>6, SeqEqual
  <2>8. SubSeq(parts, 1, Len(parts)) = SubSeq(came, 1, Len(parts)) /\ Len(parts) <= Len(came)
    BY <2>1, <2>2, <2>3, <2>7 DEF a, b
  <2> QED
    BY <2>8 DEF came, IsPrefix
<1>12. ASSUME k < m => r < e(k + 1)
       PROVE  parts = SubSeq(p, 1, all)
  <2>1. k = all
    <3>1. CASE k < all
      <4>1. k + 1 \in 0..m /\ k + 1 <= all /\ k < m
        BY <1>2, <1>10, <3>1
      <4>2. e(k + 1) <= e(all)
        BY <1>3, <1>10, <4>1
      <4>3. r < e(k + 1) /\ e(k + 1) \in Nat /\ e(all) \in Nat
        BY <1>4, <1>10, <1>12, <4>1
      <4> QED
        BY <1>2, <1>10, <4>2, <4>3
    <3> QED
      BY <1>2, <1>10, <3>1
  <2> QED
    BY <1>2, <2>1
<1> QED
  BY <1>5, <1>7, <1>11, <1>12

\* Whether feed() waits, takes, or has raised.
Phases == {"waiting", "taking", "failed"}

\* What a reader has taken, and what it holds, of the bytes that came.
CutSoFar ==
    about = "mjpeg" =>
        /\ told = [stream |-> told.stream, read |-> told.read]
        /\ told.stream \in Streams /\ told.read \in Nat
        /\ state = [buf |-> state.buf, parts |-> state.parts, phase |-> state.phase]
        /\ state.phase \in Phases
        /\ \E k, d :
             /\ Stands(state.buf, state.parts, told.stream, k, d, told.read)
             /\ state.phase # "taking" =>
                  Settled(told.stream, k, told.read, state.phase = "failed")

\* Nothing has come.
LEMMA CutAtFirst ==
    ASSUME NEW stream, IsStream(stream)
    PROVE  /\ Stands(<<>>, <<>>, stream, 0, 0, 0)
           /\ Settled(stream, 0, 0, FALSE)
<1> DEFINE m == Len(stream.parts)
           wire == Wire(stream)
           end == Len(wire)
           x == NextAt(stream, 0)
<1>1. WireIsLaid(wire, stream)
  BY WireLaid
<1>2. m \in Nat /\ wire \in Seq(Nat) /\ Ends(stream, 0) = 0 /\ x \in Nat /\ end \in Nat /\ 0 \in 0..m
  <2>1. m \in Nat /\ wire \in Seq(Nat) /\ Ends(stream, 0) = 0
        /\ \A i \in 0..m : NextAt(stream, i) \in Nat
    BY <1>1 DEF WireIsLaid
  <2> QED
    BY <2>1
<1>3. x + 3 <= end
  BY <1>1, <1>2, MarkersAreThere
<1>4. ASSUME 0 < m
      PROVE  0 < Ends(stream, 0 + 1)
  <2>1. 0 \in 0..m - 1
    BY <1>2, <1>4
  <2>2. stream.parts[0 + 1] \in Seq(Nat)
        /\ Ends(stream, 0 + 1) = NextAt(stream, 0) + 11 + Len(stream.parts[0 + 1])
    BY <1>1, <2>1 DEF WireIsLaid
  <2> DEFINE l == Len(stream.parts[0 + 1])
  <2>3. l \in Nat /\ Ends(stream, 0 + 1) = x + 11 + l
    BY <2>2
  <2> HIDE DEF l
  <2> QED
    BY <1>2, <2>3
<1>5. Window(<<>>, wire, 0, 0)
  BY DEF Window
<1>6. SubSeq(stream.parts, 1, 0) = <<>>
  BY DEF IsStream
<1> HIDE DEF m, wire, end, x
<1>7. 0 # end /\ 0 <= end /\ 0 <= x
  BY <1>2, <1>3
<1>8. Stands(<<>>, <<>>, stream, 0, 0, 0)
  <2>1. 0 <= 0
    OBVIOUS
  <2> QED
    BY <1>2, <1>5, <1>6, <1>7, <2>1 DEF Stands, m, wire, end, x
<1>9. Settled(stream, 0, 0, FALSE)
  BY <1>4, <1>7 DEF Settled, m, wire, end
<1> QED
  BY <1>8, <1>9

\* A chunk comes, wherever it ends.
LEMMA ReceiveKeeps ==
    ASSUME CutSoFar, Receive
    PROVE  CutSoFar'
<1> DEFINE stream == told.stream
           wire == Wire(stream)
           r == told.read
<1>1. about = "mjpeg" /\ about' = "mjpeg" /\ state.phase = "waiting"
  BY DEF Receive
<1>2. PICK n \in r + 1 .. Len(wire) :
        state' = Fed(state, SubSeq(wire, r + 1, n)) /\ told' = [told EXCEPT !.read = n]
  BY DEF Receive
<1>3. told = [stream |-> stream, read |-> r] /\ stream \in Streams /\ r \in Nat
      /\ state = [buf |-> state.buf, parts |-> state.parts, phase |-> state.phase]
  BY <1>1 DEF CutSoFar
<1>4. IsStream(stream)
  BY <1>3, StreamAssumption
<1>5. PICK k, d : Stands(state.buf, state.parts, stream, k, d, r)
  BY <1>1 DEF CutSoFar
<1> DEFINE more == SubSeq(wire, r + 1, n)
<1>6. told' = [stream |-> stream, read |-> n]
  BY <1>2, <1>3
<1>7. state' = [buf |-> state.buf \o more, parts |-> state.parts, phase |-> "taking"]
  <2> HIDE DEF more
  <2>1. state' = [state EXCEPT !.buf = @ \o more, !.phase = "taking"]
    BY <1>2 DEF Fed, more
  <2> QED
    BY <1>3, <2>1
<1>8. wire \in Seq(Nat) /\ Len(wire) \in Nat
  <2>1. WireIsLaid(wire, stream)
    BY <1>4, WireLaid
  <2> QED
    BY <2>1 DEF WireIsLaid
<1>9. n \in Nat /\ r <= n /\ n <= Len(wire)
  <2> DEFINE end == Len(wire)
  <2>1. end \in Nat /\ n \in r + 1 .. end
    BY <1>8
  <2> HIDE DEF end
  <2>2. n \in Nat /\ r <= n /\ n <= end
    BY <1>3, <2>1
  <2> QED
    BY <2>2 DEF end
<1>10. Stands(state.buf \o more, state.parts, stream, k, d, n)
  <2>1. Window(state.buf, wire, d, r)
    BY <1>5 DEF Stands
  <2>2. Window(state.buf \o more, wire, d, n)
    BY <1>8, <1>9, <2>1, JoinWindow
  <2> QED
    BY <1>5, <1>9, <2>2 DEF Stands
<1> HIDE DEF stream, wire, r, more
<1>11. told'.stream = stream /\ told'.read = n /\ told' = [stream |-> told'.stream, read |-> told'.read]
  BY <1>6
<1>12. /\ state'.buf = state.buf \o more /\ state'.parts = state.parts /\ state'.phase = "taking"
       /\ state' = [buf |-> state'.buf, parts |-> state'.parts, phase |-> state'.phase]
  BY <1>7
<1> QED
  BY <1>3, <1>9, <1>10, <1>11, <1>12 DEF CutSoFar, Phases

\* Where it raises, no part is yielded.
LEMMA TakeFails ==
    ASSUME NEW bytes
    PROVE  Take(bytes).failed \in BOOLEAN /\ (Take(bytes).failed => Take(bytes).parts = <<>>)
<1>1. \A rest : /\ Waits(rest).failed = FALSE
                /\ Fails(rest).failed = TRUE /\ Fails(rest).parts = <<>>
                /\ \A part : Took(rest, part).failed = FALSE
  BY DEF Waits, Fails, Took
<1>2. \A b : TakeFrom(b).failed \in BOOLEAN /\ (TakeFrom(b).failed => TakeFrom(b).parts = <<>>)
  BY <1>1 DEF TakeFrom
<1> QED
  BY <1>1, <1>2 DEF Take

\* One round of feed()'s loop.
LEMMA TakeNextKeeps ==
    ASSUME CutSoFar, TakeNext
    PROVE  CutSoFar'
<1> DEFINE stream == told.stream
           r == told.read
           took == Take(state.buf)
<1>1. about = "mjpeg" /\ about' = "mjpeg" /\ state.phase = "taking" /\ told' = told
      /\ state' = Taken(state)
  BY DEF TakeNext
<1>2. told = [stream |-> stream, read |-> r] /\ stream \in Streams /\ r \in Nat
  BY <1>1 DEF CutSoFar
<1>3. IsStream(stream)
  BY <1>2, StreamAssumption
<1>4. PICK k, d : Stands(state.buf, state.parts, stream, k, d, r)
  BY <1>1 DEF CutSoFar
<1>5. Answered(took, state.parts, stream, r)
  BY <1>3, <1>4, TakesOne
<1>6. PICK i, j : /\ Stands(took.rest, state.parts \o took.parts, stream, i, j, r)
                  /\ took.parts = <<>> => Settled(stream, i, r, took.failed)
  BY <1>5 DEF Answered
<1>7. took.failed \in BOOLEAN /\ (took.failed => took.parts = <<>>)
  BY TakeFails
<1> DEFINE phase == IF took.failed THEN "failed"
                    ELSE IF took.parts = <<>> THEN "waiting" ELSE "taking"
<1>8. state' = [buf |-> took.rest, parts |-> state.parts \o took.parts, phase |-> phase]
  BY <1>1 DEF Taken
<1>9. /\ phase \in Phases /\ (phase = "failed" <=> took.failed)
      /\ phase # "taking" => took.parts = <<>>
  <2> HIDE DEF took
  <2> QED
    BY <1>7 DEF Phases
<1> HIDE DEF stream, r, took, phase
<1>10. /\ state'.buf = took.rest /\ state'.parts = state.parts \o took.parts /\ state'.phase = phase
       /\ state' = [buf |-> state'.buf, parts |-> state'.parts, phase |-> state'.phase]
  BY <1>8
<1>11. Stands(state'.buf, state'.parts, stream, i, j, r)
  BY <1>6, <1>10
<1>12. ASSUME state'.phase # "taking"
       PROVE  Settled(stream, i, r, state'.phase = "failed")
  <2>1. Settled(stream, i, r, took.failed)
    BY <1>6, <1>9, <1>10, <1>12
  <2>2. took.failed <=> state'.phase = "failed"
    BY <1>9, <1>10
  <2> QED
    BY <1>7, <2>1, <2>2 DEF Settled
<1>13. told'.stream = stream /\ told'.read = r /\ told' = [stream |-> told'.stream, read |-> told'.read]
  BY <1>1, <1>2 DEF stream, r
<1>14. \E a, b : /\ Stands(state'.buf, state'.parts, stream, a, b, r)
                 /\ state'.phase # "taking" => Settled(stream, a, r, state'.phase = "failed")
  BY <1>11, <1>12
<1> QED
  BY <1>2, <1>9, <1>10, <1>13, <1>14 DEF CutSoFar

(* _MultipartReader: for every stream, any number of frames of any bytes, and    *)
(* wherever its chunks end, every part whose last byte has come is yielded       *)
(* before the next chunk is waited for, as it was sent and no other; it raises   *)
(* when, and not before, the head of a part without a length is there.          *)
THEOREM PartsArrive == Spec => []PartsAreWhole
<1>1. Init => CutSoFar
  <2> SUFFICES ASSUME Init, about = "mjpeg"
               PROVE  CutSoFar
    BY DEF CutSoFar
  <2>1. told \in [stream : Streams, read : {0}] /\ state = Reading
    BY DEF Init
  <2>2. told.stream \in Streams /\ told.read = 0 /\ told = [stream |-> told.stream, read |-> told.read]
    BY <2>1
  <2>3. /\ state.buf = <<>> /\ state.parts = <<>> /\ state.phase = "waiting"
        /\ state = [buf |-> state.buf, parts |-> state.parts, phase |-> state.phase]
    BY <2>1 DEF Reading
  <2>4. IsStream(told.stream)
    BY <2>2, StreamAssumption
  <2>5. Stands(state.buf, state.parts, told.stream, 0, 0, told.read)
        /\ Settled(told.stream, 0, told.read, FALSE)
    BY <2>2, <2>3, <2>4, CutAtFirst
  <2>6. (state.phase = "failed") = FALSE
    BY <2>3
  <2>7. Settled(told.stream, 0, told.read, state.phase = "failed")
    BY <2>5, <2>6
  <2>8. \E k, d : /\ Stands(state.buf, state.parts, told.stream, k, d, told.read)
                  /\ state.phase # "taking" =>
                       Settled(told.stream, k, told.read, state.phase = "failed")
    BY <2>5, <2>7
  <2> QED
    BY <2>2, <2>3, <2>8 DEF CutSoFar, Phases
<1>2. CutSoFar /\ [Next]_vars => CutSoFar'
  <2> SUFFICES ASSUME CutSoFar, [Next]_vars
               PROVE  CutSoFar'
    OBVIOUS
  <2>1. CASE Receive
    BY <2>1, ReceiveKeeps
  <2>2. CASE TakeNext
    BY <2>2, TakeNextKeeps
  <2>3. CASE Give \/ Send \/ SendShortcut \/ Read \/ Hear \/ HearNoMore
    BY <2>3 DEF Give, Send, SendShortcut, Read, Hear, HearNoMore, CutSoFar
  <2>4. CASE UNCHANGED vars
    BY <2>4 DEF vars, CutSoFar
  <2> QED
    BY <2>1, <2>2, <2>3, <2>4 DEF Next
<1>3. CutSoFar => PartsAreWhole
  <2> SUFFICES ASSUME CutSoFar, about = "mjpeg"
               PROVE  LET came == PartsIn(told.stream, told.read)
                          unreadable == EndsUnreadable(told.stream)
                                          /\ told.read = Len(Wire(told.stream))
                      IN  /\ IsPrefix(state.parts, came)
                          /\ state.phase # "taking" =>
                               state.parts = came /\ (state.phase = "failed" <=> unreadable)
    BY DEF PartsAreWhole
  <2>1. PICK k, d : /\ Stands(state.buf, state.parts, told.stream, k, d, told.read)
                    /\ state.phase # "taking" =>
                         Settled(told.stream, k, told.read, state.phase = "failed")
    BY DEF CutSoFar
  <2>2. IsStream(told.stream)
    BY StreamAssumption DEF CutSoFar
  <2>3. /\ IsPrefix(state.parts, PartsIn(told.stream, told.read))
        /\ (k < Len(told.stream.parts) => told.read < Ends(told.stream, k + 1))
             => state.parts = PartsIn(told.stream, told.read)
    BY <2>1, <2>2, PartsOfThese
  <2>4. ASSUME state.phase # "taking"
        PROVE  /\ state.parts = PartsIn(told.stream, told.read)
               /\ state.phase = "failed" <=>
                    EndsUnreadable(told.stream) /\ told.read = Len(Wire(told.stream))
    BY <2>1, <2>3, <2>4 DEF Settled
  <2> QED
    BY <2>3, <2>4
<1> QED
  BY <1>1, <1>2, <1>3, PTL DEF Spec
===============================================================================
