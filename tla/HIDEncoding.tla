------------------------------ MODULE HIDEncoding ------------------------------
(***************************************************************************)
(* How PiKVMWebSocket (src/aiopikvm/_ws.py) sends a keyboard or mouse event: *)
(* as JSON, or as a binary frame of an operation number and its payload.     *)
(* kvmd takes both, and is to do the same for either.                        *)
(*                                                                           *)
(* A name is only whether it is ASCII and how long it is; it goes into the    *)
(* frame as one element.                                                     *)
(***************************************************************************)
EXTENDS Integers, Sequences

CONSTANT NameLimit   \* _NAME_LIMIT

ASSUME NameLimitAssumption == NameLimit \in Nat

MoveMin == -32768
MoveMax == 32767
DeltaMin == -127
DeltaMax == 127

Op == [key |-> 1, button |-> 2, move |-> 3, relative |-> 4, wheel |-> 5]
-------------------------------------------------------------------------------
Clamp(value, low, high) == IF value < low THEN low ELSE IF value > high THEN high ELSE value

\* struct.pack: two's complement, and of two bytes the high one first.
Byte(v) == v % 256

\* A mutated form of Short: the low byte first.
ShortSwapped(v) == <<v % 256, (v % 65536) \div 256>>

Short(v) == <<(v % 65536) \div 256, v % 256>>

PackDelta(x, y) == <<Byte(Clamp(x, DeltaMin, DeltaMax)), Byte(Clamp(y, DeltaMin, DeltaMax))>>

\* _name_bytes(): a name goes into a frame, or ConfigurationError is raised.
Fits(name) == name.ascii /\ name.length \in 1..NameLimit

Flag(bit, on) == IF on THEN bit ELSE 0

\* A press with `finish` is released in the same event; on a release it is dropped.
Finish(event) == event.finish /\ event.state

\* The binary frames of send_key(), send_mouse_button(), send_mouse_move(), and of
\* one or several steps of send_mouse_relative() or send_mouse_wheel().
KeyFrame(event) == <<Op.key, Flag(1, event.state) + Flag(2, Finish(event)), event.name>>

ButtonFrame(event) == <<Op.button, Flag(1, event.state), event.name>>

MoveFrame(event) ==
    LET x == Short(Clamp(event.x, MoveMin, MoveMax))
        y == Short(Clamp(event.y, MoveMin, MoveMax))
    IN  <<Op.move, x[1], x[2], y[1], y[2]>>

Packed(steps) ==
    [n \in 1..(2 * Len(steps)) |->
        LET step == steps[(n + 1) \div 2]
        IN  PackDelta(step[1], step[2])[IF n % 2 = 1 THEN 1 ELSE 2]]

DeltasFrame(event) == <<Op[event.kind], Flag(1, event.squash)>> \o Packed(event.steps)

Frame(event) ==
    CASE event.kind = "key" -> KeyFrame(event)
      [] event.kind = "button" -> ButtonFrame(event)
      [] event.kind = "move" -> MoveFrame(event)
      [] event.kind \in {"relative", "wheel"} -> DeltasFrame(event)

\* The same as JSON, which has room for any number and any name.
Json(event) ==
    IF event.kind = "key" THEN [event EXCEPT !.finish = Finish(event)] ELSE event
-------------------------------------------------------------------------------
(* kvmd: what it makes of either.                                             *)

FromByte(b) == IF b < 128 THEN b ELSE b - 256
FromShort(high, low) ==
    LET u == high * 256 + low IN IF u < 32768 THEN u ELSE u - 65536

\* A JSON event is clamped when it is validated.
HeardJson(event) ==
    CASE event.kind \in {"key", "button"} -> event
      [] event.kind = "move" ->
           [event EXCEPT !.x = Clamp(@, MoveMin, MoveMax), !.y = Clamp(@, MoveMin, MoveMax)]
      [] event.kind \in {"relative", "wheel"} ->
           [event EXCEPT !.steps = [i \in DOMAIN @ |->
               <<Clamp(@[i][1], DeltaMin, DeltaMax), Clamp(@[i][2], DeltaMin, DeltaMax)>>]]

\* A binary frame is unpacked.
Bit(flags, bit) == (flags \div bit) % 2 = 1
Steps(bytes) ==
    [i \in 1..Len(bytes) \div 2 |-> <<FromByte(bytes[2 * i - 1]), FromByte(bytes[2 * i])>>]

HeardFrame(frame) ==
    CASE frame[1] = Op.key ->
           [kind |-> "key", name |-> frame[3], state |-> Bit(frame[2], 1),
            finish |-> Bit(frame[2], 2)]
      [] frame[1] = Op.button ->
           [kind |-> "button", name |-> frame[3], state |-> Bit(frame[2], 1)]
      [] frame[1] = Op.move ->
           [kind |-> "move", x |-> FromShort(frame[2], frame[3]),
            y |-> FromShort(frame[4], frame[5])]
      [] frame[1] \in {Op.relative, Op.wheel} ->
           [kind |-> IF frame[1] = Op.wheel THEN "wheel" ELSE "relative",
            steps |-> Steps(SubSeq(frame, 3, Len(frame))), squash |-> Bit(frame[2], 1)]
===============================================================================
