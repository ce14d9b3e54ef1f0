---------------------------- MODULE MultipartReader ----------------------------
(***************************************************************************)
(* _MultipartReader (src/aiopikvm/resources/streamer.py): cuts the MJPEG     *)
(* stream into frames, fed in chunks that end anywhere.                      *)
(*                                                                           *)
(* A byte is its code.  A part's headers are only its Content-Length, written *)
(* "=" and a number whose digits count as one byte; it may be missing or not  *)
(* a number.                                                                 *)
(***************************************************************************)
EXTENDS Integers, Sequences, FiniteSetsExt

LF == 10
CR == 13
Dash == 45
Equals == 61
Digits(n) == 256 + n

Marker == <<Dash, Dash, 120>>
Closing == <<Dash, Dash>>
HeadEnd == <<CR, LF, CR, LF>>
-------------------------------------------------------------------------------
\* After n bytes comes `what`.
At(bytes, n, what) ==
    n + Len(what) <= Len(bytes) /\ \A i \in 1..Len(what) : bytes[n + i] = what[i]

\* bytes.find() from there on: how many come before it, or -1.
Find(bytes, what, skip) ==
    LET found == {n \in skip..Len(bytes) : At(bytes, n, what)}
    IN  IF found = {} THEN -1 ELSE Min(found)

Drop(bytes, n) == SubSeq(bytes, n + 1, Len(bytes))

\* A mutated form of Kept: all of it is dropped.
KeptNothing(bytes) == <<>>

\* What is kept of a buffer without a marker: one may have begun.
Kept(bytes) ==
    IF Len(bytes) <= Len(Marker) THEN bytes ELSE Drop(bytes, Len(bytes) - Len(Marker))

\* The numbers a part gives as its Content-Length; there may be none.
Lengths(head) ==
    {head[i + 1] - Digits(0) :
        i \in {i \in 1..(Len(head) - 1) : head[i] = Equals /\ head[i + 1] >= Digits(0)}}

\* _take(): with the next whole part, or without; or it raises ResponseError.
Took(rest, part) == [rest |-> rest, parts |-> <<part>>, failed |-> FALSE]
Waits(rest) == [rest |-> rest, parts |-> <<>>, failed |-> FALSE]
Fails(rest) == [rest |-> rest, parts |-> <<>>, failed |-> TRUE]

TakeFrom(bytes) ==   \* the marker comes first
    LET headEnd == Find(bytes, HeadEnd, Len(Marker))
        head == SubSeq(bytes, Len(Marker) + 1, headEnd)
        bodyAt == headEnd + Len(HeadEnd)
        length == Max(Lengths(head))
    IN  IF At(bytes, Len(Marker), Closing) THEN Waits(<<>>)
        ELSE IF headEnd < 0 THEN Waits(bytes)
        ELSE IF Lengths(head) = {} THEN Fails(bytes)
        ELSE IF Len(bytes) < bodyAt + length THEN Waits(bytes)
        ELSE Took(Drop(bytes, bodyAt + length), SubSeq(bytes, bodyAt + 1, bodyAt + length))

Take(bytes) ==
    LET start == Find(bytes, Marker, 0)
    IN  IF start < 0 THEN Waits(Kept(bytes)) ELSE TakeFrom(Drop(bytes, start))

\* The reader, and whether feed() waits for a chunk, is taking parts, or has raised.
Reading == [buf |-> <<>>, parts |-> <<>>, phase |-> "waiting"]

Fed(reader, chunk) == [reader EXCEPT !.buf = @ \o chunk, !.phase = "taking"]

\* One round of its loop: a part is yielded, or there is none.
Taken(reader) ==
    LET took == Take(reader.buf)
    IN  [buf |-> took.rest, parts |-> reader.parts \o took.parts,
         phase |-> IF took.failed THEN "failed"
                   ELSE IF took.parts = <<>> THEN "waiting" ELSE "taking"]
-------------------------------------------------------------------------------
(* ustreamer: a stream is what comes before the first marker, the parts, and   *)
(* what comes after them.                                                      *)

Part(body) == Marker \o <<CR, LF, Equals, Digits(Len(body))>> \o HeadEnd \o body

\* What comes between part n and the next.
Gap(stream, n) == IF n = 0 THEN stream.before ELSE <<CR, LF>>

\* The bytes of `stream` up to the end of its n-th part.
Sent(stream) ==
    LET sent[n \in 0..Len(stream.parts)] ==
            IF n = 0 THEN <<>>
            ELSE sent[n - 1] \o Gap(stream, n - 1) \o Part(stream.parts[n])
    IN  sent

Wire(stream) ==
    LET n == Len(stream.parts) IN Sent(stream)[n] \o Gap(stream, n) \o stream.after

\* The parts whose last byte is among the first `read` bytes.
PartsIn(stream, read) ==
    SubSeq(stream.parts, 1, Max({k \in 0..Len(stream.parts) : Len(Sent(stream)[k]) <= read}))

\* The head of the next part comes, whole, and gives no length.
EndsUnreadable(stream) ==
    LET headEnd == Find(stream.after, HeadEnd, Len(Marker))
    IN  headEnd >= 0 /\ ~ At(stream.after, Len(Marker), Closing)

\* What can be told apart: nothing looks like a marker before the first part, and
\* what comes after the last one is a closing marker, with no marker behind it, or
\* the head of a part: not all of it, or, to its end, one without a length.
IsStream(stream) ==
    /\ stream.before \in Seq(Nat) /\ stream.parts \in Seq(Seq(Nat)) /\ stream.after \in Seq(Nat)
    /\ \A n \in 0..(Len(stream.before) - 1) : ~ At(stream.before \o Marker, n, Marker)
    /\ At(stream.after, 0, Marker)
    /\ IF At(stream.after, Len(Marker), Closing)
       THEN \A n \in 1..Len(stream.after) : ~ At(stream.after, n, Marker)
       ELSE LET headEnd == Find(stream.after, HeadEnd, Len(Marker))
            IN  headEnd >= 0 => /\ headEnd + Len(HeadEnd) = Len(stream.after)
                                /\ Lengths(SubSeq(stream.after, Len(Marker) + 1, headEnd)) = {}
===============================================================================
