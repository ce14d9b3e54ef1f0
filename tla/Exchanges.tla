------------------------------- MODULE Exchanges -------------------------------
(***************************************************************************)
(* What goes once from the client to kvmd or back, and what is made of it at   *)
(* the other end: a keyboard or mouse event, a shortcut, the body of an       *)
(* upload, an answer, the records of a remote upload, and an MJPEG stream.    *)
(*                                                                           *)
(* A behaviour is about one of them: `told` is its input, `state` what has    *)
(* come of it so far.                                                        *)
(***************************************************************************)
EXTENDS HIDRequests, Uploads, RemoteUpload, MultipartReader

CONSTANTS Events,     \* keyboard and mouse events that are sent
          Shortcuts,  \* lists of keys given to send_shortcut()
          Sizes,      \* sizes given to upload()
          Chunks,     \* lengths of what its iterator gives
          MaxGiven,   \* bound: how much it gives
          Statuses,   \* HTTP statuses of an answer
          Answers,    \* its body
          Lines,      \* lines of a remote upload
          MaxLines,   \* bound: how many come
          Streams     \* MJPEG streams

IsAnswer(body) ==
    \/ body.shape \in {"text", "value"}
    \/ /\ body.shape = "object" /\ body.ok \in BOOLEAN /\ body.result.dict \in BOOLEAN
       /\ body.result.dict => body.result.image \in Nat

ASSUME EventAssumption ==
    \A e \in Events :
        \/ /\ e.kind = "key"
           /\ e \in [kind : {"key"}, name : [ascii : BOOLEAN, length : Nat],
                     state : BOOLEAN, finish : BOOLEAN]
        \/ /\ e.kind = "button"
           /\ e \in [kind : {"button"}, name : [ascii : BOOLEAN, length : Nat],
                     state : BOOLEAN]
        \/ /\ e.kind = "move"
           /\ e \in [kind : {"move"}, x : Int, y : Int]
        \/ /\ e.kind \in {"relative", "wheel"}
           /\ e \in [kind : {"relative", "wheel"}, squash : BOOLEAN, steps : Seq(Int \X Int)]

ASSUME ShortcutAssumption == Shortcuts \subseteq Seq(Seq(STRING))

ASSUME UploadAssumption ==
    Sizes \subseteq Int /\ Chunks \subseteq Nat /\ MaxGiven \in Nat

ASSUME AnswerAssumption ==
    /\ Statuses \subseteq Nat
    /\ \A body \in Answers : IsAnswer(body)
    /\ \A line \in Lines : line = Blank \/ IsAnswer(line)
    /\ MaxLines \in Nat

ASSUME StreamAssumption == \A stream \in Streams : IsStream(stream)

VARIABLES about, told, state

vars == <<about, told, state>>
-------------------------------------------------------------------------------
Init ==
    \/ about = "upload" /\ told \in [size : Announced(Sizes)] /\ state = Uploading
    \/ about = "hid" /\ told \in Events /\ state = "not sent"
    \/ about = "shortcut" /\ told \in Shortcuts /\ state = <<>>
    \/ about = "answer" /\ told \in [status : Statuses, body : Answers] /\ state = <<>>
    \/ about = "remote" /\ told = [lines |-> <<>>, end |-> "none"] /\ state = Waiting
    \/ about = "mjpeg" /\ told \in [stream : Streams, read : {0}] /\ state = Reading

\* The iterator gives a chunk, or ends.
Give ==
    /\ about = "upload" /\ state.ended = "running"
    /\ \/ \E n \in Chunks : state.sent + n <= MaxGiven /\ state' = PassOn(state, n, told.size)
       \/ state' = Finished(state, told.size)
    /\ UNCHANGED <<about, told>>

\* An event is sent on a binary socket, unless ConfigurationError is raised.
Send ==
    /\ about = "hid" /\ state = "not sent"
    /\ told.kind \in {"key", "button"} => Fits(told.name)
    /\ state' = Frame(told)
    /\ UNCHANGED <<about, told>>

\* The keys go out as one string, unless ConfigurationError is raised.
SendShortcut ==
    /\ about = "shortcut" /\ state = <<>> /\ Accepted(told)
    /\ state' = Joined(told)
    /\ UNCHANGED <<about, told>>

\* An answer comes to a request, to an upgrade, and as one line of a streamed body.
Read ==
    /\ about = "answer" /\ state = <<>>
    /\ state' = [request |-> Request(told), upgrade |-> HandshakeError(told),
                 line |-> WriteRecord(told.body)]
    /\ UNCHANGED <<about, told>>

\* A line of the download comes, unless one before has raised.
Hear ==
    /\ about = "remote" /\ state.outcome.class = "running" /\ Len(told.lines) < MaxLines
    /\ \E line \in Lines :
         /\ told' = [told EXCEPT !.lines = Append(@, line)]
         /\ state' = Yielded(state, line)
    /\ UNCHANGED about

\* The body ends, or the connection breaks.
HearNoMore ==
    /\ about = "remote" /\ state.outcome.class = "running"
    /\ \E end \in {"ended", "broken"} :
         /\ told' = [told EXCEPT !.end = end]
         /\ state' = IF end = "ended" THEN Ended(state) ELSE Broken(state)
    /\ UNCHANGED about

\* mjpeg(): a chunk comes and is fed.
Receive ==
    /\ about = "mjpeg" /\ state.phase = "waiting"
    /\ LET wire == Wire(told.stream)
       IN  \E n \in told.read + 1 .. Len(wire) :
             /\ state' = Fed(state, SubSeq(wire, told.read + 1, n))
             /\ told' = [told EXCEPT !.read = n]
    /\ UNCHANGED about

\* Its loop over feed(): the next part is yielded, or there is none for now, or it raises.
TakeNext ==
    /\ about = "mjpeg" /\ state.phase = "taking"
    /\ state' = Taken(state)
    /\ UNCHANGED <<about, told>>

Next ==
    \/ Give \/ Send \/ SendShortcut \/ Read
    \/ Hear \/ HearNoMore \/ Receive \/ TakeNext

Spec == Init /\ [][Next]_vars
-------------------------------------------------------------------------------
(* _AsyncStream, "holds an iterator to the length it promised": never more     *)
(* than announced goes out, and only a body of that length ends well.          *)
BodyAsAnnounced ==
    about = "upload" =>
        /\ state.passed <= told.size
        /\ state.ended = "done" <=> state.ended # "running" /\ state.sent = told.size

(* send_key() and the others: kvmd makes the same of the binary frame, of the  *)
(* JSON event and of the request, values it would have clamped included.       *)
SameEvent ==
    about = "hid" /\ state # "not sent" =>
        /\ HeardFrame(state) = HeardJson(Json(told))
        /\ told.kind \in {"key", "button", "move"} =>
             HeardParams(Params(told)) = HeardJson(Json(told))

(* send_shortcut(): of the keys it does not refuse, none is lost, split or     *)
(* trimmed on the way: kvmd hears each, in the order they were given.          *)
ShortcutArrives ==
    about = "shortcut" /\ state # <<>> => HeardKeys(state) = told

(* _exceptions.py: what kvmd refuses with means the same over both transports, *)
(* class, status and words; and kvmd's words reach the caller however they     *)
(* come: under an error status, in an HTTP 200, in a line of a stream.         *)
FailuresAgree ==
    about = "answer" /\ state # <<>> =>
        /\ told.status >= 300 => state.request = state.upgrade
        /\ IsFailure(state.request) = (told.status >= 300 \/ told.body.shape # "object"
                                          \/ ~told.body.ok)
        /\ told.body.shape = "object" /\ ~told.body.ok /\ told.status \notin 300..399 =>
             \A way \in {state.request, state.line} :
                 <<way.error, way.error_msg>> = <<state.upgrade.error, state.upgrade.error_msg>>

(* upload_remote(): a refusal is told in kvmd's words although the connection  *)
(* breaks behind it, what is no record is a ResponseError, a break that says   *)
(* nothing is a ConnectError, and only a download that ended after a record    *)
(* returns, with the last one; every record before is yielded, in order.       *)
UploadTold ==
    about = "remote" =>
        LET lines == told.lines
            records == {n \in DOMAIN lines : lines[n] # Blank}
            sound == {n \in records : /\ lines[n].shape = "object" /\ lines[n].ok
                                      /\ lines[n].result.dict /\ lines[n].result.image > 0}
            refusals == {n \in records : lines[n].shape = "object" /\ ~lines[n].ok}
        IN  /\ \E at \in [DOMAIN state.yielded -> DOMAIN lines] :
                 /\ {at[i] : i \in DOMAIN at} = sound
                 /\ \A i, j \in DOMAIN at : i < j => at[i] < at[j]
                 /\ \A i \in DOMAIN at : state.yielded[i] = lines[at[i]].result.image
            /\ state.outcome.class =
                 CASE refusals # {} -> "APIError"
                   [] refusals = {} /\ records # sound -> "ResponseError"
                   [] records = sound /\ told.end = "none" -> "running"
                   [] records = sound /\ told.end = "broken" -> "ConnectError"
                   [] records = sound /\ told.end = "ended" ->
                        IF records = {} THEN "ResponseError" ELSE "returned"
            /\ \A n \in refusals :
                 lines[n].result.dict => state.outcome.error = Str(lines[n].result.error)
            /\ state.outcome.class = "returned" => state.outcome.result = Last(state.yielded)

(* _MultipartReader: wherever the chunks end, and whatever the frames look     *)
(* like, every part whose last byte has come is yielded before the next chunk   *)
(* is waited for, as it was sent and no other; it raises when, and not before,  *)
(* the head of a part without a length is there.                              *)
PartsAreWhole ==
    about = "mjpeg" =>
        LET came == PartsIn(told.stream, told.read)
            unreadable == EndsUnreadable(told.stream) /\ told.read = Len(Wire(told.stream))
        IN  /\ IsPrefix(state.parts, came)
            /\ state.phase # "taking" =>
                 state.parts = came /\ (state.phase = "failed" <=> unreadable)
===============================================================================
