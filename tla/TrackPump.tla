------------------------------- MODULE TrackPump -------------------------------
(***************************************************************************)
(* The frames of one kind of track in a WebRTCSession (src/aiopikvm/          *)
(* _webrtc.py): _on_track() starts a task that pumps them into a buffer, and  *)
(* video() or audio() hand them over.  The two kinds share nothing.  Tracks   *)
(* are numbered in the order they are added, over all entries of one session  *)
(* object.                                                                   *)
(*                                                                           *)
(* An action is what a task does from one await that suspends it to the next. *)
(* No flag stands for a wakeup: it is looked at only by the wait() that comes *)
(* right after its clear(), so what matters is who waits for it.              *)
(***************************************************************************)
EXTENDS Integers, Sequences
LOCAL INSTANCE Functions

CONSTANTS Consumers,    \* tasks that iterate the track's frames
          FrameBuffer,  \* self._frame_buffer
          MaxFrames,    \* bound: frames of all tracks
          MaxTracks,    \* bound: tracks added
          MaxOpened     \* bound: entries of the session

ASSUME PumpAssumption ==
    /\ FrameBuffer \in Int
    /\ MaxFrames \in Nat /\ MaxTracks \in Nat /\ MaxOpened \in Nat

VARIABLES
    session,   \* "outside", "open", "stopping" the pump or "leaving" after that
    current,   \* the track of self._tracks, _buffers and _wakeups, 0 before the first
    listed,    \* self._pumps has its pump
    pump,      \* each track's: "none", "new" until its first step, "recv", "done";
               \* or cancelled since, in recv() as "stopping", when new as "dropped"
    buffer,    \* each track's deque: the numbers of its frames
    sent,      \* how many frames each track has given
    over,      \* the tracks that raise from now on
    consumer,  \* each consumer: "none", "yielded", "waiting" or "woken"
    on,        \* the track whose buffer it holds, or whose wakeup it waits for
    opened     \* how many times the session was entered

tracks == <<current, listed>>
source == <<sent, over>>
reading == <<consumer, on>>
vars == <<session, tracks, pump, buffer, source, reading, opened>>

Track == 1..MaxTracks
Scheduled == {"new", "stopping", "dropped"}   \* its next step is due
Max(a, b) == IF a > b THEN a ELSE b
BufferLimit == Max(1, FrameBuffer)            \* maxlen of the deque
-------------------------------------------------------------------------------
Init ==
    /\ session = "outside" /\ opened = 0
    /\ current = 0 /\ listed = FALSE
    /\ pump = [t \in Track |-> "none"]
    /\ buffer = [t \in Track |-> <<>>]
    /\ sent = [t \in Track |-> 0] /\ over = {}
    /\ consumer = [c \in Consumers |-> "none"]
    /\ on = [c \in Consumers |-> 0]

\* self._wakeups[t].set()
Wakeup(t) ==
    consumer' = [c \in Consumers |-> IF consumer[c] = "waiting" /\ on[c] = t THEN "woken"
                                     ELSE consumer[c]]

\* task.cancel()
Cancel(state) ==
    CASE state = "recv" -> "stopping"
      [] state = "new" -> "dropped"
      [] OTHER -> state
-------------------------------------------------------------------------------
(* _on_track() and _pump()                                                    *)

\* Entering takes round trips, and so does an offer: every task that is ready has run.
NothingReady ==
    /\ \A t \in Track : pump[t] \notin Scheduled
    /\ \A c \in Consumers : consumer[c] # "woken"

\* A mutated form of OnTracks: the pump that is replaced is left to run.
OnTracksStranding(n) ==
    /\ session = "open" /\ NothingReady
    /\ current + n <= MaxTracks
    /\ current' = current + n /\ listed' = TRUE
    /\ pump' = [t \in Track |-> IF t \in current + 1 .. current + n THEN "new" ELSE pump[t]]
    /\ UNCHANGED <<session, buffer, source, reading, opened>>

\* aiortc calls _on_track() for each of the n tracks of this kind that an offer adds,
\* one right after the other: a pump of the kind that is not done is cancelled.
OnTracks(n) ==
    /\ session = "open" /\ NothingReady
    /\ current + n <= MaxTracks
    /\ current' = current + n /\ listed' = TRUE
    /\ pump' = [t \in Track |->
                  CASE t = current /\ listed -> Cancel(pump[t])
                    [] t \in current + 1 .. current + n - 1 -> Cancel("new")
                    [] t = current + n -> "new"
                    [] OTHER -> pump[t]]
    /\ UNCHANGED <<session, buffer, source, reading, opened>>

\* The first step of a pump.  The cancelled ones were scheduled before it.
PumpStarts(t) ==
    /\ pump[t] = "new"
    /\ \A u \in Track : pump[u] \notin {"stopping", "dropped"}
    /\ pump' = [pump EXCEPT ![t] = "recv"]
    /\ UNCHANGED <<session, tracks, buffer, source, reading, opened>>

\* A mutated form of Buffered: deque.appendleft(), which fills it from the wrong end.
BufferedInFront(t, frame) ==
    IF Len(buffer[t]) = BufferLimit THEN <<frame>> \o SubSeq(buffer[t], 1, BufferLimit - 1)
                                    ELSE <<frame>> \o buffer[t]

\* deque.append(), which drops the oldest frame when there is no room.
Buffered(t, frame) ==
    IF Len(buffer[t]) = BufferLimit THEN Append(Tail(buffer[t]), frame)
                                    ELSE Append(buffer[t], frame)

\* recv() gives a frame.
PumpReceives(t) ==
    /\ pump[t] = "recv" /\ t \notin over
    /\ SumFunction(sent) < MaxFrames
    /\ sent' = [sent EXCEPT ![t] = @ + 1]
    /\ buffer' = [buffer EXCEPT ![t] = Buffered(t, sent'[t])]
    /\ Wakeup(t)
    /\ UNCHANGED <<session, tracks, pump, over, on, opened>>

\* A mutated form of PumpEnds: nobody is woken when the track has ended.
PumpEndsAsleep(t) ==
    /\ pump[t] = "recv" /\ t \in over
    /\ pump' = [pump EXCEPT ![t] = "done"]
    /\ UNCHANGED <<session, tracks, buffer, source, reading, opened>>

\* recv() raises, MediaStreamError or something aiortc does not name.
PumpEnds(t) ==
    /\ pump[t] = "recv" /\ t \in over
    /\ pump' = [pump EXCEPT ![t] = "done"]
    /\ Wakeup(t)
    /\ UNCHANGED <<session, tracks, buffer, source, on, opened>>

\* A mutated form of PumpCancelled: the wakeup is not in a finally clause.
PumpCancelledAsleep(t) ==
    /\ pump[t] \in {"stopping", "dropped"}
    /\ pump' = [pump EXCEPT ![t] = "done"]
    /\ UNCHANGED <<session, tracks, buffer, source, reading, opened>>

\* The step it is cancelled in.  A task that never ran does not run its finally.
PumpCancelled(t) ==
    /\ pump[t] \in {"stopping", "dropped"}
    /\ pump' = [pump EXCEPT ![t] = "done"]
    /\ \/ pump[t] = "stopping" /\ Wakeup(t)
       \/ pump[t] = "dropped" /\ UNCHANGED consumer
    /\ UNCHANGED <<session, tracks, buffer, source, on, opened>>

\* The other side stops the stream, or the peer connection dies.  What becomes of a
\* track that was replaced makes no difference.
TrackEnds ==
    /\ listed /\ current \notin over
    /\ over' = over \cup {current}
    /\ UNCHANGED <<session, tracks, pump, buffer, sent, reading, opened>>
-------------------------------------------------------------------------------
(* _frames()                                                                  *)

Becomes(c, state, track) ==
    /\ consumer' = [consumer EXCEPT ![c] = state]
    /\ on' = [on EXCEPT ![c] = track]

\* yield buffer.popleft()
Yield(c, t) ==
    /\ buffer[t] # <<>>
    /\ buffer' = [buffer EXCEPT ![t] = Tail(@)]
    /\ Becomes(c, "yielded", t)

\* No frame is left in the buffer it holds: the track is over, or it waits for
\* whatever wakeup the kind has now.
RunsDry(c, t) ==
    /\ buffer[t] = <<>>
    /\ \/ pump[t] = "done" /\ Becomes(c, "none", 0)
       \/ pump[t] # "done" /\ Becomes(c, "waiting", current)
    /\ UNCHANGED buffer

\* The loop goes round: the buffer and the pump are looked up again.
Look(c) ==
    \/ listed /\ (Yield(c, current) \/ RunsDry(c, current))
    \/ ~listed /\ Becomes(c, "none", 0) /\ UNCHANGED buffer

\* video() or audio() is asked for its first frame, in a session that is not closed.
Iterate(c) ==
    /\ consumer[c] = "none" /\ session # "outside"
    /\ Look(c)
    /\ UNCHANGED <<session, tracks, pump, source, opened>>

\* It is asked for the next one: the buffer and the pump are those it had.
Resume(c) ==
    /\ consumer[c] = "yielded"
    /\ Yield(c, on[c]) \/ RunsDry(c, on[c])
    /\ UNCHANGED <<session, tracks, pump, source, opened>>

WakesUp(c) ==
    /\ consumer[c] = "woken"
    /\ Look(c)
    /\ UNCHANGED <<session, tracks, pump, source, opened>>

\* The loop around it is left, or the task it is in is cancelled.
Leave(c) ==
    /\ consumer[c] \in {"yielded", "waiting", "woken"}
    /\ Becomes(c, "none", 0)
    /\ UNCHANGED <<session, tracks, pump, buffer, source, opened>>
-------------------------------------------------------------------------------
(* The block.                                                                 *)

\* __aenter__(), which leaves the tracks, buffers and wakeups of the last time.
Enter ==
    /\ session = "outside" /\ opened < MaxOpened /\ NothingReady
    /\ session' = "open" /\ opened' = opened + 1
    /\ UNCHANGED <<tracks, pump, buffer, source, reading>>

\* __aexit__() up to where it awaits the pump it has cancelled, or the farewell if
\* there is none to await.  Negotiating has taken a round trip since the last track.
Exit ==
    /\ session = "open" /\ \A t \in Track : pump[t] # "new"
    /\ \/ /\ listed /\ pump[current] # "done"
          /\ pump' = [pump EXCEPT ![current] = Cancel(@)]
          /\ session' = "stopping"
          /\ UNCHANGED listed
       \/ /\ listed => pump[current] = "done"
          /\ session' = "leaving"
          /\ listed' = FALSE
          /\ UNCHANGED pump
    /\ UNCHANGED <<current, buffer, source, reading, opened>>

\* The pump is done: self._pumps.clear().
PumpStopped ==
    /\ session = "stopping" /\ pump[current] = "done"
    /\ session' = "leaving"
    /\ listed' = FALSE
    /\ UNCHANGED <<current, pump, buffer, source, reading, opened>>

\* The rest of __aexit__().
Closed ==
    /\ session = "leaving"
    /\ session' = "outside"
    /\ UNCHANGED <<tracks, pump, buffer, source, reading, opened>>
-------------------------------------------------------------------------------
Pump(t) == PumpStarts(t) \/ PumpReceives(t) \/ PumpEnds(t) \/ PumpCancelled(t)
Consumer(c) == Iterate(c) \/ Resume(c) \/ WakesUp(c) \/ Leave(c)

Next == \/ \E n \in 1..2 : OnTracks(n)
        \/ \E t \in Track : Pump(t)
        \/ TrackEnds
        \/ \E c \in Consumers : Consumer(c)
        \/ Enter \/ Exit \/ PumpStopped \/ Closed

(* The event loop runs every task that is ready.  Nothing makes a frame come, a     *)
(* track end, a consumer ask for the next frame or the block end.                   *)
Fairness ==
    /\ \A t \in Track : WF_vars(PumpStarts(t) \/ PumpEnds(t) \/ PumpCancelled(t))
    /\ \A c \in Consumers : WF_vars(WakesUp(c))
    /\ WF_vars(PumpStopped) /\ WF_vars(Closed)

Spec == Init /\ [][Next]_vars /\ Fairness
-------------------------------------------------------------------------------
TypeOK ==
    /\ session \in {"outside", "open", "stopping", "leaving"}
    /\ current \in 0..MaxTracks /\ listed \in BOOLEAN /\ (listed => current > 0)
    /\ pump \in [Track -> {"none", "new", "recv", "done", "stopping", "dropped"}]
    /\ buffer \in [Track -> Seq(Nat)]
    /\ sent \in [Track -> Nat] /\ over \subseteq Track
    /\ consumer \in [Consumers -> {"none", "yielded", "waiting", "woken"}]
    /\ on \in [Consumers -> 0..MaxTracks]

(* _pump() and _frames(): a consumer that waits has taken every frame there is, and  *)
(* waits for the wakeup of a pump that will set it, whatever tracks were added.      *)
NobodyWaitsInVain ==
    \A c \in Consumers : consumer[c] = "waiting" =>
        buffer[on[c]] = <<>> /\ pump[on[c]] \in {"new", "recv", "stopping"}

(* _on_track(), "a track nothing can reach any more": no pump runs but the one that   *)
(* the teardown cancels, and none once it is over.                                   *)
NoStrandedPump ==
    \A t \in Track : pump[t] \in {"new", "recv"} => listed /\ t = current /\ session = "open"

(* video(), "the oldest goes when a new one arrives": what waits in a buffer is       *)
(* always the newest frames of the track, in order and without a gap.                *)
NewestKept ==
    \A t \in Track :
        /\ Len(buffer[t]) <= BufferLimit
        /\ \A i \in 1..Len(buffer[t]) : buffer[t][i] = sent[t] - Len(buffer[t]) + i

(* video(), "The iteration ends when the track does": a consumer is not left waiting  *)
(* for a track that has ended, or for a session that is being closed.                *)
WaitEnds ==
    \A c \in Consumers :
        consumer[c] = "waiting" /\ (session = "stopping" \/ on[c] \in over)
            ~> consumer[c] # "waiting"
===============================================================================
