---------------------------- MODULE TrackPump_proofs ----------------------------
(***************************************************************************)
(* For any number of consumers, tracks, frames and entries, and any buffer:   *)
(* a consumer waits only for a pump that will wake it, no pump runs that       *)
(* nothing can reach, and a buffer holds the newest frames of its track.       *)
(***************************************************************************)
EXTENDS TrackPump, SequenceTheorems, TLAPS

\* Tracks are added in order, and one that was not added has no pump.
NotAdded == \A t \in Track : t > current => pump[t] = "none"

\* A pump that has not run has buffered nothing.
NothingBefore == \A t \in Track : pump[t] \in {"none", "new"} => buffer[t] = <<>>

(* The pump that is looked up is one that was made, and runs its finally clause. *)
ListedRuns ==
    /\ listed => pump[current] # "none"
    /\ \A t \in Track : pump[t] = "dropped" => t # current

(* A pump that was replaced is gone before the one in its place takes a step, so  *)
(* that nobody waits for the one while looking at the other's buffer.             *)
ReplacedFirst ==
    \A t \in Track : t # current /\ pump[t] \in {"stopping", "dropped"} =>
        current \in Track /\ pump[current] = "new"

\* What a consumer holds is the buffer of a track that was added.
HoldsAdded ==
    \A c \in Consumers : consumer[c] \in {"yielded", "waiting"} =>
        on[c] \in Track /\ pump[on[c]] # "none"

IInv == /\ TypeOK
        /\ NotAdded /\ NothingBefore
        /\ NoStrandedPump
        /\ ListedRuns /\ ReplacedFirst
        /\ HoldsAdded
        /\ NobodyWaitsInVain

-------------------------------------------------------------------------------
LEMMA LimitIsPositive == BufferLimit \in Int /\ BufferLimit >= 1
BY PumpAssumption DEF BufferLimit, Max

(* cancel() of a pump.                                                            *)
LEMMA CancelIs ==
    ASSUME NEW state
    PROVE  Cancel(state) = IF state = "recv" THEN "stopping"
                           ELSE IF state = "new" THEN "dropped" ELSE state
BY DEF Cancel

LEMMA InitInvariant == Init => IInv
<1> SUFFICES ASSUME Init
             PROVE  IInv
  OBVIOUS
<1>1. TypeOK
  <2>1. buffer \in [Track -> Seq(Nat)]
    BY EmptySeq DEF Init
  <2>2. listed \in BOOLEAN /\ ~listed
    BY DEF Init
  <2>3. QED
    BY <2>1, <2>2, PumpAssumption DEF Init, TypeOK
<1>2. \A t \in Track : pump[t] = "none" /\ buffer[t] = <<>>
  BY DEF Init
<1>3. \A c \in Consumers : consumer[c] = "none"
  BY DEF Init
<1>4. QED
  BY <1>1, <1>2, <1>3 DEF Init, IInv, NotAdded, NothingBefore, NoStrandedPump, ListedRuns,
     ReplacedFirst, HoldsAdded, NobodyWaitsInVain

(* Waking touches those that wait for the track, and nobody waits for it then.    *)
LEMMA WakeupIsForTrack ==
    ASSUME IInv, NEW t, Wakeup(t)
    PROVE  /\ consumer' \in [Consumers -> {"none", "yielded", "waiting", "woken"}]
           /\ \A c \in Consumers : consumer'[c] = "waiting" => consumer[c] = "waiting" /\ on[c] # t
           /\ \A c \in Consumers : consumer'[c] = "yielded" => consumer[c] = "yielded"
BY DEF Wakeup, IInv, TypeOK

LEMMA TracksInvariant ==
    ASSUME IInv, (\E n \in 1..2 : OnTracks(n)) \/ TrackEnds
    PROVE  IInv'
<1> USE PumpAssumption DEF Track
<1>1. ASSUME NEW n \in 1..2, OnTracks(n)
      PROVE  IInv'
  <2> DEFINE New == current + n
  <2>1. /\ current \in Nat /\ New \in 1..MaxTracks /\ New > current
        /\ current' = New /\ listed' = TRUE
        /\ UNCHANGED <<session, buffer, sent, over, consumer, on, opened>>
        /\ \A t \in Track : pump[t] \notin Scheduled
    BY <1>1 DEF OnTracks, NothingReady, source, reading, IInv, TypeOK
  <2>2. /\ pump' \in [Track -> {"none", "new", "recv", "done", "stopping", "dropped"}]
        /\ pump'[New] = "new"
        /\ \A t \in Track : t > New => pump'[t] = pump[t]
        /\ \A t \in Track : t > current /\ t < New => pump'[t] = "dropped"
        /\ \A t \in Track : t < current => pump'[t] = pump[t]
        /\ current \in Track => pump'[current] = IF listed THEN Cancel(pump[current])
                                                 ELSE pump[current]
    <3>1. pump' = [t \in Track |->
                     CASE t = current /\ listed -> Cancel(pump[t])
                       [] t \in current + 1 .. New - 1 -> Cancel("new")
                       [] t = New -> "new"
                       [] OTHER -> pump[t]]
      BY <1>1 DEF OnTracks
    <3>2. ASSUME NEW t \in Track
          PROVE  pump'[t] = IF t = current /\ listed THEN Cancel(pump[t])
                            ELSE IF current < t /\ t < New THEN "dropped"
                            ELSE IF t = New THEN "new" ELSE pump[t]
      <4>1. t \in Int /\ (t \in current + 1 .. New - 1 <=> current < t /\ t < New)
        BY <2>1
      <4>2. Cancel("new") = "dropped"
        BY CancelIs
      <4>3. QED
        BY <2>1, <3>1, <4>1, <4>2
    <3>3. \A t \in Track : Cancel(pump[t]) \in {"none", "recv", "done", "stopping", "dropped"}
      BY CancelIs DEF IInv, TypeOK
    <3>4. pump' \in [Track -> {"none", "new", "recv", "done", "stopping", "dropped"}]
      <4>1. \A t \in Track : pump'[t] \in {"none", "new", "recv", "done", "stopping", "dropped"}
        BY <3>2, <3>3 DEF IInv, TypeOK
      <4>2. QED
        BY <3>1, <4>1
    <3>5. QED
      BY <2>1, <3>2, <3>4
  <2> HIDE DEF New
  <2>3. \A t \in Track : t <= current =>
            \/ pump'[t] = pump[t] /\ pump[t] \in {"none", "done"}
            \/ pump'[t] = "stopping" /\ pump[t] = "recv"
    <3> SUFFICES ASSUME NEW t \in Track, t <= current
                 PROVE  \/ pump'[t] = pump[t] /\ pump[t] \in {"none", "done"}
                        \/ pump'[t] = "stopping" /\ pump[t] = "recv"
      OBVIOUS
    <3>1. pump[t] \in {"none", "recv", "done"}
      BY <2>1 DEF Scheduled, IInv, TypeOK
    <3>2. pump[t] = "recv" => listed /\ t = current
      BY DEF IInv, NoStrandedPump
    <3>3. QED
      BY <2>1, <2>2, <3>1, <3>2, CancelIs
  <2>4. TypeOK'
    BY <2>1, <2>2 DEF IInv, TypeOK
  <2>5. NotAdded'
    BY <2>1, <2>2 DEF IInv, NotAdded
  <2>6. NothingBefore'
    <3>1. \A t \in Track : pump'[t] \in {"none", "new"} => pump[t] = "none"
      BY <2>1, <2>2, <2>3 DEF IInv, NotAdded
    <3>2. QED
      BY <2>1, <3>1 DEF IInv, NothingBefore
  <2>7. NoStrandedPump'
    <3>1. session = "open"
      BY <1>1 DEF OnTracks
    <3>2. \A t \in Track : pump'[t] \in {"new", "recv"} => t = New
      BY <2>1, <2>2, <2>3 DEF IInv, NotAdded
    <3>3. QED
      BY <2>1, <3>1, <3>2 DEF NoStrandedPump
  <2>8. ListedRuns' /\ ReplacedFirst'
    BY <2>1, <2>2 DEF ListedRuns, ReplacedFirst
  <2>9. HoldsAdded' /\ NobodyWaitsInVain'
    <3>1. \A t \in Track : pump[t] # "none" => t <= current
      BY <2>1 DEF IInv, NotAdded
    <3>2. HoldsAdded'
      BY <2>1, <2>3, <3>1 DEF IInv, HoldsAdded
    <3>3. \A c \in Consumers : consumer[c] = "waiting" => on[c] \in Track /\ on[c] <= current
      BY <3>1 DEF IInv, HoldsAdded
    <3>4. NobodyWaitsInVain'
      BY <2>1, <2>3, <3>3 DEF IInv, NobodyWaitsInVain
    <3>5. QED
      BY <3>2, <3>4
  <2>10. QED
    BY <2>4, <2>5, <2>6, <2>7, <2>8, <2>9 DEF IInv
<1>2. CASE TrackEnds
  BY <1>2 DEF TrackEnds, tracks, reading, IInv, TypeOK, NotAdded, NothingBefore, NoStrandedPump,
     ListedRuns, ReplacedFirst, HoldsAdded, NobodyWaitsInVain
<1>3. QED
  BY <1>1, <1>2
-------------------------------------------------------------------------------
LEMMA PumpInvariant ==
    ASSUME IInv, NEW t \in Track, Pump(t)
    PROVE  IInv'
<1> USE PumpAssumption
<1>1. CASE PumpStarts(t)
  <2>1. /\ pump[t] = "new" /\ pump' = [pump EXCEPT ![t] = "recv"]
        /\ \A u \in Track : pump[u] \notin {"stopping", "dropped"}
        /\ UNCHANGED <<session, current, listed, buffer, sent, over, consumer, on, opened>>
    BY <1>1 DEF PumpStarts, tracks, source, reading
  <2>2. t = current
    BY <2>1 DEF IInv, NoStrandedPump
  <2>3. QED
    BY <2>1, <2>2 DEF IInv, TypeOK, NotAdded, NothingBefore, NoStrandedPump, ListedRuns,
       ReplacedFirst, HoldsAdded, NobodyWaitsInVain
<1>2. CASE PumpReceives(t)
  <2>1. /\ pump[t] = "recv"
        /\ sent' = [sent EXCEPT ![t] = @ + 1]
        /\ buffer' = [buffer EXCEPT ![t] = Buffered(t, sent'[t])]
        /\ Wakeup(t)
        /\ UNCHANGED <<session, current, listed, pump, over, on, opened>>
    BY <1>2 DEF PumpReceives, tracks
  <2>2. sent' \in [Track -> Nat] /\ sent'[t] \in Nat
    BY <2>1 DEF IInv, TypeOK
  <2>3. buffer' \in [Track -> Seq(Nat)]
    <3>1. buffer[t] \in Seq(Nat)
      BY DEF IInv, TypeOK
    <3>2. Buffered(t, sent'[t]) \in Seq(Nat)
      <4>1. CASE Len(buffer[t]) = BufferLimit
        BY <2>2, <3>1, <4>1, LimitIsPositive, EmptySeq, HeadTailProperties, AppendProperties
           DEF Buffered
      <4>2. CASE Len(buffer[t]) # BufferLimit
        BY <2>2, <3>1, <4>2, AppendProperties DEF Buffered
      <4>3. QED
        BY <4>1, <4>2
    <3>3. QED
      BY <2>1, <3>2 DEF IInv, TypeOK
  <2>4. TypeOK'
    BY <2>1, <2>2, <2>3, WakeupIsForTrack DEF IInv, TypeOK
  <2>5. HoldsAdded' /\ NobodyWaitsInVain'
    BY <2>1, WakeupIsForTrack DEF IInv, TypeOK, HoldsAdded, NobodyWaitsInVain
  <2>6. QED
    BY <2>1, <2>4, <2>5 DEF IInv, NotAdded, NothingBefore, NoStrandedPump, ListedRuns, ReplacedFirst,
       TypeOK
<1>3. ASSUME PumpEnds(t) \/ PumpCancelled(t)
      PROVE  IInv'
  <2>1. /\ pump[t] \in {"recv", "stopping", "dropped"} /\ pump' = [pump EXCEPT ![t] = "done"]
        /\ Wakeup(t) \/ (pump[t] = "dropped" /\ UNCHANGED consumer)
        /\ UNCHANGED <<session, current, listed, buffer, sent, over, on, opened>>
    BY <1>3 DEF PumpEnds, PumpCancelled, tracks, source
  <2>2. /\ consumer' \in [Consumers -> {"none", "yielded", "waiting", "woken"}]
        /\ \A c \in Consumers : consumer'[c] = "waiting" => consumer[c] = "waiting" /\ on[c] # t
        /\ \A c \in Consumers : consumer'[c] = "yielded" => consumer[c] = "yielded"
    <3>1. CASE Wakeup(t)
      BY <3>1, WakeupIsForTrack
    <3>2. CASE pump[t] = "dropped" /\ UNCHANGED consumer
      BY <3>2 DEF IInv, TypeOK, NobodyWaitsInVain
    <3>3. QED
      BY <2>1, <3>1, <3>2
  <2>3. TypeOK'
    BY <2>1, <2>2 DEF IInv, TypeOK
  <2>4. HoldsAdded' /\ NobodyWaitsInVain'
    BY <2>1, <2>2 DEF IInv, TypeOK, HoldsAdded, NobodyWaitsInVain
  <2>5. ReplacedFirst'
    BY <2>1 DEF IInv, TypeOK, ReplacedFirst, NoStrandedPump
  <2>6. QED
    BY <2>1, <2>3, <2>4, <2>5 DEF IInv, TypeOK, NotAdded, NothingBefore, NoStrandedPump, ListedRuns
<1>4. QED
  BY <1>1, <1>2, <1>3 DEF Pump
-------------------------------------------------------------------------------
(* A consumer takes a frame: it was there, so nobody waits for that track.        *)
LEMMA YieldInvariant ==
    ASSUME IInv, NEW c \in Consumers, NEW t \in Track, Yield(c, t),
           UNCHANGED <<session, tracks, pump, source, opened>>
    PROVE  IInv'
<1>1. /\ buffer[t] \in Seq(Nat) /\ buffer[t] # <<>>
      /\ buffer' = [buffer EXCEPT ![t] = Tail(@)]
      /\ consumer' = [consumer EXCEPT ![c] = "yielded"] /\ on' = [on EXCEPT ![c] = t]
      /\ UNCHANGED <<session, current, listed, pump, sent, over, opened>>
  BY DEF Yield, Becomes, tracks, source, IInv, TypeOK
<1>2. pump[t] \notin {"none", "new"}
  BY <1>1 DEF IInv, NothingBefore
<1>3. TypeOK'
  <2>1. buffer' \in [Track -> Seq(Nat)]
    BY <1>1, HeadTailProperties DEF IInv, TypeOK
  <2>2. t \in 0..MaxTracks
    BY PumpAssumption DEF Track
  <2>3. QED
    BY <1>1, <2>1, <2>2 DEF IInv, TypeOK
<1>4. HoldsAdded'
  BY <1>1, <1>2 DEF IInv, TypeOK, HoldsAdded
<1>5. NobodyWaitsInVain'
  BY <1>1 DEF IInv, TypeOK, NobodyWaitsInVain
<1>6. NothingBefore'
  BY <1>1, <1>2 DEF IInv, TypeOK, NothingBefore
<1>7. QED
  BY <1>1, <1>3, <1>4, <1>5, <1>6 DEF IInv, NotAdded, NoStrandedPump, ListedRuns, ReplacedFirst

(* It finds none: whatever the track it held, the current one has none either, and  *)
(* a pump that will wake it.                                                        *)
LEMMA RunsDryInvariant ==
    ASSUME IInv, NEW c \in Consumers, NEW t \in Track, RunsDry(c, t), pump[t] # "none",
           UNCHANGED <<session, tracks, pump, source, opened>>
    PROVE  IInv'
<1>1. PICK state \in {"none", "waiting"}, track \in 0..MaxTracks :
        /\ consumer' = [consumer EXCEPT ![c] = state] /\ on' = [on EXCEPT ![c] = track]
        /\ state = "waiting" => track = current /\ pump[t] # "done"
  <2>1. 0 \in 0..MaxTracks /\ current \in 0..MaxTracks
    BY PumpAssumption DEF IInv, TypeOK
  <2>2. CASE pump[t] = "done" /\ Becomes(c, "none", 0)
    BY <2>1, <2>2 DEF Becomes
  <2>3. CASE pump[t] # "done" /\ Becomes(c, "waiting", current)
    BY <2>1, <2>3 DEF Becomes
  <2>4. QED
    BY <2>2, <2>3 DEF RunsDry
<1>2. /\ buffer[t] = <<>>
      /\ UNCHANGED <<session, current, listed, pump, buffer, sent, over, opened>>
  BY DEF RunsDry, tracks, source
<1>3. state = "waiting" =>
        /\ current \in Track /\ buffer[current] = <<>>
        /\ pump[current] \in {"new", "recv", "stopping"}
  <2>1. CASE t = current
    BY <1>1, <1>2, <2>1 DEF IInv, TypeOK, ListedRuns
  <2>2. CASE t # current
    <3>1. pump[t] \notin {"new", "recv"}
      BY <2>2 DEF IInv, NoStrandedPump
    <3>2. state = "waiting" => pump[t] \in {"stopping", "dropped"}
      BY <1>1, <3>1 DEF IInv, TypeOK
    <3>3. QED
      BY <2>2, <3>2 DEF IInv, ReplacedFirst, NothingBefore
  <2>3. QED
    BY <2>1, <2>2
<1>4. TypeOK'
  BY <1>1, <1>2 DEF IInv, TypeOK
<1>5. HoldsAdded' /\ NobodyWaitsInVain'
  BY <1>1, <1>2, <1>3 DEF IInv, TypeOK, HoldsAdded, NobodyWaitsInVain
<1>6. QED
  BY <1>2, <1>4, <1>5 DEF IInv, NotAdded, NothingBefore, NoStrandedPump, ListedRuns, ReplacedFirst

LEMMA LookInvariant ==
    ASSUME IInv, NEW c \in Consumers, Look(c), UNCHANGED <<session, tracks, pump, source, opened>>
    PROVE  IInv'
<1>1. CASE listed
  <2>1. current \in Track /\ pump[current] # "none"
    BY <1>1 DEF IInv, TypeOK, ListedRuns, Track
  <2>2. Yield(c, current) \/ RunsDry(c, current)
    BY <1>1 DEF Look
  <2>3. QED
    BY <2>1, <2>2, YieldInvariant, RunsDryInvariant
<1>2. CASE ~listed
  <2>1. /\ consumer' = [consumer EXCEPT ![c] = "none"] /\ on' = [on EXCEPT ![c] = 0]
        /\ UNCHANGED <<session, current, listed, pump, buffer, sent, over, opened>>
    BY <1>2 DEF Look, Becomes, tracks, source
  <2>2. QED
    BY <2>1, PumpAssumption DEF IInv, TypeOK, NotAdded, NothingBefore, NoStrandedPump, ListedRuns,
       ReplacedFirst, HoldsAdded, NobodyWaitsInVain
<1>3. QED
  BY <1>1, <1>2

LEMMA ConsumerInvariant ==
    ASSUME IInv, NEW c \in Consumers, Consumer(c)
    PROVE  IInv'
<1>1. CASE Iterate(c)
  BY <1>1, LookInvariant DEF Iterate
<1>2. CASE Resume(c)
  <2>1. on[c] \in Track /\ pump[on[c]] # "none"
    BY <1>2 DEF Resume, IInv, HoldsAdded
  <2>2. QED
    BY <1>2, <2>1, YieldInvariant, RunsDryInvariant DEF Resume
<1>3. CASE WakesUp(c)
  BY <1>3, LookInvariant DEF WakesUp
<1>4. CASE Leave(c)
  <2>1. /\ consumer' = [consumer EXCEPT ![c] = "none"] /\ on' = [on EXCEPT ![c] = 0]
        /\ UNCHANGED <<session, current, listed, pump, buffer, sent, over, opened>>
    BY <1>4 DEF Leave, Becomes, tracks, source
  <2>2. QED
    BY <2>1, PumpAssumption DEF IInv, TypeOK, NotAdded, NothingBefore, NoStrandedPump, ListedRuns,
       ReplacedFirst, HoldsAdded, NobodyWaitsInVain
<1>5. QED
  BY <1>1, <1>2, <1>3, <1>4 DEF Consumer
-------------------------------------------------------------------------------
LEMMA BlockInvariant ==
    ASSUME IInv, Enter \/ Exit \/ PumpStopped \/ Closed
    PROVE  IInv'
<1> USE PumpAssumption
<1>1. CASE Enter
  <2>1. \A t \in Track : pump[t] \notin {"new", "recv"}
    BY <1>1 DEF Enter, IInv, NoStrandedPump
  <2>2. QED
    BY <1>1, <2>1 DEF Enter, tracks, source, reading, IInv, TypeOK, NotAdded, NothingBefore,
       NoStrandedPump, ListedRuns, ReplacedFirst, HoldsAdded, NobodyWaitsInVain
<1>2. CASE Exit
  <2>1. /\ \A t \in Track : pump[t] # "new"
        /\ UNCHANGED <<current, buffer, sent, over, consumer, on, opened>>
    BY <1>2 DEF Exit, source, reading
  <2>2. CASE listed /\ pump[current] # "done"
    <3>1. /\ current \in Track /\ listed' = listed /\ session' = "stopping"
          /\ pump' = [pump EXCEPT ![current] = Cancel(@)]
      <4>1. current \in Track
        BY <2>2 DEF IInv, TypeOK, Track
      <4>2. QED
        BY <1>2, <2>2, <4>1 DEF Exit
    <3>2. pump[current] \in {"recv", "stopping"}
      BY <2>1, <2>2, <3>1 DEF IInv, TypeOK, ListedRuns
    <3>3. pump' = [pump EXCEPT ![current] = "stopping"]
      BY <3>1, <3>2, CancelIs
    <3>4. \A t \in Track : pump'[t] \notin {"new", "recv"}
      BY <2>1, <3>1, <3>3 DEF IInv, TypeOK, NoStrandedPump
    <3>5. TypeOK' /\ NoStrandedPump'
      BY <2>1, <3>1, <3>3, <3>4 DEF IInv, TypeOK, NoStrandedPump
    <3>6. HoldsAdded' /\ NobodyWaitsInVain'
      BY <2>1, <3>1, <3>3 DEF IInv, TypeOK, HoldsAdded, NobodyWaitsInVain
    <3>7. NotAdded' /\ NothingBefore' /\ ListedRuns' /\ ReplacedFirst'
      BY <2>1, <3>1, <3>3 DEF IInv, TypeOK, NotAdded, NothingBefore, ListedRuns, ReplacedFirst
    <3>8. QED
      BY <3>5, <3>6, <3>7 DEF IInv
  <2>3. CASE listed => pump[current] = "done"
    <3>1. listed' = FALSE /\ session' = "leaving" /\ pump' = pump
      BY <1>2, <2>3 DEF Exit
    <3>2. \A t \in Track : pump[t] \notin {"new", "recv"}
      BY <2>3 DEF IInv, NoStrandedPump
    <3>3. QED
      BY <2>1, <3>1, <3>2 DEF IInv, TypeOK, NotAdded, NothingBefore, NoStrandedPump, ListedRuns,
         ReplacedFirst, HoldsAdded, NobodyWaitsInVain
  <2>4. QED
    BY <2>2, <2>3
<1>3. CASE PumpStopped
  <2>1. /\ session' = "leaving" /\ listed' = FALSE
        /\ UNCHANGED <<current, pump, buffer, sent, over, consumer, on, opened>>
    BY <1>3 DEF PumpStopped, source, reading
  <2>2. \A t \in Track : pump[t] \notin {"new", "recv"}
    BY <1>3 DEF PumpStopped, IInv, NoStrandedPump
  <2>3. QED
    BY <2>1, <2>2 DEF IInv, TypeOK, NotAdded, NothingBefore, NoStrandedPump, ListedRuns,
       ReplacedFirst, HoldsAdded, NobodyWaitsInVain
<1>4. CASE Closed
  <2>1. \A t \in Track : pump[t] \notin {"new", "recv"}
    BY <1>4 DEF Closed, IInv, NoStrandedPump
  <2>2. QED
    BY <1>4, <2>1 DEF Closed, tracks, source, reading, IInv, TypeOK, NotAdded, NothingBefore,
       NoStrandedPump, ListedRuns, ReplacedFirst, HoldsAdded, NobodyWaitsInVain
<1>5. QED
  BY <1>1, <1>2, <1>3, <1>4

LEMMA StepInvariant == IInv /\ [Next]_vars => IInv'
<1> SUFFICES ASSUME IInv, [Next]_vars
             PROVE  IInv'
  OBVIOUS
<1>1. CASE Next
  BY <1>1, TracksInvariant, PumpInvariant, ConsumerInvariant, BlockInvariant DEF Next
<1>2. CASE UNCHANGED vars
  BY <1>2 DEF vars, tracks, source, reading, IInv, TypeOK, NotAdded, NothingBefore, NoStrandedPump,
     ListedRuns, ReplacedFirst, HoldsAdded, NobodyWaitsInVain
<1>3. QED
  BY <1>1, <1>2

LEMMA Invariance == Spec => []IInv
BY InitInvariant, StepInvariant, PTL DEF Spec
-------------------------------------------------------------------------------
(* _on_track(), __aexit__(): whatever tracks replace one another, and whenever the  *)
(* block is left, the pump that runs is the one the next teardown cancels.          *)
THEOREM NoPumpIsStranded == Spec => []NoStrandedPump
<1>1. IInv => NoStrandedPump
  BY DEF IInv
<1>2. QED
  BY <1>1, Invariance, PTL

(* _pump(), _frames(): however many consumers take each other's frames, one that    *)
(* waits has missed none, and waits for a pump that will wake it.                   *)
THEOREM WaitersAreWoken == Spec => []NobodyWaitsInVain
<1>1. IInv => NobodyWaitsInVain
  BY DEF IInv
<1>2. QED
  BY <1>1, Invariance, PTL
-------------------------------------------------------------------------------
\* The frames up to number n that are the newest, in order and without a gap.
EndsAt(frames, n) == \A i \in 1..Len(frames) : frames[i] = n - Len(frames) + i

LEMMA AppendNewest ==
    ASSUME NEW frames \in Seq(Nat), NEW n \in Nat, EndsAt(frames, n)
    PROVE  /\ Len(Append(frames, n + 1)) = Len(frames) + 1
           /\ EndsAt(Append(frames, n + 1), n + 1)
<1> DEFINE after == Append(frames, n + 1)
<1>1. Len(frames) \in Nat
  BY LenProperties
<1>2. /\ Len(after) = Len(frames) + 1
      /\ \A i \in 1..Len(frames) : after[i] = frames[i]
      /\ after[Len(frames) + 1] = n + 1
  BY AppendProperties
<1> HIDE DEF after
<1>3. \A i \in 1..Len(frames) : after[i] = n - Len(frames) + i
  BY <1>2 DEF EndsAt
<1>4. ASSUME NEW i \in 1..Len(after)
      PROVE  after[i] = n + 1 - Len(after) + i
  <2>1. CASE i = Len(frames) + 1
    BY <1>1, <1>2, <2>1
  <2>2. CASE i # Len(frames) + 1
    BY <1>1, <1>2, <1>3, <2>2
  <2>3. QED
    BY <2>1, <2>2
<1>5. EndsAt(after, n + 1)
  BY <1>4 DEF EndsAt
<1>6. QED
  BY <1>2, <1>5 DEF after

LEMMA TailIsNewest ==
    ASSUME NEW frames \in Seq(Nat), NEW n \in Nat, frames # <<>>, EndsAt(frames, n)
    PROVE  /\ Tail(frames) \in Seq(Nat) /\ Len(Tail(frames)) = Len(frames) - 1
           /\ EndsAt(Tail(frames), n)
<1> DEFINE kept == Tail(frames)
<1>1. Len(frames) \in Nat
  BY LenProperties
<1>2. /\ kept \in Seq(Nat) /\ Len(kept) = Len(frames) - 1
      /\ \A i \in 1..Len(kept) : kept[i] = frames[i + 1]
  BY HeadTailProperties
<1>3. EndsAt(kept, n)
  <2> SUFFICES ASSUME NEW i \in 1..Len(kept)
               PROVE  kept[i] = n - Len(kept) + i
    BY DEF EndsAt
  <2>1. kept[i] = frames[i + 1] /\ i + 1 \in 1..Len(frames)
    BY <1>1, <1>2
  <2>2. frames[i + 1] = n - Len(frames) + (i + 1)
    BY <2>1 DEF EndsAt
  <2>3. QED
    BY <1>1, <1>2, <2>1, <2>2
<1>4. QED
  BY <1>2, <1>3

(* deque.append() of the next frame drops the oldest when there is no room.          *)
LEMMA BufferedIsNewest ==
    ASSUME NEW t \in Track, NEW n \in Nat, buffer[t] \in Seq(Nat), Len(buffer[t]) <= BufferLimit,
           EndsAt(buffer[t], n)
    PROVE  Len(Buffered(t, n + 1)) <= BufferLimit /\ EndsAt(Buffered(t, n + 1), n + 1)
<1> DEFINE before == buffer[t]
<1>1. before \in Seq(Nat) /\ Len(before) \in Nat /\ Len(before) <= BufferLimit
  BY LenProperties
<1>2. EndsAt(before, n)
  OBVIOUS
<1>3. BufferLimit \in Int /\ BufferLimit >= 1
  BY LimitIsPositive
<1>4. Buffered(t, n + 1) = IF Len(before) = BufferLimit THEN Append(Tail(before), n + 1)
                                                        ELSE Append(before, n + 1)
  BY DEF Buffered
<1> HIDE DEF before
<1>5. CASE Len(before) = BufferLimit
  <2>1. before # <<>>
    BY <1>1, <1>3, <1>5, EmptySeq
  <2> DEFINE kept == Tail(before)
  <2>2. kept \in Seq(Nat) /\ Len(kept) = Len(before) - 1
    BY <1>1, <1>2, <2>1, TailIsNewest
  <2>3. EndsAt(kept, n)
    BY <1>1, <1>2, <2>1, TailIsNewest
  <2>4. kept \in Seq(Nat) /\ Len(kept) + 1 = Len(before) /\ Buffered(t, n + 1) = Append(kept, n + 1)
    BY <1>1, <1>4, <1>5, <2>2
  <2> HIDE DEF kept
  <2>5. Len(Append(kept, n + 1)) = Len(kept) + 1 /\ EndsAt(Append(kept, n + 1), n + 1)
    BY <2>3, <2>4, AppendNewest
  <2>6. Len(Append(kept, n + 1)) <= BufferLimit
    BY <1>1, <2>4, <2>5
  <2>7. QED
    BY <2>4, <2>5, <2>6
<1>6. CASE Len(before) # BufferLimit
  <2>1. Len(Append(before, n + 1)) = Len(before) + 1 /\ EndsAt(Append(before, n + 1), n + 1)
    BY <1>1, <1>2, AppendNewest
  <2>2. Len(Append(before, n + 1)) <= BufferLimit
    BY <1>1, <1>3, <1>6, <2>1
  <2>3. Buffered(t, n + 1) = Append(before, n + 1)
    BY <1>4, <1>6
  <2>4. QED
    BY <2>1, <2>2, <2>3
<1>7. QED
  BY <1>5, <1>6

(* Frames are taken from the buffer of a track that was added, or not at all.       *)
LEMMA TakenFromOne ==
    ASSUME IInv, NEW c \in Consumers, Consumer(c)
    PROVE  UNCHANGED sent /\ (UNCHANGED buffer \/ \E t \in Track : Yield(c, t))
<1>1. listed => current \in Track
  BY DEF IInv, TypeOK, Track
<1>2. CASE Iterate(c) \/ WakesUp(c)
  BY <1>1, <1>2 DEF Iterate, WakesUp, Look, RunsDry, source
<1>3. CASE Resume(c)
  BY <1>3 DEF Resume, RunsDry, source, IInv, HoldsAdded
<1>4. CASE Leave(c)
  BY <1>4 DEF Leave, source
<1>5. QED
  BY <1>2, <1>3, <1>4 DEF Consumer

LEMMA NewestStep == IInv /\ NewestKept /\ [Next]_vars => NewestKept'
<1> SUFFICES ASSUME IInv, NewestKept, [Next]_vars
             PROVE  NewestKept'
  OBVIOUS
<1>1. ASSUME NEW t \in Track, PumpReceives(t)
      PROVE  NewestKept'
  <2>1. /\ sent' = [sent EXCEPT ![t] = @ + 1]
        /\ buffer' = [buffer EXCEPT ![t] = Buffered(t, sent'[t])]
    BY <1>1 DEF PumpReceives
  <2>2. sent[t] \in Nat /\ sent'[t] = sent[t] + 1
    BY <2>1 DEF IInv, TypeOK
  <2>3. buffer'[t] = Buffered(t, sent[t] + 1)
    BY <2>1, <2>2 DEF IInv, TypeOK
  <2>4. /\ buffer[t] \in Seq(Nat) /\ Len(buffer[t]) <= BufferLimit
        /\ EndsAt(buffer[t], sent[t])
    BY DEF IInv, TypeOK, NewestKept, EndsAt
  <2>5. Len(buffer'[t]) <= BufferLimit /\ EndsAt(buffer'[t], sent'[t])
    BY <2>2, <2>3, <2>4, BufferedIsNewest
  <2>6. \A u \in Track : u # t => buffer'[u] = buffer[u] /\ sent'[u] = sent[u]
    BY <2>1 DEF IInv, TypeOK
  <2>7. QED
    BY <2>5, <2>6 DEF NewestKept, EndsAt, BufferLimit
<1>2. ASSUME NEW c \in Consumers, NEW t \in Track, Yield(c, t), UNCHANGED sent
      PROVE  NewestKept'
  <2>1. buffer[t] \in Seq(Nat) /\ buffer[t] # <<>> /\ buffer' = [buffer EXCEPT ![t] = Tail(@)]
    BY <1>2 DEF Yield, IInv, TypeOK
  <2>2. buffer'[t] = Tail(buffer[t])
    BY <2>1 DEF IInv, TypeOK
  <2>3. sent[t] \in Nat /\ Len(buffer[t]) \in Nat
    BY <2>1, LenProperties DEF IInv, TypeOK
  <2>4. Len(buffer'[t]) <= BufferLimit /\ EndsAt(buffer'[t], sent[t])
    <3>1. Len(buffer[t]) <= BufferLimit /\ EndsAt(buffer[t], sent[t])
      BY DEF NewestKept, EndsAt
    <3>2. Len(buffer'[t]) = Len(buffer[t]) - 1 /\ EndsAt(buffer'[t], sent[t])
      BY <2>1, <2>2, <2>3, <3>1, TailIsNewest
    <3>3. QED
      BY <2>3, <3>1, <3>2, LimitIsPositive
  <2>5. \A u \in Track : u # t => buffer'[u] = buffer[u]
    BY <2>1 DEF IInv, TypeOK
  <2>6. QED
    BY <1>2, <2>4, <2>5 DEF NewestKept, EndsAt, BufferLimit
<1>3. CASE UNCHANGED <<buffer, sent>>
  BY <1>3 DEF NewestKept, BufferLimit
<1>4. ASSUME NEW t \in Track, PumpStarts(t) \/ PumpEnds(t) \/ PumpCancelled(t)
      PROVE  NewestKept'
  BY <1>3, <1>4 DEF PumpStarts, PumpEnds, PumpCancelled, source
<1>5. CASE (\E n \in 1..2 : OnTracks(n)) \/ TrackEnds
  BY <1>3, <1>5 DEF OnTracks, TrackEnds, source
<1>6. CASE Enter \/ Exit \/ PumpStopped \/ Closed
  BY <1>3, <1>6 DEF Enter, Exit, PumpStopped, Closed, source
<1>7. CASE UNCHANGED vars
  BY <1>3, <1>7 DEF vars, source
<1>8. QED
  BY <1>1, <1>2, <1>3, <1>4, <1>5, <1>6, <1>7, TakenFromOne DEF Next, Pump

(* video(), "the oldest goes when a new one arrives": for any length of the buffer,  *)
(* what waits in it is the newest frames of the track, in order and without a gap.   *)
THEOREM NewestAreKept == Spec => []NewestKept
<1>1. Init => NewestKept
  <2> SUFFICES ASSUME Init, NEW t \in Track
               PROVE  Len(buffer[t]) <= BufferLimit /\ Len(buffer[t]) = 0
    BY DEF NewestKept
  <2>1. Len(buffer[t]) = 0
    BY EmptySeq DEF Init
  <2>2. QED
    BY <2>1, LimitIsPositive
<1>2. QED
  BY <1>1, NewestStep, Invariance, PTL DEF Spec
===============================================================================
