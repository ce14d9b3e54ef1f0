------------------------------ MODULE EventBuffer ------------------------------
(***************************************************************************)
(* The event buffer of PiKVMWebSocket (src/aiopikvm/_ws.py): the queue the   *)
(* reader fills, the carry that keeps what the queue had no room for, and    *)
(* the states() iterator that merges what it takes out.                      *)
(*                                                                           *)
(* One step is what the code does without awaiting: the reader buffering one *)
(* event, the iterator taking one.  The tasks around it, and what wakes      *)
(* them, are in EventSocket.                                                 *)
(***************************************************************************)
EXTENDS StateMerge, Naturals, Sequences

CONSTANTS Types,         \* event types
          StateTypes,    \* those in _STATE_MODELS, which produce a snapshot
          Bodies,        \* payloads kvmd sends
          NoBody,        \* an event whose payload is not an object; an absent key
          Required,      \* the paths every state model requires
          PendingLimit,  \* _PENDING_LIMIT
          MaxHeard,      \* bound: events per connection
          MaxIterators,  \* bound: states() calls per connection
          MaxOpened      \* bound: connections

ASSUME BufferAssumption ==
    /\ StateTypes \subseteq Types
    /\ Bodies \subseteq Payloads
    /\ NoBody \notin Payloads
    /\ Required \subseteq Path
    /\ PendingLimit \in Nat \ {0}
    /\ MaxHeard \in Nat /\ MaxIterators \in Nat /\ MaxOpened \in Nat

VARIABLES
    pending,   \* self._pending, oldest first
    carry,     \* self._carry; NoBody where it has no such key
    iterator,  \* the states() generator: "none", "running", "failed"
    seen,      \* its `seen`: the merged payloads it has yielded, by type
    heard, iterators, opened,   \* counters the bounds are on
    (* History variables: what kvmd said of each type, all of it, after each   *)
    (* of its events; how many of those events have left the queue; and the    *)
    (* last one the snapshot shows.                                            *)
    history, left, shown

buffer == <<pending, carry>>
ghosts == <<history, left, shown>>
counters == <<heard, iterators, opened>>
vars == <<pending, carry, iterator, seen, counters, ghosts>>

Known(v) == IF v = NoBody THEN Empty ELSE v   \* dict.get(key, {})

\* What a history of full states says after its first n events.
Truth(past, n) == IF n = 0 THEN Empty ELSE past[n]

\* An event; `at` is the history variable saying which event of its type it is.
Events == [type : Types, body : Payloads \cup {NoBody}, at : Nat]
-------------------------------------------------------------------------------
NoKeys == [t \in Types |-> NoBody]    \* {}
NoneYet == [t \in Types |-> 0]

Init ==
    /\ pending = <<>>
    /\ carry = NoKeys
    /\ iterator = "none"
    /\ seen = NoKeys
    /\ heard = 0 /\ iterators = 0 /\ opened = 1
    /\ history = [t \in Types |-> <<>>]
    /\ left = NoneYet /\ shown = NoneYet
-------------------------------------------------------------------------------
(* Mutated forms of CarryOver. *)

\* The carry keeps only the last event that was dropped.
CarryReplaces(dropped) ==
    IF dropped.body = NoBody
    THEN UNCHANGED <<carry, left>>
    ELSE /\ carry' = [carry EXCEPT ![dropped.type] = dropped.body]
         /\ left' = [left EXCEPT ![dropped.type] = dropped.at]

\* What is dropped is gone.
CarryNothing(dropped) ==
    /\ left' = IF dropped.body = NoBody THEN left
               ELSE [left EXCEPT ![dropped.type] = dropped.at]
    /\ UNCHANGED carry

\* _carry_over(): only an object payload has anything to keep.
CarryOver(dropped) ==
    IF dropped.body = NoBody
    THEN UNCHANGED <<carry, left>>
    ELSE /\ carry' = [carry EXCEPT ![dropped.type] = Merge(Known(@), dropped.body)]
         /\ left' = [left EXCEPT ![dropped.type] = dropped.at]

\* _buffer(): drop the oldest event into the carry when there is no room.
Buffer(event) ==
    \/ /\ Len(pending) < PendingLimit
       /\ pending' = Append(pending, event)
       /\ UNCHANGED <<carry, left>>
    \/ /\ Len(pending) >= PendingLimit
       /\ pending' = Append(Tail(pending), event)
       /\ CarryOver(Head(pending))

\* The first time kvmd speaks of a subsystem it sends all of it.
FullFirst(t, body) ==
    t \in StateTypes /\ history[t] = <<>> /\ body # NoBody => Required \subseteq DOMAIN body

\* The reader takes an event off the socket.
Hear(t, body) ==
    /\ heard < MaxHeard
    /\ FullFirst(t, body)
    /\ heard' = heard + 1
    /\ history' = IF body = NoBody THEN history
                  ELSE [history EXCEPT ![t] = Append(@, Merge(Truth(@, Len(@)), body))]
    /\ Buffer([type |-> t, body |-> body, at |-> Len(history'[t])])
    /\ UNCHANGED <<iterator, seen, shown, iterators, opened>>
-------------------------------------------------------------------------------
\* A mutated form of Folded: what was dropped wins over the later event.
FoldedBackwards(event) ==
    LET carried == carry[event.type]
    IN  IF carried = NoBody THEN event.body
        ELSE IF event.body = NoBody THEN carried
        ELSE Merge(event.body, carried)

\* The payload _next_event() hands over: what was dropped, with this merged over.
Folded(event) ==
    LET carried == carry[event.type]
    IN  IF carried = NoBody THEN event.body
        ELSE IF event.body = NoBody THEN carried
        ELSE Merge(carried, event.body)

\* How far into its history that payload takes the subsystem.
FoldedAt(event) == IF event.body = NoBody THEN left[event.type] ELSE event.at

\* _next_event(): take the oldest event, and the carry of its type with it.
NextEvent(event) ==
    /\ pending' = Tail(pending)
    /\ carry' = [carry EXCEPT ![event.type] = NoBody]
    /\ left' = [left EXCEPT ![event.type] = FoldedAt(event)]

\* A merged payload that does not fit its model makes states() raise ResponseError.
Validated(merged) == IF Required \subseteq DOMAIN merged THEN "running" ELSE "failed"

\* states() takes an event that says nothing of the device, and goes on.
TakeOther ==
    /\ iterator = "running"
    /\ pending # <<>>
    /\ LET event == Head(pending)
       IN  /\ event.type \notin StateTypes \/ Folded(event) = NoBody
           /\ NextEvent(event)
    /\ UNCHANGED <<iterator, seen, counters, history, shown>>

\* states() takes an event, merges it into what it has seen and yields a snapshot.
TakeState ==
    /\ iterator = "running"
    /\ pending # <<>>
    /\ LET event == Head(pending)
           merged == Merge(Known(seen[event.type]), Folded(event))
       IN  /\ event.type \in StateTypes
           /\ Folded(event) # NoBody
           /\ NextEvent(event)
           /\ seen' = [seen EXCEPT ![event.type] = merged]
           /\ shown' = [shown EXCEPT ![event.type] = FoldedAt(event)]
           /\ iterator' = Validated(merged)
    /\ UNCHANGED <<counters, history>>

\* states() is called: it starts from nothing.
Iterate ==
    /\ iterators < MaxIterators
    /\ iterators' = iterators + 1
    /\ iterator' = "running"
    /\ seen' = NoKeys
    /\ shown' = NoneYet
    /\ UNCHANGED <<pending, carry, heard, opened, history, left>>

\* A mutated form of Reopen: the carry outlives the connection.
ReopenKeepsCarry ==
    /\ opened < MaxOpened
    /\ opened' = opened + 1
    /\ pending' = <<>>
    /\ iterator' = "none"
    /\ seen' = NoKeys
    /\ heard' = 0 /\ iterators' = 0
    /\ history' = [t \in Types |-> <<>>]
    /\ left' = NoneYet /\ shown' = NoneYet
    /\ UNCHANGED carry

\* __aenter__ on the same object: the buffer of the last connection is dropped.
Reopen ==
    /\ opened < MaxOpened
    /\ opened' = opened + 1
    /\ pending' = <<>>
    /\ carry' = NoKeys
    /\ iterator' = "none"
    /\ seen' = NoKeys
    /\ heard' = 0 /\ iterators' = 0
    /\ history' = [t \in Types |-> <<>>]
    /\ left' = NoneYet /\ shown' = NoneYet

Next == \/ \E t \in Types, body \in Bodies \cup {NoBody} : Hear(t, body)
        \/ TakeOther
        \/ TakeState
        \/ Iterate
        \/ Reopen

Spec == Init /\ [][Next]_vars
-------------------------------------------------------------------------------
TypeOK ==
    /\ pending \in Seq(Events) /\ Len(pending) <= PendingLimit
    /\ carry \in [Types -> Payloads \cup {NoBody}]
    /\ iterator \in {"none", "running", "failed"}
    /\ seen \in [Types -> Payloads \cup {NoBody}]
    /\ heard \in Nat /\ iterators \in Nat /\ opened \in Nat
    /\ history \in [Types -> Seq(Payloads)]
    /\ left \in [Types -> Nat] /\ shown \in [Types -> Nat]
    /\ \A t \in Types : /\ left[t] \in 0..Len(history[t])
                        /\ shown[t] \in 0..Len(history[t])

(* _merge() and _carry_over(): what the iterator was shown, with what was      *)
(* dropped since merged over it, is what kvmd had said of that subsystem up to  *)
(* the last event that left the queue.                                          *)
CarryExact ==
    \A t \in StateTypes :
        Merge(Known(seen[t]), Known(carry[t])) = Truth(history[t], left[t])

\* The events of a type in a queue that say anything.
Saying(queue, t) == {i \in DOMAIN queue : queue[i].type = t /\ queue[i].body # NoBody}

\* They are the events of that type after the first `from`, each once, in order,
\* and each with what it changed.
Continues(queue, t, from, past) ==
    /\ \A i \in Saying(queue, t) :
         /\ queue[i].at \in from + 1 .. Len(past)
         /\ Merge(Truth(past, queue[i].at - 1), queue[i].body) = Truth(past, queue[i].at)
    /\ \A i, j \in Saying(queue, t) : i < j => queue[i].at < queue[j].at
    /\ \A n \in from + 1 .. Len(past) : \E i \in Saying(queue, t) : queue[i].at = n

(* _buffer(): everything kvmd said after that is still queued.                  *)
QueueExact ==
    \A t \in StateTypes : Continues(pending, t, left[t], history[t])

(* No event is lost, whether or not anything iterates: it was shown, it is in   *)
(* the carry, or it is in the queue.                                            *)
NothingLost == CarryExact /\ QueueExact

(* states(): every snapshot is a state the subsystem really was in, whatever    *)
(* the buffer dropped on the way.                                               *)
SnapshotExact ==
    \A t \in StateTypes : seen[t] = IF shown[t] = 0 THEN NoBody
                                    ELSE history[t][shown[t]]

(* states(), "kvmd sends every subsystem in full when the socket opens, so a    *)
(* partial update always has something to merge into": no ResponseError.        *)
NeverPartial == iterator # "failed"

(* DeviceState, "A field is None until kvmd has sent that subsystem": an        *)
(* iterator that has taken everything there is has a value for each subsystem   *)
(* kvmd has spoken of.                                                          *)
CaughtUp ==
    iterator = "running" /\ pending = <<>> =>
        \A t \in StateTypes : history[t] # <<>> => seen[t] # NoBody

\* What the buffer and the iterator implement together.
Feed == INSTANCE DeviceFeed WITH
            Types <- StateTypes, States <- Payloads, Unknown <- NoBody,
            history <- [t \in StateTypes |-> history[t]],
            shown <- [t \in StateTypes |-> shown[t]],
            snapshot <- [t \in StateTypes |-> seen[t]]

(* states() over a bounded buffer shows what an iterator with an unbounded one  *)
(* could have been shown: true states, in order.                                *)
FeedSpec == Feed!Spec
===============================================================================
