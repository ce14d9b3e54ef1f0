--------------------------- MODULE EventBuffer_proofs ---------------------------
(***************************************************************************)
(* For any number of subsystems, any buffer limit and any payloads whose     *)
(* objects stay objects, one states() iterator per connection is shown only  *)
(* true states of the device, and nothing kvmd said is lost on the way.      *)
(***************************************************************************)
EXTENDS EventBuffer, TLAPS

\* The paths at which the payloads have objects, when they agree on that.
Objects == CHOOSE S \in SUBSET Path : Bodies \subseteq Shaped(S)

\* A path that once held an object never holds anything else.
StableShapes == \E S \in SUBSET Path : Bodies \subseteq Shaped(S)

OneIterator == MaxIterators <= 1
-------------------------------------------------------------------------------
(* Facts about _merge().                                                            *)

(* A merge of two payloads is a payload: _merge() never leaves a field under   *)
(* something that is not an object.                                            *)
LEMMA MergeIsPayload ==
    ASSUME NEW a \in Payloads, NEW b \in Payloads
    PROVE  Merge(a, b) \in Payloads
<1> DEFINE m == Merge(a, b)
<1>1. /\ DOMAIN a \subseteq Path /\ DOMAIN b \subseteq Path
      /\ \A p \in DOMAIN a : a[p] \in Nodes
      /\ \A p \in DOMAIN b : b[p] \in Nodes
      /\ IsTree(a) /\ IsTree(b)
  BY DEF Payloads
<1>2. /\ DOMAIN m \in SUBSET Path
      /\ m \in [DOMAIN m -> Nodes]
  BY <1>1 DEF Merge
<1>3. IsTree(m)
  <2> SUFFICES ASSUME NEW p \in DOMAIN m, NEW q \in Path, <<q, p>> \in Above
               PROVE  q \in DOMAIN m /\ m[q] = Obj
    BY DEF IsTree
  <2>1. CASE p \in DOMAIN b
    BY <1>1, <2>1 DEF IsTree, Merge
  <2>2. CASE p \in DOMAIN a /\ Survives(p, b)
    <3>1. q \in DOMAIN a /\ a[q] = Obj
      BY <1>1, <2>2 DEF IsTree
    <3>2. CASE q \in DOMAIN b
      BY <2>2, <3>2 DEF Survives, Merge
    <3>3. CASE q \notin DOMAIN b
      <4>1. Survives(q, b)
        BY <1>1, <2>2, <3>3, PathAssumption DEF Survives
      <4>2. QED
        BY <3>1, <3>3, <4>1 DEF Merge
    <3>4. QED
      BY <3>2, <3>3
  <2>3. QED
    BY <2>1, <2>2 DEF Merge
<1>4. QED
  BY <1>2, <1>3 DEF Payloads

(* Merging into {} changes nothing: the first payload of a subsystem, and the  *)
(* first one dropped into its carry, are kept as they are.                     *)
LEMMA MergeEmpty ==
    ASSUME NEW a \in Payloads
    PROVE  Merge(Empty, a) = a
BY DEF Merge, Empty, Payloads

LEMMA EmptyIsPayload == Empty \in Payloads
<1>1. DOMAIN Empty = {}
  BY DEF Empty
<1>2. Empty \in [{} -> Nodes]
  BY DEF Empty
<1>3. IsTree(Empty)
  BY <1>1 DEF IsTree
<1>4. QED
  BY <1>2, <1>3 DEF Payloads

(* Regrouping: what a chain of payloads merges to does not depend on which     *)
(* neighbours were merged first, unless an object was replaced and came back.  *)
(* This is what entitles _carry_over() to fold dropped events together.        *)
THEOREM MergeRegroups ==
    ASSUME NEW a \in Payloads, NEW b \in Payloads, NEW c \in Payloads,
           NoFlip(a, b, c)
    PROVE  Merge(a, Merge(b, c)) = Merge(Merge(a, b), c)
<1> DEFINE ab == Merge(a, b)
<1> DEFINE bc == Merge(b, c)
<1> DEFINE late == Merge(a, bc)
<1> DEFINE early == Merge(ab, c)
<1>1. /\ DOMAIN a \subseteq Path /\ DOMAIN b \subseteq Path /\ DOMAIN c \subseteq Path
      /\ IsTree(a) /\ IsTree(b) /\ IsTree(c)
  BY DEF Payloads
<1>2. ASSUME NEW p \in DOMAIN a, Survives(p, bc)
      PROVE  Survives(p, b) /\ Survives(p, c)
  <2>1. p \notin DOMAIN c
    BY <1>2 DEF Survives, Merge
  <2>2. \A q \in DOMAIN c : <<q, p>> \in Above => c[q] = Obj
    BY <1>2 DEF Survives, Merge
  <2>3. p \notin DOMAIN b
    BY <1>2, <2>1, <2>2 DEF Survives, Merge
  <2>4. ASSUME NEW q \in DOMAIN b, <<q, p>> \in Above
        PROVE  b[q] = Obj
    <3>1. q \in DOMAIN a /\ a[q] = Obj
      BY <1>1, <2>4 DEF IsTree
    <3>2. CASE q \in DOMAIN c
      BY <2>2, <2>4, <3>1, <3>2 DEF NoFlip
    <3>3. CASE q \notin DOMAIN c
      <4>1. Survives(q, c)
        BY <1>1, <2>2, <2>4, <3>3, PathAssumption DEF Survives
      <4>2. q \in DOMAIN bc /\ bc[q] = b[q]
        BY <3>3, <4>1 DEF Merge
      <4>3. QED
        BY <1>2, <2>4, <4>2 DEF Survives
    <3>4. QED
      BY <3>2, <3>3
  <2>5. QED
    BY <2>1, <2>2, <2>3, <2>4 DEF Survives
<1>3. ASSUME NEW p \in DOMAIN a, Survives(p, b), Survives(p, c)
      PROVE  Survives(p, bc)
  BY <1>3 DEF Survives, Merge
<1>4. DOMAIN late = DOMAIN early
  BY <1>2, <1>3 DEF Merge, Survives
<1>5. ASSUME NEW p \in DOMAIN late
      PROVE  late[p] = early[p]
  BY <1>2, <1>3, <1>4, <1>5 DEF Merge, Survives
<1>6. QED
  BY <1>4, <1>5 DEF Merge
-------------------------------------------------------------------------------
LEMMA AppendFacts ==
    ASSUME NEW S, NEW s \in Seq(S), NEW e \in S
    PROVE  /\ Append(s, e) \in Seq(S) /\ Len(Append(s, e)) = Len(s) + 1
           /\ \A i \in 1..Len(s) : Append(s, e)[i] = s[i]
           /\ Append(s, e)[Len(s) + 1] = e
OBVIOUS

LEMMA EmptyShaped == \A S \in SUBSET Path : Empty \in Shaped(S)
BY EmptyIsPayload DEF Shaped, Empty

(* Payloads of one shape merge to a payload of that shape with the paths of both. *)
LEMMA ShapedMerge ==
    ASSUME NEW S \in SUBSET Path, NEW a \in Shaped(S), NEW b \in Shaped(S)
    PROVE  /\ Merge(a, b) \in Shaped(S)
           /\ DOMAIN Merge(a, b) = DOMAIN a \cup DOMAIN b
<1>1. a \in Payloads /\ b \in Payloads
  BY DEF Shaped
<1>2. Merge(a, b) \in Payloads
  BY <1>1, MergeIsPayload
<1>3. ASSUME NEW p \in DOMAIN a, p \notin DOMAIN b
      PROVE  Survives(p, b)
  <2>1. IsTree(a) /\ DOMAIN b \subseteq Path
    BY <1>1 DEF Payloads
  <2>2. \A q \in DOMAIN b : <<q, p>> \in Above => b[q] = Obj
    BY <1>3, <2>1 DEF IsTree, Shaped
  <2>3. QED
    BY <1>3, <2>2 DEF Survives
<1>4. DOMAIN Merge(a, b) = DOMAIN a \cup DOMAIN b
  BY <1>3 DEF Merge
<1>5. \A p \in DOMAIN Merge(a, b) : Merge(a, b)[p] = Obj <=> p \in S
  BY DEF Merge, Shaped
<1>6. QED
  BY <1>2, <1>4, <1>5 DEF Shaped

LEMMA ShapedRegroups ==
    ASSUME NEW S \in SUBSET Path, NEW a \in Shaped(S), NEW b \in Shaped(S), NEW c \in Shaped(S)
    PROVE  Merge(a, Merge(b, c)) = Merge(Merge(a, b), c)
<1>1. NoFlip(a, b, c)
  BY DEF NoFlip, Shaped
<1>2. QED
  BY <1>1, MergeRegroups DEF Shaped

LEMMA MergeWithEmpty ==
    ASSUME NEW a \in Payloads
    PROVE  Merge(a, Empty) = a
<1>1. DOMAIN Empty = {}
  BY DEF Empty
<1>2. \A p \in DOMAIN a : Survives(p, Empty)
  BY <1>1 DEF Survives
<1>3. QED
  BY <1>1, <1>2 DEF Merge, Payloads
-------------------------------------------------------------------------------
(* The first event of the queue either is the next one of type t, or says      *)
(* nothing of t; taking it off leaves the rest in order.                       *)
LEMMA TakeFirst ==
    ASSUME NEW queue \in Seq(Events), queue # <<>>, NEW t \in Types,
           NEW past \in Seq(Payloads), NEW from \in 0..Len(past),
           Continues(queue, t, from, past)
    PROVE  LET first == Head(queue)
           IN  IF first.type = t /\ first.body # NoBody
               THEN /\ first.at = from + 1
                    /\ from + 1 <= Len(past)
                    /\ Merge(Truth(past, from), first.body) = Truth(past, from + 1)
                    /\ Continues(Tail(queue), t, from + 1, past)
               ELSE Continues(Tail(queue), t, from, past)
<1> DEFINE first == Head(queue)
<1> DEFINE rest == Tail(queue)
<1>1. /\ Len(queue) \in Nat \ {0} /\ DOMAIN queue = 1..Len(queue) /\ first = queue[1]
      /\ rest \in Seq(Events) /\ Len(rest) = Len(queue) - 1 /\ DOMAIN rest = 1..Len(rest)
      /\ \A i \in 1..Len(rest) : rest[i] = queue[i + 1]
      /\ \A i \in 1..Len(queue) : queue[i].at \in Nat
  <2>1. /\ Len(queue) \in Nat \ {0} /\ DOMAIN queue = 1..Len(queue) /\ first = queue[1]
        /\ rest \in Seq(Events) /\ Len(rest) = Len(queue) - 1 /\ DOMAIN rest = 1..Len(rest)
        /\ \A i \in 1..Len(rest) : rest[i] = queue[i + 1]
        /\ \A i \in 1..Len(queue) : queue[i] \in Events
    OBVIOUS
  <2>2. \A e \in Events : e.at \in Nat
    BY DEF Events
  <2>3. QED
    BY <2>1, <2>2
<1>2. \A i \in Saying(rest, t) : i + 1 \in Saying(queue, t) /\ rest[i] = queue[i + 1]
  BY <1>1 DEF Saying
<1>3. \A i \in Saying(queue, t) : i = 1 \/ (i - 1 \in Saying(rest, t) /\ rest[i - 1] = queue[i])
  <2>1. SUFFICES ASSUME NEW i \in Saying(queue, t), i # 1
                 PROVE  i - 1 \in Saying(rest, t) /\ rest[i - 1] = queue[i]
    OBVIOUS
  <2>2. i \in 2..Len(queue)
    BY <1>1, <2>1 DEF Saying
  <2>3. i - 1 \in 1..Len(rest) /\ rest[i - 1] = queue[i - 1 + 1]
    BY <1>1, <2>2
  <2>4. i - 1 + 1 = i
    BY <2>2
  <2>5. QED
    BY <1>1, <2>1, <2>3, <2>4 DEF Saying
<1>4. Saying(queue, t) \subseteq 1..Len(queue) /\ Saying(rest, t) \subseteq 1..Len(rest)
  BY <1>1 DEF Saying
<1>5. CASE first.type = t /\ first.body # NoBody
  <2>1. 1 \in Saying(queue, t)
    BY <1>1, <1>5 DEF Saying
  <2>2. first.at \in from + 1 .. Len(past)
    BY <1>1, <2>1 DEF Continues
  <2>3. PICK i \in Saying(queue, t) : queue[i].at = from + 1
    BY <2>2 DEF Continues
  <2>4. first.at = from + 1
    <3>1. CASE i = 1
      BY <1>1, <2>3, <3>1
    <3>2. CASE i # 1
      <4>1. 1 < i
        BY <1>1, <1>4, <3>2
      <4>2. first.at < from + 1
        BY <1>1, <2>1, <2>3, <4>1 DEF Continues
      <4>3. QED
        BY <1>1, <2>2, <4>2
    <3>3. QED
      BY <3>1, <3>2
  <2>5. \A j \in Saying(rest, t) : from + 1 < rest[j].at
    <3>1. \A j \in Saying(rest, t) : 1 < j + 1
      BY <1>4
    <3>2. \A j \in Saying(rest, t) : queue[1].at < queue[j + 1].at
      BY <1>2, <2>1, <3>1 DEF Continues
    <3>3. QED
      BY <1>1, <1>2, <2>4, <3>2
  <2>6. \A j \in Saying(rest, t) :
          /\ rest[j].at \in from + 1 + 1 .. Len(past)
          /\ Merge(Truth(past, rest[j].at - 1), rest[j].body) = Truth(past, rest[j].at)
    <3>1. SUFFICES ASSUME NEW j \in Saying(rest, t)
                   PROVE  /\ rest[j].at \in from + 1 + 1 .. Len(past)
                          /\ Merge(Truth(past, rest[j].at - 1), rest[j].body)
                               = Truth(past, rest[j].at)
      OBVIOUS
    <3>2. /\ rest[j].at \in from + 1 .. Len(past)
          /\ Merge(Truth(past, rest[j].at - 1), rest[j].body) = Truth(past, rest[j].at)
      BY <1>2 DEF Continues
    <3>3. from + 1 < rest[j].at
      BY <2>5
    <3>4. \A n \in from + 1 .. Len(past) : from + 1 < n => n \in from + 1 + 1 .. Len(past)
      OBVIOUS
    <3>5. QED
      BY <3>2, <3>3, <3>4
  <2>7. \A j, k \in Saying(rest, t) : j < k => rest[j].at < rest[k].at
    <3>1. \A j, k \in Saying(rest, t) : j < k => j + 1 < k + 1
      BY <1>4
    <3>2. QED
      BY <1>2, <3>1 DEF Continues
  <2>8. \A n \in from + 1 + 1 .. Len(past) : \E j \in Saying(rest, t) : rest[j].at = n
    <3>1. SUFFICES ASSUME NEW n \in from + 1 + 1 .. Len(past)
                   PROVE  \E j \in Saying(rest, t) : rest[j].at = n
      OBVIOUS
    <3>2. n \in from + 1 .. Len(past) /\ n # from + 1
      OBVIOUS
    <3>3. PICK k \in Saying(queue, t) : queue[k].at = n
      BY <3>2 DEF Continues
    <3>4. k # 1
      BY <1>1, <2>4, <3>2, <3>3
    <3>5. QED
      BY <1>3, <3>3, <3>4
  <2>9. Merge(Truth(past, from), first.body) = Truth(past, from + 1)
    <3>1. Merge(Truth(past, first.at - 1), first.body) = Truth(past, first.at)
      BY <1>1, <2>1 DEF Continues
    <3>2. first.at - 1 = from
      BY <2>4
    <3>3. QED
      BY <2>4, <3>1, <3>2
  <2>10. Continues(rest, t, from + 1, past)
    BY <2>6, <2>7, <2>8 DEF Continues
  <2>11. from + 1 <= Len(past)
    BY <2>2, <2>4
  <2>12. QED
    BY <1>5, <2>4, <2>9, <2>10, <2>11
<1>6. CASE ~(first.type = t /\ first.body # NoBody)
  <2>1. 1 \notin Saying(queue, t)
    BY <1>1, <1>6 DEF Saying
  <2>2. \A j \in Saying(rest, t) :
          /\ rest[j].at \in from + 1 .. Len(past)
          /\ Merge(Truth(past, rest[j].at - 1), rest[j].body) = Truth(past, rest[j].at)
    BY <1>2 DEF Continues
  <2>3. \A j, k \in Saying(rest, t) : j < k => rest[j].at < rest[k].at
    <3>1. \A j, k \in Saying(rest, t) : j < k => j + 1 < k + 1
      BY <1>4
    <3>2. QED
      BY <1>2, <3>1 DEF Continues
  <2>4. \A n \in from + 1 .. Len(past) : \E j \in Saying(rest, t) : rest[j].at = n
    <3>1. SUFFICES ASSUME NEW n \in from + 1 .. Len(past)
                   PROVE  \E j \in Saying(rest, t) : rest[j].at = n
      OBVIOUS
    <3>2. PICK i \in Saying(queue, t) : queue[i].at = n
      BY DEF Continues
    <3>3. QED
      BY <1>3, <2>1, <3>2
  <2>5. QED
    BY <1>6, <2>2, <2>3, <2>4 DEF Continues
<1>7. QED
  BY <1>5, <1>6

(* An event kvmd has just sent goes to the end of the queue and of its history. *)
LEMMA AppendNext ==
    ASSUME NEW queue \in Seq(Events), NEW t \in Types, NEW event \in Events,
           NEW past \in Seq(Payloads), NEW from \in 0..Len(past),
           event.type = t, event.body # NoBody, event.at = Len(past) + 1,
           NEW now \in Payloads, now = Merge(Truth(past, Len(past)), event.body),
           Continues(queue, t, from, past)
    PROVE  Continues(Append(queue, event), t, from, Append(past, now))
<1> DEFINE q == Append(queue, event)
<1> DEFINE h == Append(past, now)
<1>1. /\ Len(q) = Len(queue) + 1 /\ DOMAIN q = 1..Len(q) /\ q[Len(queue) + 1] = event
      /\ Len(queue) \in Nat /\ DOMAIN queue = 1..Len(queue)
      /\ \A i \in 1..Len(queue) : q[i] = queue[i]
      /\ \A i \in 1..Len(queue) : queue[i].at \in Nat
  <2>1. /\ Len(q) = Len(queue) + 1 /\ DOMAIN q = 1..Len(q) /\ q[Len(queue) + 1] = event
        /\ Len(queue) \in Nat /\ DOMAIN queue = 1..Len(queue)
        /\ \A i \in 1..Len(queue) : q[i] = queue[i]
        /\ \A i \in 1..Len(queue) : queue[i] \in Events
    OBVIOUS
  <2>2. \A e \in Events : e.at \in Nat
    BY DEF Events
  <2>3. QED
    BY <2>1, <2>2
<1>2. /\ Len(past) \in Nat /\ Len(h) = Len(past) + 1 /\ h[Len(past) + 1] = now
      /\ \A n \in 1..Len(past) : h[n] = past[n]
  OBVIOUS
<1>3. Saying(q, t) = Saying(queue, t) \cup {Len(queue) + 1}
  BY <1>1 DEF Saying
<1>4. Saying(queue, t) \subseteq 1..Len(queue)
  BY <1>1 DEF Saying
<1>5. \A n \in 0..Len(past) : Truth(h, n) = Truth(past, n)
  BY <1>2 DEF Truth
<1>6. \A i \in Saying(q, t) :
        /\ q[i].at \in from + 1 .. Len(h)
        /\ Merge(Truth(h, q[i].at - 1), q[i].body) = Truth(h, q[i].at)
  <2>1. ASSUME NEW i \in Saying(queue, t)
        PROVE  /\ q[i].at \in from + 1 .. Len(h)
               /\ Merge(Truth(h, q[i].at - 1), q[i].body) = Truth(h, q[i].at)
    <3>1. q[i] = queue[i] /\ queue[i].at \in from + 1 .. Len(past)
      BY <1>1, <1>4 DEF Continues
    <3>2. Truth(h, queue[i].at - 1) = Truth(past, queue[i].at - 1)
      BY <1>2, <1>5, <3>1
    <3>3. Truth(h, queue[i].at) = Truth(past, queue[i].at)
      BY <1>2, <1>5, <3>1
    <3>4. QED
      BY <1>2, <3>1, <3>2, <3>3 DEF Continues
  <2>2. /\ event.at \in from + 1 .. Len(h)
        /\ Merge(Truth(h, event.at - 1), event.body) = Truth(h, event.at)
    <3>1. Truth(h, Len(past) + 1) = now
      BY <1>2 DEF Truth
    <3>2. Truth(h, Len(past)) = Truth(past, Len(past))
      BY <1>2, <1>5
    <3>3. event.at - 1 = Len(past) /\ event.at \in from + 1 .. Len(h)
      BY <1>2
    <3>4. QED
      BY <3>1, <3>2, <3>3
  <2>3. QED
    BY <1>1, <1>3, <2>1, <2>2
<1>7. \A i, j \in Saying(q, t) : i < j => q[i].at < q[j].at
  <2>1. \A i \in Saying(queue, t) : queue[i].at <= Len(past) /\ queue[i].at \in Nat
    BY <1>1, <1>4 DEF Continues
  <2>2. QED
    BY <1>1, <1>2, <1>3, <1>4, <2>1 DEF Continues
<1>8. \A n \in from + 1 .. Len(h) : \E i \in Saying(q, t) : q[i].at = n
  <2>1. \A n \in from + 1 .. Len(past) : \E i \in Saying(q, t) : q[i].at = n
    BY <1>1, <1>3, <1>4 DEF Continues
  <2>2. \E i \in Saying(q, t) : q[i].at = Len(past) + 1
    BY <1>1, <1>3
  <2>3. \A n \in from + 1 .. Len(h) : n \in from + 1 .. Len(past) \/ n = Len(past) + 1
    BY <1>2
  <2>4. QED
    BY <2>1, <2>2, <2>3
<1>9. QED
  BY <1>6, <1>7, <1>8 DEF Continues

(* One that says nothing of t changes nothing for t. *)
LEMMA AppendOther ==
    ASSUME NEW queue \in Seq(Events), NEW t \in Types, NEW event \in Events,
           NEW past \in Seq(Payloads), NEW from \in 0..Len(past),
           event.type # t \/ event.body = NoBody,
           Continues(queue, t, from, past)
    PROVE  Continues(Append(queue, event), t, from, past)
<1> DEFINE q == Append(queue, event)
<1>1. /\ Len(q) = Len(queue) + 1 /\ DOMAIN q = 1..Len(q) /\ q[Len(queue) + 1] = event
      /\ Len(queue) \in Nat /\ DOMAIN queue = 1..Len(queue)
      /\ \A i \in 1..Len(queue) : q[i] = queue[i]
  OBVIOUS
<1>2. Saying(q, t) = Saying(queue, t)
  BY <1>1 DEF Saying
<1>3. \A i \in Saying(queue, t) : q[i] = queue[i]
  BY <1>1 DEF Saying
<1>4. QED
  BY <1>2, <1>3 DEF Continues
-------------------------------------------------------------------------------
(* The inductive invariant: the two properties, and what they need.            *)
ShapesOK ==
    /\ \A i \in DOMAIN pending : pending[i].body # NoBody => pending[i].body \in Shaped(Objects)
    /\ \A t \in Types :
         /\ carry[t] # NoBody => carry[t] \in Shaped(Objects)
         /\ seen[t] # NoBody => seen[t] \in Shaped(Objects)
         /\ \A n \in 1..Len(history[t]) : history[t][n] \in Shaped(Objects)

PositionsOK ==
    /\ \A i \in DOMAIN pending : pending[i].at <= Len(history[pending[i].type])
    /\ \A t \in StateTypes : /\ shown[t] <= left[t]
                             /\ carry[t] # NoBody => shown[t] < left[t]

Complete ==
    \A t \in StateTypes : \A n \in 1..Len(history[t]) : Required \subseteq DOMAIN history[t][n]

Unused == iterators = 0 => seen = NoKeys /\ shown = NoneYet /\ iterator = "none"

IInv == /\ TypeOK
        /\ ShapesOK
        /\ PositionsOK
        /\ NothingLost
        /\ SnapshotExact
        /\ Complete
        /\ NeverPartial
        /\ Unused
-------------------------------------------------------------------------------
LEMMA ObjectsShape ==
    ASSUME StableShapes
    PROVE  Objects \in SUBSET Path /\ Bodies \subseteq Shaped(Objects)
BY DEF StableShapes, Objects

LEMMA KnownShaped ==
    ASSUME StableShapes, NEW v, v # NoBody => v \in Shaped(Objects)
    PROVE  Known(v) \in Shaped(Objects)
BY ObjectsShape, EmptyShaped DEF Known

LEMMA EventFacts ==
    ASSUME TypeOK
    PROVE  /\ pending \in Seq(Events)
           /\ \A e \in Events : e.type \in Types /\ e.at \in Nat
                                /\ (e.body # NoBody => e.body \in Payloads)
           /\ \A t \in Types : history[t] \in Seq(Payloads) /\ left[t] \in 0..Len(history[t])
           /\ pending # <<>> => /\ Head(pending) \in Events /\ Tail(pending) \in Seq(Events)
                                /\ Head(pending) = pending[1] /\ 1 \in DOMAIN pending
<1>1. pending \in Seq(Events)
  BY DEF TypeOK
<1>2. \A e \in Events : e.type \in Types /\ e.at \in Nat
                        /\ (e.body # NoBody => e.body \in Payloads)
  BY DEF Events
<1>3. \A t \in Types : history[t] \in Seq(Payloads) /\ left[t] \in 0..Len(history[t])
  BY DEF TypeOK
<1>4. pending # <<>> => /\ Head(pending) \in Events /\ Tail(pending) \in Seq(Events)
                        /\ Head(pending) = pending[1] /\ 1 \in DOMAIN pending
  BY <1>1
<1>5. QED
  BY <1>1, <1>2, <1>3, <1>4

LEMMA ObjectsMerge ==
    ASSUME StableShapes
    PROVE  \A a, b \in Shaped(Objects) : /\ Merge(a, b) \in Shaped(Objects)
                                         /\ DOMAIN Merge(a, b) = DOMAIN a \cup DOMAIN b
<1> DEFINE S == Objects
<1>1. S \in SUBSET Path
  BY ObjectsShape
<1> HIDE DEF S
<1>2. \A a, b \in Shaped(S) : Merge(a, b) \in Shaped(S) /\ DOMAIN Merge(a, b) = DOMAIN a \cup DOMAIN b
  BY <1>1, ShapedMerge
<1>3. QED
  BY <1>2 DEF S

LEMMA TruthShaped ==
    ASSUME StableShapes, TypeOK, ShapesOK, NEW t \in Types, NEW n \in 0..Len(history[t])
    PROVE  Truth(history[t], n) \in Shaped(Objects)
<1>1. Len(history[t]) \in Nat
  BY EventFacts
<1>2. CASE n = 0
  BY <1>2, ObjectsShape, EmptyShaped DEF Truth
<1>3. CASE n # 0
  <2>1. n \in 1..Len(history[t])
    BY <1>1, <1>3
  <2>2. QED
    BY <1>3, <2>1 DEF Truth, ShapesOK
<1>4. QED
  BY <1>2, <1>3

(* _buffer() making room: folding the oldest event into the carry keeps what   *)
(* the iterator will be shown the truth.                                       *)
LEMMA Dropping ==
    ASSUME StableShapes, IInv, pending # <<>>, CarryOver(Head(pending))
    PROVE  /\ carry' \in [Types -> Payloads \cup {NoBody}] /\ left' \in [Types -> Nat]
           /\ \A t \in Types : /\ left'[t] \in 0..Len(history[t])
                               /\ carry'[t] # NoBody => carry'[t] \in Shaped(Objects)
           /\ \A t \in StateTypes :
                /\ Merge(Known(seen[t]), Known(carry'[t])) = Truth(history[t], left'[t])
                /\ Continues(Tail(pending), t, left'[t], history[t])
                /\ shown[t] <= left'[t]
                /\ carry'[t] # NoBody => shown[t] < left'[t]
<1> DEFINE first == Head(pending)
<1>1. /\ TypeOK /\ ShapesOK /\ PositionsOK /\ CarryExact /\ QueueExact
      /\ StateTypes \subseteq Types
  BY BufferAssumption DEF IInv, NothingLost
<1>2. first \in Events /\ first = pending[1] /\ 1 \in DOMAIN pending
  BY <1>1, EventFacts
<1>3. first.type \in Types /\ first.at \in Nat /\ first.at <= Len(history[first.type])
  BY <1>1, <1>2, EventFacts DEF PositionsOK
<1>4. \A t \in StateTypes :
        IF first.type = t /\ first.body # NoBody
        THEN /\ first.at = left[t] + 1
             /\ Merge(Truth(history[t], left[t]), first.body) = Truth(history[t], left[t] + 1)
             /\ Continues(Tail(pending), t, left[t] + 1, history[t])
        ELSE Continues(Tail(pending), t, left[t], history[t])
  BY <1>1, TakeFirst, EventFacts DEF QueueExact
<1>5. CASE first.body = NoBody
  <2>1. UNCHANGED <<carry, left>>
    BY <1>5 DEF CarryOver
  <2>2. QED
    BY <1>1, <1>4, <1>5, <2>1 DEF TypeOK, ShapesOK, PositionsOK, CarryExact
<1>6. CASE first.body # NoBody
  <2> DEFINE T == first.type
  <2> DEFINE kept == Merge(Known(carry[T]), first.body)
  <2>1. /\ carry' = [carry EXCEPT ![T] = kept]
        /\ left' = [left EXCEPT ![T] = first.at]
    BY <1>6 DEF CarryOver
  <2>2. first.body \in Shaped(Objects)
    BY <1>1, <1>2, <1>6 DEF ShapesOK
  <2>3. Known(carry[T]) \in Shaped(Objects) /\ Known(seen[T]) \in Shaped(Objects)
    BY <1>1, <1>3, KnownShaped DEF ShapesOK
  <2>4. kept \in Shaped(Objects) /\ kept \in Payloads /\ kept # NoBody
    <3>1. kept \in Shaped(Objects)
      BY <2>2, <2>3, ObjectsMerge
    <3>2. QED
      BY <3>1, BufferAssumption DEF Shaped
  <2>5. /\ carry' \in [Types -> Payloads \cup {NoBody}] /\ left' \in [Types -> Nat]
        /\ carry'[T] = kept /\ left'[T] = first.at
        /\ \A t \in Types \ {T} : carry'[t] = carry[t] /\ left'[t] = left[t]
    BY <1>1, <1>3, <2>1, <2>4 DEF TypeOK
  <2>6. \A t \in Types : /\ left'[t] \in 0..Len(history[t])
                         /\ carry'[t] # NoBody => carry'[t] \in Shaped(Objects)
    <3>1. first.at \in 0..Len(history[T])
      BY <1>1, <1>3, EventFacts
    <3>2. QED
      BY <1>1, <2>4, <2>5, <3>1 DEF TypeOK, ShapesOK
  <2>7. ASSUME T \in StateTypes
        PROVE  /\ Merge(Known(seen[T]), Known(carry'[T])) = Truth(history[T], left'[T])
               /\ Continues(Tail(pending), T, left'[T], history[T])
               /\ shown[T] < left'[T]
    <3>1. /\ first.at = left[T] + 1
          /\ Merge(Truth(history[T], left[T]), first.body) = Truth(history[T], left[T] + 1)
          /\ Continues(Tail(pending), T, left[T] + 1, history[T])
      BY <1>4, <1>6, <2>7
    <3>2. Merge(Known(seen[T]), kept)
            = Merge(Merge(Known(seen[T]), Known(carry[T])), first.body)
      BY <2>2, <2>3, ShapedRegroups, ObjectsShape
    <3>3. Merge(Known(seen[T]), Known(carry[T])) = Truth(history[T], left[T])
      BY <1>1, <2>7 DEF CarryExact
    <3>4. Known(carry'[T]) = kept
      BY <2>4, <2>5 DEF Known
    <3>5. shown[T] < left[T] + 1
      BY <1>1, <1>3, <2>7 DEF PositionsOK, TypeOK
    <3>6. QED
      BY <2>5, <3>1, <3>2, <3>3, <3>4, <3>5
  <2>8. ASSUME NEW t \in StateTypes, t # T
        PROVE  /\ Merge(Known(seen[t]), Known(carry'[t])) = Truth(history[t], left'[t])
               /\ Continues(Tail(pending), t, left'[t], history[t])
               /\ shown[t] <= left'[t]
               /\ carry'[t] # NoBody => shown[t] < left'[t]
    <3>1. carry'[t] = carry[t] /\ left'[t] = left[t]
      BY <1>1, <2>5, <2>8
    <3>2. Continues(Tail(pending), t, left[t], history[t])
      BY <1>4, <2>8
    <3>3. QED
      BY <1>1, <3>1, <3>2 DEF CarryExact, PositionsOK
  <2>9. \A t \in StateTypes : shown[t] \in Nat /\ left'[t] \in Nat
    BY <1>1, <2>5 DEF TypeOK
  <2>10. QED
    BY <2>5, <2>6, <2>7, <2>8, <2>9
<1>7. QED
  BY <1>5, <1>6

(* _next_event(): what it hands over takes the snapshot to the last state the  *)
(* event or the carry tells of.                                                *)
LEMMA Taking ==
    ASSUME StableShapes, IInv, pending # <<>>, NextEvent(Head(pending))
    PROVE  LET event == Head(pending)
               T == event.type
           IN  /\ carry' = [carry EXCEPT ![T] = NoBody] /\ left' \in [Types -> Nat]
               /\ left'[T] = FoldedAt(event)
               /\ T \in Types
               /\ \A t \in Types : left'[t] \in 0..Len(history[t]) /\ (t # T => left'[t] = left[t])
               /\ \A t \in StateTypes : Continues(Tail(pending), t, left'[t], history[t])
               /\ T \in StateTypes =>
                    IF Folded(event) = NoBody
                    THEN carry[T] = NoBody /\ left'[T] = left[T]
                    ELSE /\ Folded(event) \in Shaped(Objects)
                         /\ Merge(Known(seen[T]), Folded(event)) = Truth(history[T], left'[T])
                         /\ shown[T] < left'[T]
<1> DEFINE event == Head(pending)
<1> DEFINE T == event.type
<1>1. /\ TypeOK /\ ShapesOK /\ PositionsOK /\ CarryExact /\ QueueExact
      /\ StateTypes \subseteq Types
  BY BufferAssumption DEF IInv, NothingLost
<1>2. event \in Events /\ event = pending[1] /\ 1 \in DOMAIN pending
  BY <1>1, EventFacts
<1>3. T \in Types /\ event.at \in Nat /\ event.at <= Len(history[T])
  BY <1>1, <1>2, EventFacts DEF PositionsOK
<1>4. \A t \in StateTypes :
        IF T = t /\ event.body # NoBody
        THEN /\ event.at = left[t] + 1
             /\ Merge(Truth(history[t], left[t]), event.body) = Truth(history[t], left[t] + 1)
             /\ Continues(Tail(pending), t, left[t] + 1, history[t])
        ELSE Continues(Tail(pending), t, left[t], history[t])
  BY <1>1, TakeFirst, EventFacts DEF QueueExact
<1>5. carry' = [carry EXCEPT ![T] = NoBody] /\ left' = [left EXCEPT ![T] = FoldedAt(event)]
  BY DEF NextEvent
<1>6. FoldedAt(event) \in 0..Len(history[T])
  BY <1>1, <1>3, EventFacts DEF FoldedAt
<1>7. /\ left' \in [Types -> Nat] /\ left'[T] = FoldedAt(event)
      /\ \A t \in Types : left'[t] \in 0..Len(history[t]) /\ (t # T => left'[t] = left[t])
  <2>1. FoldedAt(event) \in Nat
    BY <1>1, <1>3 DEF FoldedAt, TypeOK
  <2>2. left' \in [Types -> Nat] /\ left'[T] = FoldedAt(event)
        /\ \A t \in Types : t # T => left'[t] = left[t]
    BY <1>1, <1>3, <1>5, <2>1 DEF TypeOK
  <2>3. QED
    BY <1>1, <1>6, <2>2, EventFacts
<1>8. \A t \in StateTypes : Continues(Tail(pending), t, left'[t], history[t])
  <2>1. ASSUME NEW t \in StateTypes, t # T
        PROVE  Continues(Tail(pending), t, left'[t], history[t])
    BY <1>1, <1>4, <1>7, <2>1
  <2>2. ASSUME T \in StateTypes
        PROVE  Continues(Tail(pending), T, left'[T], history[T])
    BY <1>4, <1>7, <2>2 DEF FoldedAt
  <2>3. QED
    BY <2>1, <2>2
<1>9. ASSUME T \in StateTypes
      PROVE  IF Folded(event) = NoBody
             THEN carry[T] = NoBody /\ left'[T] = left[T]
             ELSE /\ Folded(event) \in Shaped(Objects)
                  /\ Merge(Known(seen[T]), Folded(event)) = Truth(history[T], left'[T])
                  /\ shown[T] < left'[T]
  <2>1. Merge(Known(seen[T]), Known(carry[T])) = Truth(history[T], left[T])
    BY <1>1, <1>9 DEF CarryExact
  <2>2. Known(carry[T]) \in Shaped(Objects) /\ Known(seen[T]) \in Shaped(Objects)
    BY <1>1, <1>3, KnownShaped DEF ShapesOK
  <2>3. \A v \in Shaped(Objects) : v # NoBody
    BY BufferAssumption DEF Shaped
  <2>4. shown[T] \in Nat /\ left[T] \in Nat /\ shown[T] <= left[T]
    BY <1>1, <1>3, <1>9 DEF TypeOK, PositionsOK
  <2>5. CASE event.body = NoBody
    <3>1. left'[T] = left[T] /\ Folded(event) = carry[T]
      BY <1>7, <2>5 DEF FoldedAt, Folded
    <3>2. CASE carry[T] = NoBody
      BY <3>1, <3>2
    <3>3. CASE carry[T] # NoBody
      BY <1>1, <1>9, <2>1, <2>2, <3>1, <3>3 DEF Known, PositionsOK
    <3>4. QED
      BY <3>2, <3>3
  <2>6. CASE event.body # NoBody
    <3>1. event.body \in Shaped(Objects)
      BY <1>1, <1>2, <2>6 DEF ShapesOK
    <3>2. left'[T] = left[T] + 1
      BY <1>4, <1>7, <1>9, <2>6 DEF FoldedAt
    <3>3. Folded(event) = Merge(Known(carry[T]), event.body)
      <4>1. CASE carry[T] = NoBody
        BY <2>6, <3>1, <4>1, MergeEmpty DEF Folded, Known, Shaped
      <4>2. CASE carry[T] # NoBody
        BY <2>6, <4>2 DEF Folded, Known
      <4>3. QED
        BY <4>1, <4>2
    <3>4. Folded(event) \in Shaped(Objects) /\ Folded(event) # NoBody
      BY <2>2, <2>3, <3>1, <3>3, ShapedMerge, ObjectsShape
    <3>5. Merge(Known(seen[T]), Folded(event))
            = Merge(Merge(Known(seen[T]), Known(carry[T])), event.body)
      BY <2>2, <3>1, <3>3, ShapedRegroups, ObjectsShape
    <3>6. Merge(Truth(history[T], left[T]), event.body) = Truth(history[T], left[T] + 1)
      BY <1>4, <1>9, <2>6
    <3>7. QED
      BY <2>1, <2>4, <3>2, <3>4, <3>5, <3>6
  <2>7. QED
    BY <2>5, <2>6
<1>10. QED
  BY <1>3, <1>5, <1>7, <1>8, <1>9
-------------------------------------------------------------------------------
LEMMA InitInvariant ==
    ASSUME StableShapes, Init
    PROVE  IInv
<1>1. /\ pending \in Seq(Events) /\ Len(pending) = 0 /\ DOMAIN pending = {}
      /\ \A t \in Types : Len(history[t]) = 0 /\ history[t] \in Seq(Payloads)
  BY DEF Init
<1>2. TypeOK
  BY <1>1, BufferAssumption DEF Init, NoKeys, NoneYet, TypeOK
<1>3. ShapesOK /\ PositionsOK /\ SnapshotExact /\ Complete /\ NeverPartial /\ Unused
  BY <1>1, BufferAssumption
     DEF Init, NoKeys, NoneYet, ShapesOK, PositionsOK, SnapshotExact, Complete, NeverPartial, Unused
<1>4. CarryExact
  BY BufferAssumption, EmptyIsPayload, MergeEmpty
     DEF Init, NoKeys, NoneYet, CarryExact, Known, Truth
<1>5. QueueExact
  BY <1>1, BufferAssumption DEF Init, NoneYet, QueueExact, Continues, Saying
<1>6. QED
  BY <1>2, <1>3, <1>4, <1>5 DEF IInv, NothingLost

(* The reader takes an event off the socket. *)
LEMMA HearInvariant ==
    ASSUME StableShapes, IInv, NEW t \in Types, NEW body \in Bodies \cup {NoBody},
           Hear(t, body)
    PROVE  IInv'
<1> DEFINE now == Merge(Truth(history[t], Len(history[t])), body)
<1> DEFINE event == [type |-> t, body |-> body, at |-> Len(history'[t])]
<1> DEFINE room == IF Len(pending) < PendingLimit THEN pending ELSE Tail(pending)
<1>1. /\ TypeOK /\ ShapesOK /\ PositionsOK /\ CarryExact /\ QueueExact
      /\ SnapshotExact /\ Complete /\ NeverPartial /\ Unused
      /\ StateTypes \subseteq Types
  BY BufferAssumption DEF IInv, NothingLost
<1>2. UNCHANGED <<iterator, seen, shown, iterators, opened>> /\ heard' \in Nat
  BY <1>1 DEF Hear, TypeOK
<1>3. body # NoBody => body \in Shaped(Objects) /\ now \in Shaped(Objects) /\ now \in Payloads
  <2>1. SUFFICES ASSUME body # NoBody
                 PROVE  body \in Shaped(Objects) /\ now \in Shaped(Objects) /\ now \in Payloads
    OBVIOUS
  <2>2. body \in Shaped(Objects)
    BY <2>1, ObjectsShape
  <2>3. Truth(history[t], Len(history[t])) \in Shaped(Objects)
    BY <1>1, TruthShaped, EventFacts
  <2>4. now \in Shaped(Objects)
    BY <2>2, <2>3, ObjectsMerge
  <2>5. QED
    BY <2>2, <2>4 DEF Shaped
<1>4. /\ history' = IF body = NoBody THEN history
                    ELSE [history EXCEPT ![t] = Append(history[t], now)]
      /\ history' \in [Types -> Seq(Payloads)]
      /\ history'[t] = IF body = NoBody THEN history[t] ELSE Append(history[t], now)
      /\ \A u \in Types \ {t} : history'[u] = history[u]
  BY <1>1, <1>3 DEF Hear, TypeOK
<1>5. /\ \A u \in Types : history'[u] \in Seq(Payloads) /\ Len(history[u]) \in Nat
                          /\ Len(history'[u]) \in Nat
                          /\ Len(history[u]) <= Len(history'[u])
      /\ \A u \in Types : \A n \in 1..Len(history[u]) : history'[u][n] = history[u][n]
      /\ body # NoBody => Len(history'[t]) = Len(history[t]) + 1
      /\ body # NoBody => history'[t][Len(history[t]) + 1] = now
  BY <1>1, <1>3, <1>4, EventFacts
<1>6. event \in Events
  <2>1. Len(history'[t]) \in Nat
    BY <1>5
  <2>2. body \in Payloads \cup {NoBody}
    BY BufferAssumption
  <2>3. QED
    BY <2>1, <2>2 DEF Events
<1>7. /\ pending' = Append(room, event)
      /\ room \in Seq(Events) /\ Len(room) < PendingLimit
      /\ \A i \in DOMAIN room : \E j \in DOMAIN pending : room[i] = pending[j]
      /\ carry' \in [Types -> Payloads \cup {NoBody}] /\ left' \in [Types -> Nat]
      /\ \A u \in Types : /\ left'[u] \in 0..Len(history[u])
                          /\ carry'[u] # NoBody => carry'[u] \in Shaped(Objects)
      /\ \A u \in StateTypes :
           /\ Merge(Known(seen[u]), Known(carry'[u])) = Truth(history[u], left'[u])
           /\ Continues(room, u, left'[u], history[u])
           /\ shown[u] <= left'[u]
           /\ carry'[u] # NoBody => shown[u] < left'[u]
  <2>1. Buffer(event)
    BY DEF Hear
  <2>2. CASE Len(pending) < PendingLimit
    <3>1. pending' = Append(pending, event) /\ UNCHANGED <<carry, left>> /\ room = pending
      BY <1>1, <2>1, <2>2, BufferAssumption DEF Buffer, TypeOK
    <3>2. /\ carry \in [Types -> Payloads \cup {NoBody}] /\ left \in [Types -> Nat]
          /\ \A u \in Types : /\ left[u] \in 0..Len(history[u])
                              /\ carry[u] # NoBody => carry[u] \in Shaped(Objects)
      BY <1>1 DEF TypeOK, ShapesOK
    <3>3. \A u \in StateTypes :
            /\ Merge(Known(seen[u]), Known(carry[u])) = Truth(history[u], left[u])
            /\ Continues(pending, u, left[u], history[u])
            /\ shown[u] <= left[u]
            /\ carry[u] # NoBody => shown[u] < left[u]
      BY <1>1 DEF CarryExact, QueueExact, PositionsOK
    <3>4. pending \in Seq(Events)
      BY <1>1, EventFacts
    <3>5. QED
      BY <2>2, <3>1, <3>2, <3>3, <3>4
  <2>3. CASE ~(Len(pending) < PendingLimit)
    <3>1. pending \in Seq(Events) /\ Len(pending) \in Nat /\ Len(pending) <= PendingLimit
      BY <1>1, EventFacts DEF TypeOK
    <3>2. pending # <<>>
      BY <2>3, <3>1, BufferAssumption
    <3>3. /\ pending' = Append(Tail(pending), event) /\ CarryOver(Head(pending))
          /\ room = Tail(pending)
      BY <2>1, <2>3 DEF Buffer
    <3>4. /\ Tail(pending) \in Seq(Events) /\ Len(Tail(pending)) < PendingLimit
          /\ \A i \in DOMAIN Tail(pending) : \E j \in DOMAIN pending : Tail(pending)[i] = pending[j]
      <4>1. /\ Tail(pending) \in Seq(Events) /\ Len(Tail(pending)) = Len(pending) - 1
            /\ DOMAIN Tail(pending) = 1..Len(Tail(pending)) /\ DOMAIN pending = 1..Len(pending)
            /\ \A i \in 1..Len(Tail(pending)) : Tail(pending)[i] = pending[i + 1]
        BY <3>1, <3>2
      <4>2. \A i \in 1..Len(Tail(pending)) : i + 1 \in 1..Len(pending)
        BY <3>1, <4>1
      <4>3. Len(Tail(pending)) < PendingLimit
        BY <3>1, <4>1, BufferAssumption
      <4>4. QED
        BY <4>1, <4>2, <4>3
    <3>5. QED
      BY <3>2, <3>3, <3>4, Dropping
  <2>4. QED
    BY <2>2, <2>3
<1>8. /\ pending' \in Seq(Events) /\ Len(pending') <= PendingLimit
      /\ DOMAIN pending' = 1..Len(room) + 1 /\ DOMAIN room = 1..Len(room) /\ Len(room) \in Nat
      /\ pending'[Len(room) + 1] = event
      /\ \A i \in 1..Len(room) : pending'[i] = room[i]
  <2>1. room \in Seq(Events) /\ Len(room) < PendingLimit /\ pending' = Append(room, event)
    BY <1>7
  <2> HIDE DEF room, event, now
  <2>2. Len(room) \in Nat /\ DOMAIN room = 1..Len(room)
    BY <2>1
  <2>3. pending' \in Seq(Events) /\ Len(pending') = Len(room) + 1
    BY <1>6, <2>1, AppendFacts
  <2>4. Len(pending') <= PendingLimit
    <3>1. PendingLimit \in Nat
      BY BufferAssumption
    <3>2. Len(room) \in Nat /\ Len(room) < PendingLimit
      BY <2>1, <2>2
    <3>3. Len(room) + 1 <= PendingLimit
      BY <3>1, <3>2
    <3>4. QED
      BY <2>3, <3>3
  <2>5. DOMAIN pending' = 1..Len(room) + 1
    BY <2>3
  <2>6. /\ pending'[Len(room) + 1] = event
        /\ \A i \in 1..Len(room) : pending'[i] = room[i]
    <3>1. /\ Append(room, event)[Len(room) + 1] = event
          /\ \A i \in 1..Len(room) : Append(room, event)[i] = room[i]
      BY <1>6, <2>1, AppendFacts
    <3>2. QED
      BY <2>1, <3>1
  <2>7. QED
    BY <2>2, <2>3, <2>4, <2>5, <2>6
<1>9. TypeOK'
  <2>1. \A u \in Types : left'[u] \in 0..Len(history'[u]) /\ shown'[u] \in 0..Len(history'[u])
    <3> SUFFICES ASSUME NEW u \in Types
                 PROVE  left'[u] \in 0..Len(history'[u]) /\ shown'[u] \in 0..Len(history'[u])
      OBVIOUS
    <3>1. left'[u] \in 0..Len(history[u]) /\ shown'[u] \in 0..Len(history[u])
      BY <1>1, <1>2, <1>7 DEF TypeOK
    <3>2. /\ Len(history[u]) \in Nat /\ Len(history'[u]) \in Nat
          /\ Len(history[u]) <= Len(history'[u])
      BY <1>5
    <3>3. QED
      BY <3>1, <3>2
  <2>2. QED
    BY <1>1, <1>2, <1>4, <1>7, <1>8, <2>1 DEF TypeOK
<1>10. ShapesOK'
  <2>1. \A i \in DOMAIN pending' : pending'[i].body # NoBody => pending'[i].body \in Shaped(Objects)
    <3>1. \A i \in 1..Len(room) : room[i].body # NoBody => room[i].body \in Shaped(Objects)
      BY <1>1, <1>7, <1>8 DEF ShapesOK
    <3>2. event.body # NoBody => event.body \in Shaped(Objects)
      BY <1>3
    <3>3. \A i \in DOMAIN pending' : i \in 1..Len(room) \/ i = Len(room) + 1
      BY <1>8
    <3>4. QED
      BY <1>8, <3>1, <3>2, <3>3
  <2>2. \A u \in Types : \A n \in 1..Len(history'[u]) : history'[u][n] \in Shaped(Objects)
    <3>1. SUFFICES ASSUME NEW u \in Types, NEW n \in 1..Len(history'[u])
                   PROVE  history'[u][n] \in Shaped(Objects)
      OBVIOUS
    <3>2. CASE n \in 1..Len(history[u])
      BY <1>1, <1>5, <3>2 DEF ShapesOK
    <3>3. CASE n \notin 1..Len(history[u])
      <4>1. u = t /\ body # NoBody
        BY <1>4, <3>3
      <4>2. n = Len(history[t]) + 1
        BY <1>5, <3>3, <4>1
      <4>3. QED
        BY <1>3, <1>5, <4>1, <4>2
    <3>4. QED
      BY <3>2, <3>3
  <2>3. QED
    BY <1>1, <1>2, <1>7, <2>1, <2>2 DEF ShapesOK
<1>11. PositionsOK'
  <2>1. \A i \in 1..Len(room) : /\ room[i].type \in Types
                                /\ room[i].at \in Nat
                                /\ room[i].at <= Len(history[room[i].type])
    <3>1. \A i \in 1..Len(room) : room[i] \in Events
      BY <1>7, <1>8
    <3>2. QED
      BY <1>1, <1>7, <1>8, <3>1, EventFacts DEF PositionsOK
  <2>2. \A i \in 1..Len(room) : pending'[i].at <= Len(history'[pending'[i].type])
    <3>1. SUFFICES ASSUME NEW i \in 1..Len(room)
                   PROVE  pending'[i].at <= Len(history'[pending'[i].type])
      OBVIOUS
    <3> DEFINE u == room[i].type
    <3>2. u \in Types /\ room[i].at \in Nat /\ room[i].at <= Len(history[u])
      BY <2>1
    <3> HIDE DEF u
    <3>3. /\ Len(history[u]) \in Nat /\ Len(history'[u]) \in Nat
          /\ Len(history[u]) <= Len(history'[u])
      BY <1>5, <3>2
    <3>4. room[i].at <= Len(history'[u])
      BY <3>2, <3>3
    <3>5. QED
      BY <1>8, <3>4 DEF u
  <2>3. \A i \in DOMAIN pending' : i \in 1..Len(room) \/ i = Len(room) + 1
    BY <1>8
  <2>4. event.at <= Len(history'[event.type])
    BY <1>5
  <2>5. QED
    BY <1>2, <1>7, <1>8, <2>2, <2>3, <2>4 DEF PositionsOK
<1>12. CarryExact'
  <2>1. \A u \in StateTypes : Truth(history'[u], left'[u]) = Truth(history[u], left'[u])
    <3>1. SUFFICES ASSUME NEW u \in StateTypes
                   PROVE  Truth(history'[u], left'[u]) = Truth(history[u], left'[u])
      OBVIOUS
    <3>2. left'[u] = 0 \/ left'[u] \in 1..Len(history[u])
      BY <1>1, <1>5, <1>7
    <3>3. QED
      BY <1>1, <1>5, <3>2 DEF Truth
  <2>2. QED
    BY <1>2, <1>7, <2>1 DEF CarryExact
<1>13. QueueExact'
  <2>1. SUFFICES ASSUME NEW u \in StateTypes
                 PROVE  Continues(pending', u, left'[u], history'[u])
    BY DEF QueueExact
  <2>2. /\ Continues(room, u, left'[u], history[u]) /\ left'[u] \in 0..Len(history[u])
        /\ history[u] \in Seq(Payloads) /\ room \in Seq(Events) /\ u \in Types
    BY <1>1, <1>7, EventFacts
  <2>3. CASE u = t /\ body # NoBody
    <3>1. event.type = u /\ event.body # NoBody /\ event.at = Len(history[u]) + 1
      BY <1>5, <2>3
    <3>2. now = Merge(Truth(history[u], Len(history[u])), event.body) /\ now \in Payloads
      BY <1>3, <2>3
    <3>3. history'[u] = Append(history[u], now)
      BY <1>4, <2>3
    <3> HIDE DEF now, event, room
    <3>4. Continues(Append(room, event), u, left'[u], Append(history[u], now))
      BY <1>6, <2>2, <3>1, <3>2, AppendNext
    <3>5. QED
      BY <1>7, <3>3, <3>4
  <2>4. CASE ~(u = t /\ body # NoBody)
    <3>1. history'[u] = history[u]
      BY <1>4, <2>2, <2>4
    <3>2. event.type # u \/ event.body = NoBody
      BY <2>4
    <3>3. QED
      BY <1>6, <1>7, <2>2, <3>1, <3>2, AppendOther
  <2>5. QED
    BY <2>3, <2>4
<1>14. SnapshotExact'
  <2>1. \A u \in StateTypes : shown[u] # 0 => history'[u][shown[u]] = history[u][shown[u]]
    BY <1>1, <1>5 DEF TypeOK
  <2>2. QED
    BY <1>1, <1>2, <2>1 DEF SnapshotExact
<1>15. Complete'
  <2>1. SUFFICES ASSUME NEW u \in StateTypes, NEW n \in 1..Len(history'[u])
                 PROVE  Required \subseteq DOMAIN history'[u][n]
    BY DEF Complete
  <2>2. CASE n \in 1..Len(history[u])
    BY <1>1, <1>5, <2>2 DEF Complete
  <2>3. CASE n \notin 1..Len(history[u])
    <3>1. u = t /\ body # NoBody
      BY <1>1, <1>4, <2>3
    <3>2. n = Len(history[t]) + 1 /\ history'[u][n] = now
      BY <1>5, <2>3, <3>1
    <3>3. Truth(history[t], Len(history[t])) \in Shaped(Objects)
      BY <1>1, TruthShaped, EventFacts
    <3>4. DOMAIN now = DOMAIN Truth(history[t], Len(history[t])) \cup DOMAIN body
      <4>1. body \in Shaped(Objects)
        BY <1>3, <3>1
      <4>2. QED
        BY <3>3, <4>1, ObjectsMerge
    <3>5. CASE history[t] = <<>>
      BY <3>1, <3>2, <3>4, <3>5 DEF Hear, FullFirst
    <3>6. CASE history[t] # <<>>
      <4>1. Len(history[t]) \in 1..Len(history[t])
        BY <1>1, <3>6, EventFacts
      <4>2. Required \subseteq DOMAIN history[t][Len(history[t])]
        BY <1>1, <3>1, <4>1 DEF Complete
      <4>3. QED
        BY <3>2, <3>4, <4>1, <4>2 DEF Truth
    <3>7. QED
      BY <3>5, <3>6
  <2>4. QED
    BY <2>2, <2>3
<1>16. NeverPartial' /\ Unused'
  BY <1>1, <1>2 DEF NeverPartial, Unused, NoKeys, NoneYet
<1>17. QED
  BY <1>9, <1>10, <1>11, <1>12, <1>13, <1>14, <1>15, <1>16 DEF IInv, NothingLost

(* What taking the first event does to the queue, whichever kind it is. *)
LEMMA TakenQueue ==
    ASSUME TypeOK, ShapesOK, PositionsOK, pending # <<>>, pending' = Tail(pending),
           UNCHANGED history
    PROVE  /\ pending' \in Seq(Events) /\ Len(pending') <= PendingLimit
           /\ \A i \in DOMAIN pending' :
                /\ pending'[i].body # NoBody => pending'[i].body \in Shaped(Objects)
                /\ pending'[i].at <= Len(history'[pending'[i].type])
<1>1. /\ pending' \in Seq(Events) /\ Len(pending') = Len(pending) - 1
      /\ DOMAIN pending' = 1..Len(pending') /\ DOMAIN pending = 1..Len(pending)
      /\ \A i \in 1..Len(pending') : pending'[i] = pending[i + 1]
      /\ Len(pending) \in Nat /\ Len(pending) <= PendingLimit
  BY DEF TypeOK
<1>2. \A i \in 1..Len(pending') : i + 1 \in DOMAIN pending
  BY <1>1
<1>3. Len(pending') <= PendingLimit
  BY <1>1, BufferAssumption
<1>4. \A i \in DOMAIN pending' :
        /\ pending'[i].body # NoBody => pending'[i].body \in Shaped(Objects)
        /\ pending'[i].at <= Len(history'[pending'[i].type])
  BY <1>1, <1>2 DEF ShapesOK, PositionsOK
<1>5. QED
  BY <1>1, <1>3, <1>4

(* states() passes over an event. *)
LEMMA TakeOtherInvariant ==
    ASSUME StableShapes, IInv, TakeOther
    PROVE  IInv'
<1> DEFINE event == Head(pending)
<1> DEFINE T == event.type
<1>1. /\ TypeOK /\ ShapesOK /\ PositionsOK /\ CarryExact /\ QueueExact
      /\ SnapshotExact /\ Complete /\ NeverPartial /\ Unused
      /\ StateTypes \subseteq Types
  BY BufferAssumption DEF IInv, NothingLost
<1>2. /\ pending # <<>> /\ NextEvent(event) /\ pending' = Tail(pending)
      /\ T \notin StateTypes \/ Folded(event) = NoBody
      /\ UNCHANGED <<iterator, seen, counters, history, shown>>
  BY DEF TakeOther, NextEvent
<1>3. UNCHANGED <<iterator, seen, heard, iterators, opened, history, shown>>
  BY <1>2 DEF counters
<1>4. /\ carry' = [carry EXCEPT ![T] = NoBody] /\ left' \in [Types -> Nat] /\ T \in Types
      /\ \A t \in Types : left'[t] \in 0..Len(history[t]) /\ (t # T => left'[t] = left[t])
      /\ \A t \in StateTypes : Continues(Tail(pending), t, left'[t], history[t])
      /\ T \in StateTypes => carry[T] = NoBody /\ left'[T] = left[T]
  BY <1>2, Taking
<1>5. /\ carry' \in [Types -> Payloads \cup {NoBody}]
      /\ \A t \in Types : carry'[t] # NoBody => carry'[t] = carry[t]
      /\ \A t \in StateTypes : carry'[t] = carry[t] /\ left'[t] = left[t]
  BY <1>1, <1>4 DEF TypeOK
<1>6. TypeOK'
  BY <1>1, <1>2, <1>3, <1>4, <1>5, TakenQueue DEF TypeOK
<1>7. ShapesOK' /\ PositionsOK'
  BY <1>1, <1>2, <1>3, <1>5, TakenQueue DEF ShapesOK, PositionsOK
<1>8. CarryExact' /\ QueueExact'
  BY <1>1, <1>2, <1>3, <1>4, <1>5 DEF CarryExact, QueueExact
<1>9. SnapshotExact' /\ Complete' /\ NeverPartial' /\ Unused'
  BY <1>1, <1>3 DEF SnapshotExact, Complete, NeverPartial, Unused, NoKeys, NoneYet
<1>10. QED
  BY <1>6, <1>7, <1>8, <1>9 DEF IInv, NothingLost

(* states() merges an event and yields a snapshot. *)
LEMMA TakeStateInvariant ==
    ASSUME StableShapes, IInv, TakeState
    PROVE  /\ IInv'
           /\ shown[Head(pending).type] < shown'[Head(pending).type]
           /\ shown'[Head(pending).type] \in 1..Len(history[Head(pending).type])
           /\ seen'[Head(pending).type] = history[Head(pending).type][shown'[Head(pending).type]]
<1> DEFINE event == Head(pending)
<1> DEFINE T == event.type
<1> DEFINE merged == Merge(Known(seen[T]), Folded(event))
<1>1. /\ TypeOK /\ ShapesOK /\ PositionsOK /\ CarryExact /\ QueueExact
      /\ SnapshotExact /\ Complete /\ NeverPartial /\ Unused
      /\ StateTypes \subseteq Types
  BY BufferAssumption DEF IInv, NothingLost
<1>2. /\ pending # <<>> /\ NextEvent(event) /\ pending' = Tail(pending)
      /\ T \in StateTypes /\ Folded(event) # NoBody
      /\ seen' = [seen EXCEPT ![T] = merged]
      /\ shown' = [shown EXCEPT ![T] = FoldedAt(event)]
      /\ iterator' = Validated(merged)
      /\ UNCHANGED <<counters, history>> /\ iterator = "running"
  BY DEF TakeState, NextEvent
<1>3. UNCHANGED <<heard, iterators, opened, history>>
  BY <1>2 DEF counters
<1>4. /\ carry' = [carry EXCEPT ![T] = NoBody] /\ left' \in [Types -> Nat]
      /\ left'[T] = FoldedAt(event)
      /\ \A t \in Types : left'[t] \in 0..Len(history[t]) /\ (t # T => left'[t] = left[t])
      /\ \A t \in StateTypes : Continues(Tail(pending), t, left'[t], history[t])
      /\ Folded(event) \in Shaped(Objects)
      /\ merged = Truth(history[T], left'[T])
      /\ shown[T] < left'[T]
  BY <1>2, Taking
<1>5. T \in Types /\ shown[T] \in Nat /\ left'[T] \in Nat /\ Len(history[T]) \in Nat
  BY <1>1, <1>2, <1>4, EventFacts DEF TypeOK
<1>6. /\ left'[T] \in 1..Len(history[T]) /\ left'[T] # 0
      /\ merged = history[T][left'[T]]
  BY <1>4, <1>5 DEF Truth
<1>7. merged \in Shaped(Objects) /\ merged \in Payloads /\ merged # NoBody
  <2>1. merged \in Shaped(Objects)
    BY <1>1, <1>5, <1>6 DEF ShapesOK
  <2>2. QED
    BY <2>1, BufferAssumption DEF Shaped
<1>8. /\ seen' \in [Types -> Payloads \cup {NoBody}] /\ seen'[T] = merged
      /\ shown' \in [Types -> Nat] /\ shown'[T] = left'[T]
      /\ \A t \in Types \ {T} : seen'[t] = seen[t] /\ shown'[t] = shown[t]
  BY <1>1, <1>2, <1>4, <1>5, <1>7 DEF TypeOK
<1>9. /\ carry' \in [Types -> Payloads \cup {NoBody}] /\ carry'[T] = NoBody
      /\ \A t \in Types \ {T} : carry'[t] = carry[t]
  BY <1>1, <1>4, <1>5 DEF TypeOK
<1>10. Required \subseteq DOMAIN merged
  BY <1>1, <1>2, <1>6 DEF Complete
<1>11. iterator' = "running"
  BY <1>2, <1>10 DEF Validated
<1>12. TypeOK'
  <2>1. \A t \in Types : left'[t] \in 0..Len(history'[t]) /\ shown'[t] \in 0..Len(history'[t])
    BY <1>1, <1>3, <1>4, <1>8 DEF TypeOK
  <2>2. QED
    BY <1>1, <1>2, <1>3, <1>4, <1>8, <1>9, <1>11, <2>1, TakenQueue DEF TypeOK
<1>13. ShapesOK'
  BY <1>1, <1>2, <1>3, <1>7, <1>8, <1>9, TakenQueue DEF ShapesOK
<1>14. PositionsOK'
  <2>1. \A i \in DOMAIN pending' : pending'[i].at <= Len(history'[pending'[i].type])
    BY <1>1, <1>2, <1>3, TakenQueue
  <2>2. shown'[T] <= left'[T] /\ carry'[T] = NoBody
    BY <1>5, <1>8, <1>9
  <2>3. \A t \in StateTypes \ {T} : /\ shown'[t] <= left'[t]
                                    /\ carry'[t] # NoBody => shown'[t] < left'[t]
    BY <1>1, <1>4, <1>8, <1>9 DEF PositionsOK
  <2>4. QED
    BY <2>1, <2>2, <2>3 DEF PositionsOK
<1>15. CarryExact'
  <2>1. Merge(Known(seen'[T]), Known(carry'[T])) = Truth(history'[T], left'[T])
    BY <1>3, <1>4, <1>7, <1>8, <1>9, MergeWithEmpty DEF Known
  <2>2. \A t \in StateTypes \ {T} :
          Merge(Known(seen'[t]), Known(carry'[t])) = Truth(history'[t], left'[t])
    BY <1>1, <1>3, <1>4, <1>8, <1>9 DEF CarryExact
  <2>3. QED
    BY <2>1, <2>2 DEF CarryExact
<1>16. QueueExact'
  BY <1>2, <1>3, <1>4 DEF QueueExact
<1>17. SnapshotExact'
  BY <1>1, <1>3, <1>6, <1>8 DEF SnapshotExact
<1>18. Complete' /\ NeverPartial' /\ Unused'
  BY <1>1, <1>2, <1>3, <1>11 DEF Complete, NeverPartial, Unused
<1>19. QED
  BY <1>3, <1>4, <1>6, <1>8, <1>12, <1>13, <1>14, <1>15, <1>16, <1>17, <1>18
     DEF IInv, NothingLost

(* The first call of states() on a connection finds nothing taken before it.   *)
LEMMA IterateInvariant ==
    ASSUME OneIterator, IInv, Iterate
    PROVE  IInv' /\ UNCHANGED <<seen, shown>>
<1>1. /\ TypeOK /\ ShapesOK /\ PositionsOK /\ NothingLost
      /\ SnapshotExact /\ Complete /\ NeverPartial /\ Unused
  BY DEF IInv
<1>2. iterators = 0
  BY <1>1, BufferAssumption DEF Iterate, OneIterator, TypeOK
<1>3. /\ UNCHANGED <<pending, carry, seen, shown, heard, opened, history, left>>
      /\ iterator' = "running" /\ iterators' = 1
  BY <1>1, <1>2 DEF Iterate, Unused
<1>4. TypeOK' /\ ShapesOK' /\ PositionsOK'
  BY <1>1, <1>3 DEF TypeOK, ShapesOK, PositionsOK
<1>5. CarryExact' /\ QueueExact'
  BY <1>1, <1>3 DEF NothingLost, CarryExact, QueueExact
<1>6. SnapshotExact' /\ Complete' /\ NeverPartial' /\ Unused'
  BY <1>1, <1>3 DEF SnapshotExact, Complete, NeverPartial, Unused
<1>7. QED
  BY <1>3, <1>4, <1>5, <1>6 DEF IInv, NothingLost

(* __aenter__ again: as at the start. *)
LEMMA ReopenInvariant ==
    ASSUME StableShapes, IInv, Reopen
    PROVE  IInv'
<1>1. /\ pending' \in Seq(Events) /\ Len(pending') = 0 /\ DOMAIN pending' = {}
      /\ \A t \in Types : Len(history'[t]) = 0 /\ history'[t] \in Seq(Payloads)
  BY DEF Reopen
<1>2. TypeOK'
  BY <1>1, BufferAssumption DEF Reopen, IInv, NoKeys, NoneYet, TypeOK
<1>3. ShapesOK' /\ PositionsOK' /\ SnapshotExact' /\ Complete' /\ NeverPartial' /\ Unused'
  BY <1>1, BufferAssumption
     DEF Reopen, NoKeys, NoneYet, ShapesOK, PositionsOK, SnapshotExact, Complete, NeverPartial,
         Unused
<1>4. CarryExact'
  BY BufferAssumption, EmptyIsPayload, MergeEmpty
     DEF Reopen, NoKeys, NoneYet, CarryExact, Known, Truth
<1>5. QueueExact'
  BY <1>1, BufferAssumption DEF Reopen, NoneYet, QueueExact, Continues, Saying
<1>6. QED
  BY <1>2, <1>3, <1>4, <1>5 DEF IInv, NothingLost

LEMMA StutterInvariant ==
    ASSUME IInv, UNCHANGED vars
    PROVE  IInv'
<1>1. UNCHANGED <<pending, carry, iterator, seen, heard, iterators, opened, history, left, shown>>
  BY DEF vars, counters, ghosts
<1>2. TypeOK' /\ ShapesOK' /\ PositionsOK'
  BY <1>1 DEF IInv, TypeOK, ShapesOK, PositionsOK
<1>3. CarryExact' /\ QueueExact'
  BY <1>1 DEF IInv, NothingLost, CarryExact, QueueExact
<1>4. SnapshotExact' /\ Complete' /\ NeverPartial' /\ Unused'
  BY <1>1 DEF IInv, SnapshotExact, Complete, NeverPartial, Unused, NoKeys, NoneYet
<1>5. QED
  BY <1>2, <1>3, <1>4 DEF IInv, NothingLost
-------------------------------------------------------------------------------
(* The inductive invariant holds throughout. *)
THEOREM Invariance ==
    ASSUME StableShapes, OneIterator
    PROVE  Spec => []IInv
<1>1. Init => IInv
  BY InitInvariant
<1>2. IInv /\ [Next]_vars => IInv'
  <2> SUFFICES ASSUME IInv, [Next]_vars
               PROVE  IInv'
    OBVIOUS
  <2>1. ASSUME NEW t \in Types, NEW body \in Bodies \cup {NoBody}, Hear(t, body)
        PROVE  IInv'
    BY <2>1, HearInvariant
  <2>2. CASE TakeOther
    BY <2>2, TakeOtherInvariant
  <2>3. CASE TakeState
    BY <2>3, TakeStateInvariant
  <2>4. CASE Iterate
    BY <2>4, IterateInvariant
  <2>5. CASE Reopen
    BY <2>5, ReopenInvariant
  <2>6. CASE UNCHANGED vars
    BY <2>6, StutterInvariant
  <2>7. QED
    BY <2>1, <2>2, <2>3, <2>4, <2>5, <2>6 DEF Next
<1>3. QED
  BY <1>1, <1>2, PTL DEF Spec

(* _buffer(), _carry_over(), _next_event(): nothing kvmd said is lost, however  *)
(* small the buffer and however long nothing iterates.                          *)
THEOREM BufferLosesNothing ==
    ASSUME StableShapes, OneIterator
    PROVE  Spec => []NothingLost
<1>1. IInv => NothingLost
  BY DEF IInv
<1>2. QED
  BY <1>1, Invariance, PTL

(* states(): every snapshot is a state the subsystem was in. *)
THEOREM SnapshotsAreTrue ==
    ASSUME StableShapes, OneIterator
    PROVE  Spec => []SnapshotExact
<1>1. IInv => SnapshotExact
  BY DEF IInv
<1>2. QED
  BY <1>1, Invariance, PTL

(* states(): it never validates a partial update on its own. *)
THEOREM SnapshotsAreComplete ==
    ASSUME StableShapes, OneIterator
    PROVE  Spec => []NeverPartial
<1>1. IInv => NeverPartial
  BY DEF IInv
<1>2. QED
  BY <1>1, Invariance, PTL
-------------------------------------------------------------------------------
LEMMA PayloadSequence ==
    ASSUME TypeOK, NEW t \in Types
    PROVE  history[t] \in Seq(Payloads)
BY DEF TypeOK

(* The buffer and the iterator implement DeviceFeed: over a bounded buffer     *)
(* states() shows what it could have shown over one that never dropped.        *)
THEOREM ImplementsFeed ==
    ASSUME StableShapes, OneIterator
    PROVE  Spec => FeedSpec
<1>1. Init => Feed!Init
  BY BufferAssumption DEF Init, NoKeys, NoneYet, Feed!Init, Feed!NothingShown
<1>2. IInv /\ [Next]_vars => [Feed!Next]_Feed!vars
  <2> SUFFICES ASSUME IInv, [Next]_vars
               PROVE  [Feed!Next]_Feed!vars
    OBVIOUS
  <2>1. TypeOK /\ ShapesOK /\ StateTypes \subseteq Types
    BY BufferAssumption DEF IInv
  <2>2. ASSUME NEW t \in Types, NEW body \in Bodies \cup {NoBody}, Hear(t, body)
        PROVE  [Feed!Next]_Feed!vars
    <3>1. UNCHANGED <<seen, shown>>
      BY <2>2 DEF Hear
    <3>2. CASE body = NoBody \/ t \notin StateTypes
      <4>1. \A u \in StateTypes : history'[u] = history[u]
        BY <2>1, <2>2, <3>2 DEF Hear, TypeOK
      <4>2. QED
        BY <3>1, <4>1 DEF Feed!vars
    <3>3. CASE body # NoBody /\ t \in StateTypes
      <4> DEFINE now == Merge(Truth(history[t], Len(history[t])), body)
      <4>1. now \in Payloads
        <5>1. Truth(history[t], Len(history[t])) \in Shaped(Objects)
          BY <2>1, TruthShaped, EventFacts
        <5>2. body \in Payloads
          BY <3>3, BufferAssumption
        <5>3. QED
          BY <5>1, <5>2, MergeIsPayload DEF Shaped
      <4>2. history' = [history EXCEPT ![t] = Append(history[t], now)]
        BY <2>1, <2>2, <3>3 DEF Hear, TypeOK
      <4> HIDE DEF now
      <4>3. [u \in StateTypes |-> history'[u]]
              = [[u \in StateTypes |-> history[u]] EXCEPT ![t] = Append(@, now)]
        BY <2>1, <3>3, <4>2 DEF TypeOK
      <4>4. Feed!Tell(t)
        BY <3>1, <4>1, <4>3 DEF Feed!Tell
      <4>5. QED
        BY <3>3, <4>4 DEF Feed!Next
    <3>4. QED
      BY <3>2, <3>3
  <2>3. CASE TakeOther
    BY <2>3 DEF TakeOther, Feed!vars
  <2>4. CASE TakeState
    <3>0. PICK t \in StateTypes : t = Head(pending).type
      BY <2>4 DEF TakeState
    <3>1. /\ shown[t] < shown'[t] /\ shown'[t] \in 1..Len(history[t])
          /\ seen'[t] = history[t][shown'[t]]
      BY <2>4, <3>0, TakeStateInvariant
    <3>2. /\ UNCHANGED history
          /\ seen' = [seen EXCEPT ![t] = seen'[t]]
          /\ shown' = [shown EXCEPT ![t] = shown'[t]]
      BY <2>1, <2>4, <3>0 DEF TakeState, TypeOK
    <3>3. shown[t] \in Nat /\ shown'[t] \in shown[t] + 1 .. Len(history[t])
      BY <2>1, <3>1, <3>2 DEF TypeOK
    <3>4. /\ [u \in StateTypes |-> shown'[u]]
               = [[u \in StateTypes |-> shown[u]] EXCEPT ![t] = shown'[t]]
          /\ [u \in StateTypes |-> seen'[u]]
               = [[u \in StateTypes |-> seen[u]] EXCEPT ![t] = history[t][shown'[t]]]
      BY <2>1, <3>1, <3>2 DEF TypeOK
    <3>5. Feed!Show(t)
      BY <3>2, <3>3, <3>4 DEF Feed!Show
    <3>6. QED
      BY <3>5 DEF Feed!Next
  <2>5. CASE Iterate
    BY <2>5, IterateInvariant DEF Iterate, Feed!vars
  <2>6. CASE Reopen
    <3>1. Feed!Reopen
      BY <2>1, <2>6 DEF Reopen, NoKeys, NoneYet, Feed!Reopen, Feed!Init, Feed!NothingShown
    <3>2. QED
      BY <3>1 DEF Feed!Next
  <2>7. CASE UNCHANGED vars
    BY <2>7 DEF vars, ghosts, Feed!vars
  <2>8. QED
    BY <2>2, <2>3, <2>4, <2>5, <2>6, <2>7 DEF Next
<1>3. QED
  BY <1>1, <1>2, Invariance, PTL DEF Spec, FeedSpec, Feed!Spec
===============================================================================
