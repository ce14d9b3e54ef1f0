------------------------- MODULE ClientLifecycle_proofs -------------------------
(* Proofs about ClientLifecycle, for any set of tasks. *)
EXTENDS ClientLifecycle, TLAPS

(* While nobody calls aclose() but the end of a block, there is one block at    *)
(* a time; and an httpx client that is being closed is not used again.          *)
OneBlock ==
    ~explicit => /\ inside # {} => entered
                 /\ \A a, b \in inside : a = b

ClosingIsClosed ==
    /\ \A t \in Tasks : call[t] = "closing" => client = "closed" \/ closed
    /\ ~borrowed /\ client # "none" => entered

IInv == TypeOK /\ OneResponse /\ OneBlock /\ ClosingIsClosed /\ BlockKeepsClient

LEMMA InitHolds == Init => IInv
<1> SUFFICES ASSUME Init PROVE IInv
  OBVIOUS
<1>1. TypeOK
  <2>1. client \in {"none", "open"} /\ ~closed /\ ~entered
    BY DEF Init
  <2>2. call \in [Tasks -> {"idle"}] /\ held \in [Tasks -> Nat]
    BY DEF Init
  <2>3. /\ attempt \in [Tasks -> 1..2]
        /\ stream \in [Tasks -> BOOLEAN] /\ again \in [Tasks -> BOOLEAN]
    BY DEF Init
  <2>4. borrowed \in BOOLEAN /\ cookie \in BOOLEAN /\ entered = FALSE /\ closed = FALSE
    BY DEF Init
  <2>5. inside = {} /\ explicit = FALSE /\ foreign = {}
    BY DEF Init
  <2> QED
    BY <2>1, <2>2, <2>3, <2>4, <2>5 DEF TypeOK
<1>2. OneResponse
  BY DEF Init, OneResponse
<1>3. OneBlock /\ ClosingIsClosed /\ BlockKeepsClient
  BY DEF Init, OneBlock, ClosingIsClosed, BlockKeepsClient
<1> QED
  BY <1>1, <1>2, <1>3 DEF IInv

LEMMA TypeStep == IInv /\ [Next]_vars => TypeOK' /\ OneResponse'
<1> SUFFICES ASSUME IInv, [Next]_vars PROVE TypeOK' /\ OneResponse'
  OBVIOUS
<1> USE DEF IInv, TypeOK, OneResponse, Becomes, flavour, life, calls, history
<1>1. CASE UNCHANGED vars
  BY <1>1 DEF vars
<1> SUFFICES ASSUME NEW t \in Tasks,
                    \/ Enter(t) \/ CloseStarts(t) \/ CloseEnds(t) \/ CloseCancelled(t)
                    \/ Begin(t) \/ SessionEnsured(t) \/ Responded(t) \/ Opened(t)
                    \/ Dropped(t) \/ Leave(t) \/ Left(t)
             PROVE  TypeOK' /\ OneResponse'
  BY <1>1 DEF Next
<1>2. CASE Enter(t)
  BY <1>2 DEF Enter
<1>3. CASE CloseStarts(t)
  <2>1. inside' \subseteq Tasks /\ explicit' \in BOOLEAN
    BY <1>3 DEF CloseStarts
  <2>2. CASE ~borrowed /\ client = "open"
    BY <1>3, <2>1, <2>2 DEF CloseStarts, LetGo
  <2>3. CASE borrowed \/ client # "open"
    BY <1>3, <2>1, <2>3 DEF CloseStarts, LetGo
  <2> QED
    BY <2>2, <2>3
<1>4. CASE CloseEnds(t)
  BY <1>4 DEF CloseEnds, LetGo
<1>5. CASE CloseCancelled(t)
  BY <1>5 DEF CloseCancelled
<1>6. CASE Begin(t)
  BY <1>6 DEF Begin, Attempt
<1>7. CASE SessionEnsured(t)
  BY <1>7 DEF SessionEnsured, Attempt
<1>8. CASE Responded(t)
  BY <1>8 DEF Responded
<1>9. CASE Opened(t)
  <2>1. CASE Becomes(t, "idle") /\ UNCHANGED <<again, held>>
    BY <1>9, <2>1 DEF Opened
  <2>2. CASE /\ held' = [held EXCEPT ![t] = @ + 1]
             /\ Becomes(t, "reading") /\ UNCHANGED again
    BY <1>9, <2>2 DEF Opened
  <2>3. CASE /\ held' = [held EXCEPT ![t] = @ + 1]
             /\ Becomes(t, "dropping")
             /\ again' \in {[again EXCEPT ![t] = FALSE],
                            [again EXCEPT ![t] = cookie /\ attempt[t] = 1]}
    <3>1. again' \in [Tasks -> BOOLEAN]
      BY <2>3
    <3> QED
      BY <1>9, <2>3, <3>1 DEF Opened
  <2> QED
    BY <1>9, <2>1, <2>2, <2>3 DEF Opened
<1>10. CASE Dropped(t)
  BY <1>10 DEF Dropped
<1>11. CASE Leave(t)
  BY <1>11 DEF Leave
<1>12. CASE Left(t)
  BY <1>12 DEF Left
<1> QED
  BY <1>2, <1>3, <1>4, <1>5, <1>6, <1>7, <1>8, <1>9, <1>10, <1>11, <1>12

LEMMA BlockStep == IInv /\ [Next]_vars => OneBlock' /\ ClosingIsClosed' /\ BlockKeepsClient'
<1> SUFFICES ASSUME IInv, [Next]_vars
             PROVE  OneBlock' /\ ClosingIsClosed' /\ BlockKeepsClient'
  OBVIOUS
<1> USE DEF IInv, OneBlock, ClosingIsClosed, BlockKeepsClient, flavour, life, history
<1>1. CASE UNCHANGED vars
  BY <1>1 DEF vars, calls
<1> SUFFICES ASSUME NEW t \in Tasks,
                    \/ Enter(t) \/ CloseStarts(t) \/ CloseEnds(t) \/ CloseCancelled(t)
                    \/ Begin(t) \/ SessionEnsured(t) \/ Responded(t) \/ Opened(t)
                    \/ Dropped(t) \/ Leave(t) \/ Left(t)
             PROVE  OneBlock' /\ ClosingIsClosed' /\ BlockKeepsClient'
  BY <1>1 DEF Next
<1>2. CASE Enter(t)
  <2>1. client' = "open" /\ entered' /\ UNCHANGED <<call, closed, explicit>>
    BY <1>2 DEF Enter, calls, TypeOK
  <2>2. ~explicit => inside' = {t}
    BY <1>2 DEF Enter
  <2>3. \A u \in Tasks : call[u] # "closing"
    BY <1>2 DEF Enter, TypeOK
  <2> QED
    BY <2>1, <2>2, <2>3
<1>3. CASE CloseStarts(t)
  <2>1. ~explicit' => ~explicit /\ t \in inside /\ inside' = {}
    BY <1>3 DEF CloseStarts
  <2>2. CASE ~borrowed /\ client = "open"
    <3>1. client' = "closed" /\ entered' = entered /\ entered /\ borrowed' = borrowed
      BY <1>3, <2>2 DEF CloseStarts, LetGo, flavour
    <3> QED
      BY <2>1, <3>1
  <2>3. CASE borrowed \/ client # "open"
    <3>1. client' = "none" /\ closed' /\ call' = call
      BY <1>3, <2>3 DEF CloseStarts, LetGo
    <3> QED
      BY <2>1, <3>1
  <2> QED
    BY <2>2, <2>3
<1>4. CASE CloseEnds(t)
  BY <1>4 DEF CloseEnds, LetGo, Becomes, TypeOK
<1>5. CASE CloseCancelled(t)
  BY <1>5 DEF CloseCancelled, Becomes, TypeOK
<1>6. CASE \/ Begin(t) \/ SessionEnsured(t) \/ Responded(t) \/ Opened(t)
           \/ Dropped(t) \/ Leave(t) \/ Left(t)
  <2>1. UNCHANGED <<borrowed, client, entered, closed, inside, explicit>>
    BY <1>6 DEF Begin, SessionEnsured, Responded, Opened, Dropped, Leave, Left
  <2>2. \A u \in Tasks : call'[u] = "closing" => call[u] = "closing"
    BY <1>6 DEF Begin, SessionEnsured, Responded, Opened, Dropped, Leave, Left, Attempt,
                Becomes, TypeOK
  <2> QED
    BY <2>1, <2>2
<1> QED
  BY <1>2, <1>3, <1>4, <1>5, <1>6

LEMMA Invariance == Spec => []IInv
BY InitHolds, TypeStep, BlockStep, PTL DEF Spec, IInv

(* stream(): no attempt, refused or broken off, leaves a response open behind   *)
(* it, and no task has two.                                                    *)
THEOREM ResponsesAreClosed == Spec => []OneResponse
BY Invariance, PTL DEF IInv

(* __aenter__(), aclose(): nobody's block loses the HTTP client to another.     *)
THEOREM BlocksKeepTheClient == Spec => []BlockKeepsClient
BY Invariance, PTL DEF IInv
===============================================================================
