------------------------------ MODULE DeviceFeed ------------------------------
(***************************************************************************)
(* What PiKVMWebSocket.states() promises, with no buffer in it.  Each        *)
(* subsystem of the device goes through a history of states; whoever         *)
(* iterates is shown some of them, always one the subsystem really was in,   *)
(* and never an earlier one after a later one.                               *)
(***************************************************************************)
EXTENDS Naturals, Sequences

CONSTANTS Types,    \* the subsystems
          States,   \* what a subsystem can say of itself, all of it
          Unknown   \* stands for a subsystem not shown yet

VARIABLES history,  \* the states each subsystem has been in, in order
          shown,    \* how far into that history the iterator has been taken
          snapshot  \* what the iterator was shown last

vars == <<history, shown, snapshot>>
-------------------------------------------------------------------------------
NothingShown == /\ shown = [t \in Types |-> 0]
                /\ snapshot = [t \in Types |-> Unknown]

Init == /\ history = [t \in Types |-> <<>>]
        /\ NothingShown

\* The device says something about subsystem t, which leaves it in a state.
Tell(t) == /\ \E s \in States : history' = [history EXCEPT ![t] = Append(@, s)]
           /\ UNCHANGED <<shown, snapshot>>

\* The iterator is shown a state of t later than the last one.
Show(t) == /\ \E i \in shown[t] + 1 .. Len(history[t]) :
                /\ shown' = [shown EXCEPT ![t] = i]
                /\ snapshot' = [snapshot EXCEPT ![t] = history[t][i]]
           /\ UNCHANGED history

\* A new iterator starts knowing nothing.
Iterate == NothingShown' /\ UNCHANGED history

\* A new connection: the device tells everything from the start.
Reopen == Init'

Next == \/ \E t \in Types : Tell(t) \/ Show(t)
        \/ Iterate
        \/ Reopen

Spec == Init /\ [][Next]_vars
===============================================================================
