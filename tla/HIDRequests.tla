------------------------------ MODULE HIDRequests ------------------------------
(***************************************************************************)
(* The keyboard and mouse calls of src/aiopikvm/resources/hid.py: the same     *)
(* events as on the socket, each a request of its own, and shortcuts, whose    *)
(* keys travel as one string that kvmd takes apart again.  In a shortcut a key *)
(* is a sequence of characters.                                               *)
(***************************************************************************)
EXTENDS HIDEncoding, SequencesExt

Comma == "comma"
Whitespace == {"space", "tab", "newline"}
Separators == {Comma, "space", "tab"}   \* what kvmd splits on: not every whitespace

\* The parameters of send_key(), send_mouse_button() and send_mouse_move(), where a
\* state is named; `finish` is left out unless it is 1.
KeyParams(event) ==
    [key |-> event.name, state |-> Flag(1, event.state), finish |-> Flag(1, Finish(event))]

ButtonParams(event) == [button |-> event.name, state |-> Flag(1, event.state)]

MoveParams(event) == [to_x |-> event.x, to_y |-> event.y]

\* What is posted.
Params(event) ==
    CASE event.kind = "key" -> KeyParams(event)
      [] event.kind = "button" -> ButtonParams(event)
      [] event.kind = "move" -> MoveParams(event)

\* A mutated form of Accepted: only what kvmd splits on is refused.
AcceptedByTheSplit(keys) ==
    /\ keys # <<>>
    /\ \A i \in DOMAIN keys : keys[i] # <<>> /\ ToSet(keys[i]) \cap Separators = {}

\* send_shortcut() raises no ConfigurationError: there are keys, none is empty, and
\* _LOST_IN_A_SHORTCUT is not found in any.
Accepted(keys) ==
    /\ keys # <<>>
    /\ \A i \in DOMAIN keys :
         keys[i] # <<>> /\ ToSet(keys[i]) \cap ({Comma} \cup Whitespace) = {}

\* ",".join(keys)
Joined(keys) ==
    FlattenSeq([i \in DOMAIN keys |-> IF i = 1 THEN keys[i] ELSE <<Comma>> \o keys[i]])
-------------------------------------------------------------------------------
(* kvmd.                                                                      *)

\* What it makes of the parameters of an event: numbers are clamped.
HeardParams(params) ==
    CASE "key" \in DOMAIN params ->
           [kind |-> "key", name |-> params.key, state |-> params.state = 1,
            finish |-> params.finish = 1]
      [] "button" \in DOMAIN params ->
           [kind |-> "button", name |-> params.button, state |-> params.state = 1]
      [] "to_x" \in DOMAIN params ->
           [kind |-> "move", x |-> Clamp(params.to_x, MoveMin, MoveMax),
            y |-> Clamp(params.to_y, MoveMin, MoveMax)]

Strip(s) ==
    LET kept == {i \in DOMAIN s : s[i] \notin Whitespace}
    IN  IF kept = {} THEN <<>> ELSE SubSeq(s, Min(kept), Max(kept))

\* An item is a longest stretch without a separator: where it begins and ends.
Items(s) ==
    {item \in (DOMAIN s) \X (DOMAIN s) :
        /\ item[1] <= item[2]
        /\ \A k \in item[1]..item[2] : s[k] \notin Separators
        /\ item[1] = 1 \/ s[item[1] - 1] \in Separators
        /\ item[2] = Len(s) \/ s[item[2] + 1] \in Separators}

\* Which of them it is, from the left.
Place(item, items) == Cardinality({other \in items : other[1] <= item[1]})

Split(s) ==
    [n \in 1..Cardinality(Items(s)) |->
        LET item == CHOOSE i \in Items(s) : Place(i, Items(s)) = n
        IN  SubSeq(s, item[1], item[2])]

\* The string of a shortcut is stripped and split, what is empty is dropped, and each
\* item is stripped before it is looked up.
HeardKeys(s) ==
    LET items == Split(Strip(s)) IN [n \in DOMAIN items |-> Strip(items[n])]
===============================================================================
