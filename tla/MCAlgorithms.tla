------------------------------ MODULE MCAlgorithms ------------------------------
(***************************************************************************)
(* Checks the pure algorithms over bounded inputs, each against something    *)
(* said independently of it.  To the exchanges of Exchanges, which bring      *)
(* their properties, it adds _merge() against the recursion it is written as. *)
(***************************************************************************)
EXTENDS StateMerge, Exchanges

CONSTANTS zero, one

MaxTold == 3

MCPath == {<<"k">>, <<"k", "x">>, <<"k", "x", "z">>, <<"k", "y">>}
MCAbove == {<<q, p>> \in MCPath \X MCPath :
              Len(q) < Len(p) /\ \A i \in 1..Len(q) : q[i] = p[i]}
MCAtoms == {zero, one}

\* Bodies that look like what the reader searches for, and an empty one.
Bodies == {<<>>, Marker, HeadEnd}
Befores == {<<>>, <<Dash>>, <<Dash, Dash>>, <<CR, Dash, Dash, Dash>>, HeadEnd}
\* The next part has begun, the stream was closed, or a part has no length.
NoLength == Marker \o <<CR, LF, Equals, 63>> \o HeadEnd
Afters == {Marker \o <<CR, LF>>, Marker \o Closing \o <<CR>>, NoLength}
MCStreams == [before : Befores, parts : UNION {[1..n -> Bodies] : n \in 0..2}, after : Afters]

MCSizes == -1..3
MCChunks == 0..2

Numbers == {-40000, -32769, -32768, -32767, -129, -128, -127, -1, 0, 1, 127, 128, 255, 256,
            32766, 32767, 32768, 65536}
Names == [ascii : BOOLEAN, length : 0..(NameLimit + 1)]
MCEvents ==
    [kind : {"key"}, name : Names, state : BOOLEAN, finish : BOOLEAN]
    \cup [kind : {"button"}, name : Names, state : BOOLEAN]
    \cup [kind : {"move"}, x : Numbers, y : Numbers]
    \cup [kind : {"relative", "wheel"}, squash : BOOLEAN,
          steps : {<<>>} \cup {<<<<x, y>>>> : x \in Numbers, y \in Numbers}
                  \cup {<<<<x, 0>>, <<1, y>>>> : x \in Numbers, y \in Numbers}]

Keys == BoundedSeq({"a", "b", Comma} \cup Whitespace, 2)
MCShortcuts == BoundedSeq(Keys, 2)

\* What kvmd, or something in between, may put into `result`, and around it.
Fields == {NotString, Nothing, "words"}
Results == {[dict |-> FALSE]}
           \cup [dict : {TRUE}, error : Fields, error_msg : Fields, image : 0..2]
Objects == [shape : {"object"}, ok : BOOLEAN, result : Results]
MCAnswers == [shape : {"text", "value"}] \cup Objects
MCStatuses == {200, 204, 300, 302, 399, 400, 401, 403, 404, 409, 500, 503}

\* Lines of a remote upload: two records, refusals, and what is neither.
MCLines ==
    {Blank, [shape |-> "text"], [shape |-> "value"]}
    \cup {b \in Objects : \/ ~b.result.dict
                          \/ b.result.error = "words" /\ b.result.error_msg = NotString}
-------------------------------------------------------------------------------
\* The payload as nested dictionaries, the form the code works on.
RECURSIVE Dict(_, _)
Dict(tree, at) ==
    [k \in {p[Len(at) + 1] : p \in {p \in DOMAIN tree :
                 Len(p) = Len(at) + 1 /\ \A i \in 1..Len(at) : p[i] = at[i]}} |->
        LET p == Append(at, k)
        IN  IF tree[p] = Obj THEN [isdict |-> TRUE, of |-> Dict(tree, p)]
                             ELSE [isdict |-> FALSE, of |-> tree[p]]]

\* _merge() as it is written: key by key, recursing where both sides hold a
\* dictionary.
RECURSIVE MergeDicts(_, _)
MergeDicts(base, update) ==
    [k \in DOMAIN base \cup DOMAIN update |->
        IF k \notin DOMAIN update THEN base[k]
        ELSE IF k \in DOMAIN base /\ base[k].isdict /\ update[k].isdict
             THEN [isdict |-> TRUE, of |-> MergeDicts(base[k].of, update[k].of)]
             ELSE update[k]]
-------------------------------------------------------------------------------
AlgorithmsInit ==
    \/ Init
    \/ about = "merge" /\ told = <<>> /\ state = Empty

\* The payloads of one subsystem, each merged into what came before, as states()
\* does; three are enough to regroup.
Tell ==
    /\ about = "merge" /\ Len(told) < MaxTold
    /\ \E payload \in Payloads :
         /\ told' = Append(told, payload)
         /\ state' = Merge(state, payload)
    /\ UNCHANGED about

AlgorithmsNext == Next \/ Tell

AlgorithmsSpec == AlgorithmsInit /\ [][AlgorithmsNext]_vars
-------------------------------------------------------------------------------
(* _merge() on paths is _merge() on dictionaries, whatever has been merged     *)
(* before.                                                                     *)
AgreesWithRecursion ==
    about = "merge" =>
        Dict(state, <<>>) =
            FoldLeft(LAMBDA base, payload : MergeDicts(base, Dict(payload, <<>>)),
                     Dict(Empty, <<>>), told)
===============================================================================
