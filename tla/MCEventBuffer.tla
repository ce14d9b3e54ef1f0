----------------------------- MODULE MCEventBuffer -----------------------------
(* Instances of EventBuffer: two subsystems and `loop`, payloads of one object *)
(* with two fields.                                                            *)
EXTENDS EventBuffer

CONSTANTS atx, msd, loop, zero, one, null

MCPath == {<<"image">>, <<"image", "name">>, <<"image", "size">>}
MCAbove == {<<<<"image">>, <<"image", "name">>>>, <<<<"image">>, <<"image", "size">>>>}

Image(fields) == [p \in {<<"image">>} \cup {<<"image", f>> : f \in DOMAIN fields} |->
                    IF p = <<"image">> THEN Obj ELSE fields[p[2]]]

Full == Image([name |-> zero, size |-> zero])
Name == Image([name |-> one])
Size == Image([size |-> one])

\* Only what changed, inside an object that is always there.
StableBodies == {Full, Name, Size}

\* An object that is null while there is no image, and that kvmd sends without
\* the field that does not apply.
NoImage == [p \in {<<"image">>} |-> null]
FlippingBodies == {Full, Name, NoImage}
ImageOnly == {<<"image">>}
===============================================================================
