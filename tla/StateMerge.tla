------------------------------ MODULE StateMerge ------------------------------
(***************************************************************************)
(* The payload of a kvmd event, and _merge() of src/aiopikvm/_ws.py, which  *)
(* folds one payload into what the same subsystem said before.              *)
(*                                                                          *)
(* A payload is a JSON object of any depth.  It is represented by the       *)
(* function that says what stands at each of its paths: Obj for a nested    *)
(* object, an atom for anything _merge() replaces whole (a scalar, null or  *)
(* an array).  A path is in the domain only if everything above it is an    *)
(* object.  This makes the recursion of _merge() a condition on paths, so   *)
(* that it can be reasoned about; MCAlgorithms checks it against a literal  *)
(* recursive transcription.                                                 *)
(***************************************************************************)
CONSTANTS Path,   \* paths into a payload: <<"image">>, <<"image", "name">>, ...
          Above,  \* the pairs <<q, p>> where q is a strict prefix of p
          Atoms,  \* values that are replaced whole
          Obj     \* marks a nested object

ASSUME PathAssumption ==
    /\ Above \subseteq Path \X Path
    /\ \A p, q, r \in Path :
         <<p, q>> \in Above /\ <<q, r>> \in Above => <<p, r>> \in Above
    /\ Obj \notin Atoms
-------------------------------------------------------------------------------
Nodes == Atoms \cup {Obj}

IsTree(f) == \A p \in DOMAIN f, q \in Path :
               <<q, p>> \in Above => q \in DOMAIN f /\ f[q] = Obj

Payloads == {f \in UNION {[D -> Nodes] : D \in SUBSET Path} : IsTree(f)}

Empty == [p \in {} |-> Obj]   \* the object {}

\* What `update` says nothing about survives: the path itself is not in it, and
\* no object above the path was replaced by something that is not an object.
Survives(p, update) ==
    /\ p \notin DOMAIN update
    /\ \A q \in DOMAIN update : <<q, p>> \in Above => update[q] = Obj

\* A mutated form of Merge, dict.update(): an object replaces an object.
MergeShallow(base, update) ==
    [p \in DOMAIN update \cup {q \in DOMAIN base : q \notin DOMAIN update
                                /\ \A r \in DOMAIN update : <<r, q>> \notin Above} |->
        IF p \in DOMAIN update THEN update[p] ELSE base[p]]

\* _merge(base, update): update wins wherever the two disagree, and objects on
\* both sides are merged rather than replaced.
Merge(base, update) ==
    [p \in DOMAIN update \cup {q \in DOMAIN base : Survives(q, update)} |->
        IF p \in DOMAIN update THEN update[p] ELSE base[p]]
-------------------------------------------------------------------------------
(***************************************************************************)
(* The condition under which merging may be regrouped: no path goes from an *)
(* object to something else and back to an object within three payloads.    *)
(* Without it the old object's fields outlive the value that replaced it.   *)
(***************************************************************************)
NoFlip(a, b, c) ==
    \A p \in DOMAIN a \cap DOMAIN b \cap DOMAIN c :
        a[p] = Obj /\ c[p] = Obj => b[p] = Obj

\* Payloads of a subsystem whose objects are always objects: `objects` are the
\* paths at which its model has one.
Shaped(objects) == {f \in Payloads : \A p \in DOMAIN f : f[p] = Obj <=> p \in objects}
===============================================================================
