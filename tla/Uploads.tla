-------------------------------- MODULE Uploads --------------------------------
(***************************************************************************)
(* The body of an image upload (src/aiopikvm/resources/msd.py): an iterator   *)
(* held to the length that was announced for it.  Chunks are their lengths.   *)
(***************************************************************************)
EXTENDS Integers, Sequences

\* upload() takes an iterator only with a size, and not a negative one.
Announced(sizes) == {size \in sizes : size >= 0}

\* _AsyncStream: how much the iterator gave, how much was passed on, and how it
\* ended: "running", "done", or with ConfigurationError as "short" or "long".
Uploading == [sent |-> 0, passed |-> 0, ended |-> "running"]

\* A mutated form of PassOn: it is looked at only when all has been sent.
PassOnFirst(body, chunk, size) ==
    [body EXCEPT !.sent = @ + chunk, !.passed = @ + chunk]

\* One chunk of the iterator.
PassOn(body, chunk, size) ==
    IF body.sent + chunk > size
    THEN [body EXCEPT !.sent = @ + chunk, !.ended = "long"]
    ELSE [body EXCEPT !.sent = @ + chunk, !.passed = @ + chunk]

\* The iterator has come to its end.
Finished(body, size) ==
    [body EXCEPT !.ended = IF body.sent # size THEN "short" ELSE "done"]
===============================================================================
