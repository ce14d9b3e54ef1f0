------------------------------ MODULE RemoteUpload ------------------------------
(***************************************************************************)
(* upload_remote() and upload_remote_progress() of                            *)
(* src/aiopikvm/resources/msd.py: kvmd downloads an image and writes a record  *)
(* a line, under HTTP 200 whatever comes of it.  A failure is its last record, *)
(* and the connection breaks behind it.                                       *)
(*                                                                           *)
(* A line is a body of Responses, or Blank.  What has not been ended by a      *)
(* line break when the body ends is a line if it ended well, and lost if the   *)
(* connection broke.                                                          *)
(***************************************************************************)
EXTENDS Responses

Blank == [shape |-> "blank"]
NoRecord == 0

\* What upload_remote() has come to: the last record, and how it ended.
Waiting == [last |-> NoRecord, yielded |-> <<>>, outcome |-> [class |-> "running"]]

\* A mutated form of Yielded: an empty line is a record like any other.
YieldedBlank(download, line) ==
    LET record == WriteRecord(IF line = Blank THEN [shape |-> "text"] ELSE line)
    IN  IF IsFailure(record) THEN [download EXCEPT !.outcome = record]
        ELSE [download EXCEPT !.last = record.result, !.yielded = Append(@, record.result)]

\* A line comes: its record is yielded, and is the last; or it raises.
Yielded(download, line) ==
    IF line = Blank THEN download
    ELSE LET record == WriteRecord(line)
         IN  IF IsFailure(record) THEN [download EXCEPT !.outcome = record]
             ELSE [download EXCEPT !.last = record.result,
                                   !.yielded = Append(@, record.result)]

\* The body ends.
Ended(download) ==
    [download EXCEPT !.outcome =
        IF download.last = NoRecord THEN Raised("ResponseError", 0, Nothing, Nothing)
        ELSE Returned(download.last)]

\* The connection breaks.
Broken(download) ==
    [download EXCEPT !.outcome = [class |-> "ConnectError"]]
===============================================================================
