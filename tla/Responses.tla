------------------------------- MODULE Responses -------------------------------
(***************************************************************************)
(* What an answer of kvmd becomes: src/aiopikvm/_exceptions.py, the status    *)
(* checks of _client.py and _ws.py and the envelope of _base_resource.py.     *)
(* kvmd refuses with an HTTP status, over REST or in place of an upgrade, in   *)
(* the body of an HTTP 200, or in a line of a streamed body.                  *)
(*                                                                           *)
(* A body is the value it parses to:                                         *)
(*   [shape |-> "text"]                        not JSON                      *)
(*   [shape |-> "value"]                       JSON, and no object           *)
(*   [shape |-> "object", ok |-> BOOLEAN, result |-> ...]                    *)
(* and `result` is [dict |-> FALSE] or an object of which `error`,            *)
(* `error_msg` and `image` matter.                                           *)
(***************************************************************************)
EXTENDS Integers, Sequences

\* A field that is not there, or is no string; the string that is empty.
NotString == "not a string"
Nothing == ""

\* The exceptions, and what they carry.
Raised(class, status, error, error_msg) ==
    [class |-> class, status |-> status, error |-> error, error_msg |-> error_msg]
Returned(result) == [class |-> "returned", result |-> result]

IsFailure(outcome) == outcome.class # "returned"
-------------------------------------------------------------------------------
Str(field) == IF field = NotString THEN Nothing ELSE field

\* _error_fields()
ErrorFields(body) ==
    IF body.shape = "object" /\ body.result.dict
    THEN [error |-> Str(body.result.error), error_msg |-> Str(body.result.error_msg)]
    ELSE [error |-> Nothing, error_msg |-> Nothing]

\* _STATUS_ERRORS
ClassOf(status) ==
    CASE status \in {401, 403} -> "AuthError"
      [] status = 409 -> "BusyError"
      [] status = 503 -> "UnavailableError"
      [] OTHER -> "APIError"

\* _status_error()
StatusError(status, fields) ==
    IF status \in 300..399
    THEN Raised("RedirectError", status, Nothing, Nothing)
    ELSE Raised(ClassOf(status), status, fields.error, fields.error_msg)

\* _raise_for_status(), of a response whose status is no success.
RestError(response) ==
    IF response.status < 400
    THEN StatusError(response.status, ErrorFields([shape |-> "text"]))
    ELSE StatusError(response.status, ErrorFields(response.body))

\* A mutated form of HandshakeError: only the status is looked at.
BareHandshakeError(response) ==
    Raised(ClassOf(response.status), response.status, Nothing, Nothing)

\* _handshake_error(), of anything but 101.
HandshakeError(response) == StatusError(response.status, ErrorFields(response.body))

\* _envelope_error(): the words are read as _error_fields() does.
EnvelopeError(body) ==
    LET fields == ErrorFields(body)
    IN  Raised("APIError", 0, fields.error, fields.error_msg)

\* _unwrap()
Unwrap(body, status) ==
    CASE body.shape # "object" -> Raised("ResponseError", status, Nothing, Nothing)
      [] body.shape = "object" /\ ~body.ok -> EnvelopeError(body)
      [] OTHER -> Returned(body.result)

\* _request(): a status that is no success is raised, whatever the body says.
Request(response) ==
    CASE response.status >= 300 -> RestError(response)
      [] response.status < 300 /\ response.body.shape = "text" ->
           Raised("ResponseError", response.status, Nothing, Nothing)
      [] OTHER -> Unwrap(response.body, response.status)

\* _write_info(): an image block that the model accepts.
WriteInfo(outcome) ==
    CASE IsFailure(outcome) -> outcome
      [] ~IsFailure(outcome) /\ outcome.result.dict /\ outcome.result.image > 0 ->
           Returned(outcome.result.image)
      [] OTHER -> Raised("ResponseError", 0, Nothing, Nothing)

\* _write_record(): one line of a streamed body.
WriteRecord(body) ==
    IF body.shape = "text" THEN Raised("ResponseError", 0, Nothing, Nothing)
    ELSE WriteInfo(Unwrap(body, 0))
===============================================================================
