# A TLA+ model of aiopikvm

aiopikvm is an asynchronous Python client for PiKVM, an IP-KVM whose server is called kvmd. Most of
it is thin: a method checks its arguments, sends one HTTP request and validates the answer. What is
hard is where several tasks of one event loop share something: a WebSocket that one task reads for
everybody, a session token that every request carries, a signalling connection with requests and
pushes in flight. This directory models that part in TLA+, checks it with TLC and proves the main
invariants with TLAPS.

## Inventory

| component | code | state it keeps | operations | what is hard |
|---|---|---|---|---|
| Event merging and buffering | `_ws.py`: `_buffer`, `_carry_over`, `_next_event`, `states`, `_merge` | the queue `_pending`, the dictionary `_carry`, the iterator's `seen` | the reader buffers an event; an iterator takes one, merged with what was dropped before it | a bounded queue must not lose a field that later, partial events rest on |
| Event socket tasks | `_ws.py`: `PiKVMWebSocket` | connection, reader task, `_wakeup`, `_failure`, `_reported`, `_pong_waiters` | enter and leave the block, iterate, ping, send; the reader drains the socket | tasks waiting on one another while the link closes, breaks or the block ends; telling a failure once |
| Cookie sessions | `_client.py`, `resources/auth.py` | the cookie jar, `_login_lock` | `request`, `stream`, `login`, `logout` | many requests refused for one token; renewing it once; not replaying a consumed body |
| WebRTC signalling | `_webrtc.py` | pending acknowledgements, plugin pushes, events, keeper and pump tasks, Janus ids | negotiate, request, keep alive, iterate frames, say goodbye | five kinds of task, timeouts at every step, teardown from any point of the negotiation |
| Media sockets | `_media_ws.py` | connection, announced media, frame queue of 64 | start, frames, ping | an upgrade that is through and an announcement that is not; a connection that ends under its viewers; a viewer that does not read |
| MJPEG streamer | `resources/streamer.py`: `_MultipartReader` | the bytes not yet parsed | feed a chunk, take a part | the result must not depend on where the chunks are cut |
| Mass storage | `resources/msd.py` | bytes sent so far; the last record | upload, upload from a URL | a length promised before the body is read; a failure inside an HTTP 200, with a broken connection behind it |
| Client lifecycle and status mapping | `_client.py`, `_base_resource.py`, `_exceptions.py` | entered, closed, the HTTP client | enter, close, map a status to an exception | use after close, borrowed HTTP client |
| Upgrade handshake and credentials | `_ws.py`, `_client.py`: `_ws_token`, `_tls.py`, `_totp.py` | the token a socket object was built with | build headers, a TLS context, a code; report a refusal | the token may be renewed while a socket is built; two transports report one status |
| Tracks and frames | `_webrtc.py`: `_on_track`, `_pump`, `_frames`, `video`, `audio` | pump task, bounded frame buffer and wakeup of each kind | a pump buffers frames, consumers take them, a track is replaced | what is replaced while somebody holds or awaits it |
| HID encoding | `_ws.py`: `send_key` and the rest, `_pack_delta`, `_clamp`; `resources/hid.py` | none | encode an input event as frame, JSON or request; a shortcut as one string | clamping and splitting at the 8- and 16-bit limits; keys that do not survive the string |
| REST resources, models | `resources/*`, `models/*` | none | one request each | none that interleaves |

The parts interact as follows. A `PiKVM` client hands each socket object its URL, its credentials
and, under cookie authentication, the token that is in the jar at that moment; after that they
share nothing. Resources call `request()` and `stream()` of the client. Inside one socket the
tasks share the object's attributes, and the only points at which another task can run are the
`await`s. So an action of these modules is what one task does from one `await` that may suspend to
the next.

## What makes each part correct

* Buffering: nothing kvmd said is lost while there is an iterator for it; a snapshot is a state the
  subsystem was in; snapshots do not go back.
* Socket: nobody waits for something that is there or that nobody will produce; a lost connection is
  told to somebody, by the end of the block when to nobody before; the socket is drained whoever consumes;
  leaving the block ends.
* Sessions: a refused token is renewed once however many requests it was refused to; the retry
  carries a newer one; the lock is always let go.
* WebRTC: whoever waits has a reader that will answer or fail it; an answer goes to its own request; a
  session opened on the device is destroyed; the block is entered only when the peers have met; a
  failure that no caller met is told at the end of the block, and one that a caller met is not told again there.
* Tracks: a consumer that waits has a pump that will wake it; a pump that is replaced is cancelled; what
  is buffered is the newest frames.
* Answers: a refusal means the same over either transport, and kvmd's words arrive however they came.
* Media sockets: every frame is yielded once and in order; what was announced is this connection's; no
  connection is left open, and nobody waits on one that is gone.
* Client: one response is open at a time for each call; nobody's block loses its HTTP client; what goes
  wrong is told as a `PiKVMError`.
* Streamer, uploads, HID: the frames of a stream do not depend on how it was cut; a body never has
  more than the announced length, and only one of that length ends well; a binary frame means what
  the JSON event means.

## Modules

| module | what it is |
|---|---|
| `StateMerge` | payloads, and `_merge()` on them |
| `DeviceFeed` | what `states()` promises, with no buffer: the abstract specification |
| `EventBuffer` | queue, carry and merging iterator: implements `DeviceFeed` |
| `EventChannel` | what a socket promises to the tasks that use it, with no frames, buffer or reader: an abstract specification |
| `EventSocket` | the tasks around that buffer; implements `EventChannel` |
| `CookieSession` | requests, renewals and logouts sharing a cookie jar |
| `SessionSockets` | `CookieSession` with the sockets that captured a token of its jar |
| `JanusSession` | what the signalling of WebRTC promises, with no messages or reader: an abstract specification |
| `WebRTCSignalling` | one Janus session: negotiation, reader, keeper, callers, events and teardown; implements `JanusSession` |
| `TrackPump` | the tracks of one kind: pumps, buffers and the consumers of their frames |
| `MediaSocket` | the block of a media socket and the tasks that iterate its frames |
| `ClientLifecycle` | a client entered, used by any task, and closed |
| `Responses` | which answer of kvmd becomes which exception |
| `RemoteUpload` | the records of a remote upload, on top of `Responses` |
| `HIDEncoding`, `HIDRequests`, `MultipartReader`, `Uploads` | pure algorithms, with what kvmd and ustreamer make of them |
| `Exchanges` | what goes once from client to kvmd or back: drives those algorithms, `Responses` and `RemoteUpload` |
| `*_proofs` | theorems about the module they extend |
| `MC*` | instances for TLC |

### StateMerge

`_merge(base, update)` recurses into nested dictionaries. A payload is represented here by the
function from its paths to what stands there, `Obj` for a nested object, so that the recursion
becomes a condition on paths, `Survives`, which can be reasoned about. That this is the code's
recursion is checked, not assumed: `MCAlgorithms` has `_merge()` transcribed key by key
(`MergeDicts`), and the run `algorithms` compares the two on every sequence of three payloads
three levels deep (`AgreesWithRecursion`).

`NoFlip` is the condition under which merging can be regrouped. It is needed because the carry
merges what was dropped first and the iterator's own state later. A field under an object that
became null and then an object again survives in one grouping and not in the other.

### EventBuffer

| code | model |
|---|---|
| `_pending`, `_carry`, `seen` in `states()` | `pending`, `carry`, `seen` |
| `_drain()`: read and `_buffer()` | `Hear` with `Buffer`, `CarryOver` |
| `_next_event()` | `NextEvent`, `Folded` |
| `states()`: one turn of the loop | `TakeState`, `TakeOther` |
| calling `states()` | `Iterate` |
| `__aenter__()` on the same object | `Reopen` |

The history variables `history`, `left` and `shown` say what kvmd had said after each event and how
far the queue and the snapshot have come; no action's guard reads them but `FullFirst`, which is
kvmd's promise to send a subsystem in full first. `Validated` stands for pydantic: a merged payload
without a required path makes `states()` raise.

Left out: the `clients` event, which `states()` stores without merging, and events whose type is
not a string.

### EventSocket

| code | model |
|---|---|
| `async with` | `main`: `Enter`, `Exit`, `ReaderStopped`, `Close`, `Closed`, `CloseCancelled` |
| `_reader`; the reader `_stop_reader()` has taken out of it and awaits | `reader`; `stopped` |
| `_drain()` | `ReaderStarts`, `ReaderReads`, `ReaderReadsLast`, `ReaderEnds`, `ReaderCancelled` |
| `events()` | `Iterate`, `Resume`, `Leave`, with `Collect` for the loop |
| `ping()` | `PingStarts`, `PingSent`, `PingReturns`, `PingTimesOut` |
| a send on a connection that is gone | `SendFails` |
| `_failure`, `_reported` | `failure`, `reported` |

A task is `new` between `create_task()` and its first step, because cancelling it there has another
effect than cancelling it later: its `finally` clause never runs. `told` is a history variable: some
caller was given an exception for this connection. The far end (`ServerSends`, `ServerAnswers`,
`LinkEnds`) sends events, junk and pongs, closes cleanly or breaks at any point.

The refinement maps the block to `main`, `served` to there being a reader that runs, the iteration to
`consumer`, for which having an event and having been woken are one (`Iteration`), and each ping to what it has
been given (`CallOf`). Frames under way, the buffer, the reader's first step, the steps of the exit and a send
that waits have no counterpart: they are stuttering steps.

Left out: entering the object again while the reader of a cancelled close still runs, cancelling
`__aexit__()` while it awaits its reader, the `version` attribute, and what frames say.

### CookieSession

| code | model |
|---|---|
| the cookie jar, `_login_lock` | `jar`, `lock` |
| `request()` and `stream()`: `carried` in the code, the argument `refused` | `carried`, `refused` |
| `_ensure_session()` | `UseSession`, `StartLogin` |
| `AuthResource.login()` ending | `LoginReturns`, `LoginFails` |
| an answer to the request | `Serve`, `RequestFails` |
| `AuthResource.logout()` | `LogoutStarts`, `LogoutReturns`, `LogoutFails`, `LogoutCancelled` |
| kvmd (external) | `ServeLogin`, `ServeLogout`, `Expire` |

Tokens are numbers in the order kvmd opens sessions, so that "newer" can be said. A streamed body is
one that cannot be sent again. `renewals` and `loginFailed` are history variables.

Left out: `login()` called directly, kvmd without authentication (a login that gives no cookie),
several users of one client, redirects.

### SessionSockets

`ws()`, `media_ws()` and `webrtc()` are no coroutines: they take the token that is in the jar (`Build`, for
`_ws_token()`), and each entry of the object sends that one (`Open`), whatever has become of it. The module
extends `CookieSession` and shares its state: its steps leave the session's variables alone and the session's
leave its own. `Close` is the end of the block.

### WebRTCSignalling

| code | model |
|---|---|
| `_request()`, `_send()`, `_acks` | `Ask`, `CanAsk`, `Refusal`, `Forget`; `request`, one for each task |
| `_drain()`, `_read()`, `_route()` | `ReaderRoutes`, `ReaderChokes`, `ReaderEnds`, with `Resolve`, `Queue`, `ReaderFinishes` |
| `_keepalive()` | `KeeperWakes`, `KeeperReturns`, `KeeperTimesOut` |
| `request_keyframe()`, `keepalive()` | `CallStarts`, `CallRefused`, `CallReturns`, `CallTimesOut`, `CallCancelled`, with `ToldTheCaller` |
| `events()` | `Iterate`, `Resume`, `Drop`, with `Collect` |
| `_connect()`, `_negotiate()`, `__aenter__()` | `Enter`, `Answered`, `PushTaken`, `OfferAnswered`, `Up`, `Interrupted` |
| `_farewell()`, `_stop()`, `__aexit__()` | `Goodbye`, `ReaderStopped`, `Close`, `Closed`, `ExitCancelled`, `CloseCancelled` |
| Janus, its plugin and the link (external) | `JanusAnswers`, `PluginPushes`, `PeersMeet`, `JanusSays`, `LinkEnds` |

`step` is what the task that holds the block awaits, so that every await of the negotiation is a
value of its own, from which the answer, a refusal, a timeout or a cancellation leads on. An
exception leads to `__aexit__()` with what there is by then: no ids, the session's, or the handle's
too. Janus may refuse a request, leave it unanswered or answer with something unreadable. A link that closed
cleanly and one that broke are told apart by the reader alone, so that `ReaderEnds` chooses. `seen` is a
history variable: whether a caller was told that the link is gone, or got another error while a failure
was recorded.

`JanusSession` is what all this is for. A task's call is answered once, with the answer to its own turn, or failed the moment
nothing is handed out any more: calls are counted, so that a late answer to one is none to the next, whatever the two
ask for; calls are made only about a session that is there and while they can be answered;
and the session is asked to be destroyed at most once, and forgotten after that or when nobody could be asked.
`WebRTCSignalling!Session` maps the state: a call is the number and subject of the request and, once it has an
acknowledgement, those of the message *that* was sent to. An answer taken for another request's, even one that asked for
the same, would be no step of `JanusSession` at all. `turns` is the counter of the connection; `served`
is that the reader runs, `reached` that the link is open, and the session is known from its first id to its last,
`bid` since `destroy` went out. The messages under way, pushes, the keeper's state, what was reported and
the steps of the negotiation between two requests have no counterpart: they are stuttering steps.

Left out: tracks, their pumps and buffers, which are `TrackPump`; how many events are buffered; a send that blocks because
the socket's write buffer is full; a peer connection that fails to close; entering the object again
after an exit that was cancelled, when it would have two readers.

### TrackPump

| code | model |
|---|---|
| `_tracks`, `_buffers`, `_wakeups` of one kind | `current`, `buffer`, and whom `Wakeup` wakes |
| `_pumps` of that kind; the tasks themselves | `listed`, `pump` |
| `_on_track()` | `OnTracks`, with `Cancel` |
| `_pump()` | `PumpStarts`, `PumpReceives`, `PumpEnds`, `PumpCancelled`, with `Buffered` |
| `video()`, `audio()`, `_frames()` | `Iterate`, `Resume`, `WakesUp`, `Leave`, with `Look`, `Yield`, `RunsDry` |
| `__aenter__()`, `__aexit__()` around the pumps | `Enter`, `Exit`, `PumpStopped`, `Closed` |
| aiortc (external) | `TrackEnds` |

Video and audio share nothing, so one kind is modelled. A pump that is cancelled before its first step does
not run its `finally` clause, so it is told apart (`dropped`). `on` is the track whose buffer a consumer
holds: after a yield it goes on with that one, while after a wait it looks the dictionaries up again. No
variable stands for the flag of a wakeup, because each `wait()` comes right after its `clear()`.

Two assumptions about the environment: an offer, like entering, takes round trips, in which every ready task
runs (`NothingReady`); and aiortc calls `_on_track()` for all tracks of one offer with no await in between,
which is why `OnTracks` takes up to two. Left out: what a frame is, and the track handed to the
caller by `track()`.

### MediaSocket

| code | model |
|---|---|
| `async with` | `main`: `Enter`, `Exit`, `Closed`, `CloseCancelled` |
| `_read_media()` | `AnnouncementRead`, `AnnouncementFails` |
| `frames()`, `_recv()`, `_route()` | `Ask`, `Take`, `Ends`, `Leave`; `IsFrame`, `Announced` |
| `start()` | `Start` |
| kvmd-media, the network and `websockets` (external) | `DaemonSends`, `LinkEnds`, `Close`; `queue` |

This socket has no reader: what arrives stays in the queue of `websockets` until somebody awaits
`recv()`, which one task at a time may. `AnnouncementFails` is one action for the timeout, for a
cancellation and for a connection that ends; with `AnnouncementRead` they are the ways out of
`_read_media()`, and all but the good one go through the close that `__aenter__()` does itself.
`media` is the number of the connection an announcement came on, so that a stale one can be told.

Left out: the keepalive of `websockets`, which a full queue stalls (it would need time); `ping()` and
`request_keyframe()`, which send as `start()` does and change nothing told apart here; entering the
object again while a consumer still waits on the last connection.

### ClientLifecycle

| code | model |
|---|---|
| `_client`, `_entered`, `_closed`, `_external_client` | `client`, `entered`, `closed`, `borrowed` |
| `__aenter__()`; `aclose()`, `__aexit__()` | `Enter`; `CloseStarts`, `CloseEnds`, `CloseCancelled`, with `LetGo` |
| `request()`, `_send()` | `Begin`, `SessionEnsured`, `Responded`, with `Attempt` for `_ensure_client()` |
| `stream()`, `_open_stream()` | the same, then `Opened`, `Dropped`, `Leave`, `Left` |

`_ensure_session()` is one await here, which ends well or not; what it does is `CookieSession`. `held`
counts the responses the stacks of a task hold open: a failed attempt closes its own before the
next is made. An httpx client refuses requests as soon as its closing starts, and `aclose()` lets go
of it only when that has ended, which is why `client` has a value `closed` beside `none`.

Left out: `login()` and `logout()` called directly, the factories of sockets (`SessionSockets`), which status
becomes which exception (`Responses`), and the owner of a borrowed HTTP client closing it.

### Responses, RemoteUpload

A body is what it parses to: no JSON, JSON that is no object, or an envelope with `ok` and `result`.
`RestError` and `HandshakeError` are the two ways from a refusal to an exception, `Unwrap` and `WriteRecord`
the two from an envelope under HTTP 200; `StatusError` and `ErrorFields` are shared as in the code. The
message of an exception, its excerpt of the body and the redirect's target are left out.

`Yielded`, `Ended` and `Broken` are the steps of `upload_remote()` over `upload_remote_progress()`. httpx
gives each line before it raises for what comes behind it, and a last line without a line break only when
the body ends well; so a line that a break cuts off is no line here.

### HIDEncoding, HIDRequests, MultipartReader, Uploads, Exchanges

The first four are sets of operators in the code's own steps. `Exchanges` drives them, and the operators of
`Responses` and `RemoteUpload`, the way the code is driven: an event is sent (`Send`), a shortcut
(`SendShortcut`); an iterator gives chunks or ends (`Give`); an answer comes (`Read`); the lines of a remote
upload come until the body ends or breaks (`Hear`, `HearNoMore`); `mjpeg()` receives a chunk and feeds it
(`Receive`), and its loop takes one part after the other (`TakeNext`), until there is none and it waits for
more. Each behaviour is about one of them. `MCAlgorithms` gives them their inputs and adds one that rests on
recursion: payloads are merged (`Tell`). What they are compared with is written independently of them:

* `HIDEncoding`: `Frame` builds the bytes of a binary frame, `HeardFrame` takes them apart as kvmd
  does, and `HeardJson` is what kvmd makes of the JSON form, which it clamps when it validates it.
  Two's complement and byte order are arithmetic here. A name is its length and whether it is ASCII.
* `HIDRequests`: `Params` are the parameters of the same event as a request, and `HeardParams` what kvmd reads
  in them. `Joined` makes a shortcut one string, which `HeardKeys` strips, splits and strips again as kvmd does.
  A character is a string of its own; which of them separate and which are whitespace is all that counts.
  Only calls that name a state are compared: without one kvmd decides what the event is.
* `MultipartReader`: `Wire` composes a stream of parts, and `PartsIn` says which of them have come
  whole within a prefix; `_take()` searches the bytes. A byte is its code, but for a number, whose digits are one
  byte, and a header block is such a number behind `=`. `IsStream` says of which streams: what comes before the
  first part holds no marker, nor does what comes after a closing one, and a head without a length is the last
  thing that comes. Of the parts it asks nothing: they may look like a marker, a head or a closing.
* `Uploads`: a chunk is its length.

## Runs

`CHECK_DEADLOCK FALSE` everywhere: kvmd may have nothing more to say, and a program may be over.

| run | checks | bounds |
|---|---|---|
| `algorithms` | `_merge()` on paths is the recursion (`AgreesWithRecursion`) | 4 paths, 3 levels, 2 atoms, 3 payloads: an object in an object, and a sibling for either to survive beside |
| | the frames yielded are the parts that have come whole (`PartsAreWhole`) | up to 2 parts, every way to cut the stream, five beginnings and three ends |
| | an upload sends what it announced (`BodyAsAnnounced`); frame, JSON and request mean the same (`SameEvent`) | lengths to 5; numbers at and beyond each end of a byte and a short, batches of up to two steps, a name limit of 4 |
| | the keys of a shortcut all arrive (`ShortcutArrives`) | up to two keys of up to two characters, separators and whitespace among them |
| | a refusal means the same however it comes (`FailuresAgree`) | 12 statuses, each class and each end of a range; every shape of a body, fields missing, empty or no strings |
| | a remote upload is told as it ended (`UploadTold`) | up to three lines, of records, refusals, blanks and what is none |
| `event_buffer` | `NothingLost`, `SnapshotExact`, `NeverPartial`, refinement of `DeviceFeed` (`FeedSpec`) | limit 2, 4 events a connection, so two are dropped and may be of one type or of two; two connections |
| `event_socket` | `NobodyWaitsInVain`, `SeenFailureIsTold`, refinement of `EventChannel` (`ChannelSpec`), `AlwaysDrained`, `ExitEnds`, `PingsEnd`, `IterationEndsInBody` | one pinger, two pings a connection, two connections, so that what one leaves behind meets the next, and every leftover of the first must still come to its end; a buffer of one, so that it overflows |
| `webrtc` | `NobodyWaitsInVain`, `SessionIsDestroyed`, `EnteredMeansUp`, `ToldOnce`, refinement of `JanusSession` (`SessionSpec`) | one connection, one caller, one consumer; a queue of one push, one message under way; beyond the negotiation, one thing that the keeper, the caller or Janus says: enough for an answer to come late, for a push too many, and for a failure met by keeper or caller |
| `cookie_session` | `RetryIsNewer`, `OneLoginPerToken`, `StreamSentOnce`, `RequestsEnd`, `NoSocketOnDeadToken` | a request, a streamed upload and a socket; three sessions, so that a token is renewed twice and the socket is built and opened at any point of either; one logout |
| `track_pump` | `NobodyWaitsInVain`, `NoStrandedPump`, `NewestKept`, `WaitEnds` | two consumers, so that one takes what the other was woken for; three tracks, so that one is replaced by two of an offer; a buffer of two and four frames in all, so that their order shows and the oldest goes, of a track that is then replaced as well; two entries of the session |
| `media_socket` | `NothingLeftOpen`, `MediaIsOwn`, `NoFrameLost`, `EntryEnds`, `FramesEnd` | both flavours; two consumers, so that they compete for `recv()`; a queue of two, three messages a connection, so that it fills; two connections, so that one may inherit from the other |
| `client_lifecycle` | `OneResponse`, `BlockKeepsClient` | three tasks: two blocks and a request, or a request, a close and another close |

The types (`TypeOK`) are checked where they say something, the bound of the queue of pushes in `webrtc`, and are
part of the inductive invariant wherever there is a proof. Each property has a mutant: a changed form
of a definition, kept beside it in the module and named for the bug, under which TLC finds the
property violated. Four runs are expected to fail. Each checks what a docstring or comment says,
against what the code does:

| run | property | what TLC shows |
|---|---|---|
| `null_between` | `SnapshotExact` | an object that was null between two dropped events comes back with its old fields; `_buffer()` says the result is that of merging all in order |
| `carry_stranded` | `CaughtUp` | a subsystem whose only event was dropped is shown only when it changes again; `DeviceState` says a field is `None` until kvmd has sent it |
| `stranded` | `IterationEnds` | `events()` asked again after a clean close starts a reader; if the block ends before it has run, the consumer waits for ever |
| `closing_window` | `ErrorsAreOurs` | a request begun while another task closes the client, or after that close was cancelled, raises the `RuntimeError` of httpx; `_httpx_errors_translated()` and the guide to errors say that everything comes as a `PiKVMError` |

`event_buffer` and its violation runs differ in `Bodies` and `Required` only: `StableBodies` keep an
object an object, as kvmd does for most subsystems; `FlippingBodies` have one that may be null.

### Fairness

`EventSocket!Fairness`: asyncio runs every ready task in the end, so the reader, a woken consumer,
a ping that has its answer and each step of the exit are weakly fair; `Close` is, because
`websockets` gives up on the closing handshake after `close_timeout`. Nothing is assumed of the
server, of the callers or of timeouts: `PingsEnd` holds without `PingTimesOut` being fair.

`CookieSession!Fairness`: a login and a request are answered or time out; a task waiting for the
lock is strongly fair because `asyncio.Lock` wakes its waiters in turn and lets nobody overtake.

`TrackPump!Fairness`: a new or cancelled pump, one whose track has raised and a woken consumer run, and the exit
goes on. Nothing makes a frame come, a track end or a consumer ask again.

`MediaSocket!Fairness`: the wait for the announcement has a timeout, the close one of `websockets`,
and a consumer runs when there is something to take or nothing will come. Nothing is assumed of the
daemon: a consumer may wait as long as the connection is open.

## Proofs

TLC's bounds are on the numbers of events, tasks and sessions; the theorems hold for all of them. What they
assume of the constants is in the `ASSUME`s of the modules and is what the code has: limits of buffers are
positive, bounds are numbers, names of tasks differ, and what comes from outside has the shape its parser
leaves, an MJPEG stream that of `IsStream`. Where an invariant is not inductive, what was added is named here.

* `EventBuffer_proofs`: `MergeRegroups`, that merging is associative under `NoFlip`, and the facts about
  `Merge` it rests on; `BufferLosesNothing`, `SnapshotsAreTrue`, `SnapshotsAreComplete` and
  `ImplementsFeed`, for every limit and every set of payloads that satisfies `StableShapes` (an
  object stays an object), and with one `states()` a connection (`OneIterator`). The
  inductive invariant is `NothingLost` (snapshot merged with carry is the truth up to the last event that
  left the queue, and the queue continues it) with `SnapshotExact` and the shapes. The two hypotheses are
  exactly what fails otherwise: the run `null_between` violates the first, a second `states()` on a
  connection the second.
* `EventSocket_proofs`: `NobodyWaitsInVain` and `SeenFailureIsTold` of `event_socket`, and `SilentEndIsClean`,
  `PingsHaveReader` and `FailureIsOwn`, which no run checks besides; all for any number of pingers.
  `NobodyWaitsInVain` is not inductive: the invariant adds what `stopped` can be in each phase of the exit, that
  a finished reader leaves nobody waiting, and where a failure may come from. `ImplementsChannel` is the
  refinement of `EventChannel`. It needs one thing more: that a ping is in `_pong_waiters` only while its call is under
  way (`WaitersWait`), so that failing all of them is failing those that wait. Then each group of steps, of the far
  end, the reader, the iteration, the pings and the block, is shown to be a step of the channel or a stuttering one.
* `CookieSession_proofs`: `RetriesAreNewer`, `RenewedOnce`, `StreamsAreSentOnce`. The invariant adds
  that the jar holds the newest session whenever nobody logs in (`JarIsNewest`), and that a token once
  renewed is neither in the jar nor on its way there (`RenewedIsGone`). For the sockets beside it,
  `SocketsLeaveTheSession` is the refinement: `SocketsSpec` implies `FairSpec`, so that what is proved of the
  session holds of the two together, its fairness included. `SocketsTakeLiveTokens` (`NoSocketOnDeadToken`)
  follows, because what a socket is given is what the jar holds, and `RenewedIsGone` is about that.
* `WebRTCSignalling_proofs`: all six properties of `webrtc`, and `AnswersAreOwn`: the answer a request has was sent
  to its own message (`AnswersMatch`), whose number was new when it went out (`NumbersAreFresh`). The refinement
  makes a run of their own needless; for any number of callers and connections. One inductive invariant carries the safety
  properties, of these parts:
  - nobody waits with no reader (`NobodyWaitsInVain`), because a reader that ends fails every request and sets
    `up`, and is forgotten only by the exit (`ReaderLeavesUp`), when the keeper is gone and has left nothing
    under way (`KeeperIsQuiet`);
  - a number is given once a connection, and whatever is under way with a number belongs to who waits for it
    (`NumbersMatch`), which makes `AnswersMatch` inductive: a request that timed out leaves its answer under
    way, but nobody else gets its number;
  - a session that was made known keeps an id until the farewell uses it (`LearntHasIds`), so that the farewell
    cannot pass over `destroy` (`DestroyIsBid`, `SessionIsDestroyed`);
  - `start` is asked for once, and not before its turn (`StartOnce`), so that `up` is set by peers that met or by
    a failure (`UpIsEarned`), which `EnteringMeansUp` needs;
  - `reported` is set where somebody was told (`ReportedIsSeen`), from which `FailureIsToldOnce` follows.

  `ImplementsSession` is the refinement. It needs a second invariant (`SessionInv`): two tasks never have one number
  (`CallsAreApart`), so that an acknowledgement answers one call at most; the ids are there exactly from the answer to
  `create` to the end of the farewell, and as long as there is a keeper (`IdsFollow`), so that nobody asks about a
  session that is not there; nothing is asked of it after `destroy` but by others (`BidIsLate`); and outside the
  block there is no reader (`ReaderIsGone`). Then each group of steps is shown to be a step of `JanusSession` or a
  stuttering one, from what it does to the five mapped variables.
* `TrackPump_proofs`: `NoPumpIsStranded`, `WaitersAreWoken` and `NewestAreKept`, for any number of consumers,
  tracks and frames and any buffer. The invariant adds that a replaced pump is gone before the one in its place
  takes a step (`ReplacedFirst`), so that nobody waits for the one with the other's buffer; that the pump that
  is looked up runs its `finally` clause (`ListedRuns`); that what a consumer holds was added (`HoldsAdded`);
  and that a pump that has not run has buffered nothing (`NothingBefore`).
* `MediaSocket_proofs`: `TypeCorrect`, `ConnectionsAreClosed`, `AnnouncementsAreOwn`. With the types,
  among them that the connection is held exactly outside of "outside" and that what was announced has
  a number up to `opened`, both invariants are inductive. `FramesAreNotLost` (`NoFrameLost`) rests on messages
  being numbered as they are sent (`Numbered`), on the queue being what is left of them (`QueueIsRest`), and on
  nobody reading frames while the announcement is awaited (`Alone`).
* `ClientLifecycle_proofs`: `ResponsesAreClosed` and `BlocksKeepTheClient`. The second rests on there
  being one block at a time until somebody calls `aclose()` otherwise (`OneBlock`).
* `Exchanges_proofs`: `EventsAgree` (`SameEvent`), for any numbers and any number of steps, from a byte, a short
  and two flags surviving their encoding, and from the n-th step of a batch being in bytes 2n - 1 and 2n;
  `UploadsKeepTheirWord` (`BodyAsAnnounced`), for any size and any chunks; `RefusalsAgree` (`FailuresAgree`), for
  any status and any body; `RemoteUploadsAreTold` (`UploadTold`), for any number of lines, from the invariant that
  what was yielded is the records so far in turn (`InTurn`), and that the outcome is what they and the end of
  the connection make it (`Outcome`).

  The other two are about data of any length, and need induction. The library's induction theorems take an
  operator as a parameter, which the provers here cannot instantiate; but that `<` is well founded on the
  naturals it says of a set, and from that follow `LeastNatural` and `Induction`, also for a set. With these,
  - `ShortcutsArrive` (`ShortcutArrives`), for any number of keys of any lengths: `",".join()` lays them out
    one behind the other with a comma between (`Laid`, by induction over the keys), no separator or whitespace is
    within one (`Between`, which is what `Accepted` sees to), so that kvmd's items are these places, the i-th from
    the left that of the i-th key, and none is trimmed;
  - `PartsArrive` (`PartsAreWhole`), for any number of frames of any bytes, and any way to cut the stream: the wire is
    laid out part by part (`WireIsLaid`, by induction over the parts), and what the reader holds is a window
    of it that begins behind the last part taken and not behind the next marker (`Stands`), unless the stream is
    closed. No marker begins in what comes between two parts (`NoMarkerInGap`), so `_take()` finds the next
    one and no other, and skips a body by its length, whatever it looks like. This is `CutSoFar`, which says
    also that a reader that waits has nothing more to take (`Settled`).

Model-checked only:

* the liveness properties, which need fairness and `ENABLED`;
* `AgreesWithRecursion`: it compares `Merge` with a transcription by RECURSIVE operators, of which nothing can be
  proved; that merging on paths is associative is proved;
* the four disagreements, which are counterexamples.

## Noted, without a run

* A break that the reader has not seen when the block ends is not reported: the reader is cancelled
  first.
* Cancelling `logout(token=...)` leaves the given token in the jar, since `except Exception` does not
  catch `CancelledError`. A `logout()` that overlaps a login deletes the newer token, or puts an older
  one back.
* A second `states()` on a connection raises `ResponseError` at the first partial event, though a
  comment in `states()` says that such an event always has something to merge into: in an instance
  with `MaxIterators = 2`, `NeverPartial` is violated.
* The pong of a ping that timed out ends the next one: frames of ping and pong carry no number.
  `EventSocket!PongIsOwn` says so and does not hold.
* The jar may differ from a refused token because it is empty, when another task's login failed or a
  `logout()` ended: the retry goes out with no token, though a comment in `_ensure_session()` says that
  there is one that has not been tried. `CookieSession!RetryHasToken` does not hold.
* A cancellation of `WebRTCSession.__aexit__()` during the farewell leaves keeper, reader and connection:
  `WebRTCSignalling!NothingLeftRunning` does not hold.
* A consumer of `MediaWebSocket.frames()` that is between two frames when the block ends is told "Not
  connected"; one that waits ends silently.
* One late acknowledgement ends the WebRTC keepalives of a healthy link, and its failure is recorded: a
  request Janus then refuses counts as having told of it, and a break of the link that comes later is
  not reported any more.
* `_push()` is not woken when the reader ends: it runs into its timeout, and the negotiation raises a
  `WebRTCError` where it documents a `WebSocketError`.
* An upload whose chunks reach the announced size exactly, and then go on, raises `ConfigurationError`
  only after kvmd has been sent the whole announced length, so the truncated image may be stored.
* After a closing boundary `_MultipartReader` throws its buffer away: what follows in the same chunk is
  lost, and what follows in a later one is searched again. ustreamer's stream has no end.
* A socket object that is entered again sends the token it was built with, though the client has a newer one by
  then; the upgrade is refused and no login is made for it. `docs/guide/websocket.md` says that the socket
  never uses the session token, while under `auth="cookie"` it uses nothing else.
* `logout(token=...)` puts the given token into the jar while its request is under way: a socket that is built
  meanwhile captures it.
* A loop of redirects is a `RedirectError` with status 0 over REST, and a `WebSocketError` in an upgrade.
* `_keepalive()` says of its failure that "either way the video is over"; after a late acknowledgement it is not.
* `_stop()` swallows a cancellation of the exit itself while it waits for keeper or reader.

## Not modelled

* The models, the TLS context, the TOTP code and the credential headers: shapes and one-shot computations, most of
  them the work of libraries.
* The REST resources besides what is named above: one request each, with arguments checked before it is sent,
  and no state kept between two calls.
* Time. What rests on how long something takes (keepalives of `websockets` stalled by a full queue, ping
  intervals) has no measure here; a timeout is a step that may come at any point.
* A send that blocks, and entering an object again while tasks of an exit that was cancelled still run.

## Plan

Done: `StateMerge`, `DeviceFeed`, `EventBuffer`; `EventChannel`, `EventSocket`; `CookieSession`,
`SessionSockets`; `JanusSession`, `WebRTCSignalling`, `TrackPump`; `HIDEncoding`, `HIDRequests`,
`MultipartReader`, `Uploads`, `Responses`, `RemoteUpload`, `Exchanges`; `MediaSocket`; `ClientLifecycle`; and the
proofs of every safety property and refinement that a passing run checks, but for `AgreesWithRecursion`. Next:
the liveness of the WebRTC negotiation and exit, on an instance without the consumer.
