CONSTANTS
    get = get
    upload = upload
    socket = socket
    Nobody = Nobody
    Requests = {get, upload}
    Streamed = {upload}
    Sockets = {socket}
    MaxTokens = 3
    MaxLogouts = 1
SPECIFICATION SocketsSpec
INVARIANTS RetryIsNewer OneLoginPerToken StreamSentOnce
PROPERTIES RequestsEnd NoSocketOnDeadToken
\* Every call has been made.
CHECK_DEADLOCK FALSE
