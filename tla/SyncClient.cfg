\* One process with two connections, the C or the Python client; one worker, whose
\* socket holds one request: three calls are enough for a send to wait.
SPECIFICATION SyncSpec
CONSTANTS
    Worker = {w1}
    Conn = {1, 2}
    k1 = k1
    v1 = v1
    Key = {k1, k2}
    Value = {v1}
    None = None
    MaxChunks = 3
    QueueLen = 1
    Backlog = 1
    Calls <- MCCalls
    MaxCalls = 3
INVARIANTS
    OwnReply
    ScanWhole
PROPERTIES
    CallsReturn
    WorkersFreed
CHECK_DEADLOCK FALSE
