\* One connection of the JavaScript client, two workers.
SPECIFICATION JsSpec
CONSTANTS
    Worker = {w1, w2}
    Conn = {1}
    k1 = k1
    v1 = v1
    Key = {k1}
    Value = {v1}
    None = None
    MaxChunks = 3
    QueueLen = 1
    Backlog = 2
    Calls <- MCCalls
    MaxCalls = 3
INVARIANTS
    ResolvesOwn
    NothingLeftOver
PROPERTIES
    AllSettle
CHECK_DEADLOCK FALSE
