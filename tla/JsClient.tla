------------------------------ MODULE JsClient ------------------------------
(***************************************************************************)
(* The JavaScript client, bridges/javascript/src/client.ts: calls that     *)
(* return promises and share one socket.  A plain call waits in a queue    *)
(* for the next datagram, whichever it is; a scan installs a handler that  *)
(* takes every datagram until the scan has ended.                          *)
(***************************************************************************)
EXTENDS LocalWire

ASSUME WorkerAssumption == IsFiniteSet(Worker)
ASSUME NoResultAssumption == None \notin Nat \cup {"done", "error"}

VARIABLES
    calls,         \* the calls so far; a call's position is its request_id
    waiters,       \* calls in awaitReply, in order
    buffered,      \* the client's inbox: datagrams nobody waited for
    scanWaiter     \* the scan whose handler takes the datagrams, or None

jsVars   == <<calls, waiters, buffered, scanWaiter>>
jsSystem == <<wireVars, jsVars>>

\* sent: the await of sendDatagram is over.  used: the replies taken, for properties.
Started(op) == [op |-> op, sent |-> FALSE, result |-> None, used |-> {}]

Settled(c) == c.sent /\ c.result # None

\* The constructor: unlink, bind, connect.
JsInit ==
    /\ BusInit /\ SocketsInit
    /\ path \in Conn
    /\ calls = << >> /\ waiters = << >> /\ buffered = << >> /\ scanWaiter = None

\* Would the call run beside a scan?
Overlaps(a) ==
    \E i \in DOMAIN calls : ~Settled(calls[i]) /\ "scan" \in {a.op, calls[i].op}

\* A call up to its first await: nextRequestId, the handler of a scan, the send, which
\* fails on a closed socket and may fail on an open one.  If the server's socket is full,
\* unix-dgram raises 'congestion', to which the client does not listen: the request is not
\* sent, and the callback of send may come or not.
Start(a) ==
    /\ Len(calls) < MaxCalls
    /\ scanWaiter' = IF a.op = "scan" THEN Len(calls) + 1 ELSE scanWaiter
    /\ LET beside == IF Overlaps(a) THEN {"overlap"} ELSE {}
           orphan == IF a.op = "scan" THEN {"orphan"} ELSE {}
       IN  \/ /\ path # None /\ Len(requests) < Backlog
              /\ calls' = Append(calls, Started(a.op))
              /\ requests' = Append(requests, Request(path, Len(calls) + 1, a))
              /\ faults' = faults \cup beside
           \/ /\ path # None /\ Len(requests) >= Backlog
              /\ calls' = Append(calls, Started(a.op))
              /\ faults' = faults \cup beside \cup {"congested"}
              /\ UNCHANGED requests
           \/ /\ calls' = Append(calls, [Started(a.op) EXCEPT !.sent = TRUE, !.result = "error"])
              /\ faults' = faults \cup beside \cup orphan
              /\ UNCHANGED requests
    /\ UNCHANGED <<stored, timed, job, inbox, path, drops, waiters, buffered>>

\* Mutant: whatever arrives is the answer.
Answered_unchecked(i, r) ==
    [op |-> calls[i].op, sent |-> TRUE, result |-> "done", used |-> {<<r.from, r.id>>}]

\* roundtrip after awaitReply: a reply with another request_id is an error.
Answered(i, r) ==
    [op     |-> calls[i].op,
     sent   |-> TRUE,
     result |-> IF r.id = i THEN "done" ELSE "error",
     used   |-> IF r.id = i THEN {<<r.from, r.id>>} ELSE {}]

\* Mutant: awaitReply does not look at what has arrived already.
Sent_queues(i) ==
    /\ i \in DOMAIN calls /\ ~calls[i].sent
    /\ \A j \in 1..i-1 : calls[j].sent
    /\ calls' = [calls EXCEPT ![i].sent = TRUE]
    /\ waiters' = IF calls[i].op = "scan" THEN waiters ELSE Append(waiters, i)
    /\ UNCHANGED <<wireVars, buffered, scanWaiter>>

\* The send is over: awaitReply takes the oldest buffered datagram or queues; a scan
\* awaits its handler's promise.  Sends end in the order in which they began, but for those
\* that met a full socket.
Sent(i) ==
    /\ i \in DOMAIN calls /\ ~calls[i].sent
    /\ "congested" \in faults \/ \A j \in 1..i-1 : calls[j].sent
    /\ IF calls[i].op = "scan"
       THEN /\ calls' = [calls EXCEPT ![i].sent = TRUE]
            /\ UNCHANGED <<waiters, buffered>>
       ELSE IF buffered # << >>
       THEN /\ calls' = [calls EXCEPT ![i] = Answered(i, Head(buffered))]
            /\ buffered' = Tail(buffered)
            /\ UNCHANGED waiters
       ELSE /\ calls' = [calls EXCEPT ![i].sent = TRUE]
            /\ waiters' = Append(waiters, i)
            /\ UNCHANGED buffered
    /\ UNCHANGED <<wireVars, scanWaiter>>

\* Mutant: the first chunk completes the scan.
Scanned_first(r) ==
    /\ calls' = [calls EXCEPT ![scanWaiter].result = "done"]
    /\ scanWaiter' = None

\* The handler of a scan: chunks are collected, and anything else ends it.
Scanned(r) ==
    LET own == r.id = scanWaiter
    IN  IF own /\ r.opcode = "chunk"
        THEN /\ calls' = [calls EXCEPT ![scanWaiter].used = @ \cup {<<r.from, r.id>>}]
             /\ UNCHANGED scanWaiter
        ELSE /\ calls' = [calls EXCEPT ![scanWaiter].result =
                                IF own /\ r.opcode = "end" THEN "done" ELSE "error"]
             /\ scanWaiter' = None

\* The 'message' event.
OnMessage ==
    /\ path # None /\ inbox[path] # << >>
    /\ inbox' = [inbox EXCEPT ![path] = Tail(@)]
    /\ LET r == Head(inbox[path])
       IN  \/ /\ scanWaiter # None
              /\ Scanned(r)
              /\ UNCHANGED <<waiters, buffered>>
           \/ /\ scanWaiter = None /\ waiters # << >>
              /\ calls' = [calls EXCEPT ![Head(waiters)] = Answered(Head(waiters), r)]
              /\ waiters' = Tail(waiters)
              /\ UNCHANGED <<buffered, scanWaiter>>
           \/ /\ scanWaiter = None /\ waiters = << >>
              /\ buffered' = Append(buffered, r)
              /\ UNCHANGED <<calls, waiters, scanWaiter>>
    /\ UNCHANGED <<stored, timed, requests, job, path, drops, faults>>

\* The 'error' event rejects the calls that wait, whose replies may still come.  (Bound:
\* once.)
OnError ==
    /\ path # None /\ "error" \notin faults
    /\ calls' = [i \in DOMAIN calls |->
                    IF Contains(waiters, i) THEN [calls[i] EXCEPT !.result = "error"] ELSE calls[i]]
    /\ waiters' = << >>
    /\ faults' = faults \cup {"error"}
    /\ UNCHANGED <<stored, timed, requests, job, inbox, path, drops, buffered, scanWaiter>>

\* close(): the socket is closed and its path unlinked; calls in progress are forgotten.
Close ==
    /\ path # None
    /\ path' = None
    /\ inbox' = [inbox EXCEPT ![path] = << >>]
    /\ faults' = IF \E i \in DOMAIN calls : ~Settled(calls[i]) THEN faults \cup {"closed"} ELSE faults
    /\ UNCHANGED <<stored, timed, requests, job, drops, jsVars>>

JsNext ==
    \/ Server /\ UNCHANGED jsVars
    \/ \E a \in Calls : Start(a)
    \/ \E i \in 1..MaxCalls : Sent(i)
    \/ OnMessage \/ OnError \/ Close

\* The workers are scheduled; the event loop runs what is ready.
JsSpec ==
    /\ JsInit /\ [][JsNext]_jsSystem
    /\ \A w \in Worker : WF_jsSystem((Receive(w) \/ SendReply(w)) /\ UNCHANGED jsVars)
    /\ \A i \in 1..MaxCalls : WF_jsSystem(Sent(i))
    /\ WF_jsSystem(OnMessage)

-----------------------------------------------------------------------------

\* A call that resolves does so with the answer to its own request, although the two
\* workers may answer in another order than the calls wait, and calls, failed sends and
\* scans may overlap in any way (roundtrip, scan).
ResolvesOwn ==
    \A i \in DOMAIN calls :
        calls[i].result = "done" => \A u \in calls[i].used : u[2] = i

\* Every call settles, its promise resolved or rejected, errors of the socket and calls after
\* close() included, unless a reply was lost, a scan ran beside another call, a scan could
\* not be sent, the server's socket was full or the connection was closed on it (the handlers
\* of 'message' and 'error').
AllSettle ==
    \A i \in 1..MaxCalls :
        i \in DOMAIN calls ~> (faults \ {"error"} # {} \/ (i \in DOMAIN calls /\ Settled(calls[i])))

\* When all calls have settled no reply to them is left in the connection or under way,
\* for a later call to take, with the same exceptions.
NothingLeftOver ==
    (faults = {} /\ \A i \in DOMAIN calls : Settled(calls[i]))
        => /\ buffered = << >> /\ waiters = << >> /\ scanWaiter = None
           /\ \A c \in Conn : inbox[c] = << >>
           /\ requests = << >> /\ \A w \in Worker : job[w] = << >>

=============================================================================
