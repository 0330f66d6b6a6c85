----------------------------- MODULE SyncClient -----------------------------
(***************************************************************************)
(* The blocking clients: bridges/c/tric.c, which the C++, Swift, Nim, Lua, *)
(* Tcl and Zig bridges wrap, and bridges/python.  A call sends a datagram  *)
(* and takes the next one that arrives for its answer.  The C client gives *)
(* up after five seconds in recv() and does not look at the request_id;    *)
(* the Python client waits for ever and refuses a reply with another       *)
(* request_id.  Neither has a timeout for send().                          *)
(***************************************************************************)
EXTENDS LocalWire, Functions, FiniteSetsExt

VARIABLES
    client,        \* the client that the process uses: "c" or "python"
    conn,          \* per connection: "new", "open" or "closed"; its request counter
    call,          \* per connection: the call it waits in, or None
    outcome        \* per connection: how the last call on it ended, or None

clientVars == <<client, conn, call, outcome>>
syncVars   == <<wireVars, clientVars>>

\* A call in progress: what it asks, whether send() has returned, what a scan has
\* collected, the total its chunks announce, and (for properties only) the requests that
\* the replies it took answer.
Calling(a, id) ==
    [op |-> a.op, key |-> a.key, value |-> a.value, id |-> id, sent |-> FALSE,
     pairs |-> {}, total |-> 0, used |-> {}]

CallRecords ==
    [op : Ops, key : Key, value : Value, id : Nat, sent : BOOLEAN,
     pairs : SUBSET Key, total : Nat, used : SUBSET (Conn \X Nat)]

ASSUME NoCallAssumption == None \notin CallRecords

\* What a call returned.
Outcome(c, kind, value) ==
    [op |-> c.op, id |-> c.id, kind |-> kind, value |-> value, total |-> c.total, used |-> c.used]

Taking(c, r) == [c EXCEPT !.used = @ \cup {<<r.from, r.id>>}]

SyncInit ==
    /\ BusInit /\ SocketsInit
    /\ path = None
    /\ client \in {"c", "python"}
    /\ conn = [c \in Conn |-> [state |-> "new", counter |-> 1]]
    /\ call = [c \in Conn |-> None]
    /\ outcome = [c \in Conn |-> None]

\* create_connection: unlink the path, whoever is bound to it, bind it, connect.
Connect(c) ==
    /\ conn[c].state = "new"
    /\ \A d \in Conn : d < c => conn[d].state # "new"
    /\ conn' = [conn EXCEPT ![c].state = "open"]
    /\ path' = c
    /\ faults' = IF \E d \in Conn : conn[d].state = "open" THEN faults \cup {"shared"} ELSE faults
    /\ UNCHANGED <<stored, timed, requests, job, inbox, drops, client, call, outcome>>

\* delete_connection: unlink the path, whoever is bound to it now, and close.
Disconnect(c) ==
    /\ conn[c].state = "open" /\ call[c] = None
    /\ conn' = [conn EXCEPT ![c].state = "closed"]
    /\ path' = None
    /\ inbox' = [inbox EXCEPT ![c] = << >>]
    /\ UNCHANGED <<stored, timed, requests, job, drops, faults, client, call, outcome>>

Finish(c, o) ==
    /\ call' = [call EXCEPT ![c] = None]
    /\ outcome' = [outcome EXCEPT ![c] = o]

\* The calls made so far.
Made == SumFunction([d \in Conn |-> conn[d].counter - 1])

\* A call is made: it numbers its request...
Make(c, a) ==
    /\ conn[c].state = "open" /\ call[c] = None /\ Made < MaxCalls
    /\ conn' = [conn EXCEPT ![c].counter = @ + 1]
    /\ call' = [call EXCEPT ![c] = Calling(a, conn[c].counter)]
    /\ outcome' = [outcome EXCEPT ![c] = None]
    /\ UNCHANGED <<wireVars, client>>

Sending(c) == call[c] # None /\ ~call[c].sent

\* ... and sends it.  While the server's socket is full, send() waits, without a timeout,
\* where the system does not fail it.  If the send fails, so does the call.
Send(c) ==
    /\ Sending(c)
    /\ \/ /\ Len(requests) < Backlog
          /\ requests' = Append(requests, Request(c, call[c].id, call[c]))
          /\ call' = [call EXCEPT ![c].sent = TRUE]
          /\ UNCHANGED outcome
       \/ /\ Len(requests) < Backlog \/ drops
          /\ Finish(c, Outcome(call[c], "error", None))
          /\ UNCHANGED requests
    /\ UNCHANGED <<stored, timed, job, inbox, path, drops, faults, client, conn>>

\* The call is in recv().
Waiting(c) == call[c] # None /\ call[c].sent

Stray(c, r) == client = "python" /\ r.id # call[c].id

\* How read_value, write_value, ... take a reply that is not an answer to another
\* kind of call, or is: a read that sees no value says "no such key", and the C client
\* finds an OK too short for delete_value_if_match.
Result(op, r) ==
    CASE op = "read" -> <<"done", IF r.opcode = "value" THEN r.body ELSE None>>
      [] op \in {"write", "writeTtl", "delete", "ttl"} ->
            <<IF r.opcode = "ok" THEN "done" ELSE "error", None>>
      [] op = "cad" -> IF client = "c" /\ r.opcode \in {"ok", "end"}
                       THEN <<"error", None>>
                       ELSE <<"done", IF r.opcode = "flag" THEN r.body ELSE FALSE>>

\* recv() of a call with one reply.
Recv(c) ==
    /\ Waiting(c) /\ call[c].op # "scan" /\ inbox[c] # << >>
    /\ inbox' = [inbox EXCEPT ![c] = Tail(@)]
    /\ LET r   == Head(inbox[c])
           res == Result(call[c].op, r)
       IN  Finish(c, IF Stray(c, r)
                     THEN Outcome(call[c], "error", None)
                     ELSE Outcome(Taking(call[c], r), res[1], res[2]))
    /\ UNCHANGED <<stored, timed, requests, job, path, drops, faults, client, conn>>

\* recv() in the loop of a scan: the end ends it, a chunk is kept; what is neither
\* is skipped by the C client and an error to the Python client.
ScanRecv(c) ==
    /\ Waiting(c) /\ call[c].op = "scan" /\ inbox[c] # << >>
    /\ inbox' = [inbox EXCEPT ![c] = Tail(@)]
    /\ LET r     == Head(inbox[c])
           took  == Taking(call[c], r)
           other == r.opcode \notin {"chunk", "end"}
           bad   == Stray(c, r) \/ (client = "python" /\ other)
       IN  IF bad \/ r.opcode = "end"
           THEN Finish(c, IF bad THEN Outcome(call[c], "error", None)
                                 ELSE Outcome(took, "done", took.pairs))
           ELSE /\ call' = [call EXCEPT ![c] =
                        IF other THEN @
                        ELSE [took EXCEPT !.pairs = @ \cup {r.body}, !.total = r.total]]
                /\ UNCHANGED outcome
    /\ UNCHANGED <<stored, timed, requests, job, path, drops, faults, client, conn>>

\* Mutant: the loop of a scan goes on when recv() fails.
Timeout_ignored(c) ==
    /\ client = "c"
    /\ Waiting(c) /\ inbox[c] = << >> /\ call[c].op # "scan"
    /\ Finish(c, Outcome(call[c], "error", None))
    /\ faults' = faults \cup {"late"}
    /\ UNCHANGED <<stored, timed, requests, job, inbox, path, drops, client, conn>>

\* SO_RCVTIMEO: the call fails, but a scan returns what it has.
Timeout(c) ==
    /\ client = "c"
    /\ Waiting(c) /\ inbox[c] = << >>
    /\ Finish(c, IF call[c].op = "scan"
                 THEN Outcome(call[c], "done", call[c].pairs)
                 ELSE Outcome(call[c], "error", None))
    /\ faults' = faults \cup {"late"}
    /\ UNCHANGED <<stored, timed, requests, job, inbox, path, drops, client, conn>>

Client(c) ==
    \/ Connect(c) \/ Disconnect(c)
    \/ \E a \in Calls : Make(c, a)
    \/ Send(c) \/ Recv(c) \/ ScanRecv(c) \/ Timeout(c)

SyncNext ==
    \/ Server /\ UNCHANGED clientVars
    \/ \E c \in Conn : Client(c)

\* The workers are scheduled.  A call that was made is sent when there is room, and one that
\* waits takes a datagram when it is there and otherwise runs into its timeout, if it has one.
SyncSpec ==
    /\ SyncInit /\ [][SyncNext]_syncVars
    /\ \A w \in Worker : WF_syncVars((Receive(w) \/ SendReply(w)) /\ UNCHANGED clientVars)
    /\ \A c \in Conn : WF_syncVars(Send(c) \/ Recv(c) \/ ScanRecv(c) \/ Timeout(c))

-----------------------------------------------------------------------------

\* A call returns what the server answered to its own request, never the answer to
\* another call, as long as the process has one connection at a time and no call has
\* timed out (write_request of the C client, _roundtrip of the Python client).
OwnReply ==
    \A c \in Conn :
        (outcome[c] # None /\ faults \subseteq {"lost"})
            => outcome[c].used \subseteq {<<c, outcome[c].id>>}

\* A scan that returns rows without an error has all the rows that the chunks of
\* find_by_prefix announced, unless replies were lost, late or taken by another
\* connection.
ScanWhole ==
    \A c \in Conn :
        (outcome[c] # None /\ outcome[c].op = "scan" /\ outcome[c].kind = "done" /\ faults = {})
            => Cardinality(outcome[c].value) = outcome[c].total

\* Every call of the C client returns, whatever is lost, but for one that waits in send()
\* for room in the server's socket (write_request, find_by_prefix: SO_RCVTIMEO alone is
\* set): that may last for ever only after a timeout or while connections share the path,
\* when the clients hold the workers.  A call of the Python client, which has no timeout in
\* recv() either, returns unless something went wrong.
CallsReturn ==
    \A c \in Conn :
        call[c] # None ~>
            \/ call[c] = None
            \/ Sending(c) /\ faults \cap {"late", "shared"} # {}
            \/ client = "python" /\ faults # {}

\* No client holds a worker for ever: although send_to_addr waits on a full socket, the
\* replies of run_local_worker are all sent or lost in the end, as a client takes exactly
\* as many as its call has.  It is not so once a call has timed out or connections share
\* the path: a client that does not read again then stops the worker.
WorkersFreed ==
    \A w \in Worker :
        job[w] # << >> ~> (job[w] = << >> \/ faults \cap {"late", "shared"} # {})

=============================================================================
