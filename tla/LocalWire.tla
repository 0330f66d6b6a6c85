----------------------------- MODULE LocalWire ------------------------------
(***************************************************************************)
(* The local request path: the worker threads of modules/server.rs that    *)
(* share the server's Unix datagram socket, modules/router.rs, and the     *)
(* sockets of the clients of one process.                                  *)
(*                                                                         *)
(* A worker takes a request, runs it on the bus and sends its replies one  *)
(* by one to the path of the peer.  Every bridge binds its sockets to a    *)
(* path made from the process id, so all connections of a process have the *)
(* same one: replies go to the socket that was bound last.                 *)
(*                                                                         *)
(* The bus is one map here; PermutiveBus has the steps of its calls.       *)
(***************************************************************************)
EXTENDS Integers, FiniteSets, Sequences, SequencesExt

CONSTANTS
    Worker,        \* threads in run_local_worker
    Conn,          \* connections of a client process, numbered as it opens them
    Key, Value,
    None,
    MaxChunks,     \* u16::MAX in the router
    QueueLen,      \* datagrams that a client's socket holds
    Backlog,       \* datagrams that the server's socket holds
    Calls,         \* the calls that the clients make: op, key and value
    MaxCalls       \* bound: calls of the client process

Ops == {"read", "write", "writeTtl", "delete", "ttl", "cad", "scan"}

ASSUME KeyAssumption == IsFiniteSet(Key)
ASSUME CallsAssumption == Calls \subseteq [op : Ops, key : Key, value : Value]
ASSUME MaxChunksAssumption == MaxChunks \in Nat
ASSUME NoneAssumption == None \notin Conn

VARIABLES
    stored,        \* the keys on the bus, with their values
    timed,         \* those that have a TTL
    requests,      \* datagrams in the server's socket
    job,           \* per worker: the replies it has yet to send
    inbox,         \* per connection: datagrams in its socket
    path,          \* the connection whose socket is at the client path, or None
    drops,         \* a blocking send to a full socket: FreeBSD and macOS fail it, Linux waits
    faults         \* what has gone wrong so far; for properties

wireVars == <<stored, timed, requests, job, inbox, path, drops, faults>>

\* A request: who sent it (not on the wire: the peer's address is the path) under
\* which request_id, and the call.  "write" is OP_WRITE with duration 0, "writeTtl"
\* the same opcode with a duration.
Request(from, id, c) ==
    [from |-> from, id |-> id, op |-> c.op, key |-> c.key, value |-> c.value]

\* A reply carries the request_id; from tells whose request it answers and is seen by
\* properties only.  total is in every chunk of a scan.
Reply(r, opcode, body, total) ==
    [from |-> r.from, id |-> r.id, opcode |-> opcode, body |-> body, total |-> total]

\* The server has been running: the bus holds some keys.
BusInit ==
    /\ stored \in UNION {[keys -> Value] : keys \in SUBSET Key}
    /\ timed = {}

SocketsInit ==
    /\ requests = << >>
    /\ job = [w \in Worker |-> << >>]
    /\ inbox = [c \in Conn |-> << >>]
    /\ drops \in BOOLEAN
    /\ faults = {}

-----------------------------------------------------------------------------
\* dispatch_request

Matches(r) == r.key \in DOMAIN stored /\ stored[r.key] = r.value

\* The key that the request removes, writes, and gives a TTL, if it does.
Removed(r) == {k \in {r.key} : r.op = "delete" \/ (r.op = "cad" /\ Matches(r))}

Written(r) == {k \in {r.key} : r.op \in {"write", "writeTtl"}}

Timed(r) == {k \in {r.key} : r.op \in {"writeTtl", "ttl"}}

\* Mutant: the end of the stream is sent before its last chunk.
find_by_prefix_early(r) ==
    LET keys == SetToSeq(DOMAIN stored)
        n    == Len(keys)
        end  == <<Reply(r, "end", None, 0)>>
        sent == [i \in 1..n |-> Reply(r, "chunk", keys[i], n)]
    IN  IF n = 0 THEN end ELSE Front(sent) \o end \o <<Last(sent)>>

\* The pairs of a scan of all keys, one chunk each up to MaxChunks, and the end.
find_by_prefix(r) ==
    LET keys == SetToSeq(DOMAIN stored)
        n    == IF Len(keys) < MaxChunks THEN Len(keys) ELSE MaxChunks
    IN  [i \in 1..n |-> Reply(r, "chunk", keys[i], n)] \o <<Reply(r, "end", None, 0)>>

\* Mutant: a call is answered twice.
dispatch_request_twice(r) ==
    IF r.op = "scan" THEN find_by_prefix(r) ELSE <<Reply(r, "ok", None, 0), Reply(r, "ok", None, 0)>>

dispatch_request(r) ==
    CASE r.op = "read" ->
            IF r.key \in DOMAIN stored THEN <<Reply(r, "value", stored[r.key], 0)>>
                                       ELSE <<Reply(r, "ok", None, 0)>>
      [] r.op \in {"write", "writeTtl", "delete", "ttl"} -> <<Reply(r, "ok", None, 0)>>
      [] r.op = "cad" -> <<Reply(r, "flag", Matches(r), 0)>>
      [] r.op = "scan" -> find_by_prefix(r)

\* A worker receives a request and executes it.
Receive(w) ==
    /\ job[w] = << >> /\ requests # << >>
    /\ requests' = Tail(requests)
    /\ LET r    == Head(requests)
           keys == (DOMAIN stored \ Removed(r)) \cup Written(r)
       IN  /\ job' = [job EXCEPT ![w] = dispatch_request(r)]
           /\ stored' = [k \in keys |-> IF k \in Written(r) THEN r.value ELSE stored[k]]
           /\ timed' = keys \cap ((timed \ Written(r)) \cup Timed(r))
    /\ UNCHANGED <<inbox, path, drops, faults>>

\* send_to_addr on the blocking socket, its error dropped: the reply is lost if nothing
\* is bound to the path, or if the socket there is full and the system does not wait.
SendReply(w) ==
    /\ job[w] # << >>
    /\ job' = [job EXCEPT ![w] = Tail(@)]
    /\ \/ /\ path # None /\ Len(inbox[path]) < QueueLen
          /\ inbox' = [inbox EXCEPT ![path] = Append(@, Head(job[w]))]
          /\ UNCHANGED faults
       \/ /\ path # None => (Len(inbox[path]) = QueueLen /\ drops)
          /\ faults' = faults \cup {"lost"}
          /\ UNCHANGED inbox
    /\ UNCHANGED <<stored, timed, requests, path, drops>>

\* A key with a TTL expires.
Expire(k) ==
    /\ k \in timed
    /\ stored' = [x \in DOMAIN stored \ {k} |-> stored[x]]
    /\ timed' = timed \ {k}
    /\ UNCHANGED <<requests, job, inbox, path, drops, faults>>

Server ==
    \/ \E w \in Worker : Receive(w) \/ SendReply(w)
    \/ \E k \in Key : Expire(k)

=============================================================================
