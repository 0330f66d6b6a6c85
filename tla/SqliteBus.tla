------------------------------ MODULE SqliteBus -----------------------------
(***************************************************************************)
(* src/core/sqlite_bus.rs: the persistent tier as a directory of SQLite    *)
(* databases, one per namespace, that the worker threads of the server     *)
(* open on demand under one lock, and the slots of an instance, which the  *)
(* command "tric clone" of another process copies file by file.            *)
(*                                                                         *)
(* A method takes the lock twice: to see that its namespace is open, or to *)
(* open it, and to run its statement.  A panic in between the first lock   *)
(* and its release poisons the lock, and every later lock().unwrap() takes *)
(* its own thread down.                                                    *)
(***************************************************************************)
EXTENDS Maps, FiniteSets

CONSTANTS
    Worker,      \* threads that call the tier
    Slots,       \* slot numbers
    Clones,      \* <<source, target>> that are asked for
    Key, Value,
    Calls,       \* <<worker, method, key>> that happen
    Namespace,   \* per key: the part before its first colon (parse_namespace)
    Listed,      \* the namespaces n whose file n.db a listing of the directory finds as n
    None

ASSUME NoneAssumption == None \notin Slots
ASSUME ClonesAssumption == \A c \in Clones : c[1] \in Slots /\ c[2] \in Slots

Names == {Namespace[k] : k \in Key}

VARIABLES
    disk,        \* per slot that has a directory, per namespace that has a file: its rows
    server,      \* the slot that the running server uses, or None
    open,        \* the namespaces it has connections to
    poisoned,    \* a thread has panicked with the lock held
    thread,      \* per worker: the call it is in, and where
    clone,       \* the clone command: copying from a slot to a slot, or None
    skipped,     \* databases that could not be opened when the server started
    trouble      \* a database could not be opened since; for properties

vars == <<disk, server, open, poisoned, thread, clone, skipped, trouble>>

\* The databases of a slot that create_sqlite_bus and create_clone come across: entries of its
\* directory with the extension "db".  The file ".db" of the empty namespace (a key ":x") has
\* none, and a namespace with a slash has its file in another directory.
Entries(files) == DOMAIN files \cap Listed

\* A database: the rows that are in the .db file, and all committed rows, some of which
\* may be in its write-ahead log alone.
Database(main, full) == [main |-> main, full |-> full]

Thread(pc, op, key, value) == [pc |-> pc, op |-> op, key |-> key, value |-> value]

Idle == Thread("idle", None, None, None)
Dead == Thread("dead", None, None, None)

Init ==
    /\ disk = EmptyMap
    /\ server = None
    /\ open = {} /\ poisoned = FALSE
    /\ thread = [w \in Worker |-> Idle]
    /\ clone = None
    /\ skipped = {} /\ trouble = FALSE

-----------------------------------------------------------------------------
\* The server process

\* Mutant: databases are opened when they are first written to, not at the start.
Start_on_demand(s) ==
    /\ server = None
    /\ clone # None => clone.target # s
    /\ server' = s
    /\ disk' = IF s \in DOMAIN disk THEN disk ELSE Insert(disk, s, EmptyMap)
    /\ open' = {} /\ skipped' = {}
    /\ UNCHANGED <<poisoned, thread, clone, trouble>>

\* create_sqlite_bus: make the directory, open the databases that are listed; one that does
\* not open is passed over.  Nobody starts a server on a slot that is being made.
Start(s) ==
    /\ server = None
    /\ clone # None => clone.target # s
    /\ server' = s
    /\ disk' = IF s \in DOMAIN disk THEN disk ELSE Insert(disk, s, EmptyMap)
    /\ open' \in SUBSET Entries(disk'[s])
    /\ skipped' = Entries(disk'[s]) \ open'
    /\ UNCHANGED <<poisoned, thread, clone, trouble>>

\* The process ends, by a shutdown command or otherwise: what was committed stays.
Stop ==
    /\ server # None
    /\ server' = None
    /\ open' = {} /\ poisoned' = FALSE
    /\ thread' = [w \in Worker |-> Idle]
    /\ skipped' = {} /\ trouble' = FALSE
    /\ UNCHANGED <<disk, clone>>

\* The database n of the server changes, which a clone may see half done.
Touches(n) ==
    clone' = IF clone # None /\ clone.source = server
             THEN [clone EXCEPT !.still = @ \ {n}] ELSE clone

\* SQLite moves the write-ahead log of an open database into its file.
Checkpoint(n) ==
    /\ server # None /\ n \in open
    /\ disk' = [disk EXCEPT ![server][n] = Database(@.full, @.full)]
    /\ Touches(n)
    /\ UNCHANGED <<server, open, poisoned, thread, skipped, trouble>>

-----------------------------------------------------------------------------
\* The calls

Moves(w, t) == thread' = [thread EXCEPT ![w] = t]

At(w, pc) == server # None /\ thread[w].pc = pc

Call(w, op, k, v) ==
    /\ At(w, "idle") /\ <<w, op, k>> \in Calls
    /\ Moves(w, Thread("check", op, k, v))
    /\ UNCHANGED <<disk, server, open, poisoned, clone, skipped, trouble>>

\* lock().unwrap() of a poisoned lock.
Panic(w) ==
    /\ server # None /\ thread[w].pc \in {"check", "statement"} /\ poisoned
    /\ Moves(w, Dead)
    /\ UNCHANGED <<disk, server, open, poisoned, clone, skipped, trouble>>

\* Mutant: the database of a read is taken for granted.
Check_unwraps(w) ==
    /\ At(w, "check") /\ ~poisoned /\ thread[w].op \notin {"write", "find"}
    /\ LET found == Namespace[thread[w].key] \in open
       IN  /\ poisoned' = ~found
           /\ Moves(w, IF found THEN [thread[w] EXCEPT !.pc = "statement"] ELSE Dead)
    /\ UNCHANGED <<disk, server, open, clone, skipped, trouble>>

\* read_connection: without a database there is nothing to read or delete.
Check(w) ==
    /\ At(w, "check") /\ ~poisoned /\ thread[w].op \notin {"write", "find"}
    /\ Moves(w, IF Namespace[thread[w].key] \in open
                THEN [thread[w] EXCEPT !.pc = "statement"] ELSE Idle)
    /\ UNCHANGED <<disk, server, open, poisoned, clone, skipped, trouble>>

\* Mutant: the connection is kept although no file was made.
OpenForWrite_no_file(w) ==
    /\ At(w, "check") /\ ~poisoned /\ thread[w].op = "write"
    /\ open' = open \cup {Namespace[thread[w].key]}
    /\ Moves(w, [thread[w] EXCEPT !.pc = "statement"])
    /\ UNCHANGED <<disk, server, poisoned, clone, skipped, trouble>>

\* write_connection: open the database, making its file if it is not there...
OpenForWrite(w) ==
    /\ At(w, "check") /\ ~poisoned /\ thread[w].op = "write"
    /\ LET n == Namespace[thread[w].key]
       IN  /\ disk' = IF n \in DOMAIN disk[server] THEN disk
                      ELSE [disk EXCEPT ![server] = Insert(@, n, Database(EmptyMap, EmptyMap))]
           /\ open' = open \cup {n}
           /\ Touches(n)
    /\ Moves(w, [thread[w] EXCEPT !.pc = "statement"])
    /\ UNCHANGED <<server, poisoned, skipped, trouble>>

\* ... and panic, with the lock held, if that fails.
FailToOpen(w) ==
    /\ At(w, "check") /\ ~poisoned /\ thread[w].op = "write"
    /\ Namespace[thread[w].key] \notin open
    /\ poisoned' = TRUE /\ trouble' = TRUE
    /\ Moves(w, Dead)
    /\ UNCHANGED <<disk, server, open, clone, skipped>>

\* find_by_prefix takes the lock once, for all databases.
Find(w) ==
    /\ At(w, "check") /\ ~poisoned /\ thread[w].op = "find"
    /\ Moves(w, Idle)
    /\ UNCHANGED <<disk, server, open, poisoned, clone, skipped, trouble>>

\* The rows of a database after the statement of call t.
Result(t, rows) ==
    CASE t.op = "write"  -> Insert(rows, t.key, t.value)
      [] t.op = "delete" -> Remove(rows, t.key)
      [] t.op = "match"  -> IF Get(rows, t.key, None) = t.value THEN Remove(rows, t.key) ELSE rows
      [] t.op = "read"   -> rows

\* The statement, under the second lock; its error, if any, is dropped.
Statement(w) ==
    /\ At(w, "statement") /\ ~poisoned
    /\ LET t == thread[w]
           n == Namespace[t.key]
       IN  /\ \E rows \in {disk[server][n].full, Result(t, disk[server][n].full)} :
                disk' = [disk EXCEPT ![server][n].full = rows]
           /\ Touches(n)
    /\ Moves(w, Idle)
    /\ UNCHANGED <<server, open, poisoned, skipped, trouble>>

-----------------------------------------------------------------------------
\* tric clone: run_clone and create_clone

\* The directory of the target is made, and that of the source read.  The command is
\* refused, and changes nothing, if the target exists or the source does not.
CloneStart(s, t) ==
    /\ clone = None
    /\ s \in DOMAIN disk /\ t \notin DOMAIN disk
    /\ disk' = Insert(disk, t, EmptyMap)
    /\ clone' = [source |-> s, target |-> t, listed |-> Entries(disk[s]), copied |-> {},
                 missed |-> {}, still |-> {n \in DOMAIN disk[s] : disk[s][n].main = disk[s][n].full}]
    /\ UNCHANGED <<server, open, poisoned, thread, skipped, trouble>>

\* fs::copy of one .db file, without its write-ahead log.  A file that is made meanwhile
\* may be among the entries or not.
CloneCopy(n) ==
    /\ clone # None
    /\ n \in Entries(disk[clone.source]) \ (clone.copied \cup clone.missed)
    /\ LET main == disk[clone.source][n].main
       IN  disk' = [disk EXCEPT ![clone.target] = Insert(@, n, Database(main, main))]
    /\ clone' = [clone EXCEPT !.copied = @ \cup {n}]
    /\ UNCHANGED <<server, open, poisoned, thread, skipped, trouble>>

\* The error of a copy is dropped; what it has written has no rows to read.  So it is
\* with a file that SQLite writes to at that moment.
CloneMiss(n) ==
    /\ clone # None
    /\ n \in Entries(disk[clone.source]) \ (clone.copied \cup clone.missed)
    /\ \/ UNCHANGED disk
       \/ disk' = [disk EXCEPT ![clone.target] = Insert(@, n, Database(EmptyMap, EmptyMap))]
    /\ clone' = [clone EXCEPT !.missed = @ \cup {n}]
    /\ UNCHANGED <<server, open, poisoned, thread, skipped, trouble>>

\* Mutant: the loop ends at the first entry that has not the extension.
CloneEnd_at_other ==
    /\ clone # None
    /\ \/ clone.listed \subseteq clone.copied \cup clone.missed
       \/ DOMAIN disk[clone.source] # Entries(disk[clone.source])
    /\ clone' = None
    /\ UNCHANGED <<disk, server, open, poisoned, thread, skipped, trouble>>

CloneEnd ==
    /\ clone # None /\ clone.listed \subseteq clone.copied \cup clone.missed
    /\ clone' = None
    /\ UNCHANGED <<disk, server, open, poisoned, thread, skipped, trouble>>

\* The command is interrupted: the slot stays as it is, and no later clone completes it.
CloneKilled ==
    /\ clone # None
    /\ clone' = None
    /\ UNCHANGED <<disk, server, open, poisoned, thread, skipped, trouble>>

-----------------------------------------------------------------------------

Work(w) == Panic(w) \/ Check(w) \/ OpenForWrite(w) \/ FailToOpen(w) \/ Find(w) \/ Statement(w)

Next ==
    \/ \E s \in Slots : Start(s)
    \/ Stop
    \/ \E n \in Names : Checkpoint(n) \/ CloneCopy(n) \/ CloneMiss(n)
    \/ \E w \in Worker :
        \/ \E op \in {"read", "delete", "find"}, k \in Key : Call(w, op, k, None)
        \/ \E op \in {"write", "match"}, k \in Key, v \in Value : Call(w, op, k, v)
        \/ Work(w)
    \/ \E c \in Clones : CloneStart(c[1], c[2])
    \/ CloneEnd \/ CloneKilled

\* The threads of a running server are scheduled; its lock is never held for ever, as no
\* thread waits for anything while it holds it.
Spec == Init /\ [][Next]_vars /\ \A w \in Worker : WF_vars(Work(w))

-----------------------------------------------------------------------------

TypeOK ==
    /\ DOMAIN disk \subseteq Slots
    /\ \A s \in DOMAIN disk :
        /\ DOMAIN disk[s] \subseteq Names
        /\ \A n \in DOMAIN disk[s] : \A rows \in {disk[s][n].main, disk[s][n].full} :
            /\ DOMAIN rows \subseteq {k \in Key : Namespace[k] = n}
            /\ \A k \in DOMAIN rows : rows[k] \in Value
    /\ server = None => open = {}
    /\ server # None => server \in DOMAIN disk /\ open \subseteq DOMAIN disk[server]

\* Every row of a listed namespace on the disk of the running server can be read: restarts,
\* clones, other slots and databases made by other threads never leave one that has no
\* connection, but where the file could not be opened when the server started
\* (create_sqlite_bus passes it over).
NoHiddenRows ==
    server # None => Entries(disk[server]) \subseteq open \cup skipped

\* Every call of the tier returns, missing databases and failing statements included, unless
\* the process ends or a database cannot be opened for a write: that panic alone, which
\* write_connection raises with the lock held, takes other calls down.
CallsEnd ==
    \A w \in Worker :
        thread[w].pc \in {"check", "statement"} ~> (thread[w].pc = "idle" \/ trouble)

\* A clone that reports success has every listed database of its source, exactly, that was at
\* rest while it ran (its log in the file, nothing written), but for those whose copy failed:
\* whatever happens to the others, to the server or to files that appear meanwhile.
CloneExact ==
    [][CloneEnd =>
        \A n \in (clone.still \cap Listed) \ clone.missed :
            /\ n \in DOMAIN disk[clone.target]
            /\ disk[clone.target][n] = disk[clone.source][n]]_vars

=============================================================================
