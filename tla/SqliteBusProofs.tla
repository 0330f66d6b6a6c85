--------------------------- MODULE SqliteBusProofs --------------------------
(***************************************************************************)
(* Proofs about SqliteBus for any threads, keys, namespaces, slots, calls  *)
(* and clones.                                                             *)
(***************************************************************************)
EXTENDS SqliteBus, TLAPS

\* Rows of namespace n, and a database with them.
RowsOK(rows, n) ==
    /\ DOMAIN rows \subseteq {k \in Key : Namespace[k] = n}
    /\ \A k \in DOMAIN rows : rows[k] \in Value

DatabaseOK(d, n) == d = Database(d.main, d.full) /\ RowsOK(d.main, n) /\ RowsOK(d.full, n)

\* The files of a slot.
SlotOK(files) == DOMAIN files \subseteq Names /\ \A n \in DOMAIN files : DatabaseOK(files[n], n)

DiskOK == DOMAIN disk \subseteq Slots /\ \A s \in DOMAIN disk : SlotOK(disk[s])

ServerOK ==
    /\ server = None => open = {}
    /\ server # None => server \in DOMAIN disk /\ open \subseteq DOMAIN disk[server]

\* A call has the key and the value that its statement needs, and at its statement it has a
\* connection: write_connection or read_connection has seen it under an earlier lock.
CallOK(t, running, connections) ==
    /\ t = Thread(t.pc, t.op, t.key, t.value)
    /\ t.pc \in {"idle", "check", "statement", "dead"}
    /\ t.pc \in {"check", "statement"} =>
         /\ t.key \in Key
         /\ t.op \in {"read", "delete", "find", "write", "match"}
         /\ t.op = "write" => t.value \in Value
    /\ t.pc = "statement" =>
         /\ running # None /\ t.op # "find"
         /\ Namespace[t.key] \in connections

CallsOK == DOMAIN thread = Worker /\ \A w \in Worker : CallOK(thread[w], server, open)

\* A clone has two slots of its own choosing, and no server runs on the one it makes.
CloneOK ==
    clone # None =>
        /\ clone = [source |-> clone.source, target |-> clone.target, listed |-> clone.listed,
                    copied |-> clone.copied, missed |-> clone.missed, still |-> clone.still]
        /\ {clone.source, clone.target} \subseteq DOMAIN disk
        /\ clone.source # clone.target /\ clone.target # server

\* A database that has been at rest since the clone began is as it was, and so is its copy.
CloneFaithful ==
    clone # None =>
        /\ clone.still \cap Listed \subseteq clone.listed
        /\ clone.copied \cap clone.missed = {}
        /\ \A n \in clone.still :
             /\ n \in DOMAIN disk[clone.source]
             /\ disk[clone.source][n].main = disk[clone.source][n].full
             /\ n \in clone.copied =>
                  n \in DOMAIN disk[clone.target] /\ disk[clone.target][n] = disk[clone.source][n]

Inv == DiskOK /\ ServerOK /\ CallsOK /\ CloneOK /\ NoHiddenRows /\ CloneFaithful

-----------------------------------------------------------------------------
\* What the steps of the server and of a clone do to the disk.

LEMMA RowsTypes ==
    ASSUME NEW rows, NEW n, RowsOK(rows, n), NEW k \in Key, Namespace[k] = n
    PROVE  /\ RowsOK(EmptyMap, n)
           /\ \A v \in Value : RowsOK(Insert(rows, k, v), n)
           /\ RowsOK(Remove(rows, k), n)
BY DEF RowsOK, EmptyMap, Insert, Remove, RemoveAll

LEMMA EmptyRows == ASSUME NEW n PROVE RowsOK(EmptyMap, n)
BY DEF RowsOK, EmptyMap

LEMMA EmptySlot == DOMAIN EmptyMap = {} /\ SlotOK(EmptyMap)
BY DEF EmptyMap, SlotOK

LEMMA ChangeDatabase ==
    ASSUME NEW d, d = Database(d.main, d.full), NEW full
    PROVE  [d EXCEPT !.full = full] = Database(d.main, full)
<1>1. ASSUME NEW a, NEW b PROVE [Database(a, b) EXCEPT !.full = full] = Database(a, full)
  BY DEF Database
<1> QED
  BY <1>1

\* A slot with one database made or replaced.
LEMMA InsertDatabase ==
    ASSUME NEW files, SlotOK(files), NEW n \in Names, NEW d, DatabaseOK(d, n)
    PROVE  SlotOK(Insert(files, n, d))
BY DEF SlotOK, Insert

LEMMA ReplaceDatabase ==
    ASSUME NEW files, SlotOK(files), NEW n \in DOMAIN files, NEW d, DatabaseOK(d, n)
    PROVE  SlotOK([files EXCEPT ![n] = d])
<1> DEFINE new == [files EXCEPT ![n] = d]
<1>1. DOMAIN new = DOMAIN files /\ new[n] = d /\ \A x \in DOMAIN files \ {n} : new[x] = files[x]
  OBVIOUS
<1> HIDE DEF new
<1>2. SlotOK(new)
  BY <1>1 DEF SlotOK
<1> QED
  BY <1>2 DEF new

\* The server changes its database n and tells the clone: databases at rest are copied
\* exactly all the same.
LEMMA ServerWrites ==
    ASSUME Inv, server # None, NEW n, NEW files, SlotOK(files),
           DOMAIN files = DOMAIN disk[server] \cup {n},
           \A x \in DOMAIN disk[server] \ {n} : files[x] = disk[server][x],
           DOMAIN disk' = DOMAIN disk, disk'[server] = files,
           \A s \in DOMAIN disk \ {server} : disk'[s] = disk[s],
           Touches(n), server' = server
    PROVE  DiskOK' /\ CloneOK' /\ CloneFaithful'
<1>1. DiskOK'
  BY DEF Inv, DiskOK, ServerOK
<1>2. CASE clone = None \/ clone.source # server
  <2>1. clone' = clone
    BY <1>2 DEF Touches
  <2>2. clone # None =>
            /\ {clone.source, clone.target} \subseteq DOMAIN disk \ {server}
            /\ disk'[clone.source] = disk[clone.source]
            /\ disk'[clone.target] = disk[clone.target]
    BY <1>2 DEF Inv, CloneOK
  <2> QED
    BY <1>1, <2>1, <2>2 DEF Inv, CloneOK, CloneFaithful
<1>3. CASE clone # None /\ clone.source = server
  <2>1. clone' = [clone EXCEPT !.still = @ \ {n}]
    BY <1>3 DEF Touches
  <2>2. clone = [source |-> clone.source, target |-> clone.target, listed |-> clone.listed,
                 copied |-> clone.copied, missed |-> clone.missed, still |-> clone.still]
    BY <1>3 DEF Inv, CloneOK
  <2>3. clone' = [source |-> clone.source, target |-> clone.target, listed |-> clone.listed,
                 copied |-> clone.copied, missed |-> clone.missed, still |-> clone.still \ {n}]
    BY <2>1, <2>2
  <2>4. /\ clone.target \in DOMAIN disk \ {server} /\ clone.source \in DOMAIN disk
        /\ clone.source # clone.target
        /\ disk'[clone.target] = disk[clone.target] /\ disk'[clone.source] = files
    BY <1>3 DEF Inv, CloneOK
  <2>5. CloneOK'
    BY <2>3, <2>4 DEF CloneOK
  <2>6. \A x \in clone.still \ {n} :
            x \in DOMAIN disk[server] /\ files[x] = disk[server][x] /\ x \in DOMAIN files
    BY <1>3 DEF Inv, CloneFaithful
  <2>7. CloneFaithful'
    BY <1>3, <2>3, <2>4, <2>6 DEF Inv, CloneFaithful
  <2> QED
    BY <1>1, <2>5, <2>7
<1> QED
  BY <1>1, <1>2, <1>3

\* The clone changes a file of the slot it makes, which no server uses.
LEMMA CloneWrites ==
    ASSUME Inv, clone # None, NEW files, SlotOK(files), NEW next,
           DOMAIN disk' = DOMAIN disk, disk'[clone.target] = files,
           \A s \in DOMAIN disk \ {clone.target} : disk'[s] = disk[s],
           clone' = next, next.source = clone.source, next.target = clone.target,
           next = [source |-> next.source, target |-> next.target, listed |-> next.listed,
                   copied |-> next.copied, missed |-> next.missed, still |-> next.still],
           UNCHANGED <<server, open, thread, skipped>>
    PROVE  DiskOK' /\ ServerOK' /\ CallsOK' /\ CloneOK' /\ NoHiddenRows'
<1>1. DiskOK'
  BY DEF Inv, DiskOK, CloneOK
<1>2. server # None => server \in DOMAIN disk /\ disk'[server] = disk[server]
  BY DEF Inv, ServerOK, CloneOK
<1>3. ServerOK' /\ NoHiddenRows'
  BY <1>2 DEF Inv, ServerOK, NoHiddenRows, Entries
<1>4. CallsOK'
  BY DEF Inv, CallsOK
<1>5. CloneOK'
  BY DEF Inv, CloneOK
<1> QED
  BY <1>1, <1>3, <1>4, <1>5

\* A thread moves on while the connections stay or grow.
LEMMA MovesOK ==
    ASSUME CallsOK, NEW w \in Worker, NEW t, Moves(w, t), CallOK(t, server', open'),
           server' = server, open \subseteq open'
    PROVE  CallsOK'
BY DEF CallsOK, CallOK, Moves

LEMMA EndsOK ==
    ASSUME NEW running, NEW connections
    PROVE  CallOK(Idle, running, connections) /\ CallOK(Dead, running, connections)
BY DEF CallOK, Idle, Dead, Thread

\* A call on its way to its statement.
LEMMA ToStatement ==
    ASSUME CallsOK, NEW w \in Worker, thread[w].pc = "check", thread[w].op # "find",
           server # None, NEW connections, Namespace[thread[w].key] \in connections
    PROVE  CallOK([thread[w] EXCEPT !.pc = "statement"], server, connections)
<1> DEFINE t == thread[w]
<1>1. CallOK(t, server, open)
  BY DEF CallsOK
<1>2. [t EXCEPT !.pc = "statement"] = Thread("statement", t.op, t.key, t.value)
  BY <1>1 DEF CallOK, Thread
<1>3. CallOK(Thread("statement", t.op, t.key, t.value), server, connections)
  BY <1>1 DEF CallOK, Thread
<1> QED
  BY <1>2, <1>3

-----------------------------------------------------------------------------

LEMMA InitInv == Init => Inv
<1> SUFFICES ASSUME Init PROVE Inv
  OBVIOUS
<1>1. DOMAIN disk = {}
  BY EmptySlot DEF Init
<1>2. CallsOK
  BY EndsOK DEF Init, CallsOK
<1> QED
  BY <1>1, <1>2 DEF Init, Inv, DiskOK, ServerOK, CloneOK, NoHiddenRows, CloneFaithful

\* The process starts and stops.
LEMMA ProcessInv ==
    ASSUME Inv, Stop \/ \E s \in Slots : Start(s)
    PROVE  Inv'
<1>1. CASE Stop
  <2>1. CallsOK'
    BY <1>1, EndsOK DEF Stop, CallsOK
  <2>2. server' = None /\ open' = {} /\ disk' = disk /\ clone' = clone
    BY <1>1 DEF Stop
  <2>3. CloneOK'
    BY <2>2, NoneAssumption DEF Inv, CloneOK, DiskOK
  <2> QED
    BY <2>1, <2>2, <2>3 DEF Inv, DiskOK, ServerOK, NoHiddenRows, CloneFaithful
<1>2. ASSUME NEW s \in Slots, Start(s) PROVE Inv'
  <2>1. /\ server = None /\ server' = s /\ s # None /\ thread' = thread /\ clone' = clone
        /\ clone # None => clone.target # s
        /\ disk' = IF s \in DOMAIN disk THEN disk ELSE Insert(disk, s, EmptyMap)
        /\ open' \subseteq DOMAIN disk'[s] /\ skipped' = Entries(disk'[s]) \ open'
    BY <1>2, NoneAssumption DEF Start, Entries
  <2>2. /\ DOMAIN disk' = DOMAIN disk \cup {s}
        /\ \A x \in DOMAIN disk : disk'[x] = disk[x]
        /\ s \notin DOMAIN disk => disk'[s] = EmptyMap
    BY <2>1 DEF Insert
  <2>3. DiskOK'
    BY <2>2, EmptySlot DEF Inv, DiskOK
  <2>4. ServerOK' /\ NoHiddenRows'
    BY <2>1, <2>2 DEF ServerOK, NoHiddenRows
  <2>5. CallsOK'
    BY <2>1 DEF Inv, CallsOK, CallOK
  <2>6. CloneOK' /\ CloneFaithful'
    BY <2>1, <2>2 DEF Inv, CloneOK, CloneFaithful
  <2> QED
    BY <2>3, <2>4, <2>5, <2>6 DEF Inv
<1> QED
  BY <1>1, <1>2

\* A step that moves a thread and changes nothing else that Inv is about.
LEMMA QuietInv ==
    ASSUME Inv, NEW w \in Worker, NEW t, CallOK(t, server, open), Moves(w, t),
           UNCHANGED <<disk, server, open, clone, skipped>>
    PROVE  Inv'
<1>1. CallsOK'
  BY MovesOK DEF Inv
<1> QED
  BY <1>1 DEF Inv, DiskOK, ServerOK, CloneOK, NoHiddenRows, CloneFaithful

\* A step on database n of the running server, with what it leaves to show of the threads.
LEMMA DatabaseInv ==
    ASSUME Inv, server # None, NEW n \in DOMAIN disk[server], NEW d, DatabaseOK(d, n),
           disk' = [disk EXCEPT ![server] = [disk[server] EXCEPT ![n] = d]], Touches(n),
           UNCHANGED <<server, open, skipped>>, CallsOK'
    PROVE  Inv'
<1> DEFINE files == [disk[server] EXCEPT ![n] = d]
<1>1. server \in DOMAIN disk /\ SlotOK(disk[server])
  BY DEF Inv, ServerOK, DiskOK
<1>2. /\ DOMAIN files = DOMAIN disk[server] \cup {n}
      /\ \A x \in DOMAIN disk[server] \ {n} : files[x] = disk[server][x]
  OBVIOUS
<1>3. SlotOK(files)
  BY <1>1, ReplaceDatabase
<1>4. /\ DOMAIN disk' = DOMAIN disk /\ disk'[server] = files
      /\ \A s \in DOMAIN disk \ {server} : disk'[s] = disk[s]
  BY <1>1
<1> HIDE DEF files
<1>5. DiskOK' /\ CloneOK' /\ CloneFaithful'
  BY <1>2, <1>3, <1>4, ServerWrites
<1>6. ServerOK' /\ NoHiddenRows'
  BY <1>2, <1>4 DEF Inv, ServerOK, NoHiddenRows, Entries
<1> QED
  BY <1>5, <1>6 DEF Inv

LEMMA CheckpointInv ==
    ASSUME Inv, NEW n \in Names, Checkpoint(n)
    PROVE  Inv'
<1> DEFINE d == Database(disk[server][n].full, disk[server][n].full)
<1>1. server # None /\ n \in DOMAIN disk[server] /\ server \in DOMAIN disk
  BY DEF Checkpoint, Inv, ServerOK
<1>2. DatabaseOK(d, n)
  BY <1>1 DEF Inv, DiskOK, SlotOK, DatabaseOK, Database
<1>3. disk' = [disk EXCEPT ![server] = [disk[server] EXCEPT ![n] = d]]
  BY DEF Checkpoint
<1>4. CallsOK' /\ Touches(n) /\ UNCHANGED <<server, open, skipped>>
  BY DEF Checkpoint, Inv, CallsOK
<1> HIDE DEF d
<1> QED
  BY <1>1, <1>2, <1>3, <1>4, DatabaseInv

LEMMA CallInv ==
    ASSUME Inv, NEW w \in Worker, NEW op, NEW k \in Key, NEW v, Call(w, op, k, v),
           op \in {"read", "delete", "find"} \/ (op \in {"write", "match"} /\ v \in Value)
    PROVE  Inv'
<1>1. CallOK(Thread("check", op, k, v), server, open)
  BY DEF CallOK, Thread
<1>2. Moves(w, Thread("check", op, k, v)) /\ UNCHANGED <<disk, server, open, clone, skipped>>
  BY DEF Call
<1> QED
  BY <1>1, <1>2, QuietInv

\* The rows after a statement.
LEMMA ResultOK ==
    ASSUME NEW t, NEW n, NEW rows, RowsOK(rows, n), t.key \in Key, Namespace[t.key] = n,
           t.op \in {"read", "delete", "write", "match"}, t.op = "write" => t.value \in Value
    PROVE  RowsOK(Result(t, rows), n)
<1>1. \A v \in Value : RowsOK(Insert(rows, t.key, v), n)
  BY RowsTypes
<1>2. RowsOK(Remove(rows, t.key), n)
  BY RowsTypes
<1>3. CASE t.op = "write"
  BY <1>1, <1>3 DEF Result
<1>4. CASE t.op = "delete"
  BY <1>2, <1>4 DEF Result
<1>5. CASE t.op = "match"
  BY <1>2, <1>5 DEF Result
<1>6. CASE t.op = "read"
  BY <1>6 DEF Result
<1> QED
  BY <1>3, <1>4, <1>5, <1>6

LEMMA StatementInv ==
    ASSUME Inv, NEW w \in Worker, Statement(w)
    PROVE  Inv'
<1> DEFINE t == thread[w]
           n == Namespace[t.key]
           old == disk[server][n]
<1>1. CallOK(t, server, open) /\ t.pc = "statement" /\ server # None
  BY DEF Inv, CallsOK, Statement, At
<1>2. /\ t.key \in Key /\ t.op \in {"read", "delete", "write", "match"}
      /\ t.op = "write" => t.value \in Value
      /\ n \in open
  BY <1>1 DEF CallOK
<1>3. server \in DOMAIN disk /\ n \in DOMAIN disk[server]
  BY <1>1, <1>2 DEF Inv, ServerOK
<1>4. DatabaseOK(old, n)
  BY SMTT(60), <1>3 DEF Inv, DiskOK, SlotOK
<1>5. PICK rows \in {old.full, Result(t, old.full)} :
          disk' = [disk EXCEPT ![server][n].full = rows]
  BY Zenon DEF Statement
<1>6. RowsOK(rows, n)
  <2>1. RowsOK(old.full, n)
    BY <1>4 DEF DatabaseOK
  <2> HIDE DEF old, t
  <2> QED
    BY SMTT(60), <1>2, <1>5, <2>1, ResultOK
<1>7. [old EXCEPT !.full = rows] = Database(old.main, rows)
  <2>1. old = Database(old.main, old.full)
    BY SMTT(60), <1>4 DEF DatabaseOK
  <2> HIDE DEF old
  <2> QED
    BY SMTT(60), <2>1, ChangeDatabase
<1>8. DatabaseOK(Database(old.main, rows), n)
  BY SMTT(60), <1>4, <1>6 DEF DatabaseOK, Database
<1>9. disk' = [disk EXCEPT ![server] = [disk[server] EXCEPT ![n] = Database(old.main, rows)]]
  BY ZenonT(60), <1>5, <1>7
<1>10. Touches(n) /\ Moves(w, Idle) /\ UNCHANGED <<server, open, skipped>>
  BY DEF Statement
<1>11. CallsOK'
  BY <1>10, EndsOK, MovesOK DEF Inv
<1> HIDE DEF n, old
<1> QED
  BY <1>1, <1>3, <1>8, <1>9, <1>10, <1>11, DatabaseInv

LEMMA OpenForWriteInv ==
    ASSUME Inv, NEW w \in Worker, OpenForWrite(w)
    PROVE  Inv'
<1> DEFINE n == Namespace[thread[w].key]
           files == IF n \in DOMAIN disk[server] THEN disk[server]
                    ELSE Insert(disk[server], n, Database(EmptyMap, EmptyMap))
<1>1. /\ server # None /\ server \in DOMAIN disk /\ SlotOK(disk[server])
      /\ thread[w].pc = "check" /\ thread[w].op = "write"
  BY DEF OpenForWrite, At, Inv, ServerOK, DiskOK
<1>2. n \in Names
  <2>1. thread[w].key \in Key
    BY <1>1 DEF Inv, CallsOK, CallOK
  <2> QED
    BY <2>1 DEF Names
<1>3. /\ open' = open \cup {n} /\ Touches(n) /\ server' = server /\ skipped' = skipped
      /\ Moves(w, [thread[w] EXCEPT !.pc = "statement"])
      /\ disk' = IF n \in DOMAIN disk[server] THEN disk
                 ELSE [disk EXCEPT ![server] = Insert(@, n, Database(EmptyMap, EmptyMap))]
  BY DEF OpenForWrite
<1>4. CallsOK'
  <2>1. CallOK([thread[w] EXCEPT !.pc = "statement"], server, open \cup {n})
    BY <1>1, ToStatement DEF Inv
  <2> HIDE DEF n
  <2> QED
    BY <1>3, <2>1, MovesOK DEF Inv
<1>5. DatabaseOK(Database(EmptyMap, EmptyMap), n)
  BY EmptyRows DEF DatabaseOK, Database
<1>6. SlotOK(files)
  BY <1>1, <1>2, <1>5, InsertDatabase
<1>7. /\ DOMAIN files = DOMAIN disk[server] \cup {n}
      /\ \A x \in DOMAIN disk[server] \ {n} : files[x] = disk[server][x]
  BY DEF Insert
<1>8. /\ DOMAIN disk' = DOMAIN disk /\ disk'[server] = files
      /\ \A s \in DOMAIN disk \ {server} : disk'[s] = disk[s]
  BY <1>1, <1>3
<1> HIDE DEF files, n
<1>9. DiskOK' /\ CloneOK' /\ CloneFaithful'
  BY <1>1, <1>3, <1>6, <1>7, <1>8, ServerWrites
<1>10. ServerOK' /\ NoHiddenRows'
  BY <1>1, <1>3, <1>7, <1>8 DEF Inv, ServerOK, NoHiddenRows, Entries
<1> QED
  BY <1>4, <1>9, <1>10 DEF Inv

LEMMA WorkInv ==
    ASSUME Inv, NEW w \in Worker, Work(w)
    PROVE  Inv'
<1>1. CASE Panic(w)
  BY <1>1, EndsOK, QuietInv DEF Panic
<1>2. CASE Check(w)
  <2> DEFINE t == IF Namespace[thread[w].key] \in open
                  THEN [thread[w] EXCEPT !.pc = "statement"] ELSE Idle
  <2>1. CallOK(t, server, open)
    BY <1>2, EndsOK, ToStatement DEF Check, At, Inv
  <2>2. Moves(w, t) /\ UNCHANGED <<disk, server, open, clone, skipped>>
    BY <1>2 DEF Check
  <2> HIDE DEF t
  <2> QED
    BY <2>1, <2>2, QuietInv
<1>3. CASE OpenForWrite(w)
  BY <1>3, OpenForWriteInv
<1>4. CASE FailToOpen(w)
  BY <1>4, EndsOK, QuietInv DEF FailToOpen
<1>5. CASE Find(w)
  BY <1>5, EndsOK, QuietInv DEF Find
<1>6. CASE Statement(w)
  BY <1>6, StatementInv
<1> QED
  BY <1>1, <1>2, <1>3, <1>4, <1>5, <1>6 DEF Work

-----------------------------------------------------------------------------
\* The steps of a clone.

LEMMA CloneStartInv ==
    ASSUME Inv, NEW s, NEW t, s \in Slots, t \in Slots, CloneStart(s, t)
    PROVE  Inv'
<1> DEFINE still == {n \in DOMAIN disk[s] : disk[s][n].main = disk[s][n].full}
<1>1. /\ s \in DOMAIN disk /\ t \notin DOMAIN disk /\ disk' = Insert(disk, t, EmptyMap)
      /\ clone' = [source |-> s, target |-> t, listed |-> Entries(disk[s]), copied |-> {},
                   missed |-> {}, still |-> still]
      /\ UNCHANGED <<server, open, thread, skipped>>
  BY DEF CloneStart
<1>2. /\ DOMAIN disk' = DOMAIN disk \cup {t} /\ disk'[t] = EmptyMap
      /\ \A x \in DOMAIN disk : disk'[x] = disk[x]
  BY <1>1 DEF Insert
<1>3. DiskOK'
  BY <1>2, EmptySlot DEF Inv, DiskOK
<1>4. ServerOK' /\ NoHiddenRows' /\ CallsOK'
  BY <1>1, <1>2 DEF Inv, ServerOK, NoHiddenRows, CallsOK
<1>5. server # t
  BY <1>1, NoneAssumption DEF Inv, ServerOK
<1>6. still \subseteq DOMAIN disk[s] /\ \A n \in still : disk[s][n].main = disk[s][n].full
  OBVIOUS
<1> HIDE DEF still
<1>7. CloneOK'
  BY <1>1, <1>2, <1>5 DEF CloneOK
<1>8. CloneFaithful'
  BY <1>1, <1>2, <1>6 DEF CloneFaithful, Entries
<1> QED
  BY <1>3, <1>4, <1>7, <1>8 DEF Inv

LEMMA CloneCopyInv ==
    ASSUME Inv, NEW n \in Names, CloneCopy(n)
    PROVE  Inv'
<1> DEFINE main == disk[clone.source][n].main
           files == Insert(disk[clone.target], n, Database(main, main))
           next == [source |-> clone.source, target |-> clone.target, listed |-> clone.listed,
                    copied |-> clone.copied \cup {n}, missed |-> clone.missed, still |-> clone.still]
<1>1. /\ clone # None /\ n \in DOMAIN disk[clone.source] /\ n \notin clone.copied \cup clone.missed
      /\ disk' = [disk EXCEPT ![clone.target] = Insert(@, n, Database(main, main))]
      /\ clone' = [clone EXCEPT !.copied = @ \cup {n}]
      /\ UNCHANGED <<server, open, thread, skipped>>
  BY DEF CloneCopy, Entries
<1>2. /\ clone = [source |-> clone.source, target |-> clone.target, listed |-> clone.listed,
                  copied |-> clone.copied, missed |-> clone.missed, still |-> clone.still]
      /\ clone.source \in DOMAIN disk /\ clone.target \in DOMAIN disk
      /\ clone.source # clone.target
  BY <1>1 DEF Inv, CloneOK
<1>3. clone' = next
  BY <1>1, <1>2
<1>4. DatabaseOK(disk[clone.source][n], n) /\ SlotOK(disk[clone.target])
  BY <1>1, <1>2 DEF Inv, DiskOK, SlotOK
<1>5. DatabaseOK(Database(main, main), n)
  BY <1>4 DEF DatabaseOK, Database
<1>6. SlotOK(files)
  BY <1>4, <1>5, InsertDatabase
<1>7. /\ DOMAIN disk' = DOMAIN disk /\ disk'[clone.target] = files
      /\ \A s \in DOMAIN disk \ {clone.target} : disk'[s] = disk[s]
  BY <1>1, <1>2
<1>8. /\ DOMAIN files = DOMAIN disk[clone.target] \cup {n} /\ files[n] = Database(main, main)
      /\ \A x \in DOMAIN disk[clone.target] \ {n} : files[x] = disk[clone.target][x]
  BY DEF Insert
<1>9. n \in clone.still => disk[clone.source][n] = Database(main, main)
  BY <1>1, <1>4 DEF Inv, CloneFaithful, DatabaseOK
<1>10. /\ next.source = clone.source /\ next.target = clone.target /\ next.listed = clone.listed
       /\ next.copied = clone.copied \cup {n} /\ next.missed = clone.missed /\ next.still = clone.still
       /\ next = [source |-> next.source, target |-> next.target, listed |-> next.listed,
                  copied |-> next.copied, missed |-> next.missed, still |-> next.still]
  OBVIOUS
<1> HIDE DEF next, files, main
<1>11. DiskOK' /\ ServerOK' /\ CallsOK' /\ CloneOK' /\ NoHiddenRows'
  BY <1>1, <1>3, <1>6, <1>7, <1>10, CloneWrites
<1>12. CloneFaithful'
  BY <1>1, <1>2, <1>3, <1>7, <1>8, <1>9, <1>10 DEF Inv, CloneFaithful
<1> QED
  BY <1>11, <1>12 DEF Inv

LEMMA CloneMissInv ==
    ASSUME Inv, NEW n \in Names, CloneMiss(n)
    PROVE  Inv'
<1> DEFINE files == disk'[clone.target]
           next == [source |-> clone.source, target |-> clone.target, listed |-> clone.listed,
                    copied |-> clone.copied, missed |-> clone.missed \cup {n}, still |-> clone.still]
<1>1. /\ clone # None /\ n \notin clone.copied \cup clone.missed
      /\ \/ disk' = disk
         \/ disk' = [disk EXCEPT ![clone.target] = Insert(@, n, Database(EmptyMap, EmptyMap))]
      /\ clone' = [clone EXCEPT !.missed = @ \cup {n}]
      /\ UNCHANGED <<server, open, thread, skipped>>
  BY DEF CloneMiss
<1>2. /\ clone = [source |-> clone.source, target |-> clone.target, listed |-> clone.listed,
                  copied |-> clone.copied, missed |-> clone.missed, still |-> clone.still]
      /\ clone.source \in DOMAIN disk /\ clone.target \in DOMAIN disk
      /\ clone.source # clone.target
  BY <1>1 DEF Inv, CloneOK
<1>3. clone' = next
  BY <1>1, <1>2
<1>4. SlotOK(disk[clone.target]) /\ DatabaseOK(Database(EmptyMap, EmptyMap), n)
  BY <1>2, EmptyRows DEF Inv, DiskOK, DatabaseOK, Database
<1>5. /\ DOMAIN disk' = DOMAIN disk
      /\ \A s \in DOMAIN disk \ {clone.target} : disk'[s] = disk[s]
      /\ files = disk[clone.target]
         \/ files = Insert(disk[clone.target], n, Database(EmptyMap, EmptyMap))
  BY <1>1, <1>2
<1>6. SlotOK(files)
  BY <1>4, <1>5, InsertDatabase
<1>7. /\ DOMAIN disk[clone.target] \subseteq DOMAIN files
      /\ \A x \in DOMAIN disk[clone.target] \ {n} : files[x] = disk[clone.target][x]
  BY <1>5 DEF Insert
<1>8. /\ next.source = clone.source /\ next.target = clone.target /\ next.listed = clone.listed
      /\ next.copied = clone.copied /\ next.missed = clone.missed \cup {n} /\ next.still = clone.still
      /\ next = [source |-> next.source, target |-> next.target, listed |-> next.listed,
                 copied |-> next.copied, missed |-> next.missed, still |-> next.still]
  OBVIOUS
<1> HIDE DEF next
<1>9. DiskOK' /\ ServerOK' /\ CallsOK' /\ CloneOK' /\ NoHiddenRows'
  BY <1>1, <1>3, <1>5, <1>6, <1>8, CloneWrites
<1>10. CloneFaithful'
  BY <1>1, <1>2, <1>3, <1>5, <1>7, <1>8 DEF Inv, CloneFaithful
<1> QED
  BY <1>9, <1>10 DEF Inv

LEMMA CloneOverInv ==
    ASSUME Inv, CloneEnd \/ CloneKilled
    PROVE  Inv'
<1>1. clone' = None /\ UNCHANGED <<disk, server, open, thread, skipped>>
  BY DEF CloneEnd, CloneKilled
<1> QED
  BY <1>1 DEF Inv, DiskOK, ServerOK, CallsOK, CloneOK, NoHiddenRows, CloneFaithful

-----------------------------------------------------------------------------

LEMMA NextInv == Inv /\ [Next]_vars => Inv'
<1> SUFFICES ASSUME Inv, [Next]_vars PROVE Inv'
  OBVIOUS
<1>1. CASE Stop \/ \E s \in Slots : Start(s)
  BY <1>1, ProcessInv
<1>2. ASSUME NEW n \in Names, Checkpoint(n) \/ CloneCopy(n) \/ CloneMiss(n) PROVE Inv'
  BY <1>2, CheckpointInv, CloneCopyInv, CloneMissInv
<1>3. ASSUME NEW w \in Worker, NEW op \in {"read", "delete", "find"}, NEW k \in Key,
             Call(w, op, k, None)
      PROVE  Inv'
  BY <1>3, CallInv
<1>4. ASSUME NEW w \in Worker, NEW op \in {"write", "match"}, NEW k \in Key, NEW v \in Value,
             Call(w, op, k, v)
      PROVE  Inv'
  BY <1>4, CallInv
<1>5. ASSUME NEW w \in Worker, Work(w) PROVE Inv'
  BY <1>5, WorkInv
<1>6. ASSUME NEW c \in Clones, CloneStart(c[1], c[2]) PROVE Inv'
  <2>1. c[1] \in Slots /\ c[2] \in Slots
    BY ClonesAssumption
  <2> QED
    BY <1>6, <2>1, CloneStartInv
<1>7. CASE CloneEnd \/ CloneKilled
  BY <1>7, CloneOverInv
<1>8. CASE UNCHANGED vars
  BY <1>8 DEF vars, Inv, DiskOK, ServerOK, CallsOK, CloneOK, NoHiddenRows, CloneFaithful
<1> QED
  BY <1>1, <1>2, <1>3, <1>4, <1>5, <1>6, <1>7, <1>8 DEF Next

LEMMA Invariant == Spec => []Inv
BY InitInv, NextInv, PTL DEF Spec

\* Slots hold databases of their namespaces' rows, and the server has connections to
\* databases that exist only (sqlite_bus.rs), for any threads, calls and clones.
THEOREM TypeCorrect == Spec => []TypeOK
<1>1. Inv => TypeOK
  BY DEF Inv, DiskOK, SlotOK, DatabaseOK, RowsOK, ServerOK, TypeOK
<1> QED
  BY <1>1, Invariant, PTL

\* Every row of a listed namespace on the disk of the running server can be read
\* (create_sqlite_bus, write_connection), but in databases that did not open at the start.
THEOREM NoRowsHidden == Spec => []NoHiddenRows
<1>1. Inv => NoHiddenRows
  BY DEF Inv
<1> QED
  BY <1>1, Invariant, PTL

\* A thread that has seen or made its connection under one lock finds it under the next one:
\* between the two, nothing closes a database or removes its file (the two locks of
\* read_value, write_value, delete_value and delete_value_if_match).
StatementConnected ==
    \A w \in Worker :
        thread[w].pc = "statement" =>
            LET n == Namespace[thread[w].key] IN server # None /\ n \in open /\ n \in DOMAIN disk[server]

\* The second lock of a call of sqlite_bus.rs always meets the connection that the first one
\* saw, although other threads, restarts and clones run in between.
THEOREM StatementsConnected == Spec => []StatementConnected
<1>1. Inv => StatementConnected
  BY DEF Inv, CallsOK, CallOK, ServerOK, StatementConnected
<1> QED
  BY <1>1, Invariant, PTL

\* A clone that reports success has an exact copy of every listed database that was at rest
\* and whose copy did not fail (create_clone), whatever the server, its threads and other
\* databases do meanwhile.
THEOREM ClonesExact == Spec => CloneExact
<1>1. ASSUME Inv, CloneEnd
      PROVE  \A n \in (clone.still \cap Listed) \ clone.missed :
                /\ n \in DOMAIN disk[clone.target]
                /\ disk[clone.target][n] = disk[clone.source][n]
  <2>1. clone # None /\ clone.listed \subseteq clone.copied \cup clone.missed
    BY <1>1 DEF CloneEnd
  <2>2. \A n \in (clone.still \cap Listed) \ clone.missed : n \in clone.copied
    BY <1>1, <2>1 DEF Inv, CloneFaithful
  <2> QED
    BY <1>1, <2>1, <2>2 DEF Inv, CloneFaithful
<1>2. Inv /\ [Next]_vars =>
        [CloneEnd => \A n \in (clone.still \cap Listed) \ clone.missed :
                        /\ n \in DOMAIN disk[clone.target]
                        /\ disk[clone.target][n] = disk[clone.source][n]]_vars
  BY <1>1
<1> QED
  BY <1>2, Invariant, PTL DEF Spec, CloneExact

=============================================================================
