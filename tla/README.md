# TLA+ models of TRIC+

TRIC+ is an in-memory key-value store with expiring keys, backed by SQLite for
the keys that do not expire, served over Unix and UDP datagrams. This directory
holds TLA+ modules that model the program, TLC configurations that check them on
small instances, and TLAPS proofs of the main invariants for any instance.
`PROJECT.json` lists every run, the source lines each definition models, the
hazards the properties are aimed at, and the theorems. Rust paths below are
relative to `src/` of the repository.

## Inventory

| Component | State | Operations | What makes it correct |
| --- | --- | --- | --- |
| Store (`store.rs`) | `data`, `ttl`, `expiry` maps kept in step by hand | write, delete, TTL, compare-and-delete, prefix range, purge | the three maps agree, so the `unwrap()`s of `delete_ttl` are safe and the purge deletes the right keys |
| Tric (`lib.rs`) | a Store behind a lock | every method: lock, purge, work | lazy expiry cannot be observed |
| PermutiveBus (`core/permutive_bus.rs`) | a Tric and a SqliteBus, no common lock | the eight calls of `DataBus`, promotion of reads, migration by `write_ttl` | its calls are those of one map with lifetimes: linearizable, claims are won once, restarts lose only timed keys |
| SqliteBus (`core/sqlite_bus.rs`) | one database per namespace behind one mutex | reads, writes, deletes, scans; slots, clones | every row on disk can be read again; one failure does not spread; clones are exact; scans are ordered |
| Core (`core/mod.rs`) | registered modules, `module:<name>` heartbeats | spawn, supervise, join, respawn | a dead module runs again, a living one is left alone |
| Server, CLI, placeholder (`modules/`) | worker threads, sockets | receive, dispatch, reply | each request is answered; heartbeats last |
| Router (`modules/router.rs`) | none | opcode dispatch, streaming of scans | local-only opcodes, complete streams |
| Sessions, codec (`modules/auth.rs`, `codec.rs`) | session table, nonce counters | encrypt, frame; no code creates a session | local datagrams keep request id and opcode |
| Query (`modules/query.rs`), analyser | none of their own | SELECT, INSERT, UPDATE, DELETE as calls on the bus | a table with rows has a schema; statements do not undo each other |
| Import, export (`modules/`) | none of their own | SQL dumps; dump, restore, archives, diffs | what is exported can be imported again; nothing is left out |
| Metrics (`modules/metrics.rs`) | atomic counters | record, read | counters and averages are consistent |
| Bridges (`bridges/`) | socket, request counter, pending calls | open, close, request, wait for reply, scan | a call returns the reply to its own request, and returns; a scan is complete |

The worker threads of the server and the CLI share one PermutiveBus. Each call
touches one or two tiers; each tier locks for one call on it, and nothing locks
the two together. The clock and the lazy purge run between any two calls. SQLite
errors are dropped. The supervisor runs in the main thread and only knows the
modules through the keys they keep alive in a Tric of its own.

SQL statements and the commands of the CLI are sequences of bus calls, with nothing
around them. A request and its replies are datagrams: several workers take
requests from one socket, send replies in any order, and drop the errors of
sends; every connection of a client process is bound to the same path.

The hard behaviours are therefore: interleavings of the tier calls of two
threads, and of the bus calls of two statements; a value read in one step and
stored in a later one; a restart between two steps; the edges of deadlines;
heartbeats that lapse while a module is merely idle; replies that are lost,
late, reordered or taken by another call.

## Modules

| Module | Models | State and actions |
| --- | --- | --- |
| `Maps` | `BTreeMap`, as far as the code uses it (external) | operators on functions with a finite domain |
| `Store` | `store.rs` | one operator per method, from the store before to the store after |
| `Tric` | `lib.rs` | variables `store`, `now`, `reply`; one action per method: purge, then the Store operator |
| `Timed`, `TimedMap` | nothing: the abstract specification of Tric | a map from keys to `[value, deadline]`, with no index and no purge |
| `PrefixScan` | `find_by_prefix` of the three stores, over byte strings | one action, the scan, from every content of two small tiers |
| `PermutiveBus` | `core/permutive_bus.rs` over the two tiers | per worker a frame (program counter and locals) and a reply; one action per tier call |
| `History` | nothing more: PermutiveBus as its callers see it | the actions of PermutiveBus, regrouped into begin, continue and end of a call, with history variables: the possible maps, and the jobs posted less the claims won |
| `SqliteBus` | `core/sqlite_bus.rs`, the clone command of `main.rs` | slots on disk with their databases, the connections and the lock of the running server, per worker the call it is in, the clone; start, stop, one action per critical section, one per copied file |
| `Supervision` | `core/mod.rs` and the loops of the modules | heartbeats, module threads, their workers, the supervisor's position; which modules fell silent is history |
| `LocalWire` | `modules/router.rs`, the local workers of `server.rs`, the sockets of one client process | the bus as one map, the server's socket, per worker the replies it has yet to send, per connection its socket; receive, send one reply, expire |
| `SyncClient` | `bridges/c`, `bridges/python`, over `LocalWire` | per connection its state, request counter, the call it waits in; open, close, make a call, send, receive, time out |
| `JsClient` | `bridges/javascript`, over `LocalWire` | calls, waiters, buffered datagrams, the handler of a scan; one action per event, errors of the socket and closing included |
| `Sql` | `modules/query.rs`, `analyser.rs`, SQL parts of `import.rs` and `export.rs` | schemas, rows, relationships and their cached copies; per session the statement it is in and the second half of its call of the bus; one action per tier that a call changes |
| `Archive` | `.tric` archives and diff imports, binary dump and restore of `cli.rs` | two archived stores, the live one, what is left to apply |
| `TricProofs`, `PrefixScanProofs`, `HistoryProofs` (with `PermutiveBus`), `SqliteBusProofs`, `SupervisionProofs`, `ClientProofs` (`SyncClient` and `JsClient`), `SqlProofs`, `ArchiveProofs` | theorems about the module of that name | |
| `MC*` | constants for TLC | |

`PermutiveBus` uses the operators of `Timed` for its transient tier. That is
sound because `Tric` implements `TimedMap` (checked and proved), and it is what
makes the state small: no index, and an entry is in the map exactly while it is
alive.

Correspondence, where it is not one to one:

- `Tric!Locked` is the store after `write lock; Instant::now(); purge`, with which
  every method of `lib.rs` starts. A call is one step.
- The purge loop removes instant after instant. The passes touch different
  keys, so the model removes all due instants at once.
- A prefix is the set of the keys that start with it. `PrefixScan` checks that
  the range scan finds that set, over real byte strings.
- A `PermutiveBus` step is one tier call. A SqliteBus method locks twice (is the
  namespace open? then the statement); namespaces are never closed, so the two
  count as one step there. `SqliteBus` has both.
- `History` is a linearizability checker that runs along. `possible[k]` holds every map
  that key `k` can have by now, together with the answers of the calls in progress
  that have taken effect on it. Registry keys, which a restart writes again, are not followed. When a call begins, when time passes and when a
  timed entry vanishes the set is closed under "one more call takes effect"; when a
  call returns, only the maps on which it got that answer stay. The calls are
  linearizable as long as the set is not empty. A read that an update overlapped
  may cache an old value, and a read that nothing overlapped may set the deadline of such a copy
  anew; `suspect` says until when it can last, and the answers of calls that
  can have met it are not used.
- In `SqliteBus` a database is what is in its file and what is committed, some of it
  in the write-ahead log only. A process ends with `exit`, which runs no destructors,
  so `Stop` leaves the log as it is. `Checkpoint` is SQLite's own doing. A file that
  is copied while SQLite writes to it counts as a failed copy. Nobody starts a
  server on a slot while that slot is being made. `Listed` are the namespaces `n` whose file
  `n.db` is found again as `n` when the directory is listed: not the empty one, as `.db` has
  no extension, and none with a slash, whose file is in another directory.
- With `FaultyDisk`, a statement that changes rows may leave them as they are and
  a SELECT may miss rows: the code turns errors into nothing (`let _ =`, `.ok()`,
  `flatten()`). A `delete_value_if_match` whose DELETE fails still answers true.
- `Crash` ends the process and starts it: rows stay, the transient tier holds the
  registry of instances that `write_registry` puts there without a TTL.
- In `LocalWire` the bus is one map and a request is executed in one step: the
  races inside a bus call are the subject of `PermutiveBus`. `from` in requests and
  replies is not on the wire; properties use it to tell whose reply a call took.
  A blocking send to a full socket waits on Linux and fails on FreeBSD and macOS; `drops`
  is chosen in the initial state. Both the clients' sockets (`QueueLen`) and the server's
  (`Backlog`) can be full; the JavaScript client's send does not block and raises `congestion`.
  `faults` records what has gone wrong, and the properties say which of it they exclude.
- `SyncClient` has the C and the Python client in one module, as they differ in two
  points: the timeout and the check of the request id. The C++, Swift, Nim, Lua,
  Tcl and Zig bridges wrap the C client.
- In `Sql` a text is the sequence of its parts between colons, which is what joining
  the columns of a primary key and splitting keys again depends on, and a cell of
  a dump is a text with or without quotes. `ReadAs` is what the parser and `parse_value` make
  of a cell; a cell that is not in its domain does not parse. `Plain` is what `parse_table_name_raw`
  leaves of the name of a table; columns are named by numbers.
  SELECTs that scan and the export's file name are left out. The rows are persistent keys, so
  a restart keeps them and only ends the statements under way. A call of the bus is the step
  on the tier that decides it and the step on the other: `read_value` looks for the copy and
  reads the row in one step and stores the copy in another, `write_value` stores and then
  removes the copy, `delete_value` removes the copy and then the row. That the look comes a
  little before the row read makes no difference: a copy that comes or goes in between
  would only be stored again or not be served. A scan of the two tiers is one step here, and a
  copy gets its deadline with its value; `PermutiveBus` and `History` have these steps apart.
- In `Archive` keys and paths are sequences of words, colons and slashes, since the
  conversions between the two are what can go wrong. Archives and dumps are those of a store that stands still
  while it is exported (the code scans first and asks for each TTL later), and that has no key whose path tar
  refuses: a path that begins with a slash or has a part `..` makes the whole export fail. The entries of an archive are
  visited in any order, as the code iterates over a HashMap. An entry is a value or
  a TTL; no value that ends up at the path of a TTL is the text of a number.
- In `Supervision` a unit of time is the supervision interval (5 s), so the
  heartbeat TTL (15 s) is 3. `Tick` happens only when every thread sleeps or waits:
  computing takes no time compared with 5 s. A socket that cannot be bound ends the process (`exit(1)`),
  the supervisor with it, and with it the behaviour: there is no action for that.

## Runs

| Run | Instance | Shows |
| --- | --- | --- |
| `tric` | 3 keys, 2 values, TTLs 0, 1, 2, clock 0..2 | index consistency, reclamation, refinement of `TimedMap` |
| `prefix_scan` | keys of up to 2 bytes over {0,1}, up to 3 per tier, 2 databases | each scan is exact, ordered and free of duplicates |
| `permutive_bus` | 2 threads, 1 key and 1 registry key, failing statements, restarts | types; `NoImmortalCopy` |
| `history` | 1 key, 2 values, restarts; seven mixes of methods by 1 or 2 threads, and 3 threads posting, claiming and withdrawing a job in either tier | calls are linearizable; the tiers at rest hold the map; a job is claimed at most once |
| `claims_read` | 2 threads that also read the job | violated: two winners |
| `sqlite_bus` | 2 threads, a listed namespace and the empty one with a key each, 2 slots, restarts, databases that do not open, a clone that may fail or be interrupted | types; rows that a listing finds stay within reach; calls end unless a database cannot be opened; clones are exact where the source rests |
| `supervision` | a server with 2 workers, which may be idle for any time, and a placeholder | types; no join of a living module but of one that was silent; respawn while there was none |
| `idle_modules` | server and CLI, with clients that may be silent | violated: the supervisor blocks in `join()` |
| `sync_client` | a process with up to 2 connections and 3 calls, C or Python client, 1 worker, sockets that hold 1 datagram on both sides, any initial content of 2 keys | a call returns the answer to its own request, scans that succeed are whole, calls return but for one that waits in `send()` while the worker is held, and the worker is not held; the conditions below |
| `js_client` | 1 connection, 3 overlapping calls, 2 workers, an error of the socket, a full server socket, closing | a promise resolves with its own answer only; all settle and leave nothing behind |
| `sql` | a worker and the CLI with 4 statements or commands, 4 tables, cached copies, restarts | tables with rows have a schema; imports are complete; exports of regular rows read back; UPDATE is no upsert, but where it or a read races a DELETE |
| `archive` | any two archived stores over 4 keys, diff or restore, 1 crash and rerun | persistent keys with faithful paths reach the new state, all others their new value unless interrupted; whole records are restored |

Bounds. Three keys suffice for a vector of the expiry index in which
`swap_remove` moves a third element over a removed one; a clock of three
instants has a past, a present and a future deadline, and TTL 0 the boundary. Two
threads give every pair of overlapping calls; claims use three so that a third
can post or withdraw between two claims. `MaxCredit` allows two unclaimed posts, the
least for which a claim may rightly be won twice. One key per race is enough
because calls on different keys share nothing but the lock of a tier call.
Durations 0 and 1 with a `CachePromotion` of 1, or in `history` 2, let deadlines fall in any order
relative to the steps of a call; with 2, and a clock of four instants, one read can prolong
the copy of another. All graphs are explored completely.

In `sqlite_bus` the empty namespace is beside a listed one, so that what a listing passes over
must not disturb what it finds, and two slots let a server run on what a clone left. `supervision` keeps a
placeholder beside the server, since a prompt module must not be joined because another one is silent.
One datagram per client socket makes every scan overflow it; two calls let a
reply of the first reach the second, and the third JavaScript call can overlap a
call that overlaps a scan. With one worker it takes three calls to meet a full server socket:
a scan that times out and leaves the worker with chunks to send, a call that fills
the socket and times out, and one that wants to send. With two it takes four, which is too many states;
a blocking client has one call under way at a time, `js_client` has two workers, and the
theorems of `ClientProofs` are for any number. `MaxChunks` stands for the 65535 chunks that a scan may
have; no instance reaches it, since the cap only cuts the list. The keys of
`archive` are a plain one, one with two colons, the one that its path is read
back as, and a relationship. The tables of `sql` have a primary key that is not
the first column, one of two columns in another order, one inferred from an INSERT,
and a name that is not plain, beside a table whose name is what the analyser leaves of it; the texts
are numbers, one that does not parse without quotes, one that parses as something else (a date), one with a backslash,
and the empty one. Four
statements allow an export after an import that two statements have interfered with, and bring a deleted row
back (INSERT, SELECT beside DELETE, UPDATE).

Deadlock checking is off for the clients, `sql` and `archive`, whose programs end,
and on elsewhere.

Fairness. In `SyncClient` and `JsClient` the workers are weakly fair (the operating
system schedules them), a client in `send()` goes on when there is room, a waiting client receives a datagram that is there, and
a C client that waits without one runs into `SO_RCVTIMEO`; the JavaScript event loop
runs what is ready. Nothing makes a client start a call. In `SqliteBus` the threads of a running server
are scheduled; nothing makes the server start, stop or a clone go on. In `Supervision`, threads that can run do run (the operating
system's scheduler), time passes, and a sleeping thread wakes up. A module with a
bounded idle time is taken to end its waiting: that is the placeholder, which sleeps. Nothing is assumed about the
clients of the server; `Respawned` excuses what follows from their silence, and `idle_modules` shows it.

## Disagreements between code and documentation

1. `delete_value_if_match` is called atomic, but is two critical sections: a read
   that promotes the value in between (`claims_read`) lets two callers win. (The storage manual restricts the
   promise to "atomic per tier"; the README and the client manuals do not.)
2. A module that is idle for longer than the heartbeat TTL loses its key, can no
   longer renew it (`write_ttl` ignores missing keys), and the supervisor joins its
   living thread: supervision ends (`idle_modules`).

Three more were met and are described by the conditions of the properties below rather than by runs of their own:

- Rows without a TTL are said to survive a restart (05-storage-model.md:10, "Survives restarts"), and a clone to copy "all
  `.db` files" (08-instance-management.md:65). The database of the empty namespace (a key like `:x`) is the
  file `.db`, which has no extension: a restart does not open it and a clone does not copy it. The rows are back
  after the first write to the namespace. `NoHiddenRows` and `CloneExact` fail without `Listed`.
- UPDATE "only modifies existing keys" (06-sql-interface.md:39), but looks for the row through the cache: a read
  that races a DELETE leaves a copy of the deleted row, and an UPDATE within the next 60 s stores it again.
  `NoUpsert` fails without `raced`.
- 05-storage-model.md:87 says that writing to `users.db` "never blocks" `orders.db`; all databases are behind one
  mutex.

## Where the properties stop

Several properties hold under a condition. The conditions are as weak as the models
allow: without one of them TLC finds a counterexample. They mark the limits of
the code.

- `AtomicClaim`: the job is not read and gets no TTL. A `write_ttl` moves a value in
  three steps and can bring back one that was claimed meanwhile. Registry entries, which
  a restart writes again, are not jobs.
- `Linearizable`, `Coherent`: the mixes of `MCHistory`, which are close to the largest for
  which they hold. One thread may do anything, beside one that asks for the TTL if
  it does not read; it may write to both tiers beside deletes; two may write, delete and read
  a persistent key, or write, delete, claim and scan it; one may claim beside a
  reader; two may do all kinds of things to timed values. TLC refutes them for
  `write_value` beside another thread's `write_value_with_ttl` (both values are lost), for
  `write_ttl` on a row beside any other call on it, for `write_value_with_ttl` over a row beside a
  scan, a read or a claim, for scans and reads beside writes (the scan shows the new
  row, a later read the cached old one), for claims and writes by two threads
  beside a read, and for `read_ttl_remaining` beside writes to both tiers and deletes.
- The stale copy that `Coherent` allows for: the promotion in `read_value` stores a row
  read in an earlier step, so it can bring back a deleted value or hide a new one.
  It then sets the deadline of whatever copy is there: a second read, itself
  free of any overlap, can prolong the stale copy of a first one, so such a copy
  lasts for `CachePromotion` after the last stamp, not after the read that stored it.
- `NoHiddenRows`: the database could be opened when the server started, and the listing of the directory
  finds it. One that could not is passed over without a message, as is the file `.db` of the empty
  namespace, and its rows are back after the first write to
  its namespace. A namespace with a slash has its file in another directory, if that exists.
- `CallsEnd`: no database failed to open for a write. If one does, the panic poisons the
  lock and every later call on the tier ends its thread; the local workers are not
  respawned, as the module waits for its network workers, which never end.
- `CloneExact`: the listing finds the database, it was at rest, its log in the file, and its copy did not fail. Rows
  that are in the log only, which is what a shutdown leaves, are missing from the
  clone (08-instance-management.md:13 calls it a "copy of an instance's data"), and a copy that
  fails is not reported. An interrupted clone leaves a slot that no other clone
  completes.
- `OwnReply` of `SyncClient`: no call has timed out, and the process has one
  connection at a time. The C client does not compare request ids, so a late reply
  answers the next call (04-wire-protocol.md:169 says "match by request_id"). Two
  connections of a process share one path, and the replies go to the newer one
  (the Swift quickstart advises one connection per thread).
- `ScanWhole`: no reply was lost or late. A chunk dropped at a full socket, or a
  timeout in the C client, yields a shorter list without an error.
- `WorkersFreed`: no call has timed out and no path is shared. On Linux a worker that
  sends to the full socket of a client that stopped reading waits for ever.
- `Respawned`: no module was silent for as long as a key lives.
- `NeverJoinsLiving`: not all living workers of the module were idle for as long as a key lives. A server whose
  clients are silent for 15 s is joined alive, and so is the CLI.
- `CallsReturn`: the Python client waits for ever for a lost reply, and `send()` has no timeout in either client:
  when clients that timed out, or share a path, hold the workers, the server's socket
  fills and a call waits in `send()` for ever.
- `AllSettle`, `NothingLeftOver`: no scan overlaps another call, no send of a scan
  fails, the server's socket has room, and the connection is not closed on a call. The client does not listen to
  `congestion`, so a call that met a full socket waits for ever. The handler of a scan takes the replies
  to other calls; `close` forgets the calls that wait. After an error of the socket
  replies are left over, and the calls that meet them are rejected.
- `ImportComplete`: a row of a table whose name has other characters than letters,
  digits and underscores, such as `public.users`, is passed over without being counted
  as an error, as the plan has another name than the INSERT. An INSERT that looked for the schema before the import may replace
  the imported schema by an inferred one. Of two tables
  of one name in a dump the later has the schema.
- `SchemaPresent`: the server has not stopped between the rows and the schema of an
  INSERT into a new table; until the next INSERT no SQL export sees such rows.
- `ExportReadsBack`: the row has a value for every column (an UPDATE of some columns
  drops the others), the primary key is one column, the name of the table is plain and not
  what the analyser leaves of another one's (rows of `pu` are read with the columns of `p.u`, if both exist), and the dump parses, which one
  text exported without quotes under an inferred INT column prevents. The texts are read as
  they are written: bare under an INT column `2024-01-02` comes back as `2024 - 01 - 02`, `TRUE` as `true`, `NULL` as
  the empty text, and quotes do not protect a backslash under the MySQL dialect. The scan found no older copy of the row in the
  cache, and no other key of the dump is read as that of the row.
- `NoUpsert`: UPDATE reads the row and writes it later, and so re-creates a row that is
  deleted in between; and it takes a cached copy for the row, which a read that overlapped a DELETE
  may have left (`raced`; 06-sql-interface.md:39 says "no upsert").
- `DiffApplied`: the key is persistent in both archives and its path is faithful. Of a
  key with two colons only the first comes back; a TTL applied before its value is
  lost, and one that did not change is skipped after the value was rewritten; cached
  copies are exported as keys with a TTL. `ValuesApplied` says what holds for these keys, too.
  A key whose name begins with `_ttl:`, and the key `_meta:version`, have paths that the
  archive uses for its own marks: the first is taken for a TTL and not restored, the
  second is skipped. A key `_ttl:a` also hides the TTL of the key `a`.
- `RestoreExact`: the dump is that of one moment. A key that expires between the scan and the question for its TTL
  is dumped as a persistent one.

## Proofs

`TricProofs` proves, for any keys, values, durations and clock bound:

- `TypeCorrect` and `IndexAlwaysConsistent`, from the inductive invariant
  `Inv == TypeOK /\ IndexConsistent`. The types alone are not inductive, since
  `delete_ttl` applies `expiry` to `ttl[key]`, which needs the index. Each method is
  a composition of `delete_expired_entries`, `delete_ttl`, `push_ttl` and changes of
  `data`; one lemma per operator says it keeps the store good, where `delete_ttl`
  may rely on the vector holding the key exactly once (`SwapRemove`).
- `Reclaimed`: after the purge every TTL lies in the future, and only the two
  operations that set a deadline can add one that does not.
- `Refinement`: `LiveEntries(store, now)` maps initial states to initial states and
  every step to a step of `TimedMap`. The core is that the purge does not change
  the live entries (`PurgedView`), which again needs the index to be consistent.

`PrefixScanProofs` proves, for any alphabet, length of keys, content of the tiers and order of the databases:
`RangeScanIsExact`, `DatabasesAreScannedInOrder` and `MergeOfTiersIsExact`. Byte strings are ordered
strictly and totally; a finite set that is so ordered is listed by rank, and the list is a bijection that rises
(`RankRises`, `RankBounds`). In the range that starts at the prefix, the keys with that prefix
come first: `take_while` loses none of them. A stable sort is a listing of places, so the rows are
the same ones, and those of distinct keys are in order whatever order the databases came in.

`HistoryProofs` proves of `PermutiveBus`, for any number of threads, keys and calls, with or
without failing statements and restarts:

- `TypeCorrect`: each call has at each step the key, value and duration it needs.
- `NoCopyIsImmortal`: an entry without a deadline is a registry entry or some
  thread is about to stamp it. The argument: only `Promote` and `TtlMove` create
  such an entry, both move to a stamping step on the same key, and a thread that
  leaves a stamping step has set the deadline or found no entry.

and of `History`, for any finite set of threads, any keys and durations, and any restarts, on a disk
whose statements do not fail:

- `ClaimedOnce`: `AtomicClaim` for workloads in which jobs are neither read nor given a TTL
  (`NoCopies`). `AtomicClaim` only says that the
  credit of a key is not negative. The inductive invariant is that the credit covers the
  account: the copies in the two tiers, plus the calls that are to store a value already
  counted, plus the claims that have taken one and not returned. One lemma says how a
  step of one call changes the number of calls that owe; every step then moves a value
  from one place of the account to another, or drops it.
- `CallsLinearize` and `TiersCohere`: `Linearizable` and `Coherent` for four kinds of workload
  (`Followable`). All threads keep to timed values; or to persistent values that they write,
  delete, claim, find and ask for; or to persistent values that they write, delete and
  read; or there is one thread, which uses all methods but `read_ttl_remaining` (that one sees the
  cached copies). The invariant `LinearInv` says of each key that one of its possible maps is what the tiers hold, and
  that each call in progress has answered on it exactly if it is past the step at which
  it takes effect. As the possible maps are closed under "one more call takes
  effect", it is enough that each step either leaves that map alone or is such an
  effect; a call that returns then has the answer that is recorded.
  What differs is where a call takes effect and what the tiers hold of the map:
  - timed values: the transient tier is the map, and a call takes effect in it (`TimedInv`);
  - persistent values: the row is the map, and a call takes effect at the row (`DurableInv`);
  - cached values: the row is the map, and the copy is either equal to it, or of an
    earlier value while the updates that replaced it are still under way, or doubtful
    (`CachedInv`). A read that is sure of its answer and meets a copy of the second sort takes
    effect before those updates (`OldCopy`);
  - one thread: the map is in the two tiers as far as the call has come (`AloneInv`). A restart in the
    middle of a timed write or a `write_ttl` leaves what the completed call would have left: the value is lost with the
    transient tier.

`SqliteBusProofs`, for any threads, keys, namespaces, slots and clones:

- `TypeCorrect`, and `NoRowsHidden`: each namespace with rows on disk that a listing finds has a connection unless it
  did not open at the start. Statements only reach open databases, and no database
  is ever closed but by the end of the process.
- `StatementsConnected`: the two locks of a call are enough, as what the first one saw still holds at the
  second. It is the part of the invariant from which the others follow.
- `ClonesExact`: a database that has been at rest since a clone began is unchanged and its
  copy is equal to it. The proof needs that no server runs on the slot being made.

`SupervisionProofs`, for any list of modules, numbers of workers and heartbeat TTL:

- `TypeCorrect`, whatever the modules do.
- `NoLivingModuleJoined`, whatever the idle times. Until a module falls silent its key outlives
  the wait of each of its workers (`KeysLast`): the key was renewed no longer ago than any living worker began to
  wait, so it lapses only when all have waited for a whole TTL, and then the module is silent. A key that is missing in the
  snapshot therefore belongs to a silent module or to one
  without workers, and that lasts until the supervisor comes to it (`FoundGone`):
  only the supervisor starts modules. `idle_modules` shows that silent modules are joined.
- `PromptModulesNotJoinedAlive`: a module whose workers wait for less than the TTL never falls silent, however idle
  the others are, and so is never joined alive. Of the modules in the repository that is the placeholder.

`ClientProofs`, for any workers, connections, calls and queue lengths, proves of `SyncClient`: `RepliesAreOwn` and
`ScansAreWhole`. While no call has timed out and no two connections shared the path, at
most one exchange is under way, and it is in one of four phases: nothing, a call that has not sent its request, the
request, or the answer, split between one worker and the socket of the caller. All
that is left of the answer is the caller's and ends with the reply on which the call
returns; of a scan without losses it has exactly the rows not yet taken. That only the last
reply ends the call is what keeps the next call from meeting a leftover.

Of `JsClient`, whose calls overlap, it proves `PromisesResolveWithOwnReply`, whatever goes wrong, and
`NothingIsLeftOver` while nothing has (`Calm`). The first follows from the request id alone: no call
uses a reply to another. For the second the invariant is `JsInv == JsTypeInv /\ (Calm => CalmInv)`: either no scan is
under way, and the requests, answers being made, replies in the socket and replies in the buffer are no more than the calls that have not
settled; or one scan is alone, and it is asked, answered by one worker or ended. When all calls have
settled nothing can then be left. Counting is enough: which reply meets which call does not matter, as every
call that meets a reply settles.

`SqlProofs`, for any sessions, statements and dumps: `SchemasPresent`, `ImportsComplete` and `UpdatesNoUpsert`. The
invariant has two halves. `TierInv` says of the cache that a copy, or one about to be stored, is of a row that
exists or that was read while a DELETE was removing it (`raced`), during a DELETE only the latter, and that the row an UPDATE has seen
exists, is such a one, or another session has written there since. `BusInv` says what each statement may still rely on of what it read or wrote in earlier
steps (an INSERT that will write no schema has seen one; an UPDATE has seen its row; an import
has stored what it has passed), where another session's write is excused once the
statement has been told of it. `SchemasPresent` also needs that an UPDATE that brings back a
deleted row does so in a table that has a schema or will get one.

`ArchiveProofs`, for any finite set of keys, any rows and any order of entries, with a crash at any
step: `DiffsApplied`, `DiffValuesApplied` and `RestoresExact`. A diff import changes a key with a faithful path
only when it visits the path of its value: lemmas about the conversions say that no
other path is read back as that key, and that the only TTL applied to it is its own. So the key is as in the old archive before that visit and as in the new one
after it, and a rerun after a crash starts from a mix of the two. In a restore the
records before `next` are restored, the one at `next` may be so in half, and the rest is
untouched.

The inductive invariants were also checked with TLC on the instances of their runs (those that speak of all keys, for the keys in the state). Four proofs, or attempts,
led to corrections of what was stated: `DiffApplied` and `ValuesApplied` did not hold for keys whose names the
archive uses for its own marks, nor `ImportComplete` for a dump that declares a table twice, nor `Coherent` and
`Linearizable` for stale copies that another read prolongs, nor `ExportReadsBack` for two tables whose names differ
in dots only. No instance had such keys, dumps, promotions or names; the last two kinds are now part of theirs.

Assumptions on the constants, all in the modules that declare them: durations and TTLs are natural
numbers (heartbeats positive); prefixes are sets of keys; the markers `None` and `Never` are no
values, instants, slots, connections or calls; the sets of threads (`History`, `JsClient`), of keys (`Archive`, `LocalWire`) and of namespaces (`PrefixScan`)
are finite; bytes and the length of keys are natural numbers; the modules of the supervisor have different names; dumps and keys are
sequences.

Only model-checked:

- liveness (`Respawned`, `CallsReturn`, `WorkersFreed`, `AllSettle`, `CallsEnd`), which is beyond the prover;
- `ExportReadsBack`, which needs induction over data: the parse of a printed dump;
- `Linearizable` and `Coherent` for three of the seven mixes of `MCHistory`: all updates beside one thread that asks for TTLs,
  writes to both tiers beside deletes, and writes and claims beside a reader. Each holds for
  a reason of its own: what one thread leaves between two tiers is what the other cannot tell apart.

## Not modelled

- Sessions and the network path: the handshake is not wired in. No code calls
  `create_session`, so the table stays empty and `decode_network` refuses every
  datagram.
- SELECTs that scan, `keys`, `inspect`, `status` and the like, which read and format. Of the
  analyser, the column that might be a TTL, which is a mark in the schema that
  nothing reads. A column named `pk` or texts with line breaks, which the export
  takes for something else.
- The opcodes of the router that no client sends: their streams, reads and writes have
  the steps of those that are modelled, and shutdown is the `Stop` of `SqliteBus`.
- The exchange of a `tric` command with the CLI, one datagram each way, without a timeout:
  `tric shutdown` gets no answer, as the server exits first.
- Metrics, a set of counters that only the status shows.
- The wrappers of the C client, which pass arguments and results through.
- Logger, health probe, shell, `slots` and benchmark, which keep no state that another
  part reads.

## Plan

What is left is to prove linearizability for the three mixes above, which asks for one more invariant each,
and the safety behind `CallsEnd`: only a failure to open a database poisons the lock. A handshake, once
the server has one, needs a module for sessions and the network path.
