---------------------------- MODULE PermutiveBus ----------------------------
(***************************************************************************)
(* src/core/permutive_bus.rs: the two-tier store that the worker threads   *)
(* of the server and the CLI share.  A key without a TTL belongs to the    *)
(* persistent tier (SQLite), a key with one to the transient tier (Tric);  *)
(* a persistent value that is read is copied to the transient tier for     *)
(* CachePromotion.  Each tier locks for one call at a time, nothing locks  *)
(* the two together: a step below is one call on one tier.                 *)
(*                                                                         *)
(* The transient tier is the timed map that module Tric implements.        *)
(***************************************************************************)
EXTENDS Timed, FiniteSets

CONSTANTS
    Worker,          \* threads that call the bus
    Key, Value,
    Registry,        \* the _instance: keys write_registry puts in the transient tier
    Active,          \* their value
    Durations,       \* TTLs that clients ask for, zero included
    CachePromotion,  \* CACHE_PROMOTION_SECONDS
    Prefixes,        \* a prefix is the set of the keys that start with it
    Calls,           \* <<worker, method, key or prefix>>: the calls that are made
    FaultyDisk,      \* may SQLite statements fail?
    MayCrash,        \* may the process die and be started again?
    None,
    MaxInstant       \* bound: the last instant of the clock

ASSUME RegistryAssumption == Registry \subseteq Key
ASSUME ActiveAssumption == Active \in Value
ASSUME DurationsAssumption == Durations \subseteq Nat
ASSUME CachePromotionAssumption == CachePromotion \in Nat
ASSUME PrefixesAssumption == Prefixes \subseteq SUBSET Key
ASSUME NoneAssumption == None \notin Key \cup Value \cup Int

VARIABLES
    transient,       \* the entries of the transient tier alive now
    persistent,      \* the rows of the persistent tier
    now,
    frame,           \* per worker: the call it is in, and where
    reply            \* per worker: what its last call returned

vars == <<transient, persistent, now, frame, reply>>

\* Where a worker is in a call, and what the call was given or has read so far.
Frame(pc, key, value, ttl, hit) ==
    [pc |-> pc, key |-> key, value |-> value, ttl |-> ttl, hit |-> hit]

\* The frame of a worker that is in no call.
Idle == Frame("idle", None, None, None, FALSE)

\* What create_permutive_bus finds in its new transient tier: write_registry.
RegistryEntries == [k \in Registry |-> [value |-> Active, deadline |-> Never]]

Init ==
    /\ transient = RegistryEntries
    /\ persistent = EmptyMap
    /\ now = 0
    /\ frame = [w \in Worker |-> Idle]
    /\ reply = [w \in Worker |-> None]

-----------------------------------------------------------------------------
\* How a step moves its worker, and what it does to a tier.

In(w, pc) == frame[w].pc = pc

\* The call continues with a value it has read, with the fact of a match, or
\* with what it had.
GotoWith(w, pc, value, hit) ==
    /\ frame' = [frame EXCEPT ![w] = Frame(pc, frame[w].key, value, frame[w].ttl, hit)]
    /\ UNCHANGED reply

Goto(w, pc) == GotoWith(w, pc, frame[w].value, frame[w].hit)

Return(w, r) ==
    frame' = [frame EXCEPT ![w] = Idle] /\ reply' = [reply EXCEPT ![w] = r]

Transient(m) == transient' = At(m, now) /\ UNCHANGED <<persistent, now>>

\* A statement of sqlite_bus.rs: its error, if any, is dropped (let _ = ...).
Persistent(rows) ==
    /\ persistent' \in {rows} \cup (IF FaultyDisk THEN {persistent} ELSE {})
    /\ UNCHANGED <<transient, now>>

OnlyReads == UNCHANGED <<transient, persistent, now>>

\* What a SELECT may see: a row it fails on counts as missing (.ok(), flatten()).
Selected ==
    IF FaultyDisk THEN {Keep(persistent, K) : K \in SUBSET DOMAIN persistent} ELSE {persistent}

-----------------------------------------------------------------------------
\* A worker starts a call.

Invoke(w, call, pc, k, v, d) ==
    /\ In(w, "idle")
    /\ <<w, call, k>> \in Calls
    /\ frame' = [frame EXCEPT ![w] = Frame(pc, k, v, d, FALSE)]
    /\ reply' = [reply EXCEPT ![w] = None]
    /\ OnlyReads

InvokeRead(w, k) == Invoke(w, "read_value", "read_transient", k, None, None)
InvokeWrite(w, k, v) == Invoke(w, "write_value", "write_persistent", k, v, None)
InvokeDelete(w, k) == Invoke(w, "delete_value", "delete_transient", k, None, None)
InvokeClaim(w, k, v) == Invoke(w, "delete_value_if_match", "match_transient", k, v, None)
InvokeWriteTtl(w, k, d) == Invoke(w, "write_ttl", "ttl_read", k, None, d)
InvokeWriteTimed(w, k, v, d) == Invoke(w, "write_value_with_ttl", "timed_clear", k, v, d)
InvokeReadTtl(w, k) == Invoke(w, "read_ttl_remaining", "remaining", k, None, None)
InvokeFind(w, p) == Invoke(w, "find_by_prefix", "find_transient", p, None, None)

-----------------------------------------------------------------------------
\* read_value

ReadTransient(w) ==
    /\ In(w, "read_transient")
    /\ OnlyReads
    /\ LET v == Look(transient, frame[w].key, None)
       IN  IF v # None THEN Return(w, v) ELSE Goto(w, "read_persistent")

\* Mutant: a missing row is promoted like a value.
ReadPersistent_unchecked(w) ==
    /\ In(w, "read_persistent")
    /\ OnlyReads
    /\ \E rows \in Selected : GotoWith(w, "promote", Get(rows, frame[w].key, None), FALSE)

ReadPersistent(w) ==
    /\ In(w, "read_persistent")
    /\ OnlyReads
    /\ \E rows \in Selected :
          LET v == Get(rows, frame[w].key, None)
          IN  IF v = None THEN Return(w, None) ELSE GotoWith(w, "promote", v, FALSE)

Promote(w) ==
    /\ In(w, "promote")
    /\ Transient(Put(transient, frame[w].key, frame[w].value))
    /\ Goto(w, "stamp")

\* Mutant: the promoted copy gets no TTL.
Stamp_forgotten(w) ==
    /\ In(w, "stamp")
    /\ OnlyReads
    /\ Return(w, frame[w].value)

Stamp(w) ==
    /\ In(w, "stamp")
    /\ Transient(SetDeadline(transient, frame[w].key, now + CachePromotion))
    /\ Return(w, frame[w].value)

-----------------------------------------------------------------------------
\* write_value

WritePersistent(w) ==
    /\ In(w, "write_persistent")
    /\ Persistent(Insert(persistent, frame[w].key, frame[w].value))
    /\ Goto(w, "invalidate")

\* Mutant: the cached copy is left in place.
Invalidate_forgotten(w) ==
    /\ In(w, "invalidate")
    /\ OnlyReads
    /\ Return(w, None)

Invalidate(w) ==
    /\ In(w, "invalidate")
    /\ Transient(Remove(transient, frame[w].key))
    /\ Return(w, None)

-----------------------------------------------------------------------------
\* delete_value

DeleteTransient(w) ==
    /\ In(w, "delete_transient")
    /\ Transient(Remove(transient, frame[w].key))
    /\ Goto(w, "delete_persistent")

DeletePersistent(w) ==
    /\ In(w, "delete_persistent")
    /\ Persistent(Remove(persistent, frame[w].key))
    /\ Return(w, None)

-----------------------------------------------------------------------------
\* delete_value_if_match: both tiers are tried, whatever the first one says.

MatchTransient(w) ==
    /\ In(w, "match_transient")
    /\ LET f == frame[w]
           m == Holds(transient, f.key, f.value)
       IN  /\ Transient(IF m THEN Remove(transient, f.key) ELSE transient)
           /\ GotoWith(w, "match_persistent", f.value, m)

\* Mutant: the row is compared and reported but not deleted.
MatchPersistent_kept(w) ==
    /\ In(w, "match_persistent")
    /\ OnlyReads
    /\ \E rows \in Selected :
          Return(w, frame[w].hit \/ Get(rows, frame[w].key, None) = frame[w].value)

MatchPersistent(w) ==
    /\ In(w, "match_persistent")
    /\ \E rows \in Selected :
          LET f == frame[w]
              m == Get(rows, f.key, None) = f.value
          IN  /\ Persistent(IF m THEN Remove(persistent, f.key) ELSE persistent)
              /\ Return(w, f.hit \/ m)

-----------------------------------------------------------------------------
\* write_ttl: a persistent value moves to the transient tier.

TtlRead(w) ==
    /\ In(w, "ttl_read")
    /\ OnlyReads
    /\ \E rows \in Selected :
          LET v == Get(rows, frame[w].key, None)
          IN  IF v = None THEN Goto(w, "ttl_set") ELSE GotoWith(w, "ttl_delete", v, FALSE)

TtlDelete(w) ==
    /\ In(w, "ttl_delete")
    /\ Persistent(Remove(persistent, frame[w].key))
    /\ Goto(w, "ttl_move")

TtlMove(w) ==
    /\ In(w, "ttl_move")
    /\ Transient(Put(transient, frame[w].key, frame[w].value))
    /\ Goto(w, "ttl_set")

TtlSet(w) ==
    /\ In(w, "ttl_set")
    /\ Transient(SetDeadline(transient, frame[w].key, now + frame[w].ttl))
    /\ Return(w, None)

-----------------------------------------------------------------------------
\* write_value_with_ttl

\* Mutant: the row that the timed value replaces is left in place.
TimedClear_skipped(w) ==
    /\ In(w, "timed_clear")
    /\ OnlyReads
    /\ Goto(w, "timed_write")

TimedClear(w) ==
    /\ In(w, "timed_clear")
    /\ Persistent(Remove(persistent, frame[w].key))
    /\ Goto(w, "timed_write")

TimedWrite(w) ==
    /\ In(w, "timed_write")
    /\ Transient(PutUntil(transient, frame[w].key, frame[w].value, now + frame[w].ttl))
    /\ Return(w, None)

-----------------------------------------------------------------------------
\* read_ttl_remaining asks the transient tier alone.

ReadTtlRemaining(w) ==
    /\ In(w, "remaining")
    /\ OnlyReads
    /\ Return(w, Left(transient, frame[w].key, now, None))

\* find_by_prefix: the two scans are merged, the transient tier winning.  The
\* key of the frame is the prefix, its value the first scan's result.

FindTransient(w) ==
    /\ In(w, "find_transient")
    /\ OnlyReads
    /\ GotoWith(w, "find_persistent", Values(transient, frame[w].key), FALSE)

FindPersistent(w) ==
    /\ In(w, "find_persistent")
    /\ OnlyReads
    /\ \E rows \in Selected :
          LET found == Keep(rows, frame[w].key)
              hits == frame[w].value
          IN  Return(w, [k \in DOMAIN found \cup DOMAIN hits |-> Get(hits, k, Get(found, k, None))])

-----------------------------------------------------------------------------

Tick ==
    /\ now < MaxInstant
    /\ now' = now + 1
    /\ transient' = At(transient, now + 1)
    /\ UNCHANGED <<persistent, frame, reply>>

\* The process dies, or a shutdown command exits it, and it is started again:
\* SQLite keeps the committed rows, the transient tier starts from the registry.
Crash ==
    /\ MayCrash
    /\ transient' = RegistryEntries
    /\ frame' = [w \in Worker |-> Idle]
    /\ reply' = [w \in Worker |-> None]
    /\ UNCHANGED <<persistent, now>>

\* A worker takes the next step of the call it is in.
Step(w) ==
    \/ ReadTransient(w) \/ ReadPersistent(w) \/ Promote(w) \/ Stamp(w)
    \/ WritePersistent(w) \/ Invalidate(w)
    \/ DeleteTransient(w) \/ DeletePersistent(w)
    \/ MatchTransient(w) \/ MatchPersistent(w)
    \/ TtlRead(w) \/ TtlDelete(w) \/ TtlMove(w) \/ TtlSet(w)
    \/ TimedClear(w) \/ TimedWrite(w)
    \/ ReadTtlRemaining(w)
    \/ FindTransient(w) \/ FindPersistent(w)

\* A worker starts a call that can change a tier...
InvokeUpdate(w, k) ==
    \/ \E v \in Value : InvokeWrite(w, k, v) \/ InvokeClaim(w, k, v)
    \/ InvokeDelete(w, k)
    \/ \E d \in Durations : InvokeWriteTtl(w, k, d)
    \/ \E v \in Value, d \in Durations : InvokeWriteTimed(w, k, v, d)

\* ... or one that asks (read_value changes the transient tier, not the value).
InvokeQuery(w) ==
    \/ \E k \in Key : InvokeRead(w, k) \/ InvokeReadTtl(w, k)
    \/ \E p \in Prefixes : InvokeFind(w, p)

Next ==
    \/ Tick
    \/ Crash
    \/ \E w \in Worker : Step(w) \/ InvokeQuery(w) \/ \E k \in Key : InvokeUpdate(w, k)

Spec == Init /\ [][Next]_vars

-----------------------------------------------------------------------------

\* The steps of calls on one key; those that need a value; those that need a
\* duration; the steps of a scan.
OnKey == {"read_transient", "read_persistent", "promote", "stamp", "write_persistent",
          "invalidate", "delete_transient", "delete_persistent", "match_transient",
          "match_persistent", "ttl_read", "ttl_delete", "ttl_move", "ttl_set",
          "timed_clear", "timed_write", "remaining"}

WithValue == {"promote", "stamp", "write_persistent", "invalidate", "match_transient",
              "match_persistent", "ttl_delete", "ttl_move", "timed_clear", "timed_write"}

WithTtl == {"ttl_read", "ttl_delete", "ttl_move", "ttl_set", "timed_clear", "timed_write"}

Scanning == {"find_transient", "find_persistent"}

Scans == UNION {[S -> Value] : S \in SUBSET Key}

Frames ==
    [pc : OnKey \cup Scanning \cup {"idle"}, key : Key \cup Prefixes \cup {None},
     value : Value \cup Scans \cup {None}, ttl : Nat \cup {None}, hit : BOOLEAN]

FrameOK(f) ==
    /\ f.pc \in OnKey => f.key \in Key
    /\ f.pc \in WithValue => f.value \in Value
    /\ f.pc \in WithTtl => f.ttl \in Nat
    /\ f.pc \in Scanning => f.key \in Prefixes
    /\ f.pc = "find_persistent" => f.value \in Scans

\* The tiers hold keys, values and deadlines; a call of permutive_bus.rs holds
\* the key, the value and the duration its next step needs.
TypeOK ==
    /\ now \in Nat
    /\ IsMap(transient, Key, Entry(Value))
    /\ IsMap(persistent, Key, Value)
    /\ frame \in [Worker -> Frames]
    /\ \A w \in Worker : FrameOK(frame[w])
    /\ DOMAIN reply = Worker

\* Some worker is between storing key k without a TTL and giving it one.
BeingStamped(k) == \E w \in Worker : frame[w].pc \in {"stamp", "ttl_set"} /\ frame[w].key = k

\* The copy a read or a write_ttl puts in the transient tier without a deadline
\* is never forgotten there: an untimed copy would shadow the row forever.
NoImmortalCopy ==
    \A k \in DOMAIN transient :
        transient[k].deadline = Never => k \in Registry \/ BeingStamped(k)

=============================================================================
