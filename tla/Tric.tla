-------------------------------- MODULE Tric --------------------------------
(***************************************************************************)
(* src/lib.rs: the shared store.  Every method takes the write lock, reads *)
(* the clock, purges what has expired and then works on the Store, so a    *)
(* call is one atomic step whatever the number of threads that share the   *)
(* handle; what interleaves is the order of the calls and the clock.       *)
(***************************************************************************)
EXTENDS Store

CONSTANTS
    Key, Value,
    Durations,     \* the durations callers pass, zero included
    Prefixes,      \* prefixes callers search; a prefix is the set of its keys
    Never,         \* no deadline, for the refinement mapping
    MaxInstant     \* bound: the last instant of the clock

ASSUME DurationsAssumption == Durations \subseteq Nat
ASSUME PrefixesAssumption == Prefixes \subseteq SUBSET Key
ASSUME NeverIsNoInstant == Never \notin Int
ASSUME NoneIsNoInstant == None \notin Int

VARIABLES
    store,         \* the Store behind the lock
    now,           \* Instant::now()
    reply          \* the last call: <<operation, result or timed key>>

vars == <<store, now, reply>>

Init == store = create_store /\ now = 0 /\ reply = <<"create_tric">>

\* The monotonic clock moves on between two calls.
Tick ==
    /\ now < MaxInstant
    /\ now' = now + 1
    /\ UNCHANGED <<store, reply>>

\* The store as a method finds it once it holds the lock and has purged it.
Locked == delete_expired_entries(store, now)

\* A call that leaves the store s behind and answers r.
Call(s, r) == store' = s /\ reply' = r /\ UNCHANGED now

ReadValue(k) == Call(Locked, <<"read_value", read_value(Locked, k)>>)

WriteValue(k, v) == Call(write_value(Locked, k, v), <<"write_value">>)

DeleteValue(k) == Call(delete_value(Locked, k), <<"delete_value">>)

DeleteValueIfMatch(k, v) ==
    Call(delete_value_if_match(Locked, k, v),
         <<"delete_value_if_match", matches(Locked, k, v)>>)

WriteTtl(k, d) == Call(write_ttl(Locked, k, now + d), <<"write_ttl", k>>)

WriteValueWithTtl(k, v, d) ==
    Call(write_value_with_ttl(Locked, k, v, now + d), <<"write_value_with_ttl", k>>)

ReadTtlRemaining(k) ==
    Call(Locked, <<"read_ttl_remaining", read_ttl_remaining(Locked, k, now)>>)

FindByPrefix(p) == Call(Locked, <<"find_by_prefix", find_by_prefix(Locked, p)>>)

Next ==
    \/ Tick
    \/ \E k \in Key :
        \/ ReadValue(k)
        \/ DeleteValue(k)
        \/ ReadTtlRemaining(k)
        \/ \E v \in Value : WriteValue(k, v) \/ DeleteValueIfMatch(k, v)
        \/ \E d \in Durations : WriteTtl(k, d)
        \/ \E v \in Value, d \in Durations : WriteValueWithTtl(k, v, d)
    \/ \E p \in Prefixes : FindByPrefix(p)

Spec == Init /\ [][Next]_vars

-----------------------------------------------------------------------------

StoreType(s) ==
    /\ s = [data |-> s.data, expiry |-> s.expiry, ttl |-> s.ttl]
    /\ IsMap(s.data, Key, Value)
    /\ IsMap(s.expiry, Nat, Seq(Key))
    /\ IsMap(s.ttl, Key, Nat)

\* The three maps of struct Store hold keys, values and instants of the right
\* kind, and a remaining TTL is a duration (std::time::Duration has no sign).
TypeOK ==
    /\ now \in Nat
    /\ StoreType(store)
    /\ reply[1] = "read_ttl_remaining" => reply[2] \in Nat \cup {None}

\* Only keys that exist have a TTL.
TimedKeysExist(s) == DOMAIN s.ttl \subseteq DOMAIN s.data

\* A key with a TTL is in the vector of its instant: neither unwrap() of
\* delete_ttl can panic.
TimedKeysIndexed(s) ==
    \A k \in DOMAIN s.ttl :
        s.ttl[k] \in DOMAIN s.expiry /\ k \in Elements(s.expiry[s.ttl[k]])

\* A key in a vector has that vector's instant as its TTL: the purge never
\* deletes a key whose TTL was changed or cleared since.
IndexedKeysTimed(s) ==
    \A i \in DOMAIN s.expiry :
        \A k \in Elements(s.expiry[i]) : k \in DOMAIN s.ttl /\ s.ttl[k] = i

\* A vector holds a key once: removing the first occurrence removes it.
NoDuplicates(s) ==
    \A i \in DOMAIN s.expiry :
        \A a, b \in 1..Len(s.expiry[i]) : s.expiry[i][a] = s.expiry[i][b] => a = b

\* No empty vector is left behind (store.rs removes it), so the expiry map does
\* not grow with instants nobody waits for.
NoEmptySlots(s) == \A i \in DOMAIN s.expiry : s.expiry[i] # << >>

Consistent(s) ==
    /\ TimedKeysExist(s)
    /\ TimedKeysIndexed(s)
    /\ IndexedKeysTimed(s)
    /\ NoDuplicates(s)
    /\ NoEmptySlots(s)

\* The expiry index and the TTL map of struct Store describe the same
\* deadlines, after any sequence of calls and clock ticks.
IndexConsistent == Consistent(store)

\* Lazy expiry reclaims memory: any call of lib.rs leaves behind only keys that
\* are alive, and the one it has itself just given a deadline.
ExpiredEntriesReclaimed ==
    [][now' = now =>
         \A k \in DOMAIN store'.ttl :
             \/ store'.ttl[k] > now
             \/ reply'[1] \in {"write_ttl", "write_value_with_ttl"} /\ reply'[2] = k]_vars

-----------------------------------------------------------------------------

\* The refinement mapping: the entries of s alive at instant t, whether or not
\* a call has purged the others yet.
DeadlineOf(s, k) == IF k \in DOMAIN s.ttl THEN s.ttl[k] ELSE Never

LiveKeys(s, t) == {k \in DOMAIN s.data : DeadlineOf(s, k) = Never \/ DeadlineOf(s, k) > t}

LiveEntries(s, t) ==
    [k \in LiveKeys(s, t) |-> [value |-> s.data[k], deadline |-> DeadlineOf(s, k)]]

Abstract == INSTANCE TimedMap WITH entries <- LiveEntries(store, now)

\* Nobody can tell the lazily purged store of lib.rs from a map whose entries
\* vanish at their deadline: same replies, same entries, same deadlines.
ImplementsTimedMap == Abstract!Spec

=============================================================================
