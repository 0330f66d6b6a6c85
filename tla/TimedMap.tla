------------------------------ MODULE TimedMap ------------------------------
(***************************************************************************)
(* The specification of Tric: a map whose entries vanish by themselves at  *)
(* their deadline, with an atomic operation for every method of the public *)
(* interface.  Module Tric is shown to implement it.                       *)
(***************************************************************************)
EXTENDS Timed

CONSTANTS
    Key, Value,
    Durations,     \* the durations callers pass, zero included
    Prefixes,      \* prefixes callers search; a prefix is the set of its keys
    None,
    MaxInstant     \* bound: the last instant of the clock

VARIABLES
    entries,       \* the entries alive now
    now,
    reply          \* the last call: <<operation, result or timed key>>

vars == <<entries, now, reply>>

Init == entries = EmptyMap /\ now = 0 /\ reply = <<"create_tric">>

Tick ==
    /\ now < MaxInstant
    /\ now' = now + 1
    /\ entries' = At(entries, now + 1)
    /\ UNCHANGED reply

\* A call that leaves the map m behind and answers r.
Call(m, r) == entries' = At(m, now) /\ reply' = r /\ UNCHANGED now

ReadValue(k) == Call(entries, <<"read_value", Look(entries, k, None)>>)

WriteValue(k, v) == Call(Put(entries, k, v), <<"write_value">>)

DeleteValue(k) == Call(Remove(entries, k), <<"delete_value">>)

DeleteValueIfMatch(k, v) ==
    Call(IF Holds(entries, k, v) THEN Remove(entries, k) ELSE entries,
         <<"delete_value_if_match", Holds(entries, k, v)>>)

WriteTtl(k, d) == Call(SetDeadline(entries, k, now + d), <<"write_ttl", k>>)

WriteValueWithTtl(k, v, d) ==
    Call(PutUntil(entries, k, v, now + d), <<"write_value_with_ttl", k>>)

ReadTtlRemaining(k) ==
    Call(entries, <<"read_ttl_remaining", Left(entries, k, now, None)>>)

FindByPrefix(p) == Call(entries, <<"find_by_prefix", Values(entries, p)>>)

Next ==
    \/ Tick
    \/ \E k \in Key :
        \/ ReadValue(k)
        \/ DeleteValue(k)
        \/ ReadTtlRemaining(k)
        \/ \E v \in Value : WriteValue(k, v) \/ DeleteValueIfMatch(k, v)
        \/ \E d \in Durations : WriteTtl(k, d)
        \/ \E v \in Value, d \in Durations : WriteValueWithTtl(k, v, d)
    \/ \E p \in Prefixes : FindByPrefix(p)

Spec == Init /\ [][Next]_vars

=============================================================================
