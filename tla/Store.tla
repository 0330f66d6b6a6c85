------------------------------- MODULE Store --------------------------------
(***************************************************************************)
(* src/store.rs: the transient key-value store.  A store is a record of    *)
(* three maps kept in step by hand:                                        *)
(*   data    key -> value                                                  *)
(*   ttl     key -> the instant at which the key expires                   *)
(*   expiry  instant -> the vector of the keys that expire at it           *)
(* Each method of impl Store is an operator from the store before the call *)
(* to the store after it.  An unwrap() of the code is a function           *)
(* application outside its domain here; IndexConsistent of module Tric     *)
(* rules them out.                                                         *)
(***************************************************************************)
EXTENDS Integers, Sequences, Maps

CONSTANT None   \* Option::None

create_store == [data |-> EmptyMap, expiry |-> EmptyMap, ttl |-> EmptyMap]

\* The keys held by a Vec<Bytes>.
Elements(vec) == {vec[i] : i \in 1..Len(vec)}

\* Mutant: range(..now), the deadline itself still counts as alive.
delete_expired_entries_exclusive(s, now) ==
    LET due  == {i \in DOMAIN s.expiry : i < now}
        keys == UNION {Elements(s.expiry[i]) : i \in due}
    IN  [data   |-> RemoveAll(s.data, keys),
         expiry |-> RemoveAll(s.expiry, due),
         ttl    |-> RemoveAll(s.ttl, keys)]

\* The while loop removes the instants up to and including now, one after the
\* other; every pass is independent of the others, so the loop is one removal.
delete_expired_entries(s, now) ==
    LET due  == {i \in DOMAIN s.expiry : i <= now}
        keys == UNION {Elements(s.expiry[i]) : i \in due}
    IN  [data   |-> RemoveAll(s.data, keys),
         expiry |-> RemoveAll(s.expiry, due),
         ttl    |-> RemoveAll(s.ttl, keys)]

\* Iterator::position: the first index of key in vec.
position(vec, key) ==
    CHOOSE i \in 1..Len(vec) : vec[i] = key /\ \A j \in 1..(i - 1) : vec[j] # key

\* Vec::swap_remove: the last element takes the place of the removed one.
swap_remove(vec, index) ==
    [j \in 1..(Len(vec) - 1) |-> IF j = index THEN vec[Len(vec)] ELSE vec[j]]

\* Mutant: an emptied vector stays in the expiry map.
delete_ttl_keeps_slot(s, key) ==
    IF key \notin DOMAIN s.ttl
    THEN s
    ELSE LET instant == s.ttl[key]
             vec     == s.expiry[instant]
         IN  [data   |-> s.data,
              expiry |-> Insert(s.expiry, instant, swap_remove(vec, position(vec, key))),
              ttl    |-> Remove(s.ttl, key)]

delete_ttl(s, key) ==
    IF key \notin DOMAIN s.ttl
    THEN s
    ELSE LET instant == s.ttl[key]
             vec     == s.expiry[instant]
             rest    == swap_remove(vec, position(vec, key))
         IN  [data   |-> s.data,
              expiry |-> IF rest = << >>
                         THEN Remove(s.expiry, instant)
                         ELSE Insert(s.expiry, instant, rest),
              ttl    |-> Remove(s.ttl, key)]

\* ttl.insert(key, instant) and expiry.entry(instant).or_default().push(key).
push_ttl(s, key, instant) ==
    [data   |-> s.data,
     expiry |-> Insert(s.expiry, instant, Append(Get(s.expiry, instant, << >>), key)),
     ttl    |-> Insert(s.ttl, key, instant)]

read_value(s, key) == Get(s.data, key, None)

\* Mutant: a plain write forgets that the key may carry a TTL.
write_value_keeps_ttl(s, key, value) == [s EXCEPT !.data = Insert(@, key, value)]

write_value(s, key, value) ==
    [delete_ttl(s, key) EXCEPT !.data = Insert(@, key, value)]

delete_value(s, key) == [delete_ttl(s, key) EXCEPT !.data = Remove(@, key)]

write_ttl(s, key, instant) ==
    IF key \notin DOMAIN s.data THEN s ELSE push_ttl(delete_ttl(s, key), key, instant)

write_value_with_ttl(s, key, value, instant) ==
    push_ttl([delete_ttl(s, key) EXCEPT !.data = Insert(@, key, value)], key, instant)

\* The condition of delete_value_if_match, and what it returns.
matches(s, key, expected) == key \in DOMAIN s.data /\ s.data[key] = expected

delete_value_if_match(s, key, expected) ==
    IF matches(s, key, expected) THEN delete_value(s, key) ELSE s

\* Mutant: the two operands of checked_duration_since are swapped.
read_ttl_remaining_swapped(s, key, now) ==
    IF key \in DOMAIN s.ttl /\ s.ttl[key] >= now THEN now - s.ttl[key] ELSE None

\* checked_duration_since is None when the deadline already lies behind.
read_ttl_remaining(s, key, now) ==
    IF key \in DOMAIN s.ttl /\ s.ttl[key] >= now THEN s.ttl[key] - now ELSE None

\* A prefix stands for the set of the keys that start with it; that range()
\* with take_while() finds exactly those is checked in module PrefixScan.
find_by_prefix(s, prefix) == Keep(s.data, prefix)

=============================================================================
