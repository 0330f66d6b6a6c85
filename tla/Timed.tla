-------------------------------- MODULE Timed -------------------------------
(***************************************************************************)
(* What the transient store promises, as pure operators.  A timed map      *)
(* sends a key to an entry [value, deadline]; the deadline is an instant   *)
(* or Never.  A map never holds an entry whose deadline has come, so there *)
(* is no index, no purge and no difference between expired and absent.     *)
(***************************************************************************)
EXTENDS Integers, Maps

CONSTANT Never

ASSUME NeverAssumption == Never \notin Int

Entry(V) == [value : V, deadline : Nat \cup {Never}]

\* An entry is alive strictly before its deadline.
Alive(entry, now) == entry.deadline = Never \/ entry.deadline > now

\* What is left of m at instant now.
At(m, now) == Keep(m, {k \in DOMAIN m : Alive(m[k], now)})

\* m with the value stored for key, without a deadline.
Put(m, key, value) == Insert(m, key, [value |-> value, deadline |-> Never])

\* m with the value stored for key until the given deadline.
PutUntil(m, key, value, deadline) ==
    Insert(m, key, [value |-> value, deadline |-> deadline])

\* m with a deadline on key, if there is such a key.
SetDeadline(m, key, deadline) ==
    IF key \in DOMAIN m THEN PutUntil(m, key, m[key].value, deadline) ELSE m

\* The value of key, or none.
Look(m, key, none) == IF key \in DOMAIN m THEN m[key].value ELSE none

\* The time key has left at instant now, or none if it is absent or untimed.
Left(m, key, now, none) ==
    IF key \in DOMAIN m /\ m[key].deadline # Never THEN m[key].deadline - now ELSE none

\* Is the given value the one stored for key?
Holds(m, key, value) == key \in DOMAIN m /\ m[key].value = value

\* The values of the keys in the set prefix.
Values(m, prefix) == [k \in DOMAIN m \cap prefix |-> m[k].value]

=============================================================================
