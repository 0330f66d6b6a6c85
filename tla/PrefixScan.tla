----------------------------- MODULE PrefixScan -----------------------------
(***************************************************************************)
(* find_by_prefix on keys that are byte strings: the BTreeMap range of     *)
(* store.rs, the filtered table scan of sqlite_bus.rs and the merge of     *)
(* permutive_bus.rs.  The other modules take a prefix for the set of the   *)
(* keys that start with it and a result for a map; this one checks that    *)
(* the code computes just that, and in what order.                         *)
(*                                                                         *)
(* A row is a pair <<key, value>>, a Vec of rows is a sequence.            *)
(***************************************************************************)
EXTENDS Integers, Sequences, FiniteSets, SequencesExt

CONSTANTS
    Bytes,       \* a small alphabet 0..n: its last byte has no successor
    MaxLen,      \* bound: the longest key and prefix
    MaxRows,     \* bound: the keys of a tier
    Namespaces,  \* the databases of the persistent tier
    FromTransient, FromPersistent   \* values that tell where a row comes from

ASSUME BytesAssumption == Bytes \subseteq Nat /\ MaxLen \in Nat
ASSUME NamespacesAssumption == IsFiniteSet(Namespaces)

Strings == BoundedSeq(Bytes, MaxLen)

starts_with(key, prefix) ==
    /\ Len(prefix) <= Len(key)
    /\ \A i \in 1..Len(prefix) : key[i] = prefix[i]

\* The order of Bytes: where they first differ, a has the smaller byte or has ended.
Before(a, b) ==
    \E i \in 1..Len(b) :
        /\ \A j \in 1..i-1 : j <= Len(a) /\ a[j] = b[j]
        /\ i > Len(a) \/ a[i] < b[i]

RowBefore(r, q) == Before(r[1], q[1])

\* The members of a finite set, listed in the order that the pairs in less give.
InOrder(S, less) ==
    [p \in 1..Cardinality(S) |->
        CHOOSE x \in S : Cardinality({y \in S : <<y, x>> \in less}) = p - 1]

\* The rows of a map in the order of their keys.
RowsOf(m) ==
    LET keys == InOrder(DOMAIN m, {e \in (DOMAIN m) \X (DOMAIN m) : Before(e[1], e[2])})
    IN  [p \in 1..Cardinality(DOMAIN m) |-> <<keys[p], m[keys[p]]>>]

\* Those of the rows that are at the given places.
RowsAt(rows, places) ==
    LET place == InOrder(places, {e \in places \X places : e[1] < e[2]})
    IN  [p \in 1..Cardinality(places) |-> rows[place[p]]]

\* slice::sort_by on the key, which keeps rows with equal keys in their order.
SortByKey(rows) ==
    LET ahead == {e \in (1..Len(rows)) \X (1..Len(rows)) :
                    \/ RowBefore(rows[e[1]], rows[e[2]])
                    \/ rows[e[1]][1] = rows[e[2]][1] /\ e[1] < e[2]}
        place == InOrder(1..Len(rows), ahead)
    IN  [p \in 1..Len(rows) |-> rows[place[p]]]

\* BTreeMap::range(start..)
range(data, start) == RowsOf([k \in {x \in DOMAIN data : ~Before(x, start)} |-> data[k]])

\* Iterator::take_while: up to the first row that does not start with the prefix.
take_while(rows, prefix) ==
    [i \in {n \in 1..Len(rows) : \A j \in 1..n : starts_with(rows[j][1], prefix)} |-> rows[i]]

\* Mutant: the range leaves out its lower bound.
transient_find_exclusive(data, prefix) ==
    take_while(RowsOf([k \in {x \in DOMAIN data : Before(prefix, x)} |-> data[k]]), prefix)

\* store.rs: data.range(prefix..).take_while(starts_with)
transient_find(data, prefix) == take_while(range(data, prefix), prefix)

\* sqlite_bus.rs: the rows of every database, which is read in key order and filtered,
\* one database after the other in the order of the HashMap.  Row <<i, k>> is that of
\* key k in the i-th database.
Pushed(databases, order, prefix) ==
    LET found   == {h \in (1..Len(order)) \X UNION {DOMAIN databases[n] : n \in Namespaces} :
                      h[2] \in DOMAIN databases[order[h[1]]] /\ starts_with(h[2], prefix)}
        earlier == {e \in found \X found :
                      \/ e[1][1] < e[2][1]
                      \/ e[1][1] = e[2][1] /\ Before(e[1][2], e[2][2])}
        hits    == InOrder(found, earlier)
    IN  [p \in 1..Cardinality(found) |-> <<hits[p][2], databases[order[hits[p][1]]][hits[p][2]]>>]

\* Mutant: the rows stay in the order of the databases.
persistent_find_unsorted(databases, order, prefix) == Pushed(databases, order, prefix)

\* results.sort_by
persistent_find(databases, order, prefix) == SortByKey(Pushed(databases, order, prefix))

\* Mutant: the row of a key that is in both tiers is listed twice.
merge_duplicates(hits, rows) == SortByKey(hits \o rows)

\* permutive_bus.rs: rows whose key the transient tier has are dropped.
merge(hits, rows) ==
    LET keys == {hits[i][1] : i \in 1..Len(hits)}
    IN  SortByKey(hits \o RowsAt(rows, {i \in 1..Len(rows) : rows[i][1] \notin keys}))

-----------------------------------------------------------------------------
\* One scan of two tiers with any content.

VARIABLES
    transient,   \* the transient tier: key -> FromTransient
    databases,   \* per namespace, key -> FromPersistent; a key has one namespace
    prefix,
    result       \* the rows found by permutive_bus.rs and by its two tiers

vars == <<transient, databases, prefix, result>>

\* Where a key is kept.
Home(k) == IF Len(k) > 0 /\ k[1] = 0 THEN 1 ELSE 2

Nothing == [all |-> << >>, transient |-> << >>, persistent |-> << >>, done |-> FALSE]

Init ==
    /\ \E T, P \in {S \in SUBSET Strings : IsFiniteSet(S) /\ Cardinality(S) <= MaxRows} :
         /\ transient = [k \in T |-> FromTransient]
         /\ databases = [n \in Namespaces |-> [k \in {x \in P : Home(x) = n} |-> FromPersistent]]
    /\ prefix \in Strings
    /\ result = Nothing

FindByPrefix ==
    /\ ~result.done
    /\ \E order \in SetToSeqs(Namespaces) :
         LET hits == transient_find(transient, prefix)
             rows == persistent_find(databases, order, prefix)
         IN  result' = [all |-> merge(hits, rows), transient |-> hits,
                        persistent |-> rows, done |-> TRUE]
    /\ UNCHANGED <<transient, databases, prefix>>

Spec == Init /\ [][FindByPrefix]_vars

-----------------------------------------------------------------------------

\* The rows of map m whose key starts with the prefix, ascending, each key once.
IsScanOf(rows, m) ==
    /\ \A i \in 1..(Len(rows) - 1) : RowBefore(rows[i], rows[i + 1])
    /\ {rows[i] : i \in 1..Len(rows)} = {<<k, m[k]>> : k \in {x \in DOMAIN m : starts_with(x, prefix)}}

Persisted == [k \in UNION {DOMAIN databases[n] : n \in Namespaces} |-> FromPersistent]

\* Both tiers as one map, in which the transient one hides the other.
OneMap ==
    [k \in DOMAIN transient \cup DOMAIN Persisted |->
        IF k \in DOMAIN transient THEN transient[k] ELSE Persisted[k]]

\* store.rs: starting the range at the prefix and stopping at the first key that
\* does not match misses no key, not even the prefix itself, and lists no other.
RangeIsExact == result.done => IsScanOf(result.transient, transient)

\* sqlite_bus.rs: the result does not depend on the order of the databases.
DatabasesInOrder == result.done => IsScanOf(result.persistent, Persisted)

\* permutive_bus.rs: both tiers are listed in one order, each key once, with the
\* transient tier's value if it has one.
MergeIsExact == result.done => IsScanOf(result.all, OneMap)

=============================================================================
