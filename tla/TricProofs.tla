----------------------------- MODULE TricProofs -----------------------------
(***************************************************************************)
(* Proofs about Tric for any set of keys, values, durations and prefixes   *)
(* and any end of the clock.                                               *)
(***************************************************************************)
EXTENDS Tric, TLAPS

Good(s) == StoreType(s) /\ Consistent(s)

\* The purge removes whole instants together with exactly their keys.
LEMMA PurgeGood ==
    ASSUME NEW s, Good(s), NEW t \in Nat
    PROVE  Good(delete_expired_entries(s, t))
<1> DEFINE due == {i \in DOMAIN s.expiry : i <= t}
           keys == UNION {Elements(s.expiry[i]) : i \in due}
           r == delete_expired_entries(s, t)
<1>1. r = [data |-> RemoveAll(s.data, keys), expiry |-> RemoveAll(s.expiry, due),
           ttl |-> RemoveAll(s.ttl, keys)]
  BY DEF delete_expired_entries
<1> HIDE DEF r
<1>2. StoreType(r)
  BY <1>1 DEF Good, StoreType, IsMap, RemoveAll
<1>3. TimedKeysExist(r)
  BY <1>1 DEF Good, StoreType, IsMap, RemoveAll, Consistent, TimedKeysExist
<1>4. TimedKeysIndexed(r)
  <2> SUFFICES ASSUME NEW k \in DOMAIN r.ttl
               PROVE  r.ttl[k] \in DOMAIN r.expiry /\ k \in Elements(r.expiry[r.ttl[k]])
    BY DEF TimedKeysIndexed
  <2>1. k \in DOMAIN s.ttl /\ k \notin keys /\ r.ttl[k] = s.ttl[k]
    BY <1>1 DEF RemoveAll
  <2>2. s.ttl[k] \in DOMAIN s.expiry /\ k \in Elements(s.expiry[s.ttl[k]])
    BY <2>1 DEF Good, Consistent, TimedKeysIndexed
  <2>3. s.ttl[k] \notin due
    BY <2>1, <2>2
  <2> QED
    BY <1>1, <2>1, <2>2, <2>3 DEF RemoveAll
<1>5. IndexedKeysTimed(r)
  <2> SUFFICES ASSUME NEW i \in DOMAIN r.expiry, NEW k \in Elements(r.expiry[i])
               PROVE  k \in DOMAIN r.ttl /\ r.ttl[k] = i
    BY DEF IndexedKeysTimed
  <2>1. i \in DOMAIN s.expiry /\ i \notin due /\ r.expiry[i] = s.expiry[i]
    BY <1>1 DEF RemoveAll
  <2>2. k \in DOMAIN s.ttl /\ s.ttl[k] = i
    BY <2>1 DEF Good, Consistent, IndexedKeysTimed
  <2>3. k \notin keys
    BY <2>1, <2>2 DEF Good, Consistent, IndexedKeysTimed
  <2> QED
    BY <1>1, <2>2, <2>3 DEF RemoveAll
<1>6. NoDuplicates(r) /\ NoEmptySlots(r)
  BY <1>1 DEF Good, Consistent, NoDuplicates, NoEmptySlots, RemoveAll
<1> QED
  BY <1>2, <1>3, <1>4, <1>5, <1>6 DEF Good, Consistent, r

\* With k in the vector of its instant exactly once, swap_remove takes out k and
\* nothing else: what is left is a duplicate-free vector of the other keys.
LEMMA SwapRemove ==
    ASSUME NEW K, NEW vec \in Seq(K), NEW k \in Elements(vec),
           \A a, b \in 1..Len(vec) : vec[a] = vec[b] => a = b
    PROVE  LET rest == swap_remove(vec, position(vec, k))
           IN  /\ rest \in Seq(K)
               /\ Elements(rest) = Elements(vec) \ {k}
               /\ \A a, b \in 1..Len(rest) : rest[a] = rest[b] => a = b
<1> DEFINE p == position(vec, k)
           n == Len(vec)
           rest == swap_remove(vec, p)
<1>1. PICK i \in 1..n : vec[i] = k
  BY DEF Elements
<1>2. i = p
  <2>1. vec[i] = k /\ \A j \in 1..(i - 1) : vec[j] # k
    BY <1>1
  <2>2. p \in 1..n /\ vec[p] = k
    BY <2>1 DEF position
  <2> QED
    BY <1>1, <2>2
<1>3. n \in Nat /\ n >= 1 /\ p \in 1..n /\ vec[p] = k
  BY <1>1, <1>2
<1> HIDE DEF p, n
<1>4. rest = [j \in 1..(n - 1) |-> IF j = p THEN vec[n] ELSE vec[j]]
  BY DEF swap_remove, n
<1>5. rest \in Seq(K) /\ Len(rest) = n - 1
  <2>1. \A j \in 1..n : vec[j] \in K
    BY DEF n
  <2>2. rest \in [1..(n - 1) -> K]
    BY <1>3, <1>4, <2>1
  <2> QED
    BY <1>3, <1>4, <2>2
<1> HIDE DEF rest
<1>6. \A a, b \in 1..Len(rest) : rest[a] = rest[b] => a = b
  <2> SUFFICES ASSUME NEW a \in 1..(n - 1), NEW b \in 1..(n - 1), rest[a] = rest[b]
               PROVE  a = b
    BY <1>5
  <2>1. \A x, y \in 1..n : vec[x] = vec[y] => x = y
    BY DEF n
  <2> QED
    BY <1>3, <1>4, <2>1
<1>7. Elements(rest) = Elements(vec) \ {k}
  <2>1. \A x, y \in 1..n : vec[x] = vec[y] => x = y
    BY DEF n
  <2>2. ASSUME NEW e \in Elements(rest)
        PROVE  e \in Elements(vec) /\ e # k
    <3>1. PICK j \in 1..(n - 1) : e = rest[j]
      BY <1>5, <2>2 DEF Elements
    <3>2. CASE j = p
      BY <1>3, <1>4, <2>1, <3>1, <3>2 DEF Elements, n
    <3>3. CASE j # p
      BY <1>3, <1>4, <2>1, <3>1, <3>3 DEF Elements, n
    <3> QED
      BY <3>2, <3>3
  <2>3. ASSUME NEW e \in Elements(vec), e # k
        PROVE  e \in Elements(rest)
    <3>1. PICK j \in 1..n : e = vec[j]
      BY <2>3 DEF Elements, n
    <3>2. j # p
      BY <1>3, <2>3, <3>1
    <3>3. CASE j = n
      BY <1>3, <1>4, <1>5, <3>1, <3>2, <3>3 DEF Elements
    <3>4. CASE j # n
      <4>1. j \in 1..(n - 1) /\ rest[j] = vec[j]
        BY <1>3, <1>4, <3>1, <3>2, <3>4
      <4> QED
        BY <1>5, <3>1, <4>1 DEF Elements
    <3> QED
      BY <3>3, <3>4
  <2> QED
    BY <2>2, <2>3
<1> QED
  BY <1>5, <1>6, <1>7 DEF rest, p

\* delete_ttl takes the key out of both indexes and disturbs no other key.
LEMMA DeleteTtlGood ==
    ASSUME NEW s, Good(s), NEW k \in Key
    PROVE  /\ Good(delete_ttl(s, k))
           /\ delete_ttl(s, k).data = s.data
           /\ delete_ttl(s, k).ttl = Remove(s.ttl, k)
<1> DEFINE r == delete_ttl(s, k)
<1>1. CASE k \notin DOMAIN s.ttl
  BY <1>1 DEF delete_ttl, Remove, RemoveAll, Good, StoreType, IsMap
<1>2. CASE k \in DOMAIN s.ttl
  <2> DEFINE i == s.ttl[k]
             vec == s.expiry[i]
             rest == swap_remove(vec, position(vec, k))
             left == IF rest = << >> THEN Remove(s.expiry, i) ELSE Insert(s.expiry, i, rest)
  <2>1. i \in Nat /\ i \in DOMAIN s.expiry /\ k \in Elements(vec) /\ vec \in Seq(Key)
    BY <1>2 DEF Good, StoreType, IsMap, Consistent, TimedKeysIndexed
  <2>2. /\ rest \in Seq(Key)
        /\ Elements(rest) = Elements(vec) \ {k}
        /\ \A a, b \in 1..Len(rest) : rest[a] = rest[b] => a = b
    <3>1. \A a, b \in 1..Len(vec) : vec[a] = vec[b] => a = b
      BY <2>1 DEF Good, Consistent, NoDuplicates
    <3> HIDE DEF vec
    <3> QED
      BY <2>1, <3>1, SwapRemove
  <2>3. r = [data |-> s.data, expiry |-> left, ttl |-> Remove(s.ttl, k)]
    BY <1>2 DEF delete_ttl, Good, StoreType
  <2>4. /\ DOMAIN r.ttl = DOMAIN s.ttl \ {k}
        /\ \A x \in DOMAIN r.ttl : r.ttl[x] = s.ttl[x]
    BY <2>3 DEF Remove, RemoveAll
  <2>5. /\ DOMAIN r.expiry = IF rest = << >> THEN DOMAIN s.expiry \ {i} ELSE DOMAIN s.expiry
        /\ \A j \in DOMAIN r.expiry : r.expiry[j] = IF j = i THEN rest ELSE s.expiry[j]
    <3> HIDE DEF r, rest
    <3>1. CASE rest = << >>
      BY <2>1, <2>3, <3>1 DEF Remove, RemoveAll
    <3>2. CASE rest # << >>
      BY <2>1, <2>3, <3>2 DEF Insert
    <3> QED
      BY <3>1, <3>2
  <2>6. StoreType(r)
    <3> HIDE DEF r, rest, left
    <3>1. IsMap(r.expiry, Nat, Seq(Key))
      <4>1. DOMAIN r.expiry \subseteq Nat
        BY <2>5 DEF Good, StoreType, IsMap
      <4>2. \A j \in DOMAIN r.expiry : r.expiry[j] \in Seq(Key)
        BY <2>2, <2>5 DEF Good, StoreType, IsMap
      <4>3. r.expiry = [j \in DOMAIN r.expiry |-> r.expiry[j]]
        <5>1. CASE rest = << >>
          BY <2>3, <5>1 DEF left, Remove, RemoveAll
        <5>2. CASE rest # << >>
          BY <2>3, <5>2 DEF left, Insert
        <5> QED
          BY <5>1, <5>2
      <4> QED
        BY <4>1, <4>2, <4>3 DEF IsMap
    <3> QED
      BY <2>3, <3>1 DEF Good, StoreType, IsMap, Remove, RemoveAll
  <2> HIDE DEF r, rest, left
  <2>7. TimedKeysExist(r)
    BY <2>3, <2>4 DEF Good, Consistent, TimedKeysExist
  <2>8. TimedKeysIndexed(r)
    <3> SUFFICES ASSUME NEW x \in DOMAIN r.ttl
                 PROVE  r.ttl[x] \in DOMAIN r.expiry /\ x \in Elements(r.expiry[r.ttl[x]])
      BY DEF TimedKeysIndexed
    <3>1. x \in DOMAIN s.ttl /\ x # k /\ r.ttl[x] = s.ttl[x]
      BY <2>4
    <3>2. s.ttl[x] \in DOMAIN s.expiry /\ x \in Elements(s.expiry[s.ttl[x]])
      BY <3>1 DEF Good, Consistent, TimedKeysIndexed
    <3>3. CASE s.ttl[x] = i
      <4>1. x \in Elements(rest)
        BY <2>2, <3>1, <3>2, <3>3
      <4>2. rest # << >>
        BY <4>1 DEF Elements
      <4> QED
        BY <2>5, <3>1, <3>2, <3>3, <4>1, <4>2
    <3>4. CASE s.ttl[x] # i
      BY <2>5, <3>1, <3>2, <3>4
    <3> QED
      BY <3>3, <3>4
  <2>9. IndexedKeysTimed(r)
    <3> SUFFICES ASSUME NEW j \in DOMAIN r.expiry, NEW x \in Elements(r.expiry[j])
                 PROVE  x \in DOMAIN r.ttl /\ r.ttl[x] = j
      BY DEF IndexedKeysTimed
    <3>1. x \in Elements(s.expiry[j]) /\ j \in DOMAIN s.expiry /\ x # k
      <4>1. CASE j = i
        BY <2>1, <2>2, <2>5, <4>1
      <4>2. CASE j # i
        BY <2>5, <4>2 DEF Good, Consistent, IndexedKeysTimed
      <4> QED
        BY <4>1, <4>2
    <3> QED
      BY <2>4, <3>1 DEF Good, Consistent, IndexedKeysTimed
  <2>10. NoDuplicates(r)
    BY <2>2, <2>5 DEF Good, Consistent, NoDuplicates
  <2>11. NoEmptySlots(r)
    BY <2>5 DEF Good, Consistent, NoEmptySlots
  <2> QED
    BY <2>3, <2>6, <2>7, <2>8, <2>9, <2>10, <2>11 DEF Good, Consistent, r
<1> QED
  BY <1>1, <1>2

\* Giving an untimed key a deadline appends it to the vector of that instant.
LEMMA PushTtlGood ==
    ASSUME NEW s, Good(s), NEW k \in DOMAIN s.data, k \notin DOMAIN s.ttl, NEW i \in Nat
    PROVE  Good(push_ttl(s, k, i))
<1> DEFINE r == push_ttl(s, k, i)
           old == Get(s.expiry, i, << >>)
           vec == Append(old, k)
<1>1. k \in Key
  BY DEF Good, StoreType, IsMap
<1>2. old \in Seq(Key)
  BY DEF Good, StoreType, IsMap, Get
<1>3. r = [data |-> s.data, expiry |-> Insert(s.expiry, i, vec), ttl |-> Insert(s.ttl, k, i)]
  BY DEF push_ttl, Good, StoreType
<1>4. /\ vec \in Seq(Key) /\ vec # << >>
      /\ Len(vec) = Len(old) + 1 /\ vec[Len(old) + 1] = k
      /\ \A a \in 1..Len(old) : vec[a] = old[a]
      /\ Elements(vec) = Elements(old) \cup {k}
  BY <1>1, <1>2 DEF Elements
<1>5. /\ DOMAIN r.ttl = DOMAIN s.ttl \cup {k}
      /\ \A x \in DOMAIN r.ttl : r.ttl[x] = IF x = k THEN i ELSE s.ttl[x]
      /\ DOMAIN r.expiry = DOMAIN s.expiry \cup {i}
      /\ \A j \in DOMAIN r.expiry : r.expiry[j] = IF j = i THEN vec ELSE s.expiry[j]
  BY <1>3 DEF Insert
<1>6. \A x \in Elements(old) : x \in DOMAIN s.ttl /\ s.ttl[x] = i
  BY DEF Good, Consistent, IndexedKeysTimed, Get, Elements
<1>7. StoreType(r)
  <2> HIDE DEF vec
  <2> QED
    BY <1>1, <1>3, <1>4 DEF Good, StoreType, IsMap, Insert
<1> HIDE DEF r, vec
<1>8. TimedKeysExist(r)
  BY <1>3, <1>5 DEF Good, Consistent, TimedKeysExist
<1>9. TimedKeysIndexed(r)
  <2> SUFFICES ASSUME NEW x \in DOMAIN r.ttl
               PROVE  r.ttl[x] \in DOMAIN r.expiry /\ x \in Elements(r.expiry[r.ttl[x]])
    BY DEF TimedKeysIndexed
  <2>1. CASE x = k
    BY <1>4, <1>5, <2>1
  <2>2. CASE x # k
    BY <1>4, <1>5, <2>2 DEF Good, Consistent, TimedKeysIndexed, Get
  <2> QED
    BY <2>1, <2>2
<1>10. IndexedKeysTimed(r)
  <2> SUFFICES ASSUME NEW j \in DOMAIN r.expiry, NEW x \in Elements(r.expiry[j])
               PROVE  x \in DOMAIN r.ttl /\ r.ttl[x] = j
    BY DEF IndexedKeysTimed
  <2>1. CASE j = i
    BY <1>4, <1>5, <1>6, <2>1
  <2>2. CASE j # i
    BY <1>5, <2>2 DEF Good, Consistent, IndexedKeysTimed
  <2> QED
    BY <2>1, <2>2
<1>11. NoDuplicates(r)
  <2> SUFFICES ASSUME NEW j \in DOMAIN r.expiry,
                      NEW a \in 1..Len(r.expiry[j]), NEW b \in 1..Len(r.expiry[j]),
                      r.expiry[j][a] = r.expiry[j][b]
               PROVE  a = b
    BY DEF NoDuplicates
  <2>1. CASE j = i
    <3>1. k \notin Elements(old)
      BY <1>6
    <3>2. \A c \in 1..Len(old) : old[c] # k
      BY <3>1 DEF Elements
    <3>3. \A c, d \in 1..Len(old) : old[c] = old[d] => c = d
      BY DEF Good, Consistent, NoDuplicates, Get
    <3>4. Len(old) \in Nat /\ r.expiry[j] = vec
      BY <1>2, <1>5, <2>1
    <3> HIDE DEF old
    <3> QED
      BY <1>4, <3>2, <3>3, <3>4
  <2>2. CASE j # i
    BY <1>5, <2>2 DEF Good, Consistent, NoDuplicates
  <2> QED
    BY <2>1, <2>2
<1>12. NoEmptySlots(r)
  BY <1>4, <1>5 DEF Good, Consistent, NoEmptySlots
<1> QED
  BY <1>7, <1>8, <1>9, <1>10, <1>11, <1>12 DEF Good, Consistent, r

\* A plain write keeps the store consistent.
LEMMA WriteValueGood ==
    ASSUME NEW s, Good(s), NEW k \in Key, NEW v \in Value
    PROVE  /\ Good(write_value(s, k, v))
           /\ write_value(s, k, v).data = Insert(s.data, k, v)
           /\ write_value(s, k, v).ttl = Remove(s.ttl, k)
<1> DEFINE d == delete_ttl(s, k)
           r == write_value(s, k, v)
<1>1. Good(d) /\ d.data = s.data /\ d.ttl = Remove(s.ttl, k)
  BY DeleteTtlGood
<1>2. r = [data |-> Insert(s.data, k, v), expiry |-> d.expiry, ttl |-> d.ttl]
  BY <1>1 DEF write_value, Good, StoreType
<1> HIDE DEF r, d
<1>3. StoreType(r)
  BY <1>1, <1>2 DEF Good, StoreType, IsMap, Insert
<1>4. Consistent(r)
  BY <1>1, <1>2 DEF Good, Consistent, TimedKeysExist, TimedKeysIndexed, IndexedKeysTimed,
                    NoDuplicates, NoEmptySlots, Insert
<1> QED
  BY <1>1, <1>2, <1>3, <1>4 DEF Good, r

\* A delete keeps the store consistent.
LEMMA DeleteValueGood ==
    ASSUME NEW s, Good(s), NEW k \in Key
    PROVE  /\ Good(delete_value(s, k))
           /\ delete_value(s, k).data = Remove(s.data, k)
           /\ delete_value(s, k).ttl = Remove(s.ttl, k)
<1> DEFINE d == delete_ttl(s, k)
           r == delete_value(s, k)
<1>1. Good(d) /\ d.data = s.data /\ d.ttl = Remove(s.ttl, k)
  BY DeleteTtlGood
<1>2. r = [data |-> Remove(s.data, k), expiry |-> d.expiry, ttl |-> d.ttl]
  BY <1>1 DEF delete_value, Good, StoreType
<1> HIDE DEF r, d
<1>3. StoreType(r)
  BY <1>1, <1>2 DEF Good, StoreType, IsMap, Remove, RemoveAll
<1>4. TimedKeysExist(r)
  BY <1>1, <1>2 DEF Good, Consistent, TimedKeysExist, Remove, RemoveAll
<1>5. Consistent(r)
  BY <1>1, <1>2, <1>4 DEF Good, Consistent, TimedKeysIndexed, IndexedKeysTimed,
                          NoDuplicates, NoEmptySlots
<1> QED
  BY <1>1, <1>2, <1>3, <1>5 DEF Good, r

\* Setting a TTL keeps the store consistent, and does nothing to a missing key.
LEMMA WriteTtlGood ==
    ASSUME NEW s, Good(s), NEW k \in Key, NEW i \in Nat
    PROVE  /\ Good(write_ttl(s, k, i))
           /\ write_ttl(s, k, i).data = s.data
           /\ write_ttl(s, k, i).ttl =
                IF k \in DOMAIN s.data THEN Insert(Remove(s.ttl, k), k, i) ELSE s.ttl
<1> DEFINE d == delete_ttl(s, k)
<1>1. Good(d) /\ d.data = s.data /\ d.ttl = Remove(s.ttl, k) /\ k \notin DOMAIN d.ttl
  BY DeleteTtlGood DEF Remove, RemoveAll
<1>2. CASE k \in DOMAIN s.data
  <2>1. write_ttl(s, k, i) = push_ttl(d, k, i)
    BY <1>2 DEF write_ttl
  <2>2. push_ttl(d, k, i).data = d.data /\ push_ttl(d, k, i).ttl = Insert(d.ttl, k, i)
    BY DEF push_ttl
  <2> HIDE DEF d
  <2> QED
    BY <1>1, <1>2, <2>1, <2>2, PushTtlGood
<1>3. CASE k \notin DOMAIN s.data
  BY <1>3 DEF write_ttl
<1> QED
  BY <1>2, <1>3

\* A write with a TTL keeps the store consistent.
LEMMA WriteValueWithTtlGood ==
    ASSUME NEW s, Good(s), NEW k \in Key, NEW v \in Value, NEW i \in Nat
    PROVE  /\ Good(write_value_with_ttl(s, k, v, i))
           /\ write_value_with_ttl(s, k, v, i).data = Insert(s.data, k, v)
           /\ write_value_with_ttl(s, k, v, i).ttl = Insert(Remove(s.ttl, k), k, i)
<1> DEFINE w == write_value(s, k, v)
<1>1. /\ Good(w) /\ w.data = Insert(s.data, k, v) /\ w.ttl = Remove(s.ttl, k)
      /\ k \notin DOMAIN w.ttl /\ k \in DOMAIN w.data
  BY WriteValueGood DEF Remove, RemoveAll, Insert
<1>2. write_value_with_ttl(s, k, v, i) = push_ttl(w, k, i)
  BY DEF write_value_with_ttl, write_value
<1>3. push_ttl(w, k, i).data = w.data /\ push_ttl(w, k, i).ttl = Insert(w.ttl, k, i)
  BY DEF push_ttl
<1> HIDE DEF w
<1> QED
  BY <1>1, <1>2, <1>3, PushTtlGood

\* So does a delete that compares first.
LEMMA DeleteValueIfMatchGood ==
    ASSUME NEW s, Good(s), NEW k \in Key, NEW v
    PROVE  Good(delete_value_if_match(s, k, v))
BY DeleteValueGood DEF delete_value_if_match

\* A remaining TTL is None or a natural number.
LEMMA RemainingIsDuration ==
    ASSUME NEW s, Good(s), NEW k, NEW t \in Nat
    PROVE  read_ttl_remaining(s, k, t) \in Nat \cup {None}
BY DEF read_ttl_remaining, Good, StoreType, IsMap

-----------------------------------------------------------------------------

\* The inductive invariant: the two invariants of Tric need each other, since
\* delete_ttl is only defined on a consistent index.
Inv == TypeOK /\ IndexConsistent

\* The empty store is consistent.
LEMMA InitInv == Init => Inv
<1> SUFFICES ASSUME Init PROVE Inv
  OBVIOUS
<1>1. store.data = EmptyMap /\ store.expiry = EmptyMap /\ store.ttl = EmptyMap
  BY DEF Init, create_store
<1>2. DOMAIN EmptyMap = {}
  BY DEF EmptyMap
<1>3. TypeOK
  BY <1>1, <1>2 DEF Init, create_store, TypeOK, StoreType, IsMap, EmptyMap
<1>4. IndexConsistent
  BY <1>1, <1>2 DEF IndexConsistent, Consistent, TimedKeysExist, TimedKeysIndexed,
                    IndexedKeysTimed, NoDuplicates, NoEmptySlots
<1> QED
  BY <1>3, <1>4 DEF Inv

\* Every call, and the clock, keep the store consistent.
LEMMA NextInv == Inv /\ [Next]_vars => Inv'
<1> SUFFICES ASSUME Inv, [Next]_vars PROVE Inv'
  OBVIOUS
<1>1. now \in Nat /\ Good(store)
  BY DEF Inv, TypeOK, IndexConsistent, Good
<1>2. Good(Locked)
  BY <1>1, PurgeGood DEF Locked
<1>3. ASSUME NEW s, Good(s), NEW r, Call(s, r),
             r[1] = "read_ttl_remaining" => r[2] \in Nat \cup {None}
      PROVE  Inv'
  BY <1>1, <1>3 DEF Call, Inv, TypeOK, IndexConsistent, Good
<1>4. CASE Tick
  BY <1>1, <1>4 DEF Tick, Inv, TypeOK, IndexConsistent
<1>5. ASSUME NEW k \in Key, ReadValue(k)
      PROVE  Inv'
  BY <1>2, <1>3, <1>5 DEF ReadValue
<1>6. ASSUME NEW k \in Key, DeleteValue(k)
      PROVE  Inv'
  BY <1>2, <1>3, <1>6, DeleteValueGood DEF DeleteValue
<1>7. ASSUME NEW k \in Key, ReadTtlRemaining(k)
      PROVE  Inv'
  BY <1>1, <1>2, <1>3, <1>7, RemainingIsDuration DEF ReadTtlRemaining
<1>8. ASSUME NEW k \in Key, NEW v \in Value, WriteValue(k, v)
      PROVE  Inv'
  BY <1>2, <1>3, <1>8, WriteValueGood DEF WriteValue
<1>9. ASSUME NEW k \in Key, NEW v \in Value, DeleteValueIfMatch(k, v)
      PROVE  Inv'
  BY <1>2, <1>3, <1>9, DeleteValueIfMatchGood DEF DeleteValueIfMatch
<1>10. ASSUME NEW k \in Key, NEW d \in Durations, WriteTtl(k, d)
       PROVE  Inv'
  <2>1. now + d \in Nat
    BY <1>1, DurationsAssumption
  <2> QED
    BY <1>2, <1>3, <1>10, <2>1, WriteTtlGood DEF WriteTtl
<1>11. ASSUME NEW k \in Key, NEW v \in Value, NEW d \in Durations, WriteValueWithTtl(k, v, d)
       PROVE  Inv'
  <2>1. now + d \in Nat
    BY <1>1, DurationsAssumption
  <2> QED
    BY <1>2, <1>3, <1>11, <2>1, WriteValueWithTtlGood DEF WriteValueWithTtl
<1>12. ASSUME NEW p \in Prefixes, FindByPrefix(p)
       PROVE  Inv'
  BY <1>2, <1>3, <1>12 DEF FindByPrefix
<1>13. CASE UNCHANGED vars
  BY <1>13 DEF vars, Inv, TypeOK, IndexConsistent
<1> QED
  BY <1>4, <1>5, <1>6, <1>7, <1>8, <1>9, <1>10, <1>11, <1>12, <1>13 DEF Next

\* The store keeps its types, whatever the calls and their order.
THEOREM TypeCorrect == Spec => []TypeOK
<1>1. Inv => TypeOK
  BY DEF Inv
<1> QED
  BY InitInv, NextInv, <1>1, PTL DEF Spec

\* TTL map and expiry index agree at all times: no unwrap() of store.rs can
\* panic, no purge deletes a key whose TTL was cleared or moved.
THEOREM IndexAlwaysConsistent == Spec => []IndexConsistent
<1>1. Inv => IndexConsistent
  BY DEF Inv
<1> QED
  BY InitInv, NextInv, <1>1, PTL DEF Spec

-----------------------------------------------------------------------------

\* The purge removes exactly the keys that are past their deadline.
LEMMA PurgeEffect ==
    ASSUME NEW s, Good(s), NEW t \in Nat
    PROVE  LET p == delete_expired_entries(s, t)
           IN  /\ p.data = Keep(s.data, LiveKeys(s, t))
               /\ \A k \in DOMAIN p.ttl : p.ttl[k] > t
               /\ \A k \in DOMAIN p.data : DeadlineOf(p, k) = DeadlineOf(s, k)
<1> DEFINE due == {i \in DOMAIN s.expiry : i <= t}
           keys == UNION {Elements(s.expiry[i]) : i \in due}
           p == delete_expired_entries(s, t)
<1>1. p = [data |-> RemoveAll(s.data, keys), expiry |-> RemoveAll(s.expiry, due),
           ttl |-> RemoveAll(s.ttl, keys)]
  BY DEF delete_expired_entries
<1>2. ASSUME NEW k
      PROVE  k \in keys <=> k \in DOMAIN s.ttl /\ s.ttl[k] <= t
  <2>1. ASSUME k \in keys
        PROVE  k \in DOMAIN s.ttl /\ s.ttl[k] <= t
    <3>1. PICK i \in due : k \in Elements(s.expiry[i])
      BY <2>1
    <3> QED
      BY <3>1 DEF Good, Consistent, IndexedKeysTimed
  <2>2. ASSUME k \in DOMAIN s.ttl, s.ttl[k] <= t
        PROVE  k \in keys
    <3>1. s.ttl[k] \in due /\ k \in Elements(s.expiry[s.ttl[k]])
      BY <2>2 DEF Good, Consistent, TimedKeysIndexed
    <3> QED
      BY <3>1
  <2> QED
    BY <2>1, <2>2
<1> HIDE DEF keys, p
<1>3. \A k \in DOMAIN s.ttl : s.ttl[k] \in Nat /\ s.ttl[k] # Never
  BY NeverIsNoInstant DEF Good, StoreType, IsMap
<1>4. LiveKeys(s, t) = DOMAIN s.data \ keys
  BY <1>2, <1>3 DEF LiveKeys, DeadlineOf
<1>5. p.data = Keep(s.data, LiveKeys(s, t))
  <2>1. DOMAIN s.data \cap LiveKeys(s, t) = DOMAIN s.data \ keys
    BY <1>4
  <2> QED
    BY <1>1, <2>1 DEF Keep, RemoveAll
<1>6. \A k \in DOMAIN p.ttl : p.ttl[k] > t
  BY <1>1, <1>2, <1>3 DEF RemoveAll
<1>7. \A k \in DOMAIN p.data : DeadlineOf(p, k) = DeadlineOf(s, k)
  BY <1>1 DEF DeadlineOf, RemoveAll
<1> QED
  BY <1>5, <1>6, <1>7 DEF p

\* No call leaves an expired key behind, except one it has itself just given
\* a deadline that is already due.
LEMMA NextReclaims ==
    Inv /\ [Next]_vars =>
      [now' = now =>
         \A k \in DOMAIN store'.ttl :
             \/ store'.ttl[k] > now
             \/ reply'[1] \in {"write_ttl", "write_value_with_ttl"} /\ reply'[2] = k]_vars
<1> SUFFICES ASSUME Inv, Next, now' = now, NEW k \in DOMAIN store'.ttl
             PROVE  \/ store'.ttl[k] > now
                    \/ reply'[1] \in {"write_ttl", "write_value_with_ttl"} /\ reply'[2] = k
  BY DEF vars
<1>1. now \in Nat /\ Good(store)
  BY DEF Inv, TypeOK, IndexConsistent, Good
<1>2. Good(Locked) /\ \A x \in DOMAIN Locked.ttl : Locked.ttl[x] > now
  BY <1>1, PurgeGood, PurgeEffect DEF Locked
<1> DEFINE Goal == \/ store'.ttl[k] > now
                   \/ reply'[1] \in {"write_ttl", "write_value_with_ttl"} /\ reply'[2] = k
<1>3. CASE Tick
  BY <1>1, <1>3 DEF Tick
<1>4. ASSUME NEW x \in Key, ReadValue(x) \/ ReadTtlRemaining(x)
      PROVE  Goal
  BY <1>2, <1>4 DEF ReadValue, ReadTtlRemaining, Call
<1>5. ASSUME NEW x, store'.ttl = Remove(Locked.ttl, x)
      PROVE  Goal
  BY <1>2, <1>5 DEF Remove, RemoveAll
<1>6. ASSUME NEW x \in Key, DeleteValue(x)
      PROVE  Goal
  <2>1. store'.ttl = Remove(Locked.ttl, x)
    BY <1>2, <1>6, DeleteValueGood DEF DeleteValue, Call
  <2> QED
    BY <1>5, <2>1
<1>7. ASSUME NEW x \in Key, NEW v \in Value, WriteValue(x, v)
      PROVE  Goal
  <2>1. store'.ttl = Remove(Locked.ttl, x)
    BY <1>2, <1>7, WriteValueGood DEF WriteValue, Call
  <2> QED
    BY <1>5, <2>1
<1>8. ASSUME NEW x \in Key, NEW v \in Value, DeleteValueIfMatch(x, v)
      PROVE  Goal
  <2>1. store'.ttl = Locked.ttl \/ store'.ttl = Remove(Locked.ttl, x)
    BY <1>2, <1>8, DeleteValueGood DEF DeleteValueIfMatch, delete_value_if_match, Call
  <2>2. CASE store'.ttl = Locked.ttl
    BY <1>2, <2>2
  <2> QED
    BY <1>5, <2>1, <2>2
<1>10. ASSUME NEW x \in Key, NEW d \in Durations, WriteTtl(x, d)
       PROVE  Goal
  <2>1. now + d \in Nat
    BY <1>1, DurationsAssumption
  <2>2. \/ store'.ttl = Insert(Remove(Locked.ttl, x), x, now + d)
        \/ store'.ttl = Locked.ttl
    BY <1>2, <1>10, <2>1, WriteTtlGood DEF WriteTtl, Call
  <2>3. reply' = <<"write_ttl", x>>
    BY <1>10 DEF WriteTtl, Call
  <2>4. CASE k = x
    BY <2>3, <2>4
  <2>5. CASE k # x
    <3>1. CASE store'.ttl = Insert(Remove(Locked.ttl, x), x, now + d)
      BY <1>2, <2>5, <3>1 DEF Insert, Remove, RemoveAll
    <3>2. CASE store'.ttl = Locked.ttl
      BY <1>2, <3>2
    <3> QED
      BY <2>2, <3>1, <3>2
  <2> QED
    BY <2>4, <2>5
<1>11. ASSUME NEW x \in Key, NEW v \in Value, NEW d \in Durations, WriteValueWithTtl(x, v, d)
       PROVE  Goal
  <2>1. now + d \in Nat
    BY <1>1, DurationsAssumption
  <2>2. store'.ttl = Insert(Remove(Locked.ttl, x), x, now + d)
    BY <1>2, <1>11, <2>1, WriteValueWithTtlGood DEF WriteValueWithTtl, Call
  <2>3. reply' = <<"write_value_with_ttl", x>>
    BY <1>11 DEF WriteValueWithTtl, Call
  <2>4. CASE k = x
    BY <2>3, <2>4
  <2>5. CASE k # x
    BY <1>2, <2>2, <2>5 DEF Insert, Remove, RemoveAll
  <2> QED
    BY <2>4, <2>5
<1>9. ASSUME NEW p \in Prefixes, FindByPrefix(p)
      PROVE  Goal
  BY <1>2, <1>9 DEF FindByPrefix, Call
<1> QED
  BY <1>3, <1>4, <1>6, <1>7, <1>8, <1>9, <1>10, <1>11 DEF Next

\* Lazy expiry reclaims: memory of expired keys is bounded by the next call.
THEOREM Reclaimed == Spec => ExpiredEntriesReclaimed
<1> QED
  BY InitInv, NextInv, NextReclaims, PTL DEF Spec, ExpiredEntriesReclaimed

-----------------------------------------------------------------------------

\* m lists every key of r with its value and deadline, expired or not.
Lists(m, r) ==
    m = [k \in DOMAIN r.data |-> [value |-> r.data[k], deadline |-> DeadlineOf(r, k)]]

\* Reading such a list.
LEMMA ListedEntry ==
    ASSUME NEW m, NEW r, Lists(m, r)
    PROVE  /\ DOMAIN m = DOMAIN r.data
           /\ \A k \in DOMAIN r.data : m[k].value = r.data[k] /\ m[k].deadline = DeadlineOf(r, k)
BY DEF Lists

\* Dropping the dead entries of such a list gives the refinement mapping.
LEMMA ListedView ==
    ASSUME NEW r, NEW t, NEW m, Lists(m, r)
    PROVE  LiveEntries(r, t) = Abstract!At(m, t)
<1>1. DOMAIN m = DOMAIN r.data
  BY DEF Lists
<1>2. DOMAIN m \cap {k \in DOMAIN m : Abstract!Alive(m[k], t)} = LiveKeys(r, t)
  BY <1>1, ListedEntry DEF LiveKeys, Abstract!Alive
<1>3. \A k \in LiveKeys(r, t) : m[k] = [value |-> r.data[k], deadline |-> DeadlineOf(r, k)]
  BY DEF Lists, LiveKeys
<1> QED
  BY <1>2, <1>3 DEF LiveEntries, Abstract!At, Abstract!Keep

\* A purged store shows all its keys, and the same entries as before the purge.
LEMMA PurgedView ==
    ASSUME NEW s, Good(s), NEW t \in Nat
    PROVE  LET p == delete_expired_entries(s, t)
           IN  /\ Lists(LiveEntries(s, t), p)
               /\ DOMAIN LiveEntries(s, t) = DOMAIN p.data
               /\ \A k \in DOMAIN p.ttl : p.ttl[k] > t /\ p.ttl[k] \in Nat
               /\ LiveEntries(s, t) = Abstract!At(LiveEntries(s, t), t)
<1> DEFINE p == delete_expired_entries(s, t)
           E == LiveEntries(s, t)
<1>1. /\ p.data = Keep(s.data, LiveKeys(s, t))
      /\ \A k \in DOMAIN p.ttl : p.ttl[k] > t
      /\ \A k \in DOMAIN p.data : DeadlineOf(p, k) = DeadlineOf(s, k)
  BY PurgeEffect
<1>2. Good(p)
  BY PurgeGood
<1> HIDE DEF p
<1>3. DOMAIN p.data = LiveKeys(s, t)
  BY <1>1 DEF Keep, LiveKeys
<1>4. Lists(E, p)
  BY <1>1, <1>3 DEF Lists, LiveEntries, Keep
<1>5. \A k \in DOMAIN p.ttl : p.ttl[k] > t /\ p.ttl[k] \in Nat
  BY <1>1, <1>2 DEF Good, StoreType, IsMap
<1>6. E = Abstract!At(E, t)
  <2>1. \A k \in DOMAIN E : Abstract!Alive(E[k], t)
    BY DEF LiveEntries, LiveKeys, Abstract!Alive
  <2>2. DOMAIN E \cap {k \in DOMAIN E : Abstract!Alive(E[k], t)} = DOMAIN E
    BY <2>1
  <2>3. E = [k \in DOMAIN E |-> E[k]]
    BY DEF LiveEntries
  <2> QED
    BY <2>2, <2>3 DEF Abstract!At, Abstract!Keep
<1> QED
  BY <1>3, <1>4, <1>5, <1>6 DEF p, LiveEntries

\* Every call of lib.rs is the call of the same name on the timed map.
LEMMA NextRefines == Inv /\ Next => Abstract!Next
<1> SUFFICES ASSUME Inv, Next PROVE Abstract!Next
  OBVIOUS
<1> DEFINE E == LiveEntries(store, now)
           L == Locked
<1>1. now \in Nat /\ Good(store)
  BY DEF Inv, TypeOK, IndexConsistent, Good
<1>2. /\ Good(L)
      /\ Lists(E, L)
      /\ DOMAIN E = DOMAIN L.data
      /\ \A k \in DOMAIN L.ttl : L.ttl[k] > now /\ L.ttl[k] \in Nat
      /\ E = Abstract!At(E, now)
  BY <1>1, PurgeGood, PurgedView DEF Locked
<1>3. (LiveEntries(store, now))' = LiveEntries(store', now')
  OBVIOUS
<1> HIDE DEF E, L
<1>e. \A k \in DOMAIN L.data :
        /\ E[k].value = L.data[k]
        /\ E[k].deadline = DeadlineOf(L, k)
        /\ E[k] = [value |-> L.data[k], deadline |-> DeadlineOf(L, k)]
  BY <1>2, ListedEntry DEF Lists
<1>d. ASSUME NEW k \in Key
      PROVE  Lists(Abstract!Remove(E, k), delete_value(L, k))
  <2> DEFINE w == delete_value(L, k)
  <2>1. w.data = Remove(L.data, k) /\ w.ttl = Remove(L.ttl, k)
    BY <1>2, DeleteValueGood
  <2> HIDE DEF w
  <2>2. Abstract!Remove(E, k) = [x \in DOMAIN L.data \ {k} |-> E[x]]
    BY <1>2 DEF Abstract!Remove, Abstract!RemoveAll
  <2>3. DOMAIN w.data = DOMAIN L.data \ {k}
    BY <2>1 DEF Remove, RemoveAll
  <2>4. \A x \in DOMAIN w.data : E[x] = [value |-> w.data[x], deadline |-> DeadlineOf(w, x)]
    BY <1>e, <2>1, <2>3 DEF Remove, RemoveAll, DeadlineOf
  <2>5. Lists(Abstract!Remove(E, k), w)
    BY <2>2, <2>3, <2>4 DEF Lists
  <2> QED
    BY <2>5 DEF w
<1>w. ASSUME NEW k \in Key, NEW v, NEW i \in Nat, NEW w,
             w.data = Insert(L.data, k, v), w.ttl = Insert(Remove(L.ttl, k), k, i)
      PROVE  Lists(Abstract!PutUntil(E, k, v, i), w)
  <2> DEFINE f == [x \in DOMAIN L.data \cup {k} |->
                    IF x = k THEN [value |-> v, deadline |-> i] ELSE E[x]]
  <2>1. Abstract!PutUntil(E, k, v, i) = f
    BY <1>2 DEF Abstract!PutUntil, Abstract!Insert
  <2>2. DOMAIN w.data = DOMAIN L.data \cup {k}
    BY <1>w DEF Insert
  <2>3. \A x \in DOMAIN w.data : f[x] = [value |-> w.data[x], deadline |-> DeadlineOf(w, x)]
    <3> SUFFICES ASSUME NEW x \in DOMAIN w.data
                 PROVE  f[x] = [value |-> w.data[x], deadline |-> DeadlineOf(w, x)]
      OBVIOUS
    <3>1. CASE x = k
      BY <1>w, <2>2, <3>1 DEF Insert, DeadlineOf
    <3>2. CASE x # k
      BY <1>e, <1>w, <2>2, <3>2 DEF Insert, Remove, RemoveAll, DeadlineOf
    <3> QED
      BY <3>1, <3>2
  <2> QED
    BY <2>1, <2>2, <2>3 DEF Lists
<1>4. ASSUME NEW r, NEW m, store' = r, now' = now, Lists(m, r)
      PROVE  (LiveEntries(store, now))' = Abstract!At(m, now)
  BY <1>3, <1>4, ListedView
<1>5. CASE Tick
  <2>1. LiveEntries(store, now + 1) = Abstract!At(E, now + 1)
    <3>1. \A k \in DOMAIN store.ttl : store.ttl[k] \in Nat /\ store.ttl[k] # Never
      BY <1>1, NeverIsNoInstant DEF Good, StoreType, IsMap
    <3>2. \A k \in LiveKeys(store, now) :
            Abstract!Alive(E[k], now + 1) <=> k \in LiveKeys(store, now + 1)
      BY DEF E, LiveEntries, LiveKeys, Abstract!Alive
    <3>3. LiveKeys(store, now + 1) \subseteq LiveKeys(store, now)
      BY <1>1, <3>1 DEF LiveKeys, DeadlineOf
    <3>4. DOMAIN E = LiveKeys(store, now)
      BY DEF E, LiveEntries
    <3>5. DOMAIN E \cap {k \in DOMAIN E : Abstract!Alive(E[k], now + 1)} = LiveKeys(store, now + 1)
      BY <3>2, <3>3, <3>4
    <3>6. \A k \in LiveKeys(store, now + 1) :
            E[k] = [value |-> store.data[k], deadline |-> DeadlineOf(store, k)]
      BY <3>3 DEF E, LiveEntries
    <3> QED
      BY <3>5, <3>6 DEF LiveEntries, Abstract!At, Abstract!Keep
  <2>2. Abstract!Tick
    BY <1>3, <1>5, <2>1 DEF Tick, Abstract!Tick, E
  <2> QED
    BY <2>2 DEF Abstract!Next
<1>6. ASSUME NEW r, Call(L, r)
      PROVE  Abstract!Call(E, r)
  BY <1>2, <1>4, <1>6 DEF Call, Abstract!Call, E
<1>7. ASSUME NEW k \in Key, ReadValue(k)
      PROVE  Abstract!Next
  <2>1. read_value(L, k) = Abstract!Look(E, k, None)
    BY <1>2, <1>e DEF read_value, Get, Abstract!Look
  <2>2. Abstract!ReadValue(k)
    BY <1>6, <1>7, <2>1 DEF ReadValue, Abstract!ReadValue, E, L
  <2> QED
    BY <2>2 DEF Abstract!Next
<1>8. ASSUME NEW k \in Key, ReadTtlRemaining(k)
      PROVE  Abstract!Next
  <2>1. read_ttl_remaining(L, k, now) = Abstract!Left(E, k, now, None)
    <3>1. CASE k \in DOMAIN L.ttl
      <4>1. k \in DOMAIN L.data /\ E[k].deadline = L.ttl[k] /\ L.ttl[k] \in Nat /\ L.ttl[k] > now
        BY <1>2, <1>e, <3>1 DEF DeadlineOf, Good, Consistent, TimedKeysExist
      <4> QED
        BY <1>1, <1>2, <3>1, <4>1, NeverIsNoInstant DEF read_ttl_remaining, Abstract!Left
    <3>2. CASE k \notin DOMAIN L.ttl
      BY <1>2, <1>e, <3>2 DEF read_ttl_remaining, Abstract!Left, DeadlineOf
    <3> QED
      BY <3>1, <3>2
  <2>2. Abstract!ReadTtlRemaining(k)
    BY <1>6, <1>8, <2>1 DEF ReadTtlRemaining, Abstract!ReadTtlRemaining, E, L
  <2> QED
    BY <2>2 DEF Abstract!Next
<1>9. ASSUME NEW p \in Prefixes, FindByPrefix(p)
      PROVE  Abstract!Next
  <2>1. find_by_prefix(L, p) = Abstract!Values(E, p)
    BY <1>2, <1>e DEF find_by_prefix, Keep, Abstract!Values
  <2>2. Abstract!FindByPrefix(p)
    BY <1>6, <1>9, <2>1 DEF FindByPrefix, Abstract!FindByPrefix, E, L
  <2> QED
    BY <2>2 DEF Abstract!Next
<1>10. ASSUME NEW k \in Key, DeleteValue(k)
       PROVE  Abstract!Next
  <2>1. Lists(Abstract!Remove(E, k), delete_value(L, k))
    BY <1>d
  <2>2. Abstract!DeleteValue(k)
    BY <1>4, <1>10, <2>1 DEF DeleteValue, Call, Abstract!DeleteValue, Abstract!Call, E, L
  <2> QED
    BY <2>2 DEF Abstract!Next
<1>11. ASSUME NEW k \in Key, NEW v \in Value, WriteValue(k, v)
       PROVE  Abstract!Next
  <2>1. Lists(Abstract!Put(E, k, v), write_value(L, k, v))
    <3> DEFINE w == write_value(L, k, v)
               f == [x \in DOMAIN L.data \cup {k} |->
                      IF x = k THEN [value |-> v, deadline |-> Never] ELSE E[x]]
    <3>1. w.data = Insert(L.data, k, v) /\ w.ttl = Remove(L.ttl, k)
      BY <1>2, WriteValueGood
    <3> HIDE DEF w
    <3>2. Abstract!Put(E, k, v) = f
      BY <1>2 DEF Abstract!Put, Abstract!Insert
    <3>3. DOMAIN w.data = DOMAIN L.data \cup {k}
      BY <3>1 DEF Insert
    <3>4. ASSUME NEW x \in DOMAIN w.data
          PROVE  f[x] = [value |-> w.data[x], deadline |-> DeadlineOf(w, x)]
      <4>1. CASE x = k
        BY <3>1, <3>3, <4>1 DEF Insert, Remove, RemoveAll, DeadlineOf
      <4>2. CASE x # k
        BY <1>e, <3>1, <3>3, <4>2 DEF Insert, Remove, RemoveAll, DeadlineOf
      <4> QED
        BY <4>1, <4>2
    <3>5. Lists(Abstract!Put(E, k, v), w)
      BY <3>2, <3>3, <3>4 DEF Lists
    <3> QED
      BY <3>5 DEF w
  <2>2. Abstract!WriteValue(k, v)
    BY <1>4, <1>11, <2>1 DEF WriteValue, Call, Abstract!WriteValue, Abstract!Call, E, L
  <2> QED
    BY <2>2 DEF Abstract!Next
<1>12. ASSUME NEW k \in Key, NEW v \in Value, DeleteValueIfMatch(k, v)
       PROVE  Abstract!Next
  <2>1. matches(L, k, v) <=> Abstract!Holds(E, k, v)
    BY <1>2, <1>e DEF matches, Abstract!Holds
  <2>2. CASE matches(L, k, v)
    <3>1. Lists(Abstract!Remove(E, k), delete_value(L, k))
      BY <1>d
    <3>2. Abstract!DeleteValueIfMatch(k, v)
      BY <1>4, <1>12, <2>1, <2>2, <3>1
      DEF DeleteValueIfMatch, delete_value_if_match, Call,
          Abstract!DeleteValueIfMatch, Abstract!Call, E, L
    <3> QED
      BY <3>2 DEF Abstract!Next
  <2>3. CASE ~matches(L, k, v)
    <3>1. Abstract!DeleteValueIfMatch(k, v)
      <4>1. Call(L, <<"delete_value_if_match", matches(L, k, v)>>)
        BY <1>12, <2>3 DEF DeleteValueIfMatch, delete_value_if_match, L
      <4>2. matches(L, k, v) = Abstract!Holds(E, k, v)
        BY <2>1 DEF matches, Abstract!Holds
      <4>3. Abstract!Call(E, <<"delete_value_if_match", Abstract!Holds(E, k, v)>>)
        BY <1>6, <4>1, <4>2
      <4> QED
        BY <2>1, <2>3, <4>3, Zenon DEF Abstract!DeleteValueIfMatch, E
    <3> QED
      BY <3>1 DEF Abstract!Next
  <2> QED
    BY <2>2, <2>3
<1>13. ASSUME NEW k \in Key, NEW d \in Durations, WriteTtl(k, d)
       PROVE  Abstract!Next
  <2>1. now + d \in Nat
    BY <1>1, DurationsAssumption
  <2>2. Lists(Abstract!SetDeadline(E, k, now + d), write_ttl(L, k, now + d))
    <3>1. CASE k \in DOMAIN L.data
      <4> DEFINE w == write_ttl(L, k, now + d)
      <4>1. w.data = L.data /\ w.ttl = Insert(Remove(L.ttl, k), k, now + d)
        BY <1>2, <2>1, <3>1, WriteTtlGood
      <4>2. L.data = Insert(L.data, k, E[k].value)
        BY <1>2, <1>e, <3>1 DEF Insert, Good, StoreType, IsMap
      <4>3. Lists(Abstract!PutUntil(E, k, E[k].value, now + d), w)
        <5> HIDE DEF w
        <5> QED
          BY <1>w, <2>1, <4>1, <4>2
      <4> QED
        BY <1>2, <3>1, <4>3 DEF Abstract!SetDeadline
    <3>2. CASE k \notin DOMAIN L.data
      BY <1>2, <3>2 DEF write_ttl, Abstract!SetDeadline
    <3> QED
      BY <3>1, <3>2
  <2>3. Abstract!WriteTtl(k, d)
    BY <1>4, <1>13, <2>2 DEF WriteTtl, Call, Abstract!WriteTtl, Abstract!Call, E, L
  <2> QED
    BY <2>3 DEF Abstract!Next
<1>14. ASSUME NEW k \in Key, NEW v \in Value, NEW d \in Durations, WriteValueWithTtl(k, v, d)
       PROVE  Abstract!Next
  <2>1. now + d \in Nat
    BY <1>1, DurationsAssumption
  <2>2. Lists(Abstract!PutUntil(E, k, v, now + d), write_value_with_ttl(L, k, v, now + d))
    BY <1>2, <1>w, <2>1, WriteValueWithTtlGood
  <2>3. Abstract!WriteValueWithTtl(k, v, d)
    BY <1>4, <1>14, <2>2
    DEF WriteValueWithTtl, Call, Abstract!WriteValueWithTtl, Abstract!Call, E, L
  <2> QED
    BY <2>3 DEF Abstract!Next
<1> QED
  BY <1>5, <1>7, <1>8, <1>9, <1>10, <1>11, <1>12, <1>13, <1>14 DEF Next

\* The lazily purged store implements the map whose entries vanish by
\* themselves at their deadline.
THEOREM Refinement == Spec => ImplementsTimedMap
<1>1. Init => Abstract!Init
  <2> SUFFICES ASSUME Init PROVE Abstract!Init
    OBVIOUS
  <2>1. LiveKeys(store, now) = {}
    BY DEF Init, create_store, EmptyMap, LiveKeys
  <2>2. LiveEntries(store, now) = Abstract!EmptyMap
    BY <2>1 DEF LiveEntries, Abstract!EmptyMap
  <2> QED
    BY <2>2 DEF Init, Abstract!Init
<1>2. Inv /\ [Next]_vars => [Abstract!Next]_(Abstract!vars)
  <2>1. UNCHANGED vars => UNCHANGED Abstract!vars
    BY DEF vars, Abstract!vars, LiveEntries, LiveKeys, DeadlineOf
  <2> QED
    BY <2>1, NextRefines
<1> QED
  BY <1>1, <1>2, InitInv, NextInv, PTL DEF Spec, ImplementsTimedMap, Abstract!Spec

=============================================================================
