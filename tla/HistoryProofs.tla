---------------------------- MODULE HistoryProofs ---------------------------
(***************************************************************************)
(* Proofs about PermutiveBus for any number of threads, any keys, values,  *)
(* durations and workload, on a disk that may fail and with restarts; on   *)
(* workloads that neither read a job nor give it a TTL after it was        *)
(* posted, that a job is claimed at most once; and on workloads of four    *)
(* kinds, that the calls are linearizable and the tiers coherent.          *)
(***************************************************************************)
EXTENDS History, TLAPS, FiniteSetTheorems, NaturalsInduction

\* The operations on a timed map keep its type.
LEMMA TimedTypes ==
    ASSUME NEW m, IsMap(m, Key, Entry(Value)), NEW k \in Key, NEW v \in Value,
           NEW t \in Nat, NEW d \in Nat
    PROVE  /\ IsMap(At(m, t), Key, Entry(Value))
           /\ IsMap(Put(m, k, v), Key, Entry(Value))
           /\ IsMap(PutUntil(m, k, v, d), Key, Entry(Value))
           /\ IsMap(SetDeadline(m, k, d), Key, Entry(Value))
           /\ IsMap(Remove(m, k), Key, Entry(Value))
<1>1. IsMap(At(m, t), Key, Entry(Value))
  BY DEF IsMap, At, Keep
<1>2. IsMap(Put(m, k, v), Key, Entry(Value))
  BY DEF IsMap, Put, Insert, Entry
<1>3. IsMap(PutUntil(m, k, v, d), Key, Entry(Value))
  BY DEF IsMap, PutUntil, Insert, Entry
<1>4. IsMap(SetDeadline(m, k, d), Key, Entry(Value))
  BY DEF IsMap, SetDeadline, PutUntil, Insert, Entry
<1>5. IsMap(Remove(m, k), Key, Entry(Value))
  BY DEF IsMap, Remove, RemoveAll
<1> QED
  BY <1>1, <1>2, <1>3, <1>4, <1>5

\* So do the operations on rows.
LEMMA RowTypes ==
    ASSUME NEW m, IsMap(m, Key, Value), NEW k \in Key, NEW v \in Value
    PROVE  /\ IsMap(Insert(m, k, v), Key, Value)
           /\ IsMap(Remove(m, k), Key, Value)
BY DEF IsMap, Insert, Remove, RemoveAll

-----------------------------------------------------------------------------

\* The parts of TypeOK about the tiers and about the workers.
TiersOK ==
    /\ now \in Nat
    /\ IsMap(transient, Key, Entry(Value))
    /\ IsMap(persistent, Key, Value)

WorkersOK ==
    /\ frame \in [Worker -> Frames]
    /\ \A w \in Worker : FrameOK(frame[w])
    /\ DOMAIN reply = Worker

\* A step on the transient tier keeps the types of the tiers.
LEMMA TransientStep ==
    ASSUME TiersOK, NEW m, IsMap(m, Key, Entry(Value)), Transient(m)
    PROVE  TiersOK'
BY DEF TiersOK, Transient, IsMap, At, Keep

\* So does a step on the persistent tier...
LEMMA PersistentStep ==
    ASSUME TiersOK, NEW m, IsMap(m, Key, Value), Persistent(m)
    PROVE  TiersOK'
BY DEF TiersOK, Persistent

\* ... and one that only reads.
LEMMA ReadStep ==
    ASSUME TiersOK, OnlyReads
    PROVE  TiersOK'
BY DEF TiersOK, OnlyReads

\* A worker that moves to a well-formed frame keeps the types of the workers.
LEMMA MoveStep ==
    ASSUME WorkersOK, NEW w \in Worker, NEW f \in Frames, FrameOK(f),
           frame' = [frame EXCEPT ![w] = f],
           UNCHANGED reply \/ \E r : reply' = [reply EXCEPT ![w] = r]
    PROVE  WorkersOK'
BY DEF WorkersOK

\* A call that returns keeps the types of the workers.
LEMMA ReturnStep ==
    ASSUME WorkersOK, NEW w \in Worker, NEW r, Return(w, r)
    PROVE  WorkersOK'
<1>1. Idle \in Frames /\ FrameOK(Idle)
  BY DEF Idle, Frame, Frames, FrameOK, OnKey, Scanning, WithValue, WithTtl
<1> QED
  BY <1>1, MoveStep DEF Return

\* The frames a call goes through: the pc is a step on a key, and what that step
\* needs is there.
LEMMA FrameTypes ==
    ASSUME NEW pc \in OnKey, NEW k \in Key, NEW v \in Value \cup Scans \cup {None},
           NEW d \in Nat \cup {None}, NEW h \in BOOLEAN,
           pc \in WithValue => v \in Value, pc \in WithTtl => d \in Nat
    PROVE  Frame(pc, k, v, d, h) \in Frames /\ FrameOK(Frame(pc, k, v, d, h))
<1>1. pc \notin Scanning /\ pc # "find_persistent"
  BY DEF OnKey, Scanning
<1> QED
  BY <1>1 DEF Frame, Frames, FrameOK

\* So does one that goes on.
LEMMA GotoStep ==
    ASSUME WorkersOK, NEW w \in Worker, frame[w].pc \in OnKey, NEW pc \in OnKey,
           NEW v \in Value \cup Scans \cup {None}, NEW h \in BOOLEAN,
           pc \in WithValue => v \in Value,
           pc \in WithTtl => frame[w].pc \in WithTtl,
           GotoWith(w, pc, v, h)
    PROVE  WorkersOK'
<1> DEFINE f == Frame(pc, frame[w].key, v, frame[w].ttl, h)
<1>1. frame[w].key \in Key /\ frame[w].ttl \in Nat \cup {None}
      /\ (pc \in WithTtl => frame[w].ttl \in Nat)
  BY DEF WorkersOK, Frames, FrameOK
<1>2. f \in Frames /\ FrameOK(f)
  BY <1>1, FrameTypes
<1>3. frame' = [frame EXCEPT ![w] = f] /\ UNCHANGED reply
  BY DEF GotoWith
<1> HIDE DEF f
<1> QED
  BY <1>2, <1>3, MoveStep

\* What a SELECT sees are rows of the persistent tier.
LEMMA SelectedRows ==
    ASSUME TiersOK, NEW rows \in Selected
    PROVE  IsMap(rows, Key, Value)
BY DEF TiersOK, Selected, IsMap, Keep

\* What a frame at a given step holds.
LEMMA FrameHolds ==
    ASSUME WorkersOK, NEW w \in Worker
    PROVE  /\ frame[w].pc \in OnKey => frame[w].key \in Key
           /\ frame[w].pc \in WithValue => frame[w].value \in Value
           /\ frame[w].pc \in WithTtl => frame[w].ttl \in Nat
           /\ frame[w].pc \in Scanning => frame[w].key \in Prefixes
           /\ frame[w].value \in Value \cup Scans \cup {None}
           /\ frame[w].hit \in BOOLEAN
BY DEF WorkersOK, Frames, FrameOK

\* Every step of a call keeps the types.
LEMMA StepType ==
    ASSUME TypeOK, NEW w \in Worker, Step(w)
    PROVE  TypeOK'
<1> SUFFICES TiersOK' /\ WorkersOK'
  BY DEF TypeOK, TiersOK, WorkersOK
<1> DEFINE f == frame[w]
<1>1. TiersOK /\ WorkersOK /\ now \in Nat
      /\ IsMap(transient, Key, Entry(Value)) /\ IsMap(persistent, Key, Value)
  BY DEF TypeOK, TiersOK, WorkersOK
<1> USE DEF OnKey, WithValue, WithTtl, Scanning
<1>2. CASE ReadTransient(w)
  <2>1. f.pc = "read_transient" /\ TiersOK'
    BY <1>1, <1>2, ReadStep DEF ReadTransient, In
  <2>2. WorkersOK'
    <3>1. CASE Look(transient, f.key, None) # None
      BY <1>1, <1>2, <3>1, ReturnStep DEF ReadTransient
    <3>2. CASE Look(transient, f.key, None) = None
      BY <1>1, <1>2, <2>1, <3>2, FrameHolds, GotoStep DEF ReadTransient, Goto
    <3> QED
      BY <3>1, <3>2
  <2> QED
    BY <2>1, <2>2
<1>3. CASE ReadPersistent(w)
  <2>1. f.pc = "read_persistent" /\ TiersOK'
    BY <1>1, <1>3, ReadStep DEF ReadPersistent, In
  <2>2. WorkersOK'
    <3>1. PICK rows \in Selected :
            LET v == Get(rows, f.key, None)
            IN  IF v = None THEN Return(w, None) ELSE GotoWith(w, "promote", v, FALSE)
      BY <1>3 DEF ReadPersistent
    <3> DEFINE v == Get(rows, f.key, None)
    <3>2. CASE v = None
      BY <1>1, <2>1, <3>1, <3>2, ReturnStep
    <3>3. CASE v # None
      <4>1. IsMap(rows, Key, Value)
        BY <1>1, SelectedRows
      <4>2. v \in Value
        BY <3>3, <4>1 DEF Get, IsMap
      <4>3. GotoWith(w, "promote", v, FALSE)
        BY <3>1, <3>3
      <4> HIDE DEF v
      <4> QED
        BY <1>1, <2>1, <4>2, <4>3, GotoStep
    <3> QED
      BY <3>2, <3>3
  <2> QED
    BY <2>1, <2>2
<1>4. CASE Promote(w)
  <2>1. f.pc = "promote" /\ f.key \in Key /\ f.value \in Value /\ f.hit \in BOOLEAN
    BY <1>1, <1>4, FrameHolds DEF Promote, In
  <2>2. TiersOK'
    BY <1>1, <1>4, <2>1, TimedTypes, TransientStep DEF Promote
  <2>3. WorkersOK'
    BY <1>1, <1>4, <2>1, GotoStep DEF Promote, Goto
  <2> QED
    BY <2>2, <2>3
<1>5. CASE Stamp(w)
  <2>1. f.pc = "stamp" /\ f.key \in Key /\ f.value \in Value
    BY <1>1, <1>5, FrameHolds DEF Stamp, In
  <2>2. TiersOK'
    <3>1. now + CachePromotion \in Nat
      BY <1>1, CachePromotionAssumption
    <3>2. IsMap(SetDeadline(transient, f.key, now + CachePromotion), Key, Entry(Value))
      BY <1>1, <2>1, <3>1, TimedTypes
    <3> QED
      BY <1>1, <1>5, <3>2, TransientStep DEF Stamp
  <2>3. WorkersOK'
    BY <1>1, <1>5, ReturnStep DEF Stamp
  <2> QED
    BY <2>2, <2>3
<1>6. CASE WritePersistent(w)
  <2>1. f.pc = "write_persistent" /\ f.key \in Key /\ f.value \in Value /\ f.hit \in BOOLEAN
    BY <1>1, <1>6, FrameHolds DEF WritePersistent, In
  <2>2. TiersOK'
    BY <1>1, <1>6, <2>1, RowTypes, PersistentStep DEF WritePersistent
  <2>3. WorkersOK'
    BY <1>1, <1>6, <2>1, GotoStep DEF WritePersistent, Goto
  <2> QED
    BY <2>2, <2>3
<1>7. CASE Invalidate(w)
  <2>1. f.key \in Key /\ f.value \in Value
    BY <1>1, <1>7, FrameHolds DEF Invalidate, In
  <2>2. TiersOK'
    BY <1>1, <1>7, <2>1, TimedTypes, TransientStep DEF Invalidate
  <2>3. WorkersOK'
    BY <1>1, <1>7, ReturnStep DEF Invalidate
  <2> QED
    BY <2>2, <2>3
<1>8. CASE DeleteTransient(w)
  <2>1. f.pc = "delete_transient" /\ f.key \in Key /\ f.hit \in BOOLEAN
        /\ f.value \in Value \cup Scans \cup {None}
    BY <1>1, <1>8, FrameHolds DEF DeleteTransient, In
  <2>2. TiersOK'
    <3>1. IsMap(Remove(transient, f.key), Key, Entry(Value))
      BY <1>1 DEF IsMap, Remove, RemoveAll
    <3> QED
      BY <1>1, <1>8, <3>1, TransientStep DEF DeleteTransient
  <2>3. WorkersOK'
    BY <1>1, <1>8, <2>1, GotoStep DEF DeleteTransient, Goto
  <2> QED
    BY <2>2, <2>3
<1>9. CASE DeletePersistent(w)
  <2>1. IsMap(Remove(persistent, f.key), Key, Value)
    BY <1>1 DEF IsMap, Remove, RemoveAll
  <2>2. TiersOK'
    BY <1>1, <1>9, <2>1, PersistentStep DEF DeletePersistent
  <2>3. WorkersOK'
    BY <1>1, <1>9, ReturnStep DEF DeletePersistent
  <2> QED
    BY <2>2, <2>3
<1>10. CASE MatchTransient(w)
  <2> DEFINE m == Holds(transient, f.key, f.value)
  <2>1. f.pc = "match_transient" /\ f.key \in Key /\ f.value \in Value
    BY <1>1, <1>10, FrameHolds DEF MatchTransient, In
  <2>2. IsMap(IF m THEN Remove(transient, f.key) ELSE transient, Key, Entry(Value))
    BY <1>1 DEF IsMap, Remove, RemoveAll
  <2>3. TiersOK'
    BY <1>1, <1>10, <2>2, TransientStep DEF MatchTransient
  <2>4. m \in BOOLEAN
    BY Zenon DEF Holds
  <2>5. WorkersOK'
    BY <1>1, <1>10, <2>1, <2>4, GotoStep DEF MatchTransient
  <2> QED
    BY <2>3, <2>5
<1>11. CASE MatchPersistent(w)
  <2>1. PICK rows \in Selected :
          Persistent(IF Get(rows, f.key, None) = f.value THEN Remove(persistent, f.key)
                                                         ELSE persistent)
    BY <1>11 DEF MatchPersistent
  <2>2. TiersOK'
    <3>1. IsMap(Remove(persistent, f.key), Key, Value) /\ IsMap(persistent, Key, Value)
      BY <1>1 DEF IsMap, Remove, RemoveAll
    <3>2. Persistent(Remove(persistent, f.key)) \/ Persistent(persistent)
      BY <2>1
    <3> QED
      BY <1>1, <3>1, <3>2, PersistentStep
  <2>3. WorkersOK'
    BY <1>1, <1>11, ReturnStep DEF MatchPersistent
  <2> QED
    BY <2>2, <2>3
<1>12. CASE TtlRead(w)
  <2>1. f.pc = "ttl_read" /\ TiersOK' /\ f.hit \in BOOLEAN
        /\ f.value \in Value \cup Scans \cup {None}
    BY <1>1, <1>12, ReadStep, FrameHolds DEF TtlRead, In
  <2>2. WorkersOK'
    <3>1. PICK rows \in Selected :
            LET v == Get(rows, f.key, None)
            IN  IF v = None THEN Goto(w, "ttl_set") ELSE GotoWith(w, "ttl_delete", v, FALSE)
      BY <1>12 DEF TtlRead
    <3> DEFINE v == Get(rows, f.key, None)
    <3>2. CASE v = None
      BY <1>1, <2>1, <3>1, <3>2, GotoStep DEF Goto
    <3>3. CASE v # None
      <4>1. IsMap(rows, Key, Value)
        BY <1>1, SelectedRows
      <4>2. v \in Value
        BY <3>3, <4>1 DEF Get, IsMap
      <4>3. GotoWith(w, "ttl_delete", v, FALSE)
        BY <3>1, <3>3
      <4> HIDE DEF v
      <4> QED
        BY <1>1, <2>1, <4>2, <4>3, GotoStep
    <3> QED
      BY <3>2, <3>3
  <2> QED
    BY <2>1, <2>2
<1>13. CASE TtlDelete(w)
  <2>1. f.pc = "ttl_delete" /\ f.value \in Value /\ f.hit \in BOOLEAN
    BY <1>1, <1>13, FrameHolds DEF TtlDelete, In
  <2>2. IsMap(Remove(persistent, f.key), Key, Value)
    BY <1>1 DEF IsMap, Remove, RemoveAll
  <2>3. TiersOK'
    BY <1>1, <1>13, <2>2, PersistentStep DEF TtlDelete
  <2>4. WorkersOK'
    BY <1>1, <1>13, <2>1, GotoStep DEF TtlDelete, Goto
  <2> QED
    BY <2>3, <2>4
<1>14. CASE TtlMove(w)
  <2>1. f.pc = "ttl_move" /\ f.key \in Key /\ f.value \in Value /\ f.hit \in BOOLEAN
    BY <1>1, <1>14, FrameHolds DEF TtlMove, In
  <2>2. TiersOK'
    BY <1>1, <1>14, <2>1, TimedTypes, TransientStep DEF TtlMove
  <2>3. WorkersOK'
    BY <1>1, <1>14, <2>1, GotoStep DEF TtlMove, Goto
  <2> QED
    BY <2>2, <2>3
<1>15. CASE TtlSet(w)
  <2>1. f.key \in Key /\ f.ttl \in Nat
    BY <1>1, <1>15, FrameHolds DEF TtlSet, In
  <2>2. IsMap(SetDeadline(transient, f.key, now + f.ttl), Key, Entry(Value))
    BY <1>1, <2>1 DEF IsMap, SetDeadline, PutUntil, Insert, Entry
  <2>3. TiersOK'
    BY <1>1, <1>15, <2>2, TransientStep DEF TtlSet
  <2>4. WorkersOK'
    BY <1>1, <1>15, ReturnStep DEF TtlSet
  <2> QED
    BY <2>3, <2>4
<1>16. CASE TimedClear(w)
  <2>1. f.pc = "timed_clear" /\ f.value \in Value /\ f.hit \in BOOLEAN
    BY <1>1, <1>16, FrameHolds DEF TimedClear, In
  <2>2. IsMap(Remove(persistent, f.key), Key, Value)
    BY <1>1 DEF IsMap, Remove, RemoveAll
  <2>3. TiersOK'
    BY <1>1, <1>16, <2>2, PersistentStep DEF TimedClear
  <2>4. WorkersOK'
    BY <1>1, <1>16, <2>1, GotoStep DEF TimedClear, Goto
  <2> QED
    BY <2>3, <2>4
<1>17. CASE TimedWrite(w)
  <2>1. f.key \in Key /\ f.value \in Value /\ f.ttl \in Nat
    BY <1>1, <1>17, FrameHolds DEF TimedWrite, In
  <2>2. IsMap(PutUntil(transient, f.key, f.value, now + f.ttl), Key, Entry(Value))
    BY <1>1, <2>1, TimedTypes
  <2>3. TiersOK'
    BY <1>1, <1>17, <2>2, TransientStep DEF TimedWrite
  <2>4. WorkersOK'
    BY <1>1, <1>17, ReturnStep DEF TimedWrite
  <2> QED
    BY <2>3, <2>4
<1>18. CASE ReadTtlRemaining(w)
  BY <1>1, <1>18, ReadStep, ReturnStep DEF ReadTtlRemaining
<1>19. CASE FindTransient(w)
  <2> DEFINE v == Values(transient, f.key)
             g == Frame("find_persistent", f.key, v, f.ttl, FALSE)
  <2>1. f.pc = "find_transient" /\ f.key \in Prefixes /\ f.ttl \in Nat \cup {None}
    BY <1>1, <1>19 DEF FindTransient, In, WorkersOK, Frames, FrameOK
  <2>2. v \in Scans
    <3>1. v \in [DOMAIN transient \cap f.key -> Value]
      BY <1>1 DEF IsMap, Entry, Values
    <3>2. DOMAIN transient \cap f.key \in SUBSET Key
      BY <1>1 DEF IsMap
    <3> QED
      BY <3>1, <3>2 DEF Scans
  <2> HIDE DEF v
  <2>3. g \in Frames /\ FrameOK(g)
    BY <2>1, <2>2 DEF Frame, Frames, FrameOK
  <2>4. frame' = [frame EXCEPT ![w] = g] /\ UNCHANGED reply
    BY <1>19 DEF FindTransient, GotoWith, v
  <2>5. WorkersOK'
    <3> HIDE DEF g
    <3> QED
      BY <1>1, <2>3, <2>4, MoveStep
  <2> QED
    BY <1>1, <1>19, <2>5, ReadStep DEF FindTransient
<1>20. CASE FindPersistent(w)
  BY <1>1, <1>20, ReadStep, ReturnStep DEF FindPersistent
<1> QED
  BY <1>2, <1>3, <1>4, <1>5, <1>6, <1>7, <1>8, <1>9, <1>10, <1>11, <1>12, <1>13, <1>14,
     <1>15, <1>16, <1>17, <1>18, <1>19, <1>20 DEF Step

\* Starting a call keeps the types.
LEMMA InvokeType ==
    ASSUME TypeOK, NEW w \in Worker,
           InvokeQuery(w) \/ \E k \in Key : InvokeUpdate(w, k)
    PROVE  TypeOK'
<1> SUFFICES TiersOK' /\ WorkersOK'
  BY DEF TypeOK, TiersOK, WorkersOK
<1>1. TiersOK /\ WorkersOK
  BY DEF TypeOK, TiersOK, WorkersOK
<1>2. ASSUME NEW c, NEW pc \in OnKey, NEW k \in Key, NEW v \in Value \cup {None},
             NEW d \in Nat \cup {None}, pc \in WithValue => v \in Value,
             pc \in WithTtl => d \in Nat, Invoke(w, c, pc, k, v, d)
      PROVE  TiersOK' /\ WorkersOK'
  <2>1. Frame(pc, k, v, d, FALSE) \in Frames /\ FrameOK(Frame(pc, k, v, d, FALSE))
    BY <1>2, FrameTypes
  <2>2. WorkersOK'
    BY <1>1, <1>2, <2>1, MoveStep DEF Invoke
  <2> QED
    BY <1>1, <1>2, <2>2, ReadStep DEF Invoke
<1> DEFINE Plain == {"read_transient", "remaining", "delete_transient"}
<1>p. /\ Plain \subseteq OnKey /\ Plain \cap WithValue = {} /\ Plain \cap WithTtl = {}
      /\ {"write_persistent", "match_transient"} \subseteq OnKey \ WithTtl
      /\ "ttl_read" \in OnKey \ WithValue
      /\ "timed_clear" \in OnKey
  BY DEF OnKey, WithValue, WithTtl
<1>q. ASSUME NEW c, NEW pc \in Plain, NEW k \in Key, Invoke(w, c, pc, k, None, None)
      PROVE  TiersOK' /\ WorkersOK'
  BY <1>2, <1>p, <1>q
<1>3. ASSUME NEW k \in Key, InvokeRead(w, k)
      PROVE  TiersOK' /\ WorkersOK'
  BY <1>q, <1>3 DEF InvokeRead
<1>4. ASSUME NEW k \in Key, InvokeReadTtl(w, k)
      PROVE  TiersOK' /\ WorkersOK'
  BY <1>q, <1>4 DEF InvokeReadTtl
<1>5. ASSUME NEW p \in Prefixes, InvokeFind(w, p)
      PROVE  TiersOK' /\ WorkersOK'
  <2> DEFINE g == Frame("find_transient", p, None, None, FALSE)
  <2>1. g \in Frames /\ FrameOK(g)
    BY DEF Frame, Frames, FrameOK, Scanning, OnKey, WithValue, WithTtl
  <2>2. frame' = [frame EXCEPT ![w] = g] /\ reply' = [reply EXCEPT ![w] = None] /\ OnlyReads
    BY <1>5 DEF InvokeFind, Invoke
  <2> HIDE DEF g
  <2> QED
    BY <1>1, <2>1, <2>2, MoveStep, ReadStep
<1>6. ASSUME NEW k \in Key, NEW v \in Value, InvokeWrite(w, k, v)
      PROVE  TiersOK' /\ WorkersOK'
  BY <1>2, <1>6, <1>p DEF InvokeWrite
<1>7. ASSUME NEW k \in Key, NEW v \in Value, InvokeClaim(w, k, v)
      PROVE  TiersOK' /\ WorkersOK'
  BY <1>2, <1>7, <1>p DEF InvokeClaim
<1>8. ASSUME NEW k \in Key, InvokeDelete(w, k)
      PROVE  TiersOK' /\ WorkersOK'
  BY <1>q, <1>8 DEF InvokeDelete
<1>9. ASSUME NEW k \in Key, NEW d \in Durations, InvokeWriteTtl(w, k, d)
      PROVE  TiersOK' /\ WorkersOK'
  <2>1. d \in Nat
    BY DurationsAssumption
  <2>2. Invoke(w, "write_ttl", "ttl_read", k, None, d)
    BY <1>9 DEF InvokeWriteTtl
  <2> QED
    BY <1>2, <1>p, <2>1, <2>2
<1>10. ASSUME NEW k \in Key, NEW v \in Value, NEW d \in Durations, InvokeWriteTimed(w, k, v, d)
       PROVE  TiersOK' /\ WorkersOK'
  <2>1. d \in Nat
    BY DurationsAssumption
  <2>2. Invoke(w, "write_value_with_ttl", "timed_clear", k, v, d)
    BY <1>10 DEF InvokeWriteTimed
  <2> QED
    BY <1>2, <1>p, <2>1, <2>2
<1> QED
  BY <1>3, <1>4, <1>5, <1>6, <1>7, <1>8, <1>9, <1>10 DEF InvokeQuery, InvokeUpdate

\* The entries a restart finds in the transient tier.
LEMMA RegistryType == IsMap(RegistryEntries, Key, Entry(Value))
BY RegistryAssumption, ActiveAssumption DEF RegistryEntries, IsMap, Entry

\* A worker in no call.
LEMMA IdleType == Idle \in Frames /\ FrameOK(Idle)
BY DEF Idle, Frame, Frames, FrameOK, OnKey, Scanning, WithValue, WithTtl

\* The types hold at first...
LEMMA InitType == Init => TypeOK
<1> SUFFICES ASSUME Init PROVE TypeOK
  OBVIOUS
<1>1. IsMap(EmptyMap, Key, Value)
  BY DEF EmptyMap, IsMap
<1> QED
  BY <1>1, RegistryType, IdleType DEF Init, TypeOK

\* ... and every step keeps them.
LEMMA NextType == TypeOK /\ [Next]_vars => TypeOK'
<1> SUFFICES ASSUME TypeOK, [Next]_vars PROVE TypeOK'
  OBVIOUS
<1>1. CASE Tick
  <2>1. TiersOK'
    BY <1>1 DEF Tick, TypeOK, TiersOK, IsMap, At, Keep
  <2>2. WorkersOK'
    BY <1>1 DEF Tick, TypeOK, WorkersOK
  <2> QED
    BY <2>1, <2>2 DEF TypeOK, TiersOK, WorkersOK
<1>2. CASE Crash
  BY <1>2, RegistryType, IdleType DEF Crash, TypeOK
<1>3. ASSUME NEW w \in Worker,
             Step(w) \/ InvokeQuery(w) \/ \E k \in Key : InvokeUpdate(w, k)
      PROVE  TypeOK'
  BY <1>3, StepType, InvokeType
<1>4. CASE UNCHANGED vars
  BY <1>4 DEF vars, TypeOK
<1> QED
  BY <1>1, <1>2, <1>3, <1>4 DEF Next

\* The tiers and the calls in progress keep their types.
THEOREM TypeCorrect == Spec => []TypeOK
<1> QED
  BY InitType, NextType, PTL DEF Spec

-----------------------------------------------------------------------------

\* The keys of a timed map that have no deadline.
Untimed(m) == {k \in DOMAIN m : m[k].deadline = Never}

\* Which keys an operation on the transient tier can leave without a deadline.
LEMMA UntimedAt ==
    ASSUME NEW m, NEW t
    PROVE  Untimed(At(m, t)) \subseteq Untimed(m)
BY DEF Untimed, At, Keep

\* Removing a key makes no other immortal.
LEMMA UntimedRemove ==
    ASSUME NEW m, NEW k
    PROVE  Untimed(Remove(m, k)) \subseteq Untimed(m)
BY DEF Untimed, Remove, RemoveAll

\* Storing one without a deadline makes that one immortal at most.
LEMMA UntimedPut ==
    ASSUME NEW m, NEW k, NEW v
    PROVE  Untimed(Put(m, k, v)) \subseteq Untimed(m) \cup {k}
BY DEF Untimed, Put, Insert

\* Storing one with a deadline makes none immortal.
LEMMA UntimedPutUntil ==
    ASSUME NEW m, NEW k, NEW v, NEW d \in Nat
    PROVE  Untimed(PutUntil(m, k, v, d)) \subseteq Untimed(m) \ {k}
<1> d # Never
  BY NeverAssumption
<1> QED
  BY DEF Untimed, PutUntil, Insert

\* A deadline makes none immortal.
LEMMA UntimedSetDeadline ==
    ASSUME NEW m, NEW k, NEW d \in Nat
    PROVE  Untimed(SetDeadline(m, k, d)) \subseteq Untimed(m) \ {k}
<1>1. CASE k \in DOMAIN m
  BY <1>1, UntimedPutUntil DEF SetDeadline
<1>2. CASE k \notin DOMAIN m
  BY <1>2 DEF SetDeadline, Untimed
<1> QED
  BY <1>1, <1>2

\* A worker is about to give key k its deadline.
Stamping(w, k) == frame[w].pc \in {"stamp", "ttl_set"} /\ frame[w].key = k

\* A worker that moves on leaves the promises of the others standing.
LEMMA OthersStamp ==
    ASSUME WorkersOK, NEW w \in Worker, NEW f, frame' = [frame EXCEPT ![w] = f],
           NEW k, BeingStamped(k), ~Stamping(w, k)
    PROVE  BeingStamped(k)'
<1>1. PICK x \in Worker : Stamping(x, k)
  BY DEF BeingStamped, Stamping
<1>2. x # w /\ frame'[x] = frame[x]
  BY <1>1 DEF WorkersOK, Stamping
<1> QED
  BY <1>1, <1>2 DEF BeingStamped, Stamping

\* The invariant, in terms of the keys without a deadline.
LEMMA ImmortalAsSet ==
    NoImmortalCopy <=> \A k \in Untimed(transient) : k \in Registry \/ BeingStamped(k)
BY DEF NoImmortalCopy, Untimed

\* A step of w that leaves no new key without a deadline keeps the invariant,
\* unless w was to stamp one of them.
LEMMA HarmlessStep ==
    ASSUME WorkersOK, NoImmortalCopy, NEW w \in Worker, NEW f,
           frame' = [frame EXCEPT ![w] = f],
           Untimed(transient') \subseteq Untimed(transient),
           \A k \in Untimed(transient') : ~Stamping(w, k)
    PROVE  NoImmortalCopy'
<1> SUFFICES ASSUME NEW k \in Untimed(transient')
             PROVE  k \in Registry \/ BeingStamped(k)'
  BY DEF NoImmortalCopy, Untimed
<1>1. k \in Registry \/ BeingStamped(k)
  BY ImmortalAsSet
<1> QED
  BY <1>1, OthersStamp

\* A step of w that stores a key without a deadline, to stamp it next.
LEMMA StoringStep ==
    ASSUME WorkersOK, NoImmortalCopy, NEW w \in Worker, NEW f,
           frame' = [frame EXCEPT ![w] = f], f.pc \in {"stamp", "ttl_set"},
           Untimed(transient') \subseteq Untimed(transient) \cup {f.key},
           frame[w].pc \notin {"stamp", "ttl_set"}
    PROVE  NoImmortalCopy'
<1> SUFFICES ASSUME NEW k \in Untimed(transient')
             PROVE  k \in Registry \/ BeingStamped(k)'
  BY DEF NoImmortalCopy, Untimed
<1>1. CASE k = f.key
  <2>1. frame'[w] = f
    BY DEF WorkersOK
  <2> QED
    BY <1>1, <2>1 DEF BeingStamped
<1>2. CASE k # f.key
  <2>1. k \in Registry \/ BeingStamped(k)
    BY <1>2, ImmortalAsSet
  <2>2. ~Stamping(w, k)
    BY DEF Stamping
  <2> QED
    BY <2>1, <2>2, OthersStamp
<1> QED
  BY <1>1, <1>2

\* No step of a call leaves an untimed copy that nobody is going to stamp.
LEMMA StepMortal ==
    ASSUME TypeOK, NoImmortalCopy, NEW w \in Worker, Step(w)
    PROVE  NoImmortalCopy'
<1> DEFINE f == frame[w]
           T == transient
<1>1. WorkersOK /\ now \in Nat
  BY DEF TypeOK, WorkersOK
<1>2. ASSUME NEW g, frame' = [frame EXCEPT ![w] = g], f.pc \notin {"stamp", "ttl_set"},
             Untimed(transient') \subseteq Untimed(T)
      PROVE  NoImmortalCopy'
  BY <1>1, <1>2, HarmlessStep DEF Stamping
<1>3. ASSUME NEW r, Return(w, r) PROVE \E g : frame' = [frame EXCEPT ![w] = g]
  BY <1>3 DEF Return
<1>4. ASSUME NEW pc, NEW v, NEW h, GotoWith(w, pc, v, h)
      PROVE  \E g : frame' = [frame EXCEPT ![w] = g]
  BY <1>4 DEF GotoWith
<1>5. ASSUME OnlyReads \/ \E rows : Persistent(rows)
      PROVE  Untimed(transient') \subseteq Untimed(T)
  BY <1>5 DEF OnlyReads, Persistent
<1>6. ASSUME Transient(Remove(T, f.key)) \/ Transient(T)
      PROVE  Untimed(transient') \subseteq Untimed(T)
  <2>1. \A m : Untimed(At(m, now)) \subseteq Untimed(m)
    BY UntimedAt
  <2>2. Untimed(Remove(T, f.key)) \subseteq Untimed(T)
    BY UntimedRemove
  <2> QED
    BY <1>6, <2>1, <2>2 DEF Transient
<1>7. CASE ReadTransient(w)
  BY <1>2, <1>3, <1>4, <1>5, <1>7 DEF ReadTransient, In, Goto
<1>8. CASE ReadPersistent(w)
  BY <1>2, <1>3, <1>4, <1>5, <1>8 DEF ReadPersistent, In
<1>9. CASE Promote(w)
  <2> DEFINE g == Frame("stamp", f.key, f.value, f.ttl, f.hit)
  <2>1. frame' = [frame EXCEPT ![w] = g] /\ f.pc = "promote" /\ g.pc = "stamp" /\ g.key = f.key
    BY <1>9 DEF Promote, In, Goto, GotoWith, Frame
  <2>2. Untimed(transient') \subseteq Untimed(T) \cup {f.key}
    <3>1. transient' = At(Put(T, f.key, f.value), now)
      BY <1>9 DEF Promote, Transient
    <3>2. Untimed(Put(T, f.key, f.value)) \subseteq Untimed(T) \cup {f.key}
      BY UntimedPut
    <3>3. Untimed(transient') \subseteq Untimed(Put(T, f.key, f.value))
      BY <3>1, UntimedAt
    <3> QED
      BY <3>2, <3>3
  <2> HIDE DEF g
  <2> QED
    BY <1>1, <2>1, <2>2, StoringStep
<1>10. ASSUME NEW d \in Nat, NEW r, Transient(SetDeadline(T, f.key, d)), Return(w, r)
       PROVE  NoImmortalCopy'
  <2>1. Untimed(transient') \subseteq Untimed(T) \ {f.key}
    <3>1. Untimed(SetDeadline(T, f.key, d)) \subseteq Untimed(T) \ {f.key}
      BY UntimedSetDeadline
    <3>2. Untimed(transient') \subseteq Untimed(SetDeadline(T, f.key, d))
      BY <1>10, UntimedAt DEF Transient
    <3> QED
      BY <3>1, <3>2
  <2>2. \A k \in Untimed(transient') : ~Stamping(w, k)
    BY <2>1 DEF Stamping
  <2> QED
    BY <1>1, <1>10, <2>1, <2>2, HarmlessStep DEF Return
<1>11. CASE Stamp(w)
  <2>1. now + CachePromotion \in Nat
    BY <1>1, CachePromotionAssumption
  <2> QED
    BY <1>10, <1>11, <2>1 DEF Stamp
<1>12. CASE WritePersistent(w)
  BY <1>2, <1>4, <1>5, <1>12 DEF WritePersistent, In, Goto
<1>13. CASE Invalidate(w)
  BY <1>2, <1>3, <1>6, <1>13 DEF Invalidate, In
<1>14. CASE DeleteTransient(w)
  BY <1>2, <1>4, <1>6, <1>14 DEF DeleteTransient, In, Goto
<1>15. CASE DeletePersistent(w)
  BY <1>2, <1>3, <1>5, <1>15 DEF DeletePersistent, In
<1>16. CASE MatchTransient(w)
  <2>1. Transient(Remove(T, f.key)) \/ Transient(T)
    BY <1>16 DEF MatchTransient
  <2> QED
    BY <1>2, <1>4, <1>6, <1>16, <2>1 DEF MatchTransient, In
<1>17. CASE MatchPersistent(w)
  BY <1>2, <1>3, <1>5, <1>17 DEF MatchPersistent, In
<1>18. CASE TtlRead(w)
  BY <1>2, <1>4, <1>5, <1>18 DEF TtlRead, In, Goto
<1>19. CASE TtlDelete(w)
  BY <1>2, <1>4, <1>5, <1>19 DEF TtlDelete, In, Goto
<1>20. CASE TtlMove(w)
  <2> DEFINE g == Frame("ttl_set", f.key, f.value, f.ttl, f.hit)
  <2>1. frame' = [frame EXCEPT ![w] = g] /\ f.pc = "ttl_move" /\ g.pc = "ttl_set" /\ g.key = f.key
    BY <1>20 DEF TtlMove, In, Goto, GotoWith, Frame
  <2>2. Untimed(transient') \subseteq Untimed(T) \cup {f.key}
    <3>1. transient' = At(Put(T, f.key, f.value), now)
      BY <1>20 DEF TtlMove, Transient
    <3>2. Untimed(Put(T, f.key, f.value)) \subseteq Untimed(T) \cup {f.key}
      BY UntimedPut
    <3>3. Untimed(transient') \subseteq Untimed(Put(T, f.key, f.value))
      BY <3>1, UntimedAt
    <3> QED
      BY <3>2, <3>3
  <2> HIDE DEF g
  <2> QED
    BY <1>1, <2>1, <2>2, StoringStep
<1>21. CASE TtlSet(w)
  <2>1. f.pc \in WithTtl
    BY <1>21 DEF TtlSet, In, WithTtl
  <2>2. now + f.ttl \in Nat
    BY <1>1, <2>1, FrameHolds
  <2> QED
    BY <1>10, <1>21, <2>2 DEF TtlSet
<1>22. CASE TimedClear(w)
  BY <1>2, <1>4, <1>5, <1>22 DEF TimedClear, In, Goto
<1>23. CASE TimedWrite(w)
  <2> DEFINE m == PutUntil(T, f.key, f.value, now + f.ttl)
  <2>1. f.pc = "timed_write" /\ f.pc \in WithTtl
    BY <1>23 DEF TimedWrite, In, WithTtl
  <2>2. now + f.ttl \in Nat
    BY <1>1, <2>1, FrameHolds
  <2>3. Untimed(m) \subseteq Untimed(T)
    BY <2>2, UntimedPutUntil
  <2>4. Untimed(transient') \subseteq Untimed(m)
    BY <1>23, UntimedAt DEF TimedWrite, Transient
  <2> HIDE DEF m
  <2> QED
    BY <1>2, <1>3, <1>23, <2>1, <2>3, <2>4 DEF TimedWrite
<1>24. CASE ReadTtlRemaining(w)
  BY <1>2, <1>3, <1>5, <1>24 DEF ReadTtlRemaining, In
<1>25. CASE FindTransient(w)
  BY <1>2, <1>4, <1>5, <1>25 DEF FindTransient, In
<1>26. CASE FindPersistent(w)
  BY <1>2, <1>3, <1>5, <1>26 DEF FindPersistent, In
<1> QED
  BY <1>7, <1>8, <1>9, <1>11, <1>12, <1>13, <1>14, <1>15, <1>16, <1>17, <1>18, <1>19,
     <1>20, <1>21, <1>22, <1>23, <1>24, <1>25, <1>26 DEF Step

\* Nor does a worker that starts a call.
LEMMA InvokeMortal ==
    ASSUME TypeOK, NoImmortalCopy, NEW w \in Worker,
           InvokeQuery(w) \/ \E k \in Key : InvokeUpdate(w, k)
    PROVE  NoImmortalCopy'
<1>1. \E g : frame[w].pc = "idle" /\ frame' = [frame EXCEPT ![w] = g] /\ transient' = transient
  BY DEF InvokeQuery, InvokeUpdate, InvokeRead, InvokeReadTtl, InvokeFind, InvokeWrite,
         InvokeClaim, InvokeDelete, InvokeWriteTtl, InvokeWriteTimed, Invoke, In, OnlyReads
<1>2. WorkersOK
  BY DEF TypeOK, WorkersOK
<1> QED
  BY <1>1, <1>2, HarmlessStep DEF Stamping

\* The untimed copies that a read or a write_ttl leaves in the transient tier
\* are always about to be stamped, with any number of threads, whatever the
\* interleaving, the disk errors and the restarts.
THEOREM NoCopyIsImmortal == Spec => []NoImmortalCopy
<1>1. Init => NoImmortalCopy
  BY DEF Init, NoImmortalCopy, RegistryEntries
<1>2. TypeOK /\ NoImmortalCopy /\ [Next]_vars => NoImmortalCopy'
  <2> SUFFICES ASSUME TypeOK, NoImmortalCopy, [Next]_vars PROVE NoImmortalCopy'
    OBVIOUS
  <2>1. CASE Tick
    <3>1. Untimed(transient') \subseteq Untimed(transient)
      BY <2>1, UntimedAt DEF Tick
    <3>2. \A k : BeingStamped(k)' <=> BeingStamped(k)
      BY <2>1 DEF Tick, BeingStamped
    <3> QED
      BY <3>1, <3>2 DEF NoImmortalCopy, Untimed
  <2>2. CASE Crash
    BY <2>2 DEF Crash, NoImmortalCopy, RegistryEntries
  <2>3. ASSUME NEW w \in Worker,
               Step(w) \/ InvokeQuery(w) \/ \E k \in Key : InvokeUpdate(w, k)
        PROVE  NoImmortalCopy'
    BY <2>3, StepMortal, InvokeMortal
  <2>4. CASE UNCHANGED vars
    BY <2>4 DEF vars, NoImmortalCopy, BeingStamped
  <2> QED
    BY <2>1, <2>2, <2>3, <2>4 DEF Next
<1> QED
  BY <1>1, <1>2, InitType, NextType, PTL DEF Spec

-----------------------------------------------------------------------------
\* Jobs are claimed at most once

\* The workloads: without read_value, which copies a value to the transient tier, and
\* write_ttl, which moves it there.
NoCopies ==
    \A load \in Workloads, w \in Worker :
        ~load.linear => load.methods[w] \cap {"read_transient", "ttl_read"} = {}

\* Where the calls of such a workload can be.
Uncopying ==
    {"idle", "write_persistent", "invalidate", "delete_transient", "delete_persistent",
     "match_transient", "match_persistent", "timed_clear", "timed_write", "remaining",
     "find_transient", "find_persistent"}

\* The call is to store a value of k that was counted, or has taken one that is to be.
Owes(f, k) ==
    /\ f.key = k
    /\ \/ f.pc \in {"write_persistent", "timed_clear", "timed_write"}
       \/ f.pc = "match_persistent" /\ f.hit

Owing(k) == {w \in Worker : Owes(frame[w], k)}

Bit(b) == IF b THEN 1 ELSE 0

\* The values of k that are stored, will be stored or have just been taken.
Account(k) ==
    Bit(k \in DOMAIN transient) + Bit(k \in DOMAIN persistent) + Cardinality(Owing(k))

\* Every one of them was counted when it was posted.
Covered ==
    /\ workload \in Workloads
    /\ credit \in [Key -> Int]
    /\ workload.linear => \A k \in Key : credit[k] = 0
    /\ ~workload.linear =>
         /\ \A w \in Worker : frame[w].pc \in Uncopying
         /\ \A k \in Key \ Registry : credit[k] >= Account(k)

ClaimInv == TypeOK /\ Covered

-----------------------------------------------------------------------------
\* How a step of one call changes the account.

\* A call moves on: the others owe what they owed.
LEMMA OwingStep ==
    ASSUME TypeOK, NEW w \in Worker, NEW f, frame' = [frame EXCEPT ![w] = f], NEW k
    PROVE  /\ Cardinality(Owing(k)) \in Nat /\ Cardinality(Owing(k)') \in Nat
           /\ Cardinality(Owing(k)') = Cardinality(Owing(k)) - Bit(Owes(frame[w], k)) + Bit(Owes(f, k))
<1> DEFINE S == Owing(k)
           R == S \ {w}
<1>1. IsFiniteSet(S)
  BY WorkerAssumption, FS_Subset DEF Owing
<1>2. frame'[w] = f /\ \A x \in Worker \ {w} : frame'[x] = frame[x]
  BY DEF TypeOK
<1>3. w \in S <=> Owes(frame[w], k)
  BY DEF Owing
<1>4. Owing(k)' = IF Owes(f, k) THEN R \cup {w} ELSE R
  <2>1. \A x \in Worker : x \in Owing(k)' <=> Owes(frame'[x], k)
    BY DEF Owing, Owes
  <2>2. \A x \in Worker \ {w} : x \in Owing(k)' <=> x \in S
    BY <1>2, <2>1 DEF Owing
  <2>3. w \in Owing(k)' <=> Owes(f, k)
    BY <1>2, <2>1
  <2>4. Owing(k)' \subseteq Worker /\ S \subseteq Worker
    BY DEF Owing
  <2> HIDE DEF S
  <2> QED
    BY <2>2, <2>3, <2>4
<1> HIDE DEF S
<1>5. IsFiniteSet(R) /\ Cardinality(R) = Cardinality(S) - Bit(w \in S)
  BY <1>1, FS_RemoveElement, FS_CardinalityType DEF Bit
<1>6. IsFiniteSet(R \cup {w}) /\ Cardinality(R \cup {w}) = Cardinality(R) + 1
  BY <1>5, FS_AddElement
<1>7. Cardinality(S) \in Nat /\ Cardinality(R) \in Nat /\ Cardinality(R \cup {w}) \in Nat
  BY <1>1, <1>5, <1>6, FS_CardinalityType
<1> HIDE DEF R
<1>8. CASE Owes(f, k)
  BY <1>3, <1>4, <1>5, <1>6, <1>7, <1>8 DEF Bit, S
<1>9. CASE ~Owes(f, k)
  BY <1>3, <1>4, <1>5, <1>7, <1>9 DEF Bit, S
<1> QED
  BY <1>8, <1>9

\* So the account changes by what the step does to the tiers and to its own call.
LEMMA AccountStep ==
    ASSUME TypeOK, NEW w \in Worker, NEW f, frame' = [frame EXCEPT ![w] = f], NEW k,
           NEW paid \in Int,
           Bit(k \in DOMAIN transient') + Bit(k \in DOMAIN persistent') + Bit(Owes(f, k)) + paid
             <= Bit(k \in DOMAIN transient) + Bit(k \in DOMAIN persistent) + Bit(Owes(frame[w], k))
    PROVE  Account(k)' + paid <= Account(k)
<1>1. /\ Cardinality(Owing(k)) \in Nat /\ Cardinality(Owing(k)') \in Nat
      /\ Cardinality(Owing(k)') = Cardinality(Owing(k)) - Bit(Owes(frame[w], k)) + Bit(Owes(f, k))
  BY OwingStep
<1>2. \A b : Bit(b) \in Int
  BY DEF Bit
<1>3. Account(k)' = Bit(k \in DOMAIN transient') + Bit(k \in DOMAIN persistent') + Cardinality(Owing(k)')
  BY DEF Account, Bit
<1> QED
  BY <1>1, <1>2, <1>3 DEF Account

\* What the operations do to the keys of a map.
LEMMA Domains ==
    ASSUME NEW m, NEW k, NEW v, NEW t
    PROVE  /\ DOMAIN At(m, t) \subseteq DOMAIN m
           /\ DOMAIN Remove(m, k) = DOMAIN m \ {k}
           /\ DOMAIN Insert(m, k, v) = DOMAIN m \cup {k}
BY DEF At, Keep, Remove, RemoveAll, Insert

\* A step on the transient tier leaves at most the keys it stores.
LEMMA TransientKeys ==
    ASSUME NEW m, Transient(m)
    PROVE  DOMAIN transient' \subseteq DOMAIN m /\ persistent' = persistent
BY Domains DEF Transient

\* A step on the persistent tier leaves its rows.
LEMMA PersistentKeys ==
    ASSUME NEW rows, Persistent(rows), ~FaultyDisk
    PROVE  persistent' = rows /\ transient' = transient
BY DEF Persistent

\* Calls that return owe nothing.
LEMMA IdleOwes == ASSUME NEW k PROVE ~Owes(Idle, k) /\ Idle.pc = "idle"
BY DEF Owes, Idle, Frame

\* What a step of a call that copies nothing does to the account of k: the value it takes
\* is the one it is paid for.
LEMMA StepPays ==
    ASSUME TypeOK, ~FaultyDisk, NEW w \in Worker, frame[w].pc \in Uncopying, Step(w),
           NEW k
    PROVE  LET paid == Bit(In(w, "match_persistent") /\ reply'[w] /\ frame[w].key = k)
           IN  \E f : /\ frame' = [frame EXCEPT ![w] = f]
                      /\ f.pc \in Uncopying
                      /\ Account(k)' + paid <= Account(k)
<1> DEFINE paid == Bit(In(w, "match_persistent") /\ reply'[w] /\ frame[w].key = k)
           g(pc, value, hit) == Frame(pc, frame[w].key, value, frame[w].ttl, hit)
           Before == Bit(k \in DOMAIN transient) + Bit(k \in DOMAIN persistent) + Bit(Owes(frame[w], k))
           After(f) == Bit(k \in DOMAIN transient') + Bit(k \in DOMAIN persistent') + Bit(Owes(f, k))
<1>0. paid \in Int
  BY DEF Bit
<1>p. \A rows : Persistent(rows) => persistent' = rows /\ transient' = transient
  BY PersistentKeys
<1>s. Selected = {persistent}
  BY DEF Selected
<1>r. \A r : Return(w, r) => frame' = [frame EXCEPT ![w] = Idle] /\ reply'[w] = r
  BY DEF Return, TypeOK
<1> SUFFICES ASSUME TRUE
             PROVE  \E f : /\ frame' = [frame EXCEPT ![w] = f]
                           /\ f.pc \in Uncopying
                           /\ After(f) + paid <= Before
  <2>1. PICK f : frame' = [frame EXCEPT ![w] = f] /\ f.pc \in Uncopying /\ After(f) + paid <= Before
    OBVIOUS
  <2>2. Account(k)' + paid <= Account(k)
    BY <1>0, <2>1, AccountStep
  <2> QED
    BY <2>1, <2>2
<1>1. CASE WritePersistent(w)
  <2>1. frame' = [frame EXCEPT ![w] = g("invalidate", frame[w].value, frame[w].hit)]
        /\ persistent' = Insert(persistent, frame[w].key, frame[w].value) /\ transient' = transient
        /\ frame[w].pc = "write_persistent"
    BY <1>1, <1>p DEF WritePersistent, Goto, GotoWith, In
  <2>2. paid = 0 /\ DOMAIN persistent' = DOMAIN persistent \cup {frame[w].key}
    BY <2>1, Domains DEF Bit, In
  <2>3. After(g("invalidate", frame[w].value, frame[w].hit)) + paid <= Before
    BY <2>1, <2>2 DEF Bit, Owes, Frame
  <2>4. g("invalidate", frame[w].value, frame[w].hit).pc \in Uncopying
    BY DEF Frame, Uncopying
  <2> QED
    BY <2>1, <2>3, <2>4
<1> DEFINE key == frame[w].key
<1>2. CASE Invalidate(w) \/ DeletePersistent(w) \/ TimedWrite(w) \/ ReadTtlRemaining(w) \/ FindPersistent(w)
  <2>1. frame' = [frame EXCEPT ![w] = Idle] /\ paid = 0
    BY <1>2, <1>r DEF Invalidate, DeletePersistent, TimedWrite, ReadTtlRemaining, FindPersistent, In, Bit
  <2>2. /\ DOMAIN persistent' \subseteq DOMAIN persistent
        /\ \/ DOMAIN transient' \subseteq DOMAIN transient
           \/ frame[w].pc = "timed_write" /\ DOMAIN transient' \subseteq DOMAIN transient \cup {key}
    <3>1. CASE Invalidate(w)
      <4>1. Transient(Remove(transient, key))
        BY <3>1 DEF Invalidate
      <4>2. DOMAIN Remove(transient, key) = DOMAIN transient \ {key}
        BY Domains
      <4> QED
        BY <4>1, <4>2, TransientKeys
    <3>2. CASE DeletePersistent(w)
      <4>1. persistent' = Remove(persistent, key) /\ transient' = transient
        BY <3>2, PersistentKeys DEF DeletePersistent
      <4>2. DOMAIN Remove(persistent, key) = DOMAIN persistent \ {key}
        BY Domains
      <4> QED
        BY <4>1, <4>2
    <3>3. CASE TimedWrite(w)
      <4> DEFINE e == [value |-> frame[w].value, deadline |-> now + frame[w].ttl]
      <4>1. Transient(Insert(transient, key, e)) /\ frame[w].pc = "timed_write"
        BY <3>3 DEF TimedWrite, PutUntil, In
      <4>2. DOMAIN Insert(transient, key, e) = DOMAIN transient \cup {key}
        BY DEF Insert
      <4> HIDE DEF e
      <4> QED
        BY <4>1, <4>2, TransientKeys
    <3>4. CASE ReadTtlRemaining(w) \/ FindPersistent(w)
      BY <3>4 DEF ReadTtlRemaining, FindPersistent, OnlyReads
    <3> QED
      BY <1>2, <3>1, <3>2, <3>3, <3>4
  <2>3. After(Idle) + paid <= Before
    BY <2>1, <2>2, IdleOwes DEF Bit, Owes
  <2> QED
    BY <2>1, <2>3, IdleOwes DEF Uncopying
<1>3. CASE DeleteTransient(w) \/ TimedClear(w) \/ FindTransient(w)
  <2> DEFINE d == g("delete_persistent", frame[w].value, frame[w].hit)
             t == g("timed_write", frame[w].value, frame[w].hit)
             p == g("find_persistent", Values(transient, key), FALSE)
  <2>0. /\ d.pc = "delete_persistent" /\ t.pc = "timed_write" /\ p.pc = "find_persistent"
        /\ d.key = key /\ t.key = key /\ p.key = key
    BY DEF Frame
  <2>1. \E f : /\ frame' = [frame EXCEPT ![w] = f] /\ f.pc \in Uncopying
               /\ Owes(f, k) => Owes(frame[w], k)
    <3>1. CASE DeleteTransient(w)
      <4>1. frame' = [frame EXCEPT ![w] = d]
        BY <3>1 DEF DeleteTransient, Goto, GotoWith
      <4>2. d.pc \in Uncopying /\ ~Owes(d, k)
        BY <2>0 DEF Uncopying, Owes
      <4> QED
        BY <4>1, <4>2
    <3>2. CASE TimedClear(w)
      <4>1. frame' = [frame EXCEPT ![w] = t] /\ frame[w].pc = "timed_clear"
        BY <3>2 DEF TimedClear, Goto, GotoWith, In
      <4>2. t.pc \in Uncopying /\ (Owes(t, k) => Owes(frame[w], k))
        BY <2>0, <4>1 DEF Uncopying, Owes
      <4> QED
        BY <4>1, <4>2
    <3>3. CASE FindTransient(w)
      <4>1. frame' = [frame EXCEPT ![w] = p]
        BY <3>3 DEF FindTransient, GotoWith
      <4>2. p.pc \in Uncopying /\ ~Owes(p, k)
        BY <2>0 DEF Uncopying, Owes
      <4> QED
        BY <4>1, <4>2
    <3> QED
      BY <1>3, <3>1, <3>2, <3>3
  <2>2. PICK f : /\ frame' = [frame EXCEPT ![w] = f] /\ f.pc \in Uncopying
                 /\ Owes(f, k) => Owes(frame[w], k)
    BY <2>1
  <2>3. DOMAIN persistent' \subseteq DOMAIN persistent /\ DOMAIN transient' \subseteq DOMAIN transient
    <3>1. DOMAIN Remove(transient, key) = DOMAIN transient \ {key}
          /\ DOMAIN Remove(persistent, key) = DOMAIN persistent \ {key}
      BY Domains
    <3>2. CASE DeleteTransient(w)
      BY <3>1, <3>2, TransientKeys DEF DeleteTransient
    <3>3. CASE TimedClear(w)
      <4>1. persistent' = Remove(persistent, key) /\ transient' = transient
        BY <3>3, PersistentKeys DEF TimedClear
      <4> QED
        BY <3>1, <4>1
    <3>4. CASE FindTransient(w)
      BY <3>4 DEF FindTransient, OnlyReads
    <3> QED
      BY <1>3, <3>2, <3>3, <3>4
  <2>4. paid = 0
    BY <1>3 DEF DeleteTransient, TimedClear, FindTransient, In, Bit
  <2>5. After(f) + paid <= Before
    BY <2>2, <2>3, <2>4 DEF Bit
  <2> QED
    BY <2>2, <2>5
<1>4. CASE MatchTransient(w)
  <2> DEFINE m == Holds(transient, key, frame[w].value)
             f == g("match_persistent", frame[w].value, m)
  <2>1. frame' = [frame EXCEPT ![w] = f]
    BY <1>4 DEF MatchTransient, GotoWith
  <2>2. f.pc = "match_persistent" /\ f.key = key /\ f.hit = m
    BY DEF Frame
  <2>3. paid = 0 /\ frame[w].pc = "match_transient" /\ persistent' = persistent
    BY <1>4 DEF MatchTransient, In, Bit, Transient
  <2>4. /\ DOMAIN transient' \subseteq DOMAIN transient
        /\ m => key \in DOMAIN transient /\ key \notin DOMAIN transient'
    <3>1. DOMAIN Remove(transient, key) = DOMAIN transient \ {key}
      BY Domains
    <3>2. CASE m
      <4>1. Transient(Remove(transient, key))
        BY <1>4, <3>2 DEF MatchTransient
      <4>2. key \in DOMAIN transient
        BY <3>2 DEF Holds
      <4> QED
        BY <3>1, <4>1, <4>2, TransientKeys
    <3>3. CASE ~m
      <4>1. Transient(transient)
        BY <1>4, <3>3 DEF MatchTransient
      <4> QED
        BY <3>3, <4>1, TransientKeys
    <3> QED
      BY <3>2, <3>3
  <2>5. Owes(f, k) => m /\ key = k
    BY <2>2 DEF Owes
  <2>6. f.pc \in Uncopying
    BY <2>2 DEF Uncopying
  <2> HIDE DEF m, f
  <2>7. After(f) + paid <= Before
    BY <2>3, <2>4, <2>5 DEF Bit
  <2> QED
    BY <2>1, <2>6, <2>7
<1>5. CASE MatchPersistent(w)
  <2> DEFINE m == Get(persistent, key, None) = frame[w].value
  <2>1. /\ frame[w].pc = "match_persistent" /\ frame' = [frame EXCEPT ![w] = Idle]
        /\ reply'[w] = (frame[w].hit \/ m) /\ transient' = transient
        /\ persistent' = IF m THEN Remove(persistent, key) ELSE persistent
    BY <1>5, <1>p, <1>r, <1>s DEF MatchPersistent, In
  <2>2. frame[w].value \in Value /\ key \in Key
    BY <2>1, FrameHolds DEF TypeOK, FrameOK, WithValue, OnKey
  <2>3. m => key \in DOMAIN persistent
    BY <2>2, NoneAssumption DEF Get
  <2>4. /\ DOMAIN persistent' \subseteq DOMAIN persistent
        /\ m => key \notin DOMAIN persistent'
    <3>1. DOMAIN Remove(persistent, key) = DOMAIN persistent \ {key}
      BY Domains
    <3> HIDE DEF m
    <3> QED
      BY <2>1, <3>1
  <2>5. Owes(frame[w], k) <=> frame[w].hit /\ key = k
    BY <2>1 DEF Owes
  <2>6. paid = Bit((frame[w].hit \/ m) /\ key = k)
    BY <2>1 DEF In
  <2> HIDE DEF m
  <2>7. After(Idle) + paid <= Before
    BY <2>1, <2>3, <2>4, <2>5, <2>6, IdleOwes DEF Bit
  <2> QED
    BY <2>1, <2>7, IdleOwes DEF Uncopying
<1> QED
  BY <1>1, <1>2, <1>3, <1>4, <1>5
  DEF Step, Uncopying, In, ReadTransient, ReadPersistent, Promote, Stamp, TtlRead, TtlDelete, TtlMove, TtlSet

-----------------------------------------------------------------------------
\* The history variables watch: every step of the history is a step of the tiers.

\* So what holds of the steps of the tiers holds of those of the history.
LEMMA HistoryStep ==
    ASSUME [HistoryNext]_allVars
    PROVE  [Next]_vars
<1>1. CASE UNCHANGED allVars
  BY <1>1 DEF allVars
<1>2. CASE Pass \/ Restart
  BY <1>2 DEF Pass, Restart, Next
<1>3. ASSUME NEW w \in Worker, Begin(w)
      PROVE  Next
  BY <1>3 DEF Begin, Next, InvokeQuery
<1>4. ASSUME NEW w \in Worker, Continue(w) \/ End(w)
      PROVE  Next
  BY <1>4 DEF Continue, End, Next
<1> QED
  BY <1>1, <1>2, <1>3, <1>4 DEF HistoryNext

\* The first steps of the methods.
Opening == {"read_transient", "ttl_read", "write_persistent", "delete_transient",
            "match_transient", "timed_clear", "remaining", "find_transient"}

\* A call begins with its first step and touches nothing.
LEMMA BeginFrame ==
    ASSUME TypeOK, NEW w \in Worker, Begin(w)
    PROVE  \E f : /\ frame' = [frame EXCEPT ![w] = f]
                  /\ f.pc \in Opening \cap workload.methods[w] /\ f.hit = FALSE
                  /\ frame[w].pc = "idle" /\ OnlyReads
<1>1. \A call, pc, x, v, d :
        Invoke(w, call, pc, x, v, d) /\ pc \in Opening =>
          \E f : /\ frame' = [frame EXCEPT ![w] = f] /\ f.pc \in Opening /\ f.hit = FALSE
                /\ frame[w].pc = "idle" /\ OnlyReads
  <2> TAKE call, pc, x, v, d
  <2> HAVE Invoke(w, call, pc, x, v, d) /\ pc \in Opening
  <2> DEFINE f == Frame(pc, x, v, d, FALSE)
  <2>1. frame' = [frame EXCEPT ![w] = f] /\ frame[w].pc = "idle" /\ OnlyReads
    BY DEF Invoke, In
  <2>2. f.pc = pc /\ f.hit = FALSE
    BY DEF Frame
  <2> HIDE DEF f
  <2> QED
    BY <2>1, <2>2
<1>2. \E call, pc, x, v, d : Invoke(w, call, pc, x, v, d) /\ pc \in Opening
  <2>1. ASSUME NEW x \in Key, InvokeRead(w, x) \/ InvokeReadTtl(w, x)
        PROVE  \E call, pc, y, v, d : Invoke(w, call, pc, y, v, d) /\ pc \in Opening
    BY <2>1 DEF InvokeRead, InvokeReadTtl, Opening
  <2>2. ASSUME NEW x \in Key, InvokeUpdate(w, x)
        PROVE  \E call, pc, y, v, d : Invoke(w, call, pc, y, v, d) /\ pc \in Opening
    BY <2>2 DEF InvokeUpdate, InvokeWrite, InvokeClaim, InvokeDelete, InvokeWriteTtl, InvokeWriteTimed, Opening
  <2>3. ASSUME NEW p \in Prefixes, InvokeFind(w, p)
        PROVE  \E call, pc, y, v, d : Invoke(w, call, pc, y, v, d) /\ pc \in Opening
    BY <2>3 DEF InvokeFind, Opening
  <2> QED
    BY <2>1, <2>2, <2>3 DEF Begin
<1>3. PICK f : /\ frame' = [frame EXCEPT ![w] = f] /\ f.pc \in Opening /\ f.hit = FALSE
               /\ frame[w].pc = "idle" /\ OnlyReads
  BY <1>1, <1>2
<1>4. frame'[w] = f
  BY <1>3 DEF TypeOK
<1>5. f.pc \in workload.methods[w]
  BY <1>4 DEF Begin
<1> QED
  BY <1>3, <1>5

\* A call that begins owes the value it was counted for, and nothing else changes.
LEMMA BeginPays ==
    ASSUME TypeOK, NoCopies, workload \in Workloads, ~workload.linear, NEW w \in Worker,
           frame[w].pc \in Uncopying, Begin(w), NEW k
    PROVE  \E f : /\ frame' = [frame EXCEPT ![w] = f]
                  /\ f.pc \in Uncopying
                  /\ Account(k)' <= Account(k) + Bit(f.pc \in {"write_persistent", "timed_clear"} /\ f.key = k)
<1>2. PICK f : /\ frame' = [frame EXCEPT ![w] = f]
               /\ f.pc \in Opening \cap workload.methods[w] /\ f.hit = FALSE
               /\ frame[w].pc = "idle" /\ OnlyReads
  BY BeginFrame
<1>3. f.pc \notin {"read_transient", "ttl_read"}
  BY <1>2 DEF NoCopies
<1>4. f.pc \in Uncopying
  BY <1>2, <1>3 DEF Uncopying, Opening
<1>5. Owes(f, k) <=> f.pc \in {"write_persistent", "timed_clear"} /\ f.key = k
  BY <1>2 DEF Owes, Opening
<1>6. ~Owes(frame[w], k)
  BY <1>2 DEF Owes
<1>7. Account(k)' - Bit(Owes(f, k)) <= Account(k) /\ Account(k)' \in Int /\ Account(k) \in Int
  <2>1. Account(k)' \in Int /\ Account(k) \in Int
    <3>1. Cardinality(Owing(k)) \in Nat /\ Cardinality(Owing(k)') \in Nat
      BY <1>2, OwingStep
    <3>2. \A b : Bit(b) \in Int
      BY DEF Bit
    <3>3. Account(k)' = Bit(k \in DOMAIN transient') + Bit(k \in DOMAIN persistent') + Cardinality(Owing(k)')
      BY DEF Account, Bit
    <3> QED
      BY <3>1, <3>2, <3>3 DEF Account
  <2>2. -Bit(Owes(f, k)) \in Int
    BY DEF Bit
  <2>3. Account(k)' + (-Bit(Owes(f, k))) <= Account(k)
    <3>1. transient' = transient /\ persistent' = persistent
      BY <1>2 DEF OnlyReads
    <3>2. Bit(k \in DOMAIN transient') + Bit(k \in DOMAIN persistent') + Bit(Owes(f, k)) + (-Bit(Owes(f, k)))
             <= Bit(k \in DOMAIN transient) + Bit(k \in DOMAIN persistent) + Bit(Owes(frame[w], k))
      BY <1>6, <3>1 DEF Bit
    <3> QED
      BY <1>2, <2>2, <3>2, AccountStep
  <2> QED
    BY <2>1, <2>2, <2>3 DEF Bit
<1>8. Account(k)' <= Account(k) + Bit(f.pc \in {"write_persistent", "timed_clear"} /\ f.key = k)
  BY <1>5, <1>7 DEF Bit
<1> QED
  BY <1>2, <1>4, <1>8

-----------------------------------------------------------------------------
\* The account is covered, always.

\* At first nothing is posted.
LEMMA InitCovered ==
    ASSUME HistoryInit
    PROVE  Covered
<1>1. workload \in Workloads /\ credit = [k \in Key |-> 0] /\ Init
  BY DEF HistoryInit
<1>2. \A w \in Worker : frame[w] = Idle
  BY <1>1 DEF Init
<1>3. \A w \in Worker : frame[w].pc \in Uncopying
  BY <1>2, IdleOwes DEF Uncopying
<1>4. ASSUME NEW k \in Key \ Registry
      PROVE  Account(k) = 0
  <2>1. Owing(k) = {}
    BY <1>2, IdleOwes DEF Owing
  <2>2. k \notin DOMAIN transient /\ k \notin DOMAIN persistent
    BY <1>1 DEF Init, RegistryEntries, EmptyMap
  <2> QED
    BY <2>1, <2>2, FS_EmptySet DEF Account, Bit
<1> QED
  BY <1>1, <1>3, <1>4 DEF Covered

\* A step of a call is paid for.
LEMMA StepCovered ==
    ASSUME ClaimInv, NoCopies, ~FaultyDisk, NEW w \in Worker, Begin(w) \/ Continue(w) \/ End(w)
    PROVE  Covered'
<1> USE DEF ClaimInv
<1>1. workload' = workload
  BY DEF Begin, Continue, End
<1>2. CASE workload.linear
  <2>1. credit' = credit
    BY <1>2 DEF Begin, Continue, End
  <2> QED
    BY <1>1, <1>2, <2>1 DEF Covered
<1>3. CASE ~workload.linear
  <2> SUFFICES /\ \A x \in Worker : frame'[x].pc \in Uncopying
               /\ credit' \in [Key -> Int]
               /\ \A k \in Key \ Registry : credit'[k] >= Account(k)'
    BY <1>1, <1>3 DEF Covered
  <2>0. /\ \A x \in Worker : frame[x].pc \in Uncopying
        /\ credit \in [Key -> Int] /\ workload \in Workloads
        /\ \A k \in Key \ Registry : credit[k] >= Account(k)
    BY <1>3 DEF Covered
  <2>f. ASSUME NEW f, frame' = [frame EXCEPT ![w] = f], f.pc \in Uncopying
        PROVE  \A x \in Worker : frame'[x].pc \in Uncopying
    BY <2>0, <2>f DEF TypeOK
  <2>a. ASSUME NEW f, frame' = [frame EXCEPT ![w] = f], NEW k
        PROVE  Account(k)' \in Int /\ Account(k) \in Int
    <3>1. Cardinality(Owing(k)) \in Nat /\ Cardinality(Owing(k)') \in Nat
      BY <2>a, OwingStep
    <3>2. \A b : Bit(b) \in Int
      BY DEF Bit
    <3>3. Account(k)' = Bit(k \in DOMAIN transient') + Bit(k \in DOMAIN persistent') + Cardinality(Owing(k)')
      BY DEF Account, Bit
    <3> QED
      BY <3>1, <3>2, <3>3 DEF Account
  <2>1. CASE Begin(w)
    <3>1. ASSUME NEW k
          PROVE  \E f : /\ frame' = [frame EXCEPT ![w] = f]
                        /\ f.pc \in Uncopying
                        /\ Account(k)' <= Account(k) + Bit(f.pc \in {"write_persistent", "timed_clear"} /\ f.key = k)
      BY <1>3, <2>0, <2>1, BeginPays
    <3> DEFINE posts == frame'[w].pc \in {"write_persistent", "timed_clear"}
               at == frame'[w].key
    <3>2. credit' = IF posts THEN [credit EXCEPT ![at] = @ + 1] ELSE credit
      BY <1>3, <2>1 DEF Begin
    <3>3. \A x \in Worker : frame'[x].pc \in Uncopying
      <4>1. \E f : frame' = [frame EXCEPT ![w] = f] /\ f.pc \in Uncopying
        BY <3>1
      <4> QED
        BY <4>1, <2>f
    <3>4. ASSUME NEW k \in Key
          PROVE  /\ Account(k)' \in Int /\ Account(k) \in Int
                 /\ Account(k)' <= Account(k) + Bit(posts /\ at = k)
      <4>1. PICK f : /\ frame' = [frame EXCEPT ![w] = f]
                     /\ Account(k)' <= Account(k) + Bit(f.pc \in {"write_persistent", "timed_clear"} /\ f.key = k)
        BY <3>1
      <4>2. frame'[w] = f
        BY <4>1 DEF TypeOK
      <4> QED
        BY <2>a, <4>1, <4>2
    <3> HIDE DEF posts, at
    <3>5. DOMAIN credit' = Key /\ \A k \in Key : credit'[k] = credit[k] + Bit(posts /\ at = k)
      <4>1. CASE posts
        <5>1. credit' = [credit EXCEPT ![at] = @ + 1]
          BY <3>2, <4>1
        <5> QED
          BY <2>0, <4>1, <5>1 DEF Bit
      <4>2. CASE ~posts
        BY <2>0, <3>2, <4>2 DEF Bit
      <4> QED
        BY <4>1, <4>2
    <3>6. \A b : Bit(b) \in Int
      BY DEF Bit
    <3>7. credit' \in [Key -> Int]
      <4>1. \A k \in Key : credit'[k] \in Int
        BY <2>0, <3>5, <3>6
      <4>2. credit' = [k \in Key |-> credit'[k]]
        BY <3>2, <2>0
      <4> QED
        BY <4>1, <4>2
    <3>8. ASSUME NEW k \in Key \ Registry
          PROVE  credit'[k] >= Account(k)'
      BY <2>0, <3>4, <3>5, <3>6
    <3> QED
      BY <3>3, <3>7, <3>8
  <2>2. CASE Continue(w) \/ End(w)
    <3> DEFINE wins == In(w, "match_persistent") /\ reply'[w]
               at == frame[w].key
    <3>1. ASSUME NEW k
          PROVE  \E f : /\ frame' = [frame EXCEPT ![w] = f]
                        /\ f.pc \in Uncopying
                        /\ Account(k)' + Bit(wins /\ at = k) <= Account(k)
      BY <2>0, <2>2, StepPays DEF Continue, End
    <3>2. \A x \in Worker : frame'[x].pc \in Uncopying
      <4>1. \E f : frame' = [frame EXCEPT ![w] = f] /\ f.pc \in Uncopying
        BY <3>1
      <4> QED
        BY <4>1, <2>f
    <3>3. ASSUME NEW k
          PROVE  /\ Account(k)' \in Int /\ Account(k) \in Int
                 /\ Account(k)' + Bit(wins /\ at = k) <= Account(k)
      BY <2>a, <3>1
    <3>4. credit' = (IF wins THEN [credit EXCEPT ![at] = @ - 1] ELSE credit) \/ credit' = credit
      BY <1>3, <2>2 DEF Continue, End
    <3> HIDE DEF wins, at
    <3>5. DOMAIN credit' = Key
          /\ \A k \in Key : credit'[k] \in Int /\ credit'[k] >= credit[k] - Bit(wins /\ at = k)
      <4>1. CASE credit' = credit
        BY <2>0, <4>1 DEF Bit
      <4>2. CASE wins /\ credit' = [credit EXCEPT ![at] = @ - 1]
        BY <2>0, <4>2 DEF Bit
      <4> QED
        BY <3>4, <4>1, <4>2
    <3>6. \A b : Bit(b) \in Int
      BY DEF Bit
    <3>7. credit' \in [Key -> Int]
      <4>1. credit' = [k \in Key |-> credit'[k]]
        BY <3>4, <2>0
      <4> QED
        BY <3>5, <4>1
    <3>8. ASSUME NEW k \in Key \ Registry
          PROVE  credit'[k] >= Account(k)'
      BY <2>0, <3>3, <3>5, <3>6
    <3> QED
      BY <3>2, <3>7, <3>8
  <2> QED
    BY <2>1, <2>2
<1> QED
  BY <1>2, <1>3

\* Time only takes entries away, and so does a restart, which also ends the calls.
LEMMA PassCovered ==
    ASSUME ClaimInv, Pass \/ Restart \/ UNCHANGED allVars
    PROVE  Covered'
<1> USE DEF ClaimInv
<1>1. workload' = workload /\ credit' = credit
  BY DEF Pass, Restart, allVars, historyVars
<1>2. /\ persistent' = persistent
      /\ \/ frame' = frame /\ DOMAIN transient' \subseteq DOMAIN transient
         \/ frame' = [w \in Worker |-> Idle] /\ DOMAIN transient' \subseteq Registry
  <2>1. CASE Pass
    BY <2>1, Domains DEF Pass, Tick
  <2>2. CASE Restart
    BY <2>2 DEF Restart, Crash, RegistryEntries
  <2>3. CASE UNCHANGED allVars
    BY <2>3 DEF allVars, vars
  <2> QED
    BY <2>1, <2>2, <2>3
<1>3. \A w \in Worker : frame'[w] = frame[w] \/ frame'[w] = Idle
  BY <1>2
<1>4. ASSUME NEW k \in Key \ Registry
      PROVE  Account(k)' <= Account(k) /\ Account(k) \in Int /\ Account(k)' \in Int
  <2>1. Owing(k)' \subseteq Owing(k)
    <3>1. \A x \in Worker : x \in Owing(k)' <=> Owes(frame'[x], k)
      BY DEF Owing, Owes
    <3>2. Owing(k)' \subseteq Worker
      BY DEF Owing
    <3> QED
      BY <1>3, <3>1, <3>2, IdleOwes DEF Owing
  <2>2. IsFiniteSet(Owing(k))
    BY WorkerAssumption, FS_Subset DEF Owing
  <2>3. /\ Cardinality(Owing(k)') <= Cardinality(Owing(k))
        /\ Cardinality(Owing(k)) \in Nat /\ Cardinality(Owing(k)') \in Nat
    BY <2>1, <2>2, FS_Subset, FS_CardinalityType
  <2>4. Account(k)' = Bit(k \in DOMAIN transient') + Bit(k \in DOMAIN persistent') + Cardinality(Owing(k)')
    BY DEF Account, Bit
  <2>5. k \in DOMAIN transient' => k \in DOMAIN transient
    BY <1>2
  <2> QED
    BY <1>2, <2>3, <2>4, <2>5 DEF Account, Bit
<1>5. CASE workload.linear
  BY <1>1, <1>5 DEF Covered
<1>6. CASE ~workload.linear
  <2>1. \A w \in Worker : frame'[w].pc \in Uncopying
    BY <1>3, <1>6, IdleOwes DEF Covered, Uncopying
  <2>2. \A k \in Key \ Registry : credit'[k] >= Account(k)'
    BY <1>1, <1>4, <1>6 DEF Covered
  <2> QED
    BY <1>1, <1>6, <2>1, <2>2 DEF Covered
<1> QED
  BY <1>5, <1>6

\* A covered account is never overdrawn.
LEMMA CoveredCounts ==
    ASSUME ClaimInv
    PROVE  AtomicClaim
<1> SUFFICES ASSUME NEW k \in Key \ Registry PROVE credit[k] >= 0
  BY DEF AtomicClaim
<1>1. Cardinality(Owing(k)) \in Nat
  BY WorkerAssumption, FS_Subset, FS_CardinalityType DEF Owing
<1>2. Account(k) >= 0
  BY <1>1 DEF Account, Bit
<1>3. Account(k) \in Int
  BY <1>1 DEF Account, Bit
<1>4. workload.linear \in BOOLEAN
  BY WorkloadsAssumption DEF ClaimInv, Covered
<1> QED
  BY <1>2, <1>3, <1>4 DEF ClaimInv, Covered

\* delete_value_if_match succeeds at most once per value written, whatever the threads of
\* the server, expiry, deletes and restarts do in between, on a disk that does not fail
\* and for jobs that are neither read nor given a TTL while they wait.
THEOREM ClaimedOnce ==
    ASSUME NoCopies, ~FaultyDisk
    PROVE  HistorySpec => []AtomicClaim
<1>1. HistoryInit => ClaimInv
  BY InitType, InitCovered DEF HistoryInit, ClaimInv
<1>2. ClaimInv /\ [HistoryNext]_allVars => ClaimInv'
  <2> SUFFICES ASSUME ClaimInv, [HistoryNext]_allVars
               PROVE  ClaimInv'
    OBVIOUS
  <2>1. TypeOK'
    BY HistoryStep, NextType DEF ClaimInv
  <2>2. Covered'
    <3>1. CASE Pass \/ Restart \/ UNCHANGED allVars
      BY <3>1, PassCovered
    <3>2. ASSUME NEW w \in Worker, Begin(w) \/ Continue(w) \/ End(w)
          PROVE  Covered'
      BY <3>2, StepCovered
    <3> QED
      BY <3>1, <3>2 DEF HistoryNext
  <2> QED
    BY <2>1, <2>2 DEF ClaimInv
<1>3. ClaimInv => AtomicClaim
  BY CoveredCounts
<1> QED
  BY <1>1, <1>2, <1>3, PTL DEF HistorySpec

-----------------------------------------------------------------------------
\* Linearizability.  The calls in progress and the possibilities they leave.

\* A set with 0, and with n + 1 whenever it has n, has all numbers up to N.
LEMMA UpTo ==
    ASSUME NEW N \in Nat, NEW S, 0 \in S, \A n \in 0..N : n < N /\ n \in S => n + 1 \in S
    PROVE  \A n \in 0..N : n \in S
<1> DEFINE T == {n \in 0..N : n \notin S}
           Less == {p \in Nat \X Nat : p[1] < p[2]}
<1>1. IsWellFoundedOn(Less, Nat)
  BY NatLessThanWellFounded DEF OpToRel
<1>2. \A x, y \in Nat : <<y, x>> \in Less <=> y < x
  OBVIOUS
<1> SUFFICES ASSUME T # {} PROVE FALSE
  OBVIOUS
<1>3. T \subseteq Nat
  OBVIOUS
<1> HIDE DEF Less
<1>4. PICK x \in T : \A y \in T : ~(<<y, x>> \in Less)
  BY <1>1, <1>3, WFMin
<1>5. x \in 0..N /\ x \notin S /\ x # 0
  OBVIOUS
<1>6. x - 1 \in 0..N /\ x - 1 < N /\ x - 1 < x /\ x - 1 + 1 = x
  BY <1>5
<1>7. x - 1 \in S
  <2>1. x - 1 \in Nat /\ x \in Nat
    BY <1>5, <1>6
  <2>2. <<x - 1, x>> \in Less
    BY <1>2, <1>6, <2>1
  <2> QED
    BY <1>4, <1>6, <2>2
<1> QED
  BY <1>5, <1>6, <1>7

\* The rounds of Possibly exist.
LEMMA Rounds ==
    ASSUME NEW H, NEW calls, NEW k, NEW t
    PROVE  \E more : /\ more[0] = H
                     /\ \A n \in 0..Cardinality(Worker) :
                          n # 0 => more[n] = OneMore(more[n - 1], calls, k, t)
                     /\ Possibly(H, calls, k, t) = more[Cardinality(Worker)]
<1> DEFINE N == Cardinality(Worker)
           Rec(f, m) == f = [n \in 0..m |-> IF n = 0 THEN H ELSE OneMore(f[n - 1], calls, k, t)]
           S == {m \in 0..N : \E f : Rec(f, m)}
<1>1. N \in Nat
  BY WorkerAssumption, FS_CardinalityType
<1> HIDE DEF N
<1>2. 0 \in S
  <2> DEFINE g == [n \in 0..0 |-> H]
  <2>0. \A n \in 0..0 : n = 0
    OBVIOUS
  <2>1. Rec(g, 0)
    <3>1. \A n \in 0..0 : H = IF n = 0 THEN H ELSE OneMore(g[n - 1], calls, k, t)
      BY <2>0, Zenon
    <3> QED
      BY <3>1, Zenon
  <2>2. \E f : Rec(f, 0)
    BY <2>1, Zenon
  <2>3. 0 \in 0..N
    BY <1>1
  <2> HIDE DEF Rec
  <2> QED
    BY <2>2, <2>3
<1>3. ASSUME NEW m \in 0..N, m < N, m \in S
      PROVE  m + 1 \in S
  <2>1. PICK f : Rec(f, m)
    BY <1>3
  <2> DEFINE g == [n \in 0..(m + 1) |-> IF n <= m THEN f[n] ELSE OneMore(f[m], calls, k, t)]
  <2>2. \A n \in 0..(m + 1) : g[n] = IF n = 0 THEN H ELSE OneMore(g[n - 1], calls, k, t)
    <3> TAKE n \in 0..(m + 1)
    <3>1. CASE n = 0
      BY <1>1, <1>3, <2>1, <3>1
    <3>2. CASE n # 0 /\ n <= m
      <4>1. n \in 0..m /\ n - 1 \in 0..m
        BY <1>1, <1>3, <3>2
      <4>2. g[n] = f[n] /\ g[n - 1] = f[n - 1]
        BY <1>1, <1>3, <3>2, <4>1
      <4>3. f[n] = OneMore(f[n - 1], calls, k, t)
        BY <2>1, <3>2, <4>1
      <4> QED
        BY <3>2, <4>2, <4>3
    <3>3. CASE n # 0 /\ n > m
      <4>1. n = m + 1 /\ n - 1 = m
        BY <1>1, <1>3, <3>3
      <4> QED
        BY <1>1, <1>3, <3>3, <4>1
    <3> QED
      BY <1>1, <1>3, <3>1, <3>2, <3>3
  <2>3. Rec(g, m + 1)
    BY <2>2, Zenon
  <2>4. m + 1 \in 0..N
    BY <1>1, <1>3
  <2> QED
    BY <2>3, <2>4
<1> HIDE DEF S
<1>4. N \in S
  BY <1>1, <1>2, <1>3, UpTo
<1>5. \E f : Rec(f, N)
  BY <1>4 DEF S
<1> DEFINE more == CHOOSE f : Rec(f, N)
<1>6. Rec(more, N)
  BY <1>5
<1>7. Possibly(H, calls, k, t) = more[N]
  BY DEF Possibly, N
<1> HIDE DEF more
<1>8. more[0] = H /\ \A n \in 0..N : n # 0 => more[n] = OneMore(more[n - 1], calls, k, t)
  BY <1>1, <1>6
<1> QED
  BY <1>7, <1>8 DEF N

\* Whatever call in progress may take effect in a possibility, that is one, too.
Closed(H, calls, k, t) ==
    \A h \in H : /\ DOMAIN h.answer = Worker
                 /\ \A w \in OpenIn(h, calls, k) : Takes(h, w, calls, k, t) \in H

\* A call that takes effect is no longer open.
LEMMA TakesShape ==
    ASSUME NEW h, DOMAIN h.answer = Worker, NEW w \in Worker, NEW calls, NEW k, NEW t
    PROVE  LET g == Takes(h, w, calls, k, t)
           IN  /\ DOMAIN g.answer = Worker
               /\ g.answer[w] = <<Meaning(calls[w], h.map, k, t).answer>>
               /\ g.answer[w] # Open
               /\ \A x \in Worker \ {w} : g.answer[x] = h.answer[x]
               /\ g.map = Meaning(calls[w], h.map, k, t).map
<1> DEFINE m == Meaning(calls[w], h.map, k, t)
<1>1. Takes(h, w, calls, k, t) = [map |-> m.map, answer |-> [h.answer EXCEPT ![w] = <<m.answer>>]]
  BY DEF Takes
<1> HIDE DEF m
<1>2. \A a : <<a>> # Open
  BY DEF Open
<1> QED
  BY <1>1, <1>2 DEF m

\* All effects of calls in progress are among what Possibly gives.
LEMMA PossiblyClosed ==
    ASSUME NEW H, NEW calls, NEW k, NEW t, \A h \in H : DOMAIN h.answer = Worker
    PROVE  /\ H \subseteq Possibly(H, calls, k, t)
           /\ Closed(Possibly(H, calls, k, t), calls, k, t)
<1> DEFINE N == Cardinality(Worker)
           Took(h) == {w \in Worker : h.answer[w] # Open}
<1>1. N \in Nat
  BY WorkerAssumption, FS_CardinalityType
<1>2. \A h : IsFiniteSet(Took(h)) /\ Cardinality(Took(h)) \in Nat
  BY WorkerAssumption, FS_Subset, FS_CardinalityType
<1>3. PICK more : /\ more[0] = H
                  /\ \A n \in 0..N : n # 0 => more[n] = OneMore(more[n - 1], calls, k, t)
                  /\ Possibly(H, calls, k, t) = more[N]
  BY Rounds
<1>4. ASSUME NEW h, DOMAIN h.answer = Worker, NEW w \in OpenIn(h, calls, k)
      PROVE  LET g == Takes(h, w, calls, k, t)
             IN  DOMAIN g.answer = Worker /\ Cardinality(Took(g)) = Cardinality(Took(h)) + 1
  <2> DEFINE g == Takes(h, w, calls, k, t)
  <2>1. w \in Worker /\ h.answer[w] = Open
    BY DEF OpenIn
  <2>2. DOMAIN g.answer = Worker /\ g.answer[w] # Open /\ \A x \in Worker \ {w} : g.answer[x] = h.answer[x]
    BY <1>4, <2>1, TakesShape
  <2> HIDE DEF g
  <2>3. Took(g) = Took(h) \cup {w} /\ w \notin Took(h)
    BY <2>1, <2>2
  <2> HIDE DEF Took
  <2>4. Cardinality(Took(h) \cup {w}) = Cardinality(Took(h)) + 1
    BY <1>2, <2>3, FS_AddElement
  <2> QED
    BY <2>2, <2>3, <2>4 DEF g
<1> HIDE DEF N, Took
<1> DEFINE Good(n) == /\ H \subseteq more[n]
                      /\ \A h \in more[n] :
                           /\ DOMAIN h.answer = Worker
                           /\ Cardinality(Took(h)) >= n \/ (n # 0 /\ h \in more[n - 1])
           S == {n \in 0..N : Good(n)}
<1>5. 0 \in S
  BY <1>1, <1>2, <1>3
<1>6. ASSUME NEW n \in 0..N, n < N, n \in S
      PROVE  n + 1 \in S
  <2>1. n + 1 \in 0..N /\ n + 1 # 0 /\ (n + 1) - 1 = n
    BY <1>1, <1>6
  <2>2. more[n + 1] = OneMore(more[n], calls, k, t)
    BY <1>3, <2>1
  <2>3. H \subseteq more[n + 1] /\ more[n] \subseteq more[n + 1]
    BY <1>6, <2>2 DEF OneMore
  <2>4. ASSUME NEW g \in more[n + 1]
        PROVE  DOMAIN g.answer = Worker /\ (Cardinality(Took(g)) >= n + 1 \/ g \in more[n])
    <3>1. CASE g \in more[n]
      BY <1>6, <3>1
    <3>2. CASE g \notin more[n]
      <4>0. PICK h \in more[n] : \E w \in OpenIn(h, calls, k) : g = Takes(h, w, calls, k, t)
        BY <2>2, <2>4, <3>2 DEF OneMore
      <4>1. PICK w \in OpenIn(h, calls, k) : g = Takes(h, w, calls, k, t)
        BY <4>0
      <4>2. DOMAIN h.answer = Worker
        BY <1>6
      <4>3. DOMAIN g.answer = Worker /\ Cardinality(Took(g)) = Cardinality(Took(h)) + 1
        BY <1>4, <4>1, <4>2
      <4>4. Cardinality(Took(h)) >= n
        <5>1. ASSUME n # 0, h \in more[n - 1] PROVE FALSE
          <6>1. more[n] = OneMore(more[n - 1], calls, k, t)
            BY <1>3, <5>1
          <6>2. g \in more[n]
            BY <4>1, <5>1, <6>1 DEF OneMore
          <6> QED
            BY <3>2, <6>2
        <5> QED
          BY <1>6, <5>1
      <4> QED
        BY <1>1, <1>2, <4>3, <4>4
    <3> QED
      BY <3>1, <3>2
  <2> QED
    BY <2>1, <2>3, <2>4
<1> HIDE DEF S
<1>7. N \in S
  BY <1>1, <1>5, <1>6, UpTo
<1>8. Good(N)
  BY <1>7 DEF S
<1>9. ASSUME NEW h \in more[N], NEW w \in OpenIn(h, calls, k)
      PROVE  Takes(h, w, calls, k, t) \in more[N]
  <2>1. w \in Worker /\ w \notin Took(h)
    BY DEF OpenIn, Took
  <2>2. ~(Cardinality(Took(h)) >= N)
    <3>1. SUFFICES ASSUME Cardinality(Took(h)) >= N PROVE FALSE
      OBVIOUS
    <3>2. Took(h) \in SUBSET Worker
      BY DEF Took
    <3>3. Cardinality(Took(h)) <= N /\ (N = Cardinality(Took(h)) => Worker = Took(h))
      BY <3>2, WorkerAssumption, FS_Subset DEF N
    <3> QED
      BY <1>1, <1>2, <2>1, <3>1, <3>3
  <2>3. N # 0 /\ h \in more[N - 1]
    BY <1>8, <2>2
  <2>4. more[N] = OneMore(more[N - 1], calls, k, t)
    BY <1>1, <1>3, <2>3
  <2> QED
    BY <2>3, <2>4 DEF OneMore
<1> QED
  BY <1>3, <1>8, <1>9 DEF Closed

-----------------------------------------------------------------------------
\* What the steps do to the entry of one key

\* m and n hold the same of k.
Same(m, n, k) == (k \in DOMAIN m <=> k \in DOMAIN n) /\ (k \in DOMAIN m => m[k] = n[k])

\* The operations on a timed map, seen from one key.
LEMMA CellAt ==
    ASSUME NEW m, NEW k, NEW t
    PROVE  /\ k \in DOMAIN At(m, t) <=> k \in DOMAIN m /\ Alive(m[k], t)
           /\ k \in DOMAIN At(m, t) => At(m, t)[k] = m[k]
BY DEF At, Keep

\* Insert, seen from one key.
LEMMA CellInsert ==
    ASSUME NEW m, NEW x, NEW e
    PROVE  /\ x \in DOMAIN Insert(m, x, e) /\ Insert(m, x, e)[x] = e
           /\ \A k : k # x => Same(Insert(m, x, e), m, k)
BY DEF Insert, Same

\* Remove, seen from one key.
LEMMA CellRemove ==
    ASSUME NEW m, NEW x
    PROVE  /\ x \notin DOMAIN Remove(m, x)
           /\ \A k : k # x => Same(Remove(m, x), m, k)
BY DEF Remove, RemoveAll, Same

\* Storing with and without a deadline, seen from one key.
LEMMA CellPut ==
    ASSUME NEW m, NEW x, NEW v, NEW d
    PROVE  /\ x \in DOMAIN Put(m, x, v) /\ Put(m, x, v)[x] = [value |-> v, deadline |-> Never]
           /\ x \in DOMAIN PutUntil(m, x, v, d)
           /\ PutUntil(m, x, v, d)[x] = [value |-> v, deadline |-> d]
           /\ \A k : k # x => Same(Put(m, x, v), m, k) /\ Same(PutUntil(m, x, v, d), m, k)
BY CellInsert DEF Put, PutUntil

\* A deadline, seen from one key.
LEMMA CellDeadline ==
    ASSUME NEW m, NEW x, NEW d
    PROVE  /\ x \in DOMAIN SetDeadline(m, x, d) <=> x \in DOMAIN m
           /\ x \in DOMAIN m => SetDeadline(m, x, d)[x] = [value |-> m[x].value, deadline |-> d]
           /\ \A k : k # x => Same(SetDeadline(m, x, d), m, k)
<1>1. CASE x \in DOMAIN m
  <2>1. SetDeadline(m, x, d) = PutUntil(m, x, m[x].value, d)
    BY <1>1 DEF SetDeadline
  <2>2. /\ x \in DOMAIN PutUntil(m, x, m[x].value, d)
        /\ PutUntil(m, x, m[x].value, d)[x] = [value |-> m[x].value, deadline |-> d]
        /\ \A k : k # x => Same(PutUntil(m, x, m[x].value, d), m, k)
    BY CellInsert DEF PutUntil
  <2> QED
    BY <1>1, <2>1, <2>2
<1>2. CASE x \notin DOMAIN m
  BY <1>2 DEF SetDeadline, Same
<1> QED
  BY <1>1, <1>2

\* To hold the same of a key is an equivalence.
LEMMA SameTrans ==
    ASSUME NEW k, NEW m, NEW n, NEW o
    PROVE  /\ Same(m, m, k)
           /\ Same(m, n, k) => Same(n, m, k)
           /\ Same(m, n, k) /\ Same(n, o, k) => Same(m, o, k)
BY DEF Same

\* No entry of the transient tier has expired.
Fresh == \A k \in DOMAIN transient : Alive(transient[k], now)

\* Maps that hold the same of k do so after its expiry, and a fresh tier loses nothing.
LEMMA SameAt ==
    ASSUME NEW k, NEW m, NEW n, NEW t, Same(m, n, k)
    PROVE  Same(At(m, t), At(n, t), k)
BY CellAt DEF Same

\* A fresh tier loses nothing now.
LEMMA FreshAt ==
    ASSUME Fresh, NEW k, NEW m, Same(m, transient, k)
    PROVE  Same(At(m, now), transient, k)
<1>1. Same(At(transient, now), transient, k)
  BY CellAt DEF Same, Fresh
<1> QED
  BY <1>1, SameAt, SameTrans

-----------------------------------------------------------------------------
\* Which step a call is at

\* The step a call takes is the one it is at.
LEMMA StepAt ==
    ASSUME NEW w, Step(w)
    PROVE  LET pc == frame[w].pc
           IN  /\ pc = "read_transient" => ReadTransient(w)
               /\ pc = "read_persistent" => ReadPersistent(w)
               /\ pc = "promote" => Promote(w)
               /\ pc = "stamp" => Stamp(w)
               /\ pc = "write_persistent" => WritePersistent(w)
               /\ pc = "invalidate" => Invalidate(w)
               /\ pc = "delete_transient" => DeleteTransient(w)
               /\ pc = "delete_persistent" => DeletePersistent(w)
               /\ pc = "match_transient" => MatchTransient(w)
               /\ pc = "match_persistent" => MatchPersistent(w)
               /\ pc = "ttl_read" => TtlRead(w)
               /\ pc = "ttl_delete" => TtlDelete(w)
               /\ pc = "ttl_move" => TtlMove(w)
               /\ pc = "ttl_set" => TtlSet(w)
               /\ pc = "timed_clear" => TimedClear(w)
               /\ pc = "timed_write" => TimedWrite(w)
               /\ pc = "remaining" => ReadTtlRemaining(w)
               /\ pc = "find_transient" => FindTransient(w)
               /\ pc = "find_persistent" => FindPersistent(w)
               /\ pc \in OnKey \cup Scanning
<1>1. /\ ReadTransient(w) => frame[w].pc = "read_transient"
      /\ ReadPersistent(w) => frame[w].pc = "read_persistent"
      /\ Promote(w) => frame[w].pc = "promote"
      /\ Stamp(w) => frame[w].pc = "stamp"
      /\ WritePersistent(w) => frame[w].pc = "write_persistent"
      /\ Invalidate(w) => frame[w].pc = "invalidate"
  BY DEF In, ReadTransient, ReadPersistent, Promote, Stamp, WritePersistent, Invalidate
<1>2. /\ DeleteTransient(w) => frame[w].pc = "delete_transient"
      /\ DeletePersistent(w) => frame[w].pc = "delete_persistent"
      /\ MatchTransient(w) => frame[w].pc = "match_transient"
      /\ MatchPersistent(w) => frame[w].pc = "match_persistent"
      /\ TtlRead(w) => frame[w].pc = "ttl_read"
      /\ TtlDelete(w) => frame[w].pc = "ttl_delete"
      /\ TtlMove(w) => frame[w].pc = "ttl_move"
      /\ TtlSet(w) => frame[w].pc = "ttl_set"
  BY DEF In, DeleteTransient, DeletePersistent, MatchTransient, MatchPersistent, TtlRead,
         TtlDelete, TtlMove, TtlSet
<1>3. /\ TimedClear(w) => frame[w].pc = "timed_clear"
      /\ TimedWrite(w) => frame[w].pc = "timed_write"
      /\ ReadTtlRemaining(w) => frame[w].pc = "remaining"
      /\ FindTransient(w) => frame[w].pc = "find_transient"
      /\ FindPersistent(w) => frame[w].pc = "find_persistent"
  BY DEF In, TimedClear, TimedWrite, ReadTtlRemaining, FindTransient, FindPersistent
<1> QED
  BY <1>1, <1>2, <1>3 DEF Step, OnKey, Scanning

\* The steps of a call, one after the other.
Moves ==
    {<<"read_transient", "read_persistent">>, <<"read_persistent", "promote">>,
     <<"promote", "stamp">>, <<"write_persistent", "invalidate">>,
     <<"delete_transient", "delete_persistent">>, <<"match_transient", "match_persistent">>,
     <<"ttl_read", "ttl_set">>, <<"ttl_read", "ttl_delete">>, <<"ttl_delete", "ttl_move">>,
     <<"ttl_move", "ttl_set">>, <<"timed_clear", "timed_write">>,
     <<"find_transient", "find_persistent">>}

Learning == {"promote", "ttl_delete", "find_persistent"}

\* The call at f has come to g.
Onward(f, g) ==
    \/ g = Idle
    \/ /\ g.key = f.key /\ g.ttl = f.ttl /\ <<f.pc, g.pc>> \in Moves
       /\ g.pc \notin Learning => g.value = f.value

\* A step of a call is one of the moves, or its last.
LEMMA StepLink ==
    ASSUME NEW w, Step(w)
    PROVE  \E g : frame' = [frame EXCEPT ![w] = g] /\ Onward(frame[w], g)
<1> DEFINE Goal == \E g : frame' = [frame EXCEPT ![w] = g] /\ Onward(frame[w], g)
<1>1. ASSUME NEW r, Return(w, r) PROVE Goal
  BY <1>1 DEF Return, Onward
<1>2. ASSUME NEW pc, NEW v, NEW hit, GotoWith(w, pc, v, hit), <<frame[w].pc, pc>> \in Moves,
             pc \notin Learning => v = frame[w].value
      PROVE  Goal
  <2> DEFINE g == Frame(pc, frame[w].key, v, frame[w].ttl, hit)
  <2>1. frame' = [frame EXCEPT ![w] = g]
    BY <1>2 DEF GotoWith
  <2>2. g.pc = pc /\ g.key = frame[w].key /\ g.ttl = frame[w].ttl /\ g.value = v
    BY DEF Frame
  <2> HIDE DEF g
  <2> QED
    BY <1>2, <2>1, <2>2 DEF Onward
<1>3. ASSUME NEW pc, Goto(w, pc), <<frame[w].pc, pc>> \in Moves
      PROVE  Goal
  BY <1>2, <1>3 DEF Goto
<1> SUFFICES Goal
  OBVIOUS
<1> HIDE DEF Goal
<1>4. CASE ReadTransient(w) \/ ReadPersistent(w)
  BY <1>1, <1>2, <1>3, <1>4 DEF ReadTransient, ReadPersistent, In, Moves, Learning
<1>5. CASE Promote(w) \/ Stamp(w) \/ WritePersistent(w) \/ Invalidate(w)
  BY <1>1, <1>3, <1>5 DEF Promote, Stamp, WritePersistent, Invalidate, In, Moves
<1>6. CASE DeleteTransient(w) \/ DeletePersistent(w) \/ ReadTtlRemaining(w)
  BY <1>1, <1>3, <1>6 DEF DeleteTransient, DeletePersistent, ReadTtlRemaining, In, Moves
<1>7. CASE MatchTransient(w)
  BY <1>2, <1>7 DEF MatchTransient, In, Moves
<1>8. CASE MatchPersistent(w)
  BY <1>1, <1>8 DEF MatchPersistent
<1>9. CASE TtlRead(w)
  BY <1>2, <1>3, <1>9 DEF TtlRead, In, Moves, Learning
<1>10. CASE TtlDelete(w) \/ TtlMove(w) \/ TtlSet(w) \/ TimedClear(w) \/ TimedWrite(w)
  BY <1>1, <1>3, <1>10 DEF TtlDelete, TtlMove, TtlSet, TimedClear, TimedWrite, In, Moves
<1>11. CASE FindTransient(w)
  BY <1>2, <1>11 DEF FindTransient, In, Moves, Learning
<1>12. CASE FindPersistent(w)
  BY <1>1, <1>12 DEF FindPersistent
<1> QED
  BY <1>4, <1>5, <1>6, <1>7, <1>8, <1>9, <1>10, <1>11, <1>12 DEF Step

\* A call leaves alone what the tiers hold of the keys it is not about.
LEMMA Elsewhere ==
    ASSUME TypeOK, Fresh, ~FaultyDisk, NEW w \in Worker, Step(w), NEW k, ~About(frame[w], k)
    PROVE  now' = now /\ Same(transient', transient, k) /\ Same(persistent', persistent, k)
<1> DEFINE f == frame[w]
           Goal == now' = now /\ Same(transient', transient, k) /\ Same(persistent', persistent, k)
<1>1. ASSUME OnlyReads PROVE Goal
  BY <1>1, SameTrans DEF OnlyReads
<1>2. ASSUME NEW m, Transient(m), Same(m, transient, k) PROVE Goal
  BY <1>2, FreshAt, SameTrans DEF Transient
<1>3. ASSUME NEW rows, Persistent(rows), Same(rows, persistent, k) PROVE Goal
  BY <1>3, SameTrans DEF Persistent
<1>4. f.pc \notin Scanning => f.key # k
  BY DEF About
<1> SUFFICES Goal
  OBVIOUS
<1> HIDE DEF Goal
<1>5. CASE ReadTransient(w) \/ ReadPersistent(w) \/ TtlRead(w) \/ ReadTtlRemaining(w)
           \/ FindTransient(w) \/ FindPersistent(w)
  BY <1>1, <1>5 DEF ReadTransient, ReadPersistent, TtlRead, ReadTtlRemaining, FindTransient, FindPersistent
<1>6. CASE Promote(w) \/ TtlMove(w)
  <2>1. f.key # k /\ Transient(Put(transient, f.key, f.value))
    BY <1>4, <1>6 DEF Promote, TtlMove, In, Scanning
  <2>2. Same(Put(transient, f.key, f.value), transient, k)
    BY <2>1, CellPut
  <2> QED
    BY <1>2, <2>1, <2>2
<1>7. CASE Stamp(w) \/ TtlSet(w)
  <2>1. f.key # k /\ \E d : Transient(SetDeadline(transient, f.key, d))
    BY <1>4, <1>7 DEF Stamp, TtlSet, In, Scanning
  <2>2. \A d : Same(SetDeadline(transient, f.key, d), transient, k)
    BY <2>1, CellDeadline
  <2> QED
    BY <1>2, <2>1, <2>2
<1>8. CASE Invalidate(w) \/ DeleteTransient(w) \/ MatchTransient(w)
  <2>1. f.key # k /\ (Transient(Remove(transient, f.key)) \/ Transient(transient))
    BY <1>4, <1>8 DEF Invalidate, DeleteTransient, MatchTransient, In, Scanning
  <2>2. Same(Remove(transient, f.key), transient, k) /\ Same(transient, transient, k)
    BY <2>1, CellRemove, SameTrans
  <2> QED
    BY <1>2, <2>1, <2>2
<1>9. CASE TimedWrite(w)
  <2>1. f.key # k /\ \E d : Transient(PutUntil(transient, f.key, f.value, d))
    BY <1>4, <1>9 DEF TimedWrite, In, Scanning
  <2>2. \A d : Same(PutUntil(transient, f.key, f.value, d), transient, k)
    BY <2>1, CellPut
  <2> QED
    BY <1>2, <2>1, <2>2
<1>10. CASE WritePersistent(w)
  <2>1. f.key # k /\ Persistent(Insert(persistent, f.key, f.value))
    BY <1>4, <1>10 DEF WritePersistent, In, Scanning
  <2>2. Same(Insert(persistent, f.key, f.value), persistent, k)
    BY <2>1, CellInsert
  <2> QED
    BY <1>3, <2>1, <2>2
<1>11. CASE DeletePersistent(w) \/ TtlDelete(w) \/ TimedClear(w) \/ MatchPersistent(w)
  <2>1. f.key # k /\ (Persistent(Remove(persistent, f.key)) \/ Persistent(persistent))
    BY <1>4, <1>11 DEF DeletePersistent, TtlDelete, TimedClear, MatchPersistent, In, Scanning
  <2>2. Same(Remove(persistent, f.key), persistent, k) /\ Same(persistent, persistent, k)
    BY <2>1, CellRemove, SameTrans
  <2> QED
    BY <1>3, <2>1, <2>2
<1> QED
  BY <1>5, <1>6, <1>7, <1>8, <1>9, <1>10, <1>11 DEF Step

-----------------------------------------------------------------------------
\* The history follows the calls

\* What each call means for the map.
LEMMA Meanings ==
    ASSUME NEW p, NEW m, NEW k, NEW t
    PROVE  LET r == Meaning(p, m, k, t)
           IN  /\ p.pc \in {"read_transient", "find_transient"} =>
                    r.map = At(m, t) /\ r.answer = Look(m, k, None)
               /\ p.pc = "remaining" => r.map = At(m, t) /\ r.answer = Left(m, k, t, None)
               /\ p.pc = "write_persistent" => r.map = At(Put(m, k, p.value), t) /\ r.answer = None
               /\ p.pc = "delete_transient" => r.map = At(Remove(m, k), t) /\ r.answer = None
               /\ p.pc = "match_transient" /\ Holds(m, k, p.value) =>
                    r.map = At(Remove(m, k), t) /\ r.answer = TRUE
               /\ p.pc = "match_transient" /\ ~Holds(m, k, p.value) =>
                    r.map = At(m, t) /\ r.answer = FALSE
               /\ p.pc = "ttl_read" => r.map = At(SetDeadline(m, k, t + p.ttl), t) /\ r.answer = None
               /\ p.pc = "timed_clear" =>
                    r.map = At(PutUntil(m, k, p.value, t + p.ttl), t) /\ r.answer = None
<1> USE DEF Meaning
<1>1. p.pc \in {"read_transient", "find_transient"} =>
        Meaning(p, m, k, t).map = At(m, t) /\ Meaning(p, m, k, t).answer = Look(m, k, None)
  OBVIOUS
<1>2. p.pc = "remaining" =>
        Meaning(p, m, k, t).map = At(m, t) /\ Meaning(p, m, k, t).answer = Left(m, k, t, None)
  OBVIOUS
<1>3. p.pc = "write_persistent" =>
        Meaning(p, m, k, t).map = At(Put(m, k, p.value), t) /\ Meaning(p, m, k, t).answer = None
  OBVIOUS
<1>4. p.pc = "delete_transient" =>
        Meaning(p, m, k, t).map = At(Remove(m, k), t) /\ Meaning(p, m, k, t).answer = None
  OBVIOUS
<1>5. p.pc = "match_transient" /\ Holds(m, k, p.value) =>
        Meaning(p, m, k, t).map = At(Remove(m, k), t) /\ Meaning(p, m, k, t).answer = TRUE
  OBVIOUS
<1>6. p.pc = "match_transient" /\ ~Holds(m, k, p.value) =>
        Meaning(p, m, k, t).map = At(m, t) /\ Meaning(p, m, k, t).answer = FALSE
  OBVIOUS
<1>7. p.pc = "ttl_read" =>
        Meaning(p, m, k, t).map = At(SetDeadline(m, k, t + p.ttl), t) /\ Meaning(p, m, k, t).answer = None
  OBVIOUS
<1>8. p.pc = "timed_clear" =>
        Meaning(p, m, k, t).map = At(PutUntil(m, k, p.value, t + p.ttl), t)
        /\ Meaning(p, m, k, t).answer = None
  OBVIOUS
<1> QED
  BY <1>1, <1>2, <1>3, <1>4, <1>5, <1>6, <1>7, <1>8 DEF Meaning

\* The call at f is the one that began as p.
SameCall(f, p) ==
    /\ f.key = p.key /\ f.ttl = p.ttl
    /\ f.pc \in {"read_transient", "read_persistent", "promote", "stamp"} => p.pc = "read_transient"
    /\ f.pc \in {"write_persistent", "invalidate"} => p.pc = "write_persistent"
    /\ f.pc \in {"delete_transient", "delete_persistent"} => p.pc = "delete_transient"
    /\ f.pc \in {"match_transient", "match_persistent"} => p.pc = "match_transient"
    /\ f.pc \in {"ttl_read", "ttl_delete", "ttl_move", "ttl_set"} => p.pc = "ttl_read"
    /\ f.pc \in {"timed_clear", "timed_write"} => p.pc = "timed_clear"
    /\ f.pc = "remaining" => p.pc = "remaining"
    /\ f.pc \in {"find_transient", "find_persistent"} => p.pc = "find_transient"
    /\ f.pc = "idle" => p = Idle
    /\ p.pc \in {"write_persistent", "match_transient", "timed_clear"} => p.value = f.value

\* Every call in progress is known, and what it may do is among the possibilities.
Follows ==
    /\ DOMAIN pending = Worker
    /\ \A w \in Worker : SameCall(frame[w], pending[w])
    /\ Fresh
    /\ \A k \in Key : Closed(possible[k], pending, k, now)

\* A call about k that returns leaves the possibilities that gave this answer.
LEMMA EndKeeps ==
    ASSUME NEW w \in Worker, End(w), workload.linear, NEW k \in Key, NEW h \in possible[k],
           About(pending[w], k) =>
             h.answer[w] # Open /\ (sure[w] => h.answer[w] = <<Answer(w, k)>>)
    PROVE  \E g \in possible'[k] :
             /\ g.map = h.map
             /\ IF About(pending[w], k) THEN g.answer = [h.answer EXCEPT ![w] = Open]
                                        ELSE g.answer = h.answer
<1>1. CASE About(pending[w], k)
  <2> DEFINE g == [map |-> h.map, answer |-> [h.answer EXCEPT ![w] = Open]]
  <2>1. g \in possible'[k]
    BY <1>1 DEF End
  <2> QED
    BY <1>1, <2>1
<1>2. CASE ~About(pending[w], k)
  <2>1. possible'[k] = possible[k]
    BY <1>2 DEF End
  <2> QED
    BY <1>2, <2>1
<1> QED
  BY <1>1, <1>2

\* The tier is fresh after every step.
LEMMA FreshStep ==
    ASSUME Fresh, [Next]_vars
    PROVE  Fresh'
<1>1. ASSUME NEW m, transient' = At(m, now') PROVE Fresh'
  BY <1>1, CellAt DEF Fresh
<1>2. ASSUME OnlyReads \/ \E rows : Persistent(rows) PROVE Fresh'
  BY <1>2 DEF Fresh, OnlyReads, Persistent
<1>3. ASSUME NEW m, Transient(m) PROVE Fresh'
  BY <1>1, <1>3 DEF Transient
<1>4. CASE Tick
  BY <1>1, <1>4 DEF Tick
<1>5. CASE Crash
  BY <1>5 DEF Crash, RegistryEntries, Fresh, Alive
<1>6. CASE UNCHANGED vars
  BY <1>6 DEF vars, Fresh
<1>7. ASSUME NEW w \in Worker, Step(w) PROVE Fresh'
  <2>1. CASE ReadTransient(w) \/ ReadPersistent(w) \/ TtlRead(w) \/ ReadTtlRemaining(w)
             \/ FindTransient(w) \/ FindPersistent(w)
    BY <1>2, <2>1 DEF ReadTransient, ReadPersistent, TtlRead, ReadTtlRemaining, FindTransient, FindPersistent
  <2>2. CASE Promote(w) \/ TtlMove(w) \/ Stamp(w) \/ TtlSet(w) \/ Invalidate(w) \/ DeleteTransient(w)
             \/ MatchTransient(w) \/ TimedWrite(w)
    BY <1>3, <2>2 DEF Promote, TtlMove, Stamp, TtlSet, Invalidate, DeleteTransient, MatchTransient, TimedWrite
  <2>3. CASE WritePersistent(w) \/ DeletePersistent(w) \/ TtlDelete(w) \/ TimedClear(w) \/ MatchPersistent(w)
    BY <1>2, <2>3 DEF WritePersistent, DeletePersistent, TtlDelete, TimedClear, MatchPersistent
  <2> QED
    BY <1>7, <2>1, <2>2, <2>3 DEF Step
<1>8. ASSUME NEW w \in Worker, InvokeQuery(w) \/ \E k \in Key : InvokeUpdate(w, k) PROVE Fresh'
  <2>1. OnlyReads
    BY <1>8 DEF InvokeQuery, InvokeUpdate, InvokeRead, InvokeReadTtl, InvokeFind, InvokeWrite, InvokeClaim,
       InvokeDelete, InvokeWriteTtl, InvokeWriteTimed, Invoke
  <2> QED
    BY <1>2, <2>1
<1> QED
  BY <1>4, <1>5, <1>6, <1>7, <1>8 DEF Next

\* A call that goes on remains the call it began as.
LEMMA SameCallMoves ==
    ASSUME NEW f, NEW g, NEW p, SameCall(f, p), <<f.pc, g.pc>> \in Moves, Onward(f, g), g # Idle
    PROVE  SameCall(g, p)
<1>1. g.key = f.key /\ g.ttl = f.ttl /\ (g.pc \notin Learning => g.value = f.value)
  BY DEF Onward
<1>2. g.key = p.key /\ g.ttl = p.ttl
  BY <1>1 DEF SameCall
<1>3. CASE <<f.pc, g.pc>> \in {<<"read_transient", "read_persistent">>, <<"read_persistent", "promote">>,
                               <<"promote", "stamp">>}
  BY <1>2, <1>3 DEF SameCall
<1>4. CASE <<f.pc, g.pc>> \in {<<"write_persistent", "invalidate">>, <<"timed_clear", "timed_write">>,
                               <<"match_transient", "match_persistent">>}
  BY <1>1, <1>2, <1>4 DEF SameCall, Learning
<1>5. CASE <<f.pc, g.pc>> \in {<<"delete_transient", "delete_persistent">>,
                               <<"find_transient", "find_persistent">>}
  BY <1>2, <1>5 DEF SameCall
<1>6. CASE <<f.pc, g.pc>> \in {<<"ttl_read", "ttl_set">>, <<"ttl_read", "ttl_delete">>,
                               <<"ttl_delete", "ttl_move">>, <<"ttl_move", "ttl_set">>}
  BY <1>2, <1>6 DEF SameCall
<1> QED
  BY <1>3, <1>4, <1>5, <1>6 DEF Moves

\* A worker in no call is about no key.
LEMMA IdleAbout == ASSUME NEW k \in Key PROVE ~About(Idle, k) /\ Idle.pc = "idle"
BY NoneAssumption DEF About, Idle, Frame, Scanning

\* Returning keeps the possibilities closed.
LEMMA EndClosed ==
    ASSUME Follows, NEW w \in Worker, End(w), workload.linear, NEW k \in Key, now' = now
    PROVE  Closed(possible'[k], pending', k, now')
<1> DEFINE H == possible[k]
<1>1. Closed(H, pending, k, now)
  BY DEF Follows
<1>2. pending' = [pending EXCEPT ![w] = Idle] /\ DOMAIN pending = Worker
  BY DEF End, Follows
<1>3. pending'[w] = Idle /\ \A x \in Worker \ {w} : pending'[x] = pending[x]
  BY <1>2
<1>4. \A h : \A x \in OpenIn(h, pending', k) : x \in Worker \ {w}
  BY <1>3, IdleAbout DEF OpenIn
<1>5. CASE ~About(pending[w], k)
  <2>1. possible'[k] = H
    BY <1>5 DEF End
  <2>2. ASSUME NEW h \in H, NEW x \in OpenIn(h, pending', k)
        PROVE  Takes(h, x, pending', k, now) \in H
    <3>1. x \in Worker \ {w} /\ pending'[x] = pending[x]
      BY <1>3, <1>4
    <3>2. x \in OpenIn(h, pending, k)
      BY <3>1 DEF OpenIn
    <3>3. Takes(h, x, pending', k, now) = Takes(h, x, pending, k, now)
      BY <3>1 DEF Takes
    <3> QED
      BY <1>1, <3>2, <3>3 DEF Closed
  <2> QED
    BY <1>1, <2>1, <2>2 DEF Closed
<1>6. CASE About(pending[w], k)
  <2> DEFINE Fits(g) == g.answer[w] # Open /\ (sure[w] => g.answer[w] = <<Answer(w, k)>>)
             Left_(h) == [map |-> h.map, answer |-> [h.answer EXCEPT ![w] = Open]]
  <2>1. possible'[k] = {Left_(h) : h \in {g \in H : Fits(g)}}
    BY <1>6 DEF End
  <2>2. ASSUME NEW e \in possible'[k]
        PROVE  /\ DOMAIN e.answer = Worker
               /\ \A x \in OpenIn(e, pending', k) : Takes(e, x, pending', k, now) \in possible'[k]
    <3>1. PICK h \in H : Fits(h) /\ e = Left_(h)
      BY <2>1
    <3>2. DOMAIN h.answer = Worker
      BY <1>1 DEF Closed
    <3>3. e.map = h.map /\ e.answer = [h.answer EXCEPT ![w] = Open] /\ DOMAIN e.answer = Worker
      BY <3>1, <3>2
    <3>4. ASSUME NEW x \in OpenIn(e, pending', k)
          PROVE  Takes(e, x, pending', k, now) \in possible'[k]
      <4>1. x \in Worker \ {w} /\ pending'[x] = pending[x]
        BY <1>3, <1>4
      <4>2. h.answer[x] = Open
        BY <3>2, <3>3, <4>1 DEF OpenIn
      <4>3. x \in OpenIn(h, pending, k)
        BY <4>1, <4>2 DEF OpenIn
      <4> DEFINE g == Takes(h, x, pending, k, now)
                 m == Meaning(pending[x], h.map, k, now)
      <4>4. g \in H
        BY <1>1, <4>3 DEF Closed
      <4>5. g.map = m.map /\ g.answer = [h.answer EXCEPT ![x] = <<m.answer>>]
        BY DEF Takes
      <4>6. Takes(e, x, pending', k, now)
              = [map |-> m.map, answer |-> [e.answer EXCEPT ![x] = <<m.answer>>]]
        BY <3>3, <4>1 DEF Takes
      <4> HIDE DEF g, m
      <4>7. g.answer[w] = h.answer[w]
        BY <3>2, <4>1, <4>5
      <4>8. Fits(g)
        BY <3>1, <4>7
      <4>9. [e.answer EXCEPT ![x] = <<m.answer>>] = [g.answer EXCEPT ![w] = Open]
        BY <3>2, <3>3, <4>1, <4>5
      <4>10. Takes(e, x, pending', k, now) = Left_(g)
        BY <4>5, <4>6, <4>9
      <4> QED
        BY <2>1, <4>4, <4>8, <4>10
    <3> QED
      BY <3>3, <3>4
  <2> QED
    BY <2>2 DEF Closed
<1> QED
  BY <1>5, <1>6

\* A step of a call moves its frame and leaves the clock and the others alone.
LEMMA StepMoves ==
    ASSUME TypeOK, NEW w \in Worker, Step(w)
    PROVE  /\ now' = now
           /\ \A x \in Worker \ {w} : frame'[x] = frame[x]
           /\ frame' = [frame EXCEPT ![w] = frame'[w]]
           /\ Onward(frame[w], frame'[w])
<1>1. PICK g : frame' = [frame EXCEPT ![w] = g] /\ Onward(frame[w], g)
  BY StepLink
<1>2. frame'[w] = g /\ \A x \in Worker \ {w} : frame'[x] = frame[x]
  BY <1>1 DEF TypeOK
<1>3. now' = now
  <2>1. CASE ReadTransient(w) \/ ReadPersistent(w) \/ TtlRead(w) \/ ReadTtlRemaining(w)
             \/ FindTransient(w) \/ FindPersistent(w)
    BY <2>1 DEF ReadTransient, ReadPersistent, TtlRead, ReadTtlRemaining, FindTransient, FindPersistent,
                OnlyReads
  <2>2. CASE Promote(w) \/ TtlMove(w) \/ Stamp(w) \/ TtlSet(w) \/ Invalidate(w) \/ DeleteTransient(w)
             \/ MatchTransient(w) \/ TimedWrite(w)
    BY <2>2 DEF Promote, TtlMove, Stamp, TtlSet, Invalidate, DeleteTransient, MatchTransient, TimedWrite,
                Transient
  <2>3. CASE WritePersistent(w) \/ DeletePersistent(w) \/ TtlDelete(w) \/ TimedClear(w) \/ MatchPersistent(w)
    BY <2>3 DEF WritePersistent, DeletePersistent, TtlDelete, TimedClear, MatchPersistent, Persistent
  <2> QED
    BY <2>1, <2>2, <2>3 DEF Step
<1> QED
  BY <1>1, <1>2, <1>3

\* The history follows the calls at first...
LEMMA FollowsInit ==
    ASSUME HistoryInit
    PROVE  Follows
<1>1. /\ \A w \in Worker : frame[w] = Idle /\ pending[w] = Idle
      /\ DOMAIN pending = Worker /\ transient = RegistryEntries
      /\ \A k \in Key : possible[k] = {[map |-> EmptyMap, answer |-> [w \in Worker |-> Open]]}
  BY DEF HistoryInit, Init
<1>2. SameCall(Idle, Idle)
  BY DEF SameCall, Idle, Frame
<1>3. Fresh
  BY <1>1 DEF Fresh, RegistryEntries, Alive
<1>4. ASSUME NEW k \in Key PROVE Closed(possible[k], pending, k, now)
  BY <1>1, IdleAbout DEF Closed, OpenIn
<1> QED
  BY <1>1, <1>2, <1>3, <1>4 DEF Follows

\* ... and after every step, as each makes the possibilities closed again.
LEMMA FollowsNext ==
    ASSUME TypeOK, Follows, workload.linear, [HistoryNext]_allVars
    PROVE  Follows'
<1>1. Fresh'
  BY FreshStep, HistoryStep DEF Follows
<1>2. DOMAIN pending = Worker /\ \A w \in Worker : SameCall(frame[w], pending[w])
  BY DEF Follows
<1>3. \A k \in Key : Closed(possible[k], pending, k, now) /\ \A h \in possible[k] : DOMAIN h.answer = Worker
  BY DEF Follows, Closed
<1>4. ASSUME NEW w \in Worker, Begin(w) PROVE Follows'
  <2>1. PICK f : /\ frame' = [frame EXCEPT ![w] = f] /\ f.pc \in Opening /\ OnlyReads
    BY <1>4, BeginFrame
  <2>2. frame'[w] = f /\ \A x \in Worker \ {w} : frame'[x] = frame[x]
    BY <2>1 DEF TypeOK
  <2>3. pending' = [pending EXCEPT ![w] = f]
    BY <1>4, <2>2 DEF Begin
  <2>4. pending'[w] = f /\ (\A x \in Worker \ {w} : pending'[x] = pending[x]) /\ DOMAIN pending' = Worker
    BY <1>2, <2>3
  <2>5. SameCall(f, f)
    BY <2>1 DEF SameCall, Opening
  <2>6. \A x \in Worker : SameCall(frame'[x], pending'[x])
    BY <1>2, <2>2, <2>4, <2>5
  <2>7. ASSUME NEW k \in Key PROVE Closed(possible'[k], pending', k, now')
    <3>1. possible'[k] = Possibly(possible[k], pending', k, now) /\ now' = now
      BY <1>4, <2>1 DEF Begin, OnlyReads
    <3> QED
      BY <1>3, <3>1, PossiblyClosed
  <2> QED
    BY <1>1, <2>4, <2>6, <2>7 DEF Follows
<1>5. ASSUME NEW w \in Worker, Continue(w) \/ End(w)
      PROVE  /\ now' = now /\ (\A x \in Worker \ {w} : frame'[x] = frame[x])
             /\ frame'[w] # Idle => SameCall(frame'[w], pending[w])
  <2>1. /\ now' = now /\ (\A x \in Worker \ {w} : frame'[x] = frame[x])
        /\ Onward(frame[w], frame'[w])
    BY <1>5, StepMoves DEF Continue, End
  <2>2. frame'[w] # Idle => <<frame[w].pc, frame'[w].pc>> \in Moves
    BY <2>1 DEF Onward
  <2> QED
    BY <1>2, <2>1, <2>2, SameCallMoves
<1>6. ASSUME NEW w \in Worker, Continue(w) PROVE Follows'
  <2>1. frame'[w] # Idle /\ pending' = pending /\ possible' = possible
    BY <1>6 DEF Continue
  <2> QED
    BY <1>1, <1>2, <1>3, <1>5, <1>6, <2>1 DEF Follows
<1>7. ASSUME NEW w \in Worker, End(w) PROVE Follows'
  <2>1. frame'[w] = Idle /\ pending' = [pending EXCEPT ![w] = Idle]
    BY <1>7 DEF End
  <2>2. pending'[w] = Idle /\ (\A x \in Worker \ {w} : pending'[x] = pending[x]) /\ DOMAIN pending' = Worker
    BY <1>2, <2>1
  <2>3. SameCall(Idle, Idle)
    BY DEF SameCall, Idle, Frame
  <2>4. now' = now /\ \A x \in Worker : SameCall(frame'[x], pending'[x])
    BY <1>2, <1>5, <1>7, <2>1, <2>2, <2>3
  <2>5. \A k \in Key : Closed(possible'[k], pending', k, now')
    BY <1>7, <2>4, EndClosed
  <2> QED
    BY <1>1, <2>2, <2>4, <2>5 DEF Follows
<1>8. CASE Pass
  <2>1. pending' = pending /\ frame' = frame
    BY <1>8 DEF Pass, Tick
  <2>2. ASSUME NEW k \in Key PROVE Closed(possible'[k], pending', k, now')
    <3> DEFINE H == {[map |-> At(h.map, now'), answer |-> h.answer] : h \in possible[k]}
    <3>1. possible'[k] = Possibly(H, pending, k, now')
      BY <1>8 DEF Pass
    <3>2. \A h \in H : DOMAIN h.answer = Worker
      BY <1>3
    <3> HIDE DEF H
    <3> QED
      BY <2>1, <3>1, <3>2, PossiblyClosed
  <2> QED
    BY <1>1, <1>2, <2>1, <2>2 DEF Follows
<1>9. CASE Restart
  <2>1. \A w \in Worker : frame'[w] = Idle /\ pending'[w] = Idle
    BY <1>9 DEF Restart, Crash
  <2>2. DOMAIN pending' = Worker
    BY <1>9 DEF Restart
  <2>3. SameCall(Idle, Idle)
    BY DEF SameCall, Idle, Frame
  <2>4. ASSUME NEW k \in Key PROVE Closed(possible'[k], pending', k, now')
    <3>1. ASSUME NEW e \in possible'[k] PROVE DOMAIN e.answer = Worker
      <4>1. \E m : e = [map |-> m, answer |-> [w \in Worker |-> Open]]
        BY <1>9, Zenon DEF Restart
      <4> QED
        BY <4>1
    <3>2. \A h : OpenIn(h, pending', k) = {}
      BY <2>1, IdleAbout DEF OpenIn
    <3> QED
      BY <3>1, <3>2 DEF Closed
  <2> QED
    BY <1>1, <2>1, <2>2, <2>3, <2>4 DEF Follows
<1>10. CASE UNCHANGED allVars
  BY <1>1, <1>2, <1>3, <1>10 DEF allVars, vars, historyVars, Follows
<1> QED
  BY <1>4, <1>6, <1>7, <1>8, <1>9, <1>10 DEF HistoryNext

-----------------------------------------------------------------------------
\* A call takes effect

\* The operations do the same to maps that hold the same of k.
LEMMA SameOps ==
    ASSUME NEW k, NEW m, NEW n, Same(m, n, k), NEW v, NEW d, NEW t
    PROVE  /\ Same(Put(m, k, v), Put(n, k, v), k)
           /\ Same(PutUntil(m, k, v, d), PutUntil(n, k, v, d), k)
           /\ Same(SetDeadline(m, k, d), SetDeadline(n, k, d), k)
           /\ Same(Remove(m, k), Remove(n, k), k)
           /\ Look(m, k, None) = Look(n, k, None)
           /\ Left(m, k, t, None) = Left(n, k, t, None)
           /\ Holds(m, k, v) <=> Holds(n, k, v)
<1>1. Same(Put(m, k, v), Put(n, k, v), k)
  BY CellInsert DEF Same, Put
<1>2. \A u : Same(PutUntil(m, k, u, d), PutUntil(n, k, u, d), k)
  BY CellInsert DEF Same, PutUntil
<1>3. Same(SetDeadline(m, k, d), SetDeadline(n, k, d), k)
  <2>1. CASE k \in DOMAIN m
    <3>1. k \in DOMAIN n /\ m[k] = n[k]
      BY <2>1 DEF Same
    <3> QED
      BY <1>2, <2>1, <3>1 DEF SetDeadline
  <2>2. CASE k \notin DOMAIN m
    BY <2>2 DEF SetDeadline, Same
  <2> QED
    BY <2>1, <2>2
<1>4. Same(Remove(m, k), Remove(n, k), k)
  BY CellRemove DEF Same
<1>5. Look(m, k, None) = Look(n, k, None)
  BY DEF Same, Look
<1>6. Left(m, k, t, None) = Left(n, k, t, None)
  BY DEF Same, Left
<1>7. Holds(m, k, v) <=> Holds(n, k, v)
  BY DEF Same, Holds
<1> QED
  BY <1>1, <1>2, <1>3, <1>4, <1>5, <1>6, <1>7

\* The frame of a call is about the keys its beginning was about.
LEMMA AboutSame ==
    ASSUME NEW f, NEW p, SameCall(f, p), f.pc \in OnKey \cup Scanning, NEW k
    PROVE  (About(f, k) <=> About(p, k)) /\ p.pc # "idle"
<1>1. f.key = p.key
  BY DEF SameCall
<1>2. f.pc \in Scanning <=> p.pc \in Scanning
  BY DEF SameCall, OnKey, Scanning
<1>3. p.pc # "idle"
  BY DEF SameCall, OnKey, Scanning
<1> QED
  BY <1>1, <1>2, <1>3 DEF About

\* A call that goes on is about the same keys.
LEMMA AboutMoves ==
    ASSUME NEW f, NEW g, Onward(f, g), g # Idle, NEW k
    PROVE  About(g, k) <=> About(f, k)
<1>1. g.key = f.key /\ <<f.pc, g.pc>> \in Moves
  BY DEF Onward
<1>2. f.pc \in Scanning <=> g.pc \in Scanning
  BY <1>1 DEF Moves, Scanning
<1> QED
  BY <1>1, <1>2 DEF About

\* An open call may take effect now.
LEMMA TakeIt ==
    ASSUME Follows, NEW k \in Key, NEW h \in possible[k], NEW w \in Worker, About(frame[w], k),
           frame[w].pc \in OnKey \cup Scanning, h.answer[w] = Open
    PROVE  \E g \in possible[k] :
             /\ g.map = Meaning(pending[w], h.map, k, now).map
             /\ g.answer[w] = <<Meaning(pending[w], h.map, k, now).answer>>
             /\ \A x \in Worker \ {w} : g.answer[x] = h.answer[x]
<1>1. About(pending[w], k) /\ pending[w].pc # "idle"
  BY AboutSame DEF Follows
<1>2. w \in OpenIn(h, pending, k)
  BY <1>1 DEF OpenIn
<1>3. Closed(possible[k], pending, k, now)
  BY DEF Follows
<1>4. DOMAIN h.answer = Worker /\ Takes(h, w, pending, k, now) \in possible[k]
  BY <1>2, <1>3 DEF Closed
<1> QED
  BY <1>4, TakesShape

\* The possibilities after a step of a call.
LEMMA Carry ==
    ASSUME Follows, workload.linear, NEW w \in Worker, Continue(w) \/ End(w), NEW k \in Key,
           NEW g \in possible[k],
           (frame'[w] = Idle /\ About(pending[w], k)) =>
             g.answer[w] # Open /\ (sure[w] => g.answer[w] = <<Answer(w, k)>>)
    PROVE  \E e \in possible'[k] :
             /\ e.map = g.map
             /\ \A x \in Worker \ {w} : e.answer[x] = g.answer[x]
             /\ e.answer[w] = IF frame'[w] = Idle /\ About(pending[w], k) THEN Open ELSE g.answer[w]
<1>0. DOMAIN g.answer = Worker
  BY DEF Follows, Closed
<1>1. CASE Continue(w)
  <2>1. possible' = possible /\ frame'[w] # Idle
    BY <1>1 DEF Continue
  <2> QED
    BY <2>1
<1>2. CASE End(w)
  <2>1. frame'[w] = Idle
    BY <1>2 DEF End
  <2>2. PICK e \in possible'[k] :
          /\ e.map = g.map
          /\ IF About(pending[w], k) THEN e.answer = [g.answer EXCEPT ![w] = Open]
                                     ELSE e.answer = g.answer
    BY <1>2, <2>1, EndKeeps
  <2> QED
    BY <1>0, <2>1, <2>2
<1> QED
  BY <1>1, <1>2

\* What else happens to the possibilities.
LEMMA CarryOver ==
    ASSUME Follows, workload.linear, NEW k \in Key, NEW h \in possible[k]
    PROVE  /\ \A w \in Worker : Begin(w) => h \in possible'[k]
           /\ Pass => \E e \in possible'[k] : e.map = At(h.map, now') /\ e.answer = h.answer
           /\ Restart => \E e \in possible'[k] :
                 /\ e.map = Keep(h.map, {x \in DOMAIN h.map : h.map[x].deadline = Never})
                 /\ \A w \in Worker : e.answer[w] = Open
<1>0. \A g \in possible[k] : DOMAIN g.answer = Worker
  BY DEF Follows, Closed
<1>1. ASSUME NEW w \in Worker, Begin(w) PROVE h \in possible'[k]
  <2>1. possible'[k] = Possibly(possible[k], pending', k, now)
    BY <1>1 DEF Begin
  <2> QED
    BY <1>0, <2>1, PossiblyClosed
<1>2. ASSUME Pass PROVE \E e \in possible'[k] : e.map = At(h.map, now') /\ e.answer = h.answer
  <2> DEFINE H == {[map |-> At(g.map, now'), answer |-> g.answer] : g \in possible[k]}
             e == [map |-> At(h.map, now'), answer |-> h.answer]
  <2>1. possible'[k] = Possibly(H, pending, k, now')
    BY <1>2 DEF Pass
  <2>2. \A g \in H : DOMAIN g.answer = Worker
    BY <1>0
  <2>3. e \in H
    OBVIOUS
  <2>4. e.map = At(h.map, now') /\ e.answer = h.answer
    OBVIOUS
  <2> HIDE DEF H, e
  <2>5. e \in possible'[k]
    BY <2>1, <2>2, <2>3, PossiblyClosed
  <2> QED
    BY <2>4, <2>5
<1>3. ASSUME Restart
      PROVE  \E e \in possible'[k] :
                 /\ e.map = Keep(h.map, {x \in DOMAIN h.map : h.map[x].deadline = Never})
                 /\ \A w \in Worker : e.answer[w] = Open
  <2> DEFINE e == [map |-> Keep(h.map, {x \in DOMAIN h.map : h.map[x].deadline = Never}),
                   answer |-> [w \in Worker |-> Open]]
  <2>1. e \in possible'[k]
    BY <1>3, Zenon DEF Restart
  <2>2. e.map = Keep(h.map, {x \in DOMAIN h.map : h.map[x].deadline = Never})
        /\ \A w \in Worker : e.answer[w] = Open
    OBVIOUS
  <2> HIDE DEF e
  <2> QED
    BY <2>1, <2>2
<1> QED
  BY <1>1, <1>2, <1>3

\* In g the call p of w has taken effect on h, which held of k what n does.
Effect(h, g, p, w, k, n) ==
    /\ \A x \in Worker \ {w} : g.answer[x] = h.answer[x]
    /\ p.pc \in {"read_transient", "find_transient"} =>
         Same(g.map, n, k) /\ g.answer[w] = <<Look(n, k, None)>>
    /\ p.pc = "remaining" =>
         Same(g.map, n, k) /\ g.answer[w] = <<Left(n, k, now, None)>>
    /\ p.pc = "write_persistent" =>
         /\ k \in DOMAIN g.map /\ g.map[k] = [value |-> p.value, deadline |-> Never]
         /\ g.answer[w] = <<None>>
    /\ p.pc = "delete_transient" => k \notin DOMAIN g.map /\ g.answer[w] = <<None>>
    /\ p.pc = "match_transient" /\ Holds(n, k, p.value) =>
         k \notin DOMAIN g.map /\ g.answer[w] = <<TRUE>>
    /\ p.pc = "match_transient" /\ ~Holds(n, k, p.value) =>
         Same(g.map, n, k) /\ g.answer[w] = <<FALSE>>
    /\ p.pc = "ttl_read" =>
         Same(g.map, At(SetDeadline(n, k, now + p.ttl), now), k) /\ g.answer[w] = <<None>>
    /\ p.pc = "timed_clear" =>
         Same(g.map, At(PutUntil(n, k, p.value, now + p.ttl), now), k) /\ g.answer[w] = <<None>>

\* A call that takes effect on h does to k what it does on n, which holds the same of k.
LEMMA TakeAs ==
    ASSUME Follows, NEW k \in Key, NEW h \in possible[k], NEW w \in Worker, About(frame[w], k),
           frame[w].pc \in OnKey \cup Scanning, h.answer[w] = Open,
           NEW n, Same(h.map, n, k), k \in DOMAIN n => Alive(n[k], now)
    PROVE  \E g \in possible[k] : Effect(h, g, pending[w], w, k, n)
<1> DEFINE p == pending[w]
           r == Meaning(p, h.map, k, now)
<1>1. PICK g \in possible[k] :
             /\ g.map = r.map
             /\ g.answer[w] = <<r.answer>>
             /\ \A x \in Worker \ {w} : g.answer[x] = h.answer[x]
  BY TakeIt
<1>m. /\ p.pc \in {"read_transient", "find_transient"} =>
           r.map = At(h.map, now) /\ r.answer = Look(h.map, k, None)
      /\ p.pc = "remaining" => r.map = At(h.map, now) /\ r.answer = Left(h.map, k, now, None)
      /\ p.pc = "write_persistent" => r.map = At(Put(h.map, k, p.value), now) /\ r.answer = None
      /\ p.pc = "delete_transient" => r.map = At(Remove(h.map, k), now) /\ r.answer = None
      /\ p.pc = "match_transient" /\ Holds(h.map, k, p.value) =>
           r.map = At(Remove(h.map, k), now) /\ r.answer = TRUE
      /\ p.pc = "match_transient" /\ ~Holds(h.map, k, p.value) =>
           r.map = At(h.map, now) /\ r.answer = FALSE
      /\ p.pc = "ttl_read" => r.map = At(SetDeadline(h.map, k, now + p.ttl), now) /\ r.answer = None
      /\ p.pc = "timed_clear" =>
           r.map = At(PutUntil(h.map, k, p.value, now + p.ttl), now) /\ r.answer = None
  BY Meanings
<1> HIDE DEF p, r
<1>o. /\ Look(h.map, k, None) = Look(n, k, None) /\ Left(h.map, k, now, None) = Left(n, k, now, None)
      /\ Holds(h.map, k, p.value) <=> Holds(n, k, p.value)
  BY SameOps
<1>2. Same(At(n, now), n, k)
  BY CellAt DEF Same
<1>3. Same(At(h.map, now), n, k)
  BY <1>2, SameAt, SameTrans
<1>4. p.pc \in {"read_transient", "find_transient"} =>
        Same(g.map, n, k) /\ g.answer[w] = <<Look(n, k, None)>>
  BY <1>1, <1>3, <1>m, <1>o
<1>5. p.pc = "remaining" => Same(g.map, n, k) /\ g.answer[w] = <<Left(n, k, now, None)>>
  BY <1>1, <1>3, <1>m, <1>o
<1>6. p.pc = "write_persistent" =>
        /\ k \in DOMAIN g.map /\ g.map[k] = [value |-> p.value, deadline |-> Never]
        /\ g.answer[w] = <<None>>
  <2>1. k \in DOMAIN Put(h.map, k, p.value) /\ Put(h.map, k, p.value)[k] = [value |-> p.value, deadline |-> Never]
    BY CellPut
  <2>2. Alive([value |-> p.value, deadline |-> Never], now)
    BY DEF Alive
  <2>3. k \in DOMAIN At(Put(h.map, k, p.value), now)
        /\ At(Put(h.map, k, p.value), now)[k] = [value |-> p.value, deadline |-> Never]
    BY <2>1, <2>2, CellAt
  <2> QED
    BY <1>1, <2>3, <1>m
<1>7. p.pc = "delete_transient" => k \notin DOMAIN g.map /\ g.answer[w] = <<None>>
  BY <1>1, <1>m, CellRemove, CellAt
<1>8. p.pc = "match_transient" /\ Holds(n, k, p.value) => k \notin DOMAIN g.map /\ g.answer[w] = <<TRUE>>
  <2>1. k \notin DOMAIN At(Remove(h.map, k), now)
    BY CellRemove, CellAt
  <2> QED
    BY <1>1, <1>m, <1>o, <2>1
<1>9. p.pc = "match_transient" /\ ~Holds(n, k, p.value) => Same(g.map, n, k) /\ g.answer[w] = <<FALSE>>
  BY <1>1, <1>3, <1>m, <1>o
<1>10. p.pc = "ttl_read" =>
         Same(g.map, At(SetDeadline(n, k, now + p.ttl), now), k) /\ g.answer[w] = <<None>>
  <2>1. Same(SetDeadline(h.map, k, now + p.ttl), SetDeadline(n, k, now + p.ttl), k)
    BY SameOps
  <2> QED
    BY <1>1, <2>1, <1>m, SameAt
<1>11. p.pc = "timed_clear" =>
         Same(g.map, At(PutUntil(n, k, p.value, now + p.ttl), now), k) /\ g.answer[w] = <<None>>
  <2>1. Same(PutUntil(h.map, k, p.value, now + p.ttl), PutUntil(n, k, p.value, now + p.ttl), k)
    BY SameOps
  <2> QED
    BY <1>1, <2>1, <1>m, SameAt
<1> QED
  BY <1>1, <1>4, <1>5, <1>6, <1>7, <1>8, <1>9, <1>10, <1>11 DEF p, Effect

-----------------------------------------------------------------------------
\* Workloads

\* The threads call only these methods, each named by its first step.
Only(load, methods) == \A w \in Worker : load.methods[w] \subseteq methods

\* Every value has a TTL.
TimedMethods == {"read_transient", "timed_clear", "delete_transient", "match_transient", "ttl_read",
                 "remaining", "find_transient"}

\* No value has a TTL, and none is promoted.
DurableMethods == {"write_persistent", "delete_transient", "match_transient", "remaining", "find_transient"}

\* No value has a TTL, and reads promote.
CachedMethods == {"write_persistent", "delete_transient", "read_transient"}

-----------------------------------------------------------------------------
\* Values with TTLs: the transient tier is the map, and a call takes effect there.

TimedSteps == TimedMethods \cup {"idle", "read_persistent", "delete_persistent", "match_persistent",
                                 "ttl_set", "timed_write", "find_persistent"}

\* What the call at f has been answered about k: before the step on the transient tier nothing.
DueTimed(f, k) ==
    CASE f.pc \in {"read_persistent", "delete_persistent"} /\ f.key = k -> <<None>>
      [] f.pc = "match_persistent" /\ f.key = k -> <<f.hit>>
      [] f.pc = "find_persistent" /\ k \in f.key -> <<Get(f.value, k, None)>>
      [] OTHER -> Open

TimedFit(h, k) ==
    /\ Same(h.map, transient, k)
    /\ \A w \in Worker : h.answer[w] = DueTimed(frame[w], k)

TimedInv ==
    /\ \A w \in Worker : frame[w].pc \in TimedSteps
    /\ DOMAIN persistent = {}
    /\ \A k \in DOMAIN transient \ Registry : transient[k].deadline # Never
    /\ \A k \in Key \ Registry : \E h \in possible[k] : TimedFit(h, k)

\* A call that is about to read or change the transient tier is open.
LEMMA TimedOpen ==
    ASSUME NEW f, NEW k, About(f, k), f.pc \in OnKey \cup Scanning
    PROVE  /\ f.pc \notin Scanning => f.key = k
           /\ f.pc \in Scanning => k \in f.key
           /\ f.pc \notin {"read_persistent", "delete_persistent", "match_persistent", "find_persistent"} =>
                DueTimed(f, k) = Open
BY DEF About, DueTimed, OnKey, Scanning

\* A step of a call about k takes effect on the transient tier, or has done so.
LEMMA TimedAbout ==
    ASSUME TypeOK, Follows, ~FaultyDisk, TimedInv, NEW w \in Worker, Step(w), NEW k \in Key \ Registry,
           NEW h \in possible[k], TimedFit(h, k), About(frame[w], k)
    PROVE  \E g \in possible[k] :
             /\ Same(g.map, transient', k)
             /\ \A x \in Worker \ {w} : g.answer[x] = h.answer[x]
             /\ IF frame'[w] = Idle THEN g.answer[w] = <<Answer(w, k)>>
                                    ELSE g.answer[w] = DueTimed(frame'[w], k)
<1> DEFINE f == frame[w]
           p == pending[w]
           Goal == \E g \in possible[k] :
                     /\ Same(g.map, transient', k)
                     /\ \A x \in Worker \ {w} : g.answer[x] = h.answer[x]
                     /\ IF frame'[w] = Idle THEN g.answer[w] = <<Answer(w, k)>>
                                            ELSE g.answer[w] = DueTimed(frame'[w], k)
<1>1. /\ f.pc \in TimedSteps /\ f.pc \in OnKey \cup Scanning /\ Fresh /\ DOMAIN persistent = {}
      /\ Same(h.map, transient, k) /\ h.answer[w] = DueTimed(f, k) /\ k \in Key
      /\ SameCall(f, p)
  BY StepAt DEF TimedInv, TimedFit, Follows
<1>2. /\ f.pc \notin Scanning => f.key = k
      /\ f.pc \in Scanning => k \in f.key
      /\ f.pc \notin {"read_persistent", "delete_persistent", "match_persistent", "find_persistent"} =>
           h.answer[w] = Open
  BY <1>1, TimedOpen
<1>3. /\ now \in Nat /\ (k \in DOMAIN transient => Alive(transient[k], now) /\ transient[k].value \in Value)
      /\ \A v \in Value : v # None
  BY <1>1, NoneAssumption DEF TypeOK, Fresh, IsMap, Entry
<1>4. /\ f.pc \in WithValue => f.value \in Value
      /\ f.hit \in BOOLEAN /\ w \in DOMAIN frame /\ w \in DOMAIN reply
  BY DEF TypeOK, FrameOK, Frames
<1>5. h.answer[w] = Open => \E g \in possible[k] : Effect(h, g, p, w, k, transient)
  BY <1>1, <1>3, TakeAs
<1> SUFFICES Goal
  OBVIOUS
<1>6. CASE f.pc = "read_transient"
  <2>1. ReadTransient(w) /\ f.key = k /\ p.pc = "read_transient" /\ h.answer[w] = Open
    BY <1>1, <1>2, <1>6, StepAt DEF Scanning, SameCall
  <2>2. PICK g \in possible[k] :
          /\ \A x \in Worker \ {w} : g.answer[x] = h.answer[x]
          /\ Same(g.map, transient, k) /\ g.answer[w] = <<Look(transient, k, None)>>
    BY <1>5, <2>1 DEF Effect
  <2>3. transient' = transient
    BY <2>1 DEF ReadTransient, OnlyReads
  <2>4. CASE Look(transient, k, None) # None
    <3>1. frame'[w] = Idle /\ reply'[w] = Look(transient, k, None)
      BY <1>4, <2>1, <2>4 DEF ReadTransient, Return
    <3>2. Answer(w, k) = Look(transient, k, None)
      BY <1>6, <3>1 DEF Answer
    <3> QED
      BY <2>2, <2>3, <3>1, <3>2
  <2>5. CASE Look(transient, k, None) = None
    <3>1. frame'[w] = Frame("read_persistent", k, f.value, f.ttl, f.hit)
      BY <1>4, <2>1, <2>5 DEF ReadTransient, Goto, GotoWith
    <3>2. frame'[w].pc = "read_persistent" /\ frame'[w].key = k /\ frame'[w] # Idle
      BY <3>1 DEF Frame, Idle
    <3>3. DueTimed(frame'[w], k) = <<None>>
      BY <3>2 DEF DueTimed
    <3> QED
      BY <2>2, <2>3, <2>5, <3>2, <3>3
  <2> QED
    BY <2>4, <2>5
<1>7. CASE f.pc = "read_persistent"
  <2>1. ReadPersistent(w) /\ f.key = k /\ h.answer[w] = <<None>>
    BY <1>1, <1>2, <1>7, StepAt DEF Scanning, DueTimed
  <2>2. frame'[w] = Idle /\ reply'[w] = None /\ transient' = transient
    BY <1>1, <1>4, <2>1 DEF ReadPersistent, OnlyReads, Selected, Get, Return
  <2>3. Answer(w, k) = None
    BY <1>7, <2>2 DEF Answer
  <2> QED
    BY <1>1, <2>1, <2>2, <2>3
<1>8. CASE f.pc = "delete_transient"
  <2>1. DeleteTransient(w) /\ f.key = k /\ p.pc = "delete_transient" /\ h.answer[w] = Open
    BY <1>1, <1>2, <1>8, StepAt DEF Scanning, SameCall
  <2>2. PICK g \in possible[k] :
          /\ \A x \in Worker \ {w} : g.answer[x] = h.answer[x]
          /\ k \notin DOMAIN g.map /\ g.answer[w] = <<None>>
    BY <1>5, <2>1 DEF Effect
  <2>3. transient' = At(Remove(transient, k), now)
    BY <2>1 DEF DeleteTransient, Transient
  <2>4. k \notin DOMAIN transient'
    BY <2>3, CellRemove, CellAt
  <2>5. frame'[w] = Frame("delete_persistent", k, f.value, f.ttl, f.hit)
    BY <1>4, <2>1 DEF DeleteTransient, Goto, GotoWith
  <2>6. frame'[w].pc = "delete_persistent" /\ frame'[w].key = k /\ frame'[w] # Idle
    BY <2>5 DEF Frame, Idle
  <2>7. DueTimed(frame'[w], k) = <<None>>
    BY <2>6 DEF DueTimed
  <2> QED
    BY <2>2, <2>4, <2>6, <2>7 DEF Same
<1>9. CASE f.pc = "delete_persistent"
  <2>1. DeletePersistent(w) /\ f.key = k /\ h.answer[w] = <<None>>
    BY <1>1, <1>2, <1>9, StepAt DEF Scanning, DueTimed
  <2>2. frame'[w] = Idle /\ reply'[w] = None /\ transient' = transient
    BY <1>4, <2>1 DEF DeletePersistent, Persistent, Return
  <2>3. Answer(w, k) = None
    BY <1>9, <2>2 DEF Answer
  <2> QED
    BY <1>1, <2>1, <2>2, <2>3
<1>10. CASE f.pc = "match_transient"
  <2>1. MatchTransient(w) /\ f.key = k /\ p.pc = "match_transient" /\ p.value = f.value
        /\ h.answer[w] = Open
    BY <1>1, <1>2, <1>10, StepAt DEF Scanning, SameCall
  <2> DEFINE m == Holds(transient, k, f.value)
  <2>2. PICK g \in possible[k] :
          /\ \A x \in Worker \ {w} : g.answer[x] = h.answer[x]
          /\ m => k \notin DOMAIN g.map /\ g.answer[w] = <<TRUE>>
          /\ ~m => Same(g.map, transient, k) /\ g.answer[w] = <<FALSE>>
    BY <1>5, <2>1 DEF Effect
  <2>3. /\ transient' = At(IF m THEN Remove(transient, k) ELSE transient, now)
        /\ frame'[w] = Frame("match_persistent", k, f.value, f.ttl, m)
    BY <1>4, <2>1 DEF MatchTransient, Transient, GotoWith
  <2>4. frame'[w].pc = "match_persistent" /\ frame'[w].key = k /\ frame'[w] # Idle /\ frame'[w].hit = m
    BY <2>3 DEF Frame, Idle
  <2>5. DueTimed(frame'[w], k) = <<m>>
    BY <2>4 DEF DueTimed
  <2>6. CASE m
    <3>1. k \notin DOMAIN transient'
      BY <2>3, <2>6, CellRemove, CellAt
    <3>2. <<m>> = <<TRUE>>
      BY <2>6
    <3> QED
      BY <2>2, <2>4, <2>5, <2>6, <3>1, <3>2 DEF Same
  <2>7. CASE ~m
    <3>1. Same(transient', transient, k)
      BY <1>1, <2>3, <2>7, FreshAt, SameTrans
    <3>2. <<m>> = <<FALSE>>
      BY <2>7 DEF Holds
    <3> QED
      <4>1. Same(g.map, transient', k)
        BY <2>2, <2>7, <3>1, SameTrans
      <4> QED
        BY <2>2, <2>4, <2>5, <2>7, <3>2, <4>1
  <2> QED
    BY <2>6, <2>7
<1>11. CASE f.pc = "match_persistent"
  <2>1. MatchPersistent(w) /\ f.key = k /\ h.answer[w] = <<f.hit>> /\ f.value # None
    BY <1>1, <1>2, <1>3, <1>4, <1>11, StepAt DEF Scanning, DueTimed, WithValue
  <2>2. frame'[w] = Idle /\ reply'[w] = f.hit /\ transient' = transient
    BY <1>1, <1>4, <2>1 DEF MatchPersistent, Selected, Get, Persistent, Return
  <2>3. Answer(w, k) = f.hit
    BY <1>11, <2>2 DEF Answer
  <2> QED
    BY <1>1, <2>1, <2>2, <2>3
<1>12. CASE f.pc \in {"ttl_read", "timed_clear"}
  <2>1. (TtlRead(w) \/ TimedClear(w)) /\ h.answer[w] = Open
    BY <1>1, <1>2, <1>12, StepAt
  <2>2. transient' = transient /\ (Goto(w, "ttl_set") \/ Goto(w, "timed_write"))
    BY <1>1, <2>1 DEF TtlRead, TimedClear, OnlyReads, Persistent, Selected, Get
  <2>3. frame'[w].pc \in {"ttl_set", "timed_write"} /\ frame'[w] # Idle
    BY <1>4, <2>2 DEF Goto, GotoWith, Frame, Idle
  <2>4. DueTimed(frame'[w], k) = Open
    BY <2>3 DEF DueTimed
  <2> QED
    BY <1>1, <2>1, <2>2, <2>3, <2>4
<1>13. CASE f.pc = "ttl_set"
  <2>1. TtlSet(w) /\ f.key = k /\ p.pc = "ttl_read" /\ p.ttl = f.ttl /\ h.answer[w] = Open
    BY <1>1, <1>2, <1>13, StepAt DEF Scanning, SameCall
  <2>2. PICK g \in possible[k] :
          /\ \A x \in Worker \ {w} : g.answer[x] = h.answer[x]
          /\ Same(g.map, At(SetDeadline(transient, k, now + f.ttl), now), k)
          /\ g.answer[w] = <<None>>
    BY <1>5, <2>1 DEF Effect
  <2>3. /\ transient' = At(SetDeadline(transient, k, now + f.ttl), now)
        /\ frame'[w] = Idle /\ reply'[w] = None
    BY <1>4, <2>1 DEF TtlSet, Transient, Return
  <2>4. Answer(w, k) = None
    BY <1>13, <2>3 DEF Answer
  <2> QED
    BY <2>2, <2>3, <2>4
<1>14. CASE f.pc = "timed_write"
  <2>1. TimedWrite(w) /\ f.key = k /\ p.pc = "timed_clear" /\ p.ttl = f.ttl /\ p.value = f.value
        /\ h.answer[w] = Open
    BY <1>1, <1>2, <1>14, StepAt DEF Scanning, SameCall
  <2>2. PICK g \in possible[k] :
          /\ \A x \in Worker \ {w} : g.answer[x] = h.answer[x]
          /\ Same(g.map, At(PutUntil(transient, k, f.value, now + f.ttl), now), k)
          /\ g.answer[w] = <<None>>
    BY <1>5, <2>1 DEF Effect
  <2>3. /\ transient' = At(PutUntil(transient, k, f.value, now + f.ttl), now)
        /\ frame'[w] = Idle /\ reply'[w] = None
    BY <1>4, <2>1 DEF TimedWrite, Transient, Return
  <2>4. Answer(w, k) = None
    BY <1>14, <2>3 DEF Answer
  <2> QED
    BY <2>2, <2>3, <2>4
<1>15. CASE f.pc = "remaining"
  <2>1. ReadTtlRemaining(w) /\ f.key = k /\ p.pc = "remaining" /\ h.answer[w] = Open
    BY <1>1, <1>2, <1>15, StepAt DEF Scanning, SameCall
  <2>2. PICK g \in possible[k] :
          /\ \A x \in Worker \ {w} : g.answer[x] = h.answer[x]
          /\ Same(g.map, transient, k) /\ g.answer[w] = <<Left(transient, k, now, None)>>
    BY <1>5, <2>1 DEF Effect
  <2>3. transient' = transient /\ frame'[w] = Idle /\ reply'[w] = Left(transient, k, now, None)
    BY <1>4, <2>1 DEF ReadTtlRemaining, OnlyReads, Return
  <2>4. Answer(w, k) = Left(transient, k, now, None)
    BY <1>15, <2>3 DEF Answer
  <2> QED
    BY <2>2, <2>3, <2>4
<1>16. CASE f.pc = "find_transient"
  <2>1. FindTransient(w) /\ k \in f.key /\ p.pc = "find_transient" /\ h.answer[w] = Open
    BY <1>1, <1>2, <1>16, StepAt DEF Scanning, SameCall
  <2>2. PICK g \in possible[k] :
          /\ \A x \in Worker \ {w} : g.answer[x] = h.answer[x]
          /\ Same(g.map, transient, k) /\ g.answer[w] = <<Look(transient, k, None)>>
    BY <1>5, <2>1 DEF Effect
  <2>3. transient' = transient
        /\ frame'[w] = Frame("find_persistent", f.key, Values(transient, f.key), f.ttl, FALSE)
    BY <1>4, <2>1 DEF FindTransient, OnlyReads, GotoWith
  <2>4. frame'[w].pc = "find_persistent" /\ frame'[w].key = f.key
        /\ frame'[w].value = Values(transient, f.key) /\ frame'[w] # Idle
    BY <2>3 DEF Frame, Idle
  <2>5. Get(Values(transient, f.key), k, None) = Look(transient, k, None)
    BY <2>1 DEF Get, Values, Look
  <2>6. DueTimed(frame'[w], k) = <<Look(transient, k, None)>>
    BY <2>1, <2>4, <2>5 DEF DueTimed
  <2> QED
    BY <2>2, <2>3, <2>4, <2>6
<1>17. CASE f.pc = "find_persistent"
  <2>1. FindPersistent(w) /\ k \in f.key /\ h.answer[w] = <<Get(f.value, k, None)>>
    BY <1>1, <1>2, <1>17, StepAt DEF Scanning, DueTimed
  <2> DEFINE found == Keep(persistent, f.key)
  <2>2. /\ transient' = transient /\ frame'[w] = Idle
        /\ reply'[w] = [x \in DOMAIN found \cup DOMAIN f.value |-> Get(f.value, x, Get(found, x, None))]
    BY <1>4, <2>1 DEF FindPersistent, OnlyReads, Selected, Return
  <2>3. k \notin DOMAIN found
    BY <1>1 DEF Keep
  <2> HIDE DEF found
  <2>4. Get(reply'[w], k, None) = Get(f.value, k, None)
    BY <2>2, <2>3 DEF Get
  <2>5. Answer(w, k) = Get(f.value, k, None)
    BY <1>17, <2>4 DEF Answer
  <2> QED
    BY <1>1, <2>1, <2>2, <2>5
<1> QED
  BY <1>1, <1>6, <1>7, <1>8, <1>9, <1>10, <1>11, <1>12, <1>13, <1>14, <1>15, <1>16, <1>17
     DEF TimedSteps, TimedMethods, OnKey, Scanning

\* A call on timed values stores no row and nothing without a deadline.
LEMMA TimedTiers ==
    ASSUME TypeOK, Follows, ~FaultyDisk, TimedInv, NEW w \in Worker, Step(w)
    PROVE  /\ frame'[w].pc \in TimedSteps
           /\ DOMAIN persistent' = {}
           /\ \A k \in DOMAIN transient' \ Registry : transient'[k].deadline # Never
<1> DEFINE f == frame[w]
           Rows == DOMAIN persistent' = {}
           Timed_ == \A k \in DOMAIN transient' \ Registry : transient'[k].deadline # Never
<1>1. f.pc \in TimedSteps /\ DOMAIN persistent = {} /\ Untimed(transient) \subseteq Registry /\ FrameOK(f)
      /\ now \in Nat
  BY DEF TimedInv, Untimed, TypeOK
<1>2. ASSUME Untimed(transient') \subseteq Registry PROVE Timed_
  BY <1>2 DEF Untimed
<1>3. ASSUME OnlyReads PROVE Rows /\ Timed_
  BY <1>1, <1>2, <1>3 DEF OnlyReads
<1>4. ASSUME Persistent(Remove(persistent, f.key)) \/ Persistent(persistent) PROVE Rows /\ Timed_
  BY <1>1, <1>2, <1>4 DEF Persistent, Remove, RemoveAll
<1>5. ASSUME NEW m, Transient(m), Untimed(m) \subseteq Registry PROVE Rows /\ Timed_
  <2>1. transient' = At(m, now) /\ persistent' = persistent
    BY <1>5 DEF Transient
  <2>2. Untimed(transient') \subseteq Registry
    BY <1>5, <2>1, UntimedAt
  <2> QED
    BY <1>1, <1>2, <2>1, <2>2
<1>6. Rows /\ Timed_
  <2> HIDE DEF Rows, Timed_
  <2>1. CASE f.pc \in {"read_transient", "read_persistent", "ttl_read", "remaining", "find_transient",
                       "find_persistent"}
    BY <1>3, <2>1, StepAt DEF ReadTransient, ReadPersistent, TtlRead, ReadTtlRemaining, FindTransient,
                              FindPersistent
  <2>2. CASE f.pc \in {"delete_persistent", "match_persistent", "timed_clear"}
    <3>1. DeletePersistent(w) \/ MatchPersistent(w) \/ TimedClear(w)
      BY <2>2, StepAt
    <3> QED
      BY <1>4, <3>1 DEF DeletePersistent, MatchPersistent, TimedClear
  <2>3. CASE f.pc \in {"delete_transient", "match_transient"}
    <3>1. Transient(Remove(transient, f.key)) \/ Transient(transient)
      BY <2>3, StepAt DEF DeleteTransient, MatchTransient
    <3> QED
      BY <1>1, <1>5, <3>1, UntimedRemove
  <2>4. CASE f.pc = "ttl_set"
    <3>1. Transient(SetDeadline(transient, f.key, now + f.ttl)) /\ f.ttl \in Nat
      BY <1>1, <2>4, StepAt DEF TtlSet, FrameOK, WithTtl
    <3> QED
      BY <1>1, <1>5, <3>1, UntimedSetDeadline
  <2>5. CASE f.pc = "timed_write"
    <3>1. Transient(PutUntil(transient, f.key, f.value, now + f.ttl)) /\ f.ttl \in Nat
      BY <1>1, <2>5, StepAt DEF TimedWrite, FrameOK, WithTtl
    <3> QED
      BY <1>1, <1>5, <3>1, UntimedPutUntil
  <2> QED
    BY <1>1, <2>1, <2>2, <2>3, <2>4, <2>5, StepAt DEF TimedSteps, TimedMethods, OnKey, Scanning
<1>7. frame'[w].pc \in TimedSteps
  <2>1. w \in DOMAIN frame /\ Onward(f, frame'[w])
    BY StepMoves DEF TypeOK
  <2>2. Idle.pc \in TimedSteps
    BY DEF Idle, Frame, TimedSteps
  <2>3. CASE f.pc = "read_persistent"
    <3>1. ReadPersistent(w)
      BY <2>3, StepAt
    <3>2. frame'[w] = Idle
      BY <1>1, <2>1, <3>1 DEF ReadPersistent, Selected, Get, Return
    <3> QED
      BY <2>2, <3>2
  <2>4. CASE f.pc = "ttl_read"
    <3>1. TtlRead(w)
      BY <2>4, StepAt
    <3>2. Goto(w, "ttl_set")
      BY <1>1, <3>1 DEF TtlRead, Selected, Get
    <3>3. frame'[w].pc = "ttl_set"
      BY <2>1, <3>2 DEF Goto, GotoWith, Frame
    <3> QED
      BY <3>3 DEF TimedSteps
  <2>5. CASE f.pc \notin {"read_persistent", "ttl_read"} /\ frame'[w] # Idle
    <3>1. <<f.pc, frame'[w].pc>> \in Moves
      BY <2>1, <2>5 DEF Onward
    <3> QED
      BY <1>1, <2>5, <3>1 DEF Moves, TimedSteps, TimedMethods
  <2> QED
    BY <2>2, <2>3, <2>4, <2>5
<1> QED
  BY <1>6, <1>7

\* A call owes its answer about the keys it is about.
LEMMA DueTimedAbout ==
    ASSUME NEW f, NEW k
    PROVE  /\ ~About(f, k) => DueTimed(f, k) = Open
           /\ f.pc \in Opening \cup {"idle"} => DueTimed(f, k) = Open
BY DEF DueTimed, About, Scanning, Opening

\* A step of a timed workload.
LEMMA TimedStep ==
    ASSUME TypeOK, Follows, ~FaultyDisk, TimedInv, workload.linear, NEW w \in Worker,
           Continue(w) \/ End(w)
    PROVE  TimedInv'
<1> DEFINE f == frame[w]
<1>1. Step(w)
  BY DEF Continue, End
<1>2. /\ now' = now /\ (\A x \in Worker \ {w} : frame'[x] = frame[x]) /\ Onward(f, frame'[w])
  BY <1>1, StepMoves
<1>3. /\ frame'[w].pc \in TimedSteps /\ DOMAIN persistent' = {}
      /\ \A k \in DOMAIN transient' \ Registry : transient'[k].deadline # Never
  BY <1>1, TimedTiers
<1>4. \A x \in Worker : frame'[x].pc \in TimedSteps
  BY <1>2, <1>3 DEF TimedInv
<1>5. ASSUME NEW k \in Key \ Registry
      PROVE  \E e \in possible'[k] : /\ Same(e.map, transient', k)
                                     /\ \A x \in Worker : e.answer[x] = DueTimed(frame'[x], k)
  <2>1. PICK h \in possible[k] : TimedFit(h, k)
    BY DEF TimedInv
  <2>2. f.pc \in OnKey \cup Scanning /\ (About(pending[w], k) <=> About(f, k))
    BY <1>1, StepAt, AboutSame DEF Follows
  <2>3. \A x \in Worker : h.answer[x] = DueTimed(frame[x], k)
    BY <2>1 DEF TimedFit
  <2>4. PICK g \in possible[k] :
          /\ Same(g.map, transient', k)
          /\ \A x \in Worker \ {w} : g.answer[x] = h.answer[x]
          /\ About(f, k) /\ frame'[w] = Idle => g.answer[w] = <<Answer(w, k)>>
          /\ ~(About(f, k) /\ frame'[w] = Idle) => g.answer[w] = DueTimed(frame'[w], k)
    <3>1. CASE About(f, k)
      BY <1>1, <2>1, <3>1, TimedAbout
    <3>2. CASE ~About(f, k)
      <4>1. Same(transient', transient, k)
        BY <1>1, <3>2, Elsewhere DEF Follows
      <4>2. Same(h.map, transient', k)
        BY <2>1, <4>1, SameTrans DEF TimedFit
      <4>3. frame'[w] = Idle \/ ~About(frame'[w], k)
        BY <1>2, <3>2, AboutMoves
      <4>4. DueTimed(frame'[w], k) = Open /\ DueTimed(f, k) = Open
        BY <3>2, <4>3, IdleAbout, DueTimedAbout
      <4> QED
        BY <2>3, <3>2, <4>2, <4>4
    <3> QED
      BY <3>1, <3>2
  <2>5. \A a : <<a>> # Open
    BY DEF Open
  <2>6. PICK e \in possible'[k] :
          /\ e.map = g.map
          /\ \A x \in Worker \ {w} : e.answer[x] = g.answer[x]
          /\ e.answer[w] = IF frame'[w] = Idle /\ About(pending[w], k) THEN Open ELSE g.answer[w]
    <3>1. (frame'[w] = Idle /\ About(pending[w], k)) =>
             g.answer[w] # Open /\ (sure[w] => g.answer[w] = <<Answer(w, k)>>)
      BY <2>2, <2>4, <2>5
    <3>2. k \in Key
      OBVIOUS
    <3> QED
      BY <3>1, <3>2, Carry
  <2>7. DueTimed(Idle, k) = Open
    BY IdleAbout, DueTimedAbout
  <2>8. e.answer[w] = DueTimed(frame'[w], k)
    BY <2>2, <2>4, <2>6, <2>7
  <2> QED
    BY <1>2, <2>3, <2>4, <2>6, <2>8
<1> QED
  BY <1>3, <1>4, <1>5 DEF TimedInv, TimedFit

\* The transient tier is one of the possible maps after every step...
LEMMA TimedNext ==
    ASSUME TypeOK, Follows, ~FaultyDisk, TimedInv, workload.linear, Only(workload, TimedMethods),
           [HistoryNext]_allVars
    PROVE  TimedInv'
<1>1. ASSUME NEW w \in Worker, Begin(w) PROVE TimedInv'
  <2>1. PICK f : /\ frame' = [frame EXCEPT ![w] = f]
                 /\ f.pc \in Opening \cap workload.methods[w]
                 /\ frame[w].pc = "idle" /\ OnlyReads
    BY <1>1, BeginFrame
  <2>2. frame'[w] = f /\ \A x \in Worker \ {w} : frame'[x] = frame[x]
    BY <2>1 DEF TypeOK
  <2>3. f.pc \in TimedSteps
    BY <2>1 DEF Only, TimedSteps
  <2>4. \A k : DueTimed(f, k) = Open /\ DueTimed(frame[w], k) = Open
    BY <2>1, DueTimedAbout
  <2>5. ASSUME NEW k \in Key \ Registry PROVE \E e \in possible'[k] : TimedFit(e, k)'
    <3>1. PICK h \in possible[k] : TimedFit(h, k)
      BY DEF TimedInv
    <3>2. h \in possible'[k]
      BY <1>1, CarryOver
    <3>3. Same(h.map, transient', k)
      BY <2>1, <3>1 DEF OnlyReads, TimedFit
    <3>4. \A x \in Worker : h.answer[x] = DueTimed(frame'[x], k)
      BY <2>2, <2>4, <3>1 DEF TimedFit
    <3> QED
      BY <3>2, <3>3, <3>4 DEF TimedFit
  <2> QED
    BY <2>1, <2>2, <2>3, <2>5 DEF TimedInv, OnlyReads
<1>2. CASE Pass
  <2>1. transient' = At(transient, now') /\ frame' = frame /\ persistent' = persistent
    BY <1>2 DEF Pass, Tick
  <2>2. ASSUME NEW k \in Key \ Registry PROVE \E e \in possible'[k] : TimedFit(e, k)'
    <3>1. PICK h \in possible[k] : TimedFit(h, k)
      BY DEF TimedInv
    <3>2. PICK e \in possible'[k] : e.map = At(h.map, now') /\ e.answer = h.answer
      BY <1>2, CarryOver
    <3>3. Same(e.map, transient', k)
      BY <2>1, <3>1, <3>2, SameAt DEF TimedFit
    <3> QED
      BY <2>1, <3>1, <3>2, <3>3 DEF TimedFit
  <2>3. \A k \in DOMAIN transient' \ Registry : transient'[k].deadline # Never
    BY <2>1, CellAt DEF TimedInv
  <2> QED
    BY <2>1, <2>2, <2>3 DEF TimedInv
<1>3. CASE Restart
  <2>1. transient' = RegistryEntries /\ persistent' = persistent /\ \A w \in Worker : frame'[w] = Idle
    BY <1>3 DEF Restart, Crash
  <2>2. DOMAIN transient' = Registry
    BY <2>1 DEF RegistryEntries
  <2>3. ASSUME NEW k \in Key \ Registry PROVE \E e \in possible'[k] : TimedFit(e, k)'
    <3>1. PICK h \in possible[k] : TimedFit(h, k)
      BY DEF TimedInv
    <3>2. PICK e \in possible'[k] : /\ e.map = Keep(h.map, {x \in DOMAIN h.map : h.map[x].deadline = Never})
                                    /\ \A w \in Worker : e.answer[w] = Open
      BY <1>3, CarryOver
    <3>3. k \in DOMAIN h.map => h.map[k].deadline # Never
      BY <3>1 DEF TimedFit, Same, TimedInv
    <3>4. k \notin DOMAIN e.map
      BY <3>2, <3>3 DEF Keep
    <3>5. Same(e.map, transient', k)
      BY <2>2, <3>4 DEF Same
    <3>6. DueTimed(Idle, k) = Open
      BY IdleAbout, DueTimedAbout
    <3> QED
      BY <2>1, <3>2, <3>5, <3>6 DEF TimedFit
  <2>4. Idle.pc \in TimedSteps
    BY DEF Idle, Frame, TimedSteps
  <2> QED
    BY <2>1, <2>2, <2>3, <2>4 DEF TimedInv
<1>4. CASE UNCHANGED allVars
  BY <1>4 DEF allVars, vars, historyVars, TimedInv, TimedFit
<1> QED
  BY <1>1, <1>2, <1>3, <1>4, TimedStep DEF HistoryNext

\* ... and at first.
LEMMA TimedInit ==
    ASSUME HistoryInit
    PROVE  TimedInv
<1>1. /\ \A w \in Worker : frame[w] = Idle
      /\ transient = RegistryEntries /\ persistent = EmptyMap
      /\ \A k \in Key : possible[k] = {[map |-> EmptyMap, answer |-> [w \in Worker |-> Open]]}
  BY DEF HistoryInit, Init
<1>2. Idle.pc \in TimedSteps
  BY DEF Idle, Frame, TimedSteps
<1>3. DOMAIN transient = Registry /\ DOMAIN persistent = {}
  BY <1>1 DEF RegistryEntries, EmptyMap
<1>4. ASSUME NEW k \in Key \ Registry PROVE \E h \in possible[k] : TimedFit(h, k)
  <2> DEFINE h == [map |-> EmptyMap, answer |-> [w \in Worker |-> Open]]
  <2>1. h \in possible[k] /\ h.map = EmptyMap /\ \A w \in Worker : h.answer[w] = Open
    BY <1>1
  <2>2. DueTimed(Idle, k) = Open
    BY IdleAbout, DueTimedAbout
  <2>3. Same(EmptyMap, transient, k)
    BY <1>3 DEF Same, EmptyMap
  <2> HIDE DEF h
  <2> QED
    BY <1>1, <2>1, <2>2, <2>3 DEF TimedFit
<1> QED
  BY <1>1, <1>2, <1>3, <1>4 DEF TimedInv

\* The transient tier is one of the possible maps.
LEMMA TimedHolds ==
    ASSUME TimedInv
    PROVE  Linearizable /\ Coherent
<1> SUFFICES ASSUME NEW k \in Key \ Registry
             PROVE  \E h \in possible[k] : Hold(h.map, k)
  BY DEF Linearizable, Coherent
<1>1. PICK h \in possible[k] : TimedFit(h, k)
  BY DEF TimedInv
<1>2. k \notin DOMAIN persistent /\ Same(h.map, transient, k)
      /\ (k \in DOMAIN transient => transient[k].deadline # Never)
  BY <1>1 DEF TimedInv, TimedFit
<1>3. Hold(h.map, k)
  BY <1>2 DEF Hold, Visible, Look, Get, Same
<1> QED
  BY <1>3

-----------------------------------------------------------------------------
\* Values without TTLs: the persistent tier is the map, and a call takes effect there.

\* The map m holds of k the row.
RowIs(m, k) ==
    /\ k \in DOMAIN m <=> k \in DOMAIN persistent
    /\ k \in DOMAIN m => m[k] = [value |-> persistent[k], deadline |-> Never]

\* Only a write goes on after it has taken effect.
DueRow(f, k) == IF f.pc = "invalidate" /\ f.key = k THEN <<None>> ELSE Open

RowFit(h, k) ==
    /\ RowIs(h.map, k)
    /\ \A w \in Worker : h.answer[w] = DueRow(frame[w], k)

\* In g, a step of the call of w has done what it does to the row of k.
RowStep(g, h, w, k) ==
    /\ RowIs(g.map, k)'
    /\ \A x \in Worker \ {w} : g.answer[x] = h.answer[x]
    /\ IF frame'[w] = Idle THEN \E a : g.answer[w] = <<a>> /\ (sure[w] => a = Answer(w, k))
                           ELSE g.answer[w] = DueRow(frame'[w], k)

\* A call that has not taken effect may do so on the row.
LEMMA TakeRow ==
    ASSUME TypeOK, Follows, NEW k \in Key, NEW h \in possible[k], RowFit(h, k), NEW w \in Worker,
           About(frame[w], k), frame[w].pc \in OnKey \cup Scanning, frame[w].pc # "invalidate"
    PROVE  /\ h.answer[w] = Open
           /\ \E g \in possible[k] : Effect(h, g, pending[w], w, k, h.map)
<1>1. h.answer[w] = Open
  BY DEF RowFit, DueRow
<1>2. Same(h.map, h.map, k) /\ (k \in DOMAIN h.map => Alive(h.map[k], now))
  BY SameTrans DEF RowFit, RowIs, Alive
<1> QED
  BY <1>1, <1>2, TakeAs

\* The row may change between two maps that hold it.
LEMMA RowKept ==
    ASSUME NEW m, NEW n, NEW k, RowIs(m, k), Same(n, m, k), Same(persistent', persistent, k)
    PROVE  RowIs(n, k)'
BY DEF RowIs, Same

\* Writes and deletes take effect when the statement on the row does.
LEMMA RowUpdate ==
    ASSUME TypeOK, Follows, ~FaultyDisk, NEW w \in Worker, Step(w), NEW k \in Key,
           NEW h \in possible[k], RowFit(h, k), About(frame[w], k),
           frame[w].pc \in {"write_persistent", "invalidate", "delete_transient", "delete_persistent"}
    PROVE  \E g \in possible[k] : RowStep(g, h, w, k)
<1> DEFINE f == frame[w]
           p == pending[w]
           Goal == \E g \in possible[k] : RowStep(g, h, w, k)
<1>1. /\ f.key = k /\ SameCall(f, p) /\ w \in DOMAIN frame /\ w \in DOMAIN reply
      /\ RowIs(h.map, k) /\ h.answer[w] = DueRow(f, k)
  BY DEF About, Scanning, Follows, TypeOK, RowFit
<1>2. f.pc # "invalidate" =>
        h.answer[w] = Open /\ \E g \in possible[k] : Effect(h, g, p, w, k, h.map)
  BY TakeRow DEF OnKey
<1> SUFFICES Goal
  OBVIOUS
<1>3. CASE f.pc = "write_persistent"
  <2>1. WritePersistent(w) /\ p.pc = "write_persistent" /\ p.value = f.value
    BY <1>1, <1>3, StepAt DEF SameCall
  <2>2. PICK g \in possible[k] :
          /\ \A x \in Worker \ {w} : g.answer[x] = h.answer[x]
          /\ k \in DOMAIN g.map /\ g.map[k] = [value |-> f.value, deadline |-> Never]
          /\ g.answer[w] = <<None>>
    BY <1>2, <1>3, <2>1 DEF Effect
  <2>3. persistent' = Insert(persistent, k, f.value)
        /\ frame'[w] = Frame("invalidate", k, f.value, f.ttl, f.hit)
    BY <1>1, <2>1 DEF WritePersistent, Persistent, Goto, GotoWith
  <2>4. k \in DOMAIN persistent' /\ persistent'[k] = f.value
    BY <2>3, CellInsert
  <2>5. frame'[w].pc = "invalidate" /\ frame'[w].key = k /\ frame'[w] # Idle
    BY <2>3 DEF Frame, Idle
  <2>6. DueRow(frame'[w], k) = <<None>>
    BY <2>5 DEF DueRow
  <2> QED
    BY <2>2, <2>4, <2>5, <2>6 DEF RowStep, RowIs
<1>4. CASE f.pc = "invalidate"
  <2>1. Invalidate(w) /\ h.answer[w] = <<None>>
    BY <1>1, <1>4, StepAt DEF DueRow
  <2>2. frame'[w] = Idle /\ reply'[w] = None /\ persistent' = persistent
    BY <1>1, <2>1 DEF Invalidate, Transient, Return
  <2>3. Answer(w, k) = None
    BY <1>4, <2>2 DEF Answer
  <2> QED
    BY <1>1, <2>1, <2>2, <2>3 DEF RowStep, RowIs
<1>5. CASE f.pc = "delete_transient"
  <2>1. DeleteTransient(w) /\ h.answer[w] = Open
    BY <1>2, <1>5, StepAt
  <2>2. persistent' = persistent /\ frame'[w] = Frame("delete_persistent", k, f.value, f.ttl, f.hit)
    BY <1>1, <2>1 DEF DeleteTransient, Transient, Goto, GotoWith
  <2>3. frame'[w].pc = "delete_persistent" /\ frame'[w] # Idle
    BY <2>2 DEF Frame, Idle
  <2>4. DueRow(frame'[w], k) = Open
    BY <2>3 DEF DueRow
  <2> QED
    BY <1>1, <2>1, <2>2, <2>3, <2>4 DEF RowStep, RowIs
<1>6. CASE f.pc = "delete_persistent"
  <2>1. DeletePersistent(w) /\ p.pc = "delete_transient"
    BY <1>1, <1>6, StepAt DEF SameCall
  <2>2. PICK g \in possible[k] :
          /\ \A x \in Worker \ {w} : g.answer[x] = h.answer[x]
          /\ k \notin DOMAIN g.map /\ g.answer[w] = <<None>>
    BY <1>2, <1>6, <2>1 DEF Effect
  <2>3. persistent' = Remove(persistent, k) /\ frame'[w] = Idle /\ reply'[w] = None
    BY <1>1, <2>1 DEF DeletePersistent, Persistent, Return
  <2>4. k \notin DOMAIN persistent'
    BY <2>3, CellRemove
  <2>5. Answer(w, k) = None
    BY <1>6, <2>3 DEF Answer
  <2> QED
    BY <2>2, <2>3, <2>4, <2>5 DEF RowStep, RowIs
<1> QED
  BY <1>3, <1>4, <1>5, <1>6

-----------------------------------------------------------------------------
\* No value is promoted: the transient tier is empty.

DurableSteps == DurableMethods \cup {"idle", "invalidate", "delete_persistent", "match_persistent",
                                     "find_persistent"}

\* The call at f has found nothing of k in the transient tier.
FoundNone(f, k) ==
    /\ f.pc = "match_persistent" /\ f.key = k => ~f.hit
    /\ f.pc = "find_persistent" /\ k \in f.key => k \notin DOMAIN f.value

DurableInv ==
    /\ \A w \in Worker : frame[w].pc \in DurableSteps
    /\ \A k \in Key \ Registry :
         /\ k \notin DOMAIN transient
         /\ \A w \in Worker : FoundNone(frame[w], k)
         /\ \E h \in possible[k] : RowFit(h, k)

\* Claims and queries find the row, as there is nothing else.
LEMMA RowQuery ==
    ASSUME TypeOK, Follows, ~FaultyDisk, NEW w \in Worker, Step(w), NEW k \in Key,
           NEW h \in possible[k], RowFit(h, k), About(frame[w], k),
           k \notin DOMAIN transient, FoundNone(frame[w], k),
           frame[w].pc \in {"match_transient", "match_persistent", "remaining", "find_transient",
                            "find_persistent"}
    PROVE  /\ \E g \in possible[k] : RowStep(g, h, w, k)
           /\ FoundNone(frame'[w], k)
<1> DEFINE f == frame[w]
           p == pending[w]
           Goal == \E g \in possible[k] : RowStep(g, h, w, k)
<1>1. /\ f.pc \notin Scanning => f.key = k
      /\ f.pc \in Scanning => k \in f.key
      /\ SameCall(f, p) /\ w \in DOMAIN frame /\ w \in DOMAIN reply
      /\ RowIs(h.map, k) /\ h.answer[w] = DueRow(f, k)
  BY DEF About, Follows, TypeOK, RowFit
<1>2. h.answer[w] = Open /\ \E g \in possible[k] : Effect(h, g, p, w, k, h.map)
  BY TakeRow DEF OnKey, Scanning
<1>3. Look(h.map, k, None) = Get(persistent, k, None) /\ Left(h.map, k, now, None) = None
  BY <1>1 DEF RowIs, Look, Get, Left
<1>4. FoundNone(Idle, k)
  BY DEF FoundNone, Idle, Frame
<1> SUFFICES Goal /\ FoundNone(frame'[w], k)
  OBVIOUS
<1>5. CASE f.pc = "match_transient"
  <2>1. MatchTransient(w) /\ f.key = k /\ ~Holds(transient, k, f.value)
    BY <1>1, <1>5, StepAt DEF Scanning, Holds
  <2>2. persistent' = persistent
        /\ frame'[w] = Frame("match_persistent", k, f.value, f.ttl, Holds(transient, k, f.value))
    BY <1>1, <2>1 DEF MatchTransient, Transient, GotoWith
  <2>3. frame'[w].pc = "match_persistent" /\ frame'[w] # Idle /\ ~frame'[w].hit
    BY <2>1, <2>2 DEF Frame, Idle
  <2>4. DueRow(frame'[w], k) = Open /\ FoundNone(frame'[w], k)
    BY <2>3 DEF DueRow, FoundNone
  <2> QED
    BY <1>1, <1>2, <2>2, <2>3, <2>4 DEF RowStep, RowIs
<1>6. CASE f.pc = "match_persistent"
  <2>1. MatchPersistent(w) /\ f.key = k /\ p.pc = "match_transient" /\ p.value = f.value /\ ~f.hit
    BY <1>1, <1>6, StepAt DEF Scanning, SameCall, FoundNone
  <2>2. f.value # None
    BY <1>6, NoneAssumption DEF TypeOK, FrameOK, WithValue
  <2> DEFINE m == Get(persistent, k, None) = f.value
  <2>3. Holds(h.map, k, f.value) <=> m
    BY <1>1, <2>2 DEF Holds, RowIs, Get
  <2>4. PICK g \in possible[k] :
          /\ \A x \in Worker \ {w} : g.answer[x] = h.answer[x]
          /\ m => k \notin DOMAIN g.map /\ g.answer[w] = <<TRUE>>
          /\ ~m => Same(g.map, h.map, k) /\ g.answer[w] = <<FALSE>>
    BY <1>2, <2>1, <2>3 DEF Effect
  <2>5. /\ persistent' = IF m THEN Remove(persistent, k) ELSE persistent
        /\ frame'[w] = Idle /\ reply'[w] = (f.hit \/ m)
    BY <1>1, <2>1 DEF MatchPersistent, Selected, Persistent, Return
  <2>6. Answer(w, k) = (f.hit \/ m)
    BY <1>6, <2>5 DEF Answer
  <2>7. CASE m
    <3>1. k \notin DOMAIN persistent'
      BY <2>5, <2>7, CellRemove
    <3>2. Answer(w, k) = TRUE
      BY <2>6, <2>7
    <3> QED
      BY <1>4, <2>4, <2>5, <2>7, <3>1, <3>2 DEF RowStep, RowIs
  <2>8. CASE ~m
    <3>1. Answer(w, k) = FALSE
      BY <2>1, <2>6, <2>8
    <3>2. RowIs(g.map, k)'
      BY <1>1, <2>4, <2>5, <2>8, RowKept, SameTrans
    <3> QED
      BY <1>4, <2>4, <2>5, <2>8, <3>1, <3>2 DEF RowStep
  <2> QED
    BY <2>7, <2>8
<1>7. CASE f.pc = "remaining"
  <2>1. ReadTtlRemaining(w) /\ f.key = k /\ p.pc = "remaining"
    BY <1>1, <1>7, StepAt DEF Scanning, SameCall
  <2>2. PICK g \in possible[k] :
          /\ \A x \in Worker \ {w} : g.answer[x] = h.answer[x]
          /\ Same(g.map, h.map, k) /\ g.answer[w] = <<None>>
    BY <1>2, <1>3, <2>1 DEF Effect
  <2>3. persistent' = persistent /\ frame'[w] = Idle /\ reply'[w] = None
    BY <1>1, <2>1 DEF ReadTtlRemaining, OnlyReads, Return, Left
  <2>4. Answer(w, k) = None
    BY <1>7, <2>3 DEF Answer
  <2>5. RowIs(g.map, k)'
    BY <1>1, <2>2, <2>3, RowKept, SameTrans
  <2> QED
    BY <1>4, <2>2, <2>3, <2>4, <2>5 DEF RowStep
<1>8. CASE f.pc = "find_transient"
  <2>1. FindTransient(w)
    BY <1>8, StepAt
  <2>2. persistent' = persistent
        /\ frame'[w] = Frame("find_persistent", f.key, Values(transient, f.key), f.ttl, FALSE)
    BY <1>1, <2>1 DEF FindTransient, OnlyReads, GotoWith
  <2>3. frame'[w].pc = "find_persistent" /\ frame'[w] # Idle /\ k \notin DOMAIN frame'[w].value
    BY <2>2 DEF Frame, Idle, Values
  <2>4. DueRow(frame'[w], k) = Open /\ FoundNone(frame'[w], k)
    BY <2>3 DEF DueRow, FoundNone
  <2> QED
    BY <1>1, <1>2, <2>2, <2>3, <2>4 DEF RowStep, RowIs
<1>9. CASE f.pc = "find_persistent"
  <2>1. FindPersistent(w) /\ k \in f.key /\ p.pc = "find_transient" /\ k \notin DOMAIN f.value
    BY <1>1, <1>9, StepAt DEF Scanning, SameCall, FoundNone
  <2>2. PICK g \in possible[k] :
          /\ \A x \in Worker \ {w} : g.answer[x] = h.answer[x]
          /\ Same(g.map, h.map, k) /\ g.answer[w] = <<Get(persistent, k, None)>>
    BY <1>2, <1>3, <2>1 DEF Effect
  <2> DEFINE found == Keep(persistent, f.key)
  <2>3. /\ persistent' = persistent /\ frame'[w] = Idle
        /\ reply'[w] = [x \in DOMAIN found \cup DOMAIN f.value |-> Get(f.value, x, Get(found, x, None))]
    BY <1>1, <2>1 DEF FindPersistent, OnlyReads, Selected, Return
  <2>4. Get(found, k, None) = Get(persistent, k, None) /\ (k \in DOMAIN found <=> k \in DOMAIN persistent)
    BY <2>1 DEF Get, Keep
  <2> HIDE DEF found
  <2>5. Get(reply'[w], k, None) = Get(persistent, k, None)
    BY <2>1, <2>3, <2>4 DEF Get
  <2>6. Answer(w, k) = Get(persistent, k, None)
    BY <1>9, <2>5 DEF Answer
  <2>7. RowIs(g.map, k)'
    BY <1>1, <2>2, <2>3, RowKept, SameTrans
  <2> QED
    BY <1>4, <2>2, <2>3, <2>6, <2>7 DEF RowStep
<1> QED
  BY <1>5, <1>6, <1>7, <1>8, <1>9

\* A call owes its answer about the keys it is about.
LEMMA DueRowAbout ==
    ASSUME NEW f, NEW k
    PROVE  /\ ~About(f, k) => DueRow(f, k) = Open
           /\ f.pc # "invalidate" => DueRow(f, k) = Open
BY DEF DueRow, About, Scanning

\* After a step of a call there is a possibility that holds the row.
LEMMA RowCarried ==
    ASSUME TypeOK, Follows, ~FaultyDisk, workload.linear, NEW w \in Worker, Continue(w) \/ End(w),
           NEW k \in Key, NEW h \in possible[k], RowFit(h, k),
           About(frame[w], k) => \E g \in possible[k] : RowStep(g, h, w, k)
    PROVE  \E e \in possible'[k] : RowFit(e, k)'
<1> DEFINE f == frame[w]
<1>1. Step(w)
  BY DEF Continue, End
<1>2. /\ (\A x \in Worker \ {w} : frame'[x] = frame[x]) /\ Onward(f, frame'[w])
  BY <1>1, StepMoves
<1>3. f.pc \in OnKey \cup Scanning /\ (About(pending[w], k) <=> About(f, k))
  BY <1>1, StepAt, AboutSame DEF Follows
<1>4. \A x \in Worker : h.answer[x] = DueRow(frame[x], k)
  BY DEF RowFit
<1>5. PICK g \in possible[k] :
        /\ RowIs(g.map, k)'
        /\ \A x \in Worker \ {w} : g.answer[x] = h.answer[x]
        /\ About(f, k) /\ frame'[w] = Idle => \E a : g.answer[w] = <<a>> /\ (sure[w] => a = Answer(w, k))
        /\ ~(About(f, k) /\ frame'[w] = Idle) => g.answer[w] = DueRow(frame'[w], k)
  <2>1. CASE About(f, k)
    BY <2>1 DEF RowStep
  <2>2. CASE ~About(f, k)
    <3>1. Same(persistent', persistent, k)
      BY <1>1, <2>2, Elsewhere DEF Follows
    <3>2. RowIs(h.map, k)'
      BY <3>1, RowKept, SameTrans DEF RowFit
    <3>3. frame'[w] = Idle \/ ~About(frame'[w], k)
      BY <1>2, <2>2, AboutMoves
    <3>4. DueRow(frame'[w], k) = Open /\ DueRow(f, k) = Open
      BY <2>2, <3>3, IdleAbout, DueRowAbout
    <3> QED
      BY <1>4, <2>2, <3>2, <3>4
  <2> QED
    BY <2>1, <2>2
<1>6. (frame'[w] = Idle /\ About(pending[w], k)) =>
        g.answer[w] # Open /\ (sure[w] => g.answer[w] = <<Answer(w, k)>>)
  <2>1. \A a : <<a>> # Open
    BY DEF Open
  <2> QED
    BY <1>3, <1>5, <2>1
<1>7. PICK e \in possible'[k] :
        /\ e.map = g.map
        /\ \A x \in Worker \ {w} : e.answer[x] = g.answer[x]
        /\ e.answer[w] = IF frame'[w] = Idle /\ About(pending[w], k) THEN Open ELSE g.answer[w]
  BY <1>6, Carry
<1>8. DueRow(Idle, k) = Open
  BY IdleAbout, DueRowAbout
<1>9. e.answer[w] = DueRow(frame'[w], k)
  BY <1>3, <1>5, <1>7, <1>8
<1>10. \A x \in Worker : e.answer[x] = DueRow(frame'[x], k)
  BY <1>2, <1>4, <1>5, <1>7, <1>9
<1>11. RowIs(e.map, k)'
  BY <1>5, <1>7 DEF RowIs
<1> QED
  BY <1>10, <1>11 DEF RowFit

\* So there is after every other step.
LEMMA RowCarriedOver ==
    ASSUME TypeOK, Follows, workload.linear, NEW k \in Key, NEW h \in possible[k], RowFit(h, k)
    PROVE  /\ \A w \in Worker : Begin(w) => \E e \in possible'[k] : RowFit(e, k)'
           /\ Pass => \E e \in possible'[k] : RowFit(e, k)'
           /\ Restart => \E e \in possible'[k] : RowFit(e, k)'
           /\ UNCHANGED allVars => \E e \in possible'[k] : RowFit(e, k)'
<1>1. ASSUME NEW w \in Worker, Begin(w) PROVE \E e \in possible'[k] : RowFit(e, k)'
  <2>1. PICK f : /\ frame' = [frame EXCEPT ![w] = f]
                 /\ f.pc \in Opening
                 /\ frame[w].pc = "idle" /\ OnlyReads
    BY <1>1, BeginFrame
  <2>2. frame'[w] = f /\ \A x \in Worker \ {w} : frame'[x] = frame[x]
    BY <2>1 DEF TypeOK
  <2>3. DueRow(f, k) = Open /\ DueRow(frame[w], k) = Open
    BY <2>1, DueRowAbout DEF Opening
  <2>4. h \in possible'[k]
    BY <1>1, CarryOver
  <2>5. RowIs(h.map, k)'
    BY <2>1 DEF OnlyReads, RowFit, RowIs
  <2>6. \A x \in Worker : h.answer[x] = DueRow(frame'[x], k)
    BY <2>2, <2>3 DEF RowFit
  <2> QED
    BY <2>4, <2>5, <2>6 DEF RowFit
<1>2. ASSUME Pass PROVE \E e \in possible'[k] : RowFit(e, k)'
  <2>1. frame' = frame /\ persistent' = persistent
    BY <1>2 DEF Pass, Tick
  <2>2. PICK e \in possible'[k] : e.map = At(h.map, now') /\ e.answer = h.answer
    BY <1>2, CarryOver
  <2>3. Same(At(h.map, now'), h.map, k)
    BY CellAt DEF Same, RowFit, RowIs, Alive
  <2>4. Same(e.map, h.map, k)
    BY <2>2, <2>3
  <2>5. RowIs(e.map, k)'
    BY <2>1, <2>4, RowKept, SameTrans DEF RowFit
  <2> QED
    BY <2>1, <2>2, <2>5 DEF RowFit
<1>3. ASSUME Restart PROVE \E e \in possible'[k] : RowFit(e, k)'
  <2>1. persistent' = persistent /\ \A w \in Worker : frame'[w] = Idle
    BY <1>3 DEF Restart, Crash
  <2>2. PICK e \in possible'[k] : /\ e.map = Keep(h.map, {x \in DOMAIN h.map : h.map[x].deadline = Never})
                                  /\ \A w \in Worker : e.answer[w] = Open
    BY <1>3, CarryOver
  <2>3. Same(e.map, h.map, k)
    BY <2>2 DEF Same, RowFit, RowIs, Keep
  <2>4. RowIs(e.map, k)'
    BY <2>1, <2>3, RowKept, SameTrans DEF RowFit
  <2>5. DueRow(Idle, k) = Open
    BY IdleAbout, DueRowAbout
  <2> QED
    BY <2>1, <2>2, <2>4, <2>5 DEF RowFit
<1>4. ASSUME UNCHANGED allVars PROVE \E e \in possible'[k] : RowFit(e, k)'
  BY <1>4 DEF allVars, vars, historyVars, RowFit, RowIs
<1> QED
  BY <1>1, <1>2, <1>3, <1>4

\* No step of a durable workload stores anything in the transient tier.
LEMMA DurableStep ==
    ASSUME TypeOK, Follows, ~FaultyDisk, DurableInv, workload.linear, NEW w \in Worker,
           Continue(w) \/ End(w)
    PROVE  DurableInv'
<1> DEFINE f == frame[w]
<1>1. Step(w)
  BY DEF Continue, End
<1>2. /\ now' = now /\ (\A x \in Worker \ {w} : frame'[x] = frame[x]) /\ Onward(f, frame'[w])
  BY <1>1, StepMoves
<1>3. f.pc \in DurableSteps /\ f.pc \in OnKey \cup Scanning
  BY <1>1, StepAt DEF DurableInv
<1>4. \A x \in Worker : frame'[x].pc \in DurableSteps
  <2>1. frame'[w].pc \in DurableSteps
    BY <1>2, <1>3 DEF Onward, Idle, Frame, Moves, DurableSteps, DurableMethods
  <2> QED
    BY <1>2, <2>1 DEF DurableInv
<1>5. ASSUME NEW k \in Key \ Registry PROVE k \notin DOMAIN transient'
  <2>1. k \notin DOMAIN transient
    BY DEF DurableInv
  <2>2. \/ transient' = transient
        \/ \E x : transient' = At(Remove(transient, x), now) \/ transient' = At(transient, now)
    <3>1. CASE f.pc \in {"write_persistent", "delete_persistent", "match_persistent"}
      BY <1>1, <3>1, StepAt DEF WritePersistent, DeletePersistent, MatchPersistent, Persistent
    <3>2. CASE f.pc \in {"remaining", "find_transient", "find_persistent"}
      BY <1>1, <3>2, StepAt DEF ReadTtlRemaining, FindTransient, FindPersistent, OnlyReads
    <3>3. CASE f.pc \in {"invalidate", "delete_transient", "match_transient"}
      BY <1>1, <3>3, StepAt DEF Invalidate, DeleteTransient, MatchTransient, Transient
    <3> QED
      BY <1>3, <3>1, <3>2, <3>3 DEF DurableSteps, DurableMethods, OnKey, Scanning
  <2>3. \A x : k \notin DOMAIN Remove(transient, x)
    BY <2>1 DEF Remove, RemoveAll
  <2> QED
    BY <2>1, <2>2, <2>3, CellAt
<1>6. ASSUME NEW k \in Key \ Registry
      PROVE  /\ \A x \in Worker : FoundNone(frame'[x], k)
             /\ \E e \in possible'[k] : RowFit(e, k)'
  <2>1. PICK h \in possible[k] : RowFit(h, k)
    BY DEF DurableInv
  <2>2. k \notin DOMAIN transient /\ (\A x \in Worker : FoundNone(frame[x], k)) /\ k \in Key
    BY DEF DurableInv
  <2>3. /\ About(f, k) => \E g \in possible[k] : RowStep(g, h, w, k)
        /\ FoundNone(frame'[w], k)
    <3>1. CASE ~About(f, k)
      <4>1. frame'[w] = Idle \/ ~About(frame'[w], k)
        BY <1>2, <3>1, AboutMoves
      <4>2. ~About(frame'[w], k)
        BY <2>2, <4>1, IdleAbout
      <4> QED
        BY <3>1, <4>2 DEF FoundNone, About, Scanning
    <3>2. CASE About(f, k) /\ f.pc \in {"write_persistent", "invalidate", "delete_transient",
                                        "delete_persistent"}
      <4>1. frame'[w].pc \in {"idle", "invalidate", "delete_persistent"}
        BY <1>2, <3>2 DEF Onward, Idle, Frame, Moves
      <4>2. FoundNone(frame'[w], k)
        BY <4>1 DEF FoundNone
      <4> QED
        BY <1>1, <2>1, <2>2, <3>2, <4>2, RowUpdate
    <3>3. CASE About(f, k) /\ f.pc \in {"match_transient", "match_persistent", "remaining",
                                        "find_transient", "find_persistent"}
      BY <1>1, <2>1, <2>2, <3>3, RowQuery
    <3> QED
      BY <1>3, <3>1, <3>2, <3>3 DEF DurableSteps, DurableMethods, OnKey, Scanning
  <2>4. \E e \in possible'[k] : RowFit(e, k)'
    BY <2>1, <2>2, <2>3, RowCarried
  <2> QED
    BY <1>2, <2>2, <2>3, <2>4
<1> QED
  BY <1>4, <1>5, <1>6 DEF DurableInv

\* The rows are one of the possible maps after every step...
LEMMA DurableNext ==
    ASSUME TypeOK, Follows, ~FaultyDisk, DurableInv, workload.linear, Only(workload, DurableMethods),
           [HistoryNext]_allVars
    PROVE  DurableInv'
<1>0. ASSUME NEW k \in Key \ Registry, (\E w \in Worker : Begin(w)) \/ Pass \/ Restart \/ UNCHANGED allVars
      PROVE  \E e \in possible'[k] : RowFit(e, k)'
  <2>1. PICK h \in possible[k] : RowFit(h, k)
    BY DEF DurableInv
  <2> QED
    BY <1>0, <2>1, RowCarriedOver
<1>i. Idle.pc \in DurableSteps /\ \A k : FoundNone(Idle, k)
  BY DEF Idle, Frame, DurableSteps, FoundNone
<1>1. ASSUME NEW w \in Worker, Begin(w) PROVE DurableInv'
  <2>1. PICK f : /\ frame' = [frame EXCEPT ![w] = f]
                 /\ f.pc \in Opening \cap workload.methods[w]
                 /\ OnlyReads
    BY <1>1, BeginFrame
  <2>2. frame'[w] = f /\ \A x \in Worker \ {w} : frame'[x] = frame[x]
    BY <2>1 DEF TypeOK
  <2>3. f.pc \in DurableSteps
    BY <2>1 DEF Only, DurableSteps
  <2>4. \A k : FoundNone(f, k)
    BY <2>1 DEF FoundNone, Opening
  <2> QED
    BY <1>0, <1>1, <2>1, <2>2, <2>3, <2>4 DEF DurableInv, OnlyReads
<1>2. CASE Pass
  <2>1. transient' = At(transient, now') /\ frame' = frame
    BY <1>2 DEF Pass, Tick
  <2> QED
    BY <1>0, <1>2, <2>1, CellAt DEF DurableInv
<1>3. CASE Restart
  <2>1. transient' = RegistryEntries /\ \A w \in Worker : frame'[w] = Idle
    BY <1>3 DEF Restart, Crash
  <2>2. DOMAIN transient' = Registry
    BY <2>1 DEF RegistryEntries
  <2> QED
    BY <1>0, <1>3, <1>i, <2>1, <2>2 DEF DurableInv
<1>4. CASE UNCHANGED allVars
  BY <1>0, <1>4 DEF allVars, vars, historyVars, DurableInv
<1> QED
  BY <1>1, <1>2, <1>3, <1>4, DurableStep DEF HistoryNext

\* At first there is nothing.
LEMMA RowInit ==
    ASSUME HistoryInit
    PROVE  /\ \A w \in Worker : frame[w] = Idle
           /\ DOMAIN transient = Registry
           /\ \A k \in Key : \E h \in possible[k] : RowFit(h, k)
<1>1. /\ \A w \in Worker : frame[w] = Idle
      /\ transient = RegistryEntries /\ persistent = EmptyMap
      /\ \A k \in Key : possible[k] = {[map |-> EmptyMap, answer |-> [w \in Worker |-> Open]]}
  BY DEF HistoryInit, Init
<1>2. DOMAIN transient = Registry /\ DOMAIN persistent = {}
  BY <1>1 DEF RegistryEntries, EmptyMap
<1>3. ASSUME NEW k \in Key PROVE \E h \in possible[k] : RowFit(h, k)
  <2> DEFINE h == [map |-> EmptyMap, answer |-> [w \in Worker |-> Open]]
  <2>1. h \in possible[k] /\ h.map = EmptyMap /\ \A w \in Worker : h.answer[w] = Open
    BY <1>1
  <2>2. DueRow(Idle, k) = Open
    BY IdleAbout, DueRowAbout
  <2>3. RowIs(EmptyMap, k)
    BY <1>2 DEF RowIs, EmptyMap
  <2> HIDE DEF h
  <2> QED
    BY <1>1, <2>1, <2>2, <2>3 DEF RowFit
<1> QED
  BY <1>1, <1>2, <1>3

\* ... and at first.
LEMMA DurableInit ==
    ASSUME HistoryInit
    PROVE  DurableInv
<1>1. Idle.pc \in DurableSteps /\ \A k : FoundNone(Idle, k)
  BY DEF Idle, Frame, DurableSteps, FoundNone
<1> QED
  BY <1>1, RowInit DEF DurableInv

\* The rows are one of the possible maps.
LEMMA DurableHolds ==
    ASSUME DurableInv
    PROVE  Linearizable /\ Coherent
<1> SUFFICES ASSUME NEW k \in Key \ Registry
             PROVE  \E h \in possible[k] : Hold(h.map, k)
  BY DEF Linearizable, Coherent
<1>1. PICK h \in possible[k] : RowFit(h, k)
  BY DEF DurableInv
<1>2. k \notin DOMAIN transient /\ RowIs(h.map, k)
  BY <1>1 DEF DurableInv, RowFit
<1>3. Hold(h.map, k)
  BY <1>2 DEF Hold, Visible, Look, Get, RowIs
<1> QED
  BY <1>3

-----------------------------------------------------------------------------
\* Reads promote: the row is the map, and the copy is what the map was before the writes in
\* progress, or known to be doubtful.

UpdateSteps == {"write_persistent", "invalidate", "delete_transient", "delete_persistent"}
ReadSteps == {"read_transient", "read_persistent", "promote", "stamp"}
CachedSteps == UpdateSteps \cup ReadSteps \cup {"idle"}

\* The write at f has stored the row of k and not yet removed the copy.
WroteRow(f, k) == f.pc = "invalidate" /\ f.key = k /\ k \in DOMAIN persistent /\ f.value = persistent[k]

\* The copy of k is what a map held in which no update in progress has taken effect; the row
\* is the same, or a write in progress has made it what it is.
HoldsCopy(h, k) ==
    /\ k \in DOMAIN h.map /\ h.map[k] = [value |-> transient[k].value, deadline |-> Never]
    /\ \A w \in Worker : h.answer[w] = Open

GoodCopy(k) ==
    /\ \E h \in possible[k] : HoldsCopy(h, k)
    /\ \A w \in Worker : ~(frame[w].pc = "delete_persistent" /\ frame[w].key = k)
    /\ k \in DOMAIN persistent
    /\ persistent[k] = transient[k].value \/ \E w \in Worker : WroteRow(frame[w], k)

\* A copy that is not good is known to be doubtful as long as it lives.
CopyOK(k) ==
    k \in DOMAIN transient =>
        \/ GoodCopy(k)
        \/ \E w \in Worker : StoredUnclean(w, k)
        \/ suspect[k] > now /\ transient[k].deadline # Never /\ transient[k].deadline <= suspect[k]

\* No update is under way beside a clean read of k, which stores the row.
ReaderOK(w, k) ==
    clean[w] /\ frame[w].pc \in ReadSteps /\ frame[w].key = k =>
        /\ \A x \in Worker \ {w} : ~(frame[x].pc \in UpdateSteps /\ frame[x].key = k)
        /\ frame[w].pc \in {"promote", "stamp"} =>
             k \in DOMAIN persistent /\ persistent[k] = frame[w].value

\* A call on a key with a doubtful copy is not sure of its answer.
SureOK(w, k) == frame[w].key = k /\ Doubtful(k) => ~sure[w]

CachedInv ==
    /\ \A w \in Worker : frame[w].pc \in CachedSteps
    /\ suspect \in [Key -> Nat] /\ DOMAIN clean = Worker
    /\ \A k \in Key \ Registry :
         /\ \A w \in Worker : ReaderOK(w, k) /\ SureOK(w, k)
         /\ \E h \in possible[k] : RowFit(h, k)
         /\ CopyOK(k)

\* A call and its beginning.
LEMMA CachedCall ==
    ASSUME NEW f, NEW p, SameCall(f, p), f.pc \in CachedSteps, NEW k \in Key
    PROVE  /\ About(f, k) <=> f.key = k
           /\ About(p, k) <=> f.key = k
           /\ Updating(p, k) <=> f.pc \in UpdateSteps /\ f.key = k
<1>1. f.key = p.key
  BY DEF SameCall
<1>2. CASE f.pc = "idle"
  <2>1. p = Idle /\ p.pc = "idle" /\ p.key = None /\ None # k
    BY <1>2, NoneAssumption DEF SameCall, Idle, Frame
  <2> QED
    BY <1>1, <1>2, <2>1 DEF About, Updating, Reads, Scanning, UpdateSteps
<1>3. CASE f.pc \in ReadSteps
  <2>1. p.pc = "read_transient"
    BY <1>3 DEF SameCall, ReadSteps
  <2> QED
    BY <1>1, <1>3, <2>1 DEF About, Updating, Reads, Scanning, UpdateSteps, ReadSteps
<1>4. CASE f.pc \in UpdateSteps
  <2>1. p.pc \in {"write_persistent", "delete_transient"}
    BY <1>4 DEF SameCall, UpdateSteps
  <2> QED
    BY <1>1, <1>4, <2>1 DEF About, Updating, Reads, Scanning, UpdateSteps
<1> QED
  BY <1>2, <1>3, <1>4 DEF CachedSteps

\* In g the write of w has taken effect on h.
TookWrite(g, h, w, k) ==
    /\ k \in DOMAIN g.map /\ g.map[k] = [value |-> frame[w].value, deadline |-> Never]
    /\ g.answer[w] = <<None>>
    /\ \A x \in Worker \ {w} : g.answer[x] = h.answer[x]

\* A write that has stored its row may take effect...
LEMMA TakeWrite ==
    ASSUME Follows, NEW k \in Key, NEW h \in possible[k], NEW w \in Worker,
           frame[w].pc = "invalidate", About(frame[w], k), h.answer[w] = Open
    PROVE  \E g \in possible[k] : TookWrite(g, h, w, k)
<1> DEFINE p == pending[w]
<1>1. p.pc = "write_persistent" /\ p.value = frame[w].value
  BY DEF Follows, SameCall
<1>2. PICK g \in possible[k] :
             /\ g.map = Meaning(p, h.map, k, now).map
             /\ g.answer[w] = <<Meaning(p, h.map, k, now).answer>>
             /\ \A x \in Worker \ {w} : g.answer[x] = h.answer[x]
  <2>1. frame[w].pc \in OnKey \cup Scanning
    BY DEF OnKey
  <2> QED
    BY <2>1, TakeIt
<1> HIDE DEF p
<1>3. Meaning(p, h.map, k, now).map = At(Put(h.map, k, p.value), now)
      /\ Meaning(p, h.map, k, now).answer = None
  <2>1. p.pc = "write_persistent" =>
          /\ Meaning(p, h.map, k, now).map = At(Put(h.map, k, p.value), now)
          /\ Meaning(p, h.map, k, now).answer = None
    BY DEF Meaning
  <2> QED
    BY <1>1, <2>1
<1>4. k \in DOMAIN Put(h.map, k, p.value) /\ Put(h.map, k, p.value)[k] = [value |-> p.value, deadline |-> Never]
  BY CellPut
<1>5. Alive([value |-> p.value, deadline |-> Never], now)
  BY DEF Alive
<1>6. k \in DOMAIN At(Put(h.map, k, p.value), now)
      /\ At(Put(h.map, k, p.value), now)[k] = [value |-> p.value, deadline |-> Never]
  BY <1>4, <1>5, CellAt
<1> QED
  BY <1>1, <1>2, <1>3, <1>6 DEF TookWrite

\* ... and so may all of a set of them.
LEMMA TakeWrites ==
    ASSUME Follows, NEW k \in Key, NEW h \in possible[k], NEW S \in SUBSET Worker,
           \A w \in S : frame[w].pc = "invalidate" /\ frame[w].key = k /\ h.answer[w] = Open
    PROVE  \E g \in possible[k] :
             /\ \A w \in S : g.answer[w] = <<None>>
             /\ \A w \in Worker \ S : g.answer[w] = h.answer[w]
<1> DEFINE N == Cardinality(S)
           Took(g, T) == /\ \A w \in T : g.answer[w] = <<None>>
                         /\ \A w \in Worker \ T : g.answer[w] = h.answer[w]
           R == {n \in 0..N : \E T \in SUBSET S : Cardinality(T) = n /\ \E g \in possible[k] : Took(g, T)}
<1>t. ASSUME NEW g \in possible[k], NEW w \in S, g.answer[w] = Open
      PROVE  \E e \in possible[k] : e.answer[w] = <<None>> /\ \A x \in Worker \ {w} : e.answer[x] = g.answer[x]
  <2>1. w \in Worker /\ frame[w].pc = "invalidate" /\ About(frame[w], k)
    BY DEF About, Scanning
  <2>2. \E e \in possible[k] : TookWrite(e, g, w, k)
    BY <1>t, <2>1, TakeWrite
  <2> QED
    BY <2>2 DEF TookWrite
<1>1. IsFiniteSet(S) /\ N \in Nat
  BY WorkerAssumption, FS_Subset, FS_CardinalityType
<1>2. \A T \in SUBSET S : /\ IsFiniteSet(T) /\ Cardinality(T) \in Nat
                          /\ (N = Cardinality(T) => S = T)
  BY <1>1, FS_Subset, FS_CardinalityType
<1> HIDE DEF N
<1>3. 0 \in R
  <2>1. Cardinality({}) = 0 /\ {} \in SUBSET S /\ Took(h, {})
    BY FS_EmptySet
  <2>2. 0 \in 0..N
    BY <1>1
  <2> HIDE DEF Took
  <2> QED
    BY <2>1, <2>2
<1>4. ASSUME NEW n \in 0..N, n < N, n \in R
      PROVE  n + 1 \in R
  <2>1. PICK T \in SUBSET S : Cardinality(T) = n /\ \E g \in possible[k] : Took(g, T)
    BY <1>4
  <2>2. PICK g \in possible[k] : Took(g, T)
    BY <2>1
  <2>3. T # S
    BY <1>1, <1>4, <2>1 DEF N
  <2>4. PICK w \in S : w \notin T
    BY <2>3
  <2>5. g.answer[w] = Open /\ frame[w].pc = "invalidate" /\ frame[w].key = k /\ w \in Worker
    BY <2>2, <2>4
  <2>6. PICK e \in possible[k] : /\ e.answer[w] = <<None>>
                                 /\ \A x \in Worker \ {w} : e.answer[x] = g.answer[x]
    BY <1>t, <2>5
  <2>7. Took(e, T \cup {w})
    BY <2>2, <2>4, <2>6
  <2>8. T \cup {w} \in SUBSET S /\ Cardinality(T \cup {w}) = n + 1
    <3>1. IsFiniteSet(T)
      BY <1>2
    <3>2. Cardinality(T \cup {w}) = Cardinality(T) + 1
      BY <2>4, <3>1, FS_AddElement
    <3> QED
      BY <2>1, <2>4, <3>2
  <2>9. n + 1 \in 0..N
    BY <1>1, <1>4
  <2> HIDE DEF Took
  <2> QED
    BY <2>7, <2>8, <2>9
<1> HIDE DEF R
<1>5. N \in R
  BY <1>1, <1>3, <1>4, UpTo
<1>6. PICK T \in SUBSET S : Cardinality(T) = N /\ \E g \in possible[k] : Took(g, T)
  BY <1>5 DEF R
<1>7. T = S
  BY <1>2, <1>6
<1> QED
  BY <1>6, <1>7

\* A read that is sure meets no doubtful copy; then its copy is good, and if it is stamping one,
\* it is clean.
LEMMA SureReads ==
    ASSUME CachedInv, NEW w \in Worker, sure[w], NEW k \in Key \ Registry, frame[w].key = k
    PROVE  /\ ~Doubtful(k)
           /\ k \in DOMAIN transient => GoodCopy(k)
           /\ frame[w].pc = "stamp" => clean[w]
<1>1. ~Doubtful(k)
  BY DEF CachedInv, SureOK
<1>2. k \in DOMAIN transient => GoodCopy(k)
  BY <1>1 DEF CachedInv, CopyOK, Doubtful
<1>3. frame[w].pc = "stamp" => clean[w]
  BY <1>1 DEF Doubtful, StoredUnclean
<1> QED
  BY <1>1, <1>2, <1>3

\* In g, which holds the row, the call of w has read the copy.
ReadOld(g, h, w, k) ==
    /\ RowIs(g.map, k)
    /\ \A x \in Worker \ {w} : g.answer[x] = h.answer[x]
    /\ g.answer[w] = <<transient[k].value>>

\* A sure read that finds a copy older than the row took effect before the writes in progress,
\* the one that made the row being the last.
LEMMA OldCopy ==
    ASSUME TypeOK, Follows, NEW k \in Key, NEW h \in possible[k], RowFit(h, k), GoodCopy(k),
           NEW w \in Worker, frame[w].pc = "read_transient", About(frame[w], k),
           persistent[k] # transient[k].value
    PROVE  \E g \in possible[k] : ReadOld(g, h, w, k)
<1>1. PICK o \in possible[k] :
         /\ k \in DOMAIN o.map /\ o.map[k] = [value |-> transient[k].value, deadline |-> Never]
         /\ \A x \in Worker : o.answer[x] = Open
  BY DEF GoodCopy, HoldsCopy
<1>2. PICK u \in Worker : WroteRow(frame[u], k)
  BY DEF GoodCopy
<1>3. PICK r \in possible[k] : /\ \A x \in Worker \ {w} : r.answer[x] = o.answer[x]
                               /\ r.answer[w] = <<transient[k].value>>
  <2>1. Same(o.map, o.map, k) /\ (k \in DOMAIN o.map => Alive(o.map[k], now))
    BY <1>1, SameTrans DEF Alive
  <2>2. frame[w].pc \in OnKey \cup Scanning /\ o.answer[w] = Open
    BY <1>1 DEF OnKey
  <2>3. PICK r \in possible[k] : Effect(o, r, pending[w], w, k, o.map)
    BY <2>1, <2>2, TakeAs
  <2>4. pending[w].pc = "read_transient"
    BY DEF Follows, SameCall
  <2>5. Look(o.map, k, None) = transient[k].value
    BY <1>1 DEF Look
  <2> QED
    BY <2>3, <2>4, <2>5 DEF Effect
<1> DEFINE I == {x \in Worker : frame[x].pc = "invalidate" /\ frame[x].key = k}
           S == I \ {u}
<1>4. w \notin I /\ u \in I /\ u # w
  BY <1>2 DEF WroteRow
<1>5. PICK g \in possible[k] : /\ \A x \in S : g.answer[x] = <<None>>
                               /\ \A x \in Worker \ S : g.answer[x] = r.answer[x]
  <2>1. S \in SUBSET Worker
        /\ \A x \in S : frame[x].pc = "invalidate" /\ frame[x].key = k /\ r.answer[x] = Open
    BY <1>1, <1>3, <1>4
  <2> HIDE DEF S
  <2>2. k \in Key /\ r \in possible[k] /\ Follows
    OBVIOUS
  <2> QED
    BY <2>1, <2>2, TakeWrites
<1>6. PICK e \in possible[k] : TookWrite(e, g, u, k)
  <2>1. frame[u].pc = "invalidate" /\ About(frame[u], k) /\ g.answer[u] = Open
    BY <1>1, <1>2, <1>3, <1>4, <1>5 DEF WroteRow, About, Scanning
  <2> QED
    BY <2>1, TakeWrite
<1>7. RowIs(e.map, k)
  BY <1>2, <1>6 DEF RowIs, WroteRow, TookWrite
<1>8. e.answer[w] = <<transient[k].value>>
  BY <1>3, <1>4, <1>5, <1>6 DEF TookWrite
<1>9. ASSUME NEW x \in Worker \ {w} PROVE e.answer[x] = h.answer[x]
  <2>1. h.answer[x] = IF x \in I THEN <<None>> ELSE Open
    BY DEF RowFit, DueRow
  <2>2. CASE x = u
    BY <1>4, <1>6, <2>1, <2>2 DEF TookWrite
  <2>3. CASE x \in S
    BY <1>5, <1>6, <2>1, <2>3 DEF TookWrite
  <2>4. CASE x \notin I
    BY <1>1, <1>3, <1>4, <1>5, <1>6, <2>1, <2>4 DEF TookWrite
  <2> QED
    BY <2>2, <2>3, <2>4
<1> QED
  BY <1>7, <1>8, <1>9 DEF ReadOld

\* Every step of a read leaves the row as it is, and what it answers, if it is sure, is the row.
LEMMA RowRead ==
    ASSUME TypeOK, Follows, ~FaultyDisk, CachedInv, NEW w \in Worker, Step(w),
           NEW k \in Key \ Registry, NEW h \in possible[k], RowFit(h, k), About(frame[w], k),
           frame[w].pc \in ReadSteps
    PROVE  \E g \in possible[k] : RowStep(g, h, w, k)
<1> DEFINE f == frame[w]
           Goal == \E g \in possible[k] : RowStep(g, h, w, k)
<1>1. /\ f.key = k /\ SameCall(f, pending[w]) /\ w \in DOMAIN frame /\ w \in DOMAIN reply
      /\ RowIs(h.map, k) /\ k \in Key
  BY DEF About, Scanning, ReadSteps, Follows, TypeOK, RowFit
<1>2. h.answer[w] = Open /\ \E g \in possible[k] : Effect(h, g, pending[w], w, k, h.map)
  BY <1>1, TakeRow DEF OnKey, ReadSteps
<1>3. Look(h.map, k, None) = Get(persistent, k, None)
  BY <1>1 DEF RowIs, Look, Get
<1>4. pending[w].pc = "read_transient"
  BY <1>1 DEF SameCall, ReadSteps
<1>5. PICK g \in possible[k] :
        /\ \A x \in Worker \ {w} : g.answer[x] = h.answer[x]
        /\ Same(g.map, h.map, k) /\ g.answer[w] = <<Get(persistent, k, None)>>
  BY <1>2, <1>3, <1>4 DEF Effect
<1>6. RowIs(g.map, k)
  BY <1>1, <1>5 DEF RowIs, Same
<1>7. persistent' = persistent
  BY StepAt DEF ReadSteps, ReadTransient, ReadPersistent, Promote, Stamp, OnlyReads, Transient
<1>8. ASSUME NEW pc, NEW v, NEW hit, GotoWith(w, pc, v, hit), pc \in ReadSteps PROVE Goal
  <2>1. frame'[w].pc = pc /\ frame'[w] # Idle
    BY <1>1, <1>8 DEF GotoWith, Frame, Idle, ReadSteps
  <2>2. DueRow(frame'[w], k) = Open
    BY <1>8, <2>1 DEF DueRow, ReadSteps
  <2> QED
    BY <1>1, <1>2, <1>7, <2>1, <2>2 DEF RowStep, RowIs
<1>9. ASSUME NEW a, Return(w, a), sure[w] => a = Get(persistent, k, None) PROVE Goal
  <2>1. frame'[w] = Idle /\ reply'[w] = a
    BY <1>1, <1>9 DEF Return
  <2>2. Answer(w, k) = a
    BY <2>1 DEF Answer, ReadSteps
  <2> QED
    BY <1>5, <1>6, <1>7, <1>9, <2>1, <2>2 DEF RowStep, RowIs
<1> SUFFICES Goal
  OBVIOUS
<1>10. CASE f.pc = "read_transient"
  <2>1. ReadTransient(w)
    BY <1>10, StepAt
  <2>2. CASE Look(transient, k, None) = None
    <3>1. Goto(w, "read_persistent")
      BY <1>1, <2>1, <2>2 DEF ReadTransient
    <3> QED
      BY <1>8, <3>1 DEF Goto, ReadSteps
  <2>3. CASE Look(transient, k, None) # None
    <3>1. k \in DOMAIN transient /\ Return(w, transient[k].value)
      BY <1>1, <2>1, <2>3 DEF ReadTransient, Look
    <3>2. CASE sure[w] /\ persistent[k] # transient[k].value
      <4>1. GoodCopy(k)
        BY <1>1, <3>1, <3>2, SureReads
      <4>2. PICK e \in possible[k] : ReadOld(e, h, w, k)
        BY <1>1, <1>10, <3>2, <4>1, OldCopy
      <4>3. frame'[w] = Idle /\ reply'[w] = transient[k].value
        BY <1>1, <3>1 DEF Return
      <4>4. Answer(w, k) = transient[k].value
        BY <1>10, <4>3 DEF Answer
      <4> QED
        BY <1>7, <4>2, <4>3, <4>4 DEF RowStep, RowIs, ReadOld
    <3>3. CASE sure[w] /\ persistent[k] = transient[k].value
      <4>1. GoodCopy(k)
        BY <1>1, <3>1, <3>3, SureReads
      <4>2. transient[k].value = Get(persistent, k, None)
        BY <3>3, <4>1 DEF GoodCopy, Get
      <4> QED
        BY <1>9, <3>1, <4>2
    <3>4. CASE ~sure[w]
      BY <1>9, <3>1, <3>4
    <3> QED
      BY <3>2, <3>3, <3>4
  <2> QED
    BY <2>2, <2>3
<1>11. CASE f.pc = "read_persistent"
  <2>1. ReadPersistent(w)
    BY <1>11, StepAt
  <2>2. \/ Return(w, None) /\ Get(persistent, k, None) = None
        \/ GotoWith(w, "promote", Get(persistent, k, None), FALSE)
    BY <1>1, <2>1 DEF ReadPersistent, Selected
  <2> QED
    BY <1>8, <1>9, <2>2 DEF ReadSteps
<1>12. CASE f.pc = "promote"
  <2>1. Goto(w, "stamp")
    BY <1>12, StepAt DEF Promote
  <2> QED
    BY <1>8, <2>1 DEF Goto, ReadSteps
<1>13. CASE f.pc = "stamp"
  <2>1. Return(w, f.value)
    BY <1>13, StepAt DEF Stamp
  <2>2. sure[w] => f.value = Get(persistent, k, None)
    <3>1. sure[w] => clean[w]
      BY <1>1, <1>13, SureReads
    <3>2. clean[w] => k \in DOMAIN persistent /\ persistent[k] = f.value
      BY <1>1, <1>13 DEF CachedInv, ReaderOK
    <3> QED
      BY <3>1, <3>2 DEF Get
  <2> QED
    BY <1>9, <2>1, <2>2
<1> QED
  BY <1>10, <1>11, <1>12, <1>13 DEF ReadSteps

\* A step of a call changes the row of k only as an update of k.
LEMMA CachedRows ==
    ASSUME TypeOK, Follows, ~FaultyDisk, NEW w \in Worker, Step(w), frame[w].pc \in CachedSteps,
           NEW k \in Key, ~(frame[w].pc \in UpdateSteps /\ frame[w].key = k)
    PROVE  Same(persistent', persistent, k)
<1>1. CASE About(frame[w], k)
  <2>1. frame[w].pc \in ReadSteps \cup {"idle"}
    BY <1>1 DEF About, Scanning, CachedSteps, UpdateSteps
  <2>2. persistent' = persistent
    BY <2>1, StepAt DEF ReadSteps, OnKey, Scanning, ReadTransient, ReadPersistent, Promote, Stamp,
                        OnlyReads, Transient
  <2> QED
    BY <2>2, SameTrans
<1>2. CASE ~About(frame[w], k)
  BY <1>2, Elsewhere DEF Follows
<1> QED
  BY <1>1, <1>2

\* A read comes only from a read, an update only from an update, of the same key.
LEMMA CachedMoves ==
    ASSUME NEW f, NEW g, Onward(f, g), f.pc \in CachedSteps
    PROVE  /\ g.pc \in CachedSteps
           /\ g.pc \in ReadSteps => f.pc \in ReadSteps /\ g.key = f.key
           /\ g.pc \in UpdateSteps => f.pc \in UpdateSteps /\ g.key = f.key
           /\ g.pc = "delete_persistent" => f.pc = "delete_transient"
           /\ g.pc = "invalidate" => f.pc = "write_persistent"
           /\ g.pc = "stamp" => f.pc = "promote" /\ g.value = f.value
           /\ g.pc = "promote" => f.pc = "read_persistent"
<1>1. CASE g = Idle
  BY <1>1 DEF Idle, Frame, CachedSteps, ReadSteps, UpdateSteps
<1>2. CASE g # Idle
  <2>1. <<f.pc, g.pc>> \in Moves /\ g.key = f.key /\ (g.pc \notin Learning => g.value = f.value)
    BY <1>2 DEF Onward
  <2>2. <<f.pc, g.pc>> \in {<<"read_transient", "read_persistent">>, <<"read_persistent", "promote">>,
           <<"promote", "stamp">>, <<"write_persistent", "invalidate">>,
           <<"delete_transient", "delete_persistent">>}
    BY <2>1 DEF Moves, CachedSteps, ReadSteps, UpdateSteps
  <2> QED
    BY <2>1, <2>2 DEF CachedSteps, ReadSteps, UpdateSteps, Learning
<1> QED
  BY <1>1, <1>2

\* A read that goes on knows an older row or the present one.
LEMMA ReaderStep ==
    ASSUME TypeOK, Follows, ~FaultyDisk, CachedInv, workload.linear, NEW v \in Worker,
           Continue(v) \/ End(v), NEW k \in Key \ Registry, NEW w \in Worker
    PROVE  ReaderOK(w, k)'
<1>1. Step(v)
  BY DEF Continue, End
<1>2. /\ (\A x \in Worker \ {v} : frame'[x] = frame[x]) /\ Onward(frame[v], frame'[v])
  BY <1>1, StepMoves
<1>3. \A x \in Worker : frame[x].pc \in CachedSteps
  BY DEF CachedInv
<1> SUFFICES ASSUME clean'[w], frame'[w].pc \in ReadSteps, frame'[w].key = k
             PROVE  /\ \A x \in Worker \ {w} : ~(frame'[x].pc \in UpdateSteps /\ frame'[x].key = k)
                    /\ frame'[w].pc \in {"promote", "stamp"} =>
                         k \in DOMAIN persistent' /\ persistent'[k] = frame'[w].value
  BY DEF ReaderOK
<1>4. frame'[v] = Idle => w # v
  BY DEF Idle, Frame, ReadSteps
<1>5. clean[w]
  BY <1>4 DEF Continue, End, CachedInv
<1>6. frame[w].pc \in ReadSteps /\ frame[w].key = k
  <2>1. CASE w = v
    BY <1>2, <1>3, <2>1, CachedMoves
  <2>2. CASE w # v
    BY <1>2, <2>2
  <2> QED
    BY <2>1, <2>2
<1>7. /\ \A x \in Worker \ {w} : ~(frame[x].pc \in UpdateSteps /\ frame[x].key = k)
      /\ frame[w].pc \in {"promote", "stamp"} => k \in DOMAIN persistent /\ persistent[k] = frame[w].value
  BY <1>5, <1>6 DEF CachedInv, ReaderOK
<1>8. ASSUME NEW x \in Worker \ {w}, frame'[x].pc \in UpdateSteps, frame'[x].key = k
      PROVE  FALSE
  <2>1. CASE x = v
    BY <1>2, <1>3, <1>7, <1>8, <2>1, CachedMoves
  <2>2. CASE x # v
    BY <1>2, <1>7, <1>8, <2>2
  <2> QED
    BY <2>1, <2>2
<1>9. ASSUME frame'[w].pc \in {"promote", "stamp"}
      PROVE  k \in DOMAIN persistent' /\ persistent'[k] = frame'[w].value
  <2>1. ~(frame[v].pc \in UpdateSteps /\ frame[v].key = k)
    BY <1>6, <1>7 DEF ReadSteps, UpdateSteps
  <2>2. Same(persistent', persistent, k)
    BY <1>1, <1>3, <2>1, CachedRows
  <2>3. k \in DOMAIN persistent /\ persistent[k] = frame'[w].value
    <3>1. CASE w # v
      BY <1>2, <1>7, <1>9, <3>1
    <3>2. CASE w = v /\ frame'[w].pc = "stamp"
      BY <1>2, <1>3, <1>7, <3>2, CachedMoves
    <3>3. CASE w = v /\ frame'[w].pc = "promote"
      <4>1. frame[w].pc = "read_persistent"
        BY <1>2, <1>3, <3>3, CachedMoves
      <4>2. ReadPersistent(w) /\ w \in DOMAIN frame
        BY <1>1, <3>3, <4>1, StepAt DEF TypeOK
      <4>3. Get(persistent, k, None) # None
            /\ frame'[w] = Frame("promote", k, Get(persistent, k, None), frame[w].ttl, FALSE)
        <5>1. IF Get(persistent, k, None) = None THEN Return(w, None)
                ELSE GotoWith(w, "promote", Get(persistent, k, None), FALSE)
          BY <1>6, <4>2 DEF ReadPersistent, Selected
        <5>2. ~Return(w, None)
          BY <3>3, <4>2 DEF Return, Idle, Frame
        <5> QED
          BY <1>6, <4>2, <5>1, <5>2 DEF GotoWith
      <4>4. frame'[w].value = Get(persistent, k, None)
        BY <4>3 DEF Frame
      <4> QED
        BY <4>3, <4>4 DEF Get
    <3> QED
      BY <1>9, <3>1, <3>2, <3>3
  <2> QED
    BY <2>2, <2>3 DEF Same
<1> QED
  BY <1>8, <1>9

\* Every call is told after a step of a doubtful copy.
LEMMA SureStep ==
    ASSUME Follows', NEW started, Doubts(started), NEW k \in Key, NEW w \in Worker,
           frame'[w].pc \in CachedSteps
    PROVE  SureOK(w, k)'
<1>1. About(pending'[w], k) <=> frame'[w].key = k
  BY CachedCall DEF Follows
<1>2. About(pending'[w], k) /\ Doubtful(k)' => ~sure'[w]
  BY DEF Doubts
<1> QED
  BY <1>1, <1>2 DEF SureOK

\* The frame f has nothing to do with the copy of k.
Aside(f, k) == ~(f.pc \in {"stamp", "invalidate", "delete_persistent"} /\ f.key = k)

\* A step that changes nothing of k leaves its copy as good or as doubtful as it was.
LEMMA CopyKept ==
    ASSUME CachedInv, workload.linear, NEW w \in Worker, Continue(w) \/ End(w), NEW k \in Key \ Registry,
           now' = now, \A x \in Worker \ {w} : frame'[x] = frame[x],
           Same(transient', transient, k), Same(persistent', persistent, k),
           Aside(frame[w], k), Aside(frame'[w], k),
           k \in DOMAIN transient /\ GoodCopy(k) => \E e \in possible'[k] : HoldsCopy(e, k)'
    PROVE  CopyOK(k)'
<1>1. suspect'[k] = suspect[k] /\ \A x \in Worker \ {w} : clean'[x] = clean[x]
  <2>1. CASE Continue(w)
    BY <2>1 DEF Continue
  <2>2. CASE End(w)
    BY <2>2 DEF End, StampsDoubtful, CachedInv, Aside
  <2> QED
    BY <2>1, <2>2
<1> SUFFICES ASSUME k \in DOMAIN transient'
             PROVE  \/ GoodCopy(k)'
                    \/ \E x \in Worker : StoredUnclean(x, k)'
                    \/ suspect'[k] > now' /\ transient'[k].deadline # Never /\ transient'[k].deadline <= suspect'[k]
  BY DEF CopyOK
<1>2. k \in DOMAIN transient /\ transient'[k] = transient[k]
  BY DEF Same
<1>3. ASSUME GoodCopy(k) PROVE GoodCopy(k)'
  <2>1. \A x \in Worker : ~(frame'[x].pc = "delete_persistent" /\ frame'[x].key = k)
    BY <1>3 DEF GoodCopy, Aside
  <2>2. k \in DOMAIN persistent' /\ persistent'[k] = persistent[k]
    BY <1>3 DEF GoodCopy, Same
  <2>3. ASSUME NEW x \in Worker, WroteRow(frame[x], k) PROVE WroteRow(frame[x], k)'
    <3>1. x # w
      BY <2>3 DEF WroteRow, Aside
    <3> QED
      BY <2>2, <2>3, <3>1 DEF WroteRow
  <2>4. persistent[k] = transient[k].value \/ \E x \in Worker : WroteRow(frame[x], k)
    BY <1>3 DEF GoodCopy
  <2> QED
    BY <1>2, <1>3, <2>1, <2>2, <2>3, <2>4 DEF GoodCopy
<1>4. ASSUME NEW x \in Worker, StoredUnclean(x, k) PROVE StoredUnclean(x, k)'
  <2>1. x # w
    BY <1>4 DEF StoredUnclean, Aside
  <2> QED
    BY <1>1, <1>4, <2>1 DEF StoredUnclean
<1>5. \/ GoodCopy(k) \/ \E x \in Worker : StoredUnclean(x, k)
      \/ suspect[k] > now /\ transient[k].deadline # Never /\ transient[k].deadline <= suspect[k]
  BY <1>2 DEF CachedInv, CopyOK
<1> QED
  BY <1>1, <1>2, <1>3, <1>4, <1>5

\* A call about other keys leaves the copy as good as it was.
LEMMA CopyElsewhere ==
    ASSUME TypeOK, Follows, ~FaultyDisk, CachedInv, workload.linear, NEW w \in Worker,
           Continue(w) \/ End(w), NEW k \in Key \ Registry, ~About(frame[w], k)
    PROVE  CopyOK(k)'
<1>1. Step(w)
  BY DEF Continue, End
<1>2. /\ now' = now /\ (\A x \in Worker \ {w} : frame'[x] = frame[x]) /\ Onward(frame[w], frame'[w])
  BY <1>1, StepMoves
<1>3. Same(transient', transient, k) /\ Same(persistent', persistent, k) /\ k \in Key
  BY <1>1, Elsewhere DEF Follows
<1>4. frame[w].pc \in OnKey \cup Scanning /\ ~About(pending[w], k) /\ ~About(frame'[w], k)
  BY <1>1, <1>2, <1>3, StepAt, AboutSame, AboutMoves, IdleAbout DEF Follows
<1>5. Aside(frame[w], k) /\ Aside(frame'[w], k)
  BY <1>4 DEF About, Scanning, Aside
<1>6. ASSUME k \in DOMAIN transient, GoodCopy(k) PROVE \E e \in possible'[k] : HoldsCopy(e, k)'
  <2>1. PICK h \in possible[k] : HoldsCopy(h, k)
    BY <1>6 DEF GoodCopy
  <2>2. PICK e \in possible'[k] :
             /\ e.map = h.map
             /\ \A x \in Worker \ {w} : e.answer[x] = h.answer[x]
             /\ e.answer[w] = IF frame'[w] = Idle /\ About(pending[w], k) THEN Open ELSE h.answer[w]
    BY <1>3, <1>4, Carry
  <2>3. \A x \in Worker : e.answer[x] = Open
    BY <1>4, <2>1, <2>2 DEF HoldsCopy
  <2>4. k \in DOMAIN h.map /\ h.map[k] = [value |-> transient'[k].value, deadline |-> Never]
    BY <1>3, <1>6, <2>1 DEF HoldsCopy, Same
  <2> QED
    BY <2>2, <2>3, <2>4 DEF HoldsCopy
<1> QED
  BY <1>2, <1>3, <1>5, <1>6, CopyKept

\* What a step of a call does to the copy of its key.
LEMMA CopyAbout ==
    ASSUME TypeOK, Follows, ~FaultyDisk, CachedInv, workload.linear, NEW w \in Worker,
           Continue(w) \/ End(w), NEW k \in Key \ Registry, About(frame[w], k)
    PROVE  CopyOK(k)'
<1> DEFINE f == frame[w]
<1>1. Step(w)
  BY DEF Continue, End
<1>2. /\ now' = now /\ (\A x \in Worker \ {w} : frame'[x] = frame[x]) /\ Onward(f, frame'[w])
  BY <1>1, StepMoves
<1>3. /\ f.pc \in CachedSteps /\ f.pc \in OnKey \cup Scanning /\ f.key = k /\ SameCall(f, pending[w])
      /\ w \in DOMAIN frame /\ w \in DOMAIN reply /\ k \in Key
  BY <1>1, StepAt, CachedCall DEF CachedInv, Follows, TypeOK
<1>4. About(pending[w], k)
  BY <1>3, CachedCall
<1>5. ASSUME frame'[w] # Idle
      PROVE  possible' = possible /\ clean' = clean /\ suspect' = suspect
  BY <1>5 DEF Continue, End
<1>6. ASSUME k \notin DOMAIN transient' PROVE CopyOK(k)'
  BY <1>6 DEF CopyOK
<1>7. ASSUME NEW a, f.pc \in ReadSteps, Return(w, a), k \in DOMAIN transient, GoodCopy(k),
             sure[w] => a = transient[k].value, k \in DOMAIN transient',
             transient'[k].value = transient[k].value
      PROVE  \E e \in possible'[k] : HoldsCopy(e, k)'
  <2>1. PICK h \in possible[k] : HoldsCopy(h, k)
    BY <1>7 DEF GoodCopy
  <2>2. k \in DOMAIN h.map /\ h.map[k] = [value |-> transient[k].value, deadline |-> Never]
        /\ \A x \in Worker : h.answer[x] = Open
    BY <2>1 DEF HoldsCopy
  <2>3. Same(h.map, h.map, k) /\ (k \in DOMAIN h.map => Alive(h.map[k], now)) /\ h.answer[w] = Open
    BY <2>2, SameTrans DEF Alive
  <2>4. PICK g \in possible[k] : Effect(h, g, pending[w], w, k, h.map)
    BY <1>3, <2>3, TakeAs
  <2>5. pending[w].pc = "read_transient"
    BY <1>3, <1>7 DEF SameCall, ReadSteps
  <2>6. Look(h.map, k, None) = transient[k].value
    BY <2>2 DEF Look
  <2>7. /\ \A x \in Worker \ {w} : g.answer[x] = h.answer[x]
        /\ Same(g.map, h.map, k) /\ g.answer[w] = <<transient[k].value>>
    BY <2>4, <2>5, <2>6 DEF Effect
  <2>8. frame'[w] = Idle /\ reply'[w] = a
    BY <1>3, <1>7 DEF Return
  <2>9. Answer(w, k) = a
    BY <1>7, <2>8 DEF Answer, ReadSteps
  <2>10. g.answer[w] # Open /\ (sure[w] => g.answer[w] = <<Answer(w, k)>>)
    BY <1>7, <2>7, <2>9 DEF Open
  <2>11. PICK e \in possible'[k] :
             /\ e.map = g.map
             /\ \A x \in Worker \ {w} : e.answer[x] = g.answer[x]
             /\ e.answer[w] = IF frame'[w] = Idle /\ About(pending[w], k) THEN Open ELSE g.answer[w]
    BY <1>3, <2>10, Carry
  <2>12. \A x \in Worker : e.answer[x] = Open
    BY <1>4, <2>2, <2>7, <2>8, <2>11
  <2>13. k \in DOMAIN e.map /\ e.map[k] = [value |-> transient'[k].value, deadline |-> Never]
    BY <1>7, <2>2, <2>7, <2>11 DEF Same
  <2> QED
    BY <2>12, <2>13 DEF HoldsCopy
<1>8. CASE f.pc = "read_transient"
  <2>1. ReadTransient(w)
    BY <1>1, <1>8, StepAt
  <2>2. transient' = transient /\ persistent' = persistent
    BY <2>1 DEF ReadTransient, OnlyReads
  <2>3. CASE Look(transient, k, None) # None
    <3>1. k \in DOMAIN transient /\ Return(w, transient[k].value)
      BY <1>3, <2>1, <2>3 DEF ReadTransient, Look
    <3>2. Aside(f, k) /\ Aside(frame'[w], k)
      BY <1>3, <1>8, <3>1 DEF Aside, Return, Idle, Frame
    <3>3. k \in DOMAIN transient /\ GoodCopy(k) => \E e \in possible'[k] : HoldsCopy(e, k)'
      BY <1>7, <1>8, <2>2, <3>1 DEF ReadSteps
    <3>4. Same(transient', transient, k) /\ Same(persistent', persistent, k)
      BY <2>2, SameTrans
    <3> QED
      BY <1>2, <3>2, <3>3, <3>4, CopyKept
  <2>4. CASE Look(transient, k, None) = None
    <3>1. k \notin DOMAIN transient
      BY <2>4, NoneAssumption DEF Look, TypeOK, IsMap, Entry
    <3> QED
      BY <1>6, <2>2, <3>1
  <2> QED
    BY <2>3, <2>4
<1>9. CASE f.pc = "read_persistent"
  <2>1. ReadPersistent(w)
    BY <1>1, <1>9, StepAt
  <2>2. transient' = transient /\ persistent' = persistent
    BY <2>1 DEF ReadPersistent, OnlyReads
  <2>3. \/ Return(w, None) /\ Get(persistent, k, None) = None
        \/ GotoWith(w, "promote", Get(persistent, k, None), FALSE)
    BY <1>3, <2>1 DEF ReadPersistent, Selected
  <2>4. Aside(f, k) /\ Aside(frame'[w], k)
    BY <1>3, <1>9, <2>3 DEF Aside, Return, GotoWith, Idle, Frame
  <2>5. ASSUME k \in DOMAIN transient, GoodCopy(k) PROVE \E e \in possible'[k] : HoldsCopy(e, k)'
    <3>1. Get(persistent, k, None) # None
      BY <2>5, NoneAssumption DEF GoodCopy, Get, TypeOK, IsMap
    <3>2. frame'[w] # Idle
      BY <1>3, <2>3, <3>1 DEF GotoWith, Frame, Idle
    <3> QED
      BY <1>5, <2>2, <2>5, <3>2 DEF GoodCopy, HoldsCopy
  <2>6. Same(transient', transient, k) /\ Same(persistent', persistent, k)
    BY <2>2, SameTrans
  <2> QED
    BY <1>2, <2>4, <2>5, <2>6, CopyKept
<1>10. CASE f.pc = "promote"
  <2>1. Promote(w)
    BY <1>1, <1>10, StepAt
  <2>2. /\ transient' = At(Put(transient, k, f.value), now) /\ persistent' = persistent
        /\ frame'[w] = Frame("stamp", k, f.value, f.ttl, f.hit)
    BY <1>3, <2>1 DEF Promote, Transient, Goto, GotoWith
  <2>3. frame'[w].pc = "stamp" /\ frame'[w].key = k /\ frame'[w] # Idle
    BY <2>2 DEF Frame, Idle
  <2>4. possible' = possible /\ clean' = clean
    BY <1>5, <2>3
  <2>5. CASE ~clean[w]
    <3>1. StoredUnclean(w, k)'
      BY <2>3, <2>4, <2>5 DEF StoredUnclean
    <3> QED
      BY <3>1 DEF CopyOK
  <2>6. CASE clean[w]
    <3>1. /\ \A x \in Worker \ {w} : ~(frame[x].pc \in UpdateSteps /\ frame[x].key = k)
          /\ k \in DOMAIN persistent /\ persistent[k] = f.value
      BY <1>3, <1>10, <2>6 DEF CachedInv, ReaderOK, ReadSteps
    <3>2. Put(transient, k, f.value)[k] = [value |-> f.value, deadline |-> Never]
      BY CellPut
    <3>3. k \in DOMAIN transient' => transient'[k].value = f.value
      BY <2>2, <3>2, CellAt
    <3>4. PICK h \in possible[k] : RowFit(h, k)
      BY DEF CachedInv
    <3>5. \A x \in Worker : h.answer[x] = Open
      <4>1. \A x \in Worker : ~(frame[x].pc = "invalidate" /\ frame[x].key = k)
        BY <1>10, <3>1 DEF UpdateSteps
      <4> QED
        BY <3>4, <4>1 DEF RowFit, DueRow
    <3>6. k \in DOMAIN h.map /\ h.map[k] = [value |-> f.value, deadline |-> Never]
      BY <3>1, <3>4 DEF RowFit, RowIs
    <3>7. \A x \in Worker : ~(frame'[x].pc = "delete_persistent" /\ frame'[x].key = k)
      BY <1>2, <2>3, <3>1 DEF UpdateSteps
    <3>8. k \in DOMAIN transient' => HoldsCopy(h, k)' /\ persistent'[k] = transient'[k].value
      BY <2>2, <3>1, <3>3, <3>5, <3>6 DEF HoldsCopy
    <3>9. k \in DOMAIN transient' => GoodCopy(k)'
      BY <2>2, <2>4, <3>1, <3>7, <3>8 DEF GoodCopy
    <3> QED
      BY <3>9 DEF CopyOK
  <2> QED
    BY <2>5, <2>6
<1>11. CASE f.pc = "stamp"
  <2>1. Stamp(w)
    BY <1>1, <1>11, StepAt
  <2> DEFINE d == now + CachePromotion
  <2>2. /\ transient' = At(SetDeadline(transient, k, d), now) /\ persistent' = persistent
        /\ frame'[w] = Idle /\ Return(w, f.value)
    BY <1>3, <2>1 DEF Stamp, Transient, Return
  <2>3. End(w)
    BY <2>2 DEF Continue
  <2>4. suspect'[k] = IF Doubtful(k) THEN d ELSE suspect[k]
    BY <1>3, <1>11, <2>3 DEF End, StampsDoubtful
  <2>5. SUFFICES ASSUME k \in DOMAIN transient' PROVE CopyOK(k)'
    BY <1>6
  <2>6. d \in Nat /\ now \in Nat /\ d # Never
    BY CachePromotionAssumption, NeverAssumption DEF TypeOK
  <2> HIDE DEF d
  <2>7. /\ k \in DOMAIN transient /\ Alive(transient'[k], now)
        /\ transient'[k] = [value |-> transient[k].value, deadline |-> d]
    <3> DEFINE m == SetDeadline(transient, k, d)
    <3>1. transient' = At(m, now)
      BY <2>2
    <3> HIDE DEF m
    <3>2. k \in DOMAIN m /\ Alive(m[k], now) /\ transient'[k] = m[k]
      BY <2>5, <3>1, CellAt
    <3>3. k \in DOMAIN transient /\ m[k] = [value |-> transient[k].value, deadline |-> d]
      BY <3>2 DEF m, SetDeadline, PutUntil, Insert
    <3> QED
      BY <3>2, <3>3
  <2>8. d > now
    BY <2>6, <2>7 DEF Alive
  <2>9. CASE Doubtful(k)
    BY <1>2, <2>4, <2>6, <2>7, <2>8, <2>9 DEF CopyOK
  <2>10. CASE ~Doubtful(k)
    <3>1. GoodCopy(k)
      BY <2>7, <2>10 DEF CachedInv, CopyOK, Doubtful
    <3>2. clean[w]
      BY <1>3, <1>11, <2>10 DEF Doubtful, StoredUnclean
    <3>3. /\ \A x \in Worker \ {w} : ~(frame[x].pc \in UpdateSteps /\ frame[x].key = k)
          /\ k \in DOMAIN persistent /\ persistent[k] = f.value
      BY <1>3, <1>11, <3>2 DEF CachedInv, ReaderOK, ReadSteps
    <3>4. persistent[k] = transient[k].value
      BY <1>11, <3>1, <3>3 DEF GoodCopy, WroteRow, UpdateSteps
    <3>5. \E e \in possible'[k] : HoldsCopy(e, k)'
      BY <1>7, <1>11, <2>2, <2>5, <2>7, <3>1, <3>3, <3>4 DEF ReadSteps
    <3>6. \A x \in Worker : ~(frame'[x].pc = "delete_persistent" /\ frame'[x].key = k)
      BY <1>2, <2>2, <3>3 DEF UpdateSteps, Idle, Frame
    <3>7. GoodCopy(k)'
      BY <2>2, <2>7, <3>3, <3>4, <3>5, <3>6 DEF GoodCopy
    <3> QED
      BY <3>7 DEF CopyOK
  <2> QED
    BY <2>9, <2>10
<1>12. CASE f.pc = "write_persistent"
  <2>1. WritePersistent(w)
    BY <1>1, <1>12, StepAt
  <2>2. /\ persistent' = Insert(persistent, k, f.value) /\ transient' = transient
        /\ frame'[w] = Frame("invalidate", k, f.value, f.ttl, f.hit)
    BY <1>3, <2>1 DEF WritePersistent, Persistent, Goto, GotoWith
  <2>3. frame'[w].pc = "invalidate" /\ frame'[w].key = k /\ frame'[w].value = f.value /\ frame'[w] # Idle
    BY <2>2 DEF Frame, Idle
  <2>4. possible' = possible /\ clean' = clean /\ suspect' = suspect
    BY <1>5, <2>3
  <2>5. k \in DOMAIN persistent' /\ persistent'[k] = f.value
    BY <2>2, CellInsert
  <2>6. WroteRow(frame[w], k)'
    BY <2>3, <2>5 DEF WroteRow
  <2>7. GoodCopy(k) => GoodCopy(k)'
    <3>1. GoodCopy(k) => \A x \in Worker : ~(frame'[x].pc = "delete_persistent" /\ frame'[x].key = k)
      BY <1>2, <2>3 DEF GoodCopy
    <3> QED
      BY <2>2, <2>4, <2>5, <2>6, <3>1 DEF GoodCopy, HoldsCopy
  <2>8. \A x \in Worker : StoredUnclean(x, k) => StoredUnclean(x, k)'
    BY <1>2, <1>12, <2>4 DEF StoredUnclean
  <2> QED
    BY <1>2, <2>2, <2>4, <2>7, <2>8 DEF CachedInv, CopyOK
<1>13. CASE f.pc \in {"invalidate", "delete_transient"}
  <2>1. transient' = At(Remove(transient, k), now)
    BY <1>1, <1>3, <1>13, StepAt DEF Invalidate, DeleteTransient, Transient
  <2>2. k \notin DOMAIN transient'
    BY <2>1, CellRemove, CellAt
  <2> QED
    BY <1>6, <2>2
<1>14. CASE f.pc = "delete_persistent"
  <2>1. DeletePersistent(w)
    BY <1>1, <1>14, StepAt
  <2>2. transient' = transient /\ frame'[w] = Idle
    BY <1>3, <2>1 DEF DeletePersistent, Persistent, Return
  <2>3. ~GoodCopy(k)
    BY <1>3, <1>14 DEF GoodCopy
  <2>4. End(w)
    BY <2>2 DEF Continue
  <2>5. suspect'[k] = suspect[k] /\ \A x \in Worker \ {w} : clean'[x] = clean[x]
    BY <1>14, <2>4 DEF End, StampsDoubtful, CachedInv
  <2>6. \A x \in Worker : StoredUnclean(x, k) => StoredUnclean(x, k)'
    BY <1>2, <1>14, <2>5 DEF StoredUnclean
  <2> QED
    BY <1>2, <2>2, <2>3, <2>5, <2>6 DEF CachedInv, CopyOK
<1> QED
  BY <1>3, <1>8, <1>9, <1>10, <1>11, <1>12, <1>13, <1>14 DEF CachedSteps, ReadSteps, UpdateSteps, OnKey,
     Scanning

\* A step of a cached workload.
LEMMA CachedStep ==
    ASSUME TypeOK, Follows, ~FaultyDisk, CachedInv, workload.linear, NEW w \in Worker,
           Continue(w) \/ End(w)
    PROVE  CachedInv'
<1>1. Step(w)
  BY DEF Continue, End
<1>2. /\ now' = now /\ (\A x \in Worker \ {w} : frame'[x] = frame[x]) /\ Onward(frame[w], frame'[w])
  BY <1>1, StepMoves
<1>3. \A x \in Worker : frame'[x].pc \in CachedSteps
  BY <1>2, CachedMoves DEF CachedInv
<1>4. suspect' \in [Key -> Nat] /\ DOMAIN clean' = Worker
  <2>1. now + CachePromotion \in Nat
    BY CachePromotionAssumption DEF TypeOK
  <2>2. CASE Continue(w)
    BY <2>2 DEF Continue, CachedInv
  <2>3. CASE End(w)
    <3>1. /\ suspect' = [k \in Key |-> IF StampsDoubtful(w, k) THEN now + CachePromotion ELSE suspect[k]]
          /\ clean' = [clean EXCEPT ![w] = TRUE]
      BY <2>3 DEF End
    <3> QED
      BY <2>1, <3>1 DEF CachedInv
  <2> QED
    BY <2>2, <2>3
<1>5. Follows' /\ \E started : Doubts(started)
  <2>1. Follows'
    BY FollowsNext DEF HistoryNext
  <2> QED
    BY <2>1 DEF Continue, End
<1>6. ASSUME NEW k \in Key \ Registry
      PROVE  /\ \A x \in Worker : ReaderOK(x, k)' /\ SureOK(x, k)'
             /\ \E e \in possible'[k] : RowFit(e, k)'
             /\ CopyOK(k)'
  <2>1. PICK h \in possible[k] : RowFit(h, k)
    BY DEF CachedInv
  <2>2. About(frame[w], k) => \E g \in possible[k] : RowStep(g, h, w, k)
    <3>1. frame[w].pc \in UpdateSteps \cup ReadSteps
      BY <1>1, StepAt DEF CachedInv, CachedSteps, OnKey, Scanning
    <3> QED
      BY <1>1, <2>1, <3>1, RowUpdate, RowRead DEF UpdateSteps
  <2>3. \E e \in possible'[k] : RowFit(e, k)'
    BY <2>1, <2>2, RowCarried
  <2>4. CopyOK(k)'
    BY CopyAbout, CopyElsewhere
  <2>5. \A x \in Worker : ReaderOK(x, k)' /\ SureOK(x, k)'
    BY <1>3, <1>5, ReaderStep, SureStep
  <2> QED
    BY <2>3, <2>4, <2>5
<1> QED
  BY <1>3, <1>4, <1>6 DEF CachedInv

\* A call that begins makes the reads of its key unclean, or is unclean, if it is an update
\* or joins one.
LEMMA CachedBegin ==
    ASSUME TypeOK, Follows, CachedInv, workload.linear, Only(workload, CachedMethods),
           NEW w \in Worker, Begin(w)
    PROVE  CachedInv'
<1>1. PICK f : /\ frame' = [frame EXCEPT ![w] = f]
               /\ f.pc \in Opening \cap workload.methods[w]
               /\ frame[w].pc = "idle" /\ OnlyReads
  BY BeginFrame
<1>2. frame'[w] = f /\ (\A x \in Worker \ {w} : frame'[x] = frame[x])
      /\ transient' = transient /\ persistent' = persistent /\ now' = now
  BY <1>1 DEF TypeOK, OnlyReads
<1>3. f.pc \in {"write_persistent", "delete_transient", "read_transient"}
  BY <1>1 DEF Only, CachedMethods
<1>4. \A x \in Worker : frame'[x].pc \in CachedSteps
  BY <1>2, <1>3 DEF CachedInv, CachedSteps, UpdateSteps, ReadSteps
<1>5. suspect' = suspect /\ DOMAIN clean' = Worker /\ Doubts({w})
  BY DEF Begin
<1>6. Follows'
  BY FollowsNext DEF HistoryNext
<1>7. \A x \in Worker : clean'[x] =>
        /\ x = w \/ clean[x]
        /\ \A k \in Key, y \in Worker \ {x} :
             ~(w \in {x, y} /\ About(pending'[x], k) /\ Updating(pending'[y], k))
  BY DEF Begin
<1>8. \A x \in Worker, k \in Key :
        /\ About(pending'[x], k) <=> frame'[x].key = k
        /\ Updating(pending'[x], k) <=> frame'[x].pc \in UpdateSteps /\ frame'[x].key = k
  BY <1>4, <1>6, CachedCall DEF Follows
<1>9. ASSUME NEW k \in Key \ Registry, NEW x \in Worker
      PROVE  ReaderOK(x, k)'
  <2> SUFFICES ASSUME clean'[x], frame'[x].pc \in ReadSteps, frame'[x].key = k
               PROVE  /\ \A y \in Worker \ {x} : ~(frame'[y].pc \in UpdateSteps /\ frame'[y].key = k)
                      /\ frame'[x].pc \in {"promote", "stamp"} =>
                           k \in DOMAIN persistent' /\ persistent'[k] = frame'[x].value
    BY DEF ReaderOK
  <2>1. ASSUME NEW y \in Worker \ {x}, w \in {x, y}, frame'[y].pc \in UpdateSteps, frame'[y].key = k
        PROVE  FALSE
    BY <1>7, <1>8, <2>1
  <2>2. CASE x = w
    BY <1>2, <1>3, <2>1, <2>2
  <2>3. CASE x # w
    <3>1. ReaderOK(x, k) /\ clean[x] /\ frame'[x] = frame[x]
      BY <1>2, <1>7, <2>3 DEF CachedInv
    <3>2. ASSUME NEW y \in Worker \ {x}, y # w, frame'[y].pc \in UpdateSteps, frame'[y].key = k
          PROVE  FALSE
      BY <1>2, <3>1, <3>2 DEF ReaderOK
    <3> QED
      BY <1>2, <2>1, <3>1, <3>2 DEF ReaderOK
  <2> QED
    BY <2>2, <2>3
<1>10. ASSUME NEW k \in Key \ Registry
       PROVE  CopyOK(k)'
  <2>1. GoodCopy(k) => GoodCopy(k)'
    <3> SUFFICES ASSUME GoodCopy(k) PROVE GoodCopy(k)'
      OBVIOUS
    <3>1. PICK h \in possible[k] : HoldsCopy(h, k)
      BY DEF GoodCopy
    <3>2. h \in possible'[k] /\ HoldsCopy(h, k)'
      BY <1>2, <3>1, CarryOver DEF HoldsCopy
    <3>3. \A x \in Worker : ~(frame'[x].pc = "delete_persistent" /\ frame'[x].key = k)
      BY <1>2, <1>3 DEF GoodCopy
    <3>4. \A x \in Worker : WroteRow(frame[x], k) => WroteRow(frame[x], k)'
      BY <1>1, <1>2 DEF WroteRow
    <3> QED
      BY <1>2, <3>2, <3>3, <3>4 DEF GoodCopy
  <2>2. \A x \in Worker : StoredUnclean(x, k) => StoredUnclean(x, k)'
    BY <1>1, <1>2, <1>7 DEF StoredUnclean
  <2> QED
    BY <1>2, <1>5, <2>1, <2>2 DEF CachedInv, CopyOK
<1>11. ASSUME NEW k \in Key \ Registry
       PROVE  \E e \in possible'[k] : RowFit(e, k)'
  <2>1. PICK h \in possible[k] : RowFit(h, k)
    BY DEF CachedInv
  <2> QED
    BY <2>1, RowCarriedOver
<1>12. \A x \in Worker, k \in Key : SureOK(x, k)'
  BY <1>4, <1>5, <1>6, SureStep
<1> QED
  BY <1>4, <1>5, <1>9, <1>10, <1>11, <1>12 DEF CachedInv

\* The rows are one of the possible maps, and the copies are accounted for, after every step...
LEMMA CachedNext ==
    ASSUME TypeOK, Follows, ~FaultyDisk, CachedInv, workload.linear, Only(workload, CachedMethods),
           [HistoryNext]_allVars
    PROVE  CachedInv'
<1>0. ASSUME NEW k \in Key \ Registry, Pass \/ Restart \/ UNCHANGED allVars
      PROVE  \E e \in possible'[k] : RowFit(e, k)'
  <2>1. PICK h \in possible[k] : RowFit(h, k)
    BY DEF CachedInv
  <2> QED
    BY <1>0, <2>1, RowCarriedOver
<1>1. CASE Pass
  <2>1. /\ transient' = At(transient, now') /\ frame' = frame /\ persistent' = persistent /\ now' = now + 1
        /\ suspect' = suspect /\ clean' = clean /\ sure' = sure
    BY <1>1 DEF Pass, Tick
  <2>2. now \in Nat /\ now' \in Nat /\ now' > now /\ \A k \in Key : suspect[k] \in Nat
    BY <2>1 DEF TypeOK, CachedInv
  <2>3. ASSUME NEW k \in Key \ Registry PROVE CopyOK(k)'
    <3> SUFFICES ASSUME k \in DOMAIN transient'
                 PROVE  \/ GoodCopy(k)'
                        \/ \E x \in Worker : StoredUnclean(x, k)'
                        \/ /\ suspect'[k] > now' /\ transient'[k].deadline # Never
                           /\ transient'[k].deadline <= suspect'[k]
      BY DEF CopyOK
    <3>1. k \in DOMAIN transient /\ transient'[k] = transient[k] /\ Alive(transient[k], now')
      BY <2>1, CellAt
    <3>2. ASSUME GoodCopy(k) PROVE GoodCopy(k)'
      <4>1. PICK h \in possible[k] : HoldsCopy(h, k)
        BY <3>2 DEF GoodCopy
      <4>2. PICK e \in possible'[k] : e.map = At(h.map, now') /\ e.answer = h.answer
        BY <1>1, CarryOver
      <4>3. k \in DOMAIN h.map /\ h.map[k] = [value |-> transient[k].value, deadline |-> Never]
        BY <4>1 DEF HoldsCopy
      <4>4. k \in DOMAIN e.map /\ e.map[k] = h.map[k]
        BY <4>2, <4>3, CellAt DEF Alive
      <4>5. HoldsCopy(e, k)'
        BY <3>1, <4>1, <4>2, <4>3, <4>4 DEF HoldsCopy
      <4>6. \A x \in Worker : WroteRow(frame[x], k) => WroteRow(frame[x], k)'
        BY <2>1 DEF WroteRow
      <4> QED
        BY <2>1, <3>1, <3>2, <4>5, <4>6 DEF GoodCopy
    <3>3. \A x \in Worker : StoredUnclean(x, k) => StoredUnclean(x, k)'
      BY <2>1 DEF StoredUnclean
    <3>4. ASSUME suspect[k] > now, transient[k].deadline # Never, transient[k].deadline <= suspect[k]
          PROVE  suspect'[k] > now' /\ transient'[k].deadline # Never /\ transient'[k].deadline <= suspect'[k]
      <4>1. transient[k].deadline > now' /\ suspect[k] \in Nat
        BY <2>2, <3>1, <3>4 DEF Alive
      <4>2. transient[k].deadline \in Nat
        BY <3>1, <3>4 DEF TypeOK, IsMap, Entry
      <4>3. suspect[k] > now'
        BY <2>2, <3>4, <4>1, <4>2
      <4> QED
        BY <2>1, <3>1, <3>4, <4>3
    <3> QED
      BY <3>1, <3>2, <3>3, <3>4 DEF CachedInv, CopyOK
  <2>4. ASSUME NEW k \in Key \ Registry, NEW x \in Worker PROVE ReaderOK(x, k)' /\ SureOK(x, k)'
    <3>1. Doubtful(k)' => Doubtful(k)
      BY <2>1, <2>2 DEF Doubtful, StoredUnclean
    <3>2. ReaderOK(x, k) /\ SureOK(x, k)
      BY DEF CachedInv
    <3>3. SureOK(x, k)'
      BY <2>1, <3>1, <3>2 DEF SureOK
    <3>4. ReaderOK(x, k)'
      BY <2>1, <3>2 DEF ReaderOK
    <3> QED
      BY <3>3, <3>4
  <2> QED
    BY <1>0, <1>1, <2>1, <2>3, <2>4 DEF CachedInv
<1>2. CASE Restart
  <2>1. /\ transient' = RegistryEntries /\ \A w \in Worker : frame'[w] = Idle
        /\ suspect' = [k \in Key |-> 0] /\ DOMAIN clean' = Worker
    BY <1>2 DEF Restart, Crash
  <2>2. DOMAIN transient' = Registry
    BY <2>1 DEF RegistryEntries
  <2>3. Idle.pc = "idle" /\ Idle.key = None
    BY DEF Idle, Frame
  <2>4. ASSUME NEW k \in Key \ Registry
        PROVE  CopyOK(k)' /\ \A x \in Worker : ReaderOK(x, k)' /\ SureOK(x, k)'
    <3>1. k # None
      BY NoneAssumption
    <3>2. CopyOK(k)'
      BY <2>2 DEF CopyOK
    <3>3. \A x \in Worker : ReaderOK(x, k)' /\ SureOK(x, k)'
      BY <2>1, <2>3, <3>1 DEF ReaderOK, SureOK, ReadSteps
    <3> QED
      BY <3>2, <3>3
  <2>5. \A x \in Worker : frame'[x].pc \in CachedSteps
    BY <2>1, <2>3 DEF CachedSteps
  <2>6. suspect' \in [Key -> Nat]
    BY <2>1
  <2> QED
    BY <1>0, <1>2, <2>1, <2>4, <2>5, <2>6 DEF CachedInv
<1>3. CASE UNCHANGED allVars
  BY <1>3 DEF allVars, vars, historyVars, CachedInv, ReaderOK, SureOK, CopyOK, GoodCopy, HoldsCopy,
     WroteRow, Doubtful, StoredUnclean, RowFit, RowIs
<1> QED
  BY <1>1, <1>2, <1>3, CachedBegin, CachedStep DEF HistoryNext

\* ... and at first.
LEMMA CachedInit ==
    ASSUME HistoryInit
    PROVE  CachedInv
<1>1. /\ \A w \in Worker : frame[w] = Idle
      /\ DOMAIN transient = Registry
      /\ \A k \in Key : \E h \in possible[k] : RowFit(h, k)
  BY RowInit
<1>2. suspect \in [Key -> Nat] /\ DOMAIN clean = Worker
  BY DEF HistoryInit
<1>3. Idle.pc = "idle" /\ Idle.key = None
  BY DEF Idle, Frame
<1>4. ASSUME NEW k \in Key \ Registry
      PROVE  CopyOK(k) /\ \A x \in Worker : ReaderOK(x, k) /\ SureOK(x, k)
  <2>1. k # None
    BY NoneAssumption
  <2> QED
    BY <1>1, <1>3, <2>1 DEF CopyOK, ReaderOK, SureOK, ReadSteps
<1>5. \A x \in Worker : frame[x].pc \in CachedSteps
  BY <1>1, <1>3 DEF CachedSteps
<1> QED
  BY <1>1, <1>2, <1>4, <1>5 DEF CachedInv

\* A copy that is not doubtful is the row once no write is under way.
LEMMA CachedHolds ==
    ASSUME Follows, CachedInv
    PROVE  Linearizable /\ Coherent
<1>1. \A k \in Key \ Registry : possible[k] # {}
  BY DEF CachedInv
<1>2. ASSUME NEW k \in Key \ Registry, ~Doubtful(k), \A w \in Worker : ~Updating(pending[w], k)
      PROVE  \E h \in possible[k] : Hold(h.map, k)
  <2>1. PICK h \in possible[k] : RowFit(h, k)
    BY DEF CachedInv
  <2>2. ASSUME k \in DOMAIN transient
        PROVE  k \in DOMAIN persistent /\ persistent[k] = transient[k].value
    <3>1. GoodCopy(k)
      BY <1>2, <2>2 DEF CachedInv, CopyOK, Doubtful
    <3>2. ASSUME NEW x \in Worker, WroteRow(frame[x], k) PROVE FALSE
      <4>1. SameCall(frame[x], pending[x]) /\ frame[x].pc \in CachedSteps /\ k \in Key
        BY DEF Follows, CachedInv
      <4>2. Updating(pending[x], k)
        BY <3>2, <4>1, CachedCall DEF WroteRow, UpdateSteps
      <4> QED
        BY <1>2, <4>2
    <3> QED
      BY <3>1, <3>2 DEF GoodCopy
  <2>3. RowIs(h.map, k)
    BY <2>1 DEF RowFit
  <2>4. Hold(h.map, k)
    BY <2>2, <2>3 DEF Hold, Visible, Look, Get, RowIs
  <2> QED
    BY <2>4
<1> QED
  BY <1>1, <1>2 DEF Linearizable, Coherent

-----------------------------------------------------------------------------
\* One thread: whatever it calls, the tiers hold the map between its calls.

\* All methods but read_ttl_remaining, which tells how long a copy lives.
AloneMethods == Opening \ {"remaining"}

Alone(load, u) ==
    /\ load.methods[u] \subseteq AloneMethods
    /\ \A w \in Worker \ {u} : load.methods[w] = {}

\* The rows are what the map holds without a deadline.
InRows(m, k) ==
    /\ k \in DOMAIN persistent <=> k \in DOMAIN m /\ m[k].deadline = Never
    /\ k \in DOMAIN persistent => m[k] = [value |-> persistent[k], deadline |-> Never]

\* So are the rows, the rest is in the transient tier, and what else is there is a copy.
InTiers(m, k) ==
    /\ InRows(m, k)
    /\ k \in DOMAIN m /\ m[k].deadline # Never => k \in DOMAIN transient /\ transient[k] = m[k]
    /\ k \in DOMAIN transient =>
         k \in DOMAIN m /\ transient[k].value = m[k].value /\ transient[k].deadline # Never

\* The call at f has found the row of k.
HasRow(f, k) == k \in DOMAIN persistent /\ f.value = persistent[k]

\* What is left of the map h at each step of the call at f, and whether the call has taken effect.
AloneFit(h, f, k, done) ==
    /\ ~About(f, k) \/ f.pc \in Opening \cup {"idle"} => InTiers(h.map, k) /\ done = Open
    /\ About(f, k) =>
         /\ f.pc = "read_persistent" => InTiers(h.map, k) /\ k \notin DOMAIN transient /\ done = Open
         /\ f.pc = "promote" =>
              InTiers(h.map, k) /\ k \notin DOMAIN transient /\ HasRow(f, k) /\ done = Open
         /\ f.pc = "stamp" =>
              /\ RowIs(h.map, k) /\ HasRow(f, k) /\ done = Open
              /\ k \in DOMAIN transient => transient[k].value = persistent[k]
         /\ f.pc = "invalidate" => RowIs(h.map, k) /\ done = <<None>>
         /\ f.pc = "delete_persistent" => InRows(h.map, k) /\ k \notin DOMAIN transient /\ done = Open
         /\ f.pc = "match_persistent" /\ f.hit =>
              /\ k \notin DOMAIN transient /\ RowIs(h.map, k)
              /\ (HasRow(f, k) /\ done = Open) \/ (k \notin DOMAIN persistent /\ done = <<TRUE>>)
         /\ f.pc = "match_persistent" /\ ~f.hit =>
              InTiers(h.map, k) /\ ~Holds(transient, k, f.value) /\ done = Open
         /\ f.pc = "ttl_delete" => InTiers(h.map, k) /\ HasRow(f, k) /\ done = Open
         /\ f.pc = "ttl_move" =>
              /\ k \notin DOMAIN persistent /\ done = Open
              /\ k \in DOMAIN h.map /\ h.map[k] = [value |-> f.value, deadline |-> Never]
         /\ f.pc = "ttl_set" => k \notin DOMAIN persistent /\ Same(h.map, transient, k) /\ done = Open
         /\ f.pc = "timed_write" => k \notin DOMAIN persistent /\ done = Open
         /\ f.pc = "find_persistent" =>
              /\ InTiers(h.map, k)
              /\ \/ k \in DOMAIN f.value /\ done = <<f.value[k]>>
                 \/ k \notin DOMAIN f.value /\ k \notin DOMAIN transient /\ done = Open

AloneInv(u) ==
    /\ \A w \in Worker \ {u} : frame[w].pc = "idle"
    /\ frame[u].pc # "remaining"
    /\ \A k \in Key \ Registry :
         \E h \in possible[k] : /\ AloneFit(h, frame[u], k, h.answer[u])
                                /\ \A w \in Worker \ {u} : h.answer[w] = Open

\* What holds of maps that hold the same of k.
LEMMA TiersSame ==
    ASSUME NEW m, NEW n, NEW k, Same(n, m, k), Same(persistent', persistent, k), InRows(m, k)
    PROVE  /\ InRows(n, k)'
           /\ Same(transient', transient, k) /\ InTiers(m, k) => InTiers(n, k)'
<1>1. InRows(n, k)'
  BY DEF InRows, Same
<1>2. Same(transient', transient, k) /\ InTiers(m, k) => InTiers(n, k)'
  BY <1>1 DEF InTiers, Same
<1> QED
  BY <1>1, <1>2

\* What the tiers hold of k if the map is in them.
LEMMA TiersHold ==
    ASSUME NEW m, NEW k, InTiers(m, k)
    PROVE  /\ k \in DOMAIN transient => Look(m, k, None) = transient[k].value
           /\ k \notin DOMAIN transient => RowIs(m, k)
           /\ k \in DOMAIN persistent => RowIs(m, k)
           /\ k \notin DOMAIN persistent => Same(m, transient, k)
           /\ Fresh /\ k \in DOMAIN m => Alive(m[k], now)
           /\ Hold(m, k)
<1>1. k \in DOMAIN transient => Look(m, k, None) = transient[k].value
  BY DEF InTiers, Look
<1>2. k \notin DOMAIN transient => RowIs(m, k)
  BY DEF InTiers, InRows, RowIs
<1>3. k \in DOMAIN persistent => RowIs(m, k)
  BY DEF InTiers, InRows, RowIs
<1>4. k \notin DOMAIN persistent => Same(m, transient, k)
  BY DEF InTiers, InRows, Same
<1>5. Fresh /\ k \in DOMAIN m => Alive(m[k], now)
  BY DEF InTiers, InRows, Fresh, Alive
<1>6. Hold(m, k)
  BY DEF Hold, Visible, Look, Get, InTiers, InRows
<1> QED
  BY <1>1, <1>2, <1>3, <1>4, <1>5, <1>6

\* When the map is in the tiers.
LEMMA RowsInTiers ==
    ASSUME NEW m, NEW k, RowIs(m, k)
    PROVE  /\ InRows(m, k)
           /\ (k \in DOMAIN transient =>
                 /\ k \in DOMAIN persistent /\ transient[k].value = persistent[k]
                 /\ transient[k].deadline # Never) => InTiers(m, k)
<1>1. InRows(m, k)
  BY DEF RowIs, InRows
<1> QED
  BY <1>1 DEF InTiers, RowIs

\* A timed value is in the tiers.
LEMMA TimedInTiers ==
    ASSUME NEW m, NEW k, Same(m, transient, k), k \notin DOMAIN persistent,
           k \in DOMAIN transient => transient[k].deadline # Never
    PROVE  InTiers(m, k)
BY DEF InTiers, InRows, Same

\* In g the update p of w has taken effect on h, whatever that held.
Updated(h, g, p, w, k) ==
    /\ \A x \in Worker \ {w} : g.answer[x] = h.answer[x]
    /\ g.answer[w] = <<None>>
    /\ p.pc = "delete_transient" => k \notin DOMAIN g.map
    /\ p.pc = "ttl_read" => g.map = At(SetDeadline(h.map, k, now + p.ttl), now)
    /\ p.pc = "timed_clear" => g.map = At(PutUntil(h.map, k, p.value, now + p.ttl), now)

\* An update that has not taken effect may do so, whatever the map holds.
LEMMA TakeUpdate ==
    ASSUME Follows, NEW k \in Key, NEW h \in possible[k], NEW w \in Worker, About(frame[w], k),
           frame[w].pc \in OnKey, h.answer[w] = Open,
           pending[w].pc \in {"delete_transient", "ttl_read", "timed_clear"}
    PROVE  \E g \in possible[k] : Updated(h, g, pending[w], w, k)
<1> DEFINE p == pending[w]
           r == Meaning(p, h.map, k, now)
<1>1. PICK g \in possible[k] :
             /\ g.map = r.map
             /\ g.answer[w] = <<r.answer>>
             /\ \A x \in Worker \ {w} : g.answer[x] = h.answer[x]
  BY TakeIt
<1>2. /\ p.pc = "delete_transient" => r.map = At(Remove(h.map, k), now) /\ r.answer = None
      /\ p.pc = "ttl_read" => r.map = At(SetDeadline(h.map, k, now + p.ttl), now) /\ r.answer = None
      /\ p.pc = "timed_clear" =>
           r.map = At(PutUntil(h.map, k, p.value, now + p.ttl), now) /\ r.answer = None
  BY DEF Meaning
<1>3. k \notin DOMAIN At(Remove(h.map, k), now)
  BY CellRemove, CellAt
<1> HIDE DEF r
<1> QED
  BY <1>1, <1>2, <1>3 DEF Updated

\* A call that has not taken effect may do so on a map that has not expired.
LEMMA TakeHeld ==
    ASSUME TypeOK, Follows, NEW k \in Key, NEW h \in possible[k], NEW w \in Worker, About(frame[w], k),
           frame[w].pc \in OnKey \cup Scanning, h.answer[w] = Open,
           InTiers(h.map, k) \/ RowIs(h.map, k)
    PROVE  \E g \in possible[k] : Effect(h, g, pending[w], w, k, h.map)
<1>1. Same(h.map, h.map, k)
  BY SameTrans
<1>2. InTiers(h.map, k) => (k \in DOMAIN h.map => Alive(h.map[k], now))
  BY TiersHold DEF Follows
<1>3. RowIs(h.map, k) => (k \in DOMAIN h.map => Alive(h.map[k], now))
  BY DEF RowIs, Alive
<1> QED
  BY <1>1, <1>2, <1>3, TakeAs

\* In g, a step of the call of u has done to h what it does about k.
AloneMove(g, h, u, k) ==
    /\ \A x \in Worker \ {u} : g.answer[x] = h.answer[x]
    /\ IF frame'[u] = Idle THEN InTiers(g.map, k)' /\ g.answer[u] = <<Answer(u, k)>>
                           ELSE AloneFit(g, frame[u], k, g.answer[u])'

\* A read takes effect where it finds the value, or when it has stamped its copy.
LEMMA AloneRead ==
    ASSUME TypeOK, Follows, ~FaultyDisk, NEW u \in Worker, Step(u), NEW k \in Key,
           NEW h \in possible[k], AloneFit(h, frame[u], k, h.answer[u]), About(frame[u], k),
           frame[u].pc \in {"read_transient", "read_persistent", "promote", "stamp"}
    PROVE  \E g \in possible[k] : AloneMove(g, h, u, k)
<1> DEFINE f == frame[u]
           p == pending[u]
           Goal == \E g \in possible[k] : AloneMove(g, h, u, k)
<1>1. /\ f.key = k /\ SameCall(f, p) /\ u \in DOMAIN frame /\ u \in DOMAIN reply
      /\ f.pc \in OnKey /\ p.pc = "read_transient" /\ now \in Nat
  BY DEF About, Scanning, Follows, TypeOK, SameCall, OnKey
<1>2. h.answer[u] = Open /\ (InTiers(h.map, k) \/ RowIs(h.map, k))
  BY DEF AloneFit, Opening
<1>3. PICK t \in possible[k] : Effect(h, t, p, u, k, h.map)
  BY <1>1, <1>2, TakeHeld
<1>4. /\ \A x \in Worker \ {u} : t.answer[x] = h.answer[x]
      /\ Same(t.map, h.map, k) /\ t.answer[u] = <<Look(h.map, k, None)>>
  BY <1>1, <1>3 DEF Effect
<1> SUFFICES Goal
  OBVIOUS
<1>5. CASE f.pc = "read_transient"
  <2>1. ReadTransient(u) /\ InTiers(h.map, k)
    BY <1>5, StepAt DEF AloneFit, Opening
  <2>2. persistent' = persistent /\ transient' = transient
    BY <2>1 DEF ReadTransient, OnlyReads
  <2>3. CASE Look(transient, k, None) # None
    <3>1. frame'[u] = Idle /\ reply'[u] = Look(transient, k, None)
      BY <1>1, <2>1, <2>3 DEF ReadTransient, Return
    <3>2. Answer(u, k) = Look(h.map, k, None)
      BY <1>5, <2>1, <2>3, <3>1, TiersHold DEF Answer, Look
    <3>3. InTiers(t.map, k)'
      BY <1>4, <2>1, <2>2, TiersSame, SameTrans DEF InTiers
    <3> QED
      BY <1>4, <3>1, <3>2, <3>3 DEF AloneMove
  <2>4. CASE Look(transient, k, None) = None
    <3>1. k \notin DOMAIN transient
      BY <2>4, NoneAssumption DEF Look, TypeOK, IsMap, Entry
    <3>2. frame'[u] = Frame("read_persistent", k, f.value, f.ttl, f.hit)
      BY <1>1, <2>1, <2>4 DEF ReadTransient, Goto, GotoWith
    <3>3. frame'[u].pc = "read_persistent" /\ frame'[u] # Idle
      BY <3>2 DEF Frame, Idle
    <3>4. InTiers(h.map, k)' /\ k \notin DOMAIN transient'
      BY <2>1, <2>2, <3>1 DEF InTiers, InRows
    <3>5. AloneFit(h, frame[u], k, h.answer[u])'
      BY <1>2, <3>3, <3>4 DEF AloneFit, Opening, About, Scanning
    <3> QED
      BY <3>3, <3>5 DEF AloneMove
  <2> QED
    BY <2>3, <2>4
<1>6. CASE f.pc = "read_persistent"
  <2>1. ReadPersistent(u) /\ InTiers(h.map, k) /\ k \notin DOMAIN transient
    BY <1>6, StepAt DEF AloneFit, Opening
  <2>2. persistent' = persistent /\ transient' = transient /\ RowIs(h.map, k)
    BY <2>1, TiersHold DEF ReadPersistent, OnlyReads
  <2>3. CASE Get(persistent, k, None) = None
    <3>1. frame'[u] = Idle /\ reply'[u] = None
      BY <1>1, <2>1, <2>3 DEF ReadPersistent, Return, Selected
    <3>2. k \notin DOMAIN persistent
      BY <2>3, NoneAssumption DEF Get, TypeOK, IsMap
    <3>3. Answer(u, k) = None /\ Look(h.map, k, None) = None
      BY <1>6, <2>2, <3>1, <3>2 DEF Answer, Look, RowIs
    <3>4. InTiers(t.map, k)'
      BY <1>4, <2>1, <2>2, TiersSame, SameTrans DEF InTiers
    <3> QED
      BY <1>4, <3>1, <3>3, <3>4 DEF AloneMove
  <2>4. CASE Get(persistent, k, None) # None
    <3>1. frame'[u] = Frame("promote", k, Get(persistent, k, None), f.ttl, FALSE)
      BY <1>1, <2>1, <2>4 DEF ReadPersistent, GotoWith, Selected
    <3>2. frame'[u].pc = "promote" /\ frame'[u] # Idle /\ frame'[u].value = Get(persistent, k, None)
      BY <3>1 DEF Frame, Idle
    <3>3. HasRow(frame[u], k)'
      BY <2>2, <2>4, <3>2 DEF HasRow, Get
    <3>4. InTiers(h.map, k)' /\ k \notin DOMAIN transient'
      BY <2>1, <2>2 DEF InTiers, InRows
    <3>5. AloneFit(h, frame[u], k, h.answer[u])'
      BY <1>2, <3>2, <3>3, <3>4 DEF AloneFit, Opening, About, Scanning
    <3> QED
      BY <3>2, <3>5 DEF AloneMove
  <2> QED
    BY <2>3, <2>4
<1>7. CASE f.pc = "promote"
  <2>1. Promote(u) /\ InTiers(h.map, k) /\ HasRow(f, k)
    BY <1>7, StepAt DEF AloneFit, Opening
  <2>2. /\ persistent' = persistent /\ transient' = At(Put(transient, k, f.value), now)
        /\ frame'[u] = Frame("stamp", k, f.value, f.ttl, f.hit)
    BY <1>1, <2>1 DEF Promote, Transient, Goto, GotoWith
  <2>3. /\ frame'[u].pc = "stamp" /\ frame'[u].key = k /\ frame'[u].value = f.value
        /\ frame'[u] # Idle
    BY <2>2 DEF Frame, Idle
  <2>4. k \in DOMAIN transient' => transient'[k].value = f.value
    <3>1. Put(transient, k, f.value)[k] = [value |-> f.value, deadline |-> Never]
      BY CellPut
    <3> QED
      BY <2>2, <3>1, CellAt
  <2>5. RowIs(h.map, k)' /\ HasRow(frame[u], k)' /\ f.value = persistent'[k]
    BY <2>1, <2>2, <2>3, TiersHold DEF HasRow, RowIs
  <2>6. AloneFit(h, frame[u], k, h.answer[u])'
    BY <1>2, <2>3, <2>4, <2>5 DEF AloneFit, Opening, About, Scanning
  <2> QED
    BY <2>3, <2>6 DEF AloneMove
<1>8. CASE f.pc = "stamp"
  <2>1. /\ Stamp(u) /\ RowIs(h.map, k) /\ HasRow(f, k)
        /\ k \in DOMAIN transient => transient[k].value = persistent[k]
    BY <1>8, StepAt DEF AloneFit, Opening
  <2>2. /\ persistent' = persistent /\ frame'[u] = Idle /\ reply'[u] = f.value
        /\ transient' = At(SetDeadline(transient, k, now + CachePromotion), now)
    BY <1>1, <2>1 DEF Stamp, Transient, Return
  <2>3. now + CachePromotion # Never
    BY <1>1, NeverAssumption, CachePromotionAssumption
  <2>4. k \in DOMAIN transient' =>
          k \in DOMAIN transient /\ transient'[k] = [value |-> transient[k].value, deadline |-> now + CachePromotion]
    BY <2>2, CellDeadline, CellAt
  <2>5. k \in DOMAIN transient' =>
          /\ k \in DOMAIN persistent' /\ transient'[k].value = persistent'[k]
          /\ transient'[k].deadline # Never
    BY <2>1, <2>2, <2>3, <2>4 DEF HasRow
  <2>6. RowIs(t.map, k)'
    BY <1>4, <2>1, <2>2, RowKept, SameTrans
  <2>7. InTiers(t.map, k)'
    BY <2>5, <2>6 DEF InTiers, InRows, RowIs
  <2>8. Answer(u, k) = Look(h.map, k, None)
    BY <1>8, <2>1, <2>2 DEF Answer, Look, HasRow, RowIs
  <2> QED
    BY <1>4, <2>2, <2>7, <2>8 DEF AloneMove
<1> QED
  BY <1>5, <1>6, <1>7, <1>8

\* Writes and deletes take effect with the statement on the row.
LEMMA AloneUpdate ==
    ASSUME TypeOK, Follows, ~FaultyDisk, NEW u \in Worker, Step(u), NEW k \in Key,
           NEW h \in possible[k], AloneFit(h, frame[u], k, h.answer[u]), About(frame[u], k),
           frame[u].pc \in UpdateSteps
    PROVE  \E g \in possible[k] : AloneMove(g, h, u, k)
<1> DEFINE f == frame[u]
           p == pending[u]
           Goal == \E g \in possible[k] : AloneMove(g, h, u, k)
<1>1. /\ f.key = k /\ SameCall(f, p) /\ u \in DOMAIN frame /\ u \in DOMAIN reply /\ f.pc \in OnKey
  BY DEF About, Scanning, Follows, TypeOK, OnKey, UpdateSteps
<1> SUFFICES Goal
  OBVIOUS
<1>2. CASE f.pc = "write_persistent"
  <2>1. WritePersistent(u) /\ p.pc = "write_persistent" /\ p.value = f.value
    BY <1>1, <1>2, StepAt DEF SameCall
  <2>2. InTiers(h.map, k) /\ h.answer[u] = Open
    BY <1>2 DEF AloneFit, Opening
  <2>3. PICK g \in possible[k] : Effect(h, g, p, u, k, h.map)
    BY <1>1, <2>2, TakeHeld
  <2>4. /\ \A x \in Worker \ {u} : g.answer[x] = h.answer[x]
        /\ k \in DOMAIN g.map /\ g.map[k] = [value |-> f.value, deadline |-> Never]
        /\ g.answer[u] = <<None>>
    BY <2>1, <2>3 DEF Effect
  <2>5. persistent' = Insert(persistent, k, f.value)
        /\ frame'[u] = Frame("invalidate", k, f.value, f.ttl, f.hit)
    BY <1>1, <2>1 DEF WritePersistent, Persistent, Goto, GotoWith
  <2>6. k \in DOMAIN persistent' /\ persistent'[k] = f.value
    BY <2>5, CellInsert
  <2>7. frame'[u].pc = "invalidate" /\ frame'[u].key = k /\ frame'[u] # Idle
    BY <2>5 DEF Frame, Idle
  <2>8. RowIs(g.map, k)'
    BY <2>4, <2>6 DEF RowIs
  <2>9. AloneFit(g, frame[u], k, g.answer[u])'
    BY <2>4, <2>7, <2>8 DEF AloneFit, Opening, About, Scanning
  <2> QED
    BY <2>4, <2>7, <2>9 DEF AloneMove
<1>3. CASE f.pc = "invalidate"
  <2>1. Invalidate(u) /\ RowIs(h.map, k) /\ h.answer[u] = <<None>>
    BY <1>3, StepAt DEF AloneFit, Opening
  <2>2. /\ frame'[u] = Idle /\ reply'[u] = None /\ persistent' = persistent
        /\ transient' = At(Remove(transient, k), now)
    BY <1>1, <2>1 DEF Invalidate, Transient, Return
  <2>3. k \notin DOMAIN transient'
    BY <2>2, CellRemove, CellAt
  <2>4. InTiers(h.map, k)'
    BY <2>1, <2>2, <2>3 DEF RowIs, InTiers, InRows
  <2>5. Answer(u, k) = None
    BY <1>3, <2>2 DEF Answer
  <2> QED
    BY <2>1, <2>2, <2>4, <2>5 DEF AloneMove
<1>4. CASE f.pc = "delete_transient"
  <2>1. DeleteTransient(u) /\ InTiers(h.map, k) /\ h.answer[u] = Open
    BY <1>4, StepAt DEF AloneFit, Opening
  <2>2. /\ persistent' = persistent /\ frame'[u] = Frame("delete_persistent", k, f.value, f.ttl, f.hit)
        /\ transient' = At(Remove(transient, k), now)
    BY <1>1, <2>1 DEF DeleteTransient, Transient, Goto, GotoWith
  <2>3. frame'[u].pc = "delete_persistent" /\ frame'[u].key = k /\ frame'[u] # Idle
    BY <2>2 DEF Frame, Idle
  <2>4. k \notin DOMAIN transient'
    BY <2>2, CellRemove, CellAt
  <2>5. InRows(h.map, k)'
    BY <2>1, <2>2 DEF InTiers, InRows
  <2>6. AloneFit(h, frame[u], k, h.answer[u])'
    BY <2>1, <2>3, <2>4, <2>5 DEF AloneFit, Opening, About, Scanning
  <2> QED
    BY <2>3, <2>6 DEF AloneMove
<1>5. CASE f.pc = "delete_persistent"
  <2>1. /\ DeletePersistent(u) /\ p.pc = "delete_transient"
        /\ k \notin DOMAIN transient /\ h.answer[u] = Open
    BY <1>1, <1>5, StepAt DEF SameCall, AloneFit, Opening
  <2>2. PICK g \in possible[k] : Updated(h, g, p, u, k)
    BY <1>1, <2>1, TakeUpdate
  <2>3. /\ \A x \in Worker \ {u} : g.answer[x] = h.answer[x]
        /\ g.answer[u] = <<None>> /\ k \notin DOMAIN g.map
    BY <2>1, <2>2 DEF Updated
  <2>4. /\ persistent' = Remove(persistent, k) /\ transient' = transient
        /\ frame'[u] = Idle /\ reply'[u] = None
    BY <1>1, <2>1 DEF DeletePersistent, Persistent, Return
  <2>5. k \notin DOMAIN persistent'
    BY <2>4, CellRemove
  <2>6. InTiers(g.map, k)'
    BY <2>1, <2>3, <2>4, <2>5 DEF InTiers, InRows
  <2>7. Answer(u, k) = None
    BY <1>5, <2>4 DEF Answer
  <2> QED
    BY <2>3, <2>4, <2>6, <2>7 DEF AloneMove
<1> QED
  BY <1>2, <1>3, <1>4, <1>5 DEF UpdateSteps

\* A claim takes effect on the tier that holds the value: on the transient one if that is
\* not a copy of a row, and else on the row.
LEMMA AloneClaim ==
    ASSUME TypeOK, Follows, ~FaultyDisk, NEW u \in Worker, Step(u), NEW k \in Key,
           NEW h \in possible[k], AloneFit(h, frame[u], k, h.answer[u]), About(frame[u], k),
           frame[u].pc \in {"match_transient", "match_persistent"}
    PROVE  \E g \in possible[k] : AloneMove(g, h, u, k)
<1> DEFINE f == frame[u]
           p == pending[u]
           Goal == \E g \in possible[k] : AloneMove(g, h, u, k)
<1>1. /\ f.key = k /\ SameCall(f, p) /\ u \in DOMAIN frame /\ u \in DOMAIN reply /\ f.pc \in OnKey
      /\ p.pc = "match_transient" /\ p.value = f.value /\ f.value # None
  BY NoneAssumption DEF About, Scanning, Follows, TypeOK, OnKey, SameCall, FrameOK, WithValue
<1> SUFFICES Goal
  OBVIOUS
<1>2. CASE f.pc = "match_transient"
  <2> DEFINE m == Holds(transient, k, f.value)
  <2>1. MatchTransient(u) /\ InTiers(h.map, k) /\ h.answer[u] = Open
    BY <1>2, StepAt DEF AloneFit, Opening
  <2>2. /\ persistent' = persistent /\ frame'[u] = Frame("match_persistent", k, f.value, f.ttl, m)
        /\ transient' = At(IF m THEN Remove(transient, k) ELSE transient, now)
    BY <1>1, <2>1 DEF MatchTransient, Transient, GotoWith
  <2>3. /\ frame'[u].pc = "match_persistent" /\ frame'[u].key = k /\ frame'[u].value = f.value
        /\ frame'[u].hit = m /\ frame'[u] # Idle
    BY <2>2 DEF Frame, Idle
  <2>4. CASE ~m
    <3>1. Same(transient', transient, k)
      BY <2>2, <2>4, FreshAt, SameTrans DEF Follows
    <3>2. InTiers(h.map, k)'
      <4>1. InRows(h.map, k) /\ Same(h.map, h.map, k) /\ Same(persistent', persistent, k)
        BY <2>1, <2>2, SameTrans DEF InTiers
      <4> QED
        BY <2>1, <3>1, <4>1, TiersSame
    <3>3. ~Holds(transient', k, f.value)
      BY <2>4, <3>1 DEF Holds, Same
    <3>4. AloneFit(h, frame[u], k, h.answer[u])'
      BY <2>1, <2>3, <2>4, <3>2, <3>3 DEF AloneFit, Opening, About, Scanning
    <3> QED
      BY <2>3, <3>4 DEF AloneMove
  <2>5. CASE m
    <3>1. k \notin DOMAIN transient'
      BY <2>2, <2>5, CellRemove, CellAt
    <3>2. k \in DOMAIN transient /\ transient[k].value = f.value /\ Look(h.map, k, None) = f.value
      BY <2>1, <2>5, TiersHold DEF Holds
    <3>3. CASE k \in DOMAIN persistent
      <4>1. RowIs(h.map, k)
        BY <2>1, <3>3, TiersHold
      <4>2. RowIs(h.map, k)' /\ HasRow(frame[u], k)'
        BY <2>2, <2>3, <3>2, <3>3, <4>1 DEF RowIs, HasRow, Look
      <4>3. AloneFit(h, frame[u], k, h.answer[u])'
        BY <2>1, <2>3, <2>5, <3>1, <4>2 DEF AloneFit, Opening, About, Scanning
      <4> QED
        BY <2>3, <4>3 DEF AloneMove
    <3>4. CASE k \notin DOMAIN persistent
      <4>1. PICK g \in possible[k] : Effect(h, g, p, u, k, h.map)
        BY <1>1, <2>1, TakeHeld
      <4>2. Holds(h.map, k, f.value)
        BY <1>1, <3>2 DEF Holds, Look
      <4>3. /\ \A x \in Worker \ {u} : g.answer[x] = h.answer[x]
            /\ k \notin DOMAIN g.map /\ g.answer[u] = <<TRUE>>
        BY <1>1, <4>1, <4>2 DEF Effect
      <4>4. RowIs(g.map, k)' /\ k \notin DOMAIN persistent'
        BY <2>2, <3>4, <4>3 DEF RowIs
      <4>5. AloneFit(g, frame[u], k, g.answer[u])'
        BY <2>3, <2>5, <3>1, <4>3, <4>4 DEF AloneFit, Opening, About, Scanning
      <4> QED
        BY <2>3, <4>3, <4>5 DEF AloneMove
    <3> QED
      BY <3>3, <3>4
  <2> QED
    BY <2>4, <2>5
<1>3. CASE f.pc = "match_persistent"
  <2> DEFINE m == Get(persistent, k, None) = f.value
  <2>1. MatchPersistent(u)
    BY <1>3, StepAt
  <2>2. /\ persistent' = IF m THEN Remove(persistent, k) ELSE persistent
        /\ transient' = transient /\ frame'[u] = Idle /\ reply'[u] = (f.hit \/ m)
    BY <1>1, <2>1 DEF MatchPersistent, Selected, Persistent, Return
  <2>3. Answer(u, k) = (f.hit \/ m) /\ f.hit \in BOOLEAN
    BY <1>3, <2>2 DEF Answer, TypeOK, Frames
  <2>4. CASE f.hit
    <3>1. /\ k \notin DOMAIN transient /\ RowIs(h.map, k)
          /\ (HasRow(f, k) /\ h.answer[u] = Open) \/ (k \notin DOMAIN persistent /\ h.answer[u] = <<TRUE>>)
      BY <1>3, <2>4 DEF AloneFit, Opening
    <3>2. Answer(u, k) = TRUE
      BY <2>3, <2>4
    <3>3. CASE k \notin DOMAIN persistent /\ h.answer[u] = <<TRUE>>
      <4>1. ~m
        BY <1>1, <3>3 DEF Get
      <4>2. InTiers(h.map, k)'
        BY <2>2, <3>1, <4>1 DEF InTiers, InRows, RowIs
      <4> QED
        BY <2>2, <3>2, <3>3, <4>2 DEF AloneMove
    <3>4. CASE HasRow(f, k) /\ h.answer[u] = Open
      <4>1. m /\ Holds(h.map, k, f.value)
        BY <3>1, <3>4 DEF HasRow, Get, Holds, RowIs
      <4>2. PICK g \in possible[k] : Effect(h, g, p, u, k, h.map)
        BY <1>1, <3>1, <3>4, TakeHeld
      <4>3. /\ \A x \in Worker \ {u} : g.answer[x] = h.answer[x]
            /\ k \notin DOMAIN g.map /\ g.answer[u] = <<TRUE>>
        BY <1>1, <4>1, <4>2 DEF Effect
      <4>4. k \notin DOMAIN persistent'
        BY <2>2, <4>1, CellRemove
      <4>5. InTiers(g.map, k)'
        BY <2>2, <3>1, <4>3, <4>4 DEF InTiers, InRows
      <4> QED
        BY <2>2, <3>2, <4>3, <4>5 DEF AloneMove
    <3> QED
      BY <3>1, <3>3, <3>4
  <2>5. CASE ~f.hit
    <3>1. InTiers(h.map, k) /\ ~Holds(transient, k, f.value) /\ h.answer[u] = Open
      BY <1>3, <2>5 DEF AloneFit, Opening
    <3>2. PICK g \in possible[k] : Effect(h, g, p, u, k, h.map)
      BY <1>1, <3>1, TakeHeld
    <3>3. Holds(h.map, k, f.value) <=> m
      BY <1>1, <3>1 DEF InTiers, InRows, Holds, Get
    <3>4. Answer(u, k) = m
      BY <2>3, <2>5
    <3>5. CASE m
      <4>1. /\ \A x \in Worker \ {u} : g.answer[x] = h.answer[x]
            /\ k \notin DOMAIN g.map /\ g.answer[u] = <<TRUE>>
        BY <1>1, <3>2, <3>3, <3>5 DEF Effect
      <4>2. k \notin DOMAIN persistent' /\ Answer(u, k) = TRUE
        BY <2>2, <3>4, <3>5, CellRemove
      <4>3. k \notin DOMAIN transient
        BY <1>1, <3>1, <3>3, <3>5 DEF InTiers, Holds
      <4>4. InTiers(g.map, k)'
        BY <2>2, <4>1, <4>2, <4>3 DEF InTiers, InRows
      <4> QED
        BY <2>2, <4>1, <4>2, <4>4 DEF AloneMove
    <3>6. CASE ~m
      <4>1. /\ \A x \in Worker \ {u} : g.answer[x] = h.answer[x]
            /\ Same(g.map, h.map, k) /\ g.answer[u] = <<FALSE>>
        BY <1>1, <3>2, <3>3, <3>6 DEF Effect
      <4>2. persistent' = persistent /\ Answer(u, k) = FALSE
        BY <2>2, <3>4, <3>6
      <4>3. InTiers(g.map, k)'
        BY <2>2, <3>1, <4>1, <4>2, TiersSame, SameTrans DEF InTiers
      <4> QED
        BY <2>2, <4>1, <4>2, <4>3 DEF AloneMove
    <3> QED
      BY <3>5, <3>6
  <2> QED
    BY <2>3, <2>4, <2>5
<1> QED
  BY <1>2, <1>3

\* A lifetime is given when the transient tier has the value.
LEMMA AloneTimed ==
    ASSUME TypeOK, Follows, ~FaultyDisk, NEW u \in Worker, Step(u), NEW k \in Key,
           NEW h \in possible[k], AloneFit(h, frame[u], k, h.answer[u]), About(frame[u], k),
           frame[u].pc \in {"ttl_read", "ttl_delete", "ttl_move", "ttl_set", "timed_clear", "timed_write"}
    PROVE  \E g \in possible[k] : AloneMove(g, h, u, k)
<1> DEFINE f == frame[u]
           p == pending[u]
           Goal == \E g \in possible[k] : AloneMove(g, h, u, k)
<1>1. /\ f.key = k /\ SameCall(f, p) /\ u \in DOMAIN frame /\ u \in DOMAIN reply /\ f.pc \in OnKey
      /\ now \in Nat /\ f.ttl \in Nat /\ p.ttl = f.ttl
  BY DEF About, Scanning, Follows, TypeOK, OnKey, FrameOK, WithTtl, SameCall
<1>2. h.answer[u] = Open
  BY DEF AloneFit, Opening
<1>3. now + f.ttl # Never
  BY <1>1, NeverAssumption
<1> SUFFICES Goal
  OBVIOUS
<1>4. CASE f.pc = "ttl_read"
  <2>1. TtlRead(u) /\ InTiers(h.map, k)
    BY <1>4, StepAt DEF AloneFit, Opening
  <2>2. persistent' = persistent /\ transient' = transient
    BY <2>1 DEF TtlRead, OnlyReads
  <2>3. CASE Get(persistent, k, None) = None
    <3>1. frame'[u] = Frame("ttl_set", k, f.value, f.ttl, f.hit)
      BY <1>1, <2>1, <2>3 DEF TtlRead, Goto, GotoWith, Selected
    <3>2. frame'[u].pc = "ttl_set" /\ frame'[u].key = k /\ frame'[u] # Idle
      BY <3>1 DEF Frame, Idle
    <3>3. k \notin DOMAIN persistent
      BY <2>3, NoneAssumption DEF Get, TypeOK, IsMap
    <3>4. k \notin DOMAIN persistent' /\ Same(h.map, transient', k)
      BY <2>1, <2>2, <3>3, TiersHold
    <3>5. AloneFit(h, frame[u], k, h.answer[u])'
      BY <1>2, <3>2, <3>4 DEF AloneFit, Opening, About, Scanning
    <3> QED
      BY <3>2, <3>5 DEF AloneMove
  <2>4. CASE Get(persistent, k, None) # None
    <3>1. frame'[u] = Frame("ttl_delete", k, Get(persistent, k, None), f.ttl, FALSE)
      BY <1>1, <2>1, <2>4 DEF TtlRead, GotoWith, Selected
    <3>2. /\ frame'[u].pc = "ttl_delete" /\ frame'[u].key = k /\ frame'[u] # Idle
          /\ frame'[u].value = Get(persistent, k, None)
      BY <3>1 DEF Frame, Idle
    <3>3. HasRow(frame[u], k)'
      BY <2>2, <2>4, <3>2 DEF HasRow, Get
    <3>4. InTiers(h.map, k)'
      BY <2>1, <2>2 DEF InTiers, InRows
    <3>5. AloneFit(h, frame[u], k, h.answer[u])'
      BY <1>2, <3>2, <3>3, <3>4 DEF AloneFit, Opening, About, Scanning
    <3> QED
      BY <3>2, <3>5 DEF AloneMove
  <2> QED
    BY <2>3, <2>4
<1>5. CASE f.pc = "ttl_delete"
  <2>1. TtlDelete(u) /\ InTiers(h.map, k) /\ HasRow(f, k)
    BY <1>5, StepAt DEF AloneFit, Opening
  <2>2. /\ persistent' = Remove(persistent, k)
        /\ frame'[u] = Frame("ttl_move", k, f.value, f.ttl, f.hit)
    BY <1>1, <2>1 DEF TtlDelete, Persistent, Goto, GotoWith
  <2>3. /\ frame'[u].pc = "ttl_move" /\ frame'[u].key = k /\ frame'[u].value = f.value
        /\ frame'[u] # Idle
    BY <2>2 DEF Frame, Idle
  <2>4. k \notin DOMAIN persistent'
    BY <2>2, CellRemove
  <2>5. k \in DOMAIN h.map /\ h.map[k] = [value |-> f.value, deadline |-> Never]
    BY <2>1 DEF InTiers, InRows, HasRow
  <2>6. AloneFit(h, frame[u], k, h.answer[u])'
    BY <1>2, <2>3, <2>4, <2>5 DEF AloneFit, Opening, About, Scanning
  <2> QED
    BY <2>3, <2>6 DEF AloneMove
<1>6. CASE f.pc = "ttl_move"
  <2>1. /\ TtlMove(u) /\ k \notin DOMAIN persistent
        /\ k \in DOMAIN h.map /\ h.map[k] = [value |-> f.value, deadline |-> Never]
    BY <1>6, StepAt DEF AloneFit, Opening
  <2>2. /\ persistent' = persistent /\ transient' = At(Put(transient, k, f.value), now)
        /\ frame'[u] = Frame("ttl_set", k, f.value, f.ttl, f.hit)
    BY <1>1, <2>1 DEF TtlMove, Transient, Goto, GotoWith
  <2>3. frame'[u].pc = "ttl_set" /\ frame'[u].key = k /\ frame'[u] # Idle
    BY <2>2 DEF Frame, Idle
  <2>4. /\ k \in DOMAIN Put(transient, k, f.value)
        /\ Put(transient, k, f.value)[k] = [value |-> f.value, deadline |-> Never]
        /\ Alive([value |-> f.value, deadline |-> Never], now)
    BY CellPut DEF Alive
  <2>5. k \in DOMAIN transient' /\ transient'[k] = [value |-> f.value, deadline |-> Never]
    BY <2>2, <2>4, CellAt
  <2>6. Same(h.map, transient', k) /\ k \notin DOMAIN persistent'
    BY <2>1, <2>2, <2>5 DEF Same
  <2>7. AloneFit(h, frame[u], k, h.answer[u])'
    BY <1>2, <2>3, <2>6 DEF AloneFit, Opening, About, Scanning
  <2> QED
    BY <2>3, <2>7 DEF AloneMove
<1>7. CASE f.pc = "ttl_set"
  <2> DEFINE d == now + f.ttl
  <2>1. /\ TtlSet(u) /\ k \notin DOMAIN persistent /\ Same(h.map, transient, k) /\ p.pc = "ttl_read"
    BY <1>1, <1>7, StepAt DEF AloneFit, Opening, SameCall
  <2>2. PICK g \in possible[k] : Updated(h, g, p, u, k)
    BY <1>1, <1>2, <2>1, TakeUpdate
  <2>3. /\ \A x \in Worker \ {u} : g.answer[x] = h.answer[x]
        /\ g.answer[u] = <<None>> /\ g.map = At(SetDeadline(h.map, k, d), now)
    BY <1>1, <2>1, <2>2 DEF Updated
  <2>4. /\ persistent' = persistent /\ frame'[u] = Idle /\ reply'[u] = None
        /\ transient' = At(SetDeadline(transient, k, d), now)
    BY <1>1, <2>1 DEF TtlSet, Transient, Return
  <2>5. Same(SetDeadline(h.map, k, d), SetDeadline(transient, k, d), k)
    BY <2>1, SameOps
  <2>6. Same(g.map, transient', k)
    BY <2>3, <2>4, <2>5, SameAt
  <2>7. k \in DOMAIN transient' => transient'[k].deadline # Never
    <3>1. ASSUME k \in DOMAIN SetDeadline(transient, k, d)
          PROVE  SetDeadline(transient, k, d)[k].deadline = d
      <4>1. k \in DOMAIN transient
        BY <3>1, CellDeadline
      <4>2. SetDeadline(transient, k, d)[k] = [value |-> transient[k].value, deadline |-> d]
        BY <4>1, CellDeadline
      <4> QED
        BY <4>2
    <3> QED
      BY <1>3, <2>4, <3>1, CellAt
  <2>8. InTiers(g.map, k)'
    BY <2>1, <2>4, <2>6, <2>7 DEF InTiers, InRows, Same
  <2>9. Answer(u, k) = None
    BY <1>7, <2>4 DEF Answer
  <2> QED
    BY <2>3, <2>4, <2>8, <2>9 DEF AloneMove
<1>8. CASE f.pc = "timed_clear"
  <2>1. TimedClear(u)
    BY <1>8, StepAt
  <2>2. /\ persistent' = Remove(persistent, k)
        /\ frame'[u] = Frame("timed_write", k, f.value, f.ttl, f.hit)
    BY <1>1, <2>1 DEF TimedClear, Persistent, Goto, GotoWith
  <2>3. frame'[u].pc = "timed_write" /\ frame'[u].key = k /\ frame'[u] # Idle
    BY <2>2 DEF Frame, Idle
  <2>4. k \notin DOMAIN persistent'
    BY <2>2, CellRemove
  <2>5. AloneFit(h, frame[u], k, h.answer[u])'
    BY <1>2, <2>3, <2>4 DEF AloneFit, Opening, About, Scanning
  <2> QED
    BY <2>3, <2>5 DEF AloneMove
<1>9. CASE f.pc = "timed_write"
  <2> DEFINE d == now + f.ttl
  <2>1. TimedWrite(u) /\ k \notin DOMAIN persistent /\ p.pc = "timed_clear" /\ p.value = f.value
    BY <1>1, <1>9, StepAt DEF AloneFit, Opening, SameCall
  <2>2. PICK g \in possible[k] : Updated(h, g, p, u, k)
    BY <1>1, <1>2, <2>1, TakeUpdate
  <2>3. /\ \A x \in Worker \ {u} : g.answer[x] = h.answer[x]
        /\ g.answer[u] = <<None>> /\ g.map = At(PutUntil(h.map, k, f.value, d), now)
    BY <1>1, <2>1, <2>2 DEF Updated
  <2>4. /\ persistent' = persistent /\ frame'[u] = Idle /\ reply'[u] = None
        /\ transient' = At(PutUntil(transient, k, f.value, d), now)
    BY <1>1, <2>1 DEF TimedWrite, Transient, Return
  <2>5. \A m : /\ k \in DOMAIN PutUntil(m, k, f.value, d)
               /\ PutUntil(m, k, f.value, d)[k] = [value |-> f.value, deadline |-> d]
    BY CellInsert DEF PutUntil
  <2>6. Same(PutUntil(h.map, k, f.value, d), PutUntil(transient, k, f.value, d), k)
    BY <2>5 DEF Same
  <2>7. Same(g.map, transient', k)
    BY <2>3, <2>4, <2>6, SameAt
  <2>8. k \in DOMAIN transient' => transient'[k].deadline # Never
    <3>1. PutUntil(transient, k, f.value, d)[k].deadline = d
      BY <2>5
    <3> QED
      BY <1>3, <2>4, <3>1, CellAt
  <2>9. InTiers(g.map, k)'
    BY <2>1, <2>4, <2>7, <2>8 DEF InTiers, InRows, Same
  <2>10. Answer(u, k) = None
    BY <1>9, <2>4 DEF Answer
  <2> QED
    BY <2>3, <2>4, <2>9, <2>10 DEF AloneMove
<1> QED
  BY <1>4, <1>5, <1>6, <1>7, <1>8, <1>9

\* A scan takes effect, of each key, in the first tier that has it.
LEMMA AloneFind ==
    ASSUME TypeOK, Follows, ~FaultyDisk, NEW u \in Worker, Step(u), NEW k \in Key,
           NEW h \in possible[k], AloneFit(h, frame[u], k, h.answer[u]), About(frame[u], k),
           frame[u].pc \in Scanning
    PROVE  \E g \in possible[k] : AloneMove(g, h, u, k)
<1> DEFINE f == frame[u]
           p == pending[u]
           Goal == \E g \in possible[k] : AloneMove(g, h, u, k)
<1>1. k \in f.key /\ SameCall(f, p) /\ u \in DOMAIN frame /\ u \in DOMAIN reply
      /\ p.pc = "find_transient" /\ InTiers(h.map, k)
  BY DEF About, Follows, TypeOK, Scanning, SameCall, AloneFit, Opening
<1>2. ASSUME h.answer[u] = Open
      PROVE  \E t \in possible[k] :
               /\ \A x \in Worker \ {u} : t.answer[x] = h.answer[x]
               /\ Same(t.map, h.map, k) /\ t.answer[u] = <<Look(h.map, k, None)>>
  <2>1. PICK t \in possible[k] : Effect(h, t, p, u, k, h.map)
    BY <1>1, <1>2, TakeHeld
  <2> QED
    BY <1>1, <2>1 DEF Effect
<1>3. ASSUME NEW m, Same(m, h.map, k), persistent' = persistent, transient' = transient
      PROVE  InTiers(m, k)'
  BY <1>1, <1>3, TiersSame, SameTrans DEF InTiers
<1> SUFFICES Goal
  OBVIOUS
<1>4. CASE f.pc = "find_transient"
  <2>1. FindTransient(u) /\ h.answer[u] = Open
    BY <1>4, StepAt DEF AloneFit, Opening
  <2>2. /\ persistent' = persistent /\ transient' = transient
        /\ frame'[u] = Frame("find_persistent", f.key, Values(transient, f.key), f.ttl, FALSE)
    BY <1>1, <2>1 DEF FindTransient, OnlyReads, GotoWith
  <2>3. /\ frame'[u].pc = "find_persistent" /\ frame'[u].key = f.key /\ frame'[u] # Idle
        /\ k \in DOMAIN frame'[u].value <=> k \in DOMAIN transient
        /\ k \in DOMAIN transient => frame'[u].value[k] = transient[k].value
    BY <1>1, <2>2 DEF Frame, Idle, Values
  <2>4. CASE k \in DOMAIN transient
    <3>1. PICK t \in possible[k] :
            /\ \A x \in Worker \ {u} : t.answer[x] = h.answer[x]
            /\ Same(t.map, h.map, k) /\ t.answer[u] = <<Look(h.map, k, None)>>
      BY <1>2, <2>1
    <3>2. t.answer[u] = <<frame'[u].value[k]>>
      BY <1>1, <2>3, <2>4, <3>1, TiersHold
    <3>3. InTiers(t.map, k)'
      BY <1>3, <2>2, <3>1
    <3>4. AloneFit(t, frame[u], k, t.answer[u])'
      BY <1>1, <2>3, <2>4, <3>2, <3>3 DEF AloneFit, Opening, About, Scanning
    <3> QED
      BY <2>3, <3>1, <3>4 DEF AloneMove
  <2>5. CASE k \notin DOMAIN transient
    <3>1. InTiers(h.map, k)' /\ k \notin DOMAIN transient'
      BY <1>3, <2>2, <2>5, SameTrans
    <3>2. AloneFit(h, frame[u], k, h.answer[u])'
      BY <1>1, <2>1, <2>3, <2>5, <3>1 DEF AloneFit, Opening, About, Scanning
    <3> QED
      BY <2>3, <3>2 DEF AloneMove
  <2> QED
    BY <2>4, <2>5
<1>5. CASE f.pc = "find_persistent"
  <2> DEFINE found == Keep(persistent, f.key)
  <2>1. /\ FindPersistent(u)
        /\ \/ k \in DOMAIN f.value /\ h.answer[u] = <<f.value[k]>>
           \/ k \notin DOMAIN f.value /\ k \notin DOMAIN transient /\ h.answer[u] = Open
    BY <1>5, StepAt DEF AloneFit, Opening
  <2>2. /\ persistent' = persistent /\ transient' = transient /\ frame'[u] = Idle
        /\ reply'[u] = [x \in DOMAIN found \cup DOMAIN f.value |-> Get(f.value, x, Get(found, x, None))]
    BY <1>1, <2>1 DEF FindPersistent, OnlyReads, Selected, Return
  <2>3. Get(found, k, None) = Get(persistent, k, None) /\ (k \in DOMAIN found <=> k \in DOMAIN persistent)
    BY <1>1 DEF Get, Keep
  <2> HIDE DEF found
  <2>4. Answer(u, k) = Get(f.value, k, Get(persistent, k, None))
    <3>1. Get(reply'[u], k, None) = Get(f.value, k, Get(persistent, k, None))
      BY <2>2, <2>3 DEF Get
    <3> QED
      BY <1>5, <3>1 DEF Answer
  <2>5. CASE k \in DOMAIN f.value
    <3>1. h.answer[u] = <<Answer(u, k)>>
      BY <2>1, <2>4, <2>5 DEF Get
    <3>2. InTiers(h.map, k)'
      BY <1>3, <2>2, SameTrans
    <3> QED
      BY <2>2, <3>1, <3>2 DEF AloneMove
  <2>6. CASE k \notin DOMAIN f.value
    <3>1. h.answer[u] = Open /\ k \notin DOMAIN transient /\ Answer(u, k) = Get(persistent, k, None)
      BY <2>1, <2>4, <2>6 DEF Get
    <3>2. PICK t \in possible[k] :
            /\ \A x \in Worker \ {u} : t.answer[x] = h.answer[x]
            /\ Same(t.map, h.map, k) /\ t.answer[u] = <<Look(h.map, k, None)>>
      BY <1>2, <3>1
    <3>3. RowIs(h.map, k)
      BY <1>1, <3>1, TiersHold
    <3>4. Look(h.map, k, None) = Get(persistent, k, None)
      BY <3>3 DEF RowIs, Look, Get
    <3>5. InTiers(t.map, k)'
      BY <1>3, <2>2, <3>2
    <3> QED
      BY <2>2, <3>1, <3>2, <3>4, <3>5 DEF AloneMove
  <2> QED
    BY <2>5, <2>6
<1> QED
  BY <1>4, <1>5 DEF Scanning

\* Every step of the thread about k does to the map what it does to the tiers.
LEMMA AloneAbout ==
    ASSUME TypeOK, Follows, ~FaultyDisk, NEW u \in Worker, Step(u), NEW k \in Key,
           NEW h \in possible[k], AloneFit(h, frame[u], k, h.answer[u]), About(frame[u], k),
           frame[u].pc # "remaining"
    PROVE  \E g \in possible[k] : AloneMove(g, h, u, k)
<1>1. frame[u].pc \in OnKey \cup Scanning
  BY StepAt
<1>2. \/ frame[u].pc \in {"read_transient", "read_persistent", "promote", "stamp"}
      \/ frame[u].pc \in UpdateSteps
      \/ frame[u].pc \in {"match_transient", "match_persistent"}
      \/ frame[u].pc \in {"ttl_read", "ttl_delete", "ttl_move", "ttl_set", "timed_clear", "timed_write"}
      \/ frame[u].pc \in Scanning
  BY <1>1 DEF OnKey, UpdateSteps
<1> QED
  BY <1>2, AloneRead, AloneUpdate, AloneClaim, AloneTimed, AloneFind

\* A step of the thread.
LEMMA AloneStep ==
    ASSUME TypeOK, Follows, ~FaultyDisk, workload.linear, NEW u \in Worker, AloneInv(u),
           NEW w \in Worker, Continue(w) \/ End(w)
    PROVE  AloneInv(u)'
<1> DEFINE f == frame[u]
<1>1. Step(w)
  BY DEF Continue, End
<1>2. frame[w].pc \in OnKey \cup Scanning
  BY <1>1, StepAt
<1>3. w = u
  BY <1>2 DEF AloneInv, OnKey, Scanning
<1>4. (\A x \in Worker \ {u} : frame'[x] = frame[x]) /\ Onward(f, frame'[u])
  BY <1>1, <1>3, StepMoves
<1>5. f.pc # "remaining" /\ frame'[u].pc # "remaining"
  BY <1>4 DEF AloneInv, Onward, Moves, Idle, Frame
<1>6. ASSUME NEW k \in Key \ Registry
      PROVE  \E e \in possible'[k] : /\ AloneFit(e, frame[u], k, e.answer[u])'
                                     /\ \A x \in Worker \ {u} : e.answer[x] = Open
  <2>1. PICK h \in possible[k] : /\ AloneFit(h, f, k, h.answer[u])
                                 /\ \A x \in Worker \ {u} : h.answer[x] = Open
    BY DEF AloneInv
  <2>2. k \in Key /\ ~About(Idle, k)
    BY IdleAbout
  <2>3. About(pending[u], k) <=> About(f, k)
    BY <1>2, <1>3, AboutSame DEF Follows
  <2>4. CASE About(f, k)
    <3>1. PICK g \in possible[k] : AloneMove(g, h, u, k)
      BY <1>1, <1>3, <1>5, <2>1, <2>2, <2>4, AloneAbout
    <3>2. /\ \A x \in Worker \ {u} : g.answer[x] = h.answer[x]
          /\ frame'[u] = Idle => InTiers(g.map, k)' /\ g.answer[u] = <<Answer(u, k)>>
          /\ frame'[u] # Idle => AloneFit(g, frame[u], k, g.answer[u])'
      BY <3>1 DEF AloneMove
    <3>3. (frame'[u] = Idle /\ About(pending[u], k)) =>
            g.answer[u] # Open /\ (sure[u] => g.answer[u] = <<Answer(u, k)>>)
      <4>1. \A a : <<a>> # Open
        BY DEF Open
      <4> QED
        BY <3>2, <4>1
    <3>4. PICK e \in possible'[k] :
            /\ e.map = g.map
            /\ \A x \in Worker \ {u} : e.answer[x] = g.answer[x]
            /\ e.answer[u] = IF frame'[u] = Idle /\ About(pending[u], k) THEN Open ELSE g.answer[u]
      BY <1>3, <2>2, <3>3, Carry
    <3>5. CASE frame'[u] = Idle
      <4>1. InTiers(e.map, k)' /\ e.answer[u] = Open
        BY <2>3, <2>4, <3>2, <3>4, <3>5 DEF InTiers, InRows
      <4>2. frame'[u].pc = "idle" /\ ~About(frame'[u], k)
        BY <2>2, <3>5 DEF Idle, Frame
      <4>3. AloneFit(e, frame[u], k, e.answer[u])'
        BY <4>1, <4>2 DEF AloneFit
      <4> QED
        BY <2>1, <3>2, <3>4, <4>3
    <3>6. CASE frame'[u] # Idle
      <4>1. e.answer[u] = g.answer[u]
        BY <3>4, <3>6
      <4>2. AloneFit(e, frame[u], k, e.answer[u])'
        BY ZenonT(60), <3>2, <3>4, <3>6, <4>1 DEF AloneFit, InTiers, InRows, RowIs, Same
      <4> QED
        BY <2>1, <3>2, <3>4, <4>2
    <3> QED
      BY <3>5, <3>6
  <2>5. CASE ~About(f, k)
    <3>1. InTiers(h.map, k) /\ h.answer[u] = Open
      BY <2>1, <2>5 DEF AloneFit
    <3>2. Same(transient', transient, k) /\ Same(persistent', persistent, k) /\ InRows(h.map, k)
      BY <1>1, <1>3, <2>5, <3>1, Elsewhere DEF Follows, InTiers
    <3>3. InTiers(h.map, k)'
      BY <3>1, <3>2, TiersSame, SameTrans
    <3>4. ~About(frame'[u], k)
      BY <1>4, <2>2, <2>5, AboutMoves
    <3>5. PICK e \in possible'[k] :
            /\ e.map = h.map
            /\ \A x \in Worker \ {u} : e.answer[x] = h.answer[x]
            /\ e.answer[u] = IF frame'[u] = Idle /\ About(pending[u], k) THEN Open ELSE h.answer[u]
      <4>1. ~(frame'[u] = Idle /\ About(pending[u], k))
        BY <2>3, <2>5
      <4> QED
        BY <1>3, <2>2, <4>1, Carry
    <3>6. InTiers(e.map, k)' /\ e.answer[u] = Open
      BY <3>1, <3>3, <3>5 DEF InTiers, InRows
    <3>7. AloneFit(e, frame[u], k, e.answer[u])'
      BY <3>4, <3>6 DEF AloneFit
    <3> QED
      BY <2>1, <3>5, <3>7
  <2> QED
    BY <2>4, <2>5
<1> QED
  BY <1>4, <1>5, <1>6 DEF AloneInv

\* Time passes over the map and over the tiers alike.
LEMMA AlonePass ==
    ASSUME Pass, NEW k, NEW m, NEW n, n = At(m, now')
    PROVE  /\ InRows(m, k) => InRows(n, k)'
           /\ InTiers(m, k) => InTiers(n, k)'
           /\ RowIs(m, k) => RowIs(n, k)'
           /\ Same(m, transient, k) => Same(n, transient', k)
           /\ k \in DOMAIN transient' => k \in DOMAIN transient /\ transient'[k] = transient[k]
           /\ k \in DOMAIN m /\ m[k].deadline = Never => k \in DOMAIN n /\ n[k] = m[k]
<1>1. transient' = At(transient, now') /\ persistent' = persistent
  BY DEF Pass, Tick
<1>2. /\ k \in DOMAIN n <=> k \in DOMAIN m /\ Alive(m[k], now')
      /\ k \in DOMAIN n => n[k] = m[k]
      /\ k \in DOMAIN transient' <=> k \in DOMAIN transient /\ Alive(transient[k], now')
      /\ k \in DOMAIN transient' => transient'[k] = transient[k]
  BY <1>1, CellAt
<1>3. k \in DOMAIN m /\ m[k].deadline = Never => k \in DOMAIN n /\ n[k] = m[k]
  BY <1>2 DEF Alive
<1>4. InRows(m, k) => InRows(n, k)'
  BY <1>1, <1>2, <1>3 DEF InRows
<1>5. InTiers(m, k) => InTiers(n, k)'
  BY <1>2, <1>3, <1>4 DEF InTiers
<1>6. RowIs(m, k) => RowIs(n, k)'
  BY <1>1, <1>2, <1>3 DEF RowIs
<1>7. Same(m, transient, k) => Same(n, transient', k)
  BY <1>2 DEF Same
<1> QED
  BY <1>2, <1>3, <1>4, <1>5, <1>6, <1>7

\* A restart keeps the rows: a call that had moved a value off them has taken effect, and
\* the value is lost with the transient tier as any timed value.
LEMMA AloneRestart ==
    ASSUME TypeOK, Follows, workload.linear, NEW u \in Worker, Restart, NEW k \in Key \ Registry,
           NEW h \in possible[k], AloneFit(h, frame[u], k, h.answer[u])
    PROVE  \E e \in possible'[k] : InTiers(e.map, k)' /\ \A w \in Worker : e.answer[w] = Open
<1> DEFINE f == frame[u]
           p == pending[u]
           Late == {"ttl_move", "ttl_set", "timed_write"}
<1>0. k \in Key
  OBVIOUS
<1>1. PICK g \in possible[k] : InRows(g.map, k)
  <2>1. CASE About(f, k) /\ f.pc \in Late
    <3>1. /\ h.answer[u] = Open /\ k \notin DOMAIN persistent /\ f.pc \in OnKey
          /\ SameCall(f, p) /\ f.ttl \in Nat /\ now \in Nat
      BY <2>1 DEF AloneFit, Opening, Follows, OnKey, TypeOK, FrameOK, WithTtl
    <3>2. p.ttl = f.ttl /\ p.pc \in {"ttl_read", "timed_clear"}
      BY <2>1, <3>1 DEF SameCall
    <3> DEFINE d == now + p.ttl
    <3>3. d # Never
      BY <3>1, <3>2, NeverAssumption
    <3>4. PICK g \in possible[k] : Updated(h, g, p, u, k)
      BY <1>0, <2>1, <3>1, <3>2, TakeUpdate
    <3>5. \/ g.map = At(SetDeadline(h.map, k, d), now)
          \/ g.map = At(PutUntil(h.map, k, p.value, d), now)
      BY <3>2, <3>4 DEF Updated
    <3> HIDE DEF d
    <3>6. ASSUME k \in DOMAIN SetDeadline(h.map, k, d)
          PROVE  SetDeadline(h.map, k, d)[k].deadline = d
      <4>1. k \in DOMAIN h.map
        BY <3>6, CellDeadline
      <4>2. SetDeadline(h.map, k, d)[k] = [value |-> h.map[k].value, deadline |-> d]
        BY <4>1, CellDeadline
      <4> QED
        BY <4>2
    <3>7. PutUntil(h.map, k, p.value, d)[k] = [value |-> p.value, deadline |-> d]
      BY CellInsert DEF PutUntil
    <3>8. PutUntil(h.map, k, p.value, d)[k].deadline = d
      BY <3>7
    <3>9. k \in DOMAIN g.map => g.map[k].deadline = d
      BY <3>5, <3>6, <3>8, CellAt
    <3> QED
      BY <3>1, <3>3, <3>9 DEF InRows
  <2>2. CASE ~About(f, k) \/ f.pc \notin Late
    <3>1. f.pc \in OnKey \cup Scanning \cup {"idle"}
      BY DEF TypeOK, Frames
    <3>2. InTiers(h.map, k) \/ RowIs(h.map, k) \/ InRows(h.map, k)
      BY <2>2, <3>1 DEF AloneFit, Opening, OnKey, Scanning
    <3>3. InRows(h.map, k)
      BY <3>2, RowsInTiers DEF InTiers
    <3> QED
      BY <3>3
  <2> QED
    BY <2>1, <2>2
<1>2. PICK e \in possible'[k] : /\ e.map = Keep(g.map, {x \in DOMAIN g.map : g.map[x].deadline = Never})
                                /\ \A w \in Worker : e.answer[w] = Open
  BY <1>0, CarryOver
<1>3. persistent' = persistent /\ transient' = RegistryEntries
  BY DEF Restart, Crash
<1>4. k \notin DOMAIN transient'
  BY <1>3 DEF RegistryEntries
<1>5. /\ k \in DOMAIN e.map <=> k \in DOMAIN g.map /\ g.map[k].deadline = Never
      /\ k \in DOMAIN e.map => e.map[k] = g.map[k]
  BY <1>2 DEF Keep
<1>6. InRows(e.map, k)'
  BY <1>1, <1>3, <1>5 DEF InRows
<1>7. InTiers(e.map, k)'
  BY <1>4, <1>5, <1>6 DEF InTiers
<1> QED
  BY <1>2, <1>7

\* The map is in the tiers, as far as the call in progress has come, after every step...
LEMMA AloneNext ==
    ASSUME TypeOK, Follows, ~FaultyDisk, workload.linear, NEW u \in Worker, Alone(workload, u),
           AloneInv(u), [HistoryNext]_allVars
    PROVE  AloneInv(u)'
<1>0. Idle.pc = "idle"
  BY DEF Idle, Frame
<1>1. ASSUME NEW w \in Worker, Begin(w) PROVE AloneInv(u)'
  <2>1. PICK f : /\ frame' = [frame EXCEPT ![w] = f]
                 /\ f.pc \in Opening \cap workload.methods[w]
                 /\ frame[w].pc = "idle" /\ OnlyReads
    BY <1>1, BeginFrame
  <2>2. w = u /\ f.pc \in AloneMethods
    BY <2>1 DEF Alone
  <2>3. frame'[u] = f /\ \A x \in Worker \ {u} : frame'[x] = frame[x]
    BY <2>1, <2>2 DEF TypeOK
  <2>4. ASSUME NEW k \in Key \ Registry
        PROVE  \E e \in possible'[k] : /\ AloneFit(e, frame[u], k, e.answer[u])'
                                       /\ \A x \in Worker \ {u} : e.answer[x] = Open
    <3>1. PICK h \in possible[k] : /\ AloneFit(h, frame[u], k, h.answer[u])
                                   /\ \A x \in Worker \ {u} : h.answer[x] = Open
      BY DEF AloneInv
    <3>2. h \in possible'[k]
      BY <1>1, CarryOver
    <3>3. InTiers(h.map, k) /\ h.answer[u] = Open
      BY <2>1, <2>2, <3>1 DEF AloneFit
    <3>4. InTiers(h.map, k)'
      BY <2>1, <3>3 DEF InTiers, InRows, OnlyReads
    <3>5. frame'[u].pc \in Opening
      BY <2>1, <2>3
    <3>6. AloneFit(h, frame[u], k, h.answer[u])'
      BY <3>3, <3>4, <3>5 DEF AloneFit, Opening
    <3> QED
      BY <3>1, <3>2, <3>6
  <2>5. frame'[u].pc # "remaining"
    BY <2>2, <2>3 DEF AloneMethods
  <2> QED
    BY <2>3, <2>4, <2>5 DEF AloneInv
<1>2. CASE Pass
  <2>1. frame' = frame /\ persistent' = persistent
    BY <1>2 DEF Pass, Tick
  <2>2. ASSUME NEW k \in Key \ Registry
        PROVE  \E e \in possible'[k] : /\ AloneFit(e, frame[u], k, e.answer[u])'
                                       /\ \A x \in Worker \ {u} : e.answer[x] = Open
    <3>1. PICK h \in possible[k] : /\ AloneFit(h, frame[u], k, h.answer[u])
                                   /\ \A x \in Worker \ {u} : h.answer[x] = Open
      BY DEF AloneInv
    <3>2. PICK e \in possible'[k] : e.map = At(h.map, now') /\ e.answer = h.answer
      BY <1>2, CarryOver
    <3>3. /\ InRows(h.map, k) => InRows(e.map, k)'
          /\ InTiers(h.map, k) => InTiers(e.map, k)'
          /\ RowIs(h.map, k) => RowIs(e.map, k)'
          /\ Same(h.map, transient, k) => Same(e.map, transient', k)
          /\ k \in DOMAIN transient' => k \in DOMAIN transient /\ transient'[k] = transient[k]
          /\ k \in DOMAIN h.map /\ h.map[k].deadline = Never => k \in DOMAIN e.map /\ e.map[k] = h.map[k]
      BY <1>2, <3>2, AlonePass
    <3>4. HasRow(frame[u], k) => HasRow(frame[u], k)'
      BY <2>1 DEF HasRow
    <3>5. ~Holds(transient, k, frame[u].value) => ~Holds(transient, k, frame[u].value)'
      BY <2>1, <3>3 DEF Holds
    <3>6. frame'[u] = frame[u] /\ (About(frame[u], k)' <=> About(frame[u], k))
      BY <2>1 DEF About
    <3>7. \A v : k \in DOMAIN h.map /\ h.map[k] = [value |-> v, deadline |-> Never] =>
                   k \in DOMAIN e.map /\ e.map[k] = [value |-> v, deadline |-> Never]
      BY <3>3
    <3>8. AloneFit(e, frame[u], k, h.answer[u])'
      BY ZenonT(60), <2>1, <3>1, <3>3, <3>4, <3>5, <3>6, <3>7 DEF AloneFit
    <3> QED
      BY <3>1, <3>2, <3>8
  <2> QED
    BY <2>1, <2>2 DEF AloneInv
<1>3. CASE Restart
  <2>1. \A w \in Worker : frame'[w] = Idle
    BY <1>3 DEF Restart, Crash
  <2>2. ASSUME NEW k \in Key \ Registry
        PROVE  \E e \in possible'[k] : /\ AloneFit(e, frame[u], k, e.answer[u])'
                                       /\ \A x \in Worker \ {u} : e.answer[x] = Open
    <3>1. PICK h \in possible[k] : AloneFit(h, frame[u], k, h.answer[u])
      BY DEF AloneInv
    <3>2. PICK e \in possible'[k] : InTiers(e.map, k)' /\ \A w \in Worker : e.answer[w] = Open
      BY <1>3, <3>1, AloneRestart
    <3>3. ~About(frame'[u], k)
      BY <2>1, IdleAbout
    <3>4. AloneFit(e, frame[u], k, e.answer[u])'
      BY <3>2, <3>3 DEF AloneFit
    <3> QED
      BY <3>2, <3>4
  <2> QED
    BY <1>0, <2>1, <2>2 DEF AloneInv
<1>4. CASE UNCHANGED allVars
  <2>1. /\ frame' = frame /\ persistent' = persistent /\ transient' = transient
        /\ possible' = possible
    BY <1>4 DEF allVars, vars, historyVars
  <2>2. ASSUME NEW k, NEW h
        PROVE  AloneFit(h, frame[u], k, h.answer[u]) => AloneFit(h, frame[u], k, h.answer[u])'
    BY ZenonT(60), <2>1 DEF AloneFit, About, InTiers, InRows, RowIs, HasRow
  <2> QED
    BY <2>1, <2>2 DEF AloneInv
<1> QED
  BY <1>1, <1>2, <1>3, <1>4, AloneStep DEF HistoryNext

\* ... and at first.
LEMMA AloneInit ==
    ASSUME HistoryInit, NEW u \in Worker
    PROVE  AloneInv(u)
<1>1. /\ \A w \in Worker : frame[w] = Idle
      /\ DOMAIN transient = Registry
      /\ \A k \in Key : \E h \in possible[k] : RowFit(h, k)
  BY RowInit
<1>2. Idle.pc = "idle"
  BY DEF Idle, Frame
<1>3. ASSUME NEW k \in Key \ Registry
      PROVE  \E h \in possible[k] : /\ AloneFit(h, frame[u], k, h.answer[u])
                                    /\ \A w \in Worker \ {u} : h.answer[w] = Open
  <2>1. PICK h \in possible[k] : RowFit(h, k)
    BY <1>1
  <2>2. RowIs(h.map, k) /\ \A w \in Worker : h.answer[w] = Open
    BY <1>1, <1>2, <2>1, DueRowAbout DEF RowFit
  <2>3. InTiers(h.map, k)
    BY <1>1, <2>2, RowsInTiers
  <2>4. AloneFit(h, frame[u], k, h.answer[u])
    <3>1. ~About(frame[u], k)
      BY <1>1, IdleAbout
    <3> QED
      BY <2>2, <2>3, <3>1 DEF AloneFit
  <2> QED
    BY <2>2, <2>4
<1> QED
  BY <1>1, <1>2, <1>3 DEF AloneInv

\* Where no update is under way, the tiers hold the map.
LEMMA AloneHolds ==
    ASSUME TypeOK, Follows, NEW u \in Worker, AloneInv(u)
    PROVE  Linearizable /\ Coherent
<1>1. \A k \in Key \ Registry : possible[k] # {}
  BY DEF AloneInv
<1>2. ASSUME NEW k \in Key \ Registry, \A w \in Worker : ~Updating(pending[w], k)
      PROVE  \E h \in possible[k] : Hold(h.map, k)
  <2> DEFINE f == frame[u]
             p == pending[u]
  <2>1. PICK h \in possible[k] : AloneFit(h, f, k, h.answer[u])
    BY DEF AloneInv
  <2>2. SameCall(f, p) /\ ~Updating(p, k) /\ f.pc \in OnKey \cup Scanning \cup {"idle"}
    BY <1>2 DEF Follows, TypeOK, Frames
  <2>3. CASE ~About(f, k) \/ f.pc \in Opening \cup {"idle"}
    <3>1. InTiers(h.map, k)
      BY <2>1, <2>3 DEF AloneFit
    <3> QED
      BY <3>1, TiersHold
  <2>4. CASE About(f, k) /\ f.pc \notin Opening \cup {"idle"}
    <3>1. About(p, k) /\ p.pc # "idle"
      BY <2>2, <2>4, AboutSame
    <3>2. p.pc \in Reads
      BY <2>2, <3>1 DEF Updating
    <3>3. f.pc \in {"read_persistent", "promote", "stamp", "find_persistent"}
      BY <2>2, <2>4, <3>2 DEF SameCall, Reads, OnKey, Scanning, Opening
    <3>4. CASE f.pc # "stamp"
      <4>1. InTiers(h.map, k)
        BY <2>1, <2>4, <3>3, <3>4 DEF AloneFit
      <4> QED
        BY <4>1, TiersHold
    <3>5. CASE f.pc = "stamp"
      <4>1. /\ RowIs(h.map, k) /\ HasRow(f, k)
            /\ k \in DOMAIN transient => transient[k].value = persistent[k]
        BY <2>1, <2>4, <3>5 DEF AloneFit
      <4>2. Hold(h.map, k)
        BY <4>1 DEF Hold, Visible, Look, Get, RowIs, HasRow
      <4> QED
        BY <4>2
    <3> QED
      BY <3>4, <3>5
  <2> QED
    BY <2>3, <2>4
<1> QED
  BY <1>1, <1>2 DEF Linearizable, Coherent

-----------------------------------------------------------------------------
\* The results

\* The workloads of these kinds, if their maps are followed at all: timed values only,
\* values without TTLs that are not read but found, claimed and asked for, such values
\* that are written, deleted and read, and one thread alone.
Followable(load) ==
    \/ ~load.linear
    \/ Only(load, TimedMethods)
    \/ Only(load, DurableMethods)
    \/ Only(load, CachedMethods)
    \/ \E u \in Worker : Alone(load, u)

\* Where the possible maps are not followed they are still there.
Unfollowed ==
    \A k \in Key : possible[k] # {} /\ \A h \in possible[k] : DOMAIN h.answer = Worker

\* No step loses them.
LEMMA UnfollowedNext ==
    ASSUME ~workload.linear, Unfollowed, [HistoryNext]_allVars
    PROVE  Unfollowed'
<1>1. ASSUME NEW w \in Worker, Begin(w) \/ Continue(w) \/ End(w) PROVE possible' = possible
  BY <1>1 DEF Begin, Continue, End
<1>2. CASE Pass
  <2> SUFFICES ASSUME NEW k \in Key
               PROVE  possible'[k] # {} /\ \A h \in possible'[k] : DOMAIN h.answer = Worker
    BY DEF Unfollowed
  <2> DEFINE H == {[map |-> At(h.map, now'), answer |-> h.answer] : h \in possible[k]}
  <2>1. possible'[k] = Possibly(H, pending, k, now')
    BY <1>2 DEF Pass
  <2>2. H # {} /\ \A h \in H : DOMAIN h.answer = Worker
    <3>1. PICK g \in possible[k] : TRUE
      BY DEF Unfollowed
    <3>2. [map |-> At(g.map, now'), answer |-> g.answer] \in H
      BY <3>1
    <3>3. \A h \in H : DOMAIN h.answer = Worker
      BY DEF Unfollowed
    <3> QED
      BY <3>2, <3>3, Zenon
  <2> HIDE DEF H
  <2>3. H \subseteq possible'[k] /\ Closed(possible'[k], pending, k, now')
    BY <2>1, <2>2, PossiblyClosed
  <2> QED
    BY <2>2, <2>3 DEF Closed
<1>3. CASE Restart
  <2> SUFFICES ASSUME NEW k \in Key
               PROVE  possible'[k] # {} /\ \A h \in possible'[k] : DOMAIN h.answer = Worker
    BY DEF Unfollowed
  <2> DEFINE After(h) == [map |-> Keep(h.map, {x \in DOMAIN h.map : h.map[x].deadline = Never}),
                          answer |-> [w \in Worker |-> Open]]
  <2>1. possible'[k] = {After(h) : h \in possible[k]}
    BY <1>3, Zenon DEF Restart
  <2>2. \A h : DOMAIN After(h).answer = Worker
    OBVIOUS
  <2> HIDE DEF After
  <2> QED
    BY <2>1, <2>2 DEF Unfollowed
<1>4. CASE UNCHANGED allVars
  BY <1>4 DEF allVars, historyVars, Unfollowed
<1> QED
  BY <1>1, <1>2, <1>3, <1>4 DEF HistoryNext, Unfollowed

\* The inductive invariant: per kind of workload, one of the possible maps is what the
\* tiers hold, and the calls in progress have answered on it what they are going to.
LinearInv ==
    /\ TypeOK
    /\ workload \in Workloads
    /\ ~workload.linear => Unfollowed
    /\ workload.linear =>
         /\ Follows
         /\ Only(workload, TimedMethods) => TimedInv
         /\ Only(workload, DurableMethods) => DurableInv
         /\ Only(workload, CachedMethods) => CachedInv
         /\ \A u \in Worker : Alone(workload, u) => AloneInv(u)

\* It holds at first...
LEMMA LinearInit == HistoryInit => LinearInv
<1> SUFFICES ASSUME HistoryInit PROVE LinearInv
  OBVIOUS
<1>1. TypeOK /\ workload \in Workloads
  BY InitType DEF HistoryInit
<1>2. Unfollowed
  <2>1. \A k \in Key : possible[k] = {[map |-> EmptyMap, answer |-> [w \in Worker |-> Open]]}
    BY DEF HistoryInit
  <2>2. DOMAIN [map |-> EmptyMap, answer |-> [w \in Worker |-> Open]].answer = Worker
    OBVIOUS
  <2> QED
    BY <2>1, <2>2, Zenon DEF Unfollowed
<1> QED
  BY <1>1, <1>2, FollowsInit, TimedInit, DurableInit, CachedInit, AloneInit DEF LinearInv

\* ... every step keeps it...
LEMMA LinearNext ==
    ASSUME ~FaultyDisk, LinearInv, [HistoryNext]_allVars
    PROVE  LinearInv'
<1>1. TypeOK /\ TypeOK'
  BY HistoryStep, NextType DEF LinearInv
<1>2. workload' = workload
  BY DEF HistoryNext, Pass, Restart, Begin, Continue, End, allVars, historyVars
<1>3. ASSUME NEW methods PROVE Only(workload, methods)' <=> Only(workload, methods)
  BY <1>2 DEF Only
<1>4. ASSUME NEW u \in Worker PROVE Alone(workload, u)' <=> Alone(workload, u)
  BY <1>2 DEF Alone
<1>5. ~workload.linear => Unfollowed'
  BY UnfollowedNext DEF LinearInv
<1>6. ASSUME workload.linear
      PROVE  /\ Follows'
             /\ Only(workload, TimedMethods) => TimedInv'
             /\ Only(workload, DurableMethods) => DurableInv'
             /\ Only(workload, CachedMethods) => CachedInv'
             /\ \A u \in Worker : Alone(workload, u) => AloneInv(u)'
  <2>1. Follows
    BY <1>6 DEF LinearInv
  <2>2. Follows'
    BY <1>1, <1>6, <2>1, FollowsNext
  <2>3. Only(workload, TimedMethods) => TimedInv'
    BY <1>1, <1>6, <2>1, TimedNext DEF LinearInv
  <2>4. Only(workload, DurableMethods) => DurableInv'
    BY <1>1, <1>6, <2>1, DurableNext DEF LinearInv
  <2>5. Only(workload, CachedMethods) => CachedInv'
    BY <1>1, <1>6, <2>1, CachedNext DEF LinearInv
  <2>6. ASSUME NEW u \in Worker, Alone(workload, u) PROVE AloneInv(u)'
    <3>1. AloneInv(u)
      BY <1>6, <2>6 DEF LinearInv
    <3> QED
      BY <1>1, <1>6, <2>1, <2>6, <3>1, AloneNext
  <2> QED
    BY <2>2, <2>3, <2>4, <2>5, <2>6
<1>7. workload' \in Workloads
  BY <1>2 DEF LinearInv
<1> QED
  BY <1>1, <1>2, <1>3, <1>4, <1>5, <1>6, <1>7 DEF LinearInv

\* ... and it is enough.
LEMMA LinearHolds ==
    ASSUME LinearInv, Followable(workload)
    PROVE  Linearizable /\ Coherent
<1>1. CASE ~workload.linear
  BY <1>1 DEF LinearInv, Unfollowed, Linearizable, Coherent
<1>2. CASE workload.linear
  <2>1. TypeOK /\ Follows
    BY <1>2 DEF LinearInv
  <2>2. CASE Only(workload, TimedMethods)
    BY <1>2, <2>2, TimedHolds DEF LinearInv
  <2>3. CASE Only(workload, DurableMethods)
    BY <1>2, <2>3, DurableHolds DEF LinearInv
  <2>4. CASE Only(workload, CachedMethods)
    BY <1>2, <2>1, <2>4, CachedHolds DEF LinearInv
  <2>5. ASSUME NEW u \in Worker, Alone(workload, u) PROVE Linearizable /\ Coherent
    <3>1. AloneInv(u)
      BY <1>2, <2>5 DEF LinearInv
    <3> QED
      BY <2>1, <3>1, AloneHolds
  <2> QED
    BY <1>2, <2>2, <2>3, <2>4, <2>5 DEF Followable
<1> QED
  BY <1>1, <1>2

\* The calls of permutive_bus.rs are linearizable, restarts included: for any number of
\* threads that keep to timed values, to values without TTLs that they write, delete,
\* claim and find or write, delete and read, and for one thread that does all of it but
\* ask for TTLs.
THEOREM CallsLinearize ==
    ASSUME ~FaultyDisk
    PROVE  HistorySpec => [](Followable(workload) => Linearizable)
<1>1. HistoryInit => LinearInv
  BY LinearInit
<1>2. LinearInv /\ [HistoryNext]_allVars => LinearInv'
  BY LinearNext
<1>3. LinearInv => (Followable(workload) => Linearizable)
  BY LinearHolds
<1> QED
  BY <1>1, <1>2, <1>3, PTL DEF HistorySpec

\* On these workloads, whenever no update of a key is under way and no stale copy of it is
\* left, the two tiers of permutive_bus.rs hold a map that explains all replies so far.
THEOREM TiersCohere ==
    ASSUME ~FaultyDisk
    PROVE  HistorySpec => [](Followable(workload) => Coherent)
<1>1. HistoryInit => LinearInv
  BY LinearInit
<1>2. LinearInv /\ [HistoryNext]_allVars => LinearInv'
  BY LinearNext
<1>3. LinearInv => (Followable(workload) => Coherent)
  BY LinearHolds
<1> QED
  BY <1>1, <1>2, <1>3, PTL DEF HistorySpec

=============================================================================
