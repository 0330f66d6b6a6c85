-------------------------- MODULE SupervisionProofs -------------------------
(***************************************************************************)
(* Proofs about Supervision for any list of modules, any number of workers *)
(* and any heartbeat TTL.                                                  *)
(***************************************************************************)
EXTENDS Supervision, TLAPS

\* The supervisor waits for a module of its list.
JoinsListed == sup.pc = "joining" => sup.next <= Len(Modules)

\* The types alone do not say which thread is joined.
Typed == TypeOK /\ JoinsListed

LEMMA Listed ==
    /\ Len(Modules) \in Nat
    /\ \A i \in 1..Len(Modules) : Modules[i] \in Names
BY ModulesAssumption DEF Names

LEMMA InitTyped == Init => Typed
BY HeartbeatTtlAssumption, Listed DEF Init, Typed, TypeOK, JoinsListed

LEMMA NextTyped == Typed /\ [Next]_vars => Typed'
<1> SUFFICES ASSUME Typed, [Next]_vars PROVE Typed'
  OBVIOUS
<1> USE HeartbeatTtlAssumption, Listed DEF Typed, TypeOK, JoinsListed
<1>1. CASE Tick
  <2>1. heartbeat' \in [Names -> 0..HeartbeatTtl]
    BY <1>1 DEF Tick
  <2>2. DOMAIN idle' = Names /\ \A m \in Names : idle'[m] \in [Workers[m] -> 0..HeartbeatTtl]
    BY <1>1 DEF Tick
  <2>3. thread' = thread /\ worker' = worker
    BY <1>1 DEF Tick
  <2>4. PICK n \in 0..1 : sup' = [sup EXCEPT !.nap = n]
    BY <1>1 DEF Tick
  <2>5. silent' \subseteq Names
    BY <1>1, Zenon DEF Tick
  <2> QED
    BY <2>1, <2>2, <2>3, <2>4, <2>5
<1>2. CASE Snapshot
  <2> DEFINE S == {m \in Names : heartbeat[m] > 0}
  <2>1. S \in SUBSET Names
    OBVIOUS
  <2>2. /\ sup' = [sup EXCEPT !.pc = "visiting", !.alive = S, !.next = 1]
        /\ heartbeat' = heartbeat /\ thread' = thread /\ worker' = worker /\ idle' = idle
        /\ silent' = silent
    BY <1>2, Zenon DEF Snapshot
  <2> HIDE DEF S
  <2>3. sup' \in [pc : {"sleeping", "visiting", "joining"}, alive : SUBSET Names,
                  next : 1..(Len(Modules) + 1), nap : 0..1]
        /\ sup'.pc = "visiting"
    <3>1. sup' = [pc |-> "visiting", alive |-> S, next |-> 1, nap |-> sup.nap]
      BY <2>2
    <3>2. sup.nap \in 0..1 /\ 1 \in 1..(Len(Modules) + 1)
      OBVIOUS
    <3> QED
      BY <2>1, <3>1, <3>2
  <2> QED
    BY <2>2, <2>3
<1>3. CASE Visit
  <2>1. /\ heartbeat' = heartbeat /\ thread' = thread /\ worker' = worker /\ idle' = idle
        /\ silent' = silent
    BY <1>3 DEF Visit
  <2>2. /\ sup' \in [pc : {"sleeping", "visiting", "joining"}, alive : SUBSET Names,
                     next : 1..(Len(Modules) + 1), nap : 0..1]
        /\ JoinsListed'
    <3>1. \/ sup' = [sup EXCEPT !.next = sup.next + 1] /\ sup.pc = "visiting"
          \/ sup' = [sup EXCEPT !.pc = "joining"]
      BY <1>3 DEF Visit
    <3>2. sup.next \in 1..Len(Modules) /\ sup.next + 1 \in 1..(Len(Modules) + 1)
      BY <1>3 DEF Visit
    <3>3. CASE sup' = [sup EXCEPT !.next = sup.next + 1] /\ sup.pc = "visiting"
      BY <3>2, <3>3
    <3>4. CASE sup' = [sup EXCEPT !.pc = "joining"]
      <4>1. sup' = [pc |-> "joining", alive |-> sup.alive, next |-> sup.next, nap |-> sup.nap]
        BY <3>4
      <4> QED
        BY <3>2, <4>1
    <3> QED
      BY <3>1, <3>3, <3>4
  <2>3. TypeOK'
    BY <2>1, <2>2
  <2> QED
    BY <2>2, <2>3
<1>4. CASE JoinAndRespawn
  <2> DEFINE m == Modules[sup.next]
  <2>1. m \in Names /\ sup.next + 1 \in 1..(Len(Modules) + 1)
    BY <1>4 DEF JoinAndRespawn
  <2>2. sup' = [sup EXCEPT !.pc = "visiting", !.next = sup.next + 1]
    BY <1>4 DEF JoinAndRespawn
  <2>3. /\ heartbeat' = heartbeat
        /\ thread' = [thread EXCEPT ![m] = "spawned"]
        /\ worker' = [worker EXCEPT ![m] = [x \in Workers[m] |-> "off"]]
        /\ idle' = [idle EXCEPT ![m] = [x \in Workers[m] |-> 0]]
        /\ silent' = silent \ {m}
    BY <1>4 DEF JoinAndRespawn
  <2> HIDE DEF m
  <2>4. sup' \in [pc : {"sleeping", "visiting", "joining"}, alive : SUBSET Names,
                  next : 1..(Len(Modules) + 1), nap : 0..1]
        /\ sup'.pc = "visiting"
    BY <2>1, <2>2
  <2>5. /\ thread' \in [Names -> {"spawned", "starting", "running", "dead"}]
        /\ DOMAIN worker' = Names /\ DOMAIN idle' = Names
    BY <2>1, <2>3
  <2>6. \A n \in Names : /\ worker'[n] \in [Workers[n] -> {"off", "beating", "waiting", "dead"}]
                         /\ idle'[n] \in [Workers[n] -> 0..HeartbeatTtl]
    BY <2>1, <2>3
  <2> QED
    BY <2>3, <2>4, <2>5, <2>6
<1>5. CASE Sleep
  BY <1>5 DEF Sleep
<1>6. ASSUME NEW m \in Names, ThreadStart(m) PROVE Typed'
  BY <1>6 DEF ThreadStart
<1>7. ASSUME NEW m \in Names, ThreadRun(m) PROVE Typed'
  BY <1>7 DEF ThreadRun
<1>8. ASSUME NEW m \in Names, ThreadEnd(m) PROVE Typed'
  BY <1>8 DEF ThreadEnd
<1>9. ASSUME NEW m \in Names, NEW x \in Workers[m], Beat(m, x) PROVE Typed'
  BY <1>9 DEF Beat
<1>10. ASSUME NEW m \in Names, NEW x \in Workers[m], Serve(m, x) PROVE Typed'
  BY <1>10 DEF Serve
<1>11. ASSUME NEW m \in Names, NEW x \in Workers[m], Panic(m, x) PROVE Typed'
  BY <1>11 DEF Panic
<1>12. CASE UNCHANGED vars
  BY <1>12 DEF vars
<1> QED
  BY <1>1, <1>2, <1>3, <1>4, <1>5, <1>6, <1>7, <1>8, <1>9, <1>10, <1>11, <1>12
  DEF Next, Supervise

\* Heartbeats, threads and the supervisor of core/mod.rs keep their types, whatever the
\* modules and however long they are idle.
THEOREM TypeCorrect == Spec => []TypeOK
<1>1. Typed => TypeOK
  BY DEF Typed
<1> QED
  BY <1>1, InitTyped, NextTyped, PTL DEF Spec

-----------------------------------------------------------------------------
\* The supervisor waits for no module that is at work, unless all of its workers were once
\* idle for as long as a key lives.

\* The thread of the module has ended or has no worker left.
Gone(m) == thread[m] \in {"running", "dead"} /\ \A x \in Workers[m] : worker[m][x] = "dead"

\* What the workers are doing while their module's thread is where it is.
WorkersFollow ==
    \A m \in Names :
        /\ thread[m] \in {"spawned", "starting"} =>
              \A x \in Workers[m] : worker[m][x] = "off" /\ idle[m][x] = 0
        /\ thread[m] = "running" => \A x \in Workers[m] : worker[m][x] # "off"
        /\ thread[m] = "dead" => \A x \in Workers[m] : worker[m][x] = "dead"

\* A module at work that was never silent has a key, renewed no longer ago than any of its
\* workers has waited.
KeysLast ==
    \A m \in Names \ silent : \A x \in Workers[m] :
        (thread[m] = "running" /\ worker[m][x] \in {"beating", "waiting"}) =>
            heartbeat[m] > 0 /\ heartbeat[m] + idle[m][x] >= HeartbeatTtl

\* When the supervisor has slept every thread has had the time to start.
AllStarted ==
    (sup.pc = "sleeping" /\ sup.nap = 0) => \A m \in Names : thread[m] \in {"running", "dead"}

\* A module that the supervisor found without a key is gone or was silent, and stays so
\* until its turn comes.
FoundGone ==
    sup.pc \in {"visiting", "joining"} =>
        \A i \in sup.next..Len(Modules) :
            Modules[i] \notin sup.alive => Gone(Modules[i]) \/ Modules[i] \in silent

JoinsFound == sup.pc = "joining" => Modules[sup.next] \notin sup.alive

JoinInv == Typed /\ WorkersFollow /\ KeysLast /\ AllStarted /\ FoundGone /\ JoinsFound

LEMMA InitJoin == Init => JoinInv
BY InitTyped DEF Init, JoinInv, WorkersFollow, KeysLast, AllStarted, FoundGone, JoinsFound

\* An action of a module's thread or worker that leaves a module without workers as it is,
\* and starts no module that is gone, keeps what the supervisor has found.
LEMMA FoundKept ==
    ASSUME Typed, FoundGone, AllStarted, JoinsFound, sup' = sup, silent' = silent,
           \A n \in Names : Gone(n) => Gone(n)',
           \A n \in Names : thread[n] \in {"running", "dead"} => thread'[n] \in {"running", "dead"}
    PROVE  FoundGone' /\ AllStarted' /\ JoinsFound'
<1>1. AllStarted' /\ JoinsFound'
  BY DEF AllStarted, JoinsFound
<1>2. sup.next \in 1..(Len(Modules) + 1)
  BY DEF Typed, TypeOK
<1>3. \A i \in sup.next..Len(Modules) : Modules[i] \in Names
  BY <1>2, Listed
<1>4. FoundGone'
  BY <1>3 DEF FoundGone
<1> QED
  BY <1>1, <1>4

LEMMA NextJoin == JoinInv /\ [Next]_vars => JoinInv'
<1> SUFFICES ASSUME JoinInv, [Next]_vars PROVE JoinInv'
  OBVIOUS
<1> USE HeartbeatTtlAssumption, Listed
<1>0. Typed' /\ Typed
  BY NextTyped DEF JoinInv
<1>t. TypeOK /\ TypeOK'
  BY <1>0 DEF Typed
<1> SUFFICES WorkersFollow' /\ KeysLast' /\ AllStarted' /\ FoundGone' /\ JoinsFound'
  BY <1>0 DEF JoinInv
<1>i. WorkersFollow /\ KeysLast /\ AllStarted /\ FoundGone /\ JoinsFound
  BY DEF JoinInv
<1>1. CASE Tick
  <2>1. WorkersFollow'
    BY <1>1, <1>i, <1>t DEF Tick, WorkersFollow, TypeOK
  <2>s. silent' = silent \cup {m \in Names : heartbeat'[m] = 0 /\ AllIdle(m, idle')}
    BY <1>1, Zenon DEF Tick
  <2>2. KeysLast'
    <3> SUFFICES ASSUME NEW m \in Names, m \notin silent', NEW x \in Workers[m],
                        thread'[m] = "running", worker'[m][x] \in {"beating", "waiting"}
                 PROVE  heartbeat'[m] > 0 /\ heartbeat'[m] + idle'[m][x] >= HeartbeatTtl
      BY DEF KeysLast
    <3>1. thread[m] = "running" /\ worker[m][x] = "waiting"
      BY <1>1 DEF Tick, Resting
    <3>2. m \notin silent /\ ~(heartbeat'[m] = 0 /\ AllIdle(m, idle'))
      BY <2>s
    <3>3. ASSUME NEW y \in Workers[m], worker[m][y] = "waiting"
          PROVE  /\ heartbeat'[m] \in Nat
                 /\ idle'[m][y] \in 0..HeartbeatTtl
                 /\ heartbeat'[m] + idle'[m][y] >= HeartbeatTtl
      <4>1. /\ heartbeat[m] \in Nat /\ idle[m][y] \in 0..HeartbeatTtl
            /\ heartbeat[m] > 0 /\ heartbeat[m] + idle[m][y] >= HeartbeatTtl
        BY <1>t, <1>i, <3>1, <3>2, <3>3 DEF TypeOK, KeysLast
      <4>2. /\ heartbeat'[m] = heartbeat[m] - 1
            /\ idle'[m][y] = IF idle[m][y] < HeartbeatTtl THEN idle[m][y] + 1 ELSE idle[m][y]
        BY <1>1, <3>3, <4>1 DEF Tick
      <4> QED
        BY <4>1, <4>2
    <3>4. heartbeat'[m] # 0
      <4> SUFFICES ASSUME heartbeat'[m] = 0 PROVE AllIdle(m, idle')
        BY <3>2
      <4> QED
        BY <3>1, <3>3 DEF AllIdle
    <3> QED
      BY <3>1, <3>3, <3>4
  <2>3. AllStarted'
    BY <1>1 DEF Tick, Resting, AllStarted
  <2>4. sup'.pc = sup.pc /\ sup'.next = sup.next /\ sup'.alive = sup.alive
        /\ thread' = thread /\ worker' = worker
    BY <1>1, <1>t DEF Tick, TypeOK
  <2>5. FoundGone' /\ JoinsFound'
    BY <1>i, <2>s, <2>4 DEF FoundGone, JoinsFound, Gone
  <2> QED
    BY <2>1, <2>2, <2>3, <2>5
<1>2. CASE Snapshot
  <2>1. WorkersFollow' /\ KeysLast'
    BY <1>2, <1>i DEF Snapshot, WorkersFollow, KeysLast
  <2>2. sup'.pc = "visiting" /\ sup'.next = 1 /\ \A m \in Names : m \notin sup'.alive => heartbeat[m] = 0
    <3> DEFINE S == {m \in Names : heartbeat[m] > 0}
    <3>1. sup' = [sup EXCEPT !.pc = "visiting", !.alive = S, !.next = 1]
      BY <1>2, Zenon DEF Snapshot
    <3>2. \A m \in Names : m \notin S => heartbeat[m] = 0
      BY <1>t DEF TypeOK
    <3> HIDE DEF S
    <3> QED
      BY <1>t, <3>1, <3>2 DEF TypeOK
  <2>3. ASSUME NEW m \in Names \ silent, heartbeat[m] = 0 PROVE Gone(m)'
    <3>1. thread[m] \in {"running", "dead"}
      BY <1>2, <1>i DEF Snapshot, AllStarted
    <3>2. ASSUME NEW x \in Workers[m], thread[m] = "running" PROVE worker[m][x] = "dead"
      <4>1. worker[m][x] \in {"off", "beating", "waiting", "dead"} /\ idle[m][x] \in Nat
        BY <1>t DEF TypeOK
      <4>2. worker[m][x] # "off"
        BY <1>i, <3>2 DEF WorkersFollow
      <4>3. worker[m][x] \notin {"beating", "waiting"}
        BY <1>i, <2>3, <3>2, <4>1 DEF KeysLast
      <4> QED
        BY <4>1, <4>2, <4>3
    <3>3. thread' = thread /\ worker' = worker
      BY <1>2 DEF Snapshot
    <3> QED
      BY <1>i, <3>1, <3>2, <3>3 DEF Gone, WorkersFollow
  <2>4. FoundGone'
    <3>1. silent' = silent
      BY <1>2 DEF Snapshot
    <3> QED
      BY <2>2, <2>3, <3>1 DEF FoundGone
  <2> QED
    BY <2>1, <2>2, <2>4 DEF AllStarted, JoinsFound
<1>3. CASE Visit
  <2>1. WorkersFollow' /\ KeysLast'
    BY <1>3, <1>i DEF Visit, WorkersFollow, KeysLast
  <2>2. thread' = thread /\ worker' = worker /\ silent' = silent /\ sup'.alive = sup.alive /\ sup.pc = "visiting"
        /\ sup.next \in Nat
        /\ \/ sup'.pc = "visiting" /\ sup'.next = sup.next + 1
           \/ sup'.pc = "joining" /\ sup'.next = sup.next /\ Modules[sup.next] \notin sup.alive
    BY <1>3, <1>t DEF Visit, TypeOK
  <2>3. FoundGone' /\ AllStarted' /\ JoinsFound'
    BY <1>i, <2>2 DEF FoundGone, AllStarted, JoinsFound, Gone
  <2> QED
    BY <2>1, <2>3
<1>4. CASE JoinAndRespawn
  <2> DEFINE m == Modules[sup.next]
  <2>1. m \in Names /\ sup.next \in 1..Len(Modules)
    BY <1>0, <1>4 DEF JoinAndRespawn, Typed, TypeOK, JoinsListed
  <2>2. /\ heartbeat' = heartbeat
        /\ thread' = [thread EXCEPT ![m] = "spawned"]
        /\ worker' = [worker EXCEPT ![m] = [x \in Workers[m] |-> "off"]]
        /\ idle' = [idle EXCEPT ![m] = [x \in Workers[m] |-> 0]]
        /\ silent' = silent \ {m}
        /\ sup.pc = "joining"
    BY <1>4 DEF JoinAndRespawn
  <2>3. sup'.pc = "visiting" /\ sup'.next = sup.next + 1 /\ sup'.alive = sup.alive
    BY <1>4, <1>t DEF JoinAndRespawn, TypeOK
  <2>4. \A i \in (sup.next + 1)..Len(Modules) : Modules[i] \in Names /\ Modules[i] # m
    BY <2>1, ModulesAssumption
  <2> HIDE DEF m
  <2>5. /\ thread'[m] = "spawned"
        /\ \A x \in Workers[m] : worker'[m][x] = "off" /\ idle'[m][x] = 0
        /\ \A n \in Names \ {m} : thread'[n] = thread[n] /\ worker'[n] = worker[n] /\ idle'[n] = idle[n]
    BY <1>t, <2>1, <2>2 DEF TypeOK
  <2>6. WorkersFollow'
    BY <1>i, <2>5 DEF WorkersFollow
  <2>7. KeysLast'
    BY <1>i, <2>2, <2>5 DEF KeysLast
  <2>8. FoundGone'
    BY <1>i, <2>1, <2>2, <2>3, <2>4, <2>5 DEF FoundGone, Gone
  <2> QED
    BY <2>3, <2>6, <2>7, <2>8 DEF AllStarted, JoinsFound
<1>5. CASE Sleep
  BY <1>5, <1>i DEF Sleep, WorkersFollow, KeysLast, AllStarted, FoundGone, JoinsFound
<1>6. ASSUME NEW m \in Names, ThreadStart(m) PROVE WorkersFollow' /\ KeysLast' /\ AllStarted' /\ FoundGone' /\ JoinsFound'
  <2>1. /\ thread[m] = "spawned" /\ thread'[m] = "starting" /\ worker' = worker /\ idle' = idle /\ sup' = sup
        /\ silent' = silent
        /\ \A n \in Names \ {m} : thread'[n] = thread[n] /\ heartbeat'[n] = heartbeat[n]
    BY <1>6, <1>t DEF ThreadStart, TypeOK
  <2>2. WorkersFollow' /\ KeysLast'
    BY <1>i, <2>1 DEF WorkersFollow, KeysLast
  <2>3. \A n \in Names : Gone(n) => Gone(n)'
    BY <2>1 DEF Gone
  <2> QED
    BY <1>0, <1>i, <2>1, <2>2, <2>3, FoundKept
<1>7. ASSUME NEW m \in Names, ThreadRun(m) PROVE WorkersFollow' /\ KeysLast' /\ AllStarted' /\ FoundGone' /\ JoinsFound'
  <2>1. /\ thread[m] = "starting" /\ thread'[m] = "running" /\ heartbeat'[m] = HeartbeatTtl
        /\ \A x \in Workers[m] : worker'[m][x] = "beating"
        /\ idle' = idle /\ sup' = sup /\ silent' = silent
        /\ \A n \in Names \ {m} : thread'[n] = thread[n] /\ heartbeat'[n] = heartbeat[n] /\ worker'[n] = worker[n]
    BY <1>7, <1>t DEF ThreadRun, TypeOK
  <2>2. \A x \in Workers[m] : idle[m][x] = 0
    BY <1>i, <2>1 DEF WorkersFollow
  <2>3. WorkersFollow'
    BY <1>i, <2>1 DEF WorkersFollow
  <2>4. KeysLast'
    BY <1>i, <2>1, <2>2 DEF KeysLast
  <2>5. \A n \in Names : Gone(n) => Gone(n)'
    BY <2>1 DEF Gone
  <2> QED
    BY <1>0, <1>i, <2>1, <2>3, <2>4, <2>5, FoundKept
<1>8. ASSUME NEW m \in Names, ThreadEnd(m) PROVE WorkersFollow' /\ KeysLast' /\ AllStarted' /\ FoundGone' /\ JoinsFound'
  <2>1. /\ thread'[m] = "dead" /\ \A x \in Workers[m] : worker[m][x] = "dead"
        /\ heartbeat' = heartbeat /\ worker' = worker /\ idle' = idle /\ sup' = sup
        /\ silent' = silent
        /\ \A n \in Names \ {m} : thread'[n] = thread[n]
    BY <1>8, <1>t DEF ThreadEnd, TypeOK
  <2>2. WorkersFollow' /\ KeysLast'
    BY <1>i, <2>1 DEF WorkersFollow, KeysLast
  <2>3. \A n \in Names : Gone(n) => Gone(n)'
    BY <2>1 DEF Gone
  <2> QED
    BY <1>0, <1>i, <2>1, <2>2, <2>3, FoundKept
<1>9. ASSUME NEW m \in Names, NEW x \in Workers[m], Beat(m, x) \/ Serve(m, x) \/ Panic(m, x)
      PROVE  WorkersFollow' /\ KeysLast' /\ AllStarted' /\ FoundGone' /\ JoinsFound'
  <2>1. /\ worker[m][x] \in {"beating", "waiting"} /\ worker'[m][x] \in {"beating", "waiting", "dead"}
        /\ \A y \in Workers[m] \ {x} : worker'[m][y] = worker[m][y] /\ idle'[m][y] = idle[m][y]
        /\ \A n \in Names \ {m} : worker'[n] = worker[n] /\ idle'[n] = idle[n] /\ heartbeat'[n] = heartbeat[n]
        /\ thread' = thread /\ sup' = sup /\ silent' = silent
    BY <1>9, <1>t DEF Beat, Serve, Panic, TypeOK
  <2>2. thread[m] = "running"
    <3>1. thread[m] \in {"spawned", "starting", "running", "dead"}
      BY <1>t DEF TypeOK
    <3> QED
      BY <1>i, <2>1, <3>1 DEF WorkersFollow
  <2>3. ASSUME heartbeat[m] # 0
        PROVE  /\ idle'[m][x] \in {0, idle[m][x]}
               /\ \/ heartbeat'[m] = HeartbeatTtl
                  \/ heartbeat'[m] = heartbeat[m] /\ idle'[m][x] = idle[m][x]
    BY <1>9, <1>t, <2>3 DEF Beat, Serve, Panic, TypeOK
  <2>4. WorkersFollow'
    BY <1>i, <2>1, <2>2 DEF WorkersFollow
  <2>5. KeysLast'
    <3> SUFFICES ASSUME NEW n \in Names \ silent, NEW y \in Workers[n], thread'[n] = "running",
                        worker'[n][y] \in {"beating", "waiting"}
                 PROVE  heartbeat'[n] > 0 /\ heartbeat'[n] + idle'[n][y] >= HeartbeatTtl
      BY <2>1 DEF KeysLast
    <3>1. thread[n] = "running" /\ worker[n][y] \in {"beating", "waiting"}
      BY <2>1
    <3>2. /\ heartbeat[n] > 0 /\ heartbeat[n] + idle[n][y] >= HeartbeatTtl
          /\ idle'[n][y] \in Nat
      BY <1>i, <1>t, <3>1 DEF KeysLast, TypeOK
    <3> QED
      BY <2>1, <2>3, <3>2
  <2>6. \A n \in Names : Gone(n) => Gone(n)'
    BY <2>1 DEF Gone
  <2> QED
    BY <1>0, <1>i, <2>1, <2>4, <2>5, <2>6, FoundKept
<1>10. CASE UNCHANGED vars
  BY <1>10, <1>i DEF vars, WorkersFollow, KeysLast, AllStarted, FoundGone, JoinsFound, Gone
<1> QED
  BY <1>1, <1>2, <1>3, <1>4, <1>5, <1>6, <1>7, <1>8, <1>9, <1>10 DEF Next, Supervise

LEMMA JoinsLawful == Spec => []JoinInv
BY InitJoin, NextJoin, PTL DEF Spec

\* check_and_respawn_modules does not block on a module that is at work, for any modules,
\* workers, idle times and TTL, unless all of its living workers were once idle for as long
\* as a key lives.
THEOREM NoLivingModuleJoined == Spec => []NeverJoinsLiving
<1>1. JoinInv => NeverJoinsLiving
  <2> SUFFICES ASSUME JoinInv, sup.pc = "joining", Modules[sup.next] \notin silent
               PROVE  \A x \in Workers[Modules[sup.next]] : worker[Modules[sup.next]][x] = "dead"
    BY DEF NeverJoinsLiving
  <2>1. sup.next \in sup.next..Len(Modules) /\ Modules[sup.next] \notin sup.alive
    BY Listed DEF JoinInv, Typed, TypeOK, JoinsListed, JoinsFound
  <2> QED
    BY <2>1 DEF JoinInv, FoundGone, Gone
<1> QED
  BY <1>1, JoinsLawful, PTL

-----------------------------------------------------------------------------
\* The modules whose workers all come back to their heartbeat in time, such as a
\* placeholder, which sleeps for a third of the TTL.

Prompt(m) == MaxIdle[m] # Unbounded /\ MaxIdle[m] < HeartbeatTtl

PromptAwake == \A m \in Names : Prompt(m) => m \notin silent

LEMMA NextPrompt == TypeOK /\ PromptAwake /\ [Next]_vars => PromptAwake'
<1> SUFFICES ASSUME TypeOK, PromptAwake, [Next]_vars, NEW m \in Names, Prompt(m)
             PROVE  m \notin silent'
  BY DEF PromptAwake, Prompt
<1> USE HeartbeatTtlAssumption, MaxIdleAssumption
<1>1. m \notin silent
  BY DEF PromptAwake
<1>2. CASE Tick
  <2>1. ASSUME NEW x \in Workers[m], worker[m][x] = "waiting" PROVE idle'[m][x] # HeartbeatTtl
    <3>1. idle[m][x] \in Nat /\ MaxIdle[m] \in Nat /\ idle[m][x] < MaxIdle[m] /\ MaxIdle[m] < HeartbeatTtl
      BY <1>2, <2>1 DEF Tick, Resting, Prompt, TypeOK
    <3>2. idle'[m][x] = idle[m][x] + 1
      BY <1>2, <2>1, <3>1 DEF Tick
    <3> QED
      BY <3>1, <3>2
  <2>2. ~AllIdle(m, idle')
    BY <2>1 DEF AllIdle
  <2> QED
    BY <1>1, <1>2, <2>2 DEF Tick
<1>3. CASE Supervise
  BY <1>1, <1>3 DEF Supervise, Snapshot, Visit, JoinAndRespawn, Sleep
<1>4. CASE silent' = silent
  BY <1>1, <1>4
<1> QED
  BY <1>2, <1>3, <1>4
  DEF Next, ThreadStart, ThreadRun, ThreadEnd, Beat, Serve, Panic, vars

\* A module whose workers never wait for as long as its key lives is never joined by
\* check_and_respawn_modules while it is at work, however idle the other modules are.
THEOREM PromptModulesNotJoinedAlive ==
    Spec => [](sup.pc = "joining" /\ Prompt(Modules[sup.next]) => Gone(Modules[sup.next]))
<1>1. JoinInv /\ PromptAwake =>
        (sup.pc = "joining" /\ Prompt(Modules[sup.next]) => Gone(Modules[sup.next]))
  <2> SUFFICES ASSUME JoinInv, PromptAwake, sup.pc = "joining", Prompt(Modules[sup.next])
               PROVE  Gone(Modules[sup.next])
    OBVIOUS
  <2>1. /\ sup.next \in sup.next..Len(Modules) /\ Modules[sup.next] \notin sup.alive
        /\ Modules[sup.next] \in Names
    BY Listed DEF JoinInv, Typed, TypeOK, JoinsListed, JoinsFound
  <2> QED
    BY <2>1 DEF JoinInv, FoundGone, PromptAwake
<1>2. Init => PromptAwake
  BY DEF Init, PromptAwake
<1>3. Spec => []PromptAwake
  BY <1>2, NextPrompt, TypeCorrect, PTL DEF Spec
<1> QED
  BY <1>1, <1>3, JoinsLawful, PTL

=============================================================================
