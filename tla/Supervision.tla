---------------------------- MODULE Supervision -----------------------------
(***************************************************************************)
(* src/core/mod.rs with the heartbeats of the modules it supervises        *)
(* (modules/server.rs, modules/cli.rs, modules/placeholder.rs).            *)
(*                                                                         *)
(* A module is a thread that keeps the key module:<name> of the core bus   *)
(* alive by renewing its TTL, directly or through its worker threads.  The *)
(* supervisor wakes up every interval, takes the modules whose key is      *)
(* missing for dead, joins their thread and spawns it again.               *)
(*                                                                         *)
(* Time is counted in supervision intervals (5 s): a heartbeat is the      *)
(* number of intervals its key still lives, 0 once the key is gone.        *)
(***************************************************************************)
EXTENDS Naturals, Sequences

CONSTANTS
    Modules,        \* the registered modules, in the order of registration
    Workers,        \* per module: the threads that renew its heartbeat
    MaxIdle,        \* per module: the longest a worker waits, or Unbounded
    Unbounded,
    HeartbeatTtl    \* 15 s are 3 intervals

Names == {Modules[i] : i \in 1..Len(Modules)}

\* main.rs registers every module under a name of its own.
ASSUME ModulesAssumption ==
    /\ Modules \in Seq(Names)
    /\ \A i, j \in 1..Len(Modules) : Modules[i] = Modules[j] => i = j
ASSUME HeartbeatTtlAssumption == HeartbeatTtl \in Nat \ {0}
ASSUME MaxIdleAssumption ==
    \A m \in Names : MaxIdle[m] = Unbounded \/ MaxIdle[m] \in 1..HeartbeatTtl

VARIABLES
    heartbeat,      \* per module: intervals until module:<name> expires
    thread,         \* per module: "spawned", "starting", "running" or "dead"
    worker,         \* per module and worker: "off", "beating", "waiting" or "dead"
    idle,           \* per module and worker: how long it has been waiting
    sup,            \* the supervisor: pc, snapshot of live modules, position, nap
    silent          \* history: the modules whose key lapsed while none of their
                    \* threads had anything to do

vars == <<heartbeat, thread, worker, idle, sup, silent>>

Init ==
    /\ heartbeat = [m \in Names |-> 0]
    /\ thread = [m \in Names |-> "spawned"]
    /\ worker = [m \in Names |-> [x \in Workers[m] |-> "off"]]
    /\ idle = [m \in Names |-> [x \in Workers[m] |-> 0]]
    /\ sup = [pc |-> "sleeping", alive |-> {}, next |-> 1, nap |-> 1]
    /\ silent = {}

-----------------------------------------------------------------------------
\* The module's thread: create_module_thread.

\* It writes "starting" under its key, with a TTL.
ThreadStart(m) ==
    /\ thread[m] = "spawned"
    /\ thread' = [thread EXCEPT ![m] = "starting"]
    /\ heartbeat' = [heartbeat EXCEPT ![m] = HeartbeatTtl]
    /\ UNCHANGED <<worker, idle, sup, silent>>

\* The factory has made the module; its key is written again and run() starts
\* its workers.  (A socket that cannot be bound ends the whole process, with the
\* supervisor in it: no behaviour of this module goes on from there.)
ThreadRun(m) ==
    /\ thread[m] = "starting"
    /\ thread' = [thread EXCEPT ![m] = "running"]
    /\ heartbeat' = [heartbeat EXCEPT ![m] = HeartbeatTtl]
    /\ worker' = [worker EXCEPT ![m] = [x \in Workers[m] |-> "beating"]]
    /\ UNCHANGED <<idle, sup, silent>>

\* run() has joined all its workers.
ThreadEnd(m) ==
    /\ thread[m] = "running"
    /\ \A x \in Workers[m] : worker[m][x] = "dead"
    /\ thread' = [thread EXCEPT ![m] = "dead"]
    /\ UNCHANGED <<heartbeat, worker, idle, sup, silent>>

-----------------------------------------------------------------------------
\* The loop of a worker.

\* Mutant: the TTL is not renewed, the key keeps the time it has left.
Beat_unrenewed(m, x) ==
    /\ worker[m][x] = "beating"
    /\ worker' = [worker EXCEPT ![m][x] = "waiting"]
    /\ idle' = [idle EXCEPT ![m][x] = 0]
    /\ UNCHANGED <<heartbeat, thread, sup, silent>>

\* Mutant: the TTL is added to what is left of the old one.
Beat_added(m, x) ==
    /\ worker[m][x] = "beating"
    /\ heartbeat' = [heartbeat EXCEPT ![m] = IF @ = 0 THEN 0 ELSE @ + HeartbeatTtl]
    /\ worker' = [worker EXCEPT ![m][x] = "waiting"]
    /\ idle' = [idle EXCEPT ![m][x] = 0]
    /\ UNCHANGED <<thread, sup, silent>>

\* write_ttl renews the key only while it exists, then the worker blocks in
\* recv_from or sleeps.
Beat(m, x) ==
    /\ worker[m][x] = "beating"
    /\ heartbeat' = [heartbeat EXCEPT ![m] = IF @ = 0 THEN 0 ELSE HeartbeatTtl]
    /\ worker' = [worker EXCEPT ![m][x] = "waiting"]
    /\ idle' = [idle EXCEPT ![m][x] = 0]
    /\ UNCHANGED <<thread, sup, silent>>

\* The sleep is over or a request has come; the worker has done its work and
\* goes round its loop.  More rounds within one interval change nothing.
Serve(m, x) ==
    /\ worker[m][x] = "waiting"
    /\ idle[m][x] >= 1
    /\ worker' = [worker EXCEPT ![m][x] = "beating"]
    /\ UNCHANGED <<heartbeat, thread, idle, sup, silent>>

\* The worker panics in its work: an unwrap() on a poisoned lock, for one.
Panic(m, x) ==
    /\ worker[m][x] = "waiting"
    /\ worker' = [worker EXCEPT ![m][x] = "dead"]
    /\ UNCHANGED <<heartbeat, thread, idle, sup, silent>>

-----------------------------------------------------------------------------
\* The supervisor: run_supervision_loop and check_and_respawn_modules.

\* It wakes up and lists the modules whose key exists.
Snapshot ==
    /\ sup.pc = "sleeping" /\ sup.nap = 0
    /\ sup' = [sup EXCEPT !.pc = "visiting", !.alive = {m \in Names : heartbeat[m] > 0}, !.next = 1]
    /\ UNCHANGED <<heartbeat, thread, worker, idle, silent>>

Visit ==
    /\ sup.pc = "visiting" /\ sup.next <= Len(Modules)
    /\ IF Modules[sup.next] \in sup.alive
       THEN sup' = [sup EXCEPT !.next = @ + 1]
       ELSE sup' = [sup EXCEPT !.pc = "joining"]
    /\ UNCHANGED <<heartbeat, thread, worker, idle, silent>>

\* Mutant: the dead thread is joined but not spawned again.
JoinAndRespawn_lost ==
    /\ sup.pc = "joining"
    /\ thread[Modules[sup.next]] = "dead"
    /\ sup' = [sup EXCEPT !.pc = "visiting", !.next = @ + 1]
    /\ UNCHANGED <<heartbeat, thread, worker, idle, silent>>

\* join() returns once the thread has ended; a new one takes its place.
JoinAndRespawn ==
    /\ sup.pc = "joining"
    /\ LET m == Modules[sup.next]
       IN  /\ thread[m] = "dead"
           /\ thread' = [thread EXCEPT ![m] = "spawned"]
           /\ worker' = [worker EXCEPT ![m] = [x \in Workers[m] |-> "off"]]
           /\ idle' = [idle EXCEPT ![m] = [x \in Workers[m] |-> 0]]
           /\ silent' = silent \ {m}
    /\ sup' = [sup EXCEPT !.pc = "visiting", !.next = @ + 1]
    /\ UNCHANGED heartbeat

Sleep ==
    /\ sup.pc = "visiting" /\ sup.next > Len(Modules)
    /\ sup' = [pc |-> "sleeping", alive |-> {}, next |-> 1, nap |-> 1]
    /\ UNCHANGED <<heartbeat, thread, worker, idle, silent>>

Supervise == Snapshot \/ Visit \/ JoinAndRespawn \/ Sleep

-----------------------------------------------------------------------------
\* An interval passes.  Threads that can run are not held up for that long: only
\* sleeps, joins and waits for a request last.

Resting ==
    /\ \/ sup.pc = "sleeping" /\ sup.nap > 0
       \/ sup.pc = "joining" /\ thread[Modules[sup.next]] # "dead"
    /\ \A m \in Names :
         /\ thread[m] \in {"running", "dead"}
         /\ thread[m] = "running" => \E x \in Workers[m] : worker[m][x] # "dead"
         /\ \A x \in Workers[m] :
              /\ worker[m][x] # "beating"
              /\ worker[m][x] = "waiting" /\ MaxIdle[m] # Unbounded => idle[m][x] < MaxIdle[m]

\* Some thread of the module is alive, and each has waited as long as a key lives.
AllIdle(m, waited) ==
    /\ \E x \in Workers[m] : worker[m][x] = "waiting"
    /\ \A x \in Workers[m] : worker[m][x] = "waiting" => waited[m][x] = HeartbeatTtl

Tick ==
    /\ Resting
    /\ heartbeat' = [m \in Names |-> IF heartbeat[m] = 0 THEN 0 ELSE heartbeat[m] - 1]
    /\ idle' = [m \in Names |-> [x \in Workers[m] |->
                   IF worker[m][x] = "waiting" /\ idle[m][x] < HeartbeatTtl
                   THEN idle[m][x] + 1 ELSE idle[m][x]]]
    /\ sup' = [sup EXCEPT !.nap = IF @ = 0 THEN 0 ELSE @ - 1]
    /\ silent' = silent \cup {m \in Names : heartbeat'[m] = 0 /\ AllIdle(m, idle')}
    /\ UNCHANGED <<thread, worker>>

Next ==
    \/ Tick
    \/ Supervise
    \/ \E m \in Names :
        \/ ThreadStart(m) \/ ThreadRun(m) \/ ThreadEnd(m)
        \/ \E x \in Workers[m] : Beat(m, x) \/ Serve(m, x) \/ Panic(m, x)

\* Threads that can run do run and time passes; a client whose module bounds its
\* idleness sends its requests, the others may stay silent.
Fairness ==
    /\ WF_vars(Tick)
    /\ WF_vars(Supervise)
    /\ \A m \in Names :
        /\ WF_vars(ThreadStart(m) \/ ThreadRun(m) \/ ThreadEnd(m))
        /\ \A x \in Workers[m] :
            /\ WF_vars(Beat(m, x))
            /\ MaxIdle[m] # Unbounded => WF_vars(Serve(m, x))

Spec == Init /\ [][Next]_vars /\ Fairness

-----------------------------------------------------------------------------

\* Heartbeats, threads and the supervisor of core/mod.rs take the values they
\* can take, and a key module:<name> lives for at most HeartbeatTtl.
TypeOK ==
    /\ heartbeat \in [Names -> 0..HeartbeatTtl]
    /\ thread \in [Names -> {"spawned", "starting", "running", "dead"}]
    /\ DOMAIN worker = Names /\ DOMAIN idle = Names
    /\ \A m \in Names :
         /\ worker[m] \in [Workers[m] -> {"off", "beating", "waiting", "dead"}]
         /\ idle[m] \in [Workers[m] -> 0..HeartbeatTtl]
    /\ sup \in [pc : {"sleeping", "visiting", "joining"}, alive : SUBSET Names,
                next : 1..(Len(Modules) + 1), nap : 0..1]
    /\ silent \subseteq Names

\* check_and_respawn_modules only joins threads that have ended or are about to: it
\* does not block on a module that is at work, which would leave every other module
\* unsupervised.  The exception are modules all of whose living workers were left
\* without a request for as long as a key lives: their key lapses, no write_ttl
\* brings it back, and they are joined alive.  One worker that has served in that
\* time is enough.
NeverJoinsLiving ==
    sup.pc = "joining" =>
        LET m == Modules[sup.next]
        IN  \/ thread[m] = "dead"
            \/ \A x \in Workers[m] : worker[m][x] = "dead"
            \/ m \in silent

\* A module whose thread has died runs again (check_and_respawn_modules), unless some
\* module was left without requests for as long as a key lives: the supervisor may then
\* wait for that one in join() for ever.
Respawned ==
    \A m \in Names : thread[m] = "dead" ~> (thread[m] = "running" \/ silent # {})

\* A module whose thread has died runs again, whatever the clients do.
AlwaysRespawned == \A m \in Names : thread[m] = "dead" ~> thread[m] = "running"

=============================================================================
