------------------------------- MODULE History ------------------------------
(***************************************************************************)
(* What the clients of the two tiers see.  Documentation and clients think *)
(* of one map with lifetimes: a value without a TTL stays until it is      *)
(* replaced or deleted and survives a restart, a value with a TTL stays    *)
(* until its deadline and does not.  History variables run that map beside *)
(* the tiers.  As calls overlap there is no one map, but a set of possible *)
(* ones, each with the calls that have taken effect on it and what they    *)
(* answer: a call that returns keeps those that agree with its reply.      *)
(*                                                                         *)
(* Not every workload has such a map.  For those that mix the tiers a      *)
(* weaker account is kept: the values posted less the claims won.          *)
(***************************************************************************)
EXTENDS PermutiveBus

CONSTANTS
    Workloads,   \* [methods, linear]: per worker the methods it calls, each named by
                 \* its first step, and whether the possible maps are followed
    MaxCredit    \* bound: values posted and not yet claimed

ASSUME WorkerAssumption == IsFiniteSet(Worker)
ASSUME WorkloadsAssumption == \A load \in Workloads : load.linear \in BOOLEAN

VARIABLES
    workload,
    pending,     \* per worker: the call it is in, as it began
    possible,    \* per key: [map, answer], with the answers of the calls in progress
    clean,       \* per worker: no update of the key has overlapped its read
    suspect,     \* per key: until when a copy that may be stale is in the transient tier
    sure,        \* per worker: no stale copy can have been there during its call
    credit       \* per key: values posted less claims won

historyVars == <<workload, pending, possible, clean, suspect, sure, credit>>
allVars == <<vars, historyVars>>

Reads == {"read_transient", "find_transient", "remaining"}

\* The call f is about key k.
About(f, k) == IF f.pc \in Scanning THEN k \in f.key ELSE f.key = k

Updating(f, k) == f.pc \notin Reads \cup {"idle"} /\ About(f, k)

\* A read that an update overlapped has stored its copy and not yet stamped it.
StoredUnclean(w, k) == frame[w].pc = "stamp" /\ frame[w].key = k /\ ~clean[w]

Doubtful(k) == suspect[k] > now \/ \E w \in Worker : StoredUnclean(w, k)

\* The read of w stamps a copy that may be stale, its own or the one of another read.
StampsDoubtful(w, k) == frame[w].pc = "stamp" /\ frame[w].key = k /\ Doubtful(k)

-----------------------------------------------------------------------------
\* The map with lifetimes

\* What the call f does to the map m of key k at instant t, and what it answers.
Meaning(f, m, k, t) ==
    LET as(map, answer) == [map |-> At(map, t), answer |-> answer]
    IN  CASE f.pc \in {"read_transient", "find_transient"} -> as(m, Look(m, k, None))
          [] f.pc = "remaining"        -> as(m, Left(m, k, t, None))
          [] f.pc = "write_persistent" -> as(Put(m, k, f.value), None)
          [] f.pc = "delete_transient" -> as(Remove(m, k), None)
          [] f.pc = "match_transient"  -> IF Holds(m, k, f.value) THEN as(Remove(m, k), TRUE)
                                                                  ELSE as(m, FALSE)
          [] f.pc = "ttl_read"         -> as(SetDeadline(m, k, t + f.ttl), None)
          [] f.pc = "timed_clear"      -> as(PutUntil(m, k, f.value, t + f.ttl), None)

\* A call that has taken effect has one answer; the others, and the workers that are in
\* no call about the key, have none.
Open == << >>

\* What can become of h at instant t when the call of w takes effect, too.
Takes(h, w, calls, k, t) ==
    LET m == Meaning(calls[w], h.map, k, t)
    IN  [map |-> m.map, answer |-> [h.answer EXCEPT ![w] = <<m.answer>>]]

\* The calls in progress about k that have not taken effect in h.
OpenIn(h, calls, k) ==
    {w \in Worker : calls[w].pc # "idle" /\ About(calls[w], k) /\ h.answer[w] = Open}

\* The possibilities H, and those in which one more call has taken effect.
OneMore(H, calls, k, t) ==
    H \cup UNION {{Takes(h, w, calls, k, t) : w \in OpenIn(h, calls, k)} : h \in H}

\* The possibilities H at instant t, and those that calls in progress make of them.
Possibly(H, calls, k, t) ==
    LET more[n \in 0..Cardinality(Worker)] ==
            IF n = 0 THEN H ELSE OneMore(more[n - 1], calls, k, t)
    IN  more[Cardinality(Worker)]

\* What w was answered about k.
Answer(w, k) == IF frame[w].pc = "find_persistent" THEN Get(reply'[w], k, None) ELSE reply'[w]

-----------------------------------------------------------------------------

HistoryInit ==
    /\ Init
    /\ workload \in Workloads
    /\ pending = [w \in Worker |-> Idle]
    /\ possible = [k \in Key |-> {[map |-> EmptyMap, answer |-> [w \in Worker |-> Open]]}]
    /\ clean = [w \in Worker |-> TRUE]
    /\ suspect = [k \in Key |-> 0]
    /\ sure = [w \in Worker |-> TRUE]
    /\ credit = [k \in Key |-> 0]

\* Who may have met a stale copy, after a step.
Doubts(started) ==
    sure' = [w \in Worker |->
        /\ w \in started \/ sure[w]
        /\ \A k \in Key : About(pending'[w], k) => ~Doubtful(k)']

\* A call begins.  A read that it joins as an update, or joins an update as, is unclean.
Begin(w) ==
    /\ \/ \E k \in Key : InvokeRead(w, k) \/ InvokeReadTtl(w, k) \/ InvokeUpdate(w, k)
       \/ \E p \in Prefixes : InvokeFind(w, p)
    /\ frame'[w].pc \in workload.methods[w]
    /\ UNCHANGED <<workload, suspect>>
    /\ IF workload.linear
       THEN /\ pending' = [pending EXCEPT ![w] = frame'[w]]
            /\ possible' = [k \in Key |-> Possibly(possible[k], pending', k, now)]
            /\ clean' = [x \in Worker |->
                   /\ x = w \/ clean[x]
                   /\ \A k \in Key, y \in Worker \ {x} :
                        ~(w \in {x, y} /\ About(pending'[x], k) /\ Updating(pending'[y], k))]
            /\ Doubts({w})
            /\ UNCHANGED credit
       ELSE /\ LET f == frame'[w]
                   k == f.key
               IN  credit' = IF f.pc \in {"write_persistent", "timed_clear"}
                             THEN [credit EXCEPT ![k] = @ + 1] ELSE credit
            /\ \A k \in Key : credit'[k] <= MaxCredit
            /\ UNCHANGED <<pending, possible, clean, sure>>

\* A call goes on...
Continue(w) ==
    /\ Step(w)
    /\ frame'[w] # Idle
    /\ UNCHANGED <<workload, pending, possible, clean, suspect, credit>>
    /\ IF workload.linear THEN Doubts({}) ELSE UNCHANGED sure

\* ... or returns.  The possible maps are those on which it had this answer.
End(w) ==
    /\ Step(w)
    /\ frame'[w] = Idle
    /\ UNCHANGED workload
    /\ IF workload.linear
       THEN /\ pending' = [pending EXCEPT ![w] = Idle]
            /\ possible' = [k \in Key |->
                   IF ~About(pending[w], k) THEN possible[k]
                   ELSE {[map |-> h.map, answer |-> [h.answer EXCEPT ![w] = Open]] : h \in
                           {g \in possible[k] :
                               g.answer[w] # Open /\ (sure[w] => g.answer[w] = <<Answer(w, k)>>)}}]
            /\ clean' = [clean EXCEPT ![w] = TRUE]
            /\ suspect' = [k \in Key |->
                   IF StampsDoubtful(w, k) THEN now + CachePromotion ELSE suspect[k]]
            /\ Doubts({w})
            /\ UNCHANGED credit
       ELSE /\ credit' = IF In(w, "match_persistent") /\ reply'[w]
                         THEN [credit EXCEPT ![frame[w].key] = @ - 1] ELSE credit
            /\ UNCHANGED <<pending, possible, clean, suspect, sure>>

Pass ==
    /\ Tick
    /\ possible' = [k \in Key |->
           Possibly({[map |-> At(h.map, now'), answer |-> h.answer] : h \in possible[k]},
                    pending, k, now')]
    /\ UNCHANGED <<workload, pending, clean, suspect, sure, credit>>

\* A restart loses the timed values.  A call it interrupts may have taken effect or not.
Restart ==
    /\ Crash
    /\ pending' = [w \in Worker |-> Idle]
    /\ possible' = [k \in Key |->
           {[map |-> Keep(h.map, {x \in DOMAIN h.map : h.map[x].deadline = Never}),
             answer |-> [w \in Worker |-> Open]] : h \in possible[k]}]
    /\ clean' = [w \in Worker |-> TRUE]
    /\ suspect' = [k \in Key |-> 0]
    /\ sure' = [w \in Worker |-> TRUE]
    /\ UNCHANGED <<workload, credit>>

HistoryNext ==
    \/ Pass
    \/ Restart
    \/ \E w \in Worker : Begin(w) \/ Continue(w) \/ End(w)

HistorySpec == HistoryInit /\ [][HistoryNext]_allVars

-----------------------------------------------------------------------------

\* What a read of k would find now.
Visible(k) == Look(transient, k, Get(persistent, k, None))

\* The tiers hold the map m of key k: a row exactly if the value is meant to last, and
\* else an entry with the right deadline.
Hold(m, k) ==
    /\ Visible(k) = Look(m, k, None)
    /\ k \in DOMAIN persistent <=> k \in DOMAIN m /\ m[k].deadline = Never
    /\ k \in DOMAIN m /\ m[k].deadline # Never => k \in DOMAIN transient /\ transient[k] = m[k]

\* The calls of permutive_bus.rs on a key are linearizable: what they return is what they
\* would return if each took effect at one instant between its beginning and its end, a
\* restart included; only where a copy may be stale are replies left out.
Linearizable == \A k \in Key \ Registry : possible[k] # {}

\* While no update of a key is under way and no stale copy of it is left, which is so at
\* the latest CachePromotion after the last read that stamped one, the tiers hold one of
\* the possible maps.  So a restart loses the timed keys and nothing else, and a promotion
\* to the transient tier never changes what is stored.
Coherent ==
    workload.linear =>
        \A k \in Key \ Registry :
            (~Doubtful(k) /\ \A w \in Worker : ~Updating(pending[w], k))
                => \E h \in possible[k] : Hold(h.map, k)

\* A job is claimed at most once: no more calls of delete_value_if_match succeed on a key
\* than values were written to it, however claims, writes to either tier, deletes, expiries
\* and a restart interleave.  (The keys of the registry come back with a restart.)
AtomicClaim == \A k \in Key \ Registry : credit[k] >= 0

=============================================================================
