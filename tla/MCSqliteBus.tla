---------------------------- MODULE MCSqliteBus -----------------------------
(***************************************************************************)
(* SqliteBus for TLC: two threads, a slot and its clone; two namespaces of *)
(* one key each, of which the empty one has a file that a listing passes   *)
(* over.                                                                   *)
(***************************************************************************)
EXTENDS SqliteBus

CONSTANTS w1, w2, k1, k2, v1, a, empty

MCWorker == {w1, w2}
MCKey == {k1, k2}
MCValue == {v1}
MCNamespace == [k \in MCKey |-> IF k = k1 THEN a ELSE empty]
MCListed == {a}

MCSlots == {0, 1}
MCClones == {<<0, 1>>}

\* One thread writes, the other reads, claims and scans.
MCCalls ==
    {<<w1, "write", k1>>, <<w1, "write", k2>>, <<w1, "delete", k2>>,
     <<w2, "match", k1>>, <<w2, "read", k2>>, <<w2, "find", k1>>}
=============================================================================
