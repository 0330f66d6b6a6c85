----------------------------- MODULE MCHistory ------------------------------
(***************************************************************************)
(* History for TLC: one key, three threads, and the workloads for which    *)
(* the tiers keep their promises.                                          *)
(***************************************************************************)
EXTENDS History

CONSTANTS w1, w2, w3, k1, v1, v2

MCWorker == {w1, w2, w3}
MCKey == {k1}
MCValue == {v1, v2}
MCDurations == {0, 1}
MCPrefixes == {MCKey}
NoKeys == {}

AllCalls ==
    (MCWorker \X {"read_value", "write_value", "delete_value", "delete_value_if_match", "write_ttl",
                  "write_value_with_ttl", "read_ttl_remaining"} \X MCKey)
    \cup (MCWorker \X {"find_by_prefix"} \X MCPrefixes)

\* The methods by their first steps.
Read       == "read_transient"
Write      == "write_persistent"
Delete     == "delete_transient"
Claim      == "match_transient"
SetTtl     == "ttl_read"
WriteTimed == "timed_clear"
AskTtl     == "remaining"
Find       == "find_transient"

Load(linear, one, two, three) ==
    [linear |-> linear,
     methods |-> [w \in MCWorker |-> CASE w = w1 -> one [] w = w2 -> two [] w = w3 -> three]]

\* One thread does everything, alone or beside one that asks for the TTL; it writes to
\* both tiers beside deletes; threads write and read, or claim, persistent values; one
\* claims beside a reader; both do all kinds of things to timed values.
Followed == {
    Load(TRUE, {Read, Write, Delete, Claim, SetTtl, WriteTimed, Find}, {}, {}),
    Load(TRUE, {Write, Delete, Claim, SetTtl, WriteTimed, Find}, {AskTtl}, {}),
    Load(TRUE, {Write, WriteTimed, Delete}, {Delete}, {}),
    Load(TRUE, {Write, Delete, Read}, {Write, Delete, Read}, {}),
    Load(TRUE, {Write, Delete, Claim, Find}, {Write, Delete, Claim, Find}, {}),
    Load(TRUE, {Write, Delete, Claim}, {Read}, {}),
    Load(TRUE, {WriteTimed, Read, Delete, Claim, SetTtl}, {WriteTimed, Claim, SetTtl, AskTtl, Find}, {})}

\* Jobs are posted in either tier, claimed and withdrawn by three threads.
Jobs == LET all == {Write, WriteTimed, Claim, Delete} IN Load(FALSE, all, all, all)

MCWorkloads == Followed \cup {Jobs}

\* Jobs are also looked at.
ReadJobs == {LET all == {Write, Claim, Read} IN Load(FALSE, all, all, {})}
=============================================================================
