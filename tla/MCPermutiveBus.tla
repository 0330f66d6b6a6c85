--------------------------- MODULE MCPermutiveBus ---------------------------
(***************************************************************************)
(* PermutiveBus with two workers that call everything, one key of the      *)
(* clients and one of the registry, on a disk that may fail and in a       *)
(* process that may die at any step.  The clock reaches beyond a promotion *)
(* and beyond the longest TTL.                                             *)
(***************************************************************************)
EXTENDS PermutiveBus

CONSTANTS w1, w2, k1, r1, v1

MCWorker == {w1, w2}
MCKey == {k1, r1}
MCRegistry == {r1}
MCValue == {v1}
MCDurations == {0, 1}
MCPrefixes == {{k1, r1}}
Methods ==
    {"read_value", "write_value", "delete_value", "delete_value_if_match", "write_ttl",
     "write_value_with_ttl", "read_ttl_remaining", "find_by_prefix"}
MCCalls == MCWorker \X Methods \X (MCKey \cup MCPrefixes)

=============================================================================
