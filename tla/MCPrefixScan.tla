---------------------------- MODULE MCPrefixScan ----------------------------
(***************************************************************************)
(* Keys of up to two bytes over {0, 1}: every byte string that a prefix of *)
(* that length can tell apart, the one with no successor included.         *)
(***************************************************************************)
EXTENDS PrefixScan

MCBytes == 0..1
MCNamespaces == {1, 2}

=============================================================================
