---------------------------- MODULE MCSyncClient ----------------------------
(***************************************************************************)
(* SyncClient for TLC: a process that opens up to two connections and      *)
(* makes calls with one reply and calls with a stream of them.             *)
(***************************************************************************)
EXTENDS SyncClient

CONSTANTS k1, v1

MCCalls == [op : {"cad", "scan"}, key : {k1}, value : {v1}]
=============================================================================
