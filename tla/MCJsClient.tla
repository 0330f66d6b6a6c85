----------------------------- MODULE MCJsClient -----------------------------
(***************************************************************************)
(* JsClient for TLC: one connection, two workers.                          *)
(***************************************************************************)
EXTENDS JsClient

CONSTANTS k1, v1

MCCalls == [op : {"read", "scan"}, key : {k1}, value : {v1}]
=============================================================================
