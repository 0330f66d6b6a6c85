------------------------------ MODULE MCArchive -----------------------------
(***************************************************************************)
(* Archive for TLC: a row, a key with two colons, the key that its path is *)
(* read back as, and a relationship.                                       *)
(***************************************************************************)
EXTENDS Archive

MCKey == {<<"t", ":", "1">>, <<"t", ":", "1", ":", "2">>, <<"t", ":", "1", "/", "2">>,
          <<"_rel", ":", "t">>}

MCRow == [value : {"a", "b"}, ttl : {0}] \cup [value : {"a"}, ttl : {1}]
            \cup [value : {Empty}, ttl : {0}]
=============================================================================
