------------------------------- MODULE MCTric -------------------------------
(***************************************************************************)
(* Tric on a small instance: three keys that can share an instant (so that   *)
(* swap_remove meets the first, a middle, the last and the only element), a zero duration, and  *)
(* deadlines on both sides of the end of the clock.                        *)
(***************************************************************************)
EXTENDS Tric

CONSTANTS k1, k2, k3, v1, v2

MCKey == {k1, k2, k3}
MCValue == {v1, v2}
MCPrefixes == {{k1, k2}, {k1, k2, k3}}
MCDurations == {0, 1, 2}

=============================================================================
