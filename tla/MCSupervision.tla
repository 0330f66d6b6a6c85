--------------------------- MODULE MCSupervision ----------------------------
(***************************************************************************)
(* Supervision of a server with two workers, beside a placeholder or the   *)
(* CLI.                                                                    *)
(***************************************************************************)
EXTENDS Supervision, TLC

CONSTANTS server, cli, placeholder

\* A server whose clients may stay silent, beside a placeholder, which sleeps one interval
\* between two heartbeats and may be one interval late.
MixedModules == <<server, placeholder>>
MixedWorkers == (server :> {1, 2}) @@ (placeholder :> {1})
MixedIdle == (server :> Unbounded) @@ (placeholder :> 2)

\* The modules main.rs registers.
MainModules == <<server, cli>>
MainWorkers == (server :> {1, 2}) @@ (cli :> {1})
MainIdle == (server :> Unbounded) @@ (cli :> Unbounded)

=============================================================================
