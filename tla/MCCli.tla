------------------------------- MODULE MCCli -------------------------------
(***************************************************************************)
(* Up to three arguments of every kind; modules with up to two proofs that *)
(* may fail to load or leave handles open.                                 *)
(***************************************************************************)
EXTENDS Cli

CONSTANTS m, e, n

MCWords == {m, e, n, "default"}

MCCommands == UNION {[1..k -> MCWords \cup Options] : k \in 0..3}

Proofs == {{}, {e}, {e, n}, {e, "default"}}

\* Modules that leave process.exitCode alone.
MCModules == [loads: BOOLEAN, proofs: Proofs, exitCode: {None}, handles: BOOLEAN]

\* Modules that set it.
MCSettingModules == [loads: {TRUE}, proofs: {{e}}, exitCode: {0, 1}, handles: {FALSE}]
=============================================================================
