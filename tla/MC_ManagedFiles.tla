-------------------------- MODULE MC_ManagedFiles ---------------------------
(* Two hosts, two directories and every program, for TLC.                   *)
EXTENDS ManagedFiles

MCKinds == {"docker", "cargo", "pnpm", "terraform", "mcp"}
MCHosts == {"owned", "custom"}
MCDirs  == {"bin", "other"}
\* A client's file is made by it, and may change under each of the attempts.
MCEdits == [k \in MCKinds |-> IF k = "mcp" THEN 4 ELSE 2]
=============================================================================
