-------------------------- MODULE MC_ManageCommands -------------------------
(* One management command against a small repository that others change.   *)
EXTENDS ManageCommands

CONSTANTS team, user

MCNameable == {team, user}
=============================================================================
