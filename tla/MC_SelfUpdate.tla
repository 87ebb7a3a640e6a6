---------------------------- MODULE MC_SelfUpdate ---------------------------
(* A small installation for TLC: 1 is _internal, 2 the executable, 3 a helper *)
(* that version 2 adds and version 3 drops, 4 a file of the user.             *)
EXTENDS SelfUpdate

Bundles == <<{1, 2}, {1, 2, 3}, {1, 2}>>
=============================================================================
