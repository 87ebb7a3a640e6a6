--------------------------- MODULE MC_UpdateCheck ---------------------------
(* Two invocations at once: one of any kind, and one that may print the     *)
(* notice.                                                                  *)
EXTENDS UpdateCheck, TLC

CONSTANTS p1, p2
MCProcs == {p1, p2}
MCKinds == (p1 :> CommandKinds) @@ (p2 :> {"interactive"})
=============================================================================
