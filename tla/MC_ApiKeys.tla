----------------------------- MODULE MC_ApiKeys -----------------------------
(* Two profiles; a line of one of them is written in another notation.     *)
EXTENDS ApiKeys

MCProfiles == {"default", "work"}
MCUnmatched == {<<"first", "work">>}
=============================================================================
