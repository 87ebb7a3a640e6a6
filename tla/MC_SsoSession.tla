--------------------------- MODULE MC_SsoSession ---------------------------
(* Instances of SsoSession for TLC. *)
EXTENDS SsoSession, TLC

CONSTANTS work, legacy, p1, p2

\* One process per profile: `work` and the unscoped default profile.
TwoProfiles == (p1 :> work) @@ (p2 :> legacy)

\* Two processes of the default profile, which no step tells apart.
SameProfile == (p1 :> legacy) @@ (p2 :> legacy)
Alike == Permutations({p1, p2})
=============================================================================
