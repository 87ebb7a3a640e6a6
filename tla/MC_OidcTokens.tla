--------------------------- MODULE MC_OidcTokens ----------------------------
(* Two jobs and three services, two of which share an entry of the keyring,  *)
(* as acme/dev-ci and acme-dev/ci do.                                        *)
EXTENDS OidcTokens, TLC

CONSTANTS j1, j2, s1, s2, s3
MCJobs == {j1, j2}
MCServices == {s1, s2, s3}
MCEntries == {"shared", "single"}
MCJoined == [s \in MCServices |-> IF s = s3 THEN "single" ELSE "shared"]
MCLegible == BOOLEAN
MCSymmetry == {f @@ g : f \in Permutations(MCJobs), g \in Permutations({s1, s2})}
=============================================================================
