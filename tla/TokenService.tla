---------------------------- MODULE TokenService ----------------------------
(***************************************************************************)
(* What the OIDC credential provider promises to the commands that use it: *)
(* a command that asks for a service account gets a token that the API      *)
(* made for that account, and unless it was made for this very command, or   *)
(* does not say when it ends, it lives for a margin longer.  The commands of  *)
(* UsesAlike may get one of another account that is named alike.             *)
(***************************************************************************)
EXTENDS Integers

CONSTANTS
    Jobs,       \* the commands that run
    Services,   \* the service accounts: an API host, a Workspace and a slug
    Tokens,     \* the tokens there can be
    UsesAlike,  \* the commands that take accounts that are named alike for one
    Alike,      \* account -> the accounts that are named like it
    Margin,     \* EXPIRY_MARGIN_SECONDS
    None

VARIABLES
    now,      \* the time
    minted,   \* the tokens that the API has made
    asked,    \* job -> the service that it asks for, or None
    own,      \* job -> the token made for it, or None
    answer    \* job -> the token that it got, or None

vars == <<now, minted, asked, own, answer>>

Init ==
    /\ now \in Nat /\ minted = {}
    /\ asked = [j \in Jobs |-> None] /\ own = [j \in Jobs |-> None]
    /\ answer = [j \in Jobs |-> None]

Ask(j, s) ==
    /\ asked[j] = None
    /\ asked' = [asked EXCEPT ![j] = s]
    /\ answer' = [answer EXCEPT ![j] = None]
    /\ UNCHANGED <<now, minted, own>>

Mint(j, t) ==
    /\ asked[j] # None /\ t.service = asked[j]
    /\ minted' = minted \cup {t} /\ own' = [own EXCEPT ![j] = t]
    /\ UNCHANGED <<now, asked, answer>>

Grantable(j, t) ==
    /\ t \in minted
    /\ t.service = asked[j] \/ (j \in UsesAlike /\ t.service \in Alike[asked[j]])
    /\ t = own[j] \/ (t.legible => t.expires - now >= Margin)

Grant(j, t) ==
    /\ asked[j] # None /\ Grantable(j, t)
    /\ answer' = [answer EXCEPT ![j] = t]
    /\ asked' = [asked EXCEPT ![j] = None] /\ own' = [own EXCEPT ![j] = None]
    /\ UNCHANGED <<now, minted>>

\* No token for this command, or the command ends.
Deny(j) ==
    /\ asked[j] # None
    /\ asked' = [asked EXCEPT ![j] = None] /\ own' = [own EXCEPT ![j] = None]
    /\ UNCHANGED <<now, minted, answer>>

Pass == now' > now /\ UNCHANGED <<minted, asked, own, answer>>

Next ==
    \/ \E j \in Jobs, s \in Services : Ask(j, s)
    \/ \E j \in Jobs, t \in Tokens : Mint(j, t) \/ Grant(j, t)
    \/ \E j \in Jobs : Deny(j)
    \/ Pass

Spec == Init /\ [][Next]_vars
=============================================================================
