----------------------------- MODULE OidcTokens -----------------------------
(***************************************************************************)
(* The OIDC credential provider with its cache of tokens, as the commands   *)
(* of one user (the jobs of a build machine) run it side by side: the       *)
(* system keyring first, a file of the disk next, and else an exchange of   *)
(* the token of the environment for one of the API.  The name of an entry of *)
(* the keyring joins host, Workspace and slug with hyphens, which they have  *)
(* themselves, so services can share an entry; a file has a name of its own.  *)
(***************************************************************************)
EXTENDS Integers, FiniteSets

CONSTANTS
    Jobs,          \* the commands that run, each of which may be run again
    Services,      \* API host, Workspace and service slug
    Entries,       \* of the keyring
    Joined,        \* service -> the entry of the keyring that its name joins to
    UsesKeyring,   \* jobs without CLOUDSMITH_NO_KEYRING
    Legible,       \* whether the expiry of a token can be read: a subset of BOOLEAN
    Lifetime,      \* of a token
    Margin,        \* EXPIRY_MARGIN_SECONDS
    MaxTime,       \* bound: the last time that is looked at
    MaxMinted,     \* bound: tokens that the API makes
    None, Damaged

ASSUME OidcAssumption ==
    /\ UsesKeyring \subseteq Jobs /\ Legible \subseteq BOOLEAN
    /\ Lifetime \in Nat /\ Margin \in Nat /\ MaxTime \in Nat /\ MaxMinted \in Nat
    /\ Joined \in [Services -> Entries]
    /\ None \notin Services

Tokens == [service : Services, expires : 0 .. MaxTime + Lifetime, legible : Legible]

ASSUME NoToken == None \notin Tokens /\ Damaged \notin Tokens /\ None # Damaged

VARIABLES
    now, minted,
    keyring,             \* entry -> what it holds
    cached,              \* service -> its file of the disk
    stage, asked, own,   \* job -> where it is, what it asks for, what it exchanged
    answer               \* job -> what the provider returned

stores == <<keyring, cached>>
oidcVars == <<now, minted, stores, stage, asked, own, answer>>

\* A cache file can be there that is no JSON object.
OidcInit ==
    /\ now = 0 /\ minted = {}
    /\ keyring = [e \in Entries |-> None]
    /\ cached \in [Services -> {None, Damaged}]
    /\ stage = [j \in Jobs |-> "idle"] /\ asked = [j \in Jobs |-> None]
    /\ own = [j \in Jobs |-> None] /\ answer = [j \in Jobs |-> None]

Move(j, location) == stage' = [stage EXCEPT ![j] = location]

Return(j, t) ==
    /\ Move(j, "idle")
    /\ asked' = [asked EXCEPT ![j] = None] /\ own' = [own EXCEPT ![j] = None]
    /\ answer' = [answer EXCEPT ![j] = IF t = None THEN @ ELSE t]

\* The command comes to the provider with a Workspace and a service.
Ask(j, s) ==
    /\ stage[j] = "idle"
    /\ Move(j, "keyring")
    /\ asked' = [asked EXCEPT ![j] = s]
    /\ answer' = [answer EXCEPT ![j] = None]
    /\ UNCHANGED <<now, minted, stores, own>>

\* Mutant: a token is used up to its last second.
FreshToTheEnd(t) == t.legible => t.expires > now

\* A token without a legible expiry is taken at any time.
Fresh(t) == t.legible => t.expires - now >= Margin

-----------------------------------------------------------------------------
(* get_cached_token                                                         *)

\* Whose token it is was stored with it, and is not compared.
Entry(j) == keyring[Joined[asked[j]]]
File(j) == cached[asked[j]]

\* No entry, no keyring, or one that cannot be read
KeyringMiss(j) ==
    /\ stage[j] = "keyring"
    /\ Move(j, "disk")
    /\ UNCHANGED <<now, minted, stores, asked, own, answer>>

KeyringHit(j) ==
    /\ stage[j] = "keyring" /\ j \in UsesKeyring
    /\ Entry(j) # None /\ Fresh(Entry(j))
    /\ Return(j, Entry(j))
    /\ UNCHANGED <<now, minted, stores>>

KeyringExpired(j) ==
    /\ stage[j] = "keyring" /\ j \in UsesKeyring
    /\ Entry(j) # None /\ ~Fresh(Entry(j))
    /\ Move(j, "delete")
    /\ UNCHANGED <<now, minted, stores, asked, own, answer>>

\* By now the entry may be another one, and the keyring may refuse.
KeyringDelete(j) ==
    /\ stage[j] = "delete"
    /\ Move(j, "disk")
    /\ keyring' \in {keyring, [keyring EXCEPT ![Joined[asked[j]]] = None]}
    /\ UNCHANGED <<now, minted, cached, asked, own, answer>>

DiskMiss(j) ==
    /\ stage[j] = "disk" /\ File(j) = None
    /\ Move(j, "exchange")
    /\ UNCHANGED <<now, minted, stores, asked, own, answer>>

DiskHit(j) ==
    /\ stage[j] = "disk" /\ File(j) \notin {None, Damaged} /\ Fresh(File(j))
    /\ Return(j, File(j))
    /\ UNCHANGED <<now, minted, stores>>

DiskBad(j) ==
    /\ stage[j] = "disk" /\ File(j) # None
    /\ File(j) # Damaged => ~Fresh(File(j))
    /\ Move(j, "unlink")
    /\ UNCHANGED <<now, minted, stores, asked, own, answer>>

\* _remove_cache_file: whatever file is there by now
Unlink(j) ==
    /\ stage[j] = "unlink"
    /\ Move(j, "exchange")
    /\ cached' \in {cached, [cached EXCEPT ![asked[j]] = None]}
    /\ UNCHANGED <<now, minted, keyring, asked, own, answer>>

-----------------------------------------------------------------------------
(* OidcProvider.resolve                                                     *)

\* No detector matches, it has no token, or the API refuses the exchange.
NoExchange(j) ==
    /\ stage[j] = "exchange"
    /\ Return(j, None)
    /\ UNCHANGED <<now, minted, stores>>

Exchange(j) ==
    /\ stage[j] = "exchange" /\ Cardinality(minted) < MaxMinted
    /\ \E l \in Legible :
         LET t == [service |-> asked[j], expires |-> now + Lifetime, legible |-> l]
         IN minted' = minted \cup {t} /\ own' = [own EXCEPT ![j] = t]
    /\ Move(j, "store")
    /\ UNCHANGED <<now, stores, asked, answer>>

\* Mutant: the file has the joined name too.
StoreUnderJoined(j) ==
    /\ stage[j] = "store"
    /\ \/ /\ j \in UsesKeyring
          /\ keyring' = [keyring EXCEPT ![Joined[asked[j]]] = own[j]] /\ UNCHANGED cached
       \/ /\ cached' = [s \in Services |-> IF Joined[s] = Joined[asked[j]] THEN own[j] ELSE cached[s]]
          /\ UNCHANGED keyring
    /\ Return(j, own[j])
    /\ UNCHANGED <<now, minted>>

\* store_cached_token: in the keyring or else on the disk, or neither will do.
Store(j) ==
    /\ stage[j] = "store"
    /\ \/ /\ j \in UsesKeyring
          /\ keyring' = [keyring EXCEPT ![Joined[asked[j]]] = own[j]] /\ UNCHANGED cached
       \/ cached' = [cached EXCEPT ![asked[j]] = own[j]] /\ UNCHANGED keyring
       \/ UNCHANGED stores
    /\ Return(j, own[j])
    /\ UNCHANGED <<now, minted>>

JobKilled(j) ==
    /\ stage[j] # "idle"
    /\ Return(j, None)
    /\ UNCHANGED <<now, minted, stores>>

Tick ==
    /\ now < MaxTime /\ now' = now + 1
    /\ UNCHANGED <<minted, stores, stage, asked, own, answer>>

-----------------------------------------------------------------------------
Step(j) == KeyringMiss(j) \/ KeyringHit(j) \/ KeyringExpired(j) \/ KeyringDelete(j)
           \/ DiskMiss(j) \/ DiskHit(j) \/ DiskBad(j) \/ Unlink(j)
           \/ NoExchange(j) \/ Exchange(j) \/ Store(j)

OidcNext ==
    \/ \E j \in Jobs, s \in Services : Ask(j, s)
    \/ \E j \in Jobs : Step(j) \/ JobKilled(j)
    \/ Tick

OidcSpec == OidcInit /\ [][OidcNext]_oidcVars

-----------------------------------------------------------------------------
(* Properties                                                               *)

\* Every variable has its type; a job at rest asks for nothing.
OidcTypeOK ==
    /\ now \in 0 .. MaxTime /\ minted \subseteq Tokens
    /\ keyring \in [Entries -> Tokens \cup {None}]
    /\ cached \in [Services -> Tokens \cup {None, Damaged}]
    /\ stage \in [Jobs -> {"idle", "keyring", "delete", "disk", "unlink", "exchange", "store"}]
    /\ asked \in [Jobs -> Services \cup {None}]
    /\ own \in [Jobs -> Tokens \cup {None}] /\ answer \in [Jobs -> Tokens \cup {None}]
    /\ \A j \in Jobs : asked[j] = None <=> stage[j] = "idle"
    /\ \A j \in Jobs : stage[j] = "store" => own[j] # None

\* A file of the disk holds a token that the API made for its service, an entry of
\* the keyring one for a service whose name joins to it, and a job has exchanged one
\* for what it asks for: for all that jobs overwrite and remove each other's entries,
\* no token comes to stand elsewhere.
EntriesAreGenuine ==
    /\ \A e \in Entries : keyring[e] # None => keyring[e] \in minted /\ Joined[keyring[e].service] = e
    /\ \A s \in Services :
         cached[s] \notin {None, Damaged} => cached[s] \in minted /\ cached[s].service = s
    /\ \A j \in Jobs : stage[j] = "store" => own[j] \in minted /\ own[j].service = asked[j]

\* The provider, with its caches, the jobs that race on them, kills and damaged
\* files, gives out what a service without a cache would: a token for the service
\* asked for, made for this job or good for a margin longer, if its expiry can be
\* read.  Only the keyring mixes services up, and only those of one entry.
Promise == INSTANCE TokenService WITH
               UsesAlike <- UsesKeyring,
               Alike <- [s \in Services |-> {r \in Services : Joined[r] = Joined[s]}]
Implements == Promise!Spec
=============================================================================
