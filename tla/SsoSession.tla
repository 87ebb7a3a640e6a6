----------------------------- MODULE SsoSession -----------------------------
(***************************************************************************)
(* The SAML session that the CLI keeps in the system keyring, and the CLI  *)
(* invocations that read, renew, replace and delete it:                    *)
(*   core/keyring.py, core/sso.py,                                         *)
(*   core/credentials/providers/keyring_provider.py,                       *)
(*   cli/commands/auth.py, cli/webserver.py, cli/commands/logout.py.       *)
(*                                                                         *)
(* Every keyring call of the code is a step of its own, because another    *)
(* CLI process may run between two of them.  The API that rotates refresh  *)
(* tokens is external: a grant is a number, its access token and its       *)
(* refresh token both bear it, and `live` holds the refresh tokens that    *)
(* the API still accepts.                                                  *)
(***************************************************************************)
EXTENDS Integers, FiniteSets

CONSTANTS
    Procs,       \* CLI invocations that can be under way
    Slots,       \* keyring entry families: one per profile
    Legacy,      \* the slot of the unscoped entries (no profile, or "default")
    SlotOf,      \* the slot of the profile each process runs with
    MaxGrants,   \* bound: grants the API makes in a behaviour
    MaxRunning,  \* bound: invocations under way at once (1: one after another)
    Commands,    \* what users run, a subset of CommandKinds
    Expiries,    \* phases a newly granted access token may be in
    Faults       \* failures that may happen, a subset of FaultKinds

CommandKinds == {"resolve", "auth", "login", "logout"}

\* crash: the process is killed; read, write, delete: a keyring call raises
\* KeyringError; network: a request or its answer is lost; api: the API answers
\* with an error that is no rejection, or with no usable tokens; revoke: the API
\* ends a session; no_refresh: a grant carries no refresh token; unexpected: a
\* renewal raises an exception of another kind.
FaultKinds == {"crash", "read", "write", "delete", "network", "api", "revoke",
               "no_refresh", "unexpected"}

\* How far an access token is from its expiry, as the code compares it: more than
\* 30 minutes, at most 30 minutes, past but within the 30 s leeway, past the
\* leeway.  An opaque token has no readable expiry.
Phases == {"fresh", "due", "lapsed", "dead", "opaque"}

\* The age of an attempted_at entry against the 5 and the 30 minute intervals.
Ages == {"none", "recent", "past5", "past30"}

Grants == 1 .. MaxGrants
None   == 0                     \* no token, or an entry that is absent
Tokens == Grants \cup {None}

ASSUME SsoAssumption ==
    /\ Legacy \in Slots
    /\ IsFiniteSet(Procs)
    /\ SlotOf \in [Procs -> Slots]
    /\ MaxGrants \in Nat \ {0}
    /\ MaxRunning \in Nat
    /\ Commands \subseteq CommandKinds
    /\ Expiries \subseteq Phases
    /\ Faults \subseteq FaultKinds

VARIABLES
    access, refresh, attempted,  \* the keyring: one entry of each kind per slot
    minted, live, paired, phase, \* the API: grants made, refresh tokens accepted,
                                 \* grants with a refresh token, token phases
    pc, cmd, at,                 \* per process: location, command, slot addressed
    held, acc, ref, cur, got,    \* tokens in its memory
    why, round, deleted,         \* reason to mark or sweep; sweep round, any success
    status, cred                 \* its outcome

keyring == <<access, refresh, attempted>>
api     == <<minted, live, paired, phase>>
memory  == <<held, acc, ref, cur, got>>
sweep   == <<round, deleted>>
outcome == <<status, cred>>
vars    == <<keyring, api, pc, cmd, at, memory, why, sweep, outcome>>

Locations ==
    {"idle", "held", "throttle", "loadAccess", "loadRefresh", "post",
     "reloadAccess", "reloadRefresh", "storeRefresh", "storeAccess", "mark",
     "sweepAccess", "sweepRefresh", "sweepAttempted", "browser", "check", "done"}

Reasons == {"none", "due", "opaque", "renewed", "login", "failed", "unreachable",
            "unrenewable", "unexpected", "rejected", "logout"}

Statuses == {"none", "renewed", "current", "missing", "unrenewable", "rejected",
             "failed", "unexpected", "unchanged", "loggedIn", "notFound",
             "removed", "notRemoved"}


Init ==
    /\ pc = [p \in Procs |-> "idle"] /\ cmd = [p \in Procs |-> "none"]
    /\ at = SlotOf
    /\ held = [p \in Procs |-> None] /\ acc = held /\ ref = held /\ cur = held
    /\ got = held
    /\ why = [p \in Procs |-> "none"]
    /\ round = [p \in Procs |-> 1] /\ deleted = [p \in Procs |-> FALSE]
    /\ status = [p \in Procs |-> "none"] /\ cred = held
    /\ \E start \in Slots, begun \in {0, 1}, first \in Phases, age \in Ages :
        \* Either an empty keyring, or the session of an earlier login in start.
        /\ access    = [s \in Slots |-> IF s = start THEN begun ELSE None]
        /\ refresh   = access
        /\ attempted = [s \in Slots |->
                            IF s = start /\ begun = 1 THEN age ELSE "none"]
        /\ minted = begun
        /\ live   = 1 .. begun
        /\ paired = [g \in Grants |-> g <= begun]
        /\ phase  = [g \in Grants |-> IF g <= begun THEN first ELSE "fresh"]

-----------------------------------------------------------------------------
(* The keyring helpers                                                      *)

\* Mutant: a token that is present counts as valid.
ValidIfPresent(token) == token # None

\* access_token_is_valid: present and not provably expired
Valid(token) == token # None /\ phase[token] # "dead"

\* _get_value: the entry, or nothing when the backend raises KeyringError
Reads(entry, absent) ==
    {entry} \cup (IF "read" \in Faults THEN {absent} ELSE {})

\* _get_value_with_fallback: what the read of the current slot ends with.  A
\* missing scoped entry ends nothing: ReadFallsBack turns to the legacy entry.
Found(p, entry, absent) ==
    {v \in Reads(entry, absent) : v # absent \/ at[p] = Legacy}

\* The process goes on at location, at the entries of its own profile.
Address(p, location) ==
    /\ pc' = [pc EXCEPT ![p] = location]
    /\ at' = [at EXCEPT ![p] = SlotOf[p]]

\* The command ends with a result and the token it serves, if any.
Conclude(p, result, token) ==
    /\ status' = [status EXCEPT ![p] = result]
    /\ cred'   = [cred EXCEPT ![p] = token]
    /\ Address(p, "done")

\* The caller of renew_sso_session uses its result: the provider serves a token
\* or none; `cloudsmith auth` stops if the session is usable or the API could not
\* be reached, and opens a browser otherwise.
Report(p, result, token) ==
    IF /\ cmd[p] = "auth"
       /\ result \notin {"renewed", "current"}
       /\ ~(result = "failed" /\ why[p] = "unreachable")
    THEN Address(p, "browser") /\ UNCHANGED outcome
    ELSE Conclude(p, result, token)

-----------------------------------------------------------------------------
(* Reading                                                                  *)

Begin(p) ==
    /\ pc[p] = "idle"
    /\ Cardinality({q \in Procs : pc[q] # "idle"}) < MaxRunning
    /\ \E c \in Commands :
        /\ cmd' = [cmd EXCEPT ![p] = c]
        /\ Address(p, CASE c = "resolve" -> "held"
                        [] c = "auth"    -> "loadAccess"
                        [] c = "login"   -> "browser"
                        [] c = "logout"  -> "check")
    /\ UNCHANGED <<keyring, api, memory, why, sweep, outcome>>

ReadFallsBack(p) ==
    /\ at[p] # Legacy
    /\ \/ /\ pc[p] \in {"held", "loadAccess", "reloadAccess"}
          /\ None \in Reads(access[at[p]], None)
       \/ /\ pc[p] \in {"loadRefresh", "reloadRefresh"}
          /\ None \in Reads(refresh[at[p]], None)
       \/ /\ pc[p] = "throttle"
          /\ "none" \in Reads(attempted[at[p]], "none")
    /\ at' = [at EXCEPT ![p] = Legacy]
    /\ UNCHANGED <<keyring, api, pc, cmd, memory, why, sweep, outcome>>

\* KeyringProvider.resolve reads the access token; should_refresh_access_token
\* compares its expiry with the clock.
ReadHeld(p) ==
    /\ pc[p] = "held"
    /\ \E token \in Found(p, access[at[p]], None) :
        /\ held' = [held EXCEPT ![p] = token]
        /\ \/ token = None /\ Conclude(p, "missing", None) /\ UNCHANGED why
           \/ /\ token # None /\ phase[token] = "fresh"
              /\ Conclude(p, "unchanged", token) /\ UNCHANGED why
           \/ /\ token # None /\ phase[token] \in {"lapsed", "dead"}
              /\ Address(p, "loadAccess") /\ UNCHANGED <<why, outcome>>
           \/ /\ token # None /\ phase[token] \in {"due", "opaque"}
              /\ Address(p, "throttle") /\ UNCHANGED outcome
              /\ why' = [why EXCEPT ![p] = phase[token]]
    /\ UNCHANGED <<keyring, api, cmd, acc, ref, cur, got, sweep>>

\* The last attempt decides whether it is time for another one.
ReadAttempted(p) ==
    /\ pc[p] = "throttle"
    /\ \E age \in Found(p, attempted[at[p]], "none") :
        IF age \in {"none", "past30"} \/ (age = "past5" /\ why[p] = "due")
        THEN Address(p, "loadAccess") /\ UNCHANGED outcome
        ELSE Conclude(p, "unchanged", held[p])
    /\ UNCHANGED <<keyring, api, cmd, memory, why, sweep>>

\* renew_sso_session loads the access token, which may be another by now.
LoadAccess(p) ==
    /\ pc[p] = "loadAccess"
    /\ \E token \in Found(p, access[at[p]], None) :
        /\ acc' = [acc EXCEPT ![p] = token]
        /\ IF token = None
           THEN Report(p, "missing", IF Valid(held[p]) THEN held[p] ELSE None)
           ELSE Address(p, "loadRefresh") /\ UNCHANGED outcome
    /\ UNCHANGED <<keyring, api, cmd, held, ref, cur, got, why, sweep>>

\* Mutant: the legacy refresh token is tried first.
LoadRefreshLegacyFirst(p) ==
    /\ pc[p] = "loadRefresh"
    /\ LET token == IF refresh[Legacy] # None THEN refresh[Legacy] ELSE refresh[SlotOf[p]]
       IN /\ ref' = [ref EXCEPT ![p] = token]
          /\ IF token = None
             THEN Address(p, "mark") /\ why' = [why EXCEPT ![p] = "unrenewable"]
             ELSE Address(p, "post") /\ UNCHANGED why
    /\ UNCHANGED <<keyring, api, cmd, held, acc, cur, got, sweep, outcome>>

LoadRefresh(p) ==
    /\ pc[p] = "loadRefresh"
    /\ \E token \in Found(p, refresh[at[p]], None) :
        /\ ref' = [ref EXCEPT ![p] = token]
        /\ IF token = None
           THEN Address(p, "mark") /\ why' = [why EXCEPT ![p] = "unrenewable"]
           ELSE Address(p, "post") /\ UNCHANGED why
    /\ UNCHANGED <<keyring, api, cmd, held, acc, cur, got, sweep, outcome>>

-----------------------------------------------------------------------------
(* The renewal request.  The API is external: it accepts a live refresh     *)
(* token, and a token it rotates is live no longer.                         *)

\* The API makes a grant, with a refresh token of its own or without.
Grant(withRefresh, spent) ==
    /\ minted < MaxGrants
    /\ minted' = minted + 1
    /\ paired' = [paired EXCEPT ![minted + 1] = withRefresh]
    /\ live'   = (live \ spent) \cup (IF withRefresh THEN {minted + 1} ELSE {})
    /\ \E first \in Expiries : phase' = [phase EXCEPT ![minted + 1] = first]

\* The tokens of a new grant arrive and are stored, the refresh token first.
Receive(p, reason) ==
    \E withRefresh \in {TRUE} \cup (IF "no_refresh" \in Faults THEN {FALSE} ELSE {}) :
        /\ Grant(withRefresh,
                 IF withRefresh /\ reason = "renewed" THEN {ref[p]} ELSE {})
        /\ got' = [got EXCEPT ![p] = minted + 1]
        /\ why' = [why EXCEPT ![p] = reason]
        /\ Address(p, IF withRefresh THEN "storeRefresh" ELSE "storeAccess")

PostAccepted(p) ==
    /\ pc[p] = "post" /\ ref[p] \in live
    /\ Receive(p, "renewed")
    /\ UNCHANGED <<keyring, cmd, held, acc, ref, cur, sweep, outcome>>

\* The answer is lost after the rotation; the transport repeats the POST.
PostAnswerLost(p) ==
    /\ "network" \in Faults
    /\ pc[p] = "post" /\ ref[p] \in live
    /\ Grant(TRUE, {ref[p]})
    /\ UNCHANGED <<keyring, pc, cmd, at, memory, why, sweep, outcome>>

\* The answer to an accepted request holds no access token the CLI can read.
PostUnreadable(p) ==
    /\ "api" \in Faults
    /\ pc[p] = "post" /\ ref[p] \in live
    /\ Grant(TRUE, {ref[p]})
    /\ Address(p, "mark") /\ why' = [why EXCEPT ![p] = "failed"]
    /\ UNCHANGED <<keyring, cmd, memory, sweep, outcome>>

\* A status of REFRESH_REJECTED_STATUSES
PostRefused(p) ==
    /\ pc[p] = "post" /\ ref[p] \notin live
    /\ Address(p, "reloadAccess")
    /\ UNCHANGED <<keyring, api, cmd, memory, why, sweep, outcome>>

\* Mutant: a renewal that fails is started again until it does not.
PostFailedRetrying(p) ==
    /\ pc[p] = "post"
    /\ "network" \in Faults \/ "api" \in Faults \/ minted = MaxGrants
    /\ Address(p, "loadAccess")
    /\ UNCHANGED <<keyring, api, cmd, memory, why, sweep, outcome>>

\* No answer after the transport's retries, or an error of the API itself.  It
\* is the only outcome once the bound on grants is reached.
PostFailed(p) ==
    /\ pc[p] = "post"
    /\ \E reason \in {"unreachable", "failed"} :
        /\ \/ reason = "unreachable" /\ "network" \in Faults
           \/ reason = "failed" /\ "api" \in Faults
           \/ minted = MaxGrants
        /\ why' = [why EXCEPT ![p] = reason]
    /\ Address(p, "mark")
    /\ UNCHANGED <<keyring, api, cmd, memory, sweep, outcome>>

-----------------------------------------------------------------------------
(* _recover_from_rejected_renewal                                           *)

StartSweep(p, reason) ==
    /\ Address(p, "sweepAccess")
    /\ why' = [why EXCEPT ![p] = reason]
    /\ round' = [round EXCEPT ![p] = 1]
    /\ deleted' = [deleted EXCEPT ![p] = FALSE]

ReloadAccess(p) ==
    /\ pc[p] = "reloadAccess"
    /\ \E token \in Found(p, access[at[p]], None) :
        /\ cur' = [cur EXCEPT ![p] = token]
        /\ IF token = None
           THEN StartSweep(p, "rejected")
           ELSE Address(p, "reloadRefresh") /\ UNCHANGED <<why, sweep>>
    /\ UNCHANGED <<keyring, api, cmd, held, acc, ref, got, outcome>>

\* Tokens that another process stored meanwhile are used, if not expired.
ReloadRefresh(p) ==
    /\ pc[p] = "reloadRefresh"
    /\ \E token \in Found(p, refresh[at[p]], None) :
        IF <<cur[p], token>> # <<acc[p], ref[p]>> /\ Valid(cur[p])
        THEN Report(p, "current", cur[p]) /\ UNCHANGED <<why, sweep>>
        ELSE StartSweep(p, "rejected") /\ UNCHANGED outcome
    /\ UNCHANGED <<keyring, api, cmd, memory>>

-----------------------------------------------------------------------------
(* Storing, and delete_sso_tokens                                           *)

\* Mutant: a failed write of the access token puts the former refresh token back.
StoreFailsRollingBack(p) ==
    /\ "write" \in Faults
    /\ pc[p] \in {"storeRefresh", "storeAccess"}
    /\ refresh' = [refresh EXCEPT ![SlotOf[p]] = IF pc[p] = "storeAccess" THEN ref[p] ELSE @]
    /\ Report(p, "current", got[p])
    /\ UNCHANGED <<access, attempted, api, cmd, memory, why, sweep>>

\* A keyring write raises KeyringError: a renewal still serves its new token.
StoreFails(p) ==
    /\ "write" \in Faults
    /\ pc[p] \in {"storeRefresh", "storeAccess"}
    /\ IF why[p] = "login" THEN Conclude(p, "loggedIn", got[p])
                           ELSE Report(p, "current", got[p])
    /\ UNCHANGED <<keyring, api, cmd, memory, why, sweep>>

\* Mutant: a failed write of the refresh token is swallowed, and the access
\* token is stored all the same.
StoreRefreshSwallowing(p) ==
    /\ pc[p] = "storeRefresh"
    /\ \/ refresh' = [refresh EXCEPT ![SlotOf[p]] = got[p]]
       \/ "write" \in Faults /\ UNCHANGED refresh
    /\ Address(p, "storeAccess")
    /\ UNCHANGED <<access, attempted, api, cmd, memory, why, sweep, outcome>>

StoreRefresh(p) ==
    /\ pc[p] = "storeRefresh"
    /\ refresh' = [refresh EXCEPT ![SlotOf[p]] = got[p]]
    /\ Address(p, "storeAccess")
    /\ UNCHANGED <<access, attempted, api, cmd, memory, why, sweep, outcome>>

StoreAccess(p) ==
    /\ pc[p] = "storeAccess"
    /\ access' = [access EXCEPT ![SlotOf[p]] = got[p]]
    /\ Address(p, "mark")
    /\ UNCHANGED <<refresh, attempted, api, cmd, memory, why, sweep, outcome>>

\* update_refresh_attempted_at, which swallows a KeyringError, and what follows
Mark(p) ==
    /\ pc[p] = "mark"
    /\ \/ attempted' = [attempted EXCEPT ![SlotOf[p]] = "recent"]
       \/ "write" \in Faults /\ UNCHANGED attempted
    /\ CASE why[p] = "renewed" -> Report(p, "renewed", got[p])
         [] why[p] = "login" -> Conclude(p, "loggedIn", got[p])
         [] why[p] = "unexpected" ->
              Conclude(p, "unexpected", IF Valid(held[p]) THEN held[p] ELSE None)
         [] why[p] = "unrenewable" ->
              Report(p, "unrenewable", IF Valid(acc[p]) THEN acc[p] ELSE None)
         [] OTHER -> IF Valid(acc[p]) THEN Report(p, "current", acc[p])
                                      ELSE Report(p, "failed", None)
    /\ UNCHANGED <<access, refresh, api, cmd, memory, why, sweep>>

\* Deleting an entry that is absent raises PasswordDeleteError, as a failure does.
DeleteRaises(present) == ~present \/ "delete" \in Faults

\* Mutant: any() over a generator stops at the first entry it deletes.
SweepAccessShortCircuit(p) ==
    /\ pc[p] = "sweepAccess"
    /\ IF access[at[p]] # None
       THEN /\ access' = [access EXCEPT ![at[p]] = None]
            /\ IF why[p] = "rejected" THEN Report(p, "rejected", None)
                                      ELSE Conclude(p, "removed", None)
       ELSE /\ pc' = [pc EXCEPT ![p] = "sweepRefresh"]
            /\ UNCHANGED <<access, at, outcome>>
    /\ UNCHANGED <<refresh, attempted, api, cmd, memory, why, sweep>>

SweepAccess(p) ==
    /\ pc[p] = "sweepAccess"
    /\ \/ /\ access[at[p]] # None
          /\ access' = [access EXCEPT ![at[p]] = None]
          /\ deleted' = [deleted EXCEPT ![p] = TRUE]
       \/ DeleteRaises(access[at[p]] # None) /\ UNCHANGED <<access, deleted>>
    /\ pc' = [pc EXCEPT ![p] = "sweepRefresh"]
    /\ UNCHANGED <<refresh, attempted, api, cmd, at, memory, why, round, outcome>>

SweepRefresh(p) ==
    /\ pc[p] = "sweepRefresh"
    /\ \/ /\ refresh[at[p]] # None
          /\ refresh' = [refresh EXCEPT ![at[p]] = None]
          /\ deleted' = [deleted EXCEPT ![p] = TRUE]
       \/ DeleteRaises(refresh[at[p]] # None) /\ UNCHANGED <<refresh, deleted>>
    /\ pc' = [pc EXCEPT ![p] = "sweepAttempted"]
    /\ UNCHANGED <<access, attempted, api, cmd, at, memory, why, round, outcome>>

\* Mutant: the legacy entries are swept after the profile's own in every case.
SweepAttemptedThenLegacy(p) ==
    /\ pc[p] = "sweepAttempted"
    /\ attempted' = [attempted EXCEPT ![at[p]] = "none"]
    /\ IF round[p] = 1
       THEN /\ round' = [round EXCEPT ![p] = 2]
            /\ at' = [at EXCEPT ![p] = Legacy]
            /\ pc' = [pc EXCEPT ![p] = "sweepAccess"]
            /\ UNCHANGED outcome
       ELSE /\ UNCHANGED round
            /\ IF why[p] = "rejected" THEN Report(p, "rejected", None)
                                      ELSE Conclude(p, "removed", None)
    /\ UNCHANGED <<access, refresh, api, cmd, memory, why, deleted>>

\* After the last entry: the legacy entries are swept if nothing was deleted.
SweepAttempted(p) ==
    /\ pc[p] = "sweepAttempted"
    /\ \/ /\ attempted[at[p]] # "none"
          /\ attempted' = [attempted EXCEPT ![at[p]] = "none"]
          /\ deleted' = [deleted EXCEPT ![p] = TRUE]
       \/ DeleteRaises(attempted[at[p]] # "none") /\ UNCHANGED <<attempted, deleted>>
    /\ IF ~deleted'[p] /\ round[p] = 1
       THEN /\ round' = [round EXCEPT ![p] = 2]
            /\ at' = [at EXCEPT ![p] = Legacy]
            /\ pc' = [pc EXCEPT ![p] = "sweepAccess"]
            /\ UNCHANGED outcome
       ELSE /\ UNCHANGED round
            /\ IF why[p] = "rejected"
               THEN Report(p, "rejected", None)
               ELSE Conclude(p, IF deleted'[p] THEN "removed" ELSE "notRemoved", None)
    /\ UNCHANGED <<access, refresh, api, cmd, memory, why>>

-----------------------------------------------------------------------------
(* Logging in and out, the end of a command, the environment                *)

\* The browser callback brings the tokens of a login: do_GET and
\* _store_authentication_result
LogIn(p) ==
    /\ pc[p] = "browser"
    /\ Receive(p, "login")
    /\ UNCHANGED <<keyring, cmd, held, acc, ref, cur, sweep, outcome>>

LoginAbandoned(p) ==
    /\ pc[p] = "browser"
    /\ Conclude(p, "failed", None)
    /\ UNCHANGED <<keyring, api, cmd, memory, why, sweep>>

\* _clear_keyring: has_sso_tokens looks at the profile's and the legacy entries.
CheckTokens(p) ==
    LET present == \E s \in {SlotOf[p], Legacy} :
            access[s] # None \/ refresh[s] # None \/ attempted[s] # "none"
    IN /\ pc[p] = "check"
       /\ \/ present /\ StartSweep(p, "logout") /\ UNCHANGED outcome
          \/ /\ ~present \/ "read" \in Faults
             /\ Conclude(p, "notFound", None) /\ UNCHANGED <<why, sweep>>
       /\ UNCHANGED <<keyring, api, cmd, memory>>

\* The process is gone, with everything in its memory.
Exit(p) ==
    /\ pc' = [pc EXCEPT ![p] = "idle"] /\ cmd' = [cmd EXCEPT ![p] = "none"]
    /\ at' = [at EXCEPT ![p] = SlotOf[p]]
    /\ held' = [held EXCEPT ![p] = None] /\ acc' = [acc EXCEPT ![p] = None]
    /\ ref' = [ref EXCEPT ![p] = None] /\ cur' = [cur EXCEPT ![p] = None]
    /\ got' = [got EXCEPT ![p] = None] /\ why' = [why EXCEPT ![p] = "none"]
    /\ round' = [round EXCEPT ![p] = 1] /\ deleted' = [deleted EXCEPT ![p] = FALSE]
    /\ status' = [status EXCEPT ![p] = "none"] /\ cred' = [cred EXCEPT ![p] = None]
    /\ UNCHANGED <<keyring, api>>

Finish(p) == pc[p] = "done" /\ Exit(p)

Crash(p) == "crash" \in Faults /\ pc[p] \notin {"idle", "done"} /\ Exit(p)

\* KeyringProvider.resolve catches any other exception of a renewal.
Unexpected(p) ==
    /\ "unexpected" \in Faults
    /\ cmd[p] = "resolve" /\ pc[p] \notin {"idle", "held", "mark", "done"}
    /\ Address(p, "mark") /\ why' = [why EXCEPT ![p] = "unexpected"]
    /\ UNCHANGED <<keyring, api, cmd, memory, sweep, outcome>>

\* Time passes for a token that was granted, and for an attempted_at entry.
TokenAges ==
    /\ \E g \in 1 .. minted :
        /\ phase[g] \in {"fresh", "due", "lapsed"}
        /\ phase' = [phase EXCEPT ![g] = CASE @ = "fresh"  -> "due"
                                           [] @ = "due"    -> "lapsed"
                                           [] @ = "lapsed" -> "dead"]
    /\ UNCHANGED <<keyring, minted, live, paired, pc, cmd, at, memory, why, sweep, outcome>>

AttemptAges ==
    /\ \E s \in Slots :
        /\ attempted[s] \in {"recent", "past5"}
        /\ attempted' = [attempted EXCEPT ![s] =
                            IF @ = "recent" THEN "past5" ELSE "past30"]
    /\ UNCHANGED <<access, refresh, api, pc, cmd, at, memory, why, sweep, outcome>>

\* The API ends a session.
Revoke ==
    /\ "revoke" \in Faults
    /\ \E g \in live : live' = live \ {g}
    /\ UNCHANGED <<keyring, minted, paired, phase, pc, cmd, at, memory, why, sweep, outcome>>

Step(p) ==
    \/ ReadFallsBack(p) \/ ReadHeld(p) \/ ReadAttempted(p)
    \/ LoadAccess(p) \/ LoadRefresh(p)
    \/ PostAccepted(p) \/ PostAnswerLost(p) \/ PostUnreadable(p)
    \/ PostRefused(p) \/ PostFailed(p)
    \/ ReloadAccess(p) \/ ReloadRefresh(p)
    \/ StoreFails(p) \/ StoreRefresh(p) \/ StoreAccess(p) \/ Mark(p)
    \/ SweepAccess(p) \/ SweepRefresh(p) \/ SweepAttempted(p)
    \/ CheckTokens(p) \/ Finish(p)

Next ==
    \/ \E p \in Procs : \/ Begin(p) \/ Step(p) \/ LogIn(p) \/ LoginAbandoned(p)
                        \/ Crash(p) \/ Unexpected(p)
    \/ TokenAges \/ AttemptAges \/ Revoke

Spec == Init /\ [][Next]_vars

\* A process that runs is scheduled.  Nothing makes a user start a command or
\* finish a login in the browser.
FairSpec == Spec /\ \A p \in Procs : WF_vars(Step(p))

-----------------------------------------------------------------------------
(* Properties                                                               *)

KeyringType ==
    /\ access \in [Slots -> Tokens] /\ refresh \in [Slots -> Tokens]
    /\ attempted \in [Slots -> Ages]

ApiType ==
    /\ minted \in 0 .. MaxGrants /\ live \subseteq Grants
    /\ paired \in [Grants -> BOOLEAN] /\ phase \in [Grants -> Phases]

ControlType ==
    /\ pc \in [Procs -> Locations] /\ cmd \in [Procs -> CommandKinds \cup {"none"}]
    /\ at \in [Procs -> Slots] /\ why \in [Procs -> Reasons]
    /\ round \in [Procs -> {1, 2}] /\ deleted \in [Procs -> BOOLEAN]

MemoryType ==
    /\ held \in [Procs -> Tokens] /\ acc \in [Procs -> Tokens]
    /\ ref \in [Procs -> Tokens] /\ cur \in [Procs -> Tokens]
    /\ got \in [Procs -> Tokens]

OutcomeType == status \in [Procs -> Statuses] /\ cred \in [Procs -> Tokens]

\* Every variable holds a value of its type.
TypeOK == KeyringType /\ ApiType /\ ControlType /\ MemoryType /\ OutcomeType

\* The refresh token beside an access token is never older than it: the code
\* stores the refresh token of a grant first ("persist its replacement before an
\* access-token write can fail", keyring.py:319) and deletes the access token
\* first, so neither a crash nor a failed write leaves an access token whose
\* session cannot be renewed.
RefreshNotOlder ==
    \A s \in Slots :
        access[s] # None /\ paired[access[s]] => refresh[s] >= access[s]

\* What makes RefreshNotOlder inductive when commands run one after another.
Alone == \A p, q \in Procs : pc[p] # "idle" /\ pc[q] # "idle" => p = q

GrantsAreOld == \A s \in Slots : access[s] <= minted /\ refresh[s] <= minted

NewestInHand ==
    \A p \in Procs :
        pc[p] \in {"storeRefresh", "storeAccess"} => got[p] = minted /\ minted # None

RefreshStoredFirst ==
    \A p \in Procs :
        pc[p] = "storeAccess" /\ paired[got[p]] => refresh[SlotOf[p]] = got[p]

AccessSweptFirst ==
    \A p \in Procs : pc[p] = "sweepRefresh" => access[at[p]] = None

PairInv == /\ Alone /\ GrantsAreOld /\ NewestInHand
           /\ RefreshStoredFirst /\ AccessSweptFirst /\ RefreshNotOlder

\* The cleanup after a rejected renewal deletes no refresh token that the API
\* still accepts, the default profile's in particular (sso.py:125).
CleanupSparesLiveSessions ==
    \A p \in Procs :
        pc[p] = "sweepRefresh" /\ why[p] = "rejected" => refresh[at[p]] \notin live

\* A profile that has a refresh token of its own never spends the one of the
\* default profile (_get_value_with_fallback, keyring.py:68).
OwnSessionFirst ==
    \A p \in Procs :
        pc[p] = "post" /\ refresh[SlotOf[p]] # None => ref[p] = refresh[SlotOf[p]]

\* A rejected renewal leaves no token in the profile's own entries, the refresh
\* token as little as the access token (delete_sso_tokens, keyring.py:373).
RejectionEndsOwnSession ==
    \A p \in Procs :
        pc[p] = "done" /\ status[p] = "rejected" =>
            access[SlotOf[p]] = None /\ refresh[SlotOf[p]] = None

\* A token that a command takes from the keyring and serves is not past the
\* leeway at that moment (keyring_provider.py:24), whatever became of the
\* renewal, unless the retry interval spared it a renewal.
ServedTokenIsUsable ==
    [][\A p \in Procs :
          (/\ pc[p] \notin {"done", "throttle"} /\ pc'[p] = "done"
           /\ cmd[p] = "resolve" /\ cred'[p] \notin {None, got[p]})
          => phase[cred'[p]] # "dead"]_vars

\* While commands only renew, a slot's refresh token is never replaced by an
\* older one, however the commands interleave: a token can be rotated only after
\* its own minter stored it.
RefreshMovesForward ==
    [][\A s \in Slots : refresh'[s] # None => refresh'[s] >= refresh[s]]_vars

\* Every command ends, or waits for the user in the browser: no loop of
\* fallbacks, reloads, retries and sweeps goes on for ever.
CommandEnds ==
    \A p \in Procs : pc[p] # "idle" ~> pc[p] \in {"idle", "browser"}

=============================================================================
