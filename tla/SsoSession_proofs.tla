-------------------------- MODULE SsoSession_proofs --------------------------
(***************************************************************************)
(* Theorems about SsoSession, for every number of processes, profiles and  *)
(* grants.                                                                 *)
(***************************************************************************)
EXTENDS SsoSession, FiniteSetTheorems, TLAPS

USE DEF None, Tokens, Grants

\* A step of one process, whichever it is.
Acts(p) == \/ Begin(p) \/ Step(p) \/ LogIn(p) \/ LoginAbandoned(p)
           \/ Crash(p) \/ Unexpected(p)

-----------------------------------------------------------------------------
(* Type correctness: one lemma for each part of TypeOK.                     *)

LEMMA InitType == Init => TypeOK
<1> SUFFICES ASSUME Init PROVE TypeOK
  OBVIOUS
<1> USE SsoAssumption DEF Init
<1>1. KeyringType
  BY DEF KeyringType, Ages
<1>2. ApiType
  BY DEF ApiType, Phases
<1>3. ControlType
  BY DEF ControlType, Locations, Reasons
<1>4. MemoryType
  BY DEF MemoryType
<1>5. OutcomeType
  BY DEF OutcomeType, Statuses
<1> QED BY <1>1, <1>2, <1>3, <1>4, <1>5 DEF TypeOK

LEMMA ReceiveControl ==
    ASSUME TypeOK, NEW p \in Procs, NEW reason \in Reasons, Receive(p, reason),
           UNCHANGED <<cmd, sweep>>
    PROVE  ControlType'
<1>1. PICK withRefresh \in BOOLEAN :
        /\ why' = [why EXCEPT ![p] = reason]
        /\ Address(p, IF withRefresh THEN "storeRefresh" ELSE "storeAccess")
  BY DEF Receive
<1>2. (IF withRefresh THEN "storeRefresh" ELSE "storeAccess") \in Locations
  BY DEF Locations
<1> QED BY <1>1, <1>2, SsoAssumption DEF TypeOK, ControlType, Address, sweep

LEMMA StartSweepControl ==
    ASSUME TypeOK, NEW p \in Procs, NEW reason \in Reasons, StartSweep(p, reason),
           UNCHANGED cmd
    PROVE  ControlType'
<1>1. "sweepAccess" \in Locations
  BY DEF Locations
<1> QED BY <1>1, SsoAssumption DEF TypeOK, ControlType, Address, StartSweep

LEMMA ReportControl ==
    ASSUME TypeOK, NEW p \in Procs, NEW result, NEW token, Report(p, result, token)
    PROVE  pc' \in [Procs -> Locations] /\ at' \in [Procs -> Slots]
BY SsoAssumption
   DEF TypeOK, ControlType, Locations, Report, Conclude, Address

LEMMA ControlTypeStep ==
    ASSUME TypeOK, NEW p \in Procs, Acts(p)
    PROVE  ControlType'
<1> USE DEF TypeOK, ControlType, Locations, Reasons, Address, Conclude, Report, StartSweep, Receive, sweep, CommandKinds
<1>1. CASE Begin(p)
  <2>1. PICK c \in CommandKinds :
          /\ cmd' = [cmd EXCEPT ![p] = c]
          /\ Address(p, CASE c = "resolve" -> "held"
                          [] c = "auth"    -> "loadAccess"
                          [] c = "login"   -> "browser"
                          [] c = "logout"  -> "check")
    BY <1>1, SsoAssumption DEF Begin
  <2>2. (CASE c = "resolve" -> "held"
           [] c = "auth"    -> "loadAccess"
           [] c = "login"   -> "browser"
           [] c = "logout"  -> "check") \in Locations
    OBVIOUS
  <2>3. UNCHANGED <<why, round, deleted>>
    BY <1>1 DEF Begin
  <2> HIDE DEF Locations, CommandKinds
  <2> QED BY <2>1, <2>2, <2>3, SsoAssumption
<1>2. CASE ReadFallsBack(p)
  BY <1>2, SsoAssumption DEF ReadFallsBack
<1>3. CASE ReadHeld(p)
  BY <1>3, SsoAssumption DEF ReadHeld
<1>4. CASE ReadAttempted(p)
  BY <1>4, SsoAssumption DEF ReadAttempted
<1>5. CASE LoadAccess(p)
  BY <1>5, SsoAssumption DEF LoadAccess
<1>6. CASE LoadRefresh(p)
  BY <1>6, SsoAssumption DEF LoadRefresh
<1>7. CASE PostAccepted(p)
  BY <1>7, ReceiveControl DEF PostAccepted
<1>8. CASE PostAnswerLost(p)
  BY <1>8, SsoAssumption DEF PostAnswerLost
<1>9. CASE PostUnreadable(p)
  BY <1>9, SsoAssumption DEF PostUnreadable
<1>10. CASE PostRefused(p)
  BY <1>10, SsoAssumption DEF PostRefused
<1>11. CASE PostFailed(p)
  <2>1. PICK reason \in Reasons : why' = [why EXCEPT ![p] = reason]
    BY <1>11 DEF PostFailed
  <2> QED BY <1>11, <2>1, SsoAssumption DEF PostFailed
<1>12. CASE ReloadAccess(p)
  <2>1. CASE StartSweep(p, "rejected")
    BY <1>12, <2>1, StartSweepControl DEF ReloadAccess
  <2>2. CASE Address(p, "reloadRefresh") /\ UNCHANGED <<why, sweep>>
    BY <1>12, <2>2, SsoAssumption DEF ReloadAccess
  <2> QED BY <1>12, <2>1, <2>2 DEF ReloadAccess
<1>13. CASE ReloadRefresh(p)
  <2>1. CASE StartSweep(p, "rejected")
    BY <1>13, <2>1, StartSweepControl DEF ReloadRefresh
  <2>2. CASE Report(p, "current", cur[p]) /\ UNCHANGED <<why, sweep>>
    BY <1>13, <2>2, ReportControl DEF ReloadRefresh
  <2> QED BY <1>13, <2>1, <2>2 DEF ReloadRefresh
<1>14. CASE StoreFails(p)
  BY <1>14, SsoAssumption DEF StoreFails
<1>15. CASE StoreRefresh(p)
  BY <1>15, SsoAssumption DEF StoreRefresh
<1>16. CASE StoreAccess(p)
  BY <1>16, SsoAssumption DEF StoreAccess
<1>17. CASE Mark(p)
  BY <1>17, SsoAssumption DEF Mark
<1>18. CASE SweepAccess(p)
  BY <1>18, SsoAssumption DEF SweepAccess
<1>19. CASE SweepRefresh(p)
  BY <1>19, SsoAssumption DEF SweepRefresh
<1>20. CASE SweepAttempted(p)
  <2>1. deleted' \in [Procs -> BOOLEAN] /\ UNCHANGED <<cmd, why>>
    BY <1>20 DEF SweepAttempted
  <2>2. CASE ~deleted'[p] /\ round[p] = 1
    <3>1. /\ round' = [round EXCEPT ![p] = 2]
          /\ at' = [at EXCEPT ![p] = Legacy]
          /\ pc' = [pc EXCEPT ![p] = "sweepAccess"]
      BY <1>20, <2>2 DEF SweepAttempted
    <3> QED BY <2>1, <3>1, SsoAssumption
  <2>3. CASE ~(~deleted'[p] /\ round[p] = 1)
    <3>1. UNCHANGED round /\ pc' \in [Procs -> Locations] /\ at' \in [Procs -> Slots]
      BY <1>20, <2>3, SsoAssumption DEF SweepAttempted
    <3> QED BY <2>1, <3>1
  <2> QED BY <2>2, <2>3
<1>21. CASE CheckTokens(p)
  <2>1. CASE StartSweep(p, "logout")
    BY <1>21, <2>1, StartSweepControl DEF CheckTokens
  <2>2. CASE Conclude(p, "notFound", None) /\ UNCHANGED <<why, sweep>>
    BY <1>21, <2>2, SsoAssumption DEF CheckTokens
  <2> QED BY <1>21, <2>1, <2>2 DEF CheckTokens
<1>22. CASE Exit(p)
  BY <1>22, SsoAssumption DEF Exit
<1>23. CASE Unexpected(p)
  BY <1>23, SsoAssumption DEF Unexpected
<1>24. CASE LogIn(p)
  BY <1>24, ReceiveControl DEF LogIn
<1>25. CASE LoginAbandoned(p)
  BY <1>25, SsoAssumption DEF LoginAbandoned
<1> QED BY <1>1, <1>2, <1>3, <1>4, <1>5, <1>6, <1>7, <1>8, <1>9, <1>10, <1>11, <1>12, <1>13, <1>14, <1>15, <1>16, <1>17, <1>18, <1>19, <1>20, <1>21, <1>22, <1>23, <1>24, <1>25 DEF Acts, Step, Finish, Crash

\* The entries of the keyring change by a store, a mark or a sweep.
LEMMA KeyringTypeStep ==
    ASSUME TypeOK, NEW p \in Procs, Acts(p)
    PROVE  KeyringType'
<1> USE DEF TypeOK, KeyringType
<1>1. CASE StoreRefresh(p)
  BY <1>1 DEF StoreRefresh, MemoryType
<1>2. CASE StoreAccess(p)
  BY <1>2 DEF StoreAccess, MemoryType
<1>3. CASE Mark(p)
  BY <1>3 DEF Mark, Ages
<1>4. CASE SweepAccess(p)
  BY <1>4 DEF SweepAccess
<1>5. CASE SweepRefresh(p)
  BY <1>5 DEF SweepRefresh
<1>6. CASE SweepAttempted(p)
  BY <1>6 DEF SweepAttempted, Ages
<1>7. CASE UNCHANGED keyring
  BY <1>7 DEF keyring
<1> QED BY <1>1, <1>2, <1>3, <1>4, <1>5, <1>6, <1>7
    DEF Acts, Step, Finish, Crash,
       Begin, ReadFallsBack, ReadHeld, ReadAttempted, LoadAccess,
       LoadRefresh, PostAccepted, PostAnswerLost, PostUnreadable,
       PostRefused, PostFailed, ReloadAccess, ReloadRefresh, StoreFails,
       CheckTokens, Exit, Unexpected, LogIn, LoginAbandoned

\* The API makes a grant that the bound leaves room for.
LEMMA GrantType ==
    ASSUME TypeOK, NEW withRefresh \in BOOLEAN, NEW spent, Grant(withRefresh, spent)
    PROVE  minted + 1 \in Grants /\ ApiType'
<1> USE DEF TypeOK, ApiType, Grant
<1>1. minted + 1 \in Grants /\ minted' \in 0 .. MaxGrants
  BY SsoAssumption
<1>2. live' \subseteq Grants
  BY <1>1
<1>3. paired' \in [Grants -> BOOLEAN]
  BY <1>1
<1>4. phase' \in [Grants -> Phases]
  BY <1>1, SsoAssumption
<1> QED BY <1>1, <1>2, <1>3, <1>4

LEMMA ReceiveGrants ==
    ASSUME TypeOK, NEW p \in Procs, NEW reason, Receive(p, reason)
    PROVE  /\ ApiType'
           /\ minted + 1 \in Grants
           /\ got' = [got EXCEPT ![p] = minted + 1]
BY GrantType DEF Receive

LEMMA ApiTypeStep ==
    ASSUME TypeOK, NEW p \in Procs, Acts(p)
    PROVE  ApiType'
<1> USE DEF TypeOK, ApiType
<1>1. CASE PostAccepted(p)
  BY <1>1, ReceiveGrants DEF PostAccepted
<1>2. CASE PostAnswerLost(p)
  BY <1>2, GrantType DEF PostAnswerLost
<1>3. CASE PostUnreadable(p)
  BY <1>3, GrantType DEF PostUnreadable
<1>4. CASE LogIn(p)
  BY <1>4, ReceiveGrants DEF LogIn
<1>5. CASE UNCHANGED api
  BY <1>5 DEF api
<1> QED BY <1>1, <1>2, <1>3, <1>4, <1>5
    DEF Acts, Step, Finish, Crash,
       Begin, ReadFallsBack, ReadHeld, ReadAttempted, LoadAccess,
       LoadRefresh, PostRefused, PostFailed, ReloadAccess, ReloadRefresh,
       StoreFails, StoreRefresh, StoreAccess, Mark, SweepAccess,
       SweepRefresh, SweepAttempted, CheckTokens, Exit, Unexpected,
       LoginAbandoned

LEMMA MemoryTypeStep ==
    ASSUME TypeOK, NEW p \in Procs, Acts(p)
    PROVE  MemoryType'
<1> USE DEF TypeOK, MemoryType
<1>1. CASE ReadHeld(p)
  BY <1>1 DEF ReadHeld, Found, Reads, KeyringType, ControlType
<1>2. CASE LoadAccess(p)
  BY <1>2 DEF LoadAccess, Found, Reads, KeyringType, ControlType
<1>3. CASE LoadRefresh(p)
  BY <1>3 DEF LoadRefresh, Found, Reads, KeyringType, ControlType
<1>4. CASE ReloadAccess(p)
  BY <1>4 DEF ReloadAccess, Found, Reads, KeyringType, ControlType
<1>5. CASE PostAccepted(p)
  BY <1>5, ReceiveGrants DEF PostAccepted
<1>6. CASE LogIn(p)
  BY <1>6, ReceiveGrants DEF LogIn
<1>7. CASE Exit(p)
  BY <1>7 DEF Exit
<1>8. CASE UNCHANGED memory
  BY <1>8 DEF memory
<1> QED BY <1>1, <1>2, <1>3, <1>4, <1>5, <1>6, <1>7, <1>8
    DEF Acts, Step, Finish, Crash,
       Begin, ReadFallsBack, ReadAttempted, PostAnswerLost, PostUnreadable,
       PostRefused, PostFailed, ReloadRefresh, StoreFails, StoreRefresh,
       StoreAccess, Mark, SweepAccess, SweepRefresh, SweepAttempted,
       CheckTokens, Unexpected, LoginAbandoned

\* A command that ends has a result and serves a token or none.
LEMMA ReportOutcome ==
    ASSUME TypeOK, NEW p \in Procs, NEW result \in Statuses, NEW token \in Tokens,
           Report(p, result, token) \/ Conclude(p, result, token)
    PROVE  OutcomeType'
BY DEF TypeOK, OutcomeType, Report, Conclude, outcome

LEMMA OutcomeTypeStep ==
    ASSUME TypeOK, NEW p \in Procs, Acts(p)
    PROVE  OutcomeType'
<1> USE ReportOutcome DEF Statuses
<1>0. held[p] \in Tokens /\ acc[p] \in Tokens /\ cur[p] \in Tokens /\ got[p] \in Tokens
  BY DEF TypeOK, MemoryType
<1>u. CASE UNCHANGED outcome
  BY <1>u DEF TypeOK, OutcomeType, outcome
<1>1. CASE ReadHeld(p)
  <2>1. PICK token \in Found(p, access[at[p]], None) :
          \/ Conclude(p, "missing", None)
          \/ Conclude(p, "unchanged", token)
          \/ UNCHANGED outcome
    BY <1>1 DEF ReadHeld
  <2>2. token \in Tokens
    BY DEF Found, Reads, TypeOK, KeyringType, ControlType
  <2> QED BY <2>1, <2>2, <1>u
<1>2. CASE ReadAttempted(p)
  BY <1>2, <1>0, <1>u DEF ReadAttempted
<1>3. CASE LoadAccess(p)
  <2>1. \/ Report(p, "missing", IF Valid(held[p]) THEN held[p] ELSE None)
        \/ UNCHANGED outcome
    BY <1>3 DEF LoadAccess
  <2>2. (IF Valid(held[p]) THEN held[p] ELSE None) \in Tokens
    BY <1>0
  <2> QED BY <2>1, <2>2, <1>u
<1>4. CASE ReloadRefresh(p)
  BY <1>4, <1>0, <1>u DEF ReloadRefresh
<1>5. CASE StoreFails(p)
  BY <1>5, <1>0 DEF StoreFails
<1>6. CASE Mark(p)
  <2> DEFINE ifValid(token) == IF Valid(token) THEN token ELSE None
  <2>1. ifValid(held[p]) \in Tokens /\ ifValid(acc[p]) \in Tokens
    BY <1>0
  <2> HIDE DEF ifValid
  <2>2. \/ Report(p, "renewed", got[p])
        \/ Conclude(p, "loggedIn", got[p])
        \/ Conclude(p, "unexpected", ifValid(held[p]))
        \/ Report(p, "unrenewable", ifValid(acc[p]))
        \/ Report(p, "current", acc[p])
        \/ Report(p, "failed", None)
    BY <1>6 DEF Mark, ifValid
  <2> QED BY <2>1, <2>2, <1>0
<1>7. CASE SweepAttempted(p)
  <2>1. \/ UNCHANGED outcome
        \/ Report(p, "rejected", None)
        \/ Conclude(p, "removed", None)
        \/ Conclude(p, "notRemoved", None)
    BY <1>7 DEF SweepAttempted
  <2> QED BY <2>1, <1>u
<1>8. CASE CheckTokens(p)
  BY <1>8, <1>u DEF CheckTokens
<1>9. CASE Exit(p)
  BY <1>9 DEF Exit, TypeOK, OutcomeType
<1>10. CASE LoginAbandoned(p)
  BY <1>10 DEF LoginAbandoned
<1> QED BY <1>u, <1>1, <1>2, <1>3, <1>4, <1>5, <1>6, <1>7, <1>8, <1>9, <1>10
    DEF Acts, Step, Finish, Crash,
       Begin, ReadFallsBack, LoadRefresh, PostAccepted, PostAnswerLost,
       PostUnreadable, PostRefused, PostFailed, ReloadAccess, StoreRefresh,
       StoreAccess, SweepAccess, SweepRefresh, Unexpected, LogIn

\* Time and revocation change an age, a phase or the live tokens, nothing else.
LEMMA EnvironmentType ==
    ASSUME TypeOK, TokenAges \/ AttemptAges \/ Revoke
    PROVE  TypeOK'
<1> USE DEF TypeOK, keyring, api, memory, sweep, outcome,
            KeyringType, ApiType, ControlType, MemoryType, OutcomeType
<1>1. CASE TokenAges
  <2>1. phase' \in [Grants -> Phases]
    BY <1>1 DEF TokenAges, Phases
  <2> QED BY <1>1, <2>1 DEF TokenAges
<1>2. CASE AttemptAges
  <2>1. attempted' \in [Slots -> Ages]
    BY <1>2 DEF AttemptAges, Ages
  <2> QED BY <1>2, <2>1 DEF AttemptAges
<1>3. CASE Revoke
  BY <1>3 DEF Revoke
<1> QED BY <1>1, <1>2, <1>3

LEMMA NextType == TypeOK /\ [Next]_vars => TypeOK'
<1> SUFFICES ASSUME TypeOK, [Next]_vars PROVE TypeOK'
  OBVIOUS
<1>1. ASSUME NEW p \in Procs, Acts(p) PROVE TypeOK'
  BY <1>1, KeyringTypeStep, ApiTypeStep, ControlTypeStep, MemoryTypeStep,
     OutcomeTypeStep DEF TypeOK
<1>2. CASE TokenAges \/ AttemptAges \/ Revoke
  BY <1>2, EnvironmentType
<1>3. CASE UNCHANGED vars
  BY <1>3 DEF vars, keyring, api, memory, sweep, outcome, TypeOK, KeyringType,
              ApiType, ControlType, MemoryType, OutcomeType
<1> QED BY <1>1, <1>2, <1>3 DEF Next, Acts

\* Every variable keeps to its type in every behaviour, whatever the faults, the
\* profiles, and the number of commands that run at once.
THEOREM TypeCorrect == Spec => []TypeOK
BY InitType, NextType, PTL DEF Spec

-----------------------------------------------------------------------------
(* RefreshNotOlder, when commands run one after another and no deletion     *)
(* fails.  Crashes, failed writes and reads, and lost answers may happen.   *)

LEMMA PairInit == Init => PairInv
<1> SUFFICES ASSUME Init PROVE PairInv
  OBVIOUS
<1> USE SsoAssumption DEF Init
<1>1. Alone /\ NewestInHand /\ RefreshStoredFirst /\ AccessSweptFirst
  BY DEF Alone, NewestInHand, RefreshStoredFirst, AccessSweptFirst
<1>2. GrantsAreOld
  BY DEF GrantsAreOld
<1>3. RefreshNotOlder
  BY DEF RefreshNotOlder
<1> QED BY <1>1, <1>2, <1>3 DEF PairInv

\* A step of p moves no other process.
LEMMA Frame ==
    ASSUME TypeOK, NEW p \in Procs, Acts(p), NEW q \in Procs, q # p
    PROVE  pc'[q] = pc[q]
<1> USE DEF TypeOK, ControlType
<1>1. ASSUME NEW location, Address(p, location)
      PROVE  pc'[q] = pc[q]
  BY <1>1 DEF Address
<1>2. ASSUME NEW result, NEW token, Report(p, result, token) \/ Conclude(p, result, token)
      PROVE  pc'[q] = pc[q]
  BY <1>2, <1>1 DEF Report, Conclude
<1>3. ASSUME NEW reason, StartSweep(p, reason) \/ Receive(p, reason)
      PROVE  pc'[q] = pc[q]
  BY <1>3, <1>1 DEF StartSweep, Receive
<1>4. CASE Begin(p) \/ LoadAccess(p) \/ LoadRefresh(p) \/ ReadHeld(p) \/ ReadAttempted(p)
  BY <1>4, <1>1, <1>2 DEF Begin, LoadAccess, LoadRefresh, ReadHeld, ReadAttempted
<1>5. CASE \/ PostAccepted(p) \/ PostAnswerLost(p) \/ PostUnreadable(p)
           \/ PostRefused(p) \/ PostFailed(p) \/ ReadFallsBack(p)
  BY <1>5, <1>1, <1>3
     DEF PostAccepted, PostAnswerLost, PostUnreadable, PostRefused, PostFailed,
         ReadFallsBack
<1>6. CASE ReloadAccess(p) \/ ReloadRefresh(p) \/ CheckTokens(p) \/ LogIn(p)
  BY <1>6, <1>1, <1>2, <1>3 DEF ReloadAccess, ReloadRefresh, CheckTokens, LogIn
<1>7. CASE StoreFails(p) \/ StoreRefresh(p) \/ StoreAccess(p)
  BY <1>7, <1>1, <1>2 DEF StoreFails, StoreRefresh, StoreAccess
<1>8. CASE Mark(p)
  BY <1>8, <1>2 DEF Mark
<1>9. CASE SweepAccess(p) \/ SweepRefresh(p) \/ SweepAttempted(p)
  BY <1>9, <1>2 DEF SweepAccess, SweepRefresh, SweepAttempted
<1>10. CASE Exit(p) \/ Unexpected(p) \/ LoginAbandoned(p)
  BY <1>10, <1>1, <1>2 DEF Exit, Unexpected, LoginAbandoned
<1> QED BY <1>4, <1>5, <1>6, <1>7, <1>8, <1>9, <1>10 DEF Acts, Step, Finish, Crash

\* No other process is under way before or after a step of p.
LEMMA AloneStep ==
    ASSUME MaxRunning = 1, TypeOK, Alone, NEW p \in Procs, Acts(p)
    PROVE  Alone' /\ \A q \in Procs : q # p => pc[q] = "idle" /\ pc'[q] = "idle"
<1>1. CASE pc[p] # "idle"
  BY <1>1, Frame DEF Alone
<1>2. CASE Begin(p)
  <2> DEFINE R == {q \in Procs : pc[q] # "idle"}
  <2>1. IsFiniteSet(R) /\ Cardinality(R) < 1
    BY <1>2, SsoAssumption, FS_Subset DEF Begin
  <2>2. R = {}
    BY <2>1, FS_CardinalityType, FS_EmptySet
  <2> QED BY <2>2, Frame DEF Alone
<1> QED BY <1>1, <1>2
    DEF Acts, Step, ReadFallsBack, ReadHeld, ReadAttempted, LoadAccess,
        LoadRefresh, PostAccepted, PostAnswerLost, PostUnreadable, PostRefused,
        PostFailed, ReloadAccess, ReloadRefresh, StoreFails, StoreRefresh,
        StoreAccess, Mark, SweepAccess, SweepRefresh, SweepAttempted,
        CheckTokens, Finish, Crash, Unexpected, LogIn, LoginAbandoned

\* A step that stores nothing, deletes nothing and receives nothing is harmless.
LEMMA QuietStep ==
    ASSUME PairInv, NEW p \in Procs, Alone',
           \A q \in Procs : q # p => pc'[q] = "idle",
           UNCHANGED <<access, refresh, minted, paired>>,
           pc'[p] \notin {"storeRefresh", "storeAccess", "sweepRefresh"}
    PROVE  PairInv'
BY DEF PairInv, GrantsAreOld, NewestInHand, RefreshStoredFirst,
       AccessSweptFirst, RefreshNotOlder

\* The grant of a step is newer than every token in the keyring.
LEMMA GrantStep ==
    ASSUME TypeOK, PairInv, NEW withRefresh \in BOOLEAN, NEW spent,
           Grant(withRefresh, spent), UNCHANGED <<access, refresh>>
    PROVE  GrantsAreOld' /\ RefreshNotOlder' /\ minted' = minted + 1
           /\ paired'[minted'] = withRefresh
<1> USE DEF TypeOK, PairInv, KeyringType, ApiType
<1>1. minted' = minted + 1 /\ minted + 1 \in Grants /\ minted \in Nat
  BY GrantType, SsoAssumption DEF Grant
<1>2. paired'[minted'] = withRefresh
  BY <1>1 DEF Grant
<1>3. GrantsAreOld'
  BY <1>1, SsoAssumption DEF GrantsAreOld
<1>4. RefreshNotOlder'
  <2> SUFFICES ASSUME NEW s \in Slots, access[s] # None, paired'[access[s]]
               PROVE  refresh[s] >= access[s]
    BY DEF RefreshNotOlder
  <2>1. access[s] \in Grants /\ access[s] <= minted
    BY DEF GrantsAreOld
  <2>2. access[s] # minted + 1
    BY <1>1, <2>1, SsoAssumption
  <2>3. paired'[access[s]] = paired[access[s]]
    BY <2>1, <2>2 DEF Grant
  <2> QED BY <2>3 DEF RefreshNotOlder
<1> QED BY <1>1, <1>2, <1>3, <1>4

LEMMA ReceiveStep ==
    ASSUME TypeOK, PairInv, NEW p \in Procs, NEW reason, Receive(p, reason),
           Alone', \A q \in Procs : q # p => pc'[q] = "idle",
           UNCHANGED <<access, refresh>>
    PROVE  PairInv'
<1>1. PICK withRefresh \in BOOLEAN :
        /\ Grant(withRefresh,
                 IF withRefresh /\ reason = "renewed" THEN {ref[p]} ELSE {})
        /\ got' = [got EXCEPT ![p] = minted + 1]
        /\ Address(p, IF withRefresh THEN "storeRefresh" ELSE "storeAccess")
  BY DEF Receive
<1>2. /\ GrantsAreOld' /\ RefreshNotOlder' /\ minted' = minted + 1
      /\ paired'[minted'] = withRefresh
  BY <1>1, GrantStep
<1>3. /\ got'[p] = minted' /\ minted' # None
      /\ pc'[p] = IF withRefresh THEN "storeRefresh" ELSE "storeAccess"
  BY <1>1, <1>2, SsoAssumption DEF TypeOK, ApiType, MemoryType, ControlType, Address
<1>4. NewestInHand' /\ RefreshStoredFirst' /\ AccessSweptFirst'
  BY <1>2, <1>3 DEF NewestInHand, RefreshStoredFirst, AccessSweptFirst
<1> QED BY <1>2, <1>4 DEF PairInv

LEMMA PairStep ==
    ASSUME MaxRunning = 1, "delete" \notin Faults, TypeOK, PairInv,
           NEW p \in Procs, Acts(p)
    PROVE  PairInv'
<1>1. Alone' /\ \A q \in Procs : q # p => pc[q] = "idle" /\ pc'[q] = "idle"
  BY AloneStep DEF PairInv
<1> USE <1>1
<1>p. pc \in [Procs -> Locations] /\ p \in Procs
  BY DEF TypeOK, ControlType
<1>2. CASE Receive(p, "renewed") /\ UNCHANGED <<access, refresh>>
  BY <1>2, ReceiveStep
<1>3. CASE Receive(p, "login") /\ UNCHANGED <<access, refresh>>
  BY <1>3, ReceiveStep
<1>4. CASE PostAnswerLost(p) \/ PostUnreadable(p)
  <2>1. /\ Grant(TRUE, {ref[p]}) /\ UNCHANGED <<access, refresh>>
        /\ pc'[p] \notin {"storeRefresh", "storeAccess", "sweepRefresh"}
    BY <1>4, <1>p DEF PostAnswerLost, PostUnreadable, keyring, Address
  <2>2. GrantsAreOld' /\ RefreshNotOlder'
    BY <2>1, GrantStep
  <2> QED BY <2>1, <2>2 DEF PairInv, NewestInHand, RefreshStoredFirst, AccessSweptFirst
<1>5. CASE StoreRefresh(p)
  <2>1. /\ pc'[p] = "storeAccess" /\ got[p] = minted /\ minted # None
        /\ UNCHANGED <<access, minted, paired, got>>
        /\ refresh' = [refresh EXCEPT ![SlotOf[p]] = got[p]]
    BY <1>5, <1>p DEF StoreRefresh, PairInv, NewestInHand, Address, api, memory
  <2>2. /\ refresh'[SlotOf[p]] = minted
        /\ \A s \in Slots \ {SlotOf[p]} : refresh'[s] = refresh[s]
    BY <2>1, SsoAssumption DEF TypeOK, KeyringType
  <2>3. GrantsAreOld' /\ RefreshNotOlder'
    BY <2>1, <2>2, SsoAssumption
       DEF PairInv, GrantsAreOld, RefreshNotOlder, TypeOK, ApiType, KeyringType
  <2> QED BY <2>1, <2>2, <2>3 DEF PairInv, NewestInHand, RefreshStoredFirst, AccessSweptFirst
<1>6. CASE StoreAccess(p)
  <2>1. /\ pc'[p] = "mark" /\ got[p] = minted /\ minted # None
        /\ UNCHANGED <<refresh, minted, paired, got>>
        /\ access' = [access EXCEPT ![SlotOf[p]] = got[p]]
        /\ paired[got[p]] => refresh[SlotOf[p]] = got[p]
    BY <1>6, <1>p
       DEF StoreAccess, PairInv, NewestInHand, RefreshStoredFirst, Address, api, memory
  <2>2. /\ access'[SlotOf[p]] = minted
        /\ \A s \in Slots \ {SlotOf[p]} : access'[s] = access[s]
    BY <2>1, SsoAssumption DEF TypeOK, KeyringType
  <2>3. GrantsAreOld' /\ RefreshNotOlder'
    BY <2>1, <2>2, SsoAssumption
       DEF PairInv, GrantsAreOld, RefreshNotOlder, TypeOK, ApiType, KeyringType
  <2> QED BY <2>1, <2>3 DEF PairInv, NewestInHand, RefreshStoredFirst, AccessSweptFirst
<1>7. CASE SweepAccess(p)
  <2>1. /\ pc'[p] = "sweepRefresh" /\ at' = at /\ UNCHANGED <<refresh, minted, paired>>
        /\ access' = [access EXCEPT ![at[p]] = None]
    BY <1>7, <1>p DEF SweepAccess, DeleteRaises, api, TypeOK, KeyringType
  <2>2. /\ access'[at[p]] = None
        /\ \A s \in Slots \ {at[p]} : access'[s] = access[s]
    BY <2>1 DEF TypeOK, KeyringType, ControlType
  <2>3. GrantsAreOld' /\ RefreshNotOlder'
    BY <2>1, <2>2, SsoAssumption
       DEF PairInv, GrantsAreOld, RefreshNotOlder, TypeOK, ApiType, KeyringType
  <2> QED BY <2>1, <2>2, <2>3 DEF PairInv, NewestInHand, RefreshStoredFirst, AccessSweptFirst
<1>8. CASE SweepRefresh(p)
  <2>1. /\ pc'[p] = "sweepAttempted" /\ UNCHANGED <<access, minted, paired>>
        /\ refresh' = [refresh EXCEPT ![at[p]] = None]
    BY <1>8, <1>p DEF SweepRefresh, DeleteRaises, api, TypeOK, KeyringType
  <2>2. access[at[p]] = None
    BY <1>8 DEF SweepRefresh, PairInv, AccessSweptFirst
  <2>3. \A s \in Slots \ {at[p]} : refresh'[s] = refresh[s]
    BY <2>1 DEF TypeOK, KeyringType
  <2>4. refresh'[at[p]] = None
    BY <2>1 DEF TypeOK, KeyringType, ControlType
  <2>5. GrantsAreOld' /\ RefreshNotOlder'
    BY <2>1, <2>2, <2>3, <2>4, SsoAssumption
       DEF PairInv, GrantsAreOld, RefreshNotOlder, TypeOK, ApiType
  <2> QED BY <2>1, <2>5 DEF PairInv, NewestInHand, RefreshStoredFirst, AccessSweptFirst
<1>9. CASE /\ UNCHANGED <<access, refresh, minted, paired>>
           /\ pc'[p] \notin {"storeRefresh", "storeAccess", "sweepRefresh"}
  BY <1>9, QuietStep
<1>10. ASSUME NEW result, NEW token, Report(p, result, token) \/ Conclude(p, result, token)
       PROVE  pc'[p] \in {"done", "browser"}
  BY <1>10, <1>p DEF Report, Conclude, Address
<1>11. CASE Begin(p)
  <2>1. PICK c \in CommandKinds :
          pc' = [pc EXCEPT ![p] = CASE c = "resolve" -> "held"
                                    [] c = "auth"    -> "loadAccess"
                                    [] c = "login"   -> "browser"
                                    [] c = "logout"  -> "check"]
    BY <1>11, SsoAssumption DEF Begin, Address
  <2>2. pc'[p] \in {"held", "loadAccess", "browser", "check"}
    BY <2>1, <1>p DEF CommandKinds
  <2> QED BY <1>11, <1>9, <2>2 DEF Begin, keyring, api
<1>12. CASE ReadFallsBack(p)
  BY <1>12, <1>9 DEF ReadFallsBack, keyring, api
<1>13. CASE \/ ReadHeld(p) \/ ReadAttempted(p) \/ LoadAccess(p) \/ LoadRefresh(p)
            \/ PostRefused(p) \/ PostFailed(p) \/ StoreFails(p)
            \/ Unexpected(p) \/ LoginAbandoned(p) \/ Exit(p)
  BY <1>13, <1>9, <1>10, <1>p
     DEF ReadHeld, ReadAttempted, LoadAccess, LoadRefresh, PostRefused, PostFailed,
         StoreFails, Unexpected, LoginAbandoned, Exit, Address, keyring, api
<1>14. CASE ReloadAccess(p) \/ ReloadRefresh(p) \/ CheckTokens(p)
  BY <1>14, <1>9, <1>10, <1>p
     DEF ReloadAccess, ReloadRefresh, CheckTokens, StartSweep, Address, keyring, api
<1>15. CASE Mark(p)
  BY <1>15, <1>9, <1>10 DEF Mark, api
<1>16. CASE SweepAttempted(p)
  BY <1>16, <1>9, <1>10, <1>p DEF SweepAttempted, api
<1> QED BY <1>2, <1>3, <1>4, <1>5, <1>6, <1>7, <1>8, <1>11, <1>12, <1>13, <1>14, <1>15, <1>16
    DEF Acts, Step, Finish, Crash, PostAccepted, LogIn, keyring

LEMMA PairNext ==
    ASSUME MaxRunning = 1, "delete" \notin Faults
    PROVE  TypeOK /\ PairInv /\ [Next]_vars => PairInv'
<1> SUFFICES ASSUME TypeOK, PairInv, [Next]_vars PROVE PairInv'
  OBVIOUS
<1>1. ASSUME NEW p \in Procs, Acts(p) PROVE PairInv'
  BY <1>1, PairStep
<1>2. CASE TokenAges \/ AttemptAges \/ Revoke \/ UNCHANGED vars
  <2>1. UNCHANGED <<access, refresh, minted, paired, pc, got, at>>
    BY <1>2 DEF TokenAges, AttemptAges, Revoke, vars, keyring, api, memory
  <2> QED BY <2>1
      DEF PairInv, Alone, GrantsAreOld, NewestInHand, RefreshStoredFirst,
          AccessSweptFirst, RefreshNotOlder
<1> QED BY <1>1, <1>2 DEF Next, Acts

\* When commands run one after another and the keyring can delete what it holds,
\* no crash, failed write, lost answer or logout leaves an access token beside a
\* refresh token that is older: the session in the keyring can be renewed as long
\* as the API keeps it.
THEOREM RefreshIsNotOlder ==
    ASSUME MaxRunning = 1, "delete" \notin Faults
    PROVE  Spec => []RefreshNotOlder
<1>1. Init => TypeOK /\ PairInv
  BY InitType, PairInit
<1>2. TypeOK /\ PairInv /\ [Next]_vars => (TypeOK /\ PairInv)'
  BY NextType, PairNext
<1>3. PairInv => RefreshNotOlder
  BY DEF PairInv
<1> QED BY <1>1, <1>2, <1>3, PTL DEF Spec

-----------------------------------------------------------------------------
(* Which session a renewal spends, and what the cleanup after a refusal      *)
(* deletes, when commands run one after another.                             *)

\* A command that ends, or turns to the browser, addresses its own entries again.
LEMMA Ending ==
    ASSUME TypeOK, NEW p \in Procs, NEW result, NEW token,
           Report(p, result, token) \/ Conclude(p, result, token)
    PROVE  /\ pc'[p] \in {"done", "browser"}
           /\ at'[p] = SlotOf[p]
           /\ pc'[p] = "done" => status'[p] = result /\ cred'[p] = token
BY SsoAssumption DEF TypeOK, ControlType, OutcomeType, Report, Conclude, Address

\* The steps that end in no location where a renewal or a cleanup is under way.
Aside(p) ==
    \/ Begin(p) \/ ReadHeld(p) \/ ReadAttempted(p) \/ PostFailed(p) \/ PostUnreadable(p)
    \/ StoreFails(p) \/ StoreRefresh(p) \/ StoreAccess(p) \/ Mark(p)
    \/ LogIn(p) \/ LoginAbandoned(p) \/ Exit(p) \/ Unexpected(p) \/ PostAccepted(p)

LEMMA AsideLands ==
    ASSUME TypeOK, NEW p \in Procs, Aside(p)
    PROVE  /\ pc'[p] \notin {"loadRefresh", "post", "reloadAccess", "reloadRefresh",
                             "sweepAccess", "sweepRefresh", "sweepAttempted"}
           /\ pc'[p] = "done" => status'[p] # "rejected"
<1>p. pc \in [Procs -> Locations] /\ status \in [Procs -> Statuses]
  BY DEF TypeOK, ControlType, OutcomeType
<1> USE <1>p
<1>1. CASE Begin(p)
  <2>1. PICK c \in CommandKinds :
          pc' = [pc EXCEPT ![p] = CASE c = "resolve" -> "held"
                                    [] c = "auth"    -> "loadAccess"
                                    [] c = "login"   -> "browser"
                                    [] c = "logout"  -> "check"]
    BY <1>1, SsoAssumption DEF Begin, Address
  <2>2. pc'[p] \in {"held", "loadAccess", "browser", "check"}
    BY <2>1 DEF CommandKinds
  <2> QED BY <2>2
<1>2. CASE ReadHeld(p)
  <2>1. PICK token : \/ Conclude(p, "missing", None)
                     \/ Conclude(p, "unchanged", token)
                     \/ Address(p, "loadAccess")
                     \/ Address(p, "throttle")
    BY <1>2 DEF ReadHeld
  <2> QED BY <2>1, Ending DEF Address
<1>3. CASE ReadAttempted(p)
  <2>1. Address(p, "loadAccess") \/ Conclude(p, "unchanged", held[p])
    BY <1>3 DEF ReadAttempted
  <2> QED BY <2>1, Ending DEF Address
<1>4. CASE PostFailed(p) \/ PostUnreadable(p) \/ Unexpected(p)
  BY <1>4 DEF PostFailed, PostUnreadable, Unexpected, Address
<1>5. CASE StoreFails(p)
  BY <1>5, Ending DEF StoreFails
<1>6. CASE StoreRefresh(p) \/ StoreAccess(p)
  BY <1>6 DEF StoreRefresh, StoreAccess, Address
<1>7. CASE Mark(p)
  <2>1. PICK token :
          \/ Report(p, "renewed", token) \/ Conclude(p, "loggedIn", token)
          \/ Conclude(p, "unexpected", token) \/ Report(p, "unrenewable", token)
          \/ Report(p, "current", token) \/ Report(p, "failed", token)
    BY <1>7 DEF Mark
  <2> QED BY <2>1, Ending
<1>8. CASE LogIn(p) \/ PostAccepted(p)
  BY <1>8 DEF LogIn, PostAccepted, Receive, Address
<1>9. CASE LoginAbandoned(p)
  BY <1>9, Ending DEF LoginAbandoned
<1>10. CASE Exit(p)
  BY <1>10 DEF Exit
<1> QED BY <1>1, <1>2, <1>3, <1>4, <1>5, <1>6, <1>7, <1>8, <1>9, <1>10 DEF Aside

\* The refresh token that the command of p finds: its own, or the default one.
Effective(p) ==
    IF refresh[SlotOf[p]] # None THEN refresh[SlotOf[p]] ELSE refresh[Legacy]

\* A renewal turns to the default session only without one of its own.
LoadInv ==
    \A p \in Procs :
        /\ pc[p] = "loadRefresh" /\ at[p] # SlotOf[p] =>
               at[p] = Legacy /\ refresh[SlotOf[p]] = None
        /\ pc[p] = "post" => ref[p] = Effective(p)

LEMMA LoadStep ==
    ASSUME MaxRunning = 1, "read" \notin Faults, TypeOK, Alone, LoadInv,
           NEW p \in Procs, Acts(p)
    PROVE  LoadInv'
<1>1. \A q \in Procs : q # p => pc'[q] = "idle"
  BY AloneStep
<1>2. SUFFICES
        /\ pc'[p] = "loadRefresh" /\ at'[p] # SlotOf[p] =>
               at'[p] = Legacy /\ refresh'[SlotOf[p]] = None
        /\ pc'[p] = "post" => ref'[p] = Effective(p)'
  BY <1>1 DEF LoadInv
<1>3. /\ pc \in [Procs -> Locations] /\ at \in [Procs -> Slots]
      /\ ref \in [Procs -> Tokens]
  BY DEF TypeOK, ControlType, MemoryType
<1> USE <1>3
<1>4. CASE Aside(p)
  BY <1>4, AsideLands
<1>5. CASE ReadFallsBack(p)
  BY <1>5 DEF ReadFallsBack, Reads, LoadInv, keyring
<1>6. CASE LoadAccess(p)
  <2>1. PICK token : Report(p, "missing", token) \/ Address(p, "loadRefresh")
    BY <1>6 DEF LoadAccess
  <2> QED BY <2>1, Ending, SsoAssumption DEF Address
<1>7. CASE LoadRefresh(p)
  <2>1. /\ pc[p] = "loadRefresh" /\ UNCHANGED refresh
        /\ ref' = [ref EXCEPT ![p] = refresh[at[p]]]
        /\ pc'[p] \in {"mark", "post"}
        /\ refresh[at[p]] # None \/ pc'[p] = "mark"
    BY <1>7 DEF LoadRefresh, Found, Reads, Address, keyring
  <2>2. pc'[p] = "post" => refresh[at[p]] = Effective(p)
    BY <2>1 DEF LoadInv, Effective
  <2> QED BY <2>1, <2>2 DEF Effective
<1>8. CASE PostAnswerLost(p)
  BY <1>8 DEF PostAnswerLost, keyring, memory, LoadInv, Effective
<1>9. CASE PostRefused(p) \/ ReloadAccess(p) \/ CheckTokens(p)
  BY <1>9, Ending DEF PostRefused, ReloadAccess, CheckTokens, StartSweep, Address
<1>10. CASE ReloadRefresh(p)
  <2>1. Report(p, "current", cur[p]) \/ StartSweep(p, "rejected")
    BY <1>10 DEF ReloadRefresh
  <2> QED BY <2>1, Ending DEF StartSweep, Address
<1>11. CASE SweepAccess(p) \/ SweepRefresh(p)
  BY <1>11 DEF SweepAccess, SweepRefresh
<1>12. CASE SweepAttempted(p)
  <2>1. PICK result : \/ pc' = [pc EXCEPT ![p] = "sweepAccess"]
                      \/ Report(p, result, None)
                      \/ Conclude(p, result, None)
    BY <1>12 DEF SweepAttempted
  <2> QED BY <2>1, Ending
<1> QED BY <1>4, <1>5, <1>6, <1>7, <1>8, <1>9, <1>10, <1>11, <1>12
    DEF Acts, Step, Finish, Crash, Aside

\* The steps of no process change neither the stored tokens nor a process.
LEMMA Passing ==
    ASSUME TokenAges \/ AttemptAges \/ Revoke \/ UNCHANGED vars
    PROVE  /\ UNCHANGED <<access, refresh, pc, cmd, at, ref, got, why, round, deleted>>
           /\ UNCHANGED <<status, cred, minted, paired>>
           /\ live' \subseteq live
BY DEF TokenAges, AttemptAges, Revoke, vars, keyring, api, memory, sweep, outcome

LEMMA AloneNext ==
    ASSUME MaxRunning = 1
    PROVE  TypeOK /\ Alone /\ [Next]_vars => Alone'
<1> SUFFICES ASSUME TypeOK, Alone, [Next]_vars PROVE Alone'
  OBVIOUS
<1>1. ASSUME NEW p \in Procs, Acts(p) PROVE Alone'
  BY <1>1, AloneStep
<1>2. CASE TokenAges \/ AttemptAges \/ Revoke \/ UNCHANGED vars
  BY <1>2, Passing DEF Alone
<1> QED BY <1>1, <1>2 DEF Next, Acts

LEMMA LoadNext ==
    ASSUME MaxRunning = 1, "read" \notin Faults
    PROVE  TypeOK /\ Alone /\ LoadInv /\ [Next]_vars => LoadInv'
<1> SUFFICES ASSUME TypeOK, Alone, LoadInv, [Next]_vars PROVE LoadInv'
  OBVIOUS
<1>1. ASSUME NEW p \in Procs, Acts(p) PROVE LoadInv'
  BY <1>1, LoadStep
<1>2. CASE TokenAges \/ AttemptAges \/ Revoke \/ UNCHANGED vars
  BY <1>2, Passing DEF LoadInv, Effective
<1> QED BY <1>1, <1>2 DEF Next, Acts

LEMMA LoadInit == Init => Alone /\ LoadInv
BY DEF Init, Alone, LoadInv

\* With commands one after another and a keyring that can be read, a profile with
\* a refresh token of its own never spends the default profile's, whatever writes,
\* deletions and requests fail and whoever is killed.
THEOREM OwnSessionIsFirst ==
    ASSUME MaxRunning = 1, "read" \notin Faults
    PROVE  Spec => []OwnSessionFirst
<1>1. Init => TypeOK /\ Alone /\ LoadInv
  BY InitType, LoadInit
<1>2. TypeOK /\ Alone /\ LoadInv /\ [Next]_vars => (TypeOK /\ Alone /\ LoadInv)'
  BY NextType, AloneNext, LoadNext
<1>3. LoadInv => OwnSessionFirst
  BY DEF LoadInv, OwnSessionFirst, Effective
<1> QED BY <1>1, <1>2, <1>3, PTL DEF Spec

\* How far a deletion of the entries has come: the first round is at the entries
\* of the profile and empties them, the second finds them empty.
Emptied(p) == access[SlotOf[p]] = None /\ refresh[SlotOf[p]] = None

SweepInv ==
    \A p \in Procs :
        /\ pc[p] \in {"sweepAccess", "sweepRefresh", "sweepAttempted"} =>
               \/ round[p] = 1 /\ at[p] = SlotOf[p]
               \/ round[p] = 2 /\ at[p] = Legacy /\ Emptied(p)
        /\ pc[p] = "sweepRefresh" => access[at[p]] = None
        /\ pc[p] = "sweepAttempted" => Emptied(p)
        /\ pc[p] = "done" /\ status[p] = "rejected" => Emptied(p)

LEMMA SweepStep ==
    ASSUME MaxRunning = 1, "delete" \notin Faults, TypeOK, Alone, SweepInv,
           NEW p \in Procs, Acts(p)
    PROVE  SweepInv'
<1>1. \A q \in Procs : q # p => pc'[q] = "idle"
  BY AloneStep
<1>2. SUFFICES
        /\ pc'[p] \in {"sweepAccess", "sweepRefresh", "sweepAttempted"} =>
               \/ round'[p] = 1 /\ at'[p] = SlotOf[p]
               \/ round'[p] = 2 /\ at'[p] = Legacy /\ Emptied(p)'
        /\ pc'[p] = "sweepRefresh" => access'[at'[p]] = None
        /\ pc'[p] = "sweepAttempted" => Emptied(p)'
        /\ pc'[p] = "done" /\ status'[p] = "rejected" => Emptied(p)'
  BY <1>1 DEF SweepInv
<1>3. /\ pc \in [Procs -> Locations] /\ at \in [Procs -> Slots]
      /\ round \in [Procs -> {1, 2}] /\ status \in [Procs -> Statuses]
      /\ access \in [Slots -> Tokens] /\ refresh \in [Slots -> Tokens]
      /\ SlotOf \in [Procs -> Slots]
  BY SsoAssumption DEF TypeOK, ControlType, OutcomeType, KeyringType
<1> USE <1>3
<1>4. CASE Aside(p)
  BY <1>4, AsideLands
<1>5. CASE LoadAccess(p) \/ LoadRefresh(p) \/ PostAnswerLost(p) \/ PostRefused(p)
  <2>1. \/ \E token : Report(p, "missing", token)
        \/ pc'[p] \in {"loadRefresh", "mark", "post", "reloadAccess"}
    BY <1>5 DEF LoadAccess, LoadRefresh, PostAnswerLost, PostRefused, Address
  <2> QED BY <2>1, Ending
<1>6. CASE ReadFallsBack(p)
  BY <1>6 DEF ReadFallsBack
<1>7. CASE ReloadAccess(p) \/ ReloadRefresh(p) \/ CheckTokens(p)
  <2>1. \/ \E token : Report(p, "current", token) \/ Conclude(p, "notFound", token)
        \/ pc'[p] = "reloadRefresh"
        \/ pc'[p] = "sweepAccess" /\ round'[p] = 1 /\ at'[p] = SlotOf[p]
    BY <1>7 DEF ReloadAccess, ReloadRefresh, CheckTokens, StartSweep, Address, sweep
  <2> QED BY <2>1, Ending
<1>8. CASE SweepAccess(p)
  <2>1. /\ pc[p] = "sweepAccess" /\ pc'[p] = "sweepRefresh"
        /\ UNCHANGED <<at, round, refresh>>
        /\ access' = [access EXCEPT ![at[p]] = None]
    BY <1>8 DEF SweepAccess, DeleteRaises
  <2>2. access'[at[p]] = None /\ (Emptied(p) => Emptied(p)')
    BY <2>1 DEF Emptied
  <2> QED BY <2>1, <2>2 DEF SweepInv
<1>9. CASE SweepRefresh(p)
  <2>1. /\ pc[p] = "sweepRefresh" /\ pc'[p] = "sweepAttempted"
        /\ UNCHANGED <<at, round, access>>
        /\ refresh' = [refresh EXCEPT ![at[p]] = None]
    BY <1>9 DEF SweepRefresh, DeleteRaises
  <2>2. Emptied(p)'
    BY <2>1 DEF SweepInv, Emptied
  <2> QED BY <2>1, <2>2 DEF SweepInv
<1>10. CASE SweepAttempted(p)
  <2>1. /\ pc[p] = "sweepAttempted" /\ UNCHANGED <<access, refresh>>
        /\ \/ pc'[p] = "sweepAccess" /\ round'[p] = 2 /\ at'[p] = Legacy
           \/ \E result : Report(p, result, None) \/ Conclude(p, result, None)
    BY <1>10 DEF SweepAttempted
  <2>2. Emptied(p)'
    BY <2>1 DEF SweepInv, Emptied
  <2>3. pc'[p] \in {"sweepAccess", "done", "browser"}
    BY <2>1, Ending
  <2> QED BY <2>1, <2>2, <2>3, Ending
<1> QED BY <1>4, <1>5, <1>6, <1>7, <1>8, <1>9, <1>10
    DEF Acts, Step, Finish, Crash, Aside

LEMMA SweepNext ==
    ASSUME MaxRunning = 1, "delete" \notin Faults
    PROVE  TypeOK /\ Alone /\ SweepInv /\ [Next]_vars => SweepInv'
<1> SUFFICES ASSUME TypeOK, Alone, SweepInv, [Next]_vars PROVE SweepInv'
  OBVIOUS
<1>1. ASSUME NEW p \in Procs, Acts(p) PROVE SweepInv'
  BY <1>1, SweepStep
<1>2. CASE TokenAges \/ AttemptAges \/ Revoke \/ UNCHANGED vars
  BY <1>2, Passing DEF SweepInv, Emptied
<1> QED BY <1>1, <1>2 DEF Next, Acts

LEMMA SweepInit == Init => Alone /\ SweepInv
BY DEF Init, Alone, SweepInv

\* With commands one after another and no failed deletion, a command that reports
\* its session rejected leaves neither token of it, even if reads and writes fail,
\* requests are lost, or the default profile's entries are swept too.
THEOREM RejectionEndsSession ==
    ASSUME MaxRunning = 1, "delete" \notin Faults
    PROVE  Spec => []RejectionEndsOwnSession
<1>1. Init => TypeOK /\ Alone /\ SweepInv
  BY InitType, SweepInit
<1>2. TypeOK /\ Alone /\ SweepInv /\ [Next]_vars => (TypeOK /\ Alone /\ SweepInv)'
  BY NextType, AloneNext, SweepNext
<1>3. SweepInv => RejectionEndsOwnSession
  BY DEF SweepInv, RejectionEndsOwnSession, Emptied
<1> QED BY <1>1, <1>2, <1>3, PTL DEF Spec

\* From the refusal on, the token that was refused is the one the cleanup deletes:
\* the profile's own if it has one, and the default profile's in the second round
\* only if the first round found nothing.
RefusedInv ==
    \A p \in Procs :
        /\ pc[p] \in {"reloadAccess", "reloadRefresh"} => Effective(p) \notin live
        /\ why[p] = "rejected" =>
            /\ pc[p] \in {"sweepAccess", "sweepRefresh"} =>
                   IF round[p] = 1 THEN Effective(p) \notin live
                                   ELSE refresh[Legacy] \notin live
            /\ pc[p] = "sweepAttempted" /\ round[p] = 1 =>
                   deleted[p] \/ refresh[Legacy] \notin live

LEMMA RefusedStep ==
    ASSUME MaxRunning = 1, "delete" \notin Faults, TypeOK, Alone, LoadInv, SweepInv,
           RefusedInv, NEW p \in Procs, Acts(p)
    PROVE  RefusedInv'
<1>1. \A q \in Procs : q # p => pc'[q] = "idle"
  BY AloneStep
<1>2. SUFFICES
        /\ pc'[p] \in {"reloadAccess", "reloadRefresh"} => Effective(p)' \notin live'
        /\ why'[p] = "rejected" =>
            /\ pc'[p] \in {"sweepAccess", "sweepRefresh"} =>
                   IF round'[p] = 1 THEN Effective(p)' \notin live'
                                    ELSE refresh'[Legacy] \notin live'
            /\ pc'[p] = "sweepAttempted" /\ round'[p] = 1 =>
                   deleted'[p] \/ refresh'[Legacy] \notin live'
  BY <1>1 DEF RefusedInv
<1>3. /\ pc \in [Procs -> Locations] /\ at \in [Procs -> Slots]
      /\ why \in [Procs -> Reasons] /\ deleted \in [Procs -> BOOLEAN]
      /\ round \in [Procs -> {1, 2}] /\ refresh \in [Slots -> Tokens]
      /\ SlotOf \in [Procs -> Slots] /\ Legacy \in Slots /\ None \notin live
  BY SsoAssumption DEF TypeOK, ControlType, KeyringType, ApiType
<1> USE <1>3
<1>4. CASE Aside(p)
  BY <1>4, AsideLands
<1>5. CASE LoadAccess(p) \/ LoadRefresh(p) \/ PostAnswerLost(p)
  <2>1. \/ \E token : Report(p, "missing", token)
        \/ pc'[p] \in {"loadRefresh", "mark", "post"}
    BY <1>5 DEF LoadAccess, LoadRefresh, PostAnswerLost, Address
  <2> QED BY <2>1, Ending
<1>6. CASE PostRefused(p)
  <2>1. /\ pc[p] = "post" /\ ref[p] \notin live /\ pc'[p] = "reloadAccess"
        /\ UNCHANGED <<refresh, live>>
    BY <1>6 DEF PostRefused, Address, keyring, api
  <2> QED BY <2>1 DEF LoadInv, Effective
<1>7. CASE ReadFallsBack(p)
  BY <1>7 DEF ReadFallsBack, RefusedInv, Effective, keyring, api
<1>8. CASE ReloadAccess(p) \/ ReloadRefresh(p)
  <2>1. /\ pc[p] \in {"reloadAccess", "reloadRefresh"} /\ UNCHANGED <<refresh, live>>
        /\ \/ \E token : Report(p, "current", token)
           \/ pc'[p] = "reloadRefresh"
           \/ pc'[p] = "sweepAccess" /\ round'[p] = 1
    BY <1>8 DEF ReloadAccess, ReloadRefresh, StartSweep, Address, keyring, api
  <2> QED BY <2>1, Ending DEF RefusedInv, Effective
<1>9. CASE CheckTokens(p)
  <2>1. Conclude(p, "notFound", None) \/ StartSweep(p, "logout")
    BY <1>9 DEF CheckTokens
  <2>2. CASE Conclude(p, "notFound", None)
    BY <2>2, Ending
  <2>3. CASE StartSweep(p, "logout")
    BY <2>3 DEF StartSweep, Address
  <2> QED BY <2>1, <2>2, <2>3
<1>10. CASE SweepAccess(p)
  <2>1. /\ pc[p] = "sweepAccess" /\ pc'[p] = "sweepRefresh"
        /\ UNCHANGED <<refresh, live, round, why>>
    BY <1>10 DEF SweepAccess, api
  <2> QED BY <2>1 DEF RefusedInv, Effective
<1>11. CASE SweepRefresh(p)
  <2>1. /\ pc[p] = "sweepRefresh" /\ pc'[p] = "sweepAttempted"
        /\ UNCHANGED <<live, round, why>>
        /\ \/ refresh[at[p]] # None /\ deleted'[p] = TRUE
           \/ refresh[at[p]] = None /\ UNCHANGED refresh
    BY <1>11 DEF SweepRefresh, DeleteRaises, api
  <2>2. round[p] = 1 => at[p] = SlotOf[p]
    BY <2>1 DEF SweepInv
  <2> QED BY <2>1, <2>2 DEF RefusedInv, Effective
<1>12. CASE SweepAttempted(p)
  <2>1. /\ pc[p] = "sweepAttempted" /\ UNCHANGED <<refresh, live, why>>
        /\ \/ /\ pc'[p] = "sweepAccess" /\ round[p] = 1 /\ round'[p] = 2
              /\ ~deleted[p]
           \/ \E result : Report(p, result, None) \/ Conclude(p, result, None)
    BY <1>12 DEF SweepAttempted, api
  <2> QED BY <2>1, Ending DEF RefusedInv
<1> QED BY <1>4, <1>5, <1>6, <1>7, <1>8, <1>9, <1>10, <1>11, <1>12
    DEF Acts, Step, Finish, Crash, Aside

LEMMA RefusedNext ==
    ASSUME MaxRunning = 1, "delete" \notin Faults
    PROVE  TypeOK /\ Alone /\ LoadInv /\ SweepInv /\ RefusedInv /\ [Next]_vars
           => RefusedInv'
<1> SUFFICES ASSUME TypeOK, Alone, LoadInv, SweepInv, RefusedInv, [Next]_vars
             PROVE  RefusedInv'
  OBVIOUS
<1>1. ASSUME NEW p \in Procs, Acts(p) PROVE RefusedInv'
  BY <1>1, RefusedStep
<1>2. CASE TokenAges \/ AttemptAges \/ Revoke \/ UNCHANGED vars
  <2>1. /\ UNCHANGED <<refresh, pc, why, round, deleted>> /\ live' \subseteq live
    BY <1>2, Passing
  <2> QED BY <2>1 DEF RefusedInv, Effective
<1> QED BY <1>1, <1>2 DEF Next, Acts

LEMMA RefusedInit == Init => RefusedInv
BY DEF Init, RefusedInv

\* With commands one after another and a keyring that reads and deletes what it
\* holds, the cleanup after a refusal never deletes a refresh token that the API
\* still accepts, the default profile's in particular.
THEOREM CleanupSparesLive ==
    ASSUME MaxRunning = 1, "read" \notin Faults, "delete" \notin Faults
    PROVE  Spec => []CleanupSparesLiveSessions
<1> DEFINE Inv == TypeOK /\ Alone /\ LoadInv /\ SweepInv /\ RefusedInv
<1>1. Init => Inv
  BY InitType, LoadInit, SweepInit, RefusedInit
<1>2. Inv /\ [Next]_vars => Inv'
  BY NextType, AloneNext, LoadNext, SweepNext, RefusedNext
<1>3. Inv => CleanupSparesLiveSessions
  <2> SUFFICES ASSUME Inv, NEW p \in Procs, pc[p] = "sweepRefresh", why[p] = "rejected"
               PROVE  refresh[at[p]] \notin live
    BY DEF CleanupSparesLiveSessions
  <2>1. None \notin live
    BY SsoAssumption DEF TypeOK, ApiType
  <2> QED BY <2>1 DEF SweepInv, RefusedInv, Effective
<1> QED BY <1>1, <1>2, <1>3, PTL DEF Spec

-----------------------------------------------------------------------------
(* What a command serves                                                    *)

\* A token that is served from the keyring has been compared with the clock.
Usable(p, token) == token \in {None, got[p]} \/ phase[token] # "dead"

LEMMA EndsUsable ==
    ASSUME TypeOK, NEW p \in Procs, NEW result, NEW token, Usable(p, token),
           Report(p, result, token) \/ Conclude(p, result, token)
    PROVE  pc'[p] = "done" => Usable(p, cred'[p])
BY Ending

LEMMA ServedStep ==
    ASSUME TypeOK, NEW p \in Procs, Acts(p), pc[p] \notin {"done", "throttle"},
           pc'[p] = "done", cmd[p] = "resolve"
    PROVE  Usable(p, cred'[p])
<1> DEFINE valid(token) == IF Valid(token) THEN token ELSE None
<1>p. pc \in [Procs -> Locations]
  BY DEF TypeOK, ControlType
<1> USE <1>p
<1>1. /\ Usable(p, None) /\ Usable(p, got[p])
      /\ Usable(p, valid(held[p])) /\ Usable(p, valid(acc[p]))
      /\ Valid(cur[p]) => Usable(p, cur[p])
      /\ Valid(acc[p]) => Usable(p, acc[p])
  BY DEF Usable, Valid
<1> HIDE DEF valid
<1>2. CASE ReadHeld(p)
  <2>1. \E token : \/ Conclude(p, "missing", None)
                   \/ Conclude(p, "unchanged", token) /\ phase[token] = "fresh"
                   \/ Address(p, "loadAccess") \/ Address(p, "throttle")
    BY <1>2 DEF ReadHeld
  <2> QED BY <2>1, <1>1, EndsUsable DEF Address, Usable
<1>3. CASE LoadAccess(p)
  <2>1. Report(p, "missing", valid(held[p])) \/ Address(p, "loadRefresh")
    BY <1>3 DEF LoadAccess, valid
  <2> QED BY <2>1, <1>1, EndsUsable DEF Address
<1>4. CASE ReloadRefresh(p)
  <2>1. (Report(p, "current", cur[p]) /\ Valid(cur[p])) \/ StartSweep(p, "rejected")
    BY <1>4 DEF ReloadRefresh
  <2> QED BY <2>1, <1>1, EndsUsable DEF StartSweep, Address
<1>5. CASE StoreFails(p)
  BY <1>5, <1>1, EndsUsable DEF StoreFails
<1>6. CASE Mark(p)
  <2>1. \/ Report(p, "renewed", got[p]) \/ Conclude(p, "loggedIn", got[p])
        \/ Conclude(p, "unexpected", valid(held[p]))
        \/ Report(p, "unrenewable", valid(acc[p]))
        \/ Report(p, "current", acc[p]) /\ Valid(acc[p])
        \/ Report(p, "failed", None)
    BY <1>6 DEF Mark, valid
  <2> QED BY <2>1, <1>1, EndsUsable
<1>7. CASE SweepAttempted(p)
  <2>1. \/ pc' = [pc EXCEPT ![p] = "sweepAccess"]
        \/ \E result : Report(p, result, None) \/ Conclude(p, result, None)
    BY <1>7 DEF SweepAttempted
  <2> QED BY <2>1, <1>1, EndsUsable
<1>8. CASE CheckTokens(p) \/ LoginAbandoned(p)
  <2>1. StartSweep(p, "logout") \/ \E result : Conclude(p, result, None)
    BY <1>8 DEF CheckTokens, LoginAbandoned
  <2> QED BY <2>1, <1>1, EndsUsable DEF StartSweep, Address
<1>9. CASE Begin(p)
  BY <1>9, AsideLands, SsoAssumption DEF Begin, Aside, Address, CommandKinds
<1>10. CASE \/ LoadRefresh(p) \/ PostAccepted(p) \/ PostAnswerLost(p) \/ PostUnreadable(p)
            \/ PostRefused(p) \/ PostFailed(p) \/ ReloadAccess(p) \/ StoreRefresh(p)
            \/ StoreAccess(p) \/ SweepAccess(p) \/ SweepRefresh(p) \/ LogIn(p)
            \/ Unexpected(p) \/ ReadFallsBack(p) \/ Exit(p)
  BY <1>10 DEF LoadRefresh, PostAccepted, PostAnswerLost, PostUnreadable, PostRefused,
               PostFailed, ReloadAccess, StoreRefresh, StoreAccess, SweepAccess,
               SweepRefresh, LogIn, Unexpected, ReadFallsBack, Exit, Receive,
               StartSweep, Address
<1> QED BY <1>2, <1>3, <1>4, <1>5, <1>6, <1>7, <1>8, <1>9, <1>10
    DEF Acts, Step, ReadAttempted, Finish, Crash

\* In every behaviour, whatever fails and however many commands run at once, a
\* command that takes a token from the keyring and serves it has seen that it is
\* not past its expiry, unless the retry interval spared it a renewal.
THEOREM ServedIsUsable == Spec => ServedTokenIsUsable
<1> DEFINE A == \A p \in Procs :
                  (/\ pc[p] \notin {"done", "throttle"} /\ pc'[p] = "done"
                   /\ cmd[p] = "resolve" /\ cred'[p] \notin {None, got[p]})
                  => phase[cred'[p]] # "dead"
<1>1. TypeOK /\ [Next]_vars => [A]_vars
  <2> SUFFICES ASSUME TypeOK, Next, NEW p \in Procs,
                      pc[p] \notin {"done", "throttle"}, pc'[p] = "done",
                      cmd[p] = "resolve", cred'[p] \notin {None, got[p]}
               PROVE  phase[cred'[p]] # "dead"
    BY DEF vars
  <2>1. PICK q \in Procs : Acts(q)
    <3>1. CASE TokenAges \/ AttemptAges \/ Revoke
      BY <3>1, Passing
    <3> QED BY <3>1 DEF Next, Acts
  <2>2. q = p
    BY <2>1, Frame
  <2> QED BY <2>1, <2>2, ServedStep DEF Usable
<1> QED BY <1>1, TypeCorrect, PTL DEF Spec, ServedTokenIsUsable

-----------------------------------------------------------------------------
(* However many commands renew one session at once, no refresh token is       *)
(* replaced by an older one.                                                 *)

\* Every renewal rotates the one live refresh token.  Until its successor is
\* stored, one process has it, and all other tokens that are stored or in the
\* memory of a process are older, so none of them can be rotated.
ChainInv ==
    /\ \A s \in Slots : refresh[s] <= minted
    /\ \A p \in Procs : ref[p] <= minted
    /\ \A g, h \in live : g = h
    /\ \A p \in Procs : cmd[p] \notin {"auth", "login"} /\ pc[p] # "browser"
    /\ \A p \in Procs : pc[p] = "storeRefresh" =>
         /\ live \subseteq {got[p]} /\ got[p] <= minted
         /\ \A s \in Slots : refresh[s] < got[p]
         /\ \A q \in Procs : ref[q] < got[p]
         /\ \A q \in Procs : pc[q] = "storeRefresh" => q = p

LEMMA ChainInit == Init => ChainInv
<1> SUFFICES ASSUME Init PROVE ChainInv
  OBVIOUS
<1>1. minted \in {0, 1} /\ live = 1 .. minted /\ \A s \in Slots : refresh[s] \in {0, minted}
  BY DEF Init
<1> QED BY <1>1 DEF Init, ChainInv

\* What a step of p leaves to the others.
LEMMA FrameMemory ==
    ASSUME TypeOK, NEW p \in Procs, Acts(p), NEW q \in Procs, q # p
    PROVE  ref'[q] = ref[q] /\ got'[q] = got[q] /\ cmd'[q] = cmd[q]
BY DEF TypeOK, MemoryType, ControlType, Acts, Step, Begin, ReadFallsBack, ReadHeld,
       ReadAttempted, LoadAccess, LoadRefresh, PostAccepted, PostAnswerLost,
       PostUnreadable, PostRefused, PostFailed, ReloadAccess, ReloadRefresh,
       StoreFails, StoreRefresh, StoreAccess, Mark, SweepAccess, SweepRefresh,
       SweepAttempted, CheckTokens, Finish, Crash, Exit, Unexpected, LogIn,
       LoginAbandoned, Receive, memory

\* A grant is made by the holder of the live token, when no process is about to
\* store one.
LEMMA ChainGrant ==
    ASSUME TypeOK, ChainInv, NEW p \in Procs, pc[p] = "post", ref[p] \in live,
           NEW withRefresh \in BOOLEAN,
           Grant(withRefresh, IF withRefresh THEN {ref[p]} ELSE {})
    PROVE  /\ \A q \in Procs : pc[q] # "storeRefresh"
           /\ minted' = minted + 1 /\ minted \in Nat
           /\ \A g, h \in live' : g = h
           /\ withRefresh => live' = {minted + 1}
<1>1. \A q \in Procs : pc[q] # "storeRefresh"
  BY SsoAssumption DEF ChainInv, TypeOK, MemoryType
<1>2. live = {ref[p]}
  BY DEF ChainInv
<1>3. minted' = minted + 1 /\ minted \in Nat
  BY SsoAssumption DEF Grant, TypeOK, ApiType
<1>4. live' = IF withRefresh THEN {minted + 1} ELSE {ref[p]}
  BY <1>2 DEF Grant
<1> QED BY <1>1, <1>3, <1>4

\* A step that makes no grant and stores no token keeps the chain.
LEMMA ChainQuiet ==
    ASSUME TypeOK, ChainInv, NEW p \in Procs, Acts(p),
           UNCHANGED <<minted, live>>,
           \A s \in Slots : refresh'[s] \in {refresh[s], None},
           ref'[p] \in {ref[p], None} \/ \E s \in Slots : ref'[p] = refresh[s],
           pc'[p] \notin {"storeRefresh", "browser"}, cmd'[p] \notin {"auth", "login"}
    PROVE  ChainInv'
<1>1. ASSUME NEW q \in Procs, q # p
      PROVE  pc'[q] = pc[q] /\ ref'[q] = ref[q] /\ got'[q] = got[q] /\ cmd'[q] = cmd[q]
  BY <1>1, Frame, FrameMemory
<1>2. \A q \in Procs : pc[q] = "storeRefresh" => got[q] > 0
  BY SsoAssumption DEF ChainInv, TypeOK, KeyringType, MemoryType
<1>3. minted \in Nat /\ \A q \in Procs : got[q] \in Nat /\ ref[q] \in Nat
  BY SsoAssumption DEF TypeOK, ApiType, MemoryType
<1>4. /\ \A s \in Slots : refresh'[s] <= minted
      /\ \A q \in Procs : ref'[q] <= minted
      /\ \A q \in Procs : cmd'[q] \notin {"auth", "login"} /\ pc'[q] # "browser"
  BY <1>1, <1>3 DEF ChainInv
<1>5. ASSUME NEW q \in Procs, pc'[q] = "storeRefresh"
      PROVE  /\ live \subseteq {got'[q]} /\ got'[q] <= minted
             /\ \A s \in Slots : refresh'[s] < got'[q]
             /\ \A r \in Procs : ref'[r] < got'[q]
             /\ \A r \in Procs : pc'[r] = "storeRefresh" => r = q
  BY <1>1, <1>2, <1>5 DEF ChainInv
<1> QED BY <1>4, <1>5 DEF ChainInv

LEMMA ChainStep ==
    ASSUME Commands \cap {"auth", "login"} = {}, TypeOK, ChainInv, NEW p \in Procs, Acts(p)
    PROVE  ChainInv'
<1>1. ASSUME NEW q \in Procs, q # p
      PROVE  pc'[q] = pc[q] /\ ref'[q] = ref[q] /\ got'[q] = got[q] /\ cmd'[q] = cmd[q]
  BY <1>1, Frame, FrameMemory
<1>2. /\ pc \in [Procs -> Locations] /\ cmd \in [Procs -> CommandKinds \cup {"none"}]
      /\ at \in [Procs -> Slots] /\ ref \in [Procs -> Tokens] /\ got \in [Procs -> Tokens]
      /\ refresh \in [Slots -> Tokens] /\ SlotOf \in [Procs -> Slots]
      /\ cmd[p] \notin {"auth", "login"} /\ pc[p] # "browser"
      /\ Tokens \subseteq Nat /\ minted \in Nat
  BY SsoAssumption DEF TypeOK, ControlType, MemoryType, KeyringType, ApiType, ChainInv
<1>3. ASSUME NEW result, NEW token, Report(p, result, token) \/ Conclude(p, result, token)
      PROVE  pc'[p] = "done"
  BY <1>2, <1>3 DEF Report, Conclude, Address
<1>q. ASSUME UNCHANGED <<minted, live, refresh, ref, cmd>>,
             pc'[p] \notin {"storeRefresh", "browser"}
      PROVE  ChainInv'
  BY <1>q, <1>2, ChainQuiet
<1>4. CASE Begin(p)
  <2>1. PICK c \in CommandKinds \ {"auth", "login"} :
          /\ cmd' = [cmd EXCEPT ![p] = c]
          /\ pc' = [pc EXCEPT ![p] = CASE c = "resolve" -> "held"
                                      [] c = "auth"    -> "loadAccess"
                                      [] c = "login"   -> "browser"
                                      [] c = "logout"  -> "check"]
    BY <1>4, SsoAssumption DEF Begin, Address
  <2>2. pc'[p] \in {"held", "check"} /\ cmd'[p] \notin {"auth", "login"}
    BY <1>2, <2>1 DEF CommandKinds
  <2> QED BY <1>4, <2>2, ChainQuiet DEF Begin, keyring, api, memory
<1>5. CASE ReadHeld(p)
  <2>1. \E token : \/ Conclude(p, "missing", None) \/ Conclude(p, "unchanged", token)
                   \/ Address(p, "loadAccess") \/ Address(p, "throttle")
    BY <1>5 DEF ReadHeld
  <2>2. pc'[p] \in {"done", "loadAccess", "throttle"}
    BY <1>2, <1>3, <2>1 DEF Address
  <2> QED BY <1>5, <1>q, <2>2 DEF ReadHeld, keyring, api
<1>6. CASE ReadAttempted(p) \/ LoadAccess(p)
  <2>1. pc'[p] \in {"loadAccess", "loadRefresh", "done"}
    BY <1>2, <1>3, <1>6 DEF ReadAttempted, LoadAccess, Address
  <2> QED BY <1>6, <1>q, <2>1 DEF ReadAttempted, LoadAccess, keyring, api, memory
<1>7. CASE LoadRefresh(p)
  <2>1. /\ pc'[p] \in {"mark", "post"} /\ UNCHANGED <<refresh, minted, live, cmd>>
        /\ ref'[p] \in {refresh[at[p]], None}
    BY <1>2, <1>7 DEF LoadRefresh, Found, Reads, Address, keyring, api
  <2> QED BY <1>2, <2>1, ChainQuiet
<1>8. CASE PostAccepted(p)
  <2>1. PICK withRefresh \in BOOLEAN :
          /\ Grant(withRefresh, IF withRefresh THEN {ref[p]} ELSE {})
          /\ got' = [got EXCEPT ![p] = minted + 1]
          /\ Address(p, IF withRefresh THEN "storeRefresh" ELSE "storeAccess")
    BY <1>8 DEF PostAccepted, Receive
  <2>2. /\ pc[p] = "post" /\ ref[p] \in live /\ UNCHANGED <<refresh, ref, cmd>>
    BY <1>8 DEF PostAccepted, keyring
  <2>3. /\ \A q \in Procs : pc[q] # "storeRefresh"
        /\ minted' = minted + 1
        /\ \A g, h \in live' : g = h
        /\ withRefresh => live' = {minted + 1}
    BY <2>1, <2>2, ChainGrant
  <2>4. /\ pc'[p] = IF withRefresh THEN "storeRefresh" ELSE "storeAccess"
        /\ got'[p] = minted + 1
    BY <1>2, <2>1 DEF Address
  <2> QED BY <1>1, <1>2, <2>2, <2>3, <2>4 DEF ChainInv
<1>9. CASE PostAnswerLost(p) \/ PostUnreadable(p)
  <2>1. /\ pc[p] = "post" /\ ref[p] \in live /\ UNCHANGED <<refresh, ref, cmd>>
        /\ Grant(TRUE, {ref[p]}) /\ pc'[p] \in {"post", "mark"}
    BY <1>2, <1>9 DEF PostAnswerLost, PostUnreadable, keyring, memory, Address
  <2>2. /\ \A q \in Procs : pc[q] # "storeRefresh"
        /\ minted' = minted + 1
        /\ \A g, h \in live' : g = h
    BY <2>1, ChainGrant
  <2> QED BY <1>1, <1>2, <2>1, <2>2 DEF ChainInv
<1>10. CASE PostRefused(p) \/ PostFailed(p) \/ Unexpected(p)
  BY <1>2, <1>10, <1>q DEF PostRefused, PostFailed, Unexpected, Address, keyring, api, memory
<1>11. CASE ReloadAccess(p) \/ ReloadRefresh(p) \/ CheckTokens(p)
  <2>1. pc'[p] \in {"reloadRefresh", "sweepAccess", "done"}
    BY <1>2, <1>3, <1>11 DEF ReloadAccess, ReloadRefresh, CheckTokens, StartSweep, Address
  <2> QED BY <1>11, <1>q, <2>1 DEF ReloadAccess, ReloadRefresh, CheckTokens, keyring, api, memory
<1>12. CASE StoreFails(p)
  BY <1>3, <1>12, <1>q DEF StoreFails, keyring, api, memory
<1>13. CASE StoreRefresh(p)
  <2>1. /\ pc[p] = "storeRefresh" /\ pc'[p] = "storeAccess"
        /\ UNCHANGED <<minted, live, ref, got, cmd>>
        /\ refresh' = [refresh EXCEPT ![SlotOf[p]] = got[p]]
    BY <1>2, <1>13 DEF StoreRefresh, Address, api, memory
  <2>2. \A q \in Procs : pc'[q] # "storeRefresh"
    BY <1>1, <2>1 DEF ChainInv
  <2>3. \A s \in Slots : refresh'[s] <= minted
    BY <1>2, <2>1 DEF ChainInv
  <2> QED BY <1>1, <2>1, <2>2, <2>3 DEF ChainInv
<1>14. CASE StoreAccess(p)
  BY <1>2, <1>14, <1>q DEF StoreAccess, Address, api, memory
<1>15. CASE Mark(p)
  <2>1. pc'[p] = "done"
    BY <1>3, <1>15 DEF Mark
  <2> QED BY <1>15, <1>q, <2>1 DEF Mark, api, memory
<1>16. CASE SweepAccess(p)
  BY <1>2, <1>16, <1>q DEF SweepAccess, api, memory
<1>17. CASE SweepRefresh(p)
  <2>1. /\ pc'[p] = "sweepAttempted" /\ UNCHANGED <<minted, live, ref, cmd>>
        /\ \A s \in Slots : refresh'[s] \in {refresh[s], None}
    BY <1>2, <1>17 DEF SweepRefresh, api, memory
  <2> QED BY <1>2, <2>1, ChainQuiet
<1>18. CASE SweepAttempted(p)
  <2>1. pc'[p] \in {"sweepAccess", "done"}
    BY <1>2, <1>3, <1>18 DEF SweepAttempted
  <2> QED BY <1>18, <1>q, <2>1 DEF SweepAttempted, api, memory
<1>19. CASE ReadFallsBack(p)
  BY <1>19, <1>q DEF ReadFallsBack, keyring, api, memory
<1>20. CASE Exit(p)
  BY <1>2, <1>20, ChainQuiet DEF Exit, keyring, api
<1> QED BY <1>2, <1>4, <1>5, <1>6, <1>7, <1>8, <1>9, <1>10, <1>11, <1>12, <1>13, <1>14,
           <1>15, <1>16, <1>17, <1>18, <1>19, <1>20
    DEF Acts, Step, Finish, Crash, LogIn, LoginAbandoned

LEMMA ChainNext ==
    ASSUME Commands \cap {"auth", "login"} = {}
    PROVE  TypeOK /\ ChainInv /\ [Next]_vars => ChainInv'
<1> SUFFICES ASSUME TypeOK, ChainInv, [Next]_vars PROVE ChainInv'
  OBVIOUS
<1>1. ASSUME NEW p \in Procs, Acts(p) PROVE ChainInv'
  BY <1>1, ChainStep
<1>2. CASE TokenAges \/ AttemptAges \/ Revoke \/ UNCHANGED vars
  <2>1. UNCHANGED <<refresh, pc, cmd, ref, got, minted>> /\ live' \subseteq live
    BY <1>2, Passing
  <2> QED BY <2>1 DEF ChainInv
<1> QED BY <1>1, <1>2 DEF Next, Acts

\* While no command logs in, no step replaces a refresh token in the keyring by an
\* older one, for any number of processes, profiles and renewals at once, all
\* faults, crashes and logouts among them.
THEOREM RefreshOnlyForward ==
    ASSUME Commands \cap {"auth", "login"} = {}
    PROVE  Spec => RefreshMovesForward
<1> DEFINE A == \A s \in Slots : refresh'[s] # None => refresh'[s] >= refresh[s]
<1>1. TypeOK /\ ChainInv /\ [Next]_vars => [A]_vars
  <2> SUFFICES ASSUME TypeOK, ChainInv, Next, NEW s \in Slots, refresh'[s] # None
               PROVE  refresh'[s] >= refresh[s]
    BY DEF vars
  <2>1. refresh \in [Slots -> Nat] /\ at \in [Procs -> Slots] /\ SlotOf \in [Procs -> Slots]
    BY SsoAssumption DEF TypeOK, KeyringType, ControlType
  <2>2. CASE UNCHANGED refresh
    BY <2>1, <2>2
  <2>3. ASSUME NEW p \in Procs, StoreRefresh(p) PROVE refresh'[s] >= refresh[s]
    <3>1. refresh[SlotOf[p]] < got[p] /\ got[p] \in Nat
      BY <2>1, <2>3, SsoAssumption DEF StoreRefresh, ChainInv, TypeOK, MemoryType
    <3> QED BY <2>1, <2>3, <3>1 DEF StoreRefresh
  <2>4. ASSUME NEW p \in Procs, SweepRefresh(p) PROVE refresh'[s] >= refresh[s]
    BY <2>1, <2>4 DEF SweepRefresh
  <2> QED BY <2>2, <2>3, <2>4
      DEF Next, Step, Begin, ReadFallsBack, ReadHeld, ReadAttempted, LoadAccess,
          LoadRefresh, PostAccepted, PostAnswerLost, PostUnreadable, PostRefused,
          PostFailed, ReloadAccess, ReloadRefresh, StoreFails, StoreAccess, Mark,
          SweepAccess, SweepAttempted, CheckTokens, Finish, Crash, Exit, Unexpected,
          LogIn, LoginAbandoned, TokenAges, AttemptAges, Revoke, keyring
<1>2. Init => TypeOK /\ ChainInv
  BY InitType, ChainInit
<1>3. TypeOK /\ ChainInv /\ [Next]_vars => (TypeOK /\ ChainInv)'
  BY NextType, ChainNext
<1> QED BY <1>1, <1>2, <1>3, PTL DEF Spec, RefreshMovesForward
==============================================================================
