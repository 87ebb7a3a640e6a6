-------------------------- MODULE SelfUpdate_proofs --------------------------
(***************************************************************************)
(* Theorems about SelfUpdate, for every number of processes, versions and  *)
(* entries, and every set of faults.                                       *)
(***************************************************************************)
EXTENDS SelfUpdate, FiniteSetTheorems, TLAPS

USE SelfUpdateAssumption

-----------------------------------------------------------------------------
(* Type correctness                                                         *)

\* The initial state is well typed.
LEMMA InitType == Init => TypeOK
<1> SUFFICES ASSUME Init PROVE TypeOK
  OBVIOUS
<1>1. DirsType
  <2>1. 1 \in Contents /\ None \in Contents /\ User \in Contents
    BY DEF Contents, Versions
  <2>2. installed \in Dirs
    BY <2>1 DEF Init, Dirs
  <2>3. Nothing \in Dirs
    BY <2>1 DEF Nothing, Dirs
  <2> QED BY <2>2, <2>3 DEF Init, DirsType
<1>2. ControlType
  BY DEF Init, ControlType, Dirs, Contents, Nothing, None, Versions
<1>3. ListType
  BY DEF Init, ListType
<1> QED BY <1>1, <1>2, <1>3 DEF TypeOK

\* A step keeps the directories well typed.
LEMMA DirsTypeNext ==
    ASSUME TypeOK, [Next]_vars
    PROVE  DirsType'
<1> USE DEF TypeOK, DirsType, Dirs, Contents, None, vars, dirs, scratch
<1>1. Nothing \in Dirs /\ \A dir \in Dirs : Removed(dir) \subseteq Dirs
  BY DEF Nothing, Removed
<1>2. ASSUME NEW p \in Procs, Step(p) PROVE DirsType'
  <2>1. CASE Begin(p) \/ Refuse(p) \/ Verify(p) \/ Undone(p) \/ Finish(p) \/ Kill(p)
    BY <2>1 DEF Begin, Refuse, Verify, Undone, Finish, Kill, Gone
  <2>2. CASE Sweep(p)
    BY <2>2, <1>1 DEF Sweep
  <2>3. CASE Fetch(p)
    BY <2>3 DEF Fetch, ControlType
  <2>4. CASE Promote(p)
    BY <2>4, <1>1 DEF Promote
  <2>5. CASE Prepare(p)
    BY <2>5, <1>1 DEF Prepare
  <2>6. CASE MoveOut(p)
    BY <2>6 DEF MoveOut, RenamedToBackup
  <2>7. CASE MoveIn(p)
    BY <2>7 DEF MoveIn
  <2>8. CASE Undo(p)
    BY <2>8 DEF Undo
  <2>9. CASE Clean(p) \/ Discard(p)
    BY <2>9, <1>1 DEF Clean, Discard
  <2> QED BY <1>2, <2>1, <2>2, <2>3, <2>4, <2>5, <2>6, <2>7, <2>8, <2>9 DEF Step
<1>3. CASE Repair
  BY <1>3, <1>1 DEF Repair
<1>4. CASE UNCHANGED vars
  BY <1>4
<1> QED BY <1>2, <1>3, <1>4 DEF Next

\* A step keeps the locations and outcomes well typed.
LEMMA ControlTypeNext ==
    ASSUME TypeOK, [Next]_vars
    PROVE  ControlType'
<1> USE DEF TypeOK, ControlType, vars, Goto, Ends, Abort
<1>1. ASSUME NEW p \in Procs, Step(p) PROVE ControlType'
  <2>1. CASE Begin(p)
    BY <2>1 DEF Begin, DirsType
  <2>2. CASE Refuse(p) \/ Sweep(p) \/ Fetch(p) \/ Promote(p) \/ Prepare(p)
    BY <2>2 DEF Refuse, Sweep, Fetch, Promote, Prepare
  <2>3. CASE MoveOut(p) \/ MoveIn(p) \/ Verify(p) \/ Undo(p) \/ Undone(p)
    BY <2>3 DEF MoveOut, MoveIn, Verify, Undo, Undone
  <2>4. CASE Clean(p) \/ Discard(p)
    BY <2>4 DEF Clean, Discard
  <2>5. CASE Finish(p) \/ Kill(p)
    <3>1. Nothing \in Dirs /\ 1 \in Versions
      BY DEF Nothing, Dirs, Contents, None, Versions
    <3> QED BY <2>5, <3>1 DEF Finish, Kill, Gone
  <2> QED BY <1>1, <2>1, <2>2, <2>3, <2>4, <2>5 DEF Step
<1>2. CASE Repair
  BY <1>2 DEF Repair
<1>3. CASE UNCHANGED vars
  BY <1>3
<1> QED BY <1>1, <1>2, <1>3 DEF Next

\* A step keeps the lists of entries well typed.
LEMMA ListTypeNext ==
    ASSUME TypeOK, [Next]_vars
    PROVE  ListType'
<1> USE DEF TypeOK, ListType, vars, list
<1>1. ASSUME NEW p \in Procs, Step(p) PROVE ListType'
  <2>1. CASE Begin(p) \/ Refuse(p) \/ Sweep(p) \/ Fetch(p) \/ Promote(p)
    BY <2>1 DEF Begin, Refuse, Sweep, Fetch, Promote
  <2>2. CASE Prepare(p)
    BY <2>2 DEF Prepare
  <2>3. CASE MoveOut(p)
    BY <2>3 DEF MoveOut
  <2>4. CASE MoveIn(p)
    BY <2>4 DEF MoveIn
  <2>5. CASE Undo(p)
    BY <2>5 DEF Undo
  <2>6. CASE Verify(p) \/ Undone(p) \/ Clean(p) \/ Discard(p)
    BY <2>6 DEF Verify, Undone, Clean, Discard
  <2>7. CASE Finish(p) \/ Kill(p)
    BY <2>7 DEF Finish, Kill, Gone
  <2> QED BY <1>1, <2>1, <2>2, <2>3, <2>4, <2>5, <2>6, <2>7 DEF Step
<1>2. CASE Repair
  BY <1>2 DEF Repair
<1>3. CASE UNCHANGED vars
  BY <1>3
<1> QED BY <1>1, <1>2, <1>3 DEF Next

\* Every variable keeps to its type, and only moved entries have backups.
THEOREM TypeCorrect == Spec => []TypeOK
<1>1. TypeOK /\ [Next]_vars => TypeOK'
  BY DirsTypeNext, ControlTypeNext, ListTypeNext DEF TypeOK
<1> QED BY InitType, <1>1, PTL DEF Spec

-----------------------------------------------------------------------------
(* Nothing the CLI needs is lost                                            *)

\* The invariant holds initially: nothing has been moved.
LEMMA InitReplace == Init => ReplaceInv
<1> SUFFICES ASSUME Init PROVE ReplaceInv
  OBVIOUS
<1>1. NothingLost
  <2>1. \A n \in Needed : n \in Names /\ n \in Ships[1] /\ 1 # None
    BY DEF Versions, None
  <2> QED BY <2>1 DEF Init, NothingLost
<1> QED
  BY <1>1 DEF Init, ReplaceInv, Alone, RunsMeanwhile, OnlyFirstMissing,
              NoneMovedYet, MovedHaveBackups

\* A step of p moves no other process.
LEMMA Frame ==
    ASSUME TypeOK, NEW p \in Procs, Step(p), NEW q \in Procs, q # p
    PROVE  /\ pc'[q] = pc[q] /\ result'[q] = result[q]
           /\ moved'[q] = moved[q]
BY DEF TypeOK, ControlType, ListType, Step, Begin, Refuse, Sweep, Fetch, Promote,
       Prepare, MoveOut, MoveIn, Verify, Undo, Undone, Clean, Discard, Finish, Kill,
       Gone, Goto, Ends, Abort, list

\* With one update at a time the other processes stay idle.
LEMMA AloneStep ==
    ASSUME MaxRunning = 1, TypeOK, Alone, NEW p \in Procs, Step(p)
    PROVE  Alone' /\ \A q \in Procs : q # p => pc[q] = "idle" /\ pc'[q] = "idle"
<1>1. CASE pc[p] # "idle"
  BY <1>1, Frame DEF Alone
<1>2. CASE Begin(p)
  <2> DEFINE R == {q \in Procs : pc[q] # "idle"}
  <2>1. IsFiniteSet(R) /\ Cardinality(R) < 1
    BY <1>2, FS_Subset DEF Begin
  <2>2. Cardinality(R) = 0
    <3> HIDE DEF R
    <3> QED BY <2>1, FS_CardinalityType
  <2>3. R = {}
    <3> HIDE DEF R
    <3> QED BY <2>1, <2>2, FS_EmptySet
  <2> QED BY <2>3, Frame DEF Alone
<1> QED BY <1>1, <1>2
    DEF Step, Refuse, Sweep, Fetch, Promote, Prepare, MoveOut, MoveIn, Verify,
        Undo, Undone, Clean, Discard, Finish, Kill

\* A step that leaves the installation and the backup alone keeps the invariant if
\* it keeps what the invariant says of p.
LEMMA QuietStep ==
    ASSUME TypeOK, ReplaceInv, NEW p \in Procs, Alone',
           \A q \in Procs : q # p => pc'[q] = "idle" /\ moved'[q] = {},
           UNCHANGED <<installed, backup>>,
           pc'[p] \in {"sweep", "fetch", "promote", "prepare", "moveOut", "discard"} => Runs,
           pc'[p] = "clean" /\ result'[p] = "ok" => Runs,
           pc'[p] # "moveIn",
           pc'[p] \in {"idle", "sweep", "fetch", "promote", "prepare", "moveOut"}
               => moved'[p] = {},
           pc'[p] = "rollback" => /\ pc[p] \in {"moveOut", "moveIn"}
                                  /\ UNCHANGED <<moved, backed>>
    PROVE  ReplaceInv'
<1>1. RunsMeanwhile' /\ OnlyFirstMissing' /\ NothingLost'
  BY DEF ReplaceInv, RunsMeanwhile, OnlyFirstMissing, NothingLost, Runs
<1>2. NoneMovedYet'
  BY DEF NoneMovedYet
<1>3. MovedHaveBackups'
  BY DEF ReplaceInv, MovedHaveBackups
<1> QED BY <1>1, <1>2, <1>3 DEF ReplaceInv

\* A step of p keeps the invariant.
LEMMA ReplaceStep ==
    ASSUME MaxRunning = 1, TypeOK, ReplaceInv, NEW p \in Procs, Step(p)
    PROVE  ReplaceInv'
<1>1. Alone' /\ \A q \in Procs : q # p => pc[q] = "idle" /\ pc'[q] = "idle"
  BY AloneStep DEF ReplaceInv
<1>2. \A q \in Procs : q # p => moved'[q] = {}
  BY <1>1, Frame DEF ReplaceInv, NoneMovedYet
<1>3. /\ pc = [q \in Procs |-> pc[q]] /\ result = [q \in Procs |-> result[q]]
      /\ moved \in [Procs -> SUBSET Names] /\ backed \in [Procs -> SUBSET Names]
      /\ todo \in [Procs -> SUBSET Names]
      /\ installed \in [Names -> Contents] /\ backup \in [Names -> Contents]
      /\ Needed \subseteq Names /\ Names \subseteq Int
  BY DEF TypeOK, ControlType, ListType, DirsType, Dirs, Names
<1> USE <1>1, <1>2, <1>3
<1>4. CASE Begin(p)
  BY <1>4, QuietStep DEF Begin, Goto, dirs, list, ReplaceInv, NoneMovedYet
<1>5. CASE Refuse(p) \/ Fetch(p) \/ Promote(p)
  BY <1>5, QuietStep
     DEF Refuse, Fetch, Promote, Goto, Ends, Abort, dirs, list, scratch, ReplaceInv,
         NoneMovedYet, RunsMeanwhile
<1>6. CASE Verify(p)
  BY <1>6, QuietStep
     DEF Verify, Goto, Ends, dirs, list, ReplaceInv, RunsMeanwhile
<1>7. CASE Undone(p) \/ Clean(p)
  BY <1>7, QuietStep
     DEF Undone, Clean, Goto, Ends, dirs, list, ReplaceInv, RunsMeanwhile
<1>8. CASE Finish(p) \/ Kill(p)
  BY <1>8, QuietStep DEF Finish, Kill, Gone, Goto, Ends, dirs
<1>9. CASE Sweep(p) \/ Prepare(p) \/ Discard(p)
  <2>1. Runs /\ Runs' /\ moved'[p] = moved[p]
    BY <1>9 DEF Sweep, Prepare, Discard, ReplaceInv, RunsMeanwhile, Runs, list
  <2>2. /\ pc'[p] \in {"fetch", "moveOut", "clean", "done"}
        /\ pc'[p] \in {"fetch", "moveOut"} => moved[p] = {}
    BY <1>9 DEF Sweep, Prepare, Discard, Goto, Abort, ReplaceInv, NoneMovedYet
  <2>3. RunsMeanwhile' /\ OnlyFirstMissing' /\ NothingLost'
    BY <2>1, <2>2 DEF RunsMeanwhile, OnlyFirstMissing, NothingLost, Runs
  <2>4. NoneMovedYet' /\ MovedHaveBackups'
    BY <2>1, <2>2 DEF NoneMovedYet, MovedHaveBackups
  <2> QED BY <2>3, <2>4 DEF ReplaceInv
<1>10. CASE MoveOut(p)
  <2>a. /\ pc[p] = "moveOut" /\ Runs
        /\ \A m \in moved[p] \cap Needed : m \in backed[p] /\ backup[m] # None
    BY <1>10 DEF MoveOut, ReplaceInv, RunsMeanwhile, MovedHaveBackups
  <2>1. PICK n \in Names :
          /\ First(n, todo[p]) /\ todo' = todo
          /\ \/ /\ installed[n] = None /\ UNCHANGED <<installed, backup, backed>>
                /\ moved' = [moved EXCEPT ![p] = @ \cup {n}] /\ Goto(p, "moveIn")
             \/ /\ RenamedToBackup(n)
                /\ backed' = [backed EXCEPT ![p] = @ \cup {n}]
                /\ moved' = [moved EXCEPT ![p] = @ \cup {n}] /\ Goto(p, "moveIn")
             \/ /\ RenamedToBackup(n)
                /\ UNCHANGED <<moved, backed>> /\ Goto(p, "rollback")
             \/ /\ UNCHANGED <<installed, backup, moved, backed>> /\ Goto(p, "rollback")
    BY <1>10 DEF MoveOut
  <2>2. pc'[p] \in {"moveIn", "rollback"}
    BY <2>1 DEF Goto
  <2>3. \A m \in Needed : m # n => installed'[m] = installed[m] /\ backup'[m] = backup[m]
    BY <2>1 DEF RenamedToBackup
  <2>4. \/ UNCHANGED <<installed, backup>>
        \/ installed'[n] = None /\ backup'[n] # None
    BY <2>1 DEF RenamedToBackup
  <2>5. RunsMeanwhile' /\ NoneMovedYet'
    BY <2>2 DEF RunsMeanwhile, NoneMovedYet
  <2>6. OnlyFirstMissing'
    BY <2>a, <2>1, <2>2, <2>3 DEF OnlyFirstMissing, Runs
  <2>7. NothingLost'
    BY <2>a, <2>3, <2>4 DEF NothingLost, Runs
  <2>8. MovedHaveBackups'
    <3>1. \A m \in moved[p] \cap Needed : m \in backed'[p] /\ backup'[m] # None
      BY <2>a, <2>1, <2>3, <2>4 DEF RenamedToBackup
    <3>2. n \in moved'[p] \cap Needed => n \in backed'[p] /\ backup'[n] # None
      BY <2>a, <2>1, <2>4, <3>1 DEF Runs, RenamedToBackup
    <3>3. moved'[p] \subseteq moved[p] \cup {n}
      BY <2>1
    <3> QED BY <3>1, <3>2, <3>3, <2>2 DEF MovedHaveBackups
  <2> QED BY <2>5, <2>6, <2>7, <2>8 DEF ReplaceInv
<1>11. CASE MoveIn(p)
  <2>a. /\ pc[p] = "moveIn"
        /\ \A m \in Needed : installed[m] = None => First(m, todo[p])
        /\ \A m \in moved[p] \cap Needed : m \in backed[p] /\ backup[m] # None
    BY <1>11 DEF MoveIn, ReplaceInv, OnlyFirstMissing, MovedHaveBackups
  <2>1. PICK n \in Names :
          /\ First(n, todo[p]) /\ UNCHANGED <<backup, moved, backed>>
          /\ \/ /\ staging[n] # None
                /\ installed' = [installed EXCEPT ![n] = staging[n]]
                /\ Goto(p, "moveOut") \/ Goto(p, "rollback")
             \/ Goto(p, "rollback") /\ UNCHANGED installed
    BY <1>11 DEF MoveIn
  <2>2. /\ pc'[p] \in {"moveOut", "rollback"}
        /\ pc'[p] = "moveOut" => /\ staging[n] # None
                                  /\ installed' = [installed EXCEPT ![n] = staging[n]]
    BY <2>1 DEF Goto
  <2>3. pc'[p] = "moveOut" => Runs'
    BY <2>a, <2>1, <2>2 DEF Runs, First
  <2>4. RunsMeanwhile' /\ OnlyFirstMissing' /\ NoneMovedYet'
    BY <2>2, <2>3 DEF RunsMeanwhile, OnlyFirstMissing, NoneMovedYet
  <2>5. NothingLost'
    BY <2>1 DEF ReplaceInv, NothingLost
  <2>6. MovedHaveBackups'
    BY <2>a, <2>1 DEF MovedHaveBackups
  <2> QED BY <2>4, <2>5, <2>6 DEF ReplaceInv
<1>12. CASE Undo(p)
  <2>a. /\ pc[p] = "rollback" /\ pc' = pc
        /\ \A m \in moved[p] \cap Needed : m \in backed[p] /\ backup[m] # None
    BY <1>12 DEF Undo, ReplaceInv, MovedHaveBackups
  <2>1. PICK n \in Names :
          /\ n \in moved[p]
          /\ moved' = [moved EXCEPT ![p] = @ \ {n}]
          /\ backed' = [backed EXCEPT ![p] = @ \ {n}]
          /\ \/ /\ backup[n] # None
                /\ installed' = [installed EXCEPT ![n] = backup[n]]
                /\ backup' = [backup EXCEPT ![n] = None]
             \/ installed' = [installed EXCEPT ![n] = None] /\ UNCHANGED backup
             \/ UNCHANGED <<installed, backup>>
    BY <1>12 DEF Undo, Last, Restorable
  <2>2. RunsMeanwhile' /\ OnlyFirstMissing' /\ NoneMovedYet'
    BY <2>a DEF RunsMeanwhile, OnlyFirstMissing, NoneMovedYet
  <2>3. \A m \in Needed : m # n => installed'[m] = installed[m] /\ backup'[m] = backup[m]
    BY <2>1
  <2>4. n \in Needed => installed'[n] # None \/ backup'[n] # None
    BY <2>a, <2>1 DEF ReplaceInv, NothingLost
  <2>5. NothingLost'
    BY <2>3, <2>4 DEF ReplaceInv, NothingLost
  <2>6. MovedHaveBackups'
    BY <2>a, <2>1, <2>3 DEF MovedHaveBackups
  <2> QED BY <2>2, <2>5, <2>6 DEF ReplaceInv
<1> QED BY <1>4, <1>5, <1>6, <1>7, <1>8, <1>9, <1>10, <1>11, <1>12 DEF Step

\* A repair by the user keeps the invariant.
LEMMA RepairStep ==
    ASSUME TypeOK, ReplaceInv, Repair
    PROVE  ReplaceInv'
<1>1. /\ \A p \in Procs : pc'[p] = "idle" /\ moved'[p] = {}
      /\ Needed \subseteq Names
  BY DEF Repair, list, ReplaceInv, NoneMovedYet
<1>2. NothingLost'
  <2>1. CASE installed' = [n \in Names |-> IF backup[n] # None THEN backup[n]
                                                               ELSE installed[n]]
    BY <2>1, <1>1 DEF ReplaceInv, NothingLost
  <2>2. CASE \E v \in Versions :
               installed' = [n \in Names |-> IF n \in Ships[v] THEN v ELSE installed[n]]
    BY <2>2, <1>1 DEF NothingLost, Versions, None
  <2> QED BY <2>1, <2>2 DEF Repair
<1> QED
  BY <1>1, <1>2 DEF ReplaceInv, Alone, RunsMeanwhile, OnlyFirstMissing,
                    NoneMovedYet, MovedHaveBackups

\* With one update at a time, an entry the CLI needs is always in the install
\* directory or in the backup, across failures, kills and sweeps.
THEOREM NothingIsLost == MaxRunning = 1 => (Spec => []NothingLost)
<1> SUFFICES ASSUME MaxRunning = 1 PROVE Spec => []NothingLost
  OBVIOUS
<1>1. TypeOK /\ ReplaceInv /\ [Next]_vars => ReplaceInv'
  <2>1. CASE UNCHANGED vars
    BY <2>1 DEF vars, dirs, scratch, list, ReplaceInv, Alone, RunsMeanwhile, Runs,
                OnlyFirstMissing, NoneMovedYet, MovedHaveBackups, NothingLost
  <2> QED BY <2>1, ReplaceStep, RepairStep DEF Next
<1>2. ReplaceInv => NothingLost
  BY DEF ReplaceInv
<1> QED BY TypeCorrect, InitReplace, <1>1, <1>2, PTL DEF Spec

-----------------------------------------------------------------------------
(* What no bundle ships is never touched, whatever else runs                *)

Shipped == UNION {Ships[v] : v \in Versions}

\* The update has none of these names in hand: its directories and lists hold
\* names of bundles only, and the install directory keeps what it had.
OnlyShipped ==
    /\ \A n \in Names \ Shipped :
         /\ installed[n] = (IF n \in UserNames THEN User ELSE None)
         /\ extract[n] = None /\ staging[n] = None /\ backup[n] = None
    /\ \A p \in Procs :
         /\ todo[p] \subseteq Shipped /\ moved[p] \subseteq Shipped
         /\ pc[p] # "idle" => \A n \in Names \ Shipped : before[p][n] = installed[n]

LEMMA InitOnlyShipped == Init => OnlyShipped
<1>1. Ships[1] \subseteq Shipped
  BY DEF Shipped, Versions
<1> QED BY <1>1 DEF Init, OnlyShipped, Nothing

\* A directory that holds nothing of a name holds nothing of it once emptied.
LEMMA RemovedHolds ==
    ASSUME NEW dir \in Dirs, NEW left \in Removed(dir), NEW n \in Names, dir[n] = None
    PROVE  left[n] = None
BY DEF Removed, Nothing

LEMMA OnlyShippedStep ==
    ASSUME TypeOK, OnlyShipped, NEW p \in Procs, Step(p)
    PROVE  OnlyShipped'
<1> DEFINE U == Names \ Shipped
<1> USE DEF TypeOK, DirsType, ControlType, ListType
<1>1. ASSUME NEW n \in U, NEW v \in Versions PROVE n \notin Ships[v]
  BY DEF Shipped
<1>2. \A n \in U : /\ installed'[n] = installed[n] /\ extract'[n] = None
                   /\ staging'[n] = None /\ backup'[n] = None
  <2> SUFFICES ASSUME NEW n \in U
               PROVE  /\ installed'[n] = installed[n] /\ extract'[n] = None
                      /\ staging'[n] = None /\ backup'[n] = None
    OBVIOUS
  <2>1. /\ extract[n] = None /\ staging[n] = None /\ backup[n] = None
        /\ n \notin todo[p] /\ n \notin moved[p] /\ n \in Names
    BY DEF OnlyShipped
  <2>2. CASE UNCHANGED dirs
    BY <2>1, <2>2 DEF dirs, scratch
  <2>3. CASE Sweep(p) \/ Clean(p) \/ Discard(p)
    BY <2>1, <2>3, RemovedHolds DEF Sweep, Clean, Discard, Nothing, scratch
  <2>4. CASE Fetch(p)
    <3>1. n \notin Ships[target[p]]
      BY <1>1
    <3> QED BY <2>1, <2>4, <3>1 DEF Fetch
  <2>5. CASE Promote(p)
    BY <2>1, <2>5 DEF Promote, Nothing, scratch
  <2>6. CASE Prepare(p)
    BY <2>1, <2>6 DEF Prepare, Nothing, scratch
  <2>7. CASE MoveOut(p) \/ MoveIn(p) \/ Undo(p)
    BY <2>1, <2>7 DEF MoveOut, MoveIn, Undo, RenamedToBackup, First, Last, Dirs, scratch
  <2> QED BY <2>2, <2>3, <2>4, <2>5, <2>6, <2>7
      DEF Step, Begin, Refuse, Verify, Undone, Finish, Kill, Gone
<1>3. \A q \in Procs : todo'[q] \subseteq Shipped /\ moved'[q] \subseteq Shipped
  <2>1. ASSUME NEW n \in Names, staging[n] # None PROVE n \in Shipped
    BY <2>1 DEF OnlyShipped
  <2>2. CASE UNCHANGED <<todo, moved>>
    BY <2>2 DEF OnlyShipped
  <2>3. CASE Prepare(p)
    BY <2>1, <2>3 DEF Prepare, OnlyShipped
  <2>4. CASE MoveOut(p) \/ MoveIn(p) \/ Undo(p) \/ Gone(p)
    BY <2>4 DEF MoveOut, MoveIn, Undo, Gone, First, OnlyShipped
  <2> QED BY <2>2, <2>3, <2>4
      DEF Step, Begin, Refuse, Sweep, Fetch, Promote, Verify, Undone, Clean, Discard,
          Finish, Kill, list
<1>4. ASSUME NEW q \in Procs, pc'[q] # "idle"
      PROVE  \A n \in U : before'[q][n] = installed'[n]
  <2>1. CASE Begin(p)
    BY <1>2, <1>4, <2>1 DEF Begin, Goto, OnlyShipped
  <2>2. CASE Gone(p)
    BY <1>2, <1>4, <2>2 DEF Gone, Goto, OnlyShipped
  <2>3. CASE UNCHANGED before /\ pc[p] # "idle"
    <3>1. q # p => pc'[q] = pc[q]
      BY Frame
    <3> QED BY <1>2, <1>4, <2>3, <3>1 DEF OnlyShipped
  <2> QED BY <2>1, <2>2, <2>3
      DEF Step, Refuse, Sweep, Fetch, Promote, Prepare, MoveOut, MoveIn, Verify, Undo,
          Undone, Clean, Discard, Finish, Kill
<1>5. \A n \in U : installed'[n] = (IF n \in UserNames THEN User ELSE None)
  BY <1>2 DEF OnlyShipped
<1> QED BY <1>2, <1>3, <1>4, <1>5 DEF OnlyShipped

LEMMA OnlyShippedNext == TypeOK /\ OnlyShipped /\ [Next]_vars => OnlyShipped'
<1> SUFFICES ASSUME TypeOK, OnlyShipped, [Next]_vars PROVE OnlyShipped'
  OBVIOUS
<1>1. CASE Repair
  <2>1. \A v \in Versions : Ships[v] \subseteq Shipped
    BY DEF Shipped
  <2>2. \A n \in Names \ Shipped : installed'[n] = installed[n] /\ backup'[n] = None
    BY <1>1, <2>1 DEF Repair, OnlyShipped, Nothing
  <2> QED BY <1>1, <2>2 DEF Repair, OnlyShipped, scratch, list
<1>2. CASE UNCHANGED vars
  BY <1>2 DEF OnlyShipped, vars, dirs, scratch, list
<1> QED BY <1>1, <1>2, OnlyShippedStep DEF Next

\* A file of the user under a name that no bundle ships is there at every moment,
\* for any number of concurrent updates, whatever fails or is killed.
THEOREM UserFilesStay == Spec => []UserFilesUntouched
<1>1. OnlyShipped => UserFilesUntouched
  BY DEF OnlyShipped, UserFilesUntouched, Shipped
<1> QED BY TypeCorrect, InitOnlyShipped, OnlyShippedNext, <1>1, PTL DEF Spec

-----------------------------------------------------------------------------
(* A success is complete                                                    *)

\* A step of p changes nothing that belongs to another process.
LEMMA FrameAll ==
    ASSUME TypeOK, NEW p \in Procs, Step(p), NEW q \in Procs, q # p
    PROVE  /\ pc'[q] = pc[q] /\ result'[q] = result[q] /\ target'[q] = target[q]
           /\ before'[q] = before[q] /\ todo'[q] = todo[q]
           /\ moved'[q] = moved[q] /\ backed'[q] = backed[q] /\ lost'[q] = lost[q]
BY DEF TypeOK, ControlType, ListType, Step, Begin, Refuse, Sweep, Fetch, Promote,
       Prepare, MoveOut, MoveIn, Verify, Undo, Undone, Clean, Discard, Finish, Kill,
       Gone, Goto, Ends, Abort, list

\* An update is successful only after the replacement, and then ends.
OutcomeKnown ==
    \A p \in Procs :
        /\ result[p] = "ok" => pc[p] \in {"clean", "discard", "done"}
        /\ pc[p] = "discard" => result[p] = "ok"

\* The bundle of the target version is whole wherever the update has it: in the
\* extracted archive, in the staging directory, then in part in the installation.
BundleInHand ==
    \A p \in Procs : \A n \in Ships[target[p]] :
        /\ pc[p] = "promote" => extract[n] = target[p]
        /\ pc[p] = "prepare" => staging[n] = target[p]
        /\ pc[p] \in {"moveOut", "moveIn"} =>
               IF n \in todo[p] THEN staging[n] = target[p] ELSE installed[n] = target[p]
        /\ pc[p] \in {"clean", "discard", "done"} /\ result[p] = "ok" =>
               installed[n] = target[p]

CompleteInv == Alone /\ OutcomeKnown /\ BundleInHand

LEMMA InitComplete == Init => CompleteInv
BY DEF Init, CompleteInv, Alone, OutcomeKnown, BundleInHand

LEMMA OutcomeStep ==
    ASSUME TypeOK, OutcomeKnown, NEW p \in Procs, Step(p)
    PROVE  OutcomeKnown'
<1>1. ASSUME NEW q \in Procs, q # p
      PROVE  pc'[q] = pc[q] /\ result'[q] = result[q]
  BY <1>1, FrameAll
<1>2. /\ result'[p] = "ok" => pc'[p] \in {"clean", "discard", "done"}
      /\ pc'[p] = "discard" => result'[p] = "ok"
  BY DEF TypeOK, ControlType, OutcomeKnown, Step, Begin, Refuse, Sweep, Fetch, Promote,
         Prepare, MoveOut, MoveIn, Verify, Undo, Undone, Clean, Discard, Finish, Kill,
         Gone, Goto, Ends, Abort
<1> QED BY <1>1, <1>2 DEF OutcomeKnown

LEMMA CompleteStep ==
    ASSUME MaxRunning = 1, TypeOK, CompleteInv, NEW p \in Procs, Step(p)
    PROVE  CompleteInv'
<1> DEFINE v == target[p]
<1>1. Alone' /\ \A q \in Procs : q # p => pc[q] = "idle" /\ pc'[q] = "idle"
  BY AloneStep DEF CompleteInv
<1>2. OutcomeKnown'
  BY OutcomeStep DEF CompleteInv
<1>3. /\ v \in Versions /\ v # None /\ Ships[v] \subseteq Names /\ Names \subseteq Int
      /\ Exe \in Ships[v]
  BY DEF TypeOK, ControlType, Versions, None, Names
<1>4. SUFFICES ASSUME NEW n \in Ships[target'[p]]
      PROVE  /\ pc'[p] = "promote" => extract'[n] = target'[p]
             /\ pc'[p] = "prepare" => staging'[n] = target'[p]
             /\ pc'[p] \in {"moveOut", "moveIn"} =>
                    IF n \in todo'[p] THEN staging'[n] = target'[p]
                                      ELSE installed'[n] = target'[p]
             /\ pc'[p] \in {"clean", "discard", "done"} /\ result'[p] = "ok" =>
                    installed'[n] = target'[p]
  BY <1>1, <1>2 DEF CompleteInv, BundleInHand
<1>5. CASE Begin(p)
  BY <1>5, <1>2 DEF Begin, Goto, TypeOK, ControlType, OutcomeKnown
<1>6. CASE Finish(p) \/ Kill(p)
  BY <1>6 DEF Finish, Kill, Gone, Goto, TypeOK, ControlType
<1> USE DEF TypeOK, DirsType, Dirs, ControlType, ListType, Goto, Ends, Abort
<1>7. CASE Refuse(p) \/ Sweep(p) \/ Undo(p) \/ Undone(p)
  BY <1>7 DEF Refuse, Sweep, Undo, Undone, CompleteInv, OutcomeKnown
<1>8. CASE Fetch(p)
  BY <1>3, <1>8 DEF Fetch
<1>9. CASE Promote(p)
  BY <1>9 DEF Promote, CompleteInv, BundleInHand
<1>10. CASE Prepare(p)
  BY <1>3, <1>10 DEF Prepare, scratch, CompleteInv, BundleInHand
<1>11. CASE MoveOut(p)
  BY <1>3, <1>11 DEF MoveOut, RenamedToBackup, First, scratch, CompleteInv, BundleInHand
<1>12. CASE MoveIn(p)
  <2>1. PICK m \in Names :
          /\ First(m, todo[p]) /\ UNCHANGED target
          /\ \/ /\ installed' = [installed EXCEPT ![m] = staging[m]]
                /\ staging' = [staging EXCEPT ![m] = None]
                /\ todo' = [todo EXCEPT ![p] = @ \ {m}] /\ Goto(p, "moveOut")
             \/ Goto(p, "rollback")
    BY <1>12 DEF MoveIn
  <2>2. pc[p] = "moveIn" /\ UNCHANGED result
    BY <1>12 DEF MoveIn
  <2> QED BY <1>3, <2>1, <2>2 DEF First, CompleteInv, BundleInHand
<1>13. CASE Verify(p)
  BY <1>13 DEF Verify, dirs, list, CompleteInv, BundleInHand
<1>14. CASE Clean(p) \/ Discard(p)
  BY <1>14 DEF Clean, Discard, CompleteInv, OutcomeKnown, BundleInHand
<1> QED BY <1>5, <1>6, <1>7, <1>8, <1>9, <1>10, <1>11, <1>12, <1>13, <1>14 DEF Step

LEMMA CompleteNext ==
    ASSUME MaxRunning = 1
    PROVE  TypeOK /\ CompleteInv /\ [Next]_vars => CompleteInv'
<1> SUFFICES ASSUME TypeOK, CompleteInv, [Next]_vars PROVE CompleteInv'
  OBVIOUS
<1>1. CASE Repair
  BY <1>1 DEF Repair, CompleteInv, Alone, OutcomeKnown, BundleInHand
<1>2. CASE UNCHANGED vars
  BY <1>2 DEF vars, dirs, scratch, list, CompleteInv, Alone, OutcomeKnown, BundleInHand
<1> QED BY <1>1, <1>2, CompleteStep DEF Next

\* With one update at a time, success means that every entry of the new bundle is
\* installed and that every other entry is what it was, whatever an earlier update
\* that failed or was killed has left in the directories.
THEOREM SuccessComplete == MaxRunning = 1 => (Spec => []SuccessIsComplete)
<1> SUFFICES ASSUME MaxRunning = 1 PROVE Spec => []SuccessIsComplete
  OBVIOUS
<1>1. CompleteInv /\ OnlyShipped => SuccessIsComplete
  BY DEF CompleteInv, BundleInHand, OnlyShipped, SuccessIsComplete, Shipped
<1> QED BY TypeCorrect, InitComplete, CompleteNext, InitOnlyShipped, OnlyShippedNext,
           <1>1, PTL DEF Spec

-----------------------------------------------------------------------------
(* A failure restores the installation                                      *)

\* An entry that the update of p has moved is in the backup as it was, or was not
\* there.
Recorded(p, n) ==
    IF n \in backed[p] THEN backup[n] = before[p][n] /\ backup[n] # None
                       ELSE before[p][n] = None

\* An entry that is not on the list is as it was, or nothing was there before, or
\* its backup is kept and the error will name it.
Settled(p, n) ==
    /\ before[p][n] \notin {None, installed[n]} => n \in lost[p]
    /\ n \in lost[p] => backup[n] = before[p][n]

\* Until the replacement begins nothing has changed.  The list of moved entries
\* grows by the first of the entries that are still to do.
ListInv ==
    \A p \in Procs :
        /\ pc[p] \in {"idle", "sweep", "fetch", "promote", "prepare"} => moved[p] = {}
        /\ pc[p] \notin {"rollback", "clean", "discard", "done"} => lost[p] = {}
        /\ pc[p] = "rollback" => result[p] # "ok"
        /\ pc[p] \in {"sweep", "fetch", "promote", "prepare"} => installed = before[p]
        /\ pc[p] = "moveOut" => todo[p] \cap moved[p] = {}
        /\ pc[p] = "moveIn" =>
               \A n \in todo[p] : n \in moved[p] <=> First(n, todo[p])

\* During the replacement what is not on the list is untouched, and what is on it
\* can be undone; what has been undone is settled.
RestoreInv ==
    \A p \in Procs :
        /\ pc[p] \in {"moveOut", "moveIn", "rollback"} =>
               \A n \in moved[p] : Recorded(p, n) /\ n \notin lost[p]
        /\ pc[p] \in {"moveOut", "moveIn"} =>
               \A n \in Names \ moved[p] : installed[n] = before[p][n]
        /\ pc[p] = "rollback" => \A n \in Names \ moved[p] : Settled(p, n)
        /\ pc[p] \in {"clean", "done"} /\ result[p] # "ok" =>
               \A n \in Names : Settled(p, n)

LEMMA InitRestore == Init => ListInv /\ RestoreInv
BY DEF Init, ListInv, RestoreInv

LEMMA ListStep ==
    ASSUME MaxRunning = 1, TypeOK, Alone, OutcomeKnown, ListInv, NEW p \in Procs, Step(p)
    PROVE  ListInv'
<1>1. \A q \in Procs : q # p => pc[q] = "idle" /\ pc'[q] = "idle"
  BY AloneStep
<1>2. \A q \in Procs : q # p => moved'[q] = {} /\ lost'[q] = {}
  BY <1>1, FrameAll DEF ListInv
<1>3. SUFFICES
        /\ pc'[p] \in {"idle", "sweep", "fetch", "promote", "prepare"} => moved'[p] = {}
        /\ pc'[p] \notin {"rollback", "clean", "discard", "done"} => lost'[p] = {}
        /\ pc'[p] = "rollback" => result'[p] # "ok"
        /\ pc'[p] \in {"sweep", "fetch", "promote", "prepare"} => installed' = before'[p]
        /\ pc'[p] = "moveOut" => todo'[p] \cap moved'[p] = {}
        /\ pc'[p] = "moveIn" =>
               \A n \in todo'[p] : n \in moved'[p] <=> First(n, todo'[p])
  BY <1>1, <1>2 DEF ListInv
<1>4. Names \subseteq Int
  BY DEF Names
<1> USE DEF TypeOK, ControlType, ListType, Goto, Ends, Abort
<1>5. CASE Begin(p) \/ Refuse(p) \/ Sweep(p) \/ Fetch(p) \/ Promote(p) \/ Prepare(p)
  BY <1>5 DEF Begin, Refuse, Sweep, Fetch, Promote, Prepare, dirs, list, ListInv
<1>6. CASE MoveOut(p)
  BY <1>4, <1>6 DEF MoveOut, First, ListInv, OutcomeKnown
<1>7. CASE MoveIn(p)
  <2>1. PICK m \in Names :
          /\ First(m, todo[p]) /\ UNCHANGED <<moved, lost, result>>
          /\ \/ todo' = [todo EXCEPT ![p] = @ \ {m}] /\ Goto(p, "moveOut")
             \/ Goto(p, "rollback")
    BY <1>7 DEF MoveIn
  <2>2. pc[p] = "moveIn"
    BY <1>7 DEF MoveIn
  <2>3. \A n \in todo[p] \cap moved[p] : n = m
    BY <1>4, <2>1, <2>2 DEF First, ListInv
  <2> QED BY <2>1, <2>2, <2>3 DEF ListInv, OutcomeKnown
<1>8. CASE Verify(p) \/ Undo(p) \/ Undone(p) \/ Clean(p) \/ Discard(p)
  BY <1>8 DEF Verify, Undo, Undone, Clean, Discard, list, ListInv, OutcomeKnown
<1>9. CASE Finish(p) \/ Kill(p)
  BY <1>9 DEF Finish, Kill, Gone
<1> QED BY <1>5, <1>6, <1>7, <1>8, <1>9 DEF Step

LEMMA RestoreStep ==
    ASSUME MaxRunning = 1, "interrupt" \notin Faults, TypeOK, Alone, OutcomeKnown,
           ListInv, RestoreInv, NEW p \in Procs, Step(p)
    PROVE  RestoreInv'
<1>1. \A q \in Procs : q # p => pc'[q] = "idle"
  BY AloneStep
<1>2. SUFFICES
        /\ pc'[p] \in {"moveOut", "moveIn", "rollback"} =>
               \A n \in moved'[p] : Recorded(p, n)' /\ n \notin lost'[p]
        /\ pc'[p] \in {"moveOut", "moveIn"} =>
               \A n \in Names \ moved'[p] : installed'[n] = before'[p][n]
        /\ pc'[p] = "rollback" => \A n \in Names \ moved'[p] : Settled(p, n)'
        /\ pc'[p] \in {"clean", "done"} /\ result'[p] # "ok" =>
               \A n \in Names : Settled(p, n)'
  BY <1>1 DEF RestoreInv
<1>7. CASE Verify(p)
  <2>1. pc[p] = "moveOut" /\ lost[p] = {}
    BY <1>7 DEF Verify, ListInv
  <2>2. \/ pc'[p] = "rollback"
        \/ pc'[p] = "clean" /\ result'[p] = "ok"
    BY <1>7 DEF Verify, Goto, Ends, TypeOK, ControlType
  <2>3. UNCHANGED <<installed, backup, moved, backed, lost, before>>
    BY <1>7 DEF Verify, dirs, list
  <2>4. \A n \in moved'[p] : Recorded(p, n)' /\ n \notin lost'[p]
    BY <2>1, <2>3 DEF RestoreInv, Recorded
  <2>5. \A n \in Names \ moved'[p] : Settled(p, n)'
    BY <2>1, <2>3 DEF RestoreInv, Settled
  <2> QED BY <2>2, <2>4, <2>5
<1> USE DEF TypeOK, DirsType, Dirs, ControlType, ListType, Goto, Ends, Abort, Recorded,
            Settled
<1>3. CASE Begin(p) \/ Finish(p) \/ Kill(p)
  BY <1>3 DEF Begin, Finish, Kill, Gone
<1>4. CASE Refuse(p) \/ Sweep(p) \/ Fetch(p) \/ Promote(p) \/ Prepare(p)
  BY <1>4 DEF Refuse, Sweep, Fetch, Promote, Prepare, dirs, list, ListInv
<1>5. CASE MoveOut(p)
  <2>1. PICK n \in Names :
          /\ n \in todo[p] /\ UNCHANGED <<lost, before, result>>
          /\ \/ /\ installed[n] = None /\ UNCHANGED <<installed, backup, backed>>
                /\ moved' = [moved EXCEPT ![p] = @ \cup {n}] /\ Goto(p, "moveIn")
             \/ /\ RenamedToBackup(n)
                /\ backed' = [backed EXCEPT ![p] = @ \cup {n}]
                /\ moved' = [moved EXCEPT ![p] = @ \cup {n}] /\ Goto(p, "moveIn")
             \/ UNCHANGED <<installed, backup, moved, backed>> /\ Goto(p, "rollback")
    BY <1>5 DEF MoveOut, First
  <2>2a. pc[p] = "moveOut"
    BY <1>5 DEF MoveOut
  <2>2b. lost[p] = {} /\ todo[p] \cap moved[p] = {}
    BY <2>2a DEF ListInv
  <2>2c. n \notin moved[p] /\ n \notin backed[p]
    BY <2>1, <2>2b
  <2>2. installed[n] = before[p][n]
    BY <2>2a, <2>2c DEF RestoreInv
  <2>3. \A m \in Names : m # n => installed'[m] = installed[m] /\ backup'[m] = backup[m]
    BY <2>1 DEF RenamedToBackup
  <2>4. \A m \in moved[p] : Recorded(p, m)'
    BY <2>1, <2>2a, <2>2c, <2>3 DEF RestoreInv
  <2>5. \A m \in Names \ moved'[p] : installed'[m] = before'[p][m]
    BY <2>1, <2>2, <2>2a, <2>3 DEF RestoreInv
  <2>6. n \in moved'[p] => Recorded(p, n)'
    BY <2>1, <2>2, <2>2c DEF RenamedToBackup
  <2> QED BY <2>1, <2>2, <2>2b, <2>4, <2>5, <2>6
<1>6. CASE MoveIn(p)
  <2>1. PICK n \in Names :
          /\ First(n, todo[p]) /\ UNCHANGED <<backup, moved, backed, lost, before, result>>
          /\ \/ installed' = [installed EXCEPT ![n] = staging[n]]
             \/ UNCHANGED installed
          /\ Goto(p, "moveOut") \/ Goto(p, "rollback")
    BY <1>6 DEF MoveIn
  <2>2. pc[p] = "moveIn" /\ n \in moved[p] /\ lost[p] = {}
    BY <1>6, <2>1 DEF MoveIn, ListInv, First
  <2>3. \A m \in moved'[p] : Recorded(p, m)' /\ m \notin lost'[p]
    BY <2>1, <2>2 DEF RestoreInv
  <2>4. \A m \in Names \ moved'[p] : installed'[m] = before'[p][m]
    BY <2>1, <2>2 DEF RestoreInv
  <2>5. pc'[p] \in {"moveOut", "rollback"}
    BY <2>1
  <2> QED BY <2>1, <2>2, <2>3, <2>4, <2>5
<1>8. CASE Undo(p)
  <2>1. PICK n \in Names :
          /\ n \in moved[p] /\ UNCHANGED <<pc, before, result>>
          /\ moved' = [moved EXCEPT ![p] = @ \ {n}]
          /\ backed' = [backed EXCEPT ![p] = @ \ {n}]
          /\ \/ /\ Restorable(p, n)
                /\ installed' = [installed EXCEPT ![n] = backup[n]]
                /\ backup' = [backup EXCEPT ![n] = None]
                /\ UNCHANGED lost
             \/ /\ installed' \in {installed, [installed EXCEPT ![n] = None]}
                /\ lost' = [lost EXCEPT ![p] = IF Restorable(p, n) THEN @ \cup {n} ELSE @]
                /\ UNCHANGED backup
    BY <1>8 DEF Undo, Last
  <2>2. pc[p] = "rollback" /\ Recorded(p, n) /\ n \notin lost[p]
    BY <1>8, <2>1 DEF Undo, RestoreInv
  <2>3. \A m \in Names : m # n => /\ installed'[m] = installed[m] /\ backup'[m] = backup[m]
                                  /\ m \in lost'[p] <=> m \in lost[p]
                                  /\ m \in backed'[p] <=> m \in backed[p]
    BY <2>1
  <2>4. Settled(p, n)'
    BY <2>1, <2>2 DEF Restorable
  <2>5. \A m \in moved'[p] : Recorded(p, m)' /\ m \notin lost'[p]
    BY <2>1, <2>2, <2>3 DEF RestoreInv
  <2>6. \A m \in Names \ moved'[p] : Settled(p, m)'
    BY <2>1, <2>2, <2>3, <2>4 DEF RestoreInv
  <2> QED BY <2>1, <2>2, <2>5, <2>6
<1>9. CASE Undone(p)
  BY <1>9 DEF Undone, dirs, list, RestoreInv
<1>10. CASE Clean(p) \/ Discard(p)
  BY <1>10 DEF Clean, Discard, list, OutcomeKnown, RestoreInv
<1> QED BY <1>3, <1>4, <1>5, <1>6, <1>7, <1>8, <1>9, <1>10 DEF Step

LEMMA RestoreNext ==
    ASSUME MaxRunning = 1, "interrupt" \notin Faults
    PROVE  TypeOK /\ CompleteInv /\ ListInv /\ RestoreInv /\ [Next]_vars
           => (ListInv /\ RestoreInv)'
<1> SUFFICES ASSUME TypeOK, CompleteInv, ListInv, RestoreInv, [Next]_vars
             PROVE  (ListInv /\ RestoreInv)'
  OBVIOUS
<1>1. CASE Repair
  BY <1>1 DEF Repair, list, ListInv, RestoreInv
<1>2. CASE UNCHANGED vars
  BY <1>2 DEF vars, dirs, scratch, list, ListInv, RestoreInv, Recorded, Settled
<1> QED BY <1>1, <1>2, ListStep, RestoreStep DEF Next, CompleteInv

\* With one update at a time and no exception in the middle of a rename and its
\* record, an update that fails, wherever it does and whatever of the rollback
\* fails too, leaves each entry as it was or keeps its backup and names it.
THEOREM FailureIsUndone ==
    MaxRunning = 1 /\ "interrupt" \notin Faults => (Spec => []FailureRestores)
<1> SUFFICES ASSUME MaxRunning = 1, "interrupt" \notin Faults
             PROVE  Spec => []FailureRestores
  OBVIOUS
<1>1. RestoreInv => FailureRestores
  BY DEF RestoreInv, FailureRestores, Settled
<1> QED BY TypeCorrect, InitComplete, CompleteNext, InitRestore, RestoreNext, <1>1, PTL
        DEF Spec
=============================================================================
