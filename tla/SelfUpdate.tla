----------------------------- MODULE SelfUpdate -----------------------------
(***************************************************************************)
(* The replacement of a standalone bundle by `cloudsmith update`:          *)
(* core/self_update.py.                                                    *)
(*                                                                         *)
(* The install directory and its three scratch directories are functions    *)
(* from names of top-level entries to what is there.  Every rename is a     *)
(* step, and a process may fail, be killed, or meet another one between     *)
(* any two of them.                                                        *)
(***************************************************************************)
EXTENDS Integers, FiniteSets

CONSTANTS
    Procs,       \* CLI processes
    MaxRunning,  \* bound: updates under way at once
    MaxVersion,  \* bound: versions released
    NumNames,    \* names of top-level entries, in the order of sorted()
    Exe,         \* executable_name
    Needed,      \* the entries without which the CLI does not start
    Ships,       \* per version: the entries of its bundle
    UserNames,   \* entries that the user keeps in the install directory
    Faults       \* failures that may happen, a subset of FaultKinds

Names    == 1 .. NumNames
Versions == 1 .. MaxVersion

\* download: the archive cannot be had, verified or read; rename, remove: one
\* call fails; interrupt: an exception right after a rename; kill: the process
\* ends at once.
FaultKinds == {"download", "rename", "remove", "interrupt", "kill"}

ASSUME SelfUpdateAssumption ==
    /\ MaxRunning \in Nat /\ MaxVersion \in Nat \ {0} /\ NumNames \in Nat
    /\ IsFiniteSet(Procs)
    /\ Needed \subseteq Names /\ Exe \in Needed
    /\ Ships \in [Versions -> SUBSET Names] /\ \A v \in Versions : Needed \subseteq Ships[v]
    /\ UserNames \subseteq Names /\ UserNames \cap Ships[1] = {}
    /\ Faults \subseteq FaultKinds

None == 0
User == -1
Contents == {None, User} \cup Versions
Dirs     == [Names -> Contents]
Nothing  == [n \in Names |-> None]

VARIABLES
    installed, extract, staging, backup,  \* the directories
    kept,                    \* the backup directory exists
    pc, target, result,      \* per process: location, version to install, outcome
    todo, moved, backed,     \* entries to replace; moved, those of them with a backup
    lost,                    \* unrestored
    before                   \* history: the install directory at the start

scratch == <<extract, staging>>
dirs    == <<installed, scratch, backup, kept>>
list    == <<todo, moved, backed, lost>>
vars    == <<dirs, pc, target, result, list, before>>

Init ==
    /\ installed = [n \in Names |-> IF n \in Ships[1] THEN 1
                                    ELSE IF n \in UserNames THEN User ELSE None]
    /\ extract = Nothing /\ staging = Nothing /\ backup = Nothing /\ kept = FALSE
    /\ pc = [p \in Procs |-> "idle"] /\ target = [p \in Procs |-> 1]
    /\ result = [p \in Procs |-> "none"]
    /\ todo = [p \in Procs |-> {}] /\ moved = todo /\ backed = todo /\ lost = todo
    /\ before = [p \in Procs |-> Nothing]

-----------------------------------------------------------------------------
(* Helpers                                                                  *)

\* Every entry that the CLI needs is there, of one version or of several.
Runs == \A n \in Needed : installed[n] # None

\* What a recursive deletion leaves: nothing, or all if it fails.
Removed(dir) == {Nothing} \cup (IF "remove" \in Faults THEN {dir} ELSE {})

Goto(p, location) == pc' = [pc EXCEPT ![p] = location]
Ends(p, outcome)  == result' = [result EXCEPT ![p] = outcome]

\* An exception before the replacement has begun: only the finally clause runs.
Abort(p) == Goto(p, "clean") /\ Ends(p, "failed")

\* sorted(os.listdir(staging_dir)) gives the entries, reversed(moved) undoes them.
First(n, entries) == n \in entries /\ \A m \in entries : n <= m
Last(n, entries)  == n \in entries /\ \A m \in entries : n >= m

-----------------------------------------------------------------------------
(* perform_self_update up to the staged bundle                              *)

\* A user of a CLI that starts confirms the update to a newer version.
Begin(p) ==
    /\ pc[p] = "idle"
    /\ Cardinality({q \in Procs : pc[q] # "idle"}) < MaxRunning
    /\ Runs
    /\ \E v \in Versions : v > installed[Exe] /\ target' = [target EXCEPT ![p] = v]
    /\ before' = [before EXCEPT ![p] = installed]
    /\ Goto(p, "sweep")
    /\ UNCHANGED <<dirs, result, list>>

\* The manifest lacks a field, or the directory is not writable.
Refuse(p) ==
    /\ pc[p] = "sweep"
    /\ Goto(p, "done") /\ Ends(p, "failed")
    /\ UNCHANGED <<dirs, target, list, before>>

\* _sweep_scratch, which goes on if a directory cannot be removed
Sweep(p) ==
    /\ pc[p] = "sweep"
    /\ extract' \in Removed(extract) /\ staging' \in Removed(staging)
    /\ \/ backup' = Nothing /\ kept' = FALSE
       \/ "remove" \in Faults /\ UNCHANGED <<backup, kept>>
    /\ Goto(p, "fetch")
    /\ UNCHANGED <<installed, target, result, list, before>>

\* The archive is downloaded, verified and extracted, over what may be there.
Fetch(p) ==
    /\ pc[p] = "fetch"
    /\ LET extracted == [n \in Names |-> IF n \in Ships[target[p]] THEN target[p]
                                                                    ELSE extract[n]]
       IN \/ extract' = extracted /\ Goto(p, "promote") /\ UNCHANGED result
          \/ "download" \in Faults /\ extract' \in {extract, extracted} /\ Abort(p)
    /\ UNCHANGED <<installed, staging, backup, kept, target, list, before>>

\* The bundle's root, which holds the executable, becomes the staging directory.
Promote(p) ==
    /\ pc[p] = "promote"
    /\ \/ /\ extract[Exe] # None /\ staging = Nothing
          /\ staging' = extract /\ extract' = Nothing
          /\ Goto(p, "prepare") /\ UNCHANGED result
       \/ /\ extract[Exe] = None \/ staging # Nothing \/ "rename" \in Faults
          /\ Abort(p) /\ UNCHANGED scratch
    /\ UNCHANGED <<installed, backup, kept, target, list, before>>

-----------------------------------------------------------------------------
(* replace_bundle_entries                                                   *)

\* Mutant: every entry of the install directory is replaced.
PrepareWholeDirectory(p) ==
    /\ pc[p] = "prepare"
    /\ todo' = [todo EXCEPT ![p] = {n \in Names : installed[n] # None}]
    /\ backup' = Nothing /\ kept' = TRUE
    /\ Goto(p, "moveOut")
    /\ UNCHANGED <<installed, scratch, target, result, moved, backed, lost, before>>

\* The staged bundle is listed, and a stale backup is removed, or cannot be.
Prepare(p) ==
    /\ pc[p] = "prepare"
    /\ \/ /\ staging[Exe] # None
          /\ todo' = [todo EXCEPT ![p] = {n \in Names : staging[n] # None}]
          /\ backup' = Nothing /\ kept' = TRUE
          /\ Goto(p, "moveOut") /\ UNCHANGED result
       \/ /\ staging[Exe] = None \/ (kept /\ "remove" \in Faults)
          /\ Abort(p) /\ UNCHANGED <<todo, backup, kept>>
    /\ UNCHANGED <<installed, scratch, target, moved, backed, lost, before>>

\* Mutant: an entry counts as moved only when its successor is in place.
MoveOutRecordingLate(p) ==
    /\ pc[p] = "moveOut" /\ todo[p] # {}
    /\ \E n \in Names :
        /\ First(n, todo[p])
        /\ \/ /\ installed[n] # None
              /\ backup' = [backup EXCEPT ![n] = installed[n]]
              /\ installed' = [installed EXCEPT ![n] = None]
           \/ installed[n] = None /\ UNCHANGED <<installed, backup>>
    /\ Goto(p, "moveIn")
    /\ UNCHANGED <<scratch, kept, target, result, list, before>>

RenamedToBackup(n) ==
    /\ installed[n] # None /\ kept
    /\ backup' = [backup EXCEPT ![n] = installed[n]]
    /\ installed' = [installed EXCEPT ![n] = None]

\* The entry in the way is moved into the backup directory, then recorded.
MoveOut(p) ==
    /\ pc[p] = "moveOut" /\ todo[p] # {}
    /\ \E n \in Names :
        /\ First(n, todo[p])
        /\ \/ /\ installed[n] = None /\ UNCHANGED <<installed, backup, backed>>
              /\ moved' = [moved EXCEPT ![p] = @ \cup {n}] /\ Goto(p, "moveIn")
           \/ /\ RenamedToBackup(n)
              /\ backed' = [backed EXCEPT ![p] = @ \cup {n}]
              /\ moved' = [moved EXCEPT ![p] = @ \cup {n}] /\ Goto(p, "moveIn")
           \/ /\ "interrupt" \in Faults /\ RenamedToBackup(n)
              /\ UNCHANGED <<moved, backed>> /\ Goto(p, "rollback")
           \/ /\ installed[n] # None /\ (~kept \/ "rename" \in Faults)
              /\ UNCHANGED <<installed, backup, moved, backed>> /\ Goto(p, "rollback")
    /\ UNCHANGED <<scratch, kept, target, result, todo, lost, before>>

\* Mutant: an entry that cannot be moved is skipped.
MoveInSkipping(p) ==
    /\ pc[p] = "moveIn"
    /\ \E n \in Names :
        /\ First(n, todo[p])
        /\ \/ /\ staging[n] # None
              /\ installed' = [installed EXCEPT ![n] = staging[n]]
              /\ staging' = [staging EXCEPT ![n] = None]
           \/ "rename" \in Faults /\ UNCHANGED <<installed, staging>>
        /\ todo' = [todo EXCEPT ![p] = @ \ {n}]
    /\ Goto(p, "moveOut")
    /\ UNCHANGED <<extract, backup, kept, target, result, moved, backed, lost, before>>

\* The incoming entry is moved into place.
MoveIn(p) ==
    /\ pc[p] = "moveIn"
    /\ \E n \in Names :
        /\ First(n, todo[p])
        /\ \/ /\ staging[n] # None
              /\ installed' = [installed EXCEPT ![n] = staging[n]]
              /\ staging' = [staging EXCEPT ![n] = None]
              /\ \/ todo' = [todo EXCEPT ![p] = @ \ {n}] /\ Goto(p, "moveOut")
                 \/ "interrupt" \in Faults /\ Goto(p, "rollback") /\ UNCHANGED todo
           \/ /\ staging[n] = None \/ "rename" \in Faults
              /\ Goto(p, "rollback") /\ UNCHANGED <<installed, staging, todo>>
    /\ UNCHANGED <<extract, backup, kept, target, result, moved, backed, lost, before>>

\* The executable is there, or the replacement is undone.
Verify(p) ==
    /\ pc[p] = "moveOut" /\ todo[p] = {}
    /\ IF installed[Exe] # None THEN Goto(p, "clean") /\ Ends(p, "ok")
                                ELSE Goto(p, "rollback") /\ UNCHANGED result
    /\ UNCHANGED <<dirs, target, list, before>>

Restorable(p, n) == n \in backed[p] /\ backup[n] # None

\* _rollback_entries takes the last entry moved: what is in its place is removed,
\* and the backup moved back.  A directory that is still there stops that.
Undo(p) ==
    /\ pc[p] = "rollback" /\ moved[p] # {}
    /\ \E n \in Names :
        /\ Last(n, moved[p])
        /\ moved' = [moved EXCEPT ![p] = @ \ {n}]
        /\ backed' = [backed EXCEPT ![p] = @ \ {n}]
        /\ \/ /\ Restorable(p, n)
              /\ installed' = [installed EXCEPT ![n] = backup[n]]
              /\ backup' = [backup EXCEPT ![n] = None]
              /\ UNCHANGED lost
           \/ /\ Restorable(p, n) => "rename" \in Faults
              /\ installed' = [installed EXCEPT ![n] = None]
              /\ lost' = [lost EXCEPT ![p] = IF Restorable(p, n) THEN @ \cup {n} ELSE @]
              /\ UNCHANGED backup
           \/ /\ "remove" \in Faults
              /\ lost' = [lost EXCEPT ![p] = IF Restorable(p, n) THEN @ \cup {n} ELSE @]
              /\ UNCHANGED <<installed, backup>>
    /\ UNCHANGED <<scratch, kept, pc, target, result, todo, before>>

\* The error is raised again, or one that names the entries not restored.
Undone(p) ==
    /\ pc[p] = "rollback" /\ moved[p] = {}
    /\ Goto(p, "clean") /\ Ends(p, IF lost[p] = {} THEN "failed" ELSE "reported")
    /\ UNCHANGED <<dirs, target, list, before>>

-----------------------------------------------------------------------------
(* The end of perform_self_update                                           *)

\* Mutant: the backup is removed however the update ends.
CleanWithBackup(p) ==
    /\ pc[p] = "clean"
    /\ extract' \in Removed(extract) /\ staging' \in Removed(staging)
    /\ Goto(p, "discard")
    /\ UNCHANGED <<installed, backup, kept, target, result, list, before>>

\* The finally clause
Clean(p) ==
    /\ pc[p] = "clean"
    /\ extract' \in Removed(extract) /\ staging' \in Removed(staging)
    /\ Goto(p, IF result[p] = "ok" THEN "discard" ELSE "done")
    /\ UNCHANGED <<installed, backup, kept, target, result, list, before>>

\* The backup is removed on success.
Discard(p) ==
    /\ pc[p] = "discard"
    /\ \/ backup' = Nothing /\ kept' = FALSE
       \/ "remove" \in Faults /\ UNCHANGED <<backup, kept>>
    /\ Goto(p, "done")
    /\ UNCHANGED <<installed, scratch, target, result, list, before>>

Gone(p) ==
    /\ Goto(p, "idle") /\ Ends(p, "none")
    /\ target' = [target EXCEPT ![p] = 1] /\ before' = [before EXCEPT ![p] = Nothing]
    /\ todo' = [todo EXCEPT ![p] = {}] /\ moved' = [moved EXCEPT ![p] = {}]
    /\ backed' = [backed EXCEPT ![p] = {}] /\ lost' = [lost EXCEPT ![p] = {}]
    /\ UNCHANGED dirs

Finish(p) == pc[p] = "done" /\ Gone(p)

Kill(p) == "kill" \in Faults /\ pc[p] \notin {"idle", "done"} /\ Gone(p)

\* Before another update, the user of a CLI that does not start moves the backups
\* back, as the error says, or extracts a release.
Repair ==
    /\ \A p \in Procs : pc[p] = "idle"
    /\ ~Runs
    /\ \/ /\ installed' = [n \in Names |-> IF backup[n] # None THEN backup[n]
                                                               ELSE installed[n]]
          /\ backup' = Nothing
       \/ /\ \E v \in Versions :
                installed' = [n \in Names |-> IF n \in Ships[v] THEN v ELSE installed[n]]
          /\ UNCHANGED backup
    /\ UNCHANGED <<scratch, kept, pc, target, result, list, before>>

Step(p) ==
    \/ Begin(p) \/ Refuse(p) \/ Sweep(p) \/ Fetch(p) \/ Promote(p)
    \/ Prepare(p) \/ MoveOut(p) \/ MoveIn(p) \/ Verify(p) \/ Undo(p) \/ Undone(p)
    \/ Clean(p) \/ Discard(p) \/ Finish(p) \/ Kill(p)

Next == (\E p \in Procs : Step(p)) \/ Repair

Spec == Init /\ [][Next]_vars

-----------------------------------------------------------------------------
(* Properties                                                               *)

DirsType ==
    /\ installed \in Dirs /\ extract \in Dirs /\ staging \in Dirs
    /\ backup \in Dirs /\ kept \in BOOLEAN

ControlType ==
    /\ pc \in [Procs -> {"idle", "sweep", "fetch", "promote", "prepare", "moveOut",
                         "moveIn", "rollback", "clean", "discard", "done"}]
    /\ target \in [Procs -> Versions] /\ before \in [Procs -> Dirs]
    /\ result \in [Procs -> {"none", "ok", "failed", "reported"}]

ListType ==
    /\ todo \in [Procs -> SUBSET Names] /\ moved \in [Procs -> SUBSET Names]
    /\ backed \in [Procs -> SUBSET Names] /\ lost \in [Procs -> SUBSET Names]
    /\ \A p \in Procs : backed[p] \subseteq moved[p]

\* Every variable holds a value of its type, and only moved entries have backups.
TypeOK == DirsType /\ ControlType /\ ListType

\* An entry the CLI needs is always in the install directory or in the backup,
\* across failures, kills and the sweep of the next update.  "All of these hold
\* only files the CLI created or moved itself ... so removing them is always safe"
\* (self_update.py:326).
NothingLost == \A n \in Needed : installed[n] # None \/ backup[n] # None

\* What makes NothingLost inductive when updates run one after another.
Alone == \A p, q \in Procs : pc[p] # "idle" /\ pc[q] # "idle" => p = q

RunsMeanwhile ==
    \A p \in Procs :
        \/ pc[p] \in {"sweep", "fetch", "promote", "prepare", "moveOut", "discard"}
        \/ pc[p] = "clean" /\ result[p] = "ok"
        => Runs

OnlyFirstMissing ==
    \A p \in Procs : pc[p] = "moveIn" =>
        \A n \in Needed : installed[n] = None => First(n, todo[p])

NoneMovedYet ==
    \A p \in Procs :
        pc[p] \in {"idle", "sweep", "fetch", "promote", "prepare"} => moved[p] = {}

MovedHaveBackups ==
    \A p \in Procs : pc[p] \in {"moveOut", "moveIn", "rollback"} =>
        \A n \in moved[p] \cap Needed : n \in backed[p] /\ backup[n] # None

ReplaceInv == /\ Alone /\ RunsMeanwhile /\ OnlyFirstMissing
              /\ NoneMovedYet /\ MovedHaveBackups /\ NothingLost

\* "On any failure every moved entry is rolled back from the backup so the
\* original install is restored" (self_update.py:222): an entry that is not as it
\* was is named in the error, and its backup is there.
FailureRestores ==
    \A p \in Procs :
        pc[p] = "done" /\ result[p] # "ok" =>
            \A n \in Names :
                /\ before[p][n] \notin {None, installed[n]} => n \in lost[p]
                /\ n \in lost[p] => backup[n] = before[p][n]

\* An update that reports success has installed the whole bundle and left the
\* other entries alone, whatever an earlier update has left behind.
SuccessIsComplete ==
    \A p \in Procs :
        pc[p] = "done" /\ result[p] = "ok" =>
            \A n \in Names :
                /\ n \in Ships[target[p]] => installed[n] = target[p]
                /\ n \notin UNION {Ships[v] : v \in Versions} =>
                       installed[n] = before[p][n]

\* "Files the user keeps alongside the CLI are never touched"
\* (self_update.py:356): at no moment, for names that no bundle ships.
UserFilesUntouched ==
    \A n \in UserNames \ UNION {Ships[v] : v \in Versions} : installed[n] = User

=============================================================================
