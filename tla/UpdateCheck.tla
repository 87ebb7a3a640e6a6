---------------------------- MODULE UpdateCheck -----------------------------
(***************************************************************************)
(* The check for a newer CLI version that every invocation arms, and its   *)
(* notice: core/update_check.py, and the stamp of commands/update.py.      *)
(*                                                                         *)
(* An invocation is two actors: the command, and a daemon thread that       *)
(* fetches the manifest.  Both change one state file by reading it, merging *)
(* their fields and writing it back (_write_state): a read and a write are  *)
(* two steps, and the write replaces the whole file.                        *)
(***************************************************************************)
EXTENDS Integers

CONSTANTS
    Procs,       \* CLI invocations that can be under way at once
    MaxClock,    \* bound: no time passes and no command starts beyond it
    Interval,    \* DEFAULT_INTERVAL_SECONDS, in ticks of the clock
    MaxVersion,  \* bound: versions that are released
    Kinds,       \* invocation -> what may be run, a subset of CommandKinds
    Faults       \* failures that may happen, a subset of FaultKinds

\* interactive: a command that may print the notice; quiet: one that may not
\* (JSON output, no terminal, mcp); offline: one that makes no HTTP request and
\* so never starts the fetch; update: `cloudsmith update`.
CommandKinds == {"interactive", "quiet", "offline", "update"}

\* network: a fetch fails; write: the state file cannot be written; hang: the
\* thread's fetch is not answered before the process ends; late: it is answered
\* after the second that the command waits for it; kill: the process ends at once.
FaultKinds == {"network", "write", "hang", "late", "kill"}

Times    == Nat               \* 0: the field is absent
Versions == 0 .. MaxVersion   \* 0: no version known

ASSUME UpdateAssumption ==
    /\ MaxClock \in Nat /\ MaxVersion \in Nat \ {0}
    /\ Interval \in Nat \ {0}
    /\ Kinds \in [Procs -> SUBSET CommandKinds] /\ Faults \subseteq FaultKinds

States == [checked : Times, notified : Times, latest : Versions]

VARIABLES
    file,          \* the state file; one that is absent or corrupt has no fields
    clock,
    released,      \* the version in the manifest
    installed,     \* the version that a new invocation runs
    pc, kind, own, \* per process: location, command, its version
    due,           \* check["due"]
    merged,        \* the state that the command is about to write
    bg, bgMerged,  \* the daemon thread: location, and what it is about to write
    fetched,       \* the version each of the two has fetched
    news,          \* history: a check was recorded since the last recorded notice
    raced          \* history: per process, its actors that another has overtaken

command == <<pc, kind, own, due, merged>>
daemon  == <<bg, bgMerged>>
history == <<news, raced>>
world   == <<clock, released, installed>>
vars    == <<file, world, command, daemon, fetched, history>>

NoState == [checked |-> 0, notified |-> 0, latest |-> 0]

Init ==
    /\ file = NoState /\ clock = 0
    /\ released = 1 /\ installed = 1
    /\ pc = [p \in Procs |-> "idle"] /\ kind = [p \in Procs |-> "none"]
    /\ own = [p \in Procs |-> 0] /\ due = [p \in Procs |-> FALSE]
    /\ merged = [p \in Procs |-> NoState]
    /\ bg = [p \in Procs |-> "none"] /\ bgMerged = merged
    /\ fetched = [p \in Procs |-> [command |-> 0, daemon |-> 0]]
    /\ news = FALSE /\ raced = [p \in Procs |-> {}]

-----------------------------------------------------------------------------
(* The decisions, and the state file                                        *)

\* is_check_due
Due(state) == state.checked = 0 \/ clock - state.checked >= Interval

\* The second clause of should_notify
Unreported(state) == state.notified < state.checked

\* should_notify for a CLI of a version
ShouldNotify(state, version) == state.latest > version /\ Unreported(state)

\* time.time() gives a later value each time it is asked.
Now == clock + 1

\* _write_state replaces the file, or swallows an OSError.
WriteState(state) == file' = state \/ ("write" \in Faults /\ UNCHANGED file)

Goto(p, location) == pc' = [pc EXCEPT ![p] = location]

\* Which actors of p have fetched a version or read the file, and have yet to
\* write it
Merging(p) ==
    (IF pc[p] \in {"stampRead", "stampWrite", "notifiedWrite"} THEN {"command"} ELSE {})
    \cup (IF bg[p] \in {"read", "write"} THEN {"daemon"} ELSE {})

\* An actor that changes the file overtakes all others that are about to.
Overtakes(p, actor) ==
    raced' = [q \in Procs |->
                 (IF file' = file THEN raced[q] ELSE raced[q] \cup Merging(q))
                 \ (IF q = p THEN {actor} ELSE {})]

-----------------------------------------------------------------------------
(* The command                                                              *)

\* arm reads the state file to see whether a fetch is due.
Arm(p) ==
    /\ pc[p] = "idle"
    /\ clock < MaxClock
    /\ \E c \in Kinds[p] : kind' = [kind EXCEPT ![p] = c]
    /\ own' = [own EXCEPT ![p] = installed]
    /\ due' = [due EXCEPT ![p] = Due(file)]
    /\ Goto(p, "armed")
    /\ UNCHANGED <<file, world, merged, daemon, fetched, history>>

\* start, when the command has its connection options
Start(p) ==
    /\ pc[p] = "armed"
    /\ bg' = IF due[p] /\ kind[p] # "offline" THEN [bg EXCEPT ![p] = "fetch"] ELSE bg
    /\ due' = [due EXCEPT ![p] = FALSE]
    /\ Goto(p, IF kind[p] = "update" THEN "fetch" ELSE "close")
    /\ UNCHANGED <<file, world, kind, own, merged, bgMerged, fetched, history>>

\* `cloudsmith update` fetches the manifest itself, whatever is due.
UpdateFetches(p) ==
    /\ pc[p] = "fetch"
    /\ \/ /\ fetched' = [fetched EXCEPT ![p].command = released]
          /\ Goto(p, "stampRead")
       \/ "network" \in Faults /\ Goto(p, "close") /\ UNCHANGED fetched
    /\ UNCHANGED <<file, world, kind, own, due, merged, daemon, history>>

\* record_checked_and_notified
StampRead(p) ==
    /\ pc[p] = "stampRead"
    /\ clock' = Now
    /\ merged' = [merged EXCEPT ![p] =
            [checked |-> Now, notified |-> Now, latest |-> fetched[p].command]]
    /\ Goto(p, "stampWrite")
    /\ UNCHANGED <<file, released, installed, kind, own, due, daemon, fetched, history>>

\* The update is installed, or it is not: cancelled, up to date, or installed by a
\* package manager.
StampWrite(p) ==
    /\ pc[p] = "stampWrite"
    /\ WriteState(merged[p])
    /\ news' = (news /\ UNCHANGED file) /\ Overtakes(p, "command")
    /\ installed' \in {installed} \cup {v \in {fetched[p].command} : v > own[p]}
    /\ Goto(p, "close")
    /\ merged' = [merged EXCEPT ![p] = NoState]
    /\ fetched' = [fetched EXCEPT ![p].command = 0]
    /\ UNCHANGED <<clock, released, kind, own, due, daemon>>

\* Mutant: the join has no timeout.
CloseWhenJoined(p) ==
    /\ pc[p] = "close" /\ bg[p] \in {"none", "done"}
    /\ IF kind[p] \in {"interactive", "offline"} /\ ShouldNotify(file, own[p])
       THEN Goto(p, "printed") ELSE Goto(p, "exit")
    /\ UNCHANGED <<file, world, kind, own, due, merged, daemon, fetched, history>>

\* _finish_and_notify: the bounded join, then the notice if it is warranted.
Close(p) ==
    /\ pc[p] = "close"
    /\ bg[p] \in {"none", "done", "hung"} \/ "late" \in Faults
    /\ IF kind[p] \in {"interactive", "offline"} /\ ShouldNotify(file, own[p])
       THEN Goto(p, "printed") ELSE Goto(p, "exit")
    /\ UNCHANGED <<file, world, kind, own, due, merged, daemon, fetched, history>>

\* Mutant: the notice is stamped with no other field in the file.
NotifiedReadAlone(p) ==
    /\ pc[p] = "printed"
    /\ clock' = Now
    /\ merged' = [merged EXCEPT ![p] = [NoState EXCEPT !.notified = Now]]
    /\ Goto(p, "notifiedWrite")
    /\ UNCHANGED <<file, released, installed, kind, own, due, daemon, fetched, history>>

\* record_notified
NotifiedRead(p) ==
    /\ pc[p] = "printed"
    /\ clock' = Now
    /\ merged' = [merged EXCEPT ![p] = [file EXCEPT !.notified = Now]]
    /\ Goto(p, "notifiedWrite")
    /\ UNCHANGED <<file, released, installed, kind, own, due, daemon, fetched, history>>

NotifiedWrite(p) ==
    /\ pc[p] = "notifiedWrite"
    /\ WriteState(merged[p])
    /\ news' = (news /\ UNCHANGED file) /\ Overtakes(p, "command")
    /\ Goto(p, "exit")
    /\ merged' = [merged EXCEPT ![p] = NoState]
    /\ UNCHANGED <<world, kind, own, due, daemon, fetched>>

\* The process is gone, and its daemon thread with it.
Gone(p) ==
    /\ Goto(p, "idle") /\ kind' = [kind EXCEPT ![p] = "none"]
    /\ own' = [own EXCEPT ![p] = 0] /\ due' = [due EXCEPT ![p] = FALSE]
    /\ bg' = [bg EXCEPT ![p] = "none"]
    /\ merged' = [merged EXCEPT ![p] = NoState]
    /\ bgMerged' = [bgMerged EXCEPT ![p] = NoState]
    /\ fetched' = [fetched EXCEPT ![p] = [command |-> 0, daemon |-> 0]]
    /\ raced' = [raced EXCEPT ![p] = {}]
    /\ UNCHANGED <<file, world, news>>

Exit(p) == pc[p] = "exit" /\ Gone(p)

Kill(p) == "kill" \in Faults /\ pc[p] # "idle" /\ Gone(p)

-----------------------------------------------------------------------------
(* The daemon thread: run_background_check                                  *)

BgFetches(p) ==
    /\ bg[p] = "fetch"
    /\ \/ /\ fetched' = [fetched EXCEPT ![p].daemon = released]
          /\ bg' = [bg EXCEPT ![p] = "read"]
       \/ "network" \in Faults /\ bg' = [bg EXCEPT ![p] = "done"] /\ UNCHANGED fetched
       \/ "hang" \in Faults /\ bg' = [bg EXCEPT ![p] = "hung"] /\ UNCHANGED fetched
    /\ UNCHANGED <<file, world, command, bgMerged, history>>

\* Mutant: a check counts as a notice.
BgReadsSpending(p) ==
    /\ bg[p] = "read"
    /\ clock' = Now
    /\ bgMerged' = [bgMerged EXCEPT ![p] =
            [checked |-> Now, notified |-> Now, latest |-> fetched[p].daemon]]
    /\ bg' = [bg EXCEPT ![p] = "write"]
    /\ UNCHANGED <<file, released, installed, command, fetched, history>>

\* record_check
BgReads(p) ==
    /\ bg[p] = "read"
    /\ clock' = Now
    /\ bgMerged' = [bgMerged EXCEPT ![p] =
            [file EXCEPT !.checked = Now, !.latest = fetched[p].daemon]]
    /\ bg' = [bg EXCEPT ![p] = "write"]
    /\ UNCHANGED <<file, released, installed, command, fetched, history>>

BgWrites(p) ==
    /\ bg[p] = "write"
    /\ WriteState(bgMerged[p])
    /\ news' = (news \/ file' = bgMerged[p]) /\ Overtakes(p, "daemon")
    /\ bg' = [bg EXCEPT ![p] = "done"]
    /\ bgMerged' = [bgMerged EXCEPT ![p] = NoState]
    /\ fetched' = [fetched EXCEPT ![p].daemon = 0]
    /\ UNCHANGED <<world, command>>

-----------------------------------------------------------------------------

\* Time passes.
Tick ==
    /\ clock < MaxClock
    /\ clock' = Now
    /\ UNCHANGED <<file, released, installed, command, daemon, fetched, history>>

\* A version is released.
Release ==
    /\ released < MaxVersion
    /\ released' = released + 1
    /\ UNCHANGED <<file, clock, installed, command, daemon, fetched, history>>

CommandStep(p) ==
    \/ Start(p) \/ UpdateFetches(p) \/ StampRead(p) \/ StampWrite(p)
    \/ Close(p) \/ NotifiedRead(p) \/ NotifiedWrite(p) \/ Exit(p)

DaemonStep(p) == BgFetches(p) \/ BgReads(p) \/ BgWrites(p)

Next ==
    \/ \E p \in Procs : Arm(p) \/ CommandStep(p) \/ DaemonStep(p) \/ Kill(p)
    \/ Tick \/ Release

Spec == Init /\ [][Next]_vars

\* The command and its thread are scheduled.  The request that the thread makes
\* may hang all the same.
FairSpec ==
    Spec /\ \A p \in Procs : WF_vars(CommandStep(p)) /\ WF_vars(DaemonStep(p))

-----------------------------------------------------------------------------
(* Properties                                                               *)

\* Every variable holds a value of its type.
TypeOK ==
    /\ file \in States /\ clock \in Times
    /\ released \in Versions /\ installed \in Versions
    /\ pc \in [Procs -> {"idle", "armed", "fetch", "stampRead", "stampWrite", "close",
                         "printed", "notifiedWrite", "exit"}]
    /\ kind \in [Procs -> CommandKinds \cup {"none"}]
    /\ own \in [Procs -> Versions] /\ due \in [Procs -> BOOLEAN]
    /\ merged \in [Procs -> States] /\ bgMerged \in [Procs -> States]
    /\ bg \in [Procs -> {"none", "fetch", "read", "write", "done", "hung"}]
    /\ fetched \in [Procs -> [command : Versions, daemon : Versions]]
    /\ news \in BOOLEAN /\ raced \in [Procs -> SUBSET {"command", "daemon"}]

\* Between commands the file says that a notice is pending exactly if a check was
\* recorded since the last notice that was recorded: a run that could not print
\* does not spend the notice, and a notice that was recorded is not repeated before
\* the next check (update_check.py:17).
NewsIsKept ==
    (\A p \in Procs : pc[p] = "idle") => (news <=> Unreported(file))

\* "A read-modify-write so that updating one field (e.g. the check timestamp)
\* never drops a sibling" (update_check.py:121), as far as that holds without a
\* lock: a write sets a field back only if its writer was overtaken, by another
\* process or by the other actor of its own, after it read the file or fetched the
\* version that it writes.
OnlyRacesSetBack ==
    [][\/ /\ file'.checked >= file.checked
          /\ file'.notified >= file.notified
          /\ file'.latest >= file.latest
       \/ \E p \in Procs : raced[p] \ raced'[p] # {}]_vars

\* A command ends although the manifest is never answered: the wait at its end is
\* bounded (BACKGROUND_JOIN_TIMEOUT_SECONDS, update_check.py:66).
CommandEnds == \A p \in Procs : pc[p] # "idle" ~> pc[p] = "idle"

=============================================================================
