------------------------- MODULE UpdateCheck_proofs --------------------------
(***************************************************************************)
(* For any number of processes, versions and intervals, under every fault: *)
(* types, that the notice is neither lost nor repeated, and that a field of *)
(* the file is set back only by a writer that another has overtaken.       *)
(***************************************************************************)
EXTENDS UpdateCheck, TLAPS

LEMMA StateTypes ==
    /\ NoState \in States
    /\ \A s \in States : s.checked \in Nat /\ s.notified \in Nat /\ s.latest \in Versions
BY UpdateAssumption DEF States, NoState, Times, Versions

LEMMA InitType == Init => TypeOK
<1> SUFFICES ASSUME Init PROVE TypeOK
  OBVIOUS
<1>. USE DEF Init
<1>1. file \in States /\ clock \in Times /\ released \in Versions /\ installed \in Versions
  BY StateTypes, UpdateAssumption DEF Times, Versions
<1>2. /\ pc \in [Procs -> {"idle", "armed", "fetch", "stampRead", "stampWrite", "close",
                         "printed", "notifiedWrite", "exit"}]
      /\ kind \in [Procs -> CommandKinds \cup {"none"}]
      /\ bg \in [Procs -> {"none", "fetch", "read", "write", "done", "hung"}]
  OBVIOUS
<1>3. due \in [Procs -> BOOLEAN] /\ news \in BOOLEAN /\ raced \in [Procs -> SUBSET {"command", "daemon"}]
  OBVIOUS
<1>4. merged \in [Procs -> States] /\ bgMerged \in [Procs -> States]
  BY StateTypes
<1>5. own \in [Procs -> Versions] /\ fetched \in [Procs -> [command : Versions, daemon : Versions]]
  BY UpdateAssumption DEF Versions
<1>. QED BY <1>1, <1>2, <1>3, <1>4, <1>5 DEF TypeOK

LEMMA GoneType == ASSUME TypeOK, NEW p \in Procs, Gone(p) PROVE TypeOK'
<1>1. file' \in States /\ clock' \in Times /\ released' \in Versions
      /\ installed' \in Versions /\ own' \in [Procs -> Versions] /\ news' \in BOOLEAN
  BY UpdateAssumption DEF TypeOK, Gone, world, Versions
<1>2. pc' \in [Procs -> {"idle", "armed", "fetch", "stampRead", "stampWrite", "close",
                         "printed", "notifiedWrite", "exit"}]
  BY DEF TypeOK, Gone, Goto
<1>3. /\ kind' \in [Procs -> CommandKinds \cup {"none"}]
      /\ due' \in [Procs -> BOOLEAN]
      /\ bg' \in [Procs -> {"none", "fetch", "read", "write", "done", "hung"}]
  BY DEF TypeOK, Gone
<1>4. merged' \in [Procs -> States] /\ bgMerged' \in [Procs -> States]
  BY StateTypes DEF TypeOK, Gone
<1>5. fetched' \in [Procs -> [command : Versions, daemon : Versions]]
  BY UpdateAssumption DEF TypeOK, Gone, Versions
<1>6. raced' \in [Procs -> SUBSET {"command", "daemon"}]
  BY DEF TypeOK, Gone
<1>. QED BY <1>1, <1>2, <1>3, <1>4, <1>5, <1>6 DEF TypeOK

LEMMA RacedType ==
    ASSUME raced \in [Procs -> SUBSET {"command", "daemon"}], NEW p \in Procs, NEW r,
           Overtakes(p, r)
    PROVE  raced' \in [Procs -> SUBSET {"command", "daemon"}]
BY DEF Overtakes, Merging

LEMMA StepType == TypeOK /\ [Next]_vars => TypeOK'
<1> SUFFICES ASSUME TypeOK, [Next]_vars PROVE TypeOK'
  OBVIOUS
<1>. USE DEF TypeOK, Goto, world, command, daemon, history
<1>0. NoState \in States /\ 0 \in Versions
  BY StateTypes, UpdateAssumption DEF Versions
<1>1. ASSUME NEW p \in Procs, Arm(p) PROVE TypeOK'
  <2>1. due' \in [Procs -> BOOLEAN]
    BY <1>1 DEF Arm, Due
  <2>2. kind' \in [Procs -> CommandKinds \cup {"none"}]
    <3>1. Kinds[p] \in SUBSET CommandKinds
      BY UpdateAssumption
    <3>. QED BY <1>1, <3>1 DEF Arm
  <2>. QED BY <1>1, <2>1, <2>2 DEF Arm
<1>2. ASSUME NEW p \in Procs, Start(p) PROVE TypeOK'
  BY <1>2 DEF Start
<1>3. ASSUME NEW p \in Procs, UpdateFetches(p) PROVE TypeOK'
  <2>1. released \in Versions
    OBVIOUS
  <2>2. fetched' \in [Procs -> [command : Versions, daemon : Versions]]
    BY <1>3, <2>1 DEF UpdateFetches
  <2>. QED BY <1>3, <2>2 DEF UpdateFetches
<1>4. ASSUME NEW p \in Procs, StampRead(p) PROVE TypeOK'
  <2>1. clock' \in Times /\ Now \in Times
    BY <1>4 DEF StampRead, Now, Times
  <2>2. [checked |-> Now, notified |-> Now, latest |-> fetched[p].command] \in States
    BY <2>1 DEF States
  <2>. QED BY <1>4, <2>1, <2>2 DEF StampRead
<1>5. ASSUME NEW p \in Procs, StampWrite(p) PROVE TypeOK'
  <2>1. installed' \in Versions
    BY <1>5 DEF StampWrite
  <2>2. news' \in BOOLEAN /\ file' \in States
    BY <1>5 DEF StampWrite, WriteState
  <2>3. merged' \in [Procs -> States] /\ fetched' \in [Procs -> [command : Versions, daemon : Versions]]
    BY <1>5, <1>0 DEF StampWrite
  <2>4. raced' \in [Procs -> SUBSET {"command", "daemon"}]
    BY <1>5, RacedType DEF StampWrite
  <2>. QED BY <1>5, <2>1, <2>2, <2>3, <2>4 DEF StampWrite
<1>6. ASSUME NEW p \in Procs, Close(p) PROVE TypeOK'
  BY <1>6 DEF Close
<1>7. ASSUME NEW p \in Procs, NotifiedRead(p) PROVE TypeOK'
  <2>1. clock' \in Times /\ Now \in Times
    BY <1>7 DEF NotifiedRead, Now, Times
  <2>2. [file EXCEPT !.notified = Now] \in States
    BY <2>1 DEF States
  <2>. QED BY <1>7, <2>1, <2>2 DEF NotifiedRead
<1>8. ASSUME NEW p \in Procs, NotifiedWrite(p) PROVE TypeOK'
  <2>1. news' \in BOOLEAN /\ file' \in States
    BY <1>8 DEF NotifiedWrite, WriteState
  <2>2. merged' \in [Procs -> States]
    BY <1>8, <1>0 DEF NotifiedWrite
  <2>3. raced' \in [Procs -> SUBSET {"command", "daemon"}]
    BY <1>8, RacedType DEF NotifiedWrite
  <2>. QED BY <1>8, <2>1, <2>2, <2>3 DEF NotifiedWrite
<1>9. ASSUME NEW p \in Procs, Exit(p) \/ Kill(p) PROVE TypeOK'
  BY <1>9, GoneType DEF Exit, Kill
<1>10. ASSUME NEW p \in Procs, BgFetches(p) PROVE TypeOK'
  <2>1. bg' \in [Procs -> {"none", "fetch", "read", "write", "done", "hung"}]
    BY <1>10 DEF BgFetches
  <2>2. fetched' \in [Procs -> [command : Versions, daemon : Versions]]
    BY <1>10 DEF BgFetches
  <2>. QED BY <1>10, <2>1, <2>2 DEF BgFetches
<1>11. ASSUME NEW p \in Procs, BgReads(p) PROVE TypeOK'
  <2>1. clock' \in Times /\ Now \in Times
    BY <1>11 DEF BgReads, Now, Times
  <2>2. [file EXCEPT !.checked = Now, !.latest = fetched[p].daemon] \in States
    BY <2>1 DEF States
  <2>. QED BY <1>11, <2>1, <2>2 DEF BgReads
<1>12. ASSUME NEW p \in Procs, BgWrites(p) PROVE TypeOK'
  <2>1. news' \in BOOLEAN /\ file' \in States
    BY <1>12 DEF BgWrites, WriteState
  <2>2. bgMerged' \in [Procs -> States] /\ fetched' \in [Procs -> [command : Versions, daemon : Versions]]
    BY <1>12, <1>0 DEF BgWrites
  <2>3. raced' \in [Procs -> SUBSET {"command", "daemon"}]
    BY <1>12, RacedType DEF BgWrites
  <2>. QED BY <1>12, <2>1, <2>2, <2>3 DEF BgWrites
<1>13. CASE Tick
  BY <1>13 DEF Tick, Now, Times
<1>14. CASE Release
  <2>1. released' \in Versions
    BY <1>14, UpdateAssumption DEF Release, Versions
  <2>. QED BY <1>14, <2>1 DEF Release
<1>15. CASE UNCHANGED vars
  BY <1>15 DEF vars
<1>. QED
  BY <1>1, <1>2, <1>3, <1>4, <1>5, <1>6, <1>7, <1>8, <1>9, <1>10, <1>11, <1>12, <1>13,
     <1>14, <1>15 DEF Next, CommandStep, DaemonStep

\* Every variable keeps its type, for any number of processes and versions.
THEOREM TypeCorrect == Spec => []TypeOK
BY InitType, StepType, PTL DEF Spec

-----------------------------------------------------------------------------
\* The times in the file and in what is about to be written: a check later than
\* the notice beside it, a notice no earlier than the check, and none to come.
Stamps ==
    /\ file.checked <= clock /\ file.notified <= clock
    /\ \A p \in Procs :
          /\ bg[p] = "write" => /\ bgMerged[p].notified < bgMerged[p].checked
                                /\ bgMerged[p].checked <= clock
          /\ pc[p] \in {"stampWrite", "notifiedWrite"} =>
                /\ merged[p].checked <= merged[p].notified
                /\ merged[p].notified <= clock

NewsTold == news <=> Unreported(file)

LEMMA InitNews == Init => Stamps /\ NewsTold
BY DEF Init, Stamps, NewsTold, Unreported, NoState

LEMMA StepNews == TypeOK /\ Stamps /\ NewsTold /\ [Next]_vars => (Stamps /\ NewsTold)'
<1> SUFFICES ASSUME TypeOK, Stamps, NewsTold, [Next]_vars PROVE (Stamps /\ NewsTold)'
  OBVIOUS
<1>0. /\ clock \in Nat /\ file.checked \in Nat /\ file.notified \in Nat
      /\ \A p \in Procs : /\ merged[p].checked \in Nat /\ merged[p].notified \in Nat
                          /\ bgMerged[p].checked \in Nat /\ bgMerged[p].notified \in Nat
  BY StateTypes DEF TypeOK, Times
<1>. USE DEF Goto, world, command, daemon, history
<1>1. ASSUME NEW p \in Procs,
             Arm(p) \/ Start(p) \/ UpdateFetches(p) \/ Close(p) \/ BgFetches(p)
      PROVE  (Stamps /\ NewsTold)'
  <2>1. UNCHANGED <<file, news, clock, merged, bgMerged>>
    BY <1>1 DEF Arm, Start, UpdateFetches, Close, BgFetches
  <2>2. \A q \in Procs : /\ bg'[q] = "write" => bg[q] = "write"
                         /\ pc'[q] \in {"stampWrite", "notifiedWrite"} =>
                               pc[q] \in {"stampWrite", "notifiedWrite"}
    BY <1>1 DEF TypeOK, Arm, Start, UpdateFetches, Close, BgFetches
  <2>. QED BY <2>1, <2>2 DEF Stamps, NewsTold, Unreported
<1>2. ASSUME NEW p \in Procs, StampRead(p) \/ NotifiedRead(p) PROVE (Stamps /\ NewsTold)'
  <2>1. /\ clock' = clock + 1 /\ UNCHANGED <<file, news, bg, bgMerged>>
        /\ \A q \in Procs \ {p} : pc'[q] = pc[q] /\ merged'[q] = merged[q]
        /\ merged'[p].checked <= merged'[p].notified /\ merged'[p].notified = clock + 1
    <3>1. CASE StampRead(p)
      BY <3>1, <1>0 DEF TypeOK, StampRead, Now
    <3>2. CASE NotifiedRead(p)
      <4>1. merged'[p] = [file EXCEPT !.notified = clock + 1]
        BY <3>2 DEF TypeOK, NotifiedRead, Now
      <4>2. merged'[p].checked = file.checked /\ merged'[p].notified = clock + 1
        BY <4>1 DEF TypeOK, States
      <4>. QED BY <3>2, <4>2, <1>0 DEF TypeOK, Stamps, NotifiedRead, Now
    <3>. QED BY <1>2, <3>1, <3>2
  <2>. QED BY <2>1, <1>0 DEF Stamps, NewsTold, Unreported
<1>3. ASSUME NEW p \in Procs, StampWrite(p) \/ NotifiedWrite(p) PROVE (Stamps /\ NewsTold)'
  <2>1. /\ UNCHANGED <<clock, bg, bgMerged>>
        /\ \A q \in Procs \ {p} : pc'[q] = pc[q] /\ merged'[q] = merged[q]
        /\ pc'[p] \notin {"stampWrite", "notifiedWrite"}
        /\ pc[p] \in {"stampWrite", "notifiedWrite"}
    BY <1>3 DEF TypeOK, StampWrite, NotifiedWrite
  <2>2. merged[p].checked <= merged[p].notified /\ merged[p].notified <= clock
    BY <2>1 DEF Stamps
  <2>3. file' = merged[p] \/ file' = file
    BY <1>3 DEF StampWrite, NotifiedWrite, WriteState
  <2>4. Stamps'
    BY <2>1, <2>2, <2>3, <1>0 DEF Stamps
  <2>5. ~Unreported(merged[p])
    BY <2>2, <1>0 DEF Unreported
  <2>6. news' <=> (news /\ file' = file)
    BY <1>3 DEF StampWrite, NotifiedWrite
  <2>7. CASE file' = file
    <3>1. file'.notified < file'.checked <=> file.notified < file.checked
      BY <2>7
    <3>. QED BY <2>4, <2>6, <2>7, <3>1 DEF NewsTold, Unreported
  <2>8. CASE file' = merged[p] /\ file' # file
    <3>1. ~(file'.notified < file'.checked)
      BY <2>5, <2>8 DEF Unreported
    <3>. QED BY <2>4, <2>6, <2>8, <3>1 DEF NewsTold, Unreported
  <2>. QED BY <2>3, <2>7, <2>8
<1>4. ASSUME NEW p \in Procs, Exit(p) \/ Kill(p) PROVE (Stamps /\ NewsTold)'
  <2>1. /\ UNCHANGED <<file, news, clock>>
        /\ pc'[p] = "idle" /\ bg'[p] = "none"
        /\ \A q \in Procs \ {p} : /\ pc'[q] = pc[q] /\ bg'[q] = bg[q]
                                  /\ merged'[q] = merged[q] /\ bgMerged'[q] = bgMerged[q]
    BY <1>4 DEF TypeOK, Exit, Kill, Gone
  <2>. QED BY <2>1 DEF Stamps, NewsTold, Unreported
<1>5. ASSUME NEW p \in Procs, BgReads(p) PROVE (Stamps /\ NewsTold)'
  <2>1. /\ clock' = clock + 1 /\ UNCHANGED <<file, news, pc, merged>>
        /\ \A q \in Procs \ {p} : bg'[q] = bg[q] /\ bgMerged'[q] = bgMerged[q]
        /\ bgMerged'[p].checked = clock + 1 /\ bgMerged'[p].notified = file.notified
    BY <1>5 DEF TypeOK, States, BgReads, Now
  <2>. QED BY <2>1, <1>0 DEF Stamps, NewsTold, Unreported
<1>6. ASSUME NEW p \in Procs, BgWrites(p) PROVE (Stamps /\ NewsTold)'
  <2>1. /\ UNCHANGED <<clock, pc, merged>>
        /\ bg[p] = "write" /\ bg'[p] = "done"
        /\ \A q \in Procs \ {p} : bg'[q] = bg[q] /\ bgMerged'[q] = bgMerged[q]
        /\ file' = bgMerged[p] \/ file' = file
        /\ news' = (news \/ file' = bgMerged[p])
    BY <1>6 DEF TypeOK, BgWrites, WriteState
  <2>2. bgMerged[p].notified < bgMerged[p].checked /\ bgMerged[p].checked <= clock
    BY <2>1 DEF Stamps
  <2>3. Stamps'
    BY <2>1, <2>2, <1>0 DEF Stamps
  <2>4. Unreported(bgMerged[p])
    BY <2>2 DEF Unreported
  <2>5. NewsTold'
    BY <2>1, <2>4 DEF NewsTold, Unreported
  <2>. QED BY <2>3, <2>5
<1>7. CASE Tick
  BY <1>7, <1>0 DEF Tick, Now, Stamps, NewsTold, Unreported
<1>8. CASE Release \/ UNCHANGED vars
  BY <1>8 DEF Release, vars, Stamps, NewsTold, Unreported
<1>. QED
  BY <1>1, <1>2, <1>3, <1>4, <1>5, <1>6, <1>7, <1>8 DEF Next, CommandStep, DaemonStep

\* A notice is pending exactly if a check was recorded since the last recorded
\* notice, for any number of processes at once, under every fault.
THEOREM NewsKept == Spec => []NewsIsKept
<1>1. NewsTold => NewsIsKept
  BY DEF NewsTold, NewsIsKept
<1>. QED BY <1>1, InitType, StepType, InitNews, StepNews, PTL DEF Spec

-----------------------------------------------------------------------------
(* A field is set back only by a writer that was overtaken                  *)

\* A step of p, by its command or by its thread.
Acts(p) == Arm(p) \/ CommandStep(p) \/ DaemonStep(p) \/ Kill(p)

\* What is known was released, so no later fetch brings an older version.
KnownReleased ==
    /\ file.latest <= released
    /\ \A p \in Procs :
         /\ fetched[p].command <= released /\ fetched[p].daemon <= released
         /\ pc[p] \in {"stampWrite", "notifiedWrite"} => merged[p].latest <= released
         /\ bg[p] = "write" => bgMerged[p].latest <= released

Ahead(state) == /\ state.checked >= file.checked /\ state.notified >= file.notified
                /\ state.latest >= file.latest

\* What an actor that was not overtaken has fetched and is about to write is as
\* late as what the file has.
CommandCurrent(p) ==
    "command" \notin raced[p] =>
        /\ pc[p] = "stampRead" => fetched[p].command >= file.latest
        /\ pc[p] \in {"stampWrite", "notifiedWrite"} => Ahead(merged[p])

DaemonCurrent(p) ==
    "daemon" \notin raced[p] =>
        /\ bg[p] = "read" => fetched[p].daemon >= file.latest
        /\ bg[p] = "write" => Ahead(bgMerged[p])

Current == \A p \in Procs : CommandCurrent(p) /\ DaemonCurrent(p)

ForwardInv == KnownReleased /\ Current

LEMMA InitForward == Init => ForwardInv
BY UpdateAssumption
   DEF Init, ForwardInv, KnownReleased, Current, CommandCurrent, DaemonCurrent, NoState

\* A step of p changes nothing that belongs to another process.
LEMMA Frame ==
    ASSUME TypeOK, NEW p \in Procs, Acts(p), NEW q \in Procs, q # p
    PROVE  /\ pc'[q] = pc[q] /\ kind'[q] = kind[q] /\ merged'[q] = merged[q]
           /\ bg'[q] = bg[q] /\ bgMerged'[q] = bgMerged[q] /\ fetched'[q] = fetched[q]
BY DEF TypeOK, Acts, CommandStep, DaemonStep, Arm, Start, UpdateFetches, StampRead,
       StampWrite, Close, NotifiedRead, NotifiedWrite, Exit, Kill, Gone, BgFetches,
       BgReads, BgWrites, Goto, command, daemon

\* What is written is what was merged, or nothing.
LEMMA FileStep ==
    ASSUME NEW p \in Procs, Acts(p)
    PROVE  \/ UNCHANGED file
           \/ pc[p] \in {"stampWrite", "notifiedWrite"} /\ file' = merged[p]
           \/ bg[p] = "write" /\ file' = bgMerged[p]
BY DEF Acts, CommandStep, DaemonStep, Arm, Start, UpdateFetches, StampRead, StampWrite,
       Close, NotifiedRead, NotifiedWrite, Exit, Kill, Gone, BgFetches, BgReads,
       BgWrites, WriteState

LEMMA KnownStep ==
    ASSUME TypeOK, KnownReleased, NEW p \in Procs, Acts(p)
    PROVE  KnownReleased'
<1>0. /\ released \in Nat /\ file.latest \in Nat
      /\ \A q \in Procs : /\ fetched[q].command \in Nat /\ fetched[q].daemon \in Nat
                          /\ merged[q].latest \in Nat /\ bgMerged[q].latest \in Nat
  BY StateTypes, UpdateAssumption DEF TypeOK, Versions
<1>1. UNCHANGED released
  BY DEF Acts, CommandStep, DaemonStep, Arm, Start, UpdateFetches, StampRead, StampWrite,
         Close, NotifiedRead, NotifiedWrite, Exit, Kill, Gone, BgFetches, BgReads,
         BgWrites, world
<1>2. file'.latest <= released
  BY FileStep DEF KnownReleased
<1>3. fetched'[p].command <= released /\ fetched'[p].daemon <= released
  <2>1. CASE UpdateFetches(p)
    BY <2>1, <1>0 DEF UpdateFetches, TypeOK, KnownReleased
  <2>2. CASE BgFetches(p)
    BY <2>2, <1>0 DEF BgFetches, TypeOK, KnownReleased
  <2>3. CASE Gone(p)
    BY <2>3, <1>0 DEF Gone, TypeOK
  <2>4. CASE StampWrite(p) \/ BgWrites(p)
    BY <2>4, <1>0 DEF StampWrite, BgWrites, TypeOK, KnownReleased
  <2>5. CASE UNCHANGED fetched
    BY <2>5 DEF KnownReleased
  <2> QED BY <2>1, <2>2, <2>3, <2>4, <2>5
      DEF Acts, CommandStep, DaemonStep, Arm, Start, StampRead, Close,
          NotifiedRead, NotifiedWrite, Exit, Kill, BgReads
<1>4. pc'[p] \in {"stampWrite", "notifiedWrite"} => merged'[p].latest <= released
  <2>1. CASE StampRead(p)
    BY <2>1 DEF StampRead, TypeOK, KnownReleased
  <2>2. CASE NotifiedRead(p)
    <3>1. merged'[p].latest = file.latest
      BY <2>2 DEF NotifiedRead, TypeOK, States
    <3> QED BY <3>1 DEF KnownReleased
  <2>3. CASE UNCHANGED <<pc, merged>>
    BY <2>3 DEF KnownReleased
  <2>4. CASE pc'[p] \notin {"stampWrite", "notifiedWrite"}
    BY <2>4
  <2> QED BY <2>1, <2>2, <2>3, <2>4
      DEF Acts, CommandStep, DaemonStep, Arm, Start, UpdateFetches, StampWrite, Close,
          NotifiedWrite, Exit, Kill, Gone, BgFetches, BgReads, BgWrites,
          Goto, TypeOK, command
<1>5. bg'[p] = "write" => bgMerged'[p].latest <= released
  <2>1. CASE BgReads(p)
    <3>1. bgMerged'[p].latest = fetched[p].daemon
      BY <2>1 DEF BgReads, TypeOK, States
    <3> QED BY <3>1 DEF KnownReleased
  <2>2. CASE UNCHANGED daemon
    BY <2>2 DEF KnownReleased, daemon
  <2>3. CASE bg'[p] # "write"
    BY <2>3
  <2> QED BY <2>1, <2>2, <2>3
      DEF Acts, CommandStep, DaemonStep, Arm, Start, UpdateFetches, StampRead,
          StampWrite, Close, NotifiedRead, NotifiedWrite, Exit, Kill, Gone, BgFetches,
          BgWrites, TypeOK, daemon
<1> QED BY <1>1, <1>2, <1>3, <1>4, <1>5, Frame DEF KnownReleased

\* A write that changes the file overtakes every other actor that is about to
\* write, and one that does not leaves the others as current as they were.
LEMMA CurrentByWrite ==
    ASSUME TypeOK, Current, NEW p \in Procs, NEW r \in {"command", "daemon"},
           Overtakes(p, r),
           r = "command" => pc'[p] \notin {"stampRead", "stampWrite", "notifiedWrite"},
           r = "daemon" => bg'[p] \notin {"read", "write"},
           \A q \in Procs :
               /\ (q # p \/ r = "daemon") => /\ pc'[q] = pc[q] /\ merged'[q] = merged[q]
                                             /\ fetched'[q].command = fetched[q].command
               /\ (q # p \/ r = "command") => /\ bg'[q] = bg[q] /\ bgMerged'[q] = bgMerged[q]
                                              /\ fetched'[q].daemon = fetched[q].daemon
    PROVE  Current'
<1> SUFFICES ASSUME NEW q \in Procs PROVE CommandCurrent(q)' /\ DaemonCurrent(q)'
  BY DEF Current
<1>0. CommandCurrent(q) /\ DaemonCurrent(q)
  BY DEF Current
<1>1. CommandCurrent(q)'
  <2>1. CASE q = p /\ r = "command"
    BY <2>1 DEF CommandCurrent
  <2>2. CASE ~(q = p /\ r = "command") /\ file' = file
    BY <2>2, <1>0 DEF CommandCurrent, Ahead, Overtakes
  <2>3. CASE ~(q = p /\ r = "command") /\ file' # file
    <3>1. pc[q] \in {"stampRead", "stampWrite", "notifiedWrite"} => "command" \in raced'[q]
      BY <2>3 DEF Overtakes, Merging
    <3>. QED BY <2>3, <3>1 DEF CommandCurrent
  <2>. QED BY <2>1, <2>2, <2>3
<1>2. DaemonCurrent(q)'
  <2>1. CASE q = p /\ r = "daemon"
    BY <2>1 DEF DaemonCurrent
  <2>2. CASE ~(q = p /\ r = "daemon") /\ file' = file
    BY <2>2, <1>0 DEF DaemonCurrent, Ahead, Overtakes
  <2>3. CASE ~(q = p /\ r = "daemon") /\ file' # file
    <3>1. bg[q] \in {"read", "write"} => "daemon" \in raced'[q]
      BY <2>3 DEF Overtakes, Merging
    <3>. QED BY <2>3, <3>1 DEF DaemonCurrent
  <2>. QED BY <2>1, <2>2, <2>3
<1>. QED BY <1>1, <1>2

LEMMA CurrentStep ==
    ASSUME TypeOK, Stamps, ForwardInv, NEW p \in Procs, Acts(p)
    PROVE  Current'
<1>0. /\ clock \in Nat /\ released \in Nat
      /\ file.checked \in Nat /\ file.notified \in Nat /\ file.latest \in Nat
      /\ fetched[p].daemon \in Nat /\ fetched[p].command \in Nat
      /\ file.checked <= clock /\ file.notified <= clock /\ file.latest <= released
  BY StateTypes, UpdateAssumption
     DEF TypeOK, Times, Versions, Stamps, ForwardInv, KnownReleased
<1>a. Current /\ CommandCurrent(p) /\ DaemonCurrent(p)
  BY DEF ForwardInv, Current
<1>1. CASE StampWrite(p) \/ NotifiedWrite(p)
  <2>1. /\ Overtakes(p, "command")
        /\ pc'[p] \notin {"stampRead", "stampWrite", "notifiedWrite"}
        /\ bg'[p] = bg[p] /\ bgMerged'[p] = bgMerged[p]
        /\ fetched'[p].daemon = fetched[p].daemon
    BY <1>1 DEF StampWrite, NotifiedWrite, Goto, TypeOK, daemon
  <2>. QED BY <2>1, <1>a, Frame, CurrentByWrite
<1>2. CASE BgWrites(p)
  <2>1. /\ Overtakes(p, "daemon") /\ bg'[p] \notin {"read", "write"}
        /\ pc'[p] = pc[p] /\ merged'[p] = merged[p]
        /\ fetched'[p].command = fetched[p].command
    BY <1>2 DEF BgWrites, TypeOK, command
  <2>. QED BY <2>1, <1>a, Frame, CurrentByWrite
<1>3. ASSUME UNCHANGED file,
             \A q \in Procs \ {p} : raced'[q] = raced[q],
             CommandCurrent(p)', DaemonCurrent(p)'
      PROVE  Current'
  <2>1. \A q \in Procs \ {p} : CommandCurrent(q)' /\ DaemonCurrent(q)'
    BY <1>a, <1>3, Frame DEF Current, CommandCurrent, DaemonCurrent, Ahead
  <2>. QED BY <1>3, <2>1 DEF Current
<1>4. CASE Exit(p) \/ Kill(p)
  <2>1. /\ UNCHANGED file /\ pc'[p] = "idle" /\ bg'[p] = "none"
        /\ \A q \in Procs \ {p} : raced'[q] = raced[q]
    BY <1>4 DEF Exit, Kill, Gone, Goto, TypeOK
  <2>. QED BY <2>1, <1>3 DEF CommandCurrent, DaemonCurrent
<1>. USE DEF TypeOK, Goto, command, daemon, history
<1>5. CASE Arm(p) \/ Start(p) \/ UpdateFetches(p) \/ Close(p)
  <2>1. /\ UNCHANGED <<file, raced, merged, bgMerged>>
        /\ pc'[p] \notin {"stampWrite", "notifiedWrite"}
        /\ pc'[p] = "stampRead" => fetched'[p].command = released
        /\ bg'[p] \in {"read", "write"} => bg'[p] = bg[p]
        /\ fetched'[p].daemon = fetched[p].daemon
    BY <1>5 DEF Arm, Start, UpdateFetches, Close
  <2>. QED BY <2>1, <1>0, <1>a, <1>3 DEF CommandCurrent, DaemonCurrent, Ahead
<1>6. CASE StampRead(p)
  <2>1. /\ UNCHANGED <<file, raced, bg, bgMerged, fetched>>
        /\ pc[p] = "stampRead" /\ pc'[p] = "stampWrite"
        /\ merged'[p] = [checked |-> clock + 1, notified |-> clock + 1,
                         latest |-> fetched[p].command]
    BY <1>6 DEF StampRead, Now
  <2>. QED BY <2>1, <1>0, <1>a, <1>3 DEF CommandCurrent, DaemonCurrent, Ahead
<1>7. CASE NotifiedRead(p)
  <2>1. /\ UNCHANGED <<file, raced, bg, bgMerged, fetched>>
        /\ pc'[p] = "notifiedWrite" /\ merged'[p].checked = file.checked
        /\ merged'[p].notified = clock + 1 /\ merged'[p].latest = file.latest
    BY <1>7 DEF NotifiedRead, Now, States
  <2>. QED BY <2>1, <1>0, <1>a, <1>3 DEF CommandCurrent, DaemonCurrent, Ahead
<1>8. CASE BgFetches(p)
  <2>1. /\ UNCHANGED <<file, raced, pc, merged, bgMerged>>
        /\ bg'[p] # "write"
        /\ bg'[p] = "read" => fetched'[p].daemon = released
        /\ fetched'[p].command = fetched[p].command
    BY <1>8 DEF BgFetches
  <2>. QED BY <2>1, <1>0, <1>a, <1>3 DEF CommandCurrent, DaemonCurrent, Ahead
<1>9. CASE BgReads(p)
  <2>1. /\ UNCHANGED <<file, raced, pc, merged, fetched>>
        /\ bg[p] = "read" /\ bg'[p] = "write"
        /\ bgMerged'[p].checked = clock + 1 /\ bgMerged'[p].notified = file.notified
        /\ bgMerged'[p].latest = fetched[p].daemon
    BY <1>9 DEF BgReads, Now, States
  <2>. QED BY <2>1, <1>0, <1>a, <1>3 DEF CommandCurrent, DaemonCurrent, Ahead
<1>. QED BY <1>1, <1>2, <1>4, <1>5, <1>6, <1>7, <1>8, <1>9
     DEF Acts, CommandStep, DaemonStep

LEMMA ForwardNext == TypeOK /\ Stamps /\ ForwardInv /\ [Next]_vars => ForwardInv'
<1> SUFFICES ASSUME TypeOK, Stamps, ForwardInv, [Next]_vars PROVE ForwardInv'
  OBVIOUS
<1>1. ASSUME NEW p \in Procs, Acts(p) PROVE ForwardInv'
  BY <1>1, KnownStep, CurrentStep DEF ForwardInv
<1>2. CASE Tick \/ Release \/ UNCHANGED vars
  <2>1. /\ UNCHANGED <<file, raced, pc, kind, merged, bg, bgMerged, fetched>>
        /\ released' >= released
    BY <1>2, UpdateAssumption
       DEF Tick, Release, vars, world, command, daemon, history, TypeOK, Versions
  <2>2. /\ released \in Nat /\ released' \in Nat /\ file.latest \in Nat
        /\ \A q \in Procs : /\ fetched[q].command \in Nat /\ fetched[q].daemon \in Nat
                            /\ merged[q].latest \in Nat /\ bgMerged[q].latest \in Nat
    BY <1>2, StateTypes, UpdateAssumption DEF TypeOK, Versions, Tick, Release, vars, world
  <2>3. KnownReleased'
    BY <2>1, <2>2 DEF ForwardInv, KnownReleased
  <2>4. Current'
    BY <2>1 DEF ForwardInv, Current, CommandCurrent, DaemonCurrent, Ahead
  <2> QED BY <2>3, <2>4 DEF ForwardInv
<1> QED BY <1>1, <1>2 DEF Next, Acts

\* For any number of processes, with threads that answer late or never, failing
\* writes, kills and `cloudsmith update`: a write sets a field back only if another
\* actor has changed the file since the writer read it or fetched its version.  So
\* the read-modify-write loses nothing but to a race.
THEOREM FieldsOnlyForward == Spec => OnlyRacesSetBack
<1> DEFINE A == \/ /\ file'.checked >= file.checked
                   /\ file'.notified >= file.notified
                   /\ file'.latest >= file.latest
                \/ \E p \in Procs : raced[p] \ raced'[p] # {}
<1>1. TypeOK /\ ForwardInv /\ [Next]_vars => [A]_vars
  <2> SUFFICES ASSUME TypeOK, ForwardInv, Next PROVE A
    BY DEF vars
  <2>1. file.checked \in Nat /\ file.notified \in Nat /\ file.latest \in Nat
    BY StateTypes, UpdateAssumption DEF TypeOK, Versions
  <2>2. CASE UNCHANGED file
    BY <2>1, <2>2
  <2>3. ASSUME NEW p \in Procs, StampWrite(p) \/ NotifiedWrite(p) PROVE A
    <3>1. /\ pc[p] \in {"stampWrite", "notifiedWrite"} /\ "command" \notin raced'[p]
          /\ UNCHANGED file \/ file' = merged[p]
      BY <2>3 DEF StampWrite, NotifiedWrite, WriteState, Overtakes
    <3>. QED BY <3>1, <2>2 DEF ForwardInv, Current, CommandCurrent, Ahead
  <2>4. ASSUME NEW p \in Procs, BgWrites(p) PROVE A
    <3>1. /\ bg[p] = "write" /\ "daemon" \notin raced'[p]
          /\ UNCHANGED file \/ file' = bgMerged[p]
      BY <2>4 DEF BgWrites, WriteState, Overtakes
    <3>. QED BY <3>1, <2>2 DEF ForwardInv, Current, DaemonCurrent, Ahead
  <2>5. UNCHANGED file \/ \E p \in Procs : StampWrite(p) \/ NotifiedWrite(p) \/ BgWrites(p)
    BY DEF Next, CommandStep, DaemonStep, Arm, Start, UpdateFetches, StampRead, Close,
           NotifiedRead, Exit, Kill, Gone, BgFetches, BgReads, Tick, Release
  <2> QED BY <2>2, <2>3, <2>4, <2>5
<1>2. Init => TypeOK /\ Stamps /\ NewsTold /\ ForwardInv
  BY InitType, InitNews, InitForward
<1>3. TypeOK /\ Stamps /\ NewsTold /\ ForwardInv /\ [Next]_vars
      => (TypeOK /\ Stamps /\ NewsTold /\ ForwardInv)'
  BY StepType, StepNews, ForwardNext
<1> QED BY <1>1, <1>2, <1>3, PTL DEF Spec, OnlyRacesSetBack
=============================================================================
