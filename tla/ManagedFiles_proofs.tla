------------------------- MODULE ManagedFiles_proofs -------------------------
(***************************************************************************)
(* For any hosts and directories: types, the text before a command, and    *)
(* entries with their launchers.                                           *)
(***************************************************************************)
EXTENDS ManagedFiles, TLAPS

\* Where the text of Docker's or Cargo's file is while a command runs.
Kept ==
    Merged =>
        /\ pc \in {"launcher", "read"} => file = origin
        /\ pc = "backup" => file = origin /\ text = origin
        /\ pc = "replace" => origin \in {Absent, bak}
        /\ origin # Absent => origin \in {file, bak}

Configuring == {"read", "backup", "replace", "truncate", "write"}

Launched ==
    kind # "mcp" =>
        /\ pc # "idle" => cmd.op \in {"install", "uninstall"}
        /\ kind = "pnpm" => ~halfway
        /\ pc \in Configuring /\ cmd.op = "install" => cmd.dir \in launchers
        /\ pc \in Configuring /\ cmd.op = "uninstall" /\ kind # "pnpm" => halfway
        /\ ~halfway => Points(Parsed(file))
        /\ pc \in {"truncate", "write"} /\ kind = "pnpm" => Points(Parsed(text))
        /\ pc = "launcher" /\ kind = "pnpm" /\ cmd.op = "uninstall" =>
              \A s \in Slots : ~Marked(Parsed(file), s)

Located ==
    /\ pc \in {"truncate", "write"} => InPlace
    /\ pc \in {"backup", "replace"} => ~InPlace
    /\ pc = "backup" => Merged
    /\ pc = "check" => kind \in {"terraform", "mcp"}
    /\ pc # "idle" => tries \in 0 .. 2

IInv == TypeOK /\ Located /\ Kept /\ Launched

-----------------------------------------------------------------------------
(* What the mutate functions return.                                        *)

LEMMA ParsedType == \A f \in Texts : Parsed(f) \in Entries
BY DEF Texts, Parsed, Empty, Entries

LEMMA EmptyUnmarked == \A s \in Slots : ~Marked(Empty, s)
BY FilesAssumption DEF Marked, Empty, None, Marks

LEMMA ParsedFiles == Parsed(Absent) = Empty
BY DEF Parsed

LEMMA MarkType == kind \in Kinds /\ cmd \in Commands => Mark \in Marks
BY DEF Mark, Marks, Commands

LEMMA AddedType ==
    ASSUME kind \in Kinds, cmd \in Commands, NEW f \in Entries
    PROVE  Added(f) \in Entries
<1>1. Mark \in Owners
  BY MarkType DEF Owners
<1>2. \A S : Set(f, S) \in Entries
  BY <1>1 DEF Set, Entries
<1>3. CargoAdded(f) \in Entries
  <2>1. f[List] \in {None} \cup SUBSET Owners
    BY DEF Entries, Slots
  <2>2. Providers(f) \in SUBSET Owners
    BY <2>1 DEF Providers, Owners
  <2>3. Providers(f) \cup {Mark} \in SUBSET Owners
    BY <2>2, <1>1
  <2>. QED BY <1>2, <2>3 DEF CargoAdded, Entries
<1>. QED
  BY <1>2, <1>3, FilesAssumption DEF Added, DockerAdded, PnpmAdded, TerraformAdded, ClientAdded

LEMMA StrippedType ==
    ASSUME kind \in Kinds, NEW f \in Entries
    PROVE  Stripped(f) \in Entries
<1>1. EntriesStripped(f) \in Entries /\ PnpmStripped(f) \in Entries
  BY DEF EntriesStripped, PnpmStripped, Without, Entries
<1>2. f[List] \in {None} \cup SUBSET Owners
  BY DEF Entries, Slots
<1>3. Marked(f, List) => f[List] \ Marks \in SUBSET Owners
  BY <1>2, FilesAssumption DEF Marked, None, Marks
<1>4. CargoStripped(f) \in Entries
  BY <1>3 DEF CargoStripped, Without, Entries
<1>. QED BY <1>1, <1>4 DEF Stripped

LEMMA ChangedType ==
    ASSUME kind \in Kinds, cmd \in Commands, NEW f \in Texts
    PROVE  Changed(f) \in Entries
BY ParsedType, AddedType, StrippedType DEF Changed

LEMMA StrippedUnmarked ==
    ASSUME cmd.op = "uninstall", NEW f \in Texts, NEW s \in Slots
    PROVE  ~Marked(Changed(f), s)
<1> DEFINE g == Parsed(f)
<1>1. None \cap Marks = {}
  BY FilesAssumption DEF None, Marks
<1>2. ~Marked(EntriesStripped(g), s) /\ ~Marked(PnpmStripped(g), s)
  BY <1>1 DEF EntriesStripped, PnpmStripped, Without, Marked
<1>3. ~Marked(CargoStripped(g), s)
  BY <1>1 DEF CargoStripped, Without, Marked
<1>. QED BY <1>2, <1>3 DEF Changed, Stripped

LEMMA AddedPoints ==
    ASSUME kind = "pnpm", cmd.op = "install", cmd.dir \in launchers, NEW f \in Texts,
           Points(Parsed(f))
    PROVE  Points(Changed(f))
<1>1. Mark = cmd.dir
  BY DEF Mark
<1>2. Changed(f) = PnpmAdded(Parsed(f))
  BY DEF Changed, Added
<1>3. \A s \in Slots : Changed(f)[s] \in {Parsed(f)[s], {cmd.dir}}
  BY <1>1, <1>2 DEF PnpmAdded, Set
<1>. QED BY <1>3 DEF Points, Marked

LEMMA ChangedPoints ==
    ASSUME NEW f \in Texts, cmd.op \in {"install", "uninstall"},
           cmd.op = "install" => cmd.dir \in launchers,
           kind = "pnpm" => Points(Parsed(f))
    PROVE  Points(Changed(f))
<1>1. CASE cmd.op = "uninstall"
  BY <1>1, StrippedUnmarked DEF Points
<1>2. CASE cmd.op = "install" /\ kind = "pnpm"
  BY <1>2, AddedPoints
<1>3. CASE cmd.op = "install" /\ kind # "pnpm"
  BY <1>3 DEF Points
<1>. QED BY <1>1, <1>2, <1>3

\* A file that is absent or does not parse has no entry to point anywhere.
LEMMA ParsedPoints == \A f : Points(f) => Points(Parsed(f))
BY EmptyUnmarked DEF Parsed, Points

-----------------------------------------------------------------------------
LEMMA TextTypes ==
    /\ Entries \subseteq Texts /\ Empty \in Entries
    /\ Absent \in Texts /\ Unreadable \in Texts
    /\ NoResult \in Results
BY DEF Texts, Empty, Entries, NoResult, Results

LEMMA FinishType ==
    ASSUME TypeOK, NEW ok \in BOOLEAN, Finish(ok)
    PROVE  pc' \in Steps /\ last' \in Results /\ halfway' \in BOOLEAN
<1>1. cmd.op \in {"install", "uninstall", "configure"} /\ halfway \in BOOLEAN
  BY DEF TypeOK, Commands
<1>2. [op |-> cmd.op, ok |-> ok] \in Results
  BY <1>1 DEF Results
<1>. QED BY <1>1, <1>2 DEF Finish, Steps

LEMMA ConfiguredType ==
    ASSUME TypeOK, Configured
    PROVE  pc' \in Steps /\ last' \in Results /\ halfway' \in BOOLEAN
<1>1. CASE kind = "pnpm" /\ cmd.op = "uninstall"
  BY <1>1 DEF Configured, TypeOK, Steps
<1>2. CASE ~(kind = "pnpm" /\ cmd.op = "uninstall")
  <2> DEFINE done == \A s \in cmd.hosts : ~Token(Parsed(text'), s)
  <2>1. done \in BOOLEAN /\ Finish(done)
    BY <1>2 DEF Configured
  <2> HIDE DEF done
  <2>. QED BY <2>1, FinishType
<1>. QED BY <1>1, <1>2

LEMMA InitIInv == Init => IInv
<1> SUFFICES ASSUME Init PROVE IInv
  OBVIOUS
<1> USE FilesAssumption DEF Init
<1>1. TypeOK
  <2>1. cmd \in Commands
    BY DEF Commands
  <2>2. MaxEdits[kind] \in Nat
    OBVIOUS
  <2>3. file \in Texts /\ bak \in Texts /\ text \in Texts /\ others \in Entries /\ origin \in Texts
    BY TextTypes
  <2>4. fresh \in BOOLEAN /\ last \in Results /\ cut \in BOOLEAN /\ halfway \in BOOLEAN /\ raced \in BOOLEAN
    BY TextTypes
  <2>5. tries \in 0 .. 3 /\ commands \in 0 .. MaxCommands /\ edits \in 0 .. MaxEdits[kind]
    BY <2>2
  <2>6. pc \in Steps /\ kind \in Kinds /\ launchers \subseteq Dirs /\ taken \subseteq Hosts
    BY DEF Steps
  <2>. QED BY <2>1, <2>3, <2>4, <2>5, <2>6 DEF TypeOK
<1>2. Located /\ Kept
  BY DEF Located, Kept, InPlace, Merged
<1>3. Launched
  BY ParsedFiles, EmptyUnmarked DEF Launched, Points, Configuring
<1>. QED BY <1>1, <1>2, <1>3 DEF IInv

\* A command begins with the file as it is.
LEMMA StartIInv ==
    ASSUME IInv, NEW c \in Commands, NEW step \in {"launcher", "read", "check"},
           Start(c, step),
           step = "check" => kind \in {"terraform", "mcp"},
           kind # "mcp" => c.op \in {"install", "uninstall"},
           kind # "mcp" /\ step = "read" => kind = "pnpm" /\ c.op = "uninstall",
           kind = "pnpm" /\ step = "launcher" => c.op = "install"
    PROVE  IInv'
<1> USE DEF IInv, Start, config
<1>1. TypeOK'
  <2>1. taken \cup c.hosts \subseteq Hosts
    BY DEF TypeOK, Commands
  <2>2. commands' \in 0 .. MaxCommands /\ edits' \in 0 .. MaxEdits[kind]'
    BY FilesAssumption DEF TypeOK
  <2>3. kind' \in Kinds /\ file' \in Texts /\ bak' \in Texts /\ text' \in Texts /\ origin' \in Texts
    BY TextTypes DEF TypeOK
  <2>4. pc' \in Steps /\ cmd' \in Commands /\ last' \in Results
    BY TextTypes DEF Steps
  <2>5. fresh' \in BOOLEAN
    OBVIOUS
  <2>6. tries' \in 0 .. 3
    OBVIOUS
  <2>. QED BY <2>1, <2>2, <2>3, <2>4, <2>5, <2>6 DEF TypeOK
<1>2. Located' /\ Kept'
  BY DEF Located, Kept, InPlace, Merged
<1>3. Launched'
  BY DEF Launched, Points, Configuring
<1>. QED BY <1>1, <1>2, <1>3

LEMMA StepIInv == IInv /\ [Next]_vars => IInv'
<1> SUFFICES ASSUME IInv, [Next]_vars PROVE IInv'
  OBVIOUS
<1> USE DEF IInv
<1>1. ASSUME NEW d \in Dirs, NEW named \in SUBSET Hosts, NEW found \in SUBSET Hosts,
             \/ InstallDocker(d, AllHosts(named, found))
             \/ InstallCargo(d, AllHosts(named, found))
             \/ InstallPnpm(d, AllHosts(named, found))
      PROVE  IInv'
  <2>1. Installing(d, AllHosts(named, found)) \in Commands
    BY FilesAssumption DEF AllHosts, Installing, Commands
  <2>. QED BY <1>1, <2>1, StartIInv DEF InstallDocker, InstallCargo, InstallPnpm, Installing
<1>2. ASSUME NEW d \in Dirs, InstallTerraform(d) PROVE IInv'
  BY <1>2, StartIInv DEF InstallTerraform, Installing, Commands
<1>3. ASSUME NEW d \in Dirs,
             UninstallDocker(d) \/ UninstallCargo(d) \/ UninstallPnpm(d) \/ UninstallTerraform(d)
      PROVE  IInv'
  BY <1>3, StartIInv
     DEF UninstallDocker, UninstallCargo, UninstallPnpm, UninstallTerraform, Uninstalling, Commands
<1>4. ASSUME NEW d \in Dirs, NEW server \in Hosts, Configure(d, server) PROVE IInv'
  BY <1>4, StartIInv DEF Configure, Commands
<1>5. CASE Check
  <2>1. pc' \in Steps /\ last' \in Results /\ halfway' \in BOOLEAN
    BY <1>5, FinishType DEF Check, TypeOK, Steps
  <2>2. TypeOK'
    BY <1>5, <2>1 DEF Check, config, TypeOK
  <2>3. Located' /\ Kept'
    BY <1>5 DEF Check, Finish, config, Located, Kept, InPlace, Merged
  <2>4. Launched'
    BY <1>5 DEF Check, Finish, config, Launched, Points, Configuring
  <2>. QED BY <2>2, <2>3, <2>4
<1>6. CASE WriteLauncher
  <2>1. TypeOK' /\ Located' /\ Kept'
    BY <1>6 DEF WriteLauncher, config, ghosts, TypeOK, Steps, Commands, Located, Kept,
                InPlace, Merged
  <2>2. Launched'
    BY <1>6 DEF WriteLauncher, config, ghosts, Launched, Points, Configuring
  <2>. QED BY <2>1, <2>2
<1>7. CASE RemoveLauncher
  <2>1. TypeOK' /\ Located' /\ Kept'
    <3>1. pc' \in Steps /\ last' \in Results /\ halfway' \in BOOLEAN
      BY <1>7, FinishType DEF RemoveLauncher, TypeOK, Steps
    <3>2. TypeOK'
      BY <1>7, <3>1 DEF RemoveLauncher, config, TypeOK, Commands
    <3>. QED BY <1>7, <3>2 DEF RemoveLauncher, Finish, config, Located, Kept, InPlace, Merged
  <2>2. Launched'
    BY <1>7, ParsedFiles, EmptyUnmarked
       DEF RemoveLauncher, Finish, config, Launched, Points, Configuring
  <2>. QED BY <2>1, <2>2
<1>8. CASE ReadRc
  <2>1. Changed(file) \in Entries /\ Parsed(file) \in Entries
    BY ChangedType, ParsedType DEF TypeOK
  <2>2. TypeOK'
    <3>1. pc' \in Steps /\ last' \in Results /\ halfway' \in BOOLEAN
      BY <1>8, FinishType, ConfiguredType DEF ReadRc, TypeOK, Steps
    <3>. QED BY <1>8, <2>1, <3>1, TextTypes DEF ReadRc, TypeOK
  <2>3. Located' /\ Kept'
    BY <1>8 DEF ReadRc, Configured, Finish, Located, Kept, InPlace, Merged
  <2>4. Parsed(file') = Parsed(file)
    BY <1>8, ParsedFiles DEF ReadRc, Parsed
  <2>5. cmd.op = "uninstall" /\ (file = Absent \/ Changed(file) = Parsed(file)) =>
            \A s \in Slots : ~Marked(Parsed(file), s)
    BY ParsedFiles, EmptyUnmarked, StrippedUnmarked DEF TypeOK
  <2>6. Launched'
    BY <1>8, <2>4, <2>5 DEF ReadRc, Configured, Finish, Launched, Points, Configuring
  <2>. QED BY <2>2, <2>3, <2>6
<1>9. CASE ReadMerging
  <2>1. TypeOK' /\ Located' /\ Kept'
    <3>1. pc' \in Steps /\ last' \in Results /\ halfway' \in BOOLEAN
      BY <1>9, ConfiguredType DEF ReadMerging, TypeOK, Steps
    <3>2. TypeOK'
      BY <1>9, <3>1 DEF ReadMerging, config, TypeOK
    <3>. QED
      BY <1>9, <3>2 DEF ReadMerging, Configured, Finish, config, Located, Kept, InPlace, Merged
  <2>2. cmd.op = "uninstall" /\ Changed(file) = file /\ file \in Entries =>
            \A s \in Slots : ~Marked(Parsed(file), s)
    <3>1. \A s \in Slots : file = Absent \/ file = Unreadable => ~Marked(Parsed(file), s)
      BY EmptyUnmarked DEF Parsed
    <3>. QED BY <3>1, StrippedUnmarked DEF TypeOK, Parsed
  <2>3. Launched'
    <3>1. kind # "pnpm" /\ pc = "read" /\ UNCHANGED <<kind, file, cmd, launchers>>
      BY <1>9 DEF ReadMerging, config, Merged
    <3>2. CASE cmd.op = "install"
      <4>1. Points(Parsed(file))'
        BY <1>9, <3>1, <3>2 DEF Launched, Points, Configuring, ReadMerging, Merged
      <4>. QED BY <1>9, <3>1, <3>2, <4>1
             DEF ReadMerging, Configured, Finish, Launched, Configuring, Merged
    <3>3. CASE cmd.op = "uninstall" /\ file \in Entries /\ Changed(file) = file
      <4>1. Points(Parsed(file))'
        BY <2>2, <3>1, <3>3 DEF Points
      <4>2. pc' = "idle" \/ (halfway' = halfway /\ pc' \in {"replace", "backup"})
        BY <1>9, <3>1 DEF ReadMerging, Configured, Finish
      <4>3. kind # "mcp" /\ cmd.op # "install" /\ halfway
        BY <1>9, <3>1, <3>3 DEF ReadMerging, Launched, Configuring, Merged
      <4>. QED BY <3>1, <3>3, <4>1, <4>2, <4>3 DEF Launched, Configuring
    <3>4. CASE cmd.op = "uninstall" /\ ~(file \in Entries /\ Changed(file) = file)
      <4>1. halfway' = halfway /\ halfway
        BY <1>9, <3>1, <3>4 DEF ReadMerging, Launched, Configuring, Merged
      <4>. QED BY <1>9, <3>1, <3>4, <4>1 DEF ReadMerging, Launched, Configuring, Merged
    <3>5. cmd.op \in {"install", "uninstall"}
      BY <1>9, <3>1 DEF Launched, ReadMerging, Merged
    <3>. QED BY <3>2, <3>3, <3>4, <3>5
  <2>. QED BY <2>1, <2>3
<1>10. CASE Backup
  <2>1. TypeOK' /\ Located' /\ Kept'
    BY <1>10 DEF Backup, ghosts, TypeOK, Steps, Located, Kept, InPlace, Merged
  <2>2. Launched'
    BY <1>10 DEF Backup, ghosts, Launched, Points, Configuring
  <2>. QED BY <2>1, <2>2
<1>11. CASE Replace
  <2>1. Changed(text) \in Entries
    BY ChangedType DEF TypeOK
  <2>2. TypeOK'
    <3>1. pc' \in Steps /\ last' \in Results /\ halfway' \in BOOLEAN
      BY <1>11, ConfiguredType DEF Replace
    <3>. QED BY <1>11, <2>1, <3>1, TextTypes DEF Replace, TypeOK
  <2>3. Located' /\ Kept'
    BY <1>11 DEF Replace, Configured, Finish, Located, Kept, InPlace, Merged
  <2>4. kind # "mcp" => Points(Parsed(Changed(text)))
    BY <1>11, ChangedPoints, ParsedPoints
       DEF Replace, TypeOK, Located, InPlace, Launched, Configuring
  <2>5. Launched'
    BY <1>11, <2>4 DEF Replace, Configured, Finish, Launched, Points, Located, InPlace,
                       Configuring
  <2>. QED BY <2>2, <2>3, <2>5
<1>12. CASE Truncate
  <2>1. Empty \in Entries
    BY DEF Empty, Entries
  <2>2. TypeOK' /\ Located' /\ Kept'
    BY <1>12, <2>1 DEF Truncate, ghosts, TypeOK, Texts, Steps, Located, Kept, InPlace, Merged
  <2>3. \A s \in Slots : ~Marked(Parsed(Empty), s)
    BY EmptyUnmarked DEF Parsed
  <2>4. kind = "pnpm" => Points(Parsed(text))
    BY <1>12 DEF Truncate, Launched
  <2>5. Launched'
    BY <1>12, <2>3, <2>4 DEF Truncate, ghosts, Launched, Points, Configuring
  <2>. QED BY <2>2, <2>5
<1>13. CASE Write
  <2>1. Changed(text) \in Entries
    BY ChangedType DEF TypeOK
  <2>2. TypeOK'
    <3>1. pc' \in Steps /\ last' \in Results /\ halfway' \in BOOLEAN
      BY <1>13, ConfiguredType DEF Write
    <3>. QED BY <1>13, <2>1, <3>1, TextTypes DEF Write, TypeOK
  <2>3. Located' /\ Kept'
    BY <1>13 DEF Write, Configured, Finish, Located, Kept, InPlace, Merged
  <2>4. Points(Parsed(Changed(text)))
    BY <1>13, ChangedPoints, ParsedPoints
       DEF Write, TypeOK, Located, InPlace, Launched, Configuring
  <2>5. cmd.op = "uninstall" => \A s \in Slots : ~Marked(Parsed(Changed(text)), s)
    BY StrippedUnmarked, EmptyUnmarked DEF Parsed, TypeOK
  <2>6. Launched'
    BY <1>13, <2>4, <2>5 DEF Write, Configured, Finish, Launched, Points, Located, InPlace,
                       Configuring
  <2>. QED BY <2>2, <2>3, <2>6
<1>14. CASE ReadForClient
  <2>1. pc' \in Steps /\ last' \in Results /\ halfway' \in BOOLEAN
    BY <1>14, FinishType DEF ReadForClient, TypeOK, Steps
  <2>2. TypeOK'
    BY <1>14, <2>1 DEF ReadForClient, config, TypeOK
  <2>. QED BY <1>14, <2>2 DEF ReadForClient, Finish, config, Located, Kept, InPlace, Merged, Launched
<1>15. CASE CompareTime
  <2>1. pc' \in Steps /\ last' \in Results /\ halfway' \in BOOLEAN
    BY <1>15, FinishType DEF CompareTime, TypeOK, Steps
  <2>2. tries' \in 0 .. 3
    BY <1>15 DEF CompareTime, Finish, TypeOK, Located
  <2>3. TypeOK'
    BY <1>15, <2>1, <2>2 DEF CompareTime, config, TypeOK
  <2>. QED BY <1>15, <2>3 DEF CompareTime, Finish, config, Located, Kept, InPlace, Merged, Launched
<1>16. CASE Stop
  <2>1. TypeOK' /\ Located' /\ Kept'
    BY <1>16 DEF Stop, config, TypeOK, Steps, Located, Kept, InPlace, Merged
  <2>2. Launched'
    BY <1>16 DEF Stop, config, Launched, Points, Configuring
  <2>. QED BY <2>1, <2>2
<1>17. ASSUME NEW s \in Slots, NEW v \in {None} \cup SUBSET Owners, Edit(s, v) PROVE IInv'
  <2>1. v \in {None} \cup SUBSET Owners /\ v \cap Marks = {}
    BY <1>17, FilesAssumption DEF Edit, Values, None, Marks, Owners
  <2> DEFINE f == [Parsed(file) EXCEPT ![s] = v]
  <2>2. Parsed(file) \in Entries /\ f \in Entries
    BY <2>1, ParsedType DEF TypeOK, Entries
  <2>3. TypeOK'
    <3>1. file' \in Texts /\ others' \in Entries /\ last' \in Results /\ origin' \in Texts
      BY <1>17, <2>1, <2>2, TextTypes DEF Edit, Edited, TypeOK, Entries
    <3>2. edits' \in 0 .. MaxEdits[kind']
      BY <1>17, FilesAssumption DEF Edit, Edited, TypeOK
    <3>3. taken' \subseteq Hosts /\ fresh' \in BOOLEAN /\ raced' \in BOOLEAN
      BY <1>17 DEF Edit, Edited, TypeOK
    <3>. QED BY <1>17, <3>1, <3>2, <3>3 DEF Edit, Edited, TypeOK
  <2>4. Located' /\ Kept'
    BY <1>17 DEF Edit, Edited, Located, Kept, InPlace, Merged
  <2>5. Points(Parsed(file)) => Points(f)
    BY <2>1, <2>2 DEF Points, Marked, Entries
  <2>6. Points(Parsed(file)) => Points(Parsed(f))
    BY <2>5, ParsedPoints
  <2>7. file' = f
    BY <1>17 DEF Edit, Edited
  <2> HIDE DEF f
  <2>8. Launched'
    BY <1>17, <2>6, <2>7 DEF Edit, Edited, Launched, Points, Configuring
  <2>. QED BY <2>3, <2>4, <2>8
<1>18. CASE Spoil
  <2>1. Unreadable \in Texts /\ Empty \in Entries
    BY DEF Texts, Empty, Entries
  <2>2. TypeOK' /\ Located' /\ Kept'
    <3>1. edits' \in 0 .. MaxEdits[kind']
      BY <1>18, FilesAssumption DEF Spoil, Edited, TypeOK
    <3>2. fresh' \in BOOLEAN /\ raced' \in BOOLEAN
      BY <1>18 DEF Spoil, Edited, TypeOK
    <3>3. TypeOK'
      BY <1>18, <2>1, <3>1, <3>2, TextTypes DEF Spoil, Edited, TypeOK
    <3>. QED BY <1>18, <3>3 DEF Spoil, Edited, Located, Kept, InPlace, Merged
  <2>3. \A s \in Slots : ~Marked(Parsed(Unreadable), s)
    BY EmptyUnmarked DEF Parsed
  <2>4. Launched'
    BY <1>18, <2>3 DEF Spoil, Edited, Launched, Points, Configuring
  <2>. QED BY <2>2, <2>4
<1>19. CASE UNCHANGED vars
  <2>. USE <1>19 DEF vars
  <2>1. TypeOK'
    BY DEF TypeOK
  <2>2. Located' /\ Kept'
    BY DEF Located, Kept, InPlace, Merged
  <2>3. Launched'
    BY DEF Launched, Points, Configuring
  <2>. QED BY <2>1, <2>2, <2>3
<1>. QED
  BY <1>1, <1>2, <1>3, <1>4, <1>5, <1>6, <1>7, <1>8, <1>9, <1>10, <1>11, <1>12, <1>13,
     <1>14, <1>15, <1>16, <1>17, <1>18, <1>19 DEF Next

\* Every variable keeps its type.
THEOREM TypeCorrect == Spec => []TypeOK
BY InitIInv, StepIInv, PTL DEF Spec, IInv

\* However a command on Docker's or Cargo's file ends, the text before it is in
\* the file or in its backup.
THEOREM TextIsAtHand == Spec => []OldTextAtHand
<1>1. IInv => OldTextAtHand
  BY DEF IInv, Kept, OldTextAtHand
<1>. QED BY <1>1, InitIInv, StepIInv, PTL DEF Spec

\* No entry points at a launcher that is not there, but for an uninstall of
\* Docker's, Cargo's or Terraform's helper that stopped half-way.
THEOREM NothingDangles == Spec => []NoDangling
<1>1. IInv => NoDangling
  BY DEF IInv, Launched, NoDangling
<1>. QED BY <1>1, InitIInv, StepIInv, PTL DEF Spec
-----------------------------------------------------------------------------
(* What a command that reports success has done.                            *)

\* What is known of the command that is running.
Running ==
    pc # "idle" =>
        /\ ~last.ok
        /\ kind = "mcp" => cmd.op = "configure"
        /\ kind = "terraform" => cmd.hosts = {}
        /\ pc \in Configuring /\ cmd.op = "uninstall" /\ kind # "pnpm" =>
              cmd.dir \notin launchers

PromiseInv == Running /\ FinishedIsDone

LEMMA EntriesReadable ==
    \A f \in Entries : f \notin {Absent, Unreadable} /\ Parsed(f) = f
<1> SUFFICES ASSUME NEW f \in Entries PROVE f \notin {Absent, Unreadable}
  BY DEF Parsed
<1>1. f[List] \in {None} \cup SUBSET Owners /\ List \in Slots
  BY DEF Entries, Slots
<1>2. "absent" \notin Owners /\ "unreadable" \notin Owners
  BY FilesAssumption DEF Owners, Marks
<1>3. Absent[List] = {"absent"} /\ Unreadable[List] = {"unreadable"}
  BY <1>1 DEF Absent, Unreadable
<1>4. {"absent"} # None /\ {"unreadable"} # None
  BY DEF None
<1> QED BY <1>1, <1>2, <1>3, <1>4

\* An install writes what it is for, but for the hosts that pnpm has a token for.
LEMMA AddedIsThere ==
    ASSUME TypeOK, cmd.op # "uninstall", NEW f \in Texts,
           \A s \in cmd.hosts : ~Token(Parsed(f), s),
           kind = "terraform" => cmd.hosts = {}
    PROVE  /\ \A s \in cmd.hosts :
                 Changed(f)[s] = {Mark} \/ (kind = "cargo" /\ Changed(f)[s] = None)
           /\ kind \in {"cargo", "terraform"} => Mark \in Changed(f)[List]
<1> DEFINE g == Parsed(f)
<1>1. g \in Entries /\ cmd.hosts \subseteq Hosts /\ kind \in Kinds
  BY ParsedType DEF TypeOK, Commands
<1>2. Changed(f) = Added(g) /\ List \in Slots /\ List \notin cmd.hosts /\ cmd.hosts \subseteq Slots
  BY <1>1, FilesAssumption DEF Changed, Slots
<1> HIDE DEF g
<1>3. CASE kind = "docker"
  BY <1>2, <1>3 DEF Added, DockerAdded, Set
<1>4. CASE kind = "cargo"
  <2>1. Added(g) = CargoAdded(g)
    BY <1>4 DEF Added
  <2>2. CargoAdded(g)[List] = Providers(g) \cup {Mark}
    BY <1>2 DEF CargoAdded, Set
  <2>3. \A s \in cmd.hosts : CargoAdded(g)[s] = IF g[s] # None THEN {Mark} ELSE g[s]
    BY <1>2 DEF CargoAdded, Set
  <2> QED BY <1>2, <1>4, <2>1, <2>2, <2>3
<1>5. CASE kind = "pnpm"
  BY <1>2, <1>5 DEF g, Added, PnpmAdded, Set
<1>6. CASE kind = "terraform"
  BY <1>2, <1>6 DEF Added, TerraformAdded, Set
<1>7. CASE kind = "mcp"
  BY <1>2, <1>7 DEF Added, ClientAdded, Set
<1> QED BY <1>1, <1>3, <1>4, <1>5, <1>6, <1>7, FilesAssumption

\* The command has come to the end of the configuration: what it is for is there.
LEMMA ConfiguredIsDone ==
    ASSUME TypeOK, PromiseInv, Launched, pc \in Configuring, Configured,
           text' \in Texts, Parsed(file') = Changed(text'),
           cmd.op # "uninstall" => file' = Changed(text'),
           UNCHANGED <<kind, cmd, launchers>>
    PROVE  PromiseInv'
<1>0. Running /\ pc # "idle" /\ kind \in Kinds
  BY DEF PromiseInv, Configuring, TypeOK
<1>1. CASE kind = "pnpm" /\ cmd.op = "uninstall"
  BY <1>0, <1>1 DEF Configured, PromiseInv, Running, FinishedIsDone, Configuring
<1>2. CASE cmd.op = "uninstall" /\ kind # "pnpm"
  <2>1. pc' = "idle" /\ last'.op = "uninstall" /\ cmd.dir \notin launchers
    BY <1>0, <1>2 DEF Configured, Finish, Running
  <2>2. \A s \in Slots : ~Marked(Changed(text'), s)
    BY <1>2, StrippedUnmarked
  <2>3. \A s \in Slots : ~Marked(Parsed(file'), s)
    BY <2>2
  <2> QED BY <2>1, <2>2, <2>3 DEF PromiseInv, Running, FinishedIsDone, Marked, Parsed
<1>3. CASE cmd.op # "uninstall"
  <2>1. pc' = "idle" /\ last'.op = cmd.op
    BY <1>3 DEF Configured, Finish
  <2>2. last'.ok => \A s \in cmd.hosts : ~Token(Parsed(text'), s)
    BY <1>3 DEF Configured, Finish
  <2>3. kind = "mcp" \/ cmd.dir \in launchers
    BY <1>0, <1>3 DEF Launched
  <2>4. last'.ok => /\ \A s \in cmd.hosts : file'[s] = {Mark} \/ (kind = "cargo" /\ file'[s] = None)
                    /\ kind \in {"cargo", "terraform"} => Mark \in file'[List]
    BY <1>0, <1>3, <2>2, AddedIsThere DEF Running
  <2>5. Mark' = Mark
    BY DEF Mark
  <2> QED BY <1>3, <2>1, <2>3, <2>4, <2>5 DEF PromiseInv, Running, FinishedIsDone
<1> QED BY <1>1, <1>2, <1>3

\* A step on the way of the command promises nothing yet.
LEMMA OnTheWay ==
    ASSUME PromiseInv, UNCHANGED <<kind, cmd, last>>, pc # "idle", Running'
    PROVE  PromiseInv'
BY DEF PromiseInv, Running, FinishedIsDone

\* A command that fails promises nothing.
LEMMA FailedStep ==
    ASSUME Finish(FALSE) PROVE PromiseInv'
BY DEF Finish, PromiseInv, Running, FinishedIsDone

LEMMA StartPromise ==
    ASSUME PromiseInv, NEW c \in Commands, NEW step \in Steps \ Configuring, Start(c, step),
           kind = "mcp" => c.op = "configure", kind = "terraform" => c.hosts = {}
    PROVE  PromiseInv'
BY DEF Start, PromiseInv, Running, FinishedIsDone, NoResult

\* ... and pnpm's uninstall and the MCP commands, which begin with reading.
LEMMA StartReading ==
    ASSUME PromiseInv, NEW c \in Commands, Start(c, "read"),
           kind = "mcp" => c.op = "configure", kind \in {"pnpm", "mcp"}
    PROVE  PromiseInv'
BY DEF Start, PromiseInv, Running, FinishedIsDone, NoResult

LEMMA PromiseNext ==
    ASSUME IInv, PromiseInv, [Next]_vars
    PROVE  PromiseInv'
<1>0. TypeOK /\ Located /\ Launched /\ Running /\ kind \in Kinds
  BY DEF IInv, PromiseInv, TypeOK
<1>1. ASSUME NEW d \in Dirs, NEW named \in SUBSET Hosts, NEW found \in SUBSET Hosts,
             \/ InstallDocker(d, AllHosts(named, found))
             \/ InstallCargo(d, AllHosts(named, found))
             \/ InstallPnpm(d, AllHosts(named, found))
      PROVE  PromiseInv'
  <2>1. Installing(d, AllHosts(named, found)) \in Commands
    BY FilesAssumption DEF AllHosts, Installing, Commands
  <2>2. "launcher" \in Steps \ Configuring
    BY DEF Steps, Configuring
  <2>. QED BY <1>1, <2>1, <2>2, StartPromise DEF InstallDocker, InstallCargo, InstallPnpm
<1>2. ASSUME NEW d \in Dirs, InstallTerraform(d) PROVE PromiseInv'
  <2>1. Installing(d, {}) \in Commands /\ Installing(d, {}).hosts = {}
    BY DEF Installing, Commands
  <2>2. "check" \in Steps \ Configuring
    BY DEF Steps, Configuring
  <2>. QED BY <1>2, <2>1, <2>2, StartPromise DEF InstallTerraform
<1>3. ASSUME NEW d \in Dirs,
             UninstallDocker(d) \/ UninstallCargo(d) \/ UninstallPnpm(d) \/ UninstallTerraform(d)
      PROVE  PromiseInv'
  <2>1. Uninstalling(d) \in Commands /\ Uninstalling(d).hosts = {}
    BY DEF Uninstalling, Commands
  <2>2. "launcher" \in Steps \ Configuring
    BY DEF Steps, Configuring
  <2>. QED BY <1>3, <2>1, <2>2, StartPromise, StartReading
         DEF UninstallDocker, UninstallCargo, UninstallPnpm, UninstallTerraform
<1>4. ASSUME NEW d \in Dirs, NEW server \in Hosts, Configure(d, server) PROVE PromiseInv'
  <2> DEFINE c == [op |-> "configure", dir |-> d, hosts |-> {server}]
  <2>1. c \in Commands /\ c.op = "configure"
    BY DEF Commands
  <2>. QED BY <1>4, <2>1, StartReading DEF Configure
<1>5. CASE Check
  <2>1. CASE Finish(FALSE)
    BY <2>1, FailedStep
  <2>2. CASE pc' = "launcher" /\ UNCHANGED <<last, halfway>>
    BY <1>0, <1>5, <2>2, OnTheWay DEF Check, config, Running, Configuring
  <2>. QED BY <1>5, <2>1, <2>2 DEF Check
<1>6. CASE WriteLauncher
  <2>1. cmd.op = "install" /\ pc # "idle" /\ UNCHANGED <<kind, cmd, last>>
    BY <1>6 DEF WriteLauncher
  <2>2. Running'
    BY <1>0, <2>1 DEF Running
  <2>. QED BY <2>1, <2>2, OnTheWay
<1>7. CASE RemoveLauncher
  <2>1. CASE kind = "pnpm" \/ file = Absent
    <3>1. \A s \in Slots : ~Marked(Parsed(file), s)
      BY <1>0, <1>7, <2>1, ParsedFiles, EmptyUnmarked DEF RemoveLauncher, Launched, Running
    <3>2. UNCHANGED <<kind, file, cmd>> /\ cmd.dir \notin launchers' /\ cmd.op = "uninstall"
      BY <1>7 DEF RemoveLauncher, config
    <3>3. pc' = "idle" /\ last'.op = "uninstall"
      <4>1. Finish(TRUE)
        BY <1>7, <2>1, Zenon DEF RemoveLauncher
      <4>. QED BY <3>2, <4>1 DEF Finish
    <3>4. \A s \in Slots : ~Marked(Parsed(file'), s)
      BY <3>1, <3>2
    <3>. QED BY <3>2, <3>3, <3>4 DEF PromiseInv, Running, FinishedIsDone
  <2>2. CASE ~(kind = "pnpm" \/ file = Absent)
    BY <1>0, <1>7, <2>2, OnTheWay DEF RemoveLauncher, Running
  <2>. QED BY <2>1, <2>2
<1>8. CASE ReadRc
  <2>0. pc = "read" /\ text' = file /\ file \in Texts /\ UNCHANGED <<kind, cmd, launchers>>
    BY <1>0, <1>8 DEF ReadRc, TypeOK
  <2>1. CASE kind = "pnpm" /\ cmd.op = "uninstall" /\ file = Absent
    <3>1. pc' = "idle" /\ last'.op = "uninstall" /\ file' = file
      BY <1>8, <2>1 DEF ReadRc, Finish
    <3>2. \A s \in Slots : ~Marked(Parsed(file'), s)
      BY <2>1, <3>1, ParsedFiles, EmptyUnmarked
    <3>. QED BY <2>0, <2>1, <3>1, <3>2 DEF PromiseInv, Running, FinishedIsDone
  <2>2. CASE Changed(file) = Parsed(file) /\ Configured
    <3>1. Parsed(file') = Changed(text')
      BY <1>8, <2>0, <2>2, ParsedFiles, ParsedType, EntriesReadable DEF ReadRc
    <3>2. CASE kind = "terraform" /\ cmd.op # "uninstall"
      <4>1. Parsed(file)[List] = {Mark} /\ Empty[List] = None /\ {Mark} # None
        <5>1. Mark = "cloudsmith" /\ List \in Slots
          BY <3>2 DEF Mark, Slots
        <5>2. Parsed(file) = TerraformAdded(Parsed(file))
          BY <2>2, <3>2 DEF Changed, Added
        <5>3. TerraformAdded(Parsed(file))[List] = {Mark}
          BY <5>1 DEF TerraformAdded, Set
        <5>. QED BY <5>1, <5>2, <5>3 DEF Empty, None
      <4>. QED BY <1>0, <1>8, <2>0, <2>2, <3>1, <3>2, <4>1, ConfiguredIsDone
             DEF ReadRc, Parsed, Configuring
    <3>3. CASE kind = "pnpm" \/ cmd.op = "uninstall"
      <4>1. cmd.op # "uninstall" => cmd.op = "install" /\ file' = Changed(text')
        BY <1>0, <1>8, <2>0, <2>2, <3>3 DEF ReadRc, Launched
      <4>2. pc \in Configuring
        BY <2>0 DEF Configuring
      <4>. QED BY <1>0, <2>0, <2>2, <3>1, <4>1, <4>2, ConfiguredIsDone
    <3>. QED BY <1>8, <3>2, <3>3 DEF ReadRc, InPlace
  <2>3. CASE pc' = "truncate" /\ UNCHANGED <<last, halfway>>
    BY <1>0, <2>0, <2>3, OnTheWay DEF Running, Configuring
  <2>. QED BY <1>8, <2>1, <2>2, <2>3 DEF ReadRc
<1>9. CASE ReadMerging
  <2>0. pc = "read" /\ text' = file /\ file' = file /\ file \in Texts /\ UNCHANGED <<kind, cmd, launchers>>
    BY <1>0, <1>9 DEF ReadMerging, TypeOK, config
  <2>1. CASE file \in Entries /\ Changed(file) = file /\ Configured
    <3>1. Parsed(file') = Changed(text') /\ file' = Changed(text') /\ pc \in Configuring
      BY <2>0, <2>1, EntriesReadable DEF Configuring
    <3>. QED BY <1>0, <2>0, <2>1, <3>1, ConfiguredIsDone
  <2>2. CASE pc' \in {"replace", "backup"} /\ UNCHANGED <<last, halfway>>
    BY <1>0, <2>0, <2>2, OnTheWay DEF Running, Configuring
  <2>. QED BY <1>9, <2>1, <2>2 DEF ReadMerging
<1>10. CASE Backup
  BY <1>0, <1>10, OnTheWay DEF Backup, Running, Configuring
<1>11. CASE Replace \/ Write
  <2>1. text' \in Texts /\ text' = text /\ UNCHANGED <<kind, cmd, launchers>> /\ pc \in Configuring
    BY <1>0, <1>11 DEF Replace, Write, TypeOK, Configuring
  <2>2. file' = Changed(text') /\ Configured
    BY <1>11, <2>1 DEF Replace, Write
  <2>3. Parsed(file') = file'
    BY <1>0, <2>1, <2>2, ChangedType, EntriesReadable DEF TypeOK
  <2>. QED BY <1>0, <2>1, <2>2, <2>3, ConfiguredIsDone
<1>12. CASE Truncate
  BY <1>0, <1>12, OnTheWay DEF Truncate, Running, Configuring
<1>13. CASE ReadForClient
  <2>1. CASE Finish(FALSE)
    BY <2>1, FailedStep
  <2>2. CASE pc' \in {"replace", "check"} /\ UNCHANGED <<last, halfway>>
    BY <1>0, <1>13, <2>2, OnTheWay DEF ReadForClient, Running, Configuring
  <2>. QED BY <1>13, <2>1, <2>2 DEF ReadForClient
<1>14. CASE CompareTime
  <2>1. CASE Finish(FALSE)
    BY <2>1, FailedStep
  <2>2. CASE pc' \in {"replace", "read"} /\ UNCHANGED <<last, halfway>>
    BY <1>0, <1>14, <2>2, OnTheWay DEF CompareTime, Running, Configuring
  <2>. QED BY <1>14, <2>1, <2>2 DEF CompareTime
<1>15. CASE Stop
  BY <1>0, <1>15, OnTheWay DEF Stop, Running
<1>16. ASSUME NEW f, Edited(f) PROVE PromiseInv'
  <2>1. ~last'.ok /\ UNCHANGED <<kind, pc, cmd, launchers>>
    BY <1>16 DEF Edited, NoResult
  <2>. QED BY <1>0, <2>1 DEF PromiseInv, Running, FinishedIsDone
<1>17. CASE UNCHANGED vars
  <2>. USE <1>17 DEF vars
  <2>1. Running'
    BY <1>0 DEF Running
  <2>2. FinishedIsDone'
    BY DEF PromiseInv, FinishedIsDone, Marked, Mark, Parsed
  <2>. QED BY <2>1, <2>2 DEF PromiseInv
<1>. QED
  BY <1>1, <1>2, <1>3, <1>4, <1>5, <1>6, <1>7, <1>8, <1>9, <1>10, <1>11, <1>12, <1>13,
     <1>14, <1>15, <1>16, <1>17 DEF Next, Edit, Spoil

\* A command that reports success has done what it is for, whatever stopped before
\* it and whatever the other programs wrote: for any hosts, directories and numbers
\* of commands and edits.
THEOREM SuccessIsDone == Spec => []FinishedIsDone
<1>1. Init => PromiseInv
  BY DEF Init, PromiseInv, Running, FinishedIsDone, NoResult
<1>2. IInv /\ PromiseInv /\ [Next]_vars => PromiseInv'
  BY PromiseNext
<1>3. PromiseInv => FinishedIsDone
  BY DEF PromiseInv
<1>. QED BY <1>1, <1>2, <1>3, InitIInv, StepIInv, PTL DEF Spec

-----------------------------------------------------------------------------
(* What the others have in the file.                                        *)

\* The entries of the others that no command was told to take over.
Theirs(s) == others[s] \notin {None, {}} /\ (s \in taken => others[s] = {"token"})

Holds(f) == \A s \in Slots : Theirs(s) => f \in Entries /\ Effective(s, f[s]) = others[s]

\* Only Cargo's list mixes Cloudsmith's entry with those of others.
Pure(f) == \A s \in Slots :
    Marked(f, s) /\ ~(kind = "cargo" /\ s = List) => f[s] \subseteq Marks

\* The text the command will write from is that of the file: nobody writes between
\* the two but an MCP client, which the time of modification tells of.
TextInUse ==
    pc \in {"backup", "replace", "truncate", "write"} \/ (pc = "check" /\ fresh)

KeepInv ==
    /\ \A s \in Slots : others[s] \in Values(s)
    /\ pc # "idle" => cmd.hosts \subseteq taken
    /\ Pure(file) /\ Pure(text)
    /\ kind = "terraform" /\ cmd.op = "install" =>
          /\ pc \in {"launcher", "read"} => ~Conflict(Parsed(file))
          /\ pc \in {"truncate", "write"} => ~Conflict(Parsed(text))
    /\ ~cut /\ ~raced =>
          /\ pc # "write" => Holds(file)
          /\ TextInUse => Holds(text)

\* Hosts are taken from tokens only, and the others never write Cloudsmith's marks.
LEMMA OthersValues ==
    ASSUME kind \in Kinds, NEW s \in Slots, NEW v \in Values(s)
    PROVE  /\ v \cap Marks = {}
           /\ v = {"token"} => kind = "pnpm" \/ (kind = "cargo" /\ s = List)
           /\ kind = "terraform" /\ s = List /\ v # None => v = {"theirs"}
           /\ v \notin {None, {}} => Effective(s, v) = v
<1>1. v \cap Marks = {}
  BY FilesAssumption DEF Values, None, Marks
<1>2. v = {"token"} => kind = "pnpm" \/ (kind = "cargo" /\ s = List)
  BY FilesAssumption DEF Values, None
<1>3. kind = "terraform" /\ s = List /\ v # None => v = {"theirs"}
  BY DEF Values
<1>4. v \notin {None, {}} => Effective(s, v) = v
  BY <1>1 DEF Effective
<1> QED BY <1>1, <1>2, <1>3, <1>4

\* An entry of Cloudsmith's alone is none of the others'.
LEMMA PureIsOurs ==
    ASSUME NEW f \in Entries, Pure(f), NEW s \in Slots, Marked(f, s),
           ~(kind = "cargo" /\ s = List)
    PROVE  Effective(s, f[s]) = {}
BY DEF Pure, Effective

LEMMA ListIsLeft ==
    ASSUME kind = "cargo", NEW f \in Entries, Marked(f, List), f[List] \ Marks # {}
    PROVE  Effective(List, CargoStripped(f)[List]) = f[List] \ Marks
<1> DEFINE left == f[List] \ Marks
<1>1. List \in Slots /\ f[List] \in {None} \cup SUBSET Owners
  BY DEF Entries, Slots
<1>2. None \cap Marks = {} /\ "unset" \notin Owners
  BY FilesAssumption DEF None, Marks, Owners
<1>3. f[List] # None /\ left # None
  BY <1>1, <1>2 DEF Marked, None
<1>4. CargoStripped(f)[List] = IF left \in {{}, {"token"}} THEN None ELSE left
  BY <1>1 DEF CargoStripped, Without
<1>5. CASE left = {"token"}
  <2>1. Effective(List, None) = {"token"}
    BY DEF Effective
  <2> QED BY <1>4, <1>5, <2>1
<1>6. CASE left # {"token"}
  <2>1. CargoStripped(f)[List] = left
    BY <1>4, <1>6
  <2>2. Effective(List, left) = left \ Marks
    BY <1>3 DEF Effective
  <2> QED BY <2>1, <2>2
<1> QED BY <1>5, <1>6

LEMMA StrippedKeeps ==
    ASSUME kind \in Kinds, NEW f \in Entries, Pure(f), NEW s \in Slots,
           Effective(s, f[s]) # {}
    PROVE  Effective(s, Stripped(f)[s]) = Effective(s, f[s])
<1>1. CASE ~Marked(f, s)
  <2>1. \A rest : Without(f, s, rest) = f[s]
    BY <1>1 DEF Without
  <2>2. EntriesStripped(f)[s] = f[s] /\ PnpmStripped(f)[s] = f[s] /\ CargoStripped(f)[s] = f[s]
    BY <2>1 DEF EntriesStripped, PnpmStripped, CargoStripped
  <2> QED BY <2>2 DEF Stripped
<1>2. CASE Marked(f, s)
  <2>1. kind = "cargo" /\ s = List
    BY <1>2, PureIsOurs
  <2>2. Effective(s, f[s]) = f[s] \ Marks
    <3>1. f[s] # None
      BY <1>2, FilesAssumption DEF Marked, None, Marks
    <3> QED BY <3>1 DEF Effective
  <2> QED BY <1>2, <2>1, <2>2, ListIsLeft DEF Stripped
<1> QED BY <1>1, <1>2

LEMMA ProviderJoins ==
    ASSUME kind = "cargo", cmd \in Commands, NEW f \in Entries
    PROVE  Effective(List, CargoAdded(f)[List]) = Effective(List, f[List])
<1>1. Mark \in Marks /\ "token" \notin Marks /\ "unset" \notin Marks
  BY FilesAssumption DEF Mark, Marks
<1>2. CargoAdded(f)[List] = Providers(f) \cup {Mark}
  BY DEF CargoAdded, Set, Slots
<1>3. CargoAdded(f)[List] # None
  BY <1>1, <1>2 DEF None
<1>4. Effective(List, CargoAdded(f)[List]) = Providers(f) \ Marks
  BY <1>1, <1>2, <1>3 DEF Effective
<1>5. Effective(List, f[List]) = IF f[List] = None THEN {"token"} ELSE f[List] \ Marks
  BY DEF Effective
<1>6. {"token"} \ Marks = {"token"}
  BY <1>1
<1> QED BY <1>4, <1>5, <1>6 DEF Providers

LEMMA AddedKeeps ==
    ASSUME kind \in Kinds, cmd \in Commands, NEW f \in Entries, Pure(f),
           NEW s \in Slots, Theirs(s), others[s] \in Values(s), cmd.hosts \subseteq taken,
           kind = "terraform" => ~Conflict(f), Effective(s, f[s]) = others[s]
    PROVE  Effective(s, Added(f)[s]) = others[s]
<1>1. s \in cmd.hosts => others[s] = {"token"} /\ (kind = "pnpm" \/ (kind = "cargo" /\ s = List))
  BY OthersValues DEF Theirs
<1>2. List \notin cmd.hosts /\ others[s] # {}
  BY FilesAssumption DEF Commands, Theirs
<1>3. CASE kind = "docker" \/ kind = "mcp"
  <2>1. s \notin cmd.hosts
    BY <1>1, <1>3
  <2>2. Added(f)[s] = f[s]
    BY <1>3, <2>1 DEF Added, DockerAdded, ClientAdded, Set
  <2> QED BY <2>2
<1>4. CASE kind = "cargo"
  <2>1. CASE s = List
    BY <1>4, <2>1, ProviderJoins DEF Added
  <2>2. CASE s # List
    <3>1. s \notin cmd.hosts
      BY <1>1, <1>4, <2>2
    <3>2. CargoAdded(f)[s] = f[s]
      BY <2>2, <3>1 DEF CargoAdded, Set
    <3> QED BY <1>4, <3>2 DEF Added
  <2> QED BY <2>1, <2>2
<1>5. CASE kind = "pnpm"
  <2>1. s \in cmd.hosts => Token(f, s)
    <3> SUFFICES ASSUME s \in cmd.hosts PROVE Token(f, s)
      OBVIOUS
    <3>1. ~Marked(f, s)
      BY <1>2, <1>5, PureIsOurs
    <3>2. f[s] # None
      BY <1>2, <1>5 DEF Effective
    <3>3. f[s] = others[s]
      BY <3>1, <3>2 DEF Effective, Marked
    <3> QED BY <1>1, <1>5, <3>3 DEF Token
  <2>2. Added(f)[s] = f[s]
    BY <1>5, <2>1 DEF Added, PnpmAdded, Set
  <2> QED BY <2>2
<1>6. CASE kind = "terraform"
  <2>1. s # List
    <3> SUFFICES ASSUME s = List PROVE FALSE
      OBVIOUS
    <3>1. f[List] = None \/ Marked(f, List)
      BY <1>6 DEF Conflict
    <3>2. Effective(s, f[s]) = {}
      BY <1>6, <3>1, PureIsOurs DEF Effective
    <3> QED BY <1>2, <3>2
  <2>2. Added(f)[s] = f[s]
    BY <1>6, <2>1 DEF Added, TerraformAdded, Set
  <2> QED BY <2>2
<1> QED BY <1>3, <1>4, <1>5, <1>6, FilesAssumption

\* No command touches what the others have in a file it has read whole.
LEMMA ChangedKeeps ==
    ASSUME TypeOK, NEW f \in Texts, Pure(f), Holds(f),
           \A s \in Slots : others[s] \in Values(s), cmd.hosts \subseteq taken,
           kind = "terraform" /\ cmd.op # "uninstall" => ~Conflict(Parsed(f))
    PROVE  Holds(Changed(f))
<1>1. Changed(f) \in Entries /\ kind \in Kinds /\ cmd \in Commands
  BY ChangedType DEF TypeOK
<1> SUFFICES ASSUME NEW s \in Slots, Theirs(s)
             PROVE  Effective(s, Changed(f)[s]) = others[s]
  BY <1>1 DEF Holds
<1>2. f \in Entries /\ Effective(s, f[s]) = others[s] /\ Parsed(f) = f /\ others[s] # {}
  BY EntriesReadable DEF Holds, Theirs
<1> QED BY <1>1, <1>2, StrippedKeeps, AddedKeeps DEF Changed

LEMMA ChangedPure ==
    ASSUME TypeOK, NEW f \in Texts, Pure(f)
    PROVE  Pure(Changed(f))
<1> DEFINE g == Parsed(f)
<1>1. g \in Entries /\ kind \in Kinds /\ cmd \in Commands /\ Mark \in Marks
  BY ParsedType, MarkType DEF TypeOK
<1>2. Pure(g)
  BY EmptyUnmarked DEF Pure, Parsed
<1> HIDE DEF g
<1> SUFFICES ASSUME NEW s \in Slots, Marked(Changed(f), s), ~(kind = "cargo" /\ s = List)
             PROVE  Changed(f)[s] \subseteq Marks
  BY DEF Pure
<1>3. cmd.op # "uninstall" /\ Changed(f) = Added(g)
  BY StrippedUnmarked DEF Changed, g
<1>4. Added(g)[s] \in {g[s], {Mark}}
  BY <1>1, FilesAssumption DEF Added, DockerAdded, CargoAdded, PnpmAdded, TerraformAdded, ClientAdded, Set
<1> QED BY <1>1, <1>2, <1>3, <1>4 DEF Pure, Marked

\* A step that neither writes the file nor reads it, nor changes what is theirs.
LEMMA QuietStep ==
    ASSUME IInv, KeepInv, UNCHANGED <<kind, file, text, others, taken, cmd>>,
           pc' # "write", pc # "idle", ~cut' /\ ~raced' => ~cut /\ ~raced,
           ~cut' => pc # "write",
           ~cut' /\ ~raced' /\ TextInUse' => TextInUse,
           kind = "terraform" /\ cmd.op = "install" /\ pc' \in {"launcher", "read"} =>
                pc \in {"launcher", "read"} \/ ~Conflict(Parsed(file)),
           pc' = "truncate" => pc = "truncate"
    PROVE  KeepInv'
<1>1. \A s \in Slots : others'[s] \in Values(s)'
  BY DEF KeepInv, Values
<1>2. Pure(file)' /\ Pure(text)'
  BY DEF KeepInv, Pure, Marked
<1>3. Holds(file) => Holds(file)'
  BY DEF Holds, Theirs, Effective
<1>4. Holds(text) => Holds(text)'
  BY DEF Holds, Theirs, Effective
<1>5. ~Conflict(Parsed(file)) => ~Conflict(Parsed(file))'
  BY DEF Conflict, Marked, Parsed
<1>6. ~Conflict(Parsed(text)) => ~Conflict(Parsed(text))'
  BY DEF Conflict, Marked, Parsed
<1> QED BY <1>1, <1>2, <1>3, <1>4, <1>5, <1>6 DEF KeepInv

\* A command begins: a host that it takes is theirs no more, but for a token.
LEMMA StartKeeps ==
    ASSUME IInv, KeepInv, NEW c \in Commands, NEW step \in {"launcher", "read", "check"},
           Start(c, step),
           kind = "terraform" => c.op = "uninstall" \/ step = "check"
    PROVE  KeepInv'
<1>1. /\ UNCHANGED <<kind, file, others, cut, raced>> /\ cmd' = c /\ pc' = step /\ text' = Absent
      /\ taken' = taken \cup c.hosts /\ fresh' = FALSE /\ pc = "idle"
  BY DEF Start, config
<1>2. \A s \in Slots : others'[s] \in Values(s)'
  BY <1>1 DEF KeepInv, Values
<1>3. \A s \in Slots : Absent[s] \cap Marks = {}
  BY FilesAssumption DEF Absent, Marks
<1>4. Pure(file)' /\ Pure(text)'
  BY <1>1, <1>3 DEF KeepInv, Pure, Marked
<1>5. Holds(file) => Holds(file)'
  BY <1>1 DEF Holds, Theirs, Effective
<1>6. ~TextInUse'
  BY <1>1 DEF TextInUse
<1> QED BY <1>1, <1>2, <1>4, <1>5, <1>6 DEF KeepInv

\* The command reads the file, and leaves it or creates it empty.
LEMMA ReadKeeps ==
    ASSUME IInv, KeepInv, pc = "read", text' = file,
           UNCHANGED <<kind, others, taken, cmd, cut, raced>>,
           file' = file \/ (file \notin Entries /\ file' = Parsed(file)),
           kind = "terraform" => file' = file,
           pc' \in {"idle", "launcher", "replace", "backup", "truncate", "check"},
           pc' = "launcher" => cmd.op = "uninstall"
    PROVE  KeepInv'
<1>1. \A s \in Slots : others'[s] \in Values(s)'
  BY DEF KeepInv, Values
<1>2. Pure(file)' /\ Pure(text)'
  <2>1. \A s \in Slots : Empty[s] \cap Marks = {}
    BY EmptyUnmarked DEF Marked
  <2>2. Pure(text)'
    BY DEF KeepInv, Pure, Marked
  <2>3. CASE file' = file
    BY <2>3 DEF KeepInv, Pure, Marked
  <2>4. CASE file \notin Entries /\ file' = Parsed(file)
    <3>1. file' = Empty
      BY <2>4 DEF IInv, TypeOK, Texts, Parsed
    <3> QED BY <2>1, <2>2, <3>1 DEF Pure, Marked
  <2> QED BY <2>2, <2>3, <2>4
<1>3. Holds(file) => Holds(file)'
  BY DEF Holds, Theirs, Effective
<1>4. Holds(file) => Holds(text)'
  BY DEF Holds, Theirs, Effective
<1>5. kind = "terraform" /\ ~Conflict(Parsed(file)) => ~Conflict(Parsed(text))' /\ ~Conflict(Parsed(file))'
  BY DEF Conflict, Marked, Parsed
<1> QED BY <1>1, <1>2, <1>3, <1>4, <1>5 DEF KeepInv

\* The command writes what it has made of the text.
LEMMA WriteKeeps ==
    ASSUME IInv, KeepInv, pc \in {"replace", "write"}, file' = Changed(text),
           UNCHANGED <<kind, others, taken, cmd, cut, raced, text>>,
           pc' = "idle" \/ (pc' = "launcher" /\ cmd.op = "uninstall")
    PROVE  KeepInv'
<1>0. TypeOK /\ text \in Texts /\ Changed(text) \in Entries
  BY ChangedType DEF IInv, TypeOK
<1>1. \A s \in Slots : others'[s] \in Values(s)'
  BY DEF KeepInv, Values
<1>2. Pure(Changed(text)) /\ Pure(text)
  BY <1>0, ChangedPure DEF KeepInv
<1>3. Pure(file)' /\ Pure(text)'
  BY <1>2 DEF Pure, Marked
<1>4. ~cut /\ ~raced => Holds(Changed(text))
  <2> SUFFICES ASSUME ~cut, ~raced PROVE Holds(Changed(text))
    OBVIOUS
  <2>1. Holds(text) /\ cmd.hosts \subseteq taken
    BY DEF KeepInv, TextInUse
  <2>2. kind = "terraform" /\ cmd.op # "uninstall" => ~Conflict(Parsed(text))
    BY DEF KeepInv, IInv, Launched, Located, InPlace
  <2> QED BY <1>0, <1>2, <2>1, <2>2, ChangedKeeps DEF KeepInv
<1>5. Holds(Changed(text)) => Holds(file)'
  BY DEF Holds, Theirs, Effective
<1>6. ~TextInUse'
  BY DEF TextInUse
<1> QED BY <1>1, <1>3, <1>4, <1>5, <1>6 DEF KeepInv

\* Someone else writes an entry, in the file as it is.
LEMMA EditKeeps ==
    ASSUME IInv, KeepInv, NEW s \in Slots, NEW v \in {None} \cup SUBSET Owners, Edit(s, v)
    PROVE  KeepInv'
<1> DEFINE f == [Parsed(file) EXCEPT ![s] = v]
<1>0. /\ file' = f /\ others' = [others EXCEPT ![s] = v] /\ v \in Values(s)
      /\ UNCHANGED <<kind, text, cmd, cut, pc>> /\ fresh' = FALSE
      /\ raced' = (raced \/ (kind = "mcp" /\ pc = "replace"))
      /\ taken' = taken \ ({s} \ (IF pc = "idle" THEN {} ELSE cmd.hosts))
      /\ pc = "idle" \/ kind = "mcp"
  BY DEF Edit, Edited
<1>1. kind \in Kinds /\ Parsed(file) \in Entries /\ f \in Entries /\ others \in Entries
  BY ParsedType DEF IInv, TypeOK, Entries
<1>2. f[s] = v /\ \A t \in Slots : t # s => f[t] = Parsed(file)[t]
  BY <1>1 DEF Entries
<1> HIDE DEF f
<1>3. \A t \in Slots : others'[t] \in Values(t)'
  BY <1>0, <1>1 DEF KeepInv, Values, Entries
<1>4. v \cap Marks = {} /\ (v \notin {None, {}} => Effective(s, v) = v)
  BY <1>0, <1>1, OthersValues
<1>5. Pure(file)' /\ Pure(text)'
  <2>1. Pure(Parsed(file))
    BY EmptyUnmarked DEF KeepInv, Pure, Parsed
  <2>2. Pure(f)
    BY <1>2, <1>4, <2>1 DEF Pure, Marked
  <2> QED BY <1>0, <2>2 DEF KeepInv, Pure, Marked
<1>6. pc' # "idle" => cmd'.hosts \subseteq taken'
  BY <1>0 DEF KeepInv
<1>7. ~TextInUse' \/ raced'
  BY <1>0 DEF TextInUse, IInv, Located, InPlace, Merged
<1>8. pc # "write"
  BY <1>0 DEF IInv, Located, InPlace
<1>9. Holds(file) => Holds(file)'
  <2> SUFFICES ASSUME Holds(file), NEW t \in Slots, Theirs(t)'
               PROVE  file' \in Entries /\ Effective(t, f[t]) = others'[t]
    BY <1>0 DEF Holds, Theirs, Effective
  <2>1. CASE t = s
    <3>1. others'[t] = v /\ v \notin {None, {}}
      BY <1>0, <1>1, <2>1 DEF Theirs, Entries
    <3> QED BY <1>0, <1>1, <1>2, <1>4, <2>1, <3>1
  <2>2. CASE t # s
    <3>1. others'[t] = others[t] /\ Theirs(t)
      BY <1>0, <1>1, <2>2 DEF Theirs, Entries
    <3>2. file \in Entries /\ Effective(t, file[t]) = others[t]
      BY <3>1 DEF Holds
    <3>3. f[t] = file[t]
      BY <1>2, <2>2, <3>2, EntriesReadable
    <3> QED BY <1>0, <1>1, <3>1, <3>2, <3>3
  <2> QED BY <2>1, <2>2
<1>10. ~raced' => ~raced
  BY <1>0
<1>11. kind = "terraform" => pc' = "idle"
  BY <1>0
<1> QED BY <1>0, <1>3, <1>5, <1>6, <1>7, <1>8, <1>9, <1>10, <1>11 DEF KeepInv

LEMMA KeepNext ==
    ASSUME IInv, KeepInv, [Next]_vars
    PROVE  KeepInv'
<1>0. TypeOK /\ Located /\ Launched
  BY DEF IInv
<1>1. ASSUME NEW d \in Dirs, NEW named \in SUBSET Hosts, NEW found \in SUBSET Hosts,
             \/ InstallDocker(d, AllHosts(named, found))
             \/ InstallCargo(d, AllHosts(named, found))
             \/ InstallPnpm(d, AllHosts(named, found))
      PROVE  KeepInv'
  <2>1. Installing(d, AllHosts(named, found)) \in Commands
    BY FilesAssumption DEF AllHosts, Installing, Commands
  <2>. QED BY <1>1, <2>1, StartKeeps DEF InstallDocker, InstallCargo, InstallPnpm
<1>2. ASSUME NEW d \in Dirs, InstallTerraform(d) PROVE KeepInv'
  <2>1. Installing(d, {}) \in Commands
    BY DEF Installing, Commands
  <2>. QED BY <1>2, <2>1, StartKeeps DEF InstallTerraform
<1>3. ASSUME NEW d \in Dirs,
             UninstallDocker(d) \/ UninstallCargo(d) \/ UninstallPnpm(d) \/ UninstallTerraform(d)
      PROVE  KeepInv'
  <2>1. Uninstalling(d) \in Commands /\ Uninstalling(d).op = "uninstall"
    BY DEF Uninstalling, Commands
  <2>. QED BY <1>3, <2>1, StartKeeps
         DEF UninstallDocker, UninstallCargo, UninstallPnpm, UninstallTerraform
<1>4. ASSUME NEW d \in Dirs, NEW server \in Hosts, Configure(d, server) PROVE KeepInv'
  <2> DEFINE c == [op |-> "configure", dir |-> d, hosts |-> {server}]
  <2>1. c \in Commands
    BY DEF Commands
  <2>. QED BY <1>4, <2>1, StartKeeps DEF Configure
<1>5. CASE Check
  <2>1. pc' = "idle" \/ (pc' = "launcher" /\ ~Conflict(Parsed(file)))
    BY <1>5 DEF Check, Finish
  <2>2. UNCHANGED <<kind, file, text, others, taken, cmd, cut, raced>> /\ pc = "check"
    BY <1>5 DEF Check, config
  <2>. QED BY <2>1, <2>2, QuietStep DEF TextInUse
<1>6. CASE WriteLauncher
  <2>1. UNCHANGED <<kind, file, text, others, taken, cmd, cut, raced>> /\ pc = "launcher" /\ pc' = "read"
    BY <1>6 DEF WriteLauncher, config, ghosts
  <2>. QED BY <2>1, QuietStep DEF TextInUse
<1>7. CASE RemoveLauncher
  <2>1. /\ UNCHANGED <<kind, file, text, others, taken, cmd, cut, raced>> /\ pc = "launcher"
        /\ pc' \in {"idle", "read"}
    BY <1>7 DEF RemoveLauncher, config, Finish
  <2>. QED BY <2>1, QuietStep DEF TextInUse
<1>8. CASE ReadRc
  <2>1. pc = "read" /\ text' = file /\ UNCHANGED <<kind, others, taken, cmd, cut, raced>>
    BY <1>8 DEF ReadRc
  <2>2. file' = file \/ (kind = "pnpm" /\ file \notin Entries /\ file' = Parsed(file))
    BY <1>8, EntriesReadable DEF ReadRc
  <2>3. pc' \in {"idle", "truncate"} \/ (pc' = "launcher" /\ cmd.op = "uninstall")
    BY <1>8 DEF ReadRc, Configured, Finish
  <2>. QED BY <2>1, <2>2, <2>3, ReadKeeps
<1>9. CASE ReadMerging
  <2>1. /\ pc = "read" /\ text' = file /\ file' = file
        /\ UNCHANGED <<kind, others, taken, cmd, cut, raced>>
    BY <1>9 DEF ReadMerging, config
  <2>2. pc' \in {"idle", "replace", "backup"} \/ (pc' = "launcher" /\ cmd.op = "uninstall")
    BY <1>9 DEF ReadMerging, Configured, Finish
  <2>. QED BY <2>1, <2>2, ReadKeeps
<1>10. CASE Backup
  <2>1. /\ UNCHANGED <<kind, file, text, others, taken, cmd, cut, raced>>
        /\ pc = "backup" /\ pc' = "replace"
    BY <1>10 DEF Backup, ghosts
  <2>. QED BY <2>1, QuietStep DEF TextInUse
<1>11. CASE Replace \/ Write
  <2>1. /\ pc \in {"replace", "write"} /\ file' = Changed(text)
        /\ UNCHANGED <<kind, others, taken, cmd, cut, raced, text>>
    BY <1>11 DEF Replace, Write
  <2>2. pc' = "idle" \/ (pc' = "launcher" /\ cmd.op = "uninstall")
    BY <1>11 DEF Replace, Write, Configured, Finish
  <2>. QED BY <2>1, <2>2, WriteKeeps
<1>12. CASE Truncate
  <2>1. /\ UNCHANGED <<kind, text, others, taken, cmd, cut, raced>>
        /\ pc = "truncate" /\ pc' = "write" /\ file' = Empty
    BY <1>12 DEF Truncate, ghosts
  <2>2. \A s \in Slots : others'[s] \in Values(s)'
    BY <2>1 DEF KeepInv, Values
  <2>3. Pure(file)' /\ Pure(text)'
    BY <2>1, EmptyUnmarked DEF KeepInv, Pure, Marked
  <2>4. Holds(text) => Holds(text)'
    BY <2>1 DEF Holds, Theirs, Effective
  <2>5. ~Conflict(Parsed(text)) => ~Conflict(Parsed(text))'
    BY <2>1 DEF Conflict, Marked, Parsed
  <2>. QED BY <2>1, <2>2, <2>3, <2>4, <2>5 DEF KeepInv, TextInUse
<1>13. CASE ReadForClient
  <2>1. /\ pc = "read" /\ text' = file /\ file' = file /\ kind = "mcp"
        /\ UNCHANGED <<kind, others, taken, cmd, cut, raced>>
    BY <1>13 DEF ReadForClient, config
  <2>2. pc' \in {"idle", "replace", "check"}
    BY <1>13 DEF ReadForClient, Finish
  <2>. QED BY <2>1, <2>2, ReadKeeps
<1>14. CASE CompareTime
  <2>1. /\ UNCHANGED <<kind, file, text, others, taken, cmd, cut, raced, fresh>>
        /\ pc = "check" /\ kind = "mcp"
    BY <1>14 DEF CompareTime, config
  <2>2. pc' \in {"idle", "read"} \/ (pc' = "replace" /\ fresh)
    BY <1>14 DEF CompareTime, Finish
  <2>. QED BY <2>1, <2>2, QuietStep DEF TextInUse
<1>15. CASE Stop
  <2>1. /\ UNCHANGED <<kind, file, text, others, taken, cmd, raced>>
        /\ pc # "idle" /\ pc' = "idle" /\ cut' = (cut \/ pc = "write")
    BY <1>15 DEF Stop, config
  <2>. QED BY <2>1, QuietStep DEF TextInUse
<1>16. ASSUME NEW s \in Slots, NEW v \in {None} \cup SUBSET Owners, Edit(s, v) PROVE KeepInv'
  BY <1>16, EditKeeps
<1>17. CASE Spoil
  <2>1. /\ file' = Unreadable /\ others' = Empty
        /\ UNCHANGED <<kind, text, cmd, cut, pc, taken>> /\ fresh' = FALSE
        /\ raced' = (raced \/ (kind = "mcp" /\ pc = "replace"))
        /\ pc = "idle" \/ kind = "mcp"
    BY <1>17 DEF Spoil, Edited
  <2>2. \A s \in Slots : others'[s] \in Values(s)'
    BY <1>0, <2>1, FilesAssumption DEF Values, Empty, TypeOK
  <2>3. \A s \in Slots : Unreadable[s] \cap Marks = {}
    BY FilesAssumption DEF Unreadable, Marks
  <2>4. Pure(file)' /\ Pure(text)'
    BY <2>1, <2>3 DEF KeepInv, Pure, Marked
  <2>5. Holds(file)'
    BY <2>1 DEF Holds, Theirs, Empty
  <2>6. ~TextInUse' \/ raced'
    BY <1>0, <2>1 DEF TextInUse, Located, InPlace, Merged
  <2>. QED BY <2>1, <2>2, <2>4, <2>5, <2>6 DEF KeepInv
<1>18. CASE UNCHANGED vars
  <2>. USE <1>18 DEF vars
  <2>1. \A s \in Slots : others'[s] \in Values(s)'
    BY DEF KeepInv, Values
  <2>2. Pure(file)' /\ Pure(text)'
    BY DEF KeepInv, Pure, Marked
  <2>3. Holds(file) => Holds(file)'
    BY DEF Holds, Theirs, Effective
  <2>4. Holds(text) => Holds(text)'
    BY DEF Holds, Theirs, Effective
  <2>5. ~Conflict(Parsed(text)) => ~Conflict(Parsed(text))'
    BY DEF Conflict, Marked, Parsed
  <2>6. ~Conflict(Parsed(file)) => ~Conflict(Parsed(file))'
    BY DEF Conflict, Marked, Parsed
  <2>7. TextInUse' => TextInUse
    BY DEF TextInUse
  <2>. QED BY <2>1, <2>2, <2>3, <2>4, <2>5, <2>6, <2>7 DEF KeepInv
<1>. QED
  BY <1>1, <1>2, <1>3, <1>4, <1>5, <1>6, <1>7, <1>8, <1>9, <1>10, <1>11, <1>12, <1>13,
     <1>14, <1>15, <1>16, <1>17, <1>18 DEF Next

\* What the users and the other programs have in the file stays through any
\* installs, uninstalls, refused and stopped commands, for any hosts, directories
\* and launchers; excepted are the two cases that OthersStay names.
THEOREM OthersAreKept == Spec => []OthersStay
<1>1. Init => KeepInv
  <2> SUFFICES ASSUME Init PROVE KeepInv
    OBVIOUS
  <2>1. kind \in Kinds /\ others = Empty /\ file = Absent /\ text = Absent /\ pc = "idle"
    BY DEF Init
  <2>2. \A s \in Slots : others[s] \in Values(s)
    BY <2>1, FilesAssumption DEF Values, Empty
  <2>3. \A s \in Slots : Absent[s] \cap Marks = {}
    BY FilesAssumption DEF Absent, Marks
  <2>4. Pure(Absent)
    BY <2>3 DEF Pure, Marked
  <2>5. Holds(Absent)
    BY <2>1 DEF Holds, Theirs, Empty
  <2>. QED BY <2>1, <2>2, <2>4, <2>5 DEF KeepInv, TextInUse
<1>2. IInv /\ KeepInv /\ [Next]_vars => KeepInv'
  BY KeepNext
<1>3. KeepInv => OthersStay
  BY DEF KeepInv, OthersStay, Holds, Theirs
<1>. QED BY <1>1, <1>2, <1>3, InitIInv, StepIInv, PTL DEF Spec

=============================================================================
