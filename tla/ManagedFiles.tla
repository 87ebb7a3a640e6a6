---------------------------- MODULE ManagedFiles -----------------------------
(***************************************************************************)
(* The files of other programs that the CLI edits:                          *)
(*   credential-helper install | uninstall docker | cargo | pnpm | terraform *)
(*   mcp configure                                                          *)
(* from cli/commands/credential_helper/manage.py, credential_helpers/*,     *)
(* core/cache_utils.py and cli/commands/mcp.py.                             *)
(*                                                                         *)
(* The helpers share no file, so a behaviour is about one of them (kind).   *)
(* A file is its entries: for a host of the package manager, or a server    *)
(* of the MCP client, who answers for it; and one entry that is not about a *)
(* host, Cargo's list of providers or Terraform's block.  A command stops   *)
(* at any of its steps, killed or with an OSError.  A dry run changes       *)
(* nothing and is left out.                                                 *)
(***************************************************************************)
EXTENDS Naturals, FiniteSets

CONSTANTS
    Kinds,        \* the programs whose files are edited
    Hosts,        \* hosts with entries, or names of MCP servers
    Default,      \* DEFAULT_HOST
    Dirs,         \* values of --bin-dir, the default included
    MaxCommands, MaxEdits           \* bounds

List  == "list"           \* global-credential-providers, credentials_helper
Slots == Hosts \cup {List}

\* An entry names Cloudsmith's launcher: pnpm's with its path.
Marks  == {"cloudsmith"} \cup Dirs
Owners == {"token", "theirs"} \cup Marks

None    == {"unset"}      \* no entry
Entries == [Slots -> {None} \cup SUBSET Owners]
Empty   == [s \in Slots |-> None]

\* No file, and one that does not parse.
Absent     == [s \in Slots |-> {"absent"}]
Unreadable == [s \in Slots |-> {"unreadable"}]
Texts      == Entries \cup {Absent, Unreadable}

ASSUME FilesAssumption ==
    /\ Kinds \subseteq {"docker", "cargo", "pnpm", "terraform", "mcp"}
    /\ Default \in Hosts /\ List \notin Hosts
    /\ Dirs # {} /\ Dirs \cap {"token", "theirs", "cloudsmith"} = {}
    /\ Dirs \cap {"unset", "absent", "unreadable"} = {}
    /\ MaxCommands \in Nat /\ MaxEdits \in [Kinds -> Nat]

VARIABLES
    kind,
    file, bak,    \* the file and the copy that merge_config_file makes
    launchers,    \* the directories with the launcher
    pc, cmd,      \* the step and the command that is running
    text,         \* the file as the command has read it
    fresh,        \* MCP: its modification time is what it was when read
    tries,        \* MCP: attempts made
    last,         \* the last command to come to its end
    others,       \* what the other programs have in the file
    taken,        \* hosts given to Cloudsmith by a command
    origin,       \* the file before the last command, until the next edit
    cut,          \* a rewriting in place has stopped half-way
    halfway,      \* an uninstall has removed the launcher and not the entries
    raced,        \* MCP: an edit after the modification time was compared
    commands, edits

vars == <<kind, file, bak, launchers, pc, cmd, text, fresh, tries, last, others,
          taken, origin, cut, halfway, raced, commands, edits>>

config == <<file, bak>>
ghosts == <<others, taken, origin, cut, halfway, raced>>

Commands == [op : {"install", "uninstall", "configure"}, dir : Dirs, hosts : SUBSET Hosts]
Results  == [op : {"none", "install", "uninstall", "configure"}, ok : BOOLEAN]
NoResult == [op |-> "none", ok |-> FALSE]
Steps    == {"idle", "check", "launcher", "read", "backup", "replace", "truncate", "write"}

TypeOK ==
    /\ kind \in Kinds
    /\ file \in Texts /\ bak \in Texts /\ text \in Texts
    /\ launchers \subseteq Dirs
    /\ pc \in Steps
    /\ cmd \in Commands
    /\ fresh \in BOOLEAN /\ tries \in 0 .. 3
    /\ last \in Results
    /\ others \in Entries
    /\ taken \subseteq Hosts
    /\ origin \in Texts
    /\ cut \in BOOLEAN /\ halfway \in BOOLEAN /\ raced \in BOOLEAN
    /\ commands \in 0 .. MaxCommands /\ edits \in 0 .. MaxEdits[kind]

InPlace == kind \in {"pnpm", "terraform"}
Merged  == kind \in {"docker", "cargo"}

-----------------------------------------------------------------------------
(* What the mutate functions and NPMRC make of the entries.                 *)

Mark == IF kind = "pnpm" THEN cmd.dir ELSE "cloudsmith"

Marked(f, s) == f[s] \cap Marks # {}

Set(f, hosts) == [s \in Slots |-> IF s \in hosts THEN {Mark} ELSE f[s]]

\* credHelpers of other hosts are kept.
DockerAdded(f) == Set(f, cmd.hosts)

ProvidersReplaced(f) == {"token"}

\* The provider joins the list, and is pinned on the hosts' registries that the
\* file has.
Providers(f) == IF f[List] = None THEN {"token"} ELSE f[List]

CargoAdded(f) == [Set(f, {s \in cmd.hosts : f[s] # None}) EXCEPT
                    ![List] = Providers(f) \cup {Mark}]

\* A host that pnpm has a token for keeps it.
Token(f, s) == kind = "pnpm" /\ f[s] = {"token"}

PnpmAdded(f) == Set(f, {s \in cmd.hosts : ~Token(f, s)})

Conflict(f) == kind = "terraform" /\ f[List] # None /\ ~Marked(f, List)

TerraformAdded(f) == Set(f, {List})

ClientAdded(f) == Set(f, cmd.hosts)

Added(f) ==
    CASE kind = "docker"    -> DockerAdded(f)
      [] kind = "cargo"     -> CargoAdded(f)
      [] kind = "pnpm"      -> PnpmAdded(f)
      [] kind = "terraform" -> TerraformAdded(f)
      [] kind = "mcp"       -> ClientAdded(f)

Without(f, s, rest) == IF Marked(f, s) THEN rest ELSE f[s]

\* Docker's and Terraform's entries are Cloudsmith's whatever the directory.
EntriesStripped(f) == [s \in Slots |-> Without(f, s, None)]

\* The list is deleted when it holds no more than Cargo's default.
CargoStripped(f) ==
    LET left == f[List] \ Marks IN
    [s \in Slots |->
        Without(f, s, IF s # List THEN {}
                      ELSE IF left \in {{}, {"token"}} THEN None ELSE left)]

PnpmStrippedOfDirectory(f) ==
    [s \in Slots |-> IF Mark \in f[s] THEN None ELSE f[s]]

\* pnpm's are found by the name of the launcher, in any directory.
PnpmStripped(f) == [s \in Slots |-> Without(f, s, None)]

Stripped(f) ==
    CASE kind = "cargo" -> CargoStripped(f)
      [] kind = "pnpm"  -> PnpmStripped(f)
      [] OTHER          -> EntriesStripped(f)

\* merge_config_file starts from nothing when the file does not parse.
Parsed(f) == IF f \in {Absent, Unreadable} THEN Empty ELSE f

Changed(f) == IF cmd.op = "uninstall" THEN Stripped(Parsed(f)) ELSE Added(Parsed(f))

Effective(s, v) == IF v # None THEN v \ Marks
                   ELSE IF kind = "cargo" /\ s = List THEN {"token"} ELSE {}

-----------------------------------------------------------------------------
Init ==
    /\ kind \in Kinds
    /\ file = Absent /\ bak = Absent /\ launchers = {}
    /\ pc = "idle" /\ cmd \in [op : {"install"}, dir : Dirs, hosts : {{}}]
    /\ text = Absent /\ fresh = FALSE /\ tries = 0
    /\ last = NoResult
    /\ others = Empty /\ taken = {} /\ origin = Absent
    /\ cut = FALSE /\ halfway = FALSE /\ raced = FALSE
    /\ commands = 0 /\ edits = 0

Start(c, step) ==
    /\ pc = "idle" /\ commands < MaxCommands
    /\ commands' = commands + 1
    /\ cmd' = c /\ pc' = step
    /\ last' = NoResult
    /\ text' = Absent /\ fresh' = FALSE /\ tries' = 0
    /\ origin' = file
    /\ taken' = taken \cup c.hosts
    /\ UNCHANGED <<kind, config, launchers, others, cut, halfway, raced, edits>>

\* The domains that the options name and those that discovery finds, in the
\* cache or at the API; it finds none when it fails, or is switched off.
AllHosts(named, found) == named \cup found \cup (IF found = {} THEN {Default} ELSE {})

Installing(d, hosts)  == [op |-> "install", dir |-> d, hosts |-> hosts]
Uninstalling(d)       == [op |-> "uninstall", dir |-> d, hosts |-> {}]

InstallDocker(d, hosts) == kind = "docker" /\ Start(Installing(d, hosts), "launcher")
InstallCargo(d, hosts)  == kind = "cargo" /\ Start(Installing(d, hosts), "launcher")
InstallPnpm(d, hosts)   == kind = "pnpm" /\ Start(Installing(d, hosts), "launcher")
InstallTerraform(d)     == kind = "terraform" /\ Start(Installing(d, {}), "check")

UninstallDocker(d)    == kind = "docker" /\ Start(Uninstalling(d), "launcher")
UninstallCargo(d)     == kind = "cargo" /\ Start(Uninstalling(d), "launcher")
UninstallTerraform(d) == kind = "terraform" /\ Start(Uninstalling(d), "launcher")

UninstallPnpmLauncherFirst(d) == kind = "pnpm" /\ Start(Uninstalling(d), "launcher")

UninstallPnpm(d)      == kind = "pnpm" /\ Start(Uninstalling(d), "read")

Configure(d, server) ==
    /\ kind = "mcp"
    /\ Start([op |-> "configure", dir |-> d, hosts |-> {server}], "read")

Finish(ok) ==
    /\ pc' = "idle"
    /\ last' = [op |-> cmd.op, ok |-> ok]
    /\ halfway' = IF ok THEN FALSE ELSE halfway

\* A block of another helper ends the command before it writes anything.
Check ==
    /\ pc = "check" /\ kind = "terraform"
    /\ IF Conflict(Parsed(file))
       THEN Finish(FALSE)
       ELSE pc' = "launcher" /\ UNCHANGED <<last, halfway>>
    /\ UNCHANGED <<kind, config, launchers, cmd, text, fresh, tries, others, taken,
                   origin, cut, raced, commands, edits>>

WriteLauncher ==
    /\ pc = "launcher" /\ cmd.op = "install"
    /\ launchers' = launchers \cup {cmd.dir}
    /\ pc' = "read"
    /\ UNCHANGED <<kind, config, cmd, text, fresh, tries, last, ghosts, commands, edits>>

\* pnpm's launcher is the last to go, that of the others the first.
RemoveLauncher ==
    /\ pc = "launcher" /\ cmd.op = "uninstall"
    /\ launchers' = launchers \ {cmd.dir}
    /\ IF kind = "pnpm" \/ file = Absent
       THEN Finish(TRUE)
       ELSE pc' = "read" /\ halfway' = TRUE /\ UNCHANGED last
    /\ UNCHANGED <<kind, config, cmd, text, fresh, tries, others, taken, origin, cut,
                   raced, commands, edits>>

\* The configuration is done with.
Configured ==
    IF kind = "pnpm" /\ cmd.op = "uninstall"
    THEN pc' = "launcher" /\ UNCHANGED <<last, halfway>>
    ELSE Finish(\A s \in cmd.hosts : ~Token(Parsed(text'), s))

\* Without .npmrc pnpm's uninstall ends; its install creates the file.
ReadRc ==
    /\ pc = "read" /\ InPlace
    /\ text' = file
    /\ file' = IF kind = "pnpm" /\ cmd.op = "install" THEN Parsed(file) ELSE file
    /\ IF kind = "pnpm" /\ cmd.op = "uninstall" /\ file = Absent
       THEN Finish(TRUE)
       ELSE IF Changed(file) = Parsed(file)
       THEN Configured
       ELSE pc' = "truncate" /\ UNCHANGED <<last, halfway>>
    /\ UNCHANGED <<kind, bak, launchers, cmd, fresh, tries, others, taken, origin, cut,
                   raced, commands, edits>>

\* Docker writes its file in a layout of its own, which alone is a change.
ReadMerging ==
    /\ pc = "read" /\ Merged
    /\ text' = file
    /\ \/ /\ file \in Entries /\ Changed(file) = file
          /\ Configured
       \/ /\ kind = "docker" \/ file \notin Entries \/ Changed(file) # file
          /\ pc' = IF file = Absent THEN "replace" ELSE "backup"
          /\ UNCHANGED <<last, halfway>>
    /\ UNCHANGED <<kind, config, launchers, cmd, fresh, tries, others, taken, origin,
                   cut, raced, commands, edits>>

BackupOfNew ==
    /\ pc = "backup"
    /\ bak' = Changed(text) /\ pc' = "replace"
    /\ UNCHANGED <<kind, file, launchers, cmd, text, fresh, tries, last, ghosts,
                   commands, edits>>

Backup ==
    /\ pc = "backup"
    /\ bak' = text /\ pc' = "replace"
    /\ UNCHANGED <<kind, file, launchers, cmd, text, fresh, tries, last, ghosts,
                   commands, edits>>

Replace ==
    /\ pc = "replace"
    /\ file' = Changed(text)
    /\ UNCHANGED text
    /\ Configured
    /\ UNCHANGED <<kind, bak, launchers, cmd, fresh, tries, others, taken,
                   origin, cut, raced, commands, edits>>

Truncate ==
    /\ pc = "truncate"
    /\ file' = Empty /\ pc' = "write"
    /\ UNCHANGED <<kind, bak, launchers, cmd, text, fresh, tries, last, ghosts,
                   commands, edits>>

Write ==
    /\ pc = "write"
    /\ file' = Changed(text)
    /\ UNCHANGED text
    /\ Configured
    /\ UNCHANGED <<kind, bak, launchers, cmd, fresh, tries, others, taken,
                   origin, cut, raced, commands, edits>>

\* _safe_update_json: Claude Code's own file must be there, and every file that
\* is there must parse.
ReadForClient ==
    /\ pc = "read" /\ kind = "mcp"
    /\ text' = file /\ fresh' = TRUE
    /\ \/ file \in {Absent, Unreadable} /\ Finish(FALSE)
       \/ /\ file # Unreadable
          /\ pc' = (IF file = Absent THEN "replace" ELSE "check")
          /\ UNCHANGED <<last, halfway>>
    /\ UNCHANGED <<kind, config, launchers, cmd, tries, others, taken, origin, cut,
                   raced, commands, edits>>

CompareTime ==
    /\ pc = "check" /\ kind = "mcp"
    /\ IF fresh
       THEN pc' = "replace" /\ UNCHANGED <<tries, last, halfway>>
       ELSE /\ tries' = tries + 1
            /\ IF tries < 2 THEN pc' = "read" /\ UNCHANGED <<last, halfway>>
               ELSE Finish(FALSE)
    /\ UNCHANGED <<kind, config, launchers, cmd, text, fresh, others, taken, origin, cut,
                   raced, commands, edits>>

\* A kill, or a write that fails.
Stop ==
    /\ pc # "idle"
    /\ pc' = "idle"
    /\ cut' = (cut \/ pc = "write")
    /\ UNCHANGED <<kind, config, launchers, cmd, text, fresh, tries, last, others, taken,
                   origin, halfway, raced, commands, edits>>

-----------------------------------------------------------------------------
(* The users and the other programs.  merge_config_file is not safe against *)
(* writers at the same time and says so; an MCP client may write at any.    *)

Values(s) ==
    CASE kind = "cargo" /\ s = List -> {None, {}, {"token"}, {"theirs"}, {"token", "theirs"}}
      [] kind = "cargo" /\ s # List -> {None, {}, {"theirs"}}
      [] kind = "pnpm" /\ s # List  -> {None, {"token"}, {"theirs"}}
      [] kind = "terraform" /\ s = List           -> {None, {"theirs"}}
      [] kind \in {"docker", "mcp"} /\ s # List   -> {None, {"theirs"}}
      [] OTHER                      -> {None}

Edited(f) ==
    /\ edits < MaxEdits[kind]
    /\ edits' = edits + 1
    /\ pc = "idle" \/ kind = "mcp"
    /\ file' = f
    /\ fresh' = FALSE
    /\ raced' = (raced \/ (kind = "mcp" /\ pc = "replace"))
    /\ last' = NoResult
    /\ origin' = Absent
    /\ UNCHANGED <<kind, bak, launchers, pc, cmd, text, tries, cut, halfway, commands>>

Edit(s, v) ==
    /\ v \in Values(s)
    /\ Edited([Parsed(file) EXCEPT ![s] = v])
    /\ others' = [others EXCEPT ![s] = v]
    /\ taken' = taken \ ({s} \ (IF pc = "idle" THEN {} ELSE cmd.hosts))

\* An edit that leaves a JSON or TOML file that does not parse.
Spoil ==
    /\ ~InPlace
    /\ Edited(Unreadable)
    /\ others' = Empty
    /\ UNCHANGED taken

Next ==
    \/ \E d \in Dirs, named, found \in SUBSET Hosts :
          LET hosts == AllHosts(named, found) IN
          InstallDocker(d, hosts) \/ InstallCargo(d, hosts) \/ InstallPnpm(d, hosts)
    \/ \E d \in Dirs :
          \/ InstallTerraform(d)
          \/ UninstallDocker(d) \/ UninstallCargo(d) \/ UninstallPnpm(d) \/ UninstallTerraform(d)
    \/ \E d \in Dirs, server \in Hosts : Configure(d, server)
    \/ Check \/ WriteLauncher \/ RemoveLauncher
    \/ ReadRc \/ ReadMerging \/ ReadForClient
    \/ Backup \/ Replace \/ Truncate \/ Write
    \/ CompareTime
    \/ Stop
    \/ \E s \in Slots, v \in {None} \cup SUBSET Owners : Edit(s, v)
    \/ Spoil

Spec == Init /\ [][Next]_vars

-----------------------------------------------------------------------------
(* Properties.                                                              *)

\* What the users and the other programs have in the file stays, through any
\* installs, uninstalls and stops of the CLI, unless a command was told to take
\* that host over: credHelpers of other hosts, Cargo's other providers, tokens
\* in .npmrc, another helper of Terraform, the other servers of an MCP client.
\* Excepted are a rewriting in place (pnpm, Terraform) that was cut short and an
\* edit by an MCP client after its modification time was compared, and nothing
\* is said of an empty list of Cargo's providers, which is not brought back.
OthersStay ==
    \/ cut \/ raced \/ pc = "write"
    \/ \A s \in Slots :
          others[s] \notin {None, {}} /\ (s \in taken => others[s] = {"token"})
          => file \in Entries /\ Effective(s, file[s]) = others[s]

Points(f) == \A s \in Slots : Marked(f, s) =>
    IF kind = "pnpm" THEN f[s] \cap Marks \subseteq launchers ELSE launchers # {}

\* No entry points at a launcher that is not there, through stops of installs
\* and uninstalls with different directories; only an uninstall of Docker's,
\* Cargo's or Terraform's helper that stopped after it removed the launcher, and
\* that was not repeated, leaves one.
NoDangling == kind # "mcp" /\ ~halfway => Points(Parsed(file))

\* A command that reports success has done what it is for, also after others
\* stopped half-way: an install has its launcher and every host it named (those
\* pnpm has a token for make it fail), an uninstall leaves no entry of any
\* earlier install, in any directory, and no launcher in its own.  pnpm's does
\* not look for the launcher when there is no .npmrc.
FinishedIsDone ==
    last.ok =>
        IF last.op = "uninstall"
        THEN /\ \A s \in Slots : ~Marked(Parsed(file), s)
             /\ cmd.dir \in launchers => kind = "pnpm" /\ file = Absent
        ELSE /\ kind = "mcp" \/ cmd.dir \in launchers
             /\ \A s \in cmd.hosts : file[s] = {Mark} \/ (kind = "cargo" /\ file[s] = None)
             /\ kind \in {"cargo", "terraform"} => Mark \in file[List]

\* However a command on Docker's or Cargo's file ends, the text that the file
\* had before it, parsed or not, is in the file or in its .bak.
OldTextAtHand == Merged /\ origin # Absent => origin \in {file, bak}

\* What _safe_update_json says it guards against: what an MCP client writes while
\* `cloudsmith mcp configure` runs is not lost.
ClientEditsStay ==
    kind = "mcp" => \A s \in Hosts \ taken : others[s] # None => file[s] = others[s]
=============================================================================
