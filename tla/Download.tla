------------------------------ MODULE Download ------------------------------
(***************************************************************************)
(* `cloudsmith download`: the search for the packages that match, the      *)
(* choice among them, and the files it leaves on the disk.  Others publish  *)
(* and remove packages meanwhile, and a command can be run again after one  *)
(* that failed or was killed.                                               *)
(***************************************************************************)
EXTENDS Integers, Sequences, FiniteSets, SequencesExt

CONSTANTS
    Packages,    \* what can be published under the name: numbers, in listing order
    Newness,     \* package -> its place by version and then by date
    FileName,    \* package -> the name of its file
    Parts,       \* package -> the names of its downloadable files
    Folder,      \* package -> its name and version, the directory of --all-files
    WithUrl,     \* packages that have a URL of their own
    PageSize,    \* page_size
    MaxRuns,     \* bound: commands that are run
    MaxChanges,  \* bound: packages that others publish or remove
    UserOptions  \* the options that the user may pass, a subset of Options

\* Where a file goes: a directory and a name in it, or --outfile itself.
Names == {FileName[p] : p \in Packages} \cup UNION {Parts[p] : p \in Packages}
OutFile == <<"outfile", "">>
Folders == {Folder[p] : p \in Packages} \cup {"here", "outfile"}
Paths == (Folders \X Names) \cup {OutFile}

Options == [all : BOOLEAN, allFiles : BOOLEAN, outfile : BOOLEAN, overwrite : BOOLEAN,
            dryRun : BOOLEAN, yes : BOOLEAN]

ASSUME DownloadAssumption ==
    /\ IsFiniteSet(Packages) /\ Packages \subseteq Nat
    /\ Newness \in [Packages -> Nat] /\ DOMAIN FileName = Packages
    /\ DOMAIN Parts = Packages /\ \A p \in Packages : IsFiniteSet(Parts[p])
    /\ DOMAIN Folder = Packages /\ WithUrl \subseteq Packages
    /\ PageSize \in Nat \ {0} /\ MaxRuns \in Nat /\ MaxChanges \in Nat
    /\ UserOptions \subseteq Options

\* What a path holds: nothing, a file of someone else, or the bytes of a file of
\* a package, some of them or all.
Absent == <<"absent">>
Other == <<"other">>
Bytes(p, n, whole) == <<"bytes", p, n, whole>>

VARIABLES
    published, changesLeft,   \* the repository, and the bound on its changes
    disk,
    runsLeft,
    pc, opts, passes,         \* the command: location, options, its client-side filters
    page, found, picked,      \* the search: next page, packages so far, the choice
    items, results,           \* the files to fetch; one status for each that is done
    exit,                     \* the exit status of the last command, or "none"
    before,                   \* history: the disk when the command started
    offered, removed          \* history: packages published throughout the search

remote  == <<published, changesLeft>>
command == <<pc, opts, passes>>
search  == <<page, found, picked>>
fetches == <<items, results>>
seen    == <<offered, removed>>
vars    == <<remote, disk, runsLeft, command, search, fetches, exit, before, seen>>

NoOptions == [all |-> FALSE, allFiles |-> FALSE, outfile |-> FALSE, overwrite |-> FALSE,
              dryRun |-> FALSE, yes |-> FALSE]

\* Any packages are published, and one path may hold a file of someone else.
Init ==
    /\ published \in SUBSET Packages /\ changesLeft = MaxChanges
    /\ disk \in {[x \in Paths |-> Absent]} \cup
                {[x \in Paths |-> IF x = y THEN Other ELSE Absent] : y \in Paths}
    /\ runsLeft = MaxRuns
    /\ pc = "idle" /\ opts = NoOptions /\ passes = {}
    /\ page = 1 /\ found = <<>> /\ picked = <<>>
    /\ items = <<>> /\ results = <<>>
    /\ exit = "none" /\ before = disk /\ offered = {} /\ removed = FALSE

-----------------------------------------------------------------------------
(* The search                                                               *)

Start ==
    /\ pc = "idle" /\ runsLeft > 0
    /\ runsLeft' = runsLeft - 1
    /\ opts' \in UserOptions /\ passes' \in SUBSET Packages
    /\ pc' = "search" /\ page' = 1 /\ found' = <<>> /\ picked' = <<>>
    /\ items' = <<>> /\ results' = <<>> /\ exit' = "none" /\ before' = disk
    /\ offered' = published /\ removed' = FALSE
    /\ UNCHANGED <<remote, disk>>

Goto(location) == pc' = location /\ UNCHANGED <<opts, passes>>

End(status) == Goto("idle") /\ exit' = status

\* Mutant: a full page is taken for the last one.
MorePagesUnlessFull(k, n) == n < PageSize /\ k * PageSize < Cardinality(published)

\* The answer tells that there are more pages.
MorePages(k, n) == k * PageSize < Cardinality(published)

\* The numbers of a set in increasing order: the i-th has i that are not above it.
InOrder(S) == [i \in 1 .. Cardinality(S) |->
                  CHOOSE x \in S : Cardinality({y \in S : y <= x}) = i]

PageOf(k) == SubSeq(InOrder(published), (k - 1) * PageSize + 1,
                    IF k * PageSize < Cardinality(published)
                    THEN k * PageSize ELSE Cardinality(published))

\* _search_packages asks for page after page.
SearchPage ==
    /\ pc = "search"
    /\ found' = found \o PageOf(page)
    /\ IF MorePages(page, Len(PageOf(page)))
       THEN page' = page + 1 /\ UNCHANGED command
       ELSE Goto("pick") /\ UNCHANGED page
    /\ UNCHANGED <<remote, disk, runsLeft, picked, fetches, exit, before, seen>>

\* A request of the search or of a detail fails for good, or the directory for
\* the files of a package is no directory.
RequestFails ==
    /\ pc \in {"search", "detail"}
    /\ End("failed")
    /\ UNCHANGED <<remote, disk, runsLeft, search, fetches, before, seen>>

\* Mutant: the first match is taken for the best one.
FirstMatch(matches) == matches[1]

\* _select_best_package, the first of the newest
Best(matches) ==
    CHOOSE p \in ToSet(matches) : \A q \in ToSet(matches) : Newness[q] <= Newness[p]

\* The filters that the command applies itself: the exact name, tags, patterns.
Matching ==
    LET kept == InOrder({i \in DOMAIN found : found[i] \in passes})
    IN [j \in DOMAIN kept |-> found[kept[j]]]

\* resolve_all_packages and resolve_package
Pick ==
    /\ pc = "pick"
    /\ \/ Matching = <<>> /\ End("none found") /\ UNCHANGED picked
       \/ /\ Matching # <<>> /\ (opts.all \/ Len(Matching) = 1)
          /\ Goto("resolve") /\ picked' = Matching /\ UNCHANGED exit
       \/ /\ Len(Matching) > 1 /\ ~opts.all /\ opts.yes
          /\ Goto("resolve") /\ picked' = <<Best(Matching)>> /\ UNCHANGED exit
       \/ /\ Len(Matching) > 1 /\ ~opts.all /\ ~opts.yes
          /\ End("several found") /\ UNCHANGED picked
    /\ UNCHANGED <<remote, disk, runsLeft, page, found, fetches, before, seen>>

-----------------------------------------------------------------------------
(* The files to fetch                                                       *)

HasUrl(p) == p \in WithUrl
FilesOf(p) == SetToSeq(Parts[p])

Item(p, name, path) == [package |-> p, name |-> name, path |-> path]

\* _resolve_single_file_item for every package: get_download_url raises for one
\* without a URL.
ResolveSingle ==
    /\ pc = "resolve" /\ ~opts.allFiles
    /\ IF \E i \in DOMAIN picked : ~HasUrl(picked[i])
       THEN End("failed") /\ UNCHANGED items
       ELSE /\ items' = [i \in DOMAIN picked |->
                  LET p == picked[i]
                  IN Item(p, FileName[p],
                          IF ~opts.outfile THEN <<"here", FileName[p]>>
                          ELSE IF Len(picked) > 1 THEN <<"outfile", FileName[p]>>
                          ELSE OutFile)]
            /\ Goto("fetch") /\ UNCHANGED exit
    /\ UNCHANGED <<remote, disk, runsLeft, search, results, before, seen>>

\* _resolve_all_files_items looks up one package after the other.
ResolveAllFiles ==
    /\ pc = "resolve" /\ opts.allFiles
    /\ Goto("detail")
    /\ UNCHANGED <<remote, disk, runsLeft, search, fetches, exit, before, seen>>

Detail ==
    /\ pc = "detail"
    /\ LET p == picked[1]
       IN IF p \notin published \/ FilesOf(p) = <<>>
          THEN End("failed") /\ UNCHANGED <<items, picked>>
          ELSE /\ items' = items \o [i \in DOMAIN FilesOf(p) |->
                     LET n == FilesOf(p)[i]
                     IN Item(p, n, <<IF opts.outfile THEN "outfile" ELSE Folder[p], n>>)]
               /\ picked' = Tail(picked) /\ UNCHANGED exit
               /\ IF Len(picked) = 1 THEN Goto("fetch") ELSE UNCHANGED command
    /\ UNCHANGED <<remote, disk, runsLeft, page, found, results, before, seen>>

DryRun ==
    /\ pc = "fetch" /\ opts.dryRun
    /\ End("ok")
    /\ UNCHANGED <<remote, disk, runsLeft, search, fetches, before, seen>>

-----------------------------------------------------------------------------
(* The transfers                                                            *)

Current == items[Len(results) + 1]
Put(bytes) == disk' = [disk EXCEPT ![Current.path] = bytes]
Record(status) == results' = Append(results, status) /\ UNCHANGED items

Fetching == pc = "fetch" /\ ~opts.dryRun /\ Len(results) < Len(items)

\* stream_download refuses a file that exists.
Exists ==
    /\ Fetching /\ disk[Current.path] # Absent /\ ~opts.overwrite
    /\ Record("FAILED")
    /\ UNCHANGED <<remote, disk, runsLeft, command, search, exit, before, seen>>

\* The server refuses the file, the request fails, or the file cannot be opened.
NotServed ==
    /\ Fetching /\ (disk[Current.path] = Absent \/ opts.overwrite)
    /\ Record("FAILED")
    /\ UNCHANGED <<remote, disk, runsLeft, command, search, exit, before, seen>>

\* Mutant: --overwrite is taken to be given.
OpenAnyway ==
    /\ Fetching /\ Current.package \in published
    /\ Put(Bytes(Current.package, Current.name, FALSE))
    /\ Goto("stream")
    /\ UNCHANGED <<remote, runsLeft, search, fetches, exit, before, seen>>

\* The answer arrives: the file is opened, and an existing one is emptied.
Open ==
    /\ Fetching /\ (disk[Current.path] = Absent \/ opts.overwrite)
    /\ Current.package \in published
    /\ Put(Bytes(Current.package, Current.name, FALSE))
    /\ Goto("stream")
    /\ UNCHANGED <<remote, runsLeft, search, fetches, exit, before, seen>>

Finished ==
    /\ pc = "stream"
    /\ Put(Bytes(Current.package, Current.name, TRUE))
    /\ Record("OK") /\ Goto("fetch")
    /\ UNCHANGED <<remote, runsLeft, search, exit, before, seen>>

\* Mutant: a transfer that breaks counts as complete.
BreakUnnoticed ==
    /\ pc = "stream"
    /\ Record("OK") /\ Goto("fetch")
    /\ UNCHANGED <<remote, disk, runsLeft, search, exit, before, seen>>

\* The connection breaks: what has arrived stays.
Broken ==
    /\ pc = "stream"
    /\ Record("FAILED") /\ Goto("fetch")
    /\ UNCHANGED <<remote, disk, runsLeft, search, exit, before, seen>>

Status == IF \E i \in DOMAIN results : results[i] = "FAILED" THEN "failed" ELSE "ok"

Report ==
    /\ pc = "fetch" /\ ~opts.dryRun /\ Len(results) = Len(items)
    /\ End(Status)
    /\ UNCHANGED <<remote, disk, runsLeft, search, fetches, before, seen>>

\* The process ends at once.
Killed ==
    /\ pc # "idle"
    /\ End("killed")
    /\ UNCHANGED <<remote, disk, runsLeft, search, fetches, before, seen>>

-----------------------------------------------------------------------------
(* Others publish and remove packages                                       *)

Change ==
    /\ pc # "idle" /\ changesLeft > 0
    /\ changesLeft' = changesLeft - 1
    /\ \E p \in Packages :
         IF p \in published
         THEN /\ published' = published \ {p}
              /\ offered' = offered \ {p} /\ removed' = TRUE
         ELSE published' = published \cup {p} /\ UNCHANGED seen
    /\ UNCHANGED <<disk, runsLeft, command, search, fetches, exit, before>>

-----------------------------------------------------------------------------
Work == SearchPage \/ RequestFails \/ Pick \/ ResolveSingle \/ ResolveAllFiles \/ Detail
        \/ DryRun \/ Exists \/ NotServed \/ Open \/ Finished \/ Broken \/ Report

Next == Start \/ Work \/ Killed \/ Change

Spec == Init /\ [][Next]_vars

-----------------------------------------------------------------------------
(* Properties                                                               *)

\* A file that was there when the command started is as it was, unless the user
\* allowed overwriting and it is at the path of a file that was fetched; a dry
\* run changes none.
OldFilesStay ==
    \A x \in Paths :
        before[x] # Absent /\ disk[x] # before[x] =>
            /\ opts.overwrite /\ ~opts.dryRun
            /\ \E i \in DOMAIN items : items[i].path = x

\* A command that succeeds leaves at the path of each of its files all the bytes
\* of a file that it fetched to that path, of that very file when it was not
\* allowed to overwrite; there is no part of a file under a status of OK.
SuccessIsWhole ==
    exit = "ok" /\ ~opts.dryRun =>
        \A i \in DOMAIN items :
            \E j \in DOMAIN items :
                /\ items[j].path = items[i].path /\ (opts.overwrite \/ j = i)
                /\ disk[items[i].path] = Bytes(items[j].package, items[j].name, TRUE)

\* What is fetched is what was asked for: with several matches that were there
\* throughout the search, all of them or, on -y, the newest of them; without
\* either option the command fetches nothing.
RightPackages ==
    pc \in {"fetch", "stream"} /\ ~removed =>
        LET known  == offered \cap passes
            chosen == {items[i].package : i \in DOMAIN items}
        IN /\ chosen \subseteq passes
           /\ opts.all => known \subseteq chosen
           /\ ~opts.all => /\ Cardinality(chosen) = 1
                           /\ \A p \in chosen, q \in known : Newness[q] <= Newness[p]
                           /\ ~opts.yes => known \subseteq chosen

=============================================================================
