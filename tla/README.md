# A verification development for the Cloudsmith CLI

This directory models the parts of the Cloudsmith command line client whose
correctness depends on the order of steps: what two processes, a crash, a lost
answer or a failing call can do between two of them. The modules are TLA+; TLC
checks them on small instances, and TLAPS proves the main invariants for all
values of the constants. `PROJECT.json` lists the runs, the code each definition
stands for, the hazards and the theorems.

## 1. The system

The CLI is a short-lived process. What outlives it is on the machine (the system
keyring, configuration and cache files, its own installation) or on the server.
Nothing locks any of it, so each invocation is one actor among several, and it may
be killed at any step.

| Component | State | Operations | Hard behaviour | What makes it correct |
|---|---|---|---|---|
| SSO session (`core/keyring.py`, `core/sso.py`, keyring provider, `auth`, `logout`) | three keyring entries per host and profile, with the default profile's as fallback; the refresh token the server rotates | resolve (with renewal), `auth`, browser login, logout, cleanup | a renewal is one server call and three keyring writes; several processes renew one session; each keyring call fails by itself | no access token beside an older refresh token; no session of another profile spent or deleted; a dead session goes away; every command ends |
| Package push (`commands/push.py`, `api/files.py`) | the loop over package files, identifiers, attempts left; uploads, packages and their synchronisation on the server | check, upload in one or several parts, create, attach metadata, wait, resync | every request may fail, `--skip-errors` changes what that means; the server synchronises meanwhile | packages are whole and made of their own files; nothing uploaded unchecked; results and status tell the truth |
| Update check (`core/update_check.py`) | a state file with the last check, the latest version and the last notice | background fetch, notice at close, opt-outs | a daemon thread and the main thread read, modify and write one file, as do other processes; the thread is killed at exit | one notice per check; a field of the file is lost only to a race |
| Self update (`core/self_update.py`) | the installation directory, its backup, scratch directories | sweep, download, verify, replace, roll back | a crash or a failure between any two renames; the next run sweeps | there is always a complete old or new installation, or the files to restore it |
| Management commands (`repos`, `entitlements`, `policy`, `upstream`, `metadata`, `copy`, `move`, `delete`, `tags`, `list`, ...; `core/api`, `core/pagination.py`, `core/session.py`) | the privileges, objects and secrets of a repository on the server; the attempts left of a request | questions, checks of the input, requests; the pages of a listing | the transport repeats every method; other clients change what was read; a listing moves under its pages | nobody unnamed loses access; nothing is lost unasked; reports and exit statuses are true; listings are complete |
| Download (`core/download.py`, `commands/download.py`) | files on disk, a status per file | search, choose, resolve, fetch, report | a transfer that breaks or is killed leaves part of a file; packages come and go | success means whole files; files that were there stay; the right packages |
| OIDC tokens (`credentials/oidc`, `providers/oidc_provider.py`) | a token per service in the keyring and on the disk | look up, exchange, store, remove | jobs of one user race on both caches | every command gets a token of its own service, or of one that the keyring takes for it, that lives for the margin or does not say |
| API keys and the chain of credentials (`credentials/chain.py`, `config.py`, `tokens`, `login`, `logout`) | the key that the API takes; credentials files with sections; what the user was told | resolve, login, create, rotate, save, clear | lost answers, keys that the web application changes, files merged section by section | logout leaves no key that it matches; what was saved is read while the files can be; sources in order; no key voided unasked |
| Managed files (`credential_helpers/`, `commands/mcp.py`, `cache_utils.py`) | configuration files of docker, cargo, terraform, pnpm and MCP clients; their backups; launchers | install, uninstall, configure | other programs own the files and edit them; a stop between launcher and configuration | entries of others stay; no entry without its launcher; a success is complete; old text at hand |
| Local web server (`cli/webserver.py`), MCP server, telemetry | one request; a list of tools; one report of a crash | | | see section 5 |

The commands that manage a repository keep no state on the machine: each is a
sequence of questions, checks and requests, and `ApiCommands` is the table of these
sequences.

Components interact through the keyring (`auth`, `login` and the keyring provider
of every other command), through the HTTP session whose transport repeats
requests, and through `handle_api_exceptions`, which turns an API error into an
exit or, for `--skip-errors`, an exception. The models carry these along: the
repeated request is an action of `SsoSession`, `PushPipeline`, `ApiKeys` and
`ManageCommands`, and `ApiError` is the context manager. The chain of credentials has
the session of `SsoSession` and the token of `TokenService` as two of its sources:
`ApiKeys` knows of them only that there is one.

## 2. Modules

### SsoSession

One variable per kind of keyring entry (`access`, `refresh`, `attempted`), a
function of *slots*: a slot is the entry family of one profile at one API host,
and `Legacy` is the family that has no profile in its key. A process has a
location `pc` and the token variables of the functions it is in. Every keyring call
is a step, because another process may run between two of them; so
`_get_value_with_fallback` is a read of the own slot and, in a second step
(`ReadFallsBack`), of the legacy slot. `renew_sso_session` is `LoadAccess`,
`LoadRefresh`, one of the `Post...` actions and then `StoreRefresh`, `StoreAccess`
and `Mark`; `_recover_from_rejected_renewal` is `ReloadAccess`, `ReloadRefresh` and
the three `Sweep...` steps of `delete_sso_tokens`, at most two rounds. The callers
differ in what they do with the result (`Report`): the provider serves a token, and
`auth` opens the browser. A grant of the server is a number, and its two tokens bear
it; comparing two numbers tells which token is older. Time is the phase of a token
and the age of an `attempted_at` entry, as the code compares them. The faults that
may happen are a constant.

The API is external: it accepts a live refresh token once. Not modelled: hosts
other than one (their keys differ, nothing is shared), and the signing key of a
session. The API key that `auth` can create afterwards is in `ApiKeys`.

Runs:

- `sso_sequential`: a scoped and the default profile on one host, one command after
  another, two grants, all faults but failed reads and deletions. The safety properties
  and the end of every command. Two profiles are the least that can interfere; the first
  session has an access token in any phase of its life, and the second grant, which a
  renewal or a login makes, an opaque one. Weak fairness of the steps of each process:
  an operating system schedules a process that runs. Nothing forces a user to start a
  command or to finish in the browser, so `Begin` and `LogIn` have no fairness.
- `sso_race`: two processes of one profile renew concurrently, with failing writes and
  lost answers. `RefreshMovesForward`: a token can only be rotated after its
  minter stored it, so the stored refresh tokens never go back.

`RefreshNotOlder` does not hold when two processes of one profile interleave
their writes, nor when a deletion fails half-way; `sso_sequential` and the theorem
are about the histories in which it must.

### Publication and PushPipeline

`Publication` is the abstract specification, what the user sees of a push: packages
come into being one after the other in the order of the command line (`Create`,
`Annotate`, `Resync`); one is reported when it exists, is synchronised if the user
waits, and has the metadata that matters (`Report`); only `--skip-errors` and
`--dry-run` pass one over (`Pass`); and nothing follows a failure (`Abort`). It knows
nothing of checks, files, parts, attempts left and lost answers. `PushPipeline!Promise`
maps the state: a package exists if it has contents, it is in the results if something
is reported of it, and a synchronisation that cannot be repaired looks like one that
failed. `OnlyLastInDoubt` is a property of `Publication` that a push inherits (a theorem, and
no run repeats it): without
`--skip-errors`, only the package in hand may exist without being in the results.

`PushPipeline` is one command with its options, chosen in the initial state, and the
server. `pc`, `k` and `f` are the location, the package and the file in hand. Each
request is an action that succeeds or fails; `ApiError` is `handle_api_exceptions`,
which skips the package or exits, and the actions of the upload itself exit either way,
as the code does. A file is its size: `PutPart` reads and sends a chunk, and
`IsMultiPart` is the code's projection, which also sends a file of exactly one chunk in
parts. `given` is the set of upload identifiers that replace file names in the
arguments. The server keeps what it has checked, received and created, and `Synchronise`
is its own step.

Runs:

- `push_several`: the safety properties and the refinement; one to three packages of two
  files; sizes of zero, one and two chunks exactly, and with a short last part;
  `--sync-attempts` from -1 to 4; every state of the metadata options, which the code
  refuses for more than one package, in both failure modes. Liveness: the process is
  scheduled, and the server ends each synchronisation; the polling loop has no deadline
  of its own, so without the second assumption a push may wait for ever.
- `push_skip_errors`: see section 4.

Not modelled: the options of each package format, which only decide what the server
checks; reading a `.dsc` file; the interval between two polls.

### UpdateCheck

The state file is a record of three fields, zero where the file, or the field, is
absent. Each process is the command (`pc`) and its daemon thread (`bg`). `_write_state`
is two steps, because it reads the file, merges, and then replaces it: `BgReads` and
`BgWrites` in the thread, `StampRead` and `StampWrite` in `cloudsmith update`,
`NotifiedRead` and `NotifiedWrite` in the notice (each read takes the time in the same
step). `Close` is the handler that joins the thread for a second, and may give up on it
also while its fetch, of up to five seconds, is still under way (the fault `late`); the
exit of the process ends the thread where it is. The opt-outs are left out: a command
that uses one does nothing. Two history variables serve the properties: `news`, whether
a check or a notice was recorded last, and `raced`, the actors that another has
overtaken (`Overtakes`): it changed the file after they read it, or fetched the version
they write, and before they write. A version is a number, and a version that an update
installs is newer than the one that runs.

Runs:

- `update_background`: two processes at once, one of any kind and one that may print the
  notice, and more after them, until the third tick, with an interval of one, so several
  checks, and two versions; every fault. `OnlyRacesSetBack` is what the docstring of
  `_write_state` promises, as far as it holds without a lock: a write sets a field back
  only if its writer was overtaken. With it `NewsIsKept` says what remains after a
  race: the file still says whether a check or a notice was recorded last. Liveness: the
  command and its thread are scheduled, but the request of the thread may hang. Two
  updates at once are left to the theorems, which have any processes of any kind.

### SelfUpdate

The install directory and its scratch directories are functions from top-level names to
the version that is there. A name is a number in the order of `sorted()`. `Begin` is
the command up to the confirmation, `Refuse` to `Promote` are `perform_self_update` up
to the staged bundle, `Prepare`, `MoveOut`, `MoveIn` and `Verify` are
`replace_bundle_entries` with one action per rename, `Undo` is one turn of
`_rollback_entries`, `Clean` the `finally` clause, `Discard` the removal of the backup.
A kill leaves the directories as they are. `Begin` needs a CLI that starts, that is,
the entries in `Needed`; `Repair` is the user who restores one that does not. An archive
is good or fails as a whole: its digest, its format and the checks of its member names
are one fault.

Runs:

- `self_update`: one update at a time, three versions of which the second ships one
  entry more, one entry of the user; failing downloads, renames and deletions, kills.
  Four names are the least that has an entry before and after the executable and one
  that no bundle ships.

With two updates at once `NothingLost` fails: they share the scratch directories, and
the second sweeps what the first has moved out (section 4). The run and the theorem
have updates one after another.

With the fault `interrupt`, an exception right after a rename, `FailureRestores` fails:
the entry is not yet on the list that the rollback undoes. An exception in the rollback
itself is not modelled.

### ApiCommands and ManageCommands

`ApiCommands` is a pure module: for each of 63 commands an operator from its options
to the sequence of its steps, with `Consent` for `confirm_operation`, `Listing` for
`paginate_results`, and the wrappers of `core/api` as records from function to kind of
request. `ManageCommands` runs such a sequence. `todo` is what is left of it, and one
step of the code is one action: `Input`, `Usage` and the checks of the privileges
commands (`Entries`, `Expressible`, `Found`, `Known`) send nothing; a request is
`Answered`, `ReadAnswered`, `NextPageAnswered`, `AnswerLost`, `NotServed` or `Refused`.
`Retry` is what `RetryWithCallback` leaves to a request: another attempt or the end of
the command. The service is three pieces of state, because the commands are of three
sorts: the privileges of targets, a collection of objects, and a secret that is
rotated. `Alien` is an entry that this version of the CLI cannot name, which makes
`revoke` refuse. The history variables `touched`, `grown`, `shrunk`, `lost` and
`consent` say what excuses a difference.

Run `manage`: every command under every selection of options, privileges of two
targets and an entry that cannot be named on four levels, up to five objects on pages
of two (so three pages, the last one short), one retry, two changes by other clients.
Two changes are the least that can both add and remove an object in one listing.
Liveness: every attempt ends, by an answer or an error; the user need not answer.

Not modelled: the wait for synchronisation after `copy`, `move` and `resync`
(`PushPipeline` has that loop), the time a rate limit or a backoff waits, and what is
computed from an answer to be printed.

### Download

`SearchPage` asks for one page while packages are published and removed (`Change`);
`Pick` is the choice (all matches, the newest on `-y`, an error for several);
`ResolveSingle`, `ResolveAllFiles` and `Detail` make the list of files with their
paths; `Open`, `Finished` and `Broken` are the transfer, which writes in place, so that
`Broken` and `Killed` leave part of a file under its final name; `Report` makes the
exit status from the statuses. A package is a number in listing order, and `Newness`
orders the packages by version and date. A path holds nothing, a file of someone
else, or some or all bytes of a file of a package.

Run `download`: three packages, two with files of the same name and two with the same
directory of `--all-files`, on pages of two; every selection of options that differ in
effect; one package published or removed meanwhile. `before` is the disk at the start
of the command, which may hold a file at any one path. With one command per behaviour
the disk that an earlier one left is among these. The order of the listing is
written with ranks (`InOrder`) and not as a search, so that it can be reasoned about;
the theorems are about any number of packages, paths and commands. `Newness` is given: how
two versions compare (`download.py:523`), pre-releases among them, is not modelled.

### TokenService and OidcTokens

`TokenService` is the abstract specification: a job asks for a service account and is
denied, or is granted a token that the API made for that service, and one that was not
made for this very job lives for `EXPIRY_MARGIN_SECONDS` more, or does not say when it
ends. A job that `UsesAlike` may get one of a service that is named `Alike` instead: the
name of a keyring entry joins host, Workspace and slug with hyphens
(`keyring.py:384`), and whose token it holds is not compared when it is read, so that
`acme/dev-ci` and `acme-dev/ci` are one entry (`Joined`). The files of the disk are
named by a digest of the three, with a separator that they do not contain. `OidcTokens` is
the provider: the keyring is read (`KeyringHit`, `KeyringMiss`, `KeyringExpired` and the
deletion as a step of its own), then the file on the disk (`DiskHit`, `DiskMiss`,
`DiskBad`, `Unlink`), then the token of the environment is exchanged and stored. Jobs
may interleave at each of these steps and be killed at each. The refinement is the
identity on the variables of `TokenService`: the caches are hidden.

Run `oidc`: two jobs with the keyring, which may fail them at any time; three services,
two of which share an entry; damaged files; tokens whose expiry can be read or not; two
tokens made by the API (`MaxMinted`), one for each job or both for one; time up to two with
a lifetime and a margin of two, so that a token is fresh, stale or near its end when it
is read. The two jobs are alike, and so are the two services of one entry, which the
symmetry of the run uses: the properties under symmetry are an invariant and a
refinement without fairness. A job without the keyring takes the steps of one whose
keyring always fails. `invalidate_cached_token` is not modelled, as nothing calls it.

### ApiKeys

The credentials files are a function from place and profile to a key, an empty line or
no line; `Merged` and `FileKey` are `load_config`, with the first file and the section
of the profile in front. `Rewrite` is `_set_api_key`: its expression replaces every line
that it matches (`Matched`), whatever its section, and leaves those in another notation
(`loose`: `api_key: x`, or indented). Where the value is empty, the blanks after `=` match
the end of the line, and the next line that is not blank goes with it (`Swallows`):
`gap` is how many such lines stand before the header of the next section with a key. When
the header itself goes, two keys stand in one section, the file is `broken`, and every
command fails as it reads the files (`LoadFails`). `Resolved` is the chain over `Providers`. The API takes one key. A command
is `Start`, `Resolve`, its requests (`Login`, `Create`, `Duplicate`, `List`, `Rotate`,
`AnswerLost`) and what it does with the new key: `Tell` for `login` and `tokens
create`, which show the key and then store it, `CreateFile`, `UpdateFile` or
`UpdateFails` for the file. `Logout` clears one file per step. `Others` is the web
application.

Run `api_keys`: any two commands with every selection of options, two profiles, two
places with any content and the sections in any order, the line of one profile written in
another notation, no lines between two sections (`MaxLines`: each line there is puts off
the loss of the header by one rewriting), three keys, one change by the web application, kills at every
step. Two commands are the least for a command that finds what another has saved or
cleared; two keys besides the first are the least for a repeated rotation. Liveness:
every request is answered or fails, and the user answers each question.

`LogoutIsComplete` speaks of every history, the broken files included, and allows for
the lines that are not matched. `SavedIsRead` is about a line that the command matched
and files that can still be read; a first file without a line for the profile stays
without one. The failure to update when only the file of the user exists is an outcome
of `UpdateFails`. Not modelled: a kill in the middle of the write of a file; the repair of
a broken file by the user; a line swallowed after the last section with a key, which has
no effect on a key.

### ManagedFiles

A behaviour is about one kind of file, since the helpers share none. The file is a
function from hosts, and one slot for a list (Cargo's providers, Terraform's block), to
who answers for it: a token of the user, another program, or Cloudsmith's launcher.
`WriteLauncher` and `RemoveLauncher` are the launcher; the read and the change of the
file differ by kind as the code does: JSON and TOML go through `merge_config_file` with
`Backup` and `Replace`, `.npmrc` and `.terraformrc` are rewritten in place with
`Truncate` and `Write`, and an MCP client's file is replaced when `CompareTime` finds it
unchanged, three times at most. `Stop` is a kill or an OSError at any step. `Edit` and
`Spoil` are the other programs, between any two steps.

Runs:

- `managed_files`: two hosts, one of them the default, two directories, three
  commands, two edits by others (four by an MCP client, one for the file to exist and
  one for each attempt). Three commands are the least for an install, an uninstall that
  stops and one that repairs it, or two installs in different directories and one
  uninstall.
- `mcp_edits`: see section 4.

The properties name what they leave out: a rewriting in place that was cut short, an
edit after the comparison of the modification time, an uninstall that stopped between
launcher and configuration. When a file of Docker or Cargo does not parse, the command
goes on from an empty one, so the entries of others in it are no longer counted as there:
they are in `.bak` only, which is what `OldTextAtHand` is about. A host of pnpm is
answered for by one party: a host with both a `tokenHelper` and an `_authToken`, which an
install does not refuse (`rc.py:123`), has no state of its own. Not modelled: dry runs; the warnings on PATH; a partly
written launcher; several Terraform blocks of which a foreign one comes first; duplicate
lines and hosts with ports in `.npmrc`; comments of JSONC, which are dropped; a file
that does not parse and is lost with a second change of `.bak`; the cache of domains,
whose answer is any set of hosts.

## 3. What is proved

Proofs are in `*_proofs.tla`. All assume only the named assumptions on the
constants.

**SsoSession** (any number of profiles, processes and grants)

- `TypeCorrect`, one lemma for each part of `TypeOK`.
- `RefreshIsNotOlder`: under `MaxRunning = 1` and no failed deletions.
  `RefreshNotOlder` is not inductive; `PairInv` adds that at most one process is under
  way, that the stored tokens are grants already made, that a process about to store
  holds the newest grant, that its refresh token is stored before its access token, and
  that a sweep deletes the access token first.
- `OwnSessionIsFirst` (`MaxRunning = 1`, no failed reads): the legacy entry is read only
  where the own one was found absent, which one command at a time keeps true until the
  token is spent. With failed reads it is false: an entry that cannot be read counts as
  absent.
- `RejectionEndsSession` (`MaxRunning = 1`, no failed deletions): a refused session goes
  away, as the sweep deletes what the refusal was about.
- `CleanupSparesLive` (`MaxRunning = 1`, no failed reads or deletions): a sweep begins
  only after the server refused the token that is still stored.
- `ServedIsUsable`, without any restriction: a served token was valid when it was read.
- `RefreshOnlyForward`: `RefreshMovesForward` for any number of processes at once, for
  commands other than `auth` and the browser login: a process that renewed before a login
  can store its token after it. `ChainInv` is the chain of
  rotations: it has one live end, which is held by the stored entry or by the one process
  that has not stored it yet, and every other process holds an older one.

**Publication and PushPipeline** (any packages, files, sizes and options)

- `TypeCorrect`.
- `UploadsAreChecked`: `ChecksInv` ties each location to the checks of the package in
  hand that have passed before it.
- `ResyncsAreBounded`: the resynchronisations made and the attempts left never exceed
  what the user gave.
- `PackagesAreWhole`: while files are uploaded, the identifiers in hand are those of the
  package's files before the one in hand, all whole; packages beyond the one in hand do
  not exist, so an upload cannot disturb a created one.
- `SuccessIsEverything`: `DoneInv` says what has been done for the packages behind the
  one in hand (`BehindIsDone`) and for that one at each location (`InHandGoesOn`).
- `Refinement`: `Spec => Publishes`. There is one lemma for each step of `Publication`
  that a step of the push maps to (`CreateMaps`, `ReportMaps`, `AbortMaps`, ...), and
  `StepPublishes` picks, for each action, one for the server and one for the command.
  It needs the invariants above: that a package that is created has a file, that one
  that is reported exists and has its metadata; and `TurnInv`, that only a failed
  synchronisation is repeated and that the command runs until its last step.
- `LastInDoubt`: an invariant of `Publication`, proved from its steps alone, and by
  `Refinement` one of the push.

**SelfUpdate** (any names, bundles and versions)

- `TypeCorrect`.
- `NothingIsLost`: under `MaxRunning = 1`, for every set of faults. A step that empties
  the backup is safe only if the CLI is complete, so `ReplaceInv` says where it is
  (`RunsMeanwhile`), that during a replacement at most the entry in hand is missing, and
  that every moved entry the CLI needs has its backup.
- `UserFilesStay`: without any restriction, several updates at once included. An entry
  that no bundle ships is never moved, as moves are driven by the names of a bundle.
- `SuccessComplete` (`MaxRunning = 1`): an update that reports success has put every
  entry of the new version in place and left every other as it was, whatever an earlier
  update left in the scratch directories.
- `FailureIsUndone` (`MaxRunning = 1`, no exception between a rename and the list that
  the rollback undoes): after a complete rollback each entry is what it was before.

**UpdateCheck** (any processes, interval and faults)

- `TypeCorrect` and `NewsKept`. The strengthening `Stamps` orders the times in the file
  and in what each process and thread is about to write: a check is written beside an
  earlier notice, and a notice beside a check that is no later.
- `FieldsOnlyForward`: `OnlyRacesSetBack`, under no further assumption. The
  strengthening `Current` says of each command and each thread that was not overtaken
  that what it has fetched or is about to write is as late as what the file has, and
  `KnownReleased` that nobody knows a version that was not released.

**Download** (any packages, pages, paths, options and numbers of commands)

- `TypeCorrect`.
- `OldFilesAreKept`: `KeepInv` says of each location which paths may differ from the
  disk at the start of the command and why.
- `SuccessLeavesWhole`: `WholeInv` says that the files before the one in hand whose
  status is good are at their paths, though a later file of the command may have
  replaced one of the same path.
- `RightPackagesChosen`: `PagesInv` says that the packages which were there throughout
  and whose rank lies within the pages read so far have been found, as a publication only
  moves packages to later pages; `FoundInv` that the last page completes them, `ChoiceInv`
  that the choice among them stays right until the files are fetched. A removal excuses
  a package that is missed.

**ManageCommands** (any targets, number of objects, page size, retries and
changes by other clients; every command of the table)

- `TypeCorrect`, `ReportHolds`, `ExitHolds`, `ListHolds`, `KeepHolds`, `LossHolds`.
- The place of a command is the sequence of the steps it has left, so the proof starts
  with the table: `PackageTable`, `AdminTable` and the lemmas after them show of each
  command about objects that it is an `ObjectPlan`: all steps but the last are
  questions, checks and reads, and a deletion or a rotation comes last, after a step
  that asks unless `-y` was passed. The commands about privileges are the sequences `Grant1` to
  `Replace4`, with a `Y` for those under `-y`. `Placed` says that what is left is a
  suffix of one of these.
- `Known1` says what a command knows at each place: that what it read is what the
  service holds but for the targets that others touched (`Read1`), that nothing is lowered
  unasked by `set` (`Granting`), that `revoke` comes to its request only with a list
  that it can express (`Revoking`), that `replace` is about every target (`Replacing`),
  and that what either is about to put is the request beside what the rest hold
  (`Putting`). `ReportIsTrue`, `UnnamedKeepAccess` and `LossIsConsented` follow at the
  request that writes.
- `Undone`: nothing has been changed before the last step. With it `ExitTellsEffect` is
  inductive.
- `Paging` ties the objects received to the number of objects in front of each
  (`Before`): after k pages, an object that was there at the start has been seen if fewer
  than k pages' worth are in front of it. A removal lowers that number for others and an
  addition raises it, which are the two excuses of `ListIsComplete`. The lemmas on
  cardinalities show that the last page is behind every object, for any page size.

The theorems on credentials are in one module, `Credentials_proofs`:

**OidcTokens** (any jobs and services, any way that names join, any tokens)

- `Genuine`: `EntriesAreGenuine`, with the types, is inductive as it stands.
- `Refinement`: every step of the provider is a step of `TokenService` or a stutter,
  without a further assumption.

**ApiKeys** (any profiles, keys, orders of sections and lines that are not matched)

- `TypeCorrect`, `LogoutHolds`, `SavedHolds`, `OrderHolds`, `ConsentHolds`. The lemmas
  on the operators come first: `MergedIs` and `ResolvedIs` say what the merged files and
  the chain return. The invariant adds to the properties that keys of files and options
  have been issued and files that do not exist have no line (`Issued`), which files
  logout has cleared but for the lines it does not match (`Clearing`), that there is a key where one is told or saved
  (`Storing`), and that the way to a rotation leads over consent (`Rotating`).

**ManagedFiles** (any hosts, directories and numbers of commands)

- `TypeCorrect`, `TextIsAtHand`, `NothingDangles`. `Kept` says where the old text is at
  each step of a merge, `Launched` that an install has its launcher before it touches the
  configuration and that a pnpm uninstall has removed its entries before it removes the
  launcher, `Located` which steps each kind of file takes.
- `SuccessIsDone`: `PromiseInv` says what a command has achieved at each location, and
  which of that an edit by another program may have undone.
- `OthersAreKept`: `KeepInv` says that the text which is about to be written has the
  entries of others as the file has them (`Theirs`, `Holds`), unless an edit has come in
  between, and which of its entries the command may have changed.

TLC checks each of these inductive invariants on the instance of its run, or on a
variant of it, before it is proved; a type invariant that is proved is not checked by a
run as well.

No hypothesis above can be dropped: where a fault, a second process or a command is
excluded, TLC finds a counterexample on the instance of the run with it added (for
`OwnSessionFirst` and `RejectionEndsOwnSession`, two processes of one profile).

Every safety invariant and action property that a passing run checks has its theorem.
Only model-checked are the liveness properties (`CommandEnds`, `PushEnds` and the
others, under the fairness named in section 2), for which the prover has no rules, and
the two counterexamples of section 4.

## 4. Where the code and its documents disagree

Two are kept as runs, each with a counterexample:

- `--skip-errors` does not skip a failed upload (`push_skip_errors`).
- A write of an MCP client between the comparison of the modification time and the
  replacement, or while the file is created, is lost (`mcp_edits`).

Others that the models show and that no run repeats:

- A scoped profile without tokens renews with the default profile's refresh token,
  which the server then rotates (`keyring.py:76`; `CHANGELOG.md:167` says that profiles
  no longer clobber each other). `SsoSession` has the step: `ReadFallsBack` and then a
  renewal.
- A renewal that is refused while the process that rotated the token has not stored the
  new one deletes the session (`sso.py:116`).
- With one attempt left, an unrecoverable synchronisation failure is retried
  (`push.py:775`, against its own message at `push.py:777`).
- The background fetch of `cloudsmith update` re-arms the notice that the command has
  just disarmed (`update_check.py:157` says that it is disarmed).
- A write of the update state puts back what another process, or a late thread, wrote
  after it read (`update_check.py:128`; `update_check.py:121` says that it never drops a
  sibling). That costs a notice or a fetch.
- A second update sweeps the directories of one that is under way
  (`self_update.py:334`; `self_update.py:326` says that removing them is always safe).
- With `--download-all --overwrite`, files of the same name replace each other and are
  both reported as downloaded (`SuccessIsWhole` asks only for one of them).
- A key that is saved for one profile replaces the key of every profile of the file
  (`Rewritten`).
- Saving and clearing a key are said to preserve the structure of the file
  (`config.py:365`, `config.py:392`, `config.py:397`), but after an empty `api_key =` line
  the expression (`config.py:370`) takes the next line that is not blank. A logout and
  then a save, or a second logout, so lose a comment or the header of the next section;
  in a file with two sections the result has two keys in one, and no command can read it
  any more (`Swallows`, `LoadFails`).
- Logout leaves a key that is written as `api_key: x`, or indented: the parser reads it,
  the expression does not match it (`loose`).
- Two service accounts whose names join alike share an entry of the keyring, so that a
  command is served the token of the other (`keyring.py:384`; `cache.py:67-100` stores
  and does not compare whose it is). `TokenService` says so with `UsesAlike`.
- A cached token whose expiry cannot be read is served for ever, also when the API
  refuses it (`cache.py:97`; nothing calls `invalidate_cached_token`).
- A profile with one session token of its own takes the other from the default profile
  (`keyring.py:76`). The cleanup of a session counts one deleted entry of three as success
  (`sso.py:126`), so the deletion of the others may have failed, and an `attempted_at`
  entry that is left shields the legacy tokens.
- The transport repeats every method (`session.py:213`): a repeated POST makes a second
  package or entitlement, a repeated DELETE is reported as failed, and the key of a
  rotation whose answer is lost is known to nobody (`tokens.py:94`).
- What a failed sweep left in the directory an archive is extracted into is installed
  with the new bundle (`self_update.py:401`).
- An uninstall of Docker's, Cargo's or Terraform's helper that stops after the launcher is
  removed leaves entries that point at it, until it is repeated (`NoDangling` names it).

## 5. Plan, and what is not modelled

Done first, as the state that outlives a process and that the server cannot repair
is the session: `SsoSession`; then the operation users run most, `PushPipeline`; then
the two components that change the machine of the user in the background or in place,
`UpdateCheck` and `SelfUpdate`. Then the breadth of the CLI, `ApiCommands` with
`ManageCommands`; the files it leaves, `Download` and `ManagedFiles`; and its
credentials, `TokenService` refined by `OidcTokens`, and `ApiKeys`.

`Publication` and its refinement came with the proofs, and the proofs of
`ManageCommands` last. Next would be an abstract session (absent, usable or dead per
profile) that `SsoSession` implements in sequential histories, and the composition of
`ApiKeys` with it and with `TokenService` in place of the two sources it abstracts.

Not modelled, with the reason: the MCP server, which derives its tools from an OpenAPI
document by rules on strings and leaves the concurrency to a library; telemetry, which
reports a crash after the command has failed and leaves no state; the cloud detectors
and the runtimes of the credential helpers, each a request and an answer; the macOS
keychain, which the keyring calls of `SsoSession` stand for; the local web server but for
what its callback stores; the parsing of arguments, tables and messages; build files.
