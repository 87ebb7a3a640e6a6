---------------------------- MODULE PushPipeline ----------------------------
(***************************************************************************)
(* `cloudsmith push <format> TARGET FILE...` with --skip-errors, --dry-run, *)
(* --no-wait-for-sync, --sync-attempts and the metadata options, against    *)
(* the API that receives the files and synchronises the packages:           *)
(*   cli/commands/push.py, core/api/files.py, cli/exceptions.py.            *)
(*                                                                         *)
(* Each request is one step, because it may fail on its own and because the *)
(* API's synchronisation goes on between two of them.  A file is its size,  *)
(* an upload is the pair of the package and the file it was requested for.  *)
(***************************************************************************)
EXTENDS Integers, FiniteSets

CONSTANTS
    NumPackages,  \* bound: PACKAGE_FILEs on the command line, each a package
    NumFiles,     \* files of a package: PACKAGE_FILE, *_file options, extra_files
    Size,         \* bytes of each file of each package
    ChunkSize,    \* CHUNK_SIZE, the bytes of one part
    Attempts      \* values of --sync-attempts that users give

Packages == 1 .. NumPackages
Files    == 1 .. NumFiles
Uploads  == Packages \X Files

ASSUME PushAssumption ==
    /\ NumPackages \in Nat \ {0}
    /\ NumFiles \in Nat \ {0}
    /\ Size \in [Uploads -> Nat]
    /\ ChunkSize \in Nat \ {0}
    /\ Attempts \subseteq Int

\* What the metadata options hold: nothing, a type or a source without content,
\* content that can be read, content that cannot be read or parsed.
MetadataInputs == {"none", "incomplete", "content", "malformed"}

Options == [skip : BOOLEAN, dryRun : BOOLEAN, noWait : BOOLEAN, warn : BOOLEAN,
            metadata : MetadataInputs, attempts : Attempts, count : Packages]

\* opts.push_metadata_info
Infos == {"none", "content_invalid", "validation_failed", "attach_failed", "attached"}

SyncStates == {"absent", "pending", "synced", "failed", "unrecoverable"}

VARIABLES
    opts,        \* the options of this push
    pc, k, f,    \* location, package and file in hand
    left,        \* synchronisation attempts left
    given,       \* uploads whose identifiers replace the file names in kwargs
    attach,      \* should_attach_metadata
    info,        \* push_metadata_info
    reported,    \* per package: its info in the results, or "unreported"
    exit,        \* how the command ended
    createOk, metadataOk, filesOk,  \* the API: checks it has passed
    requested, stored, complete,    \* uploads requested, bytes received, finished
    contents,    \* the uploads each package was created from
    annotated,   \* packages with metadata
    sync,        \* the state of each package's synchronisation
    resyncs      \* resynchronisations requested for each package

progress == <<pc, k, f>>
memory   == <<left, given, attach, info>>
outcome  == <<reported, exit>>
checks   == <<createOk, metadataOk, filesOk>>
uploads  == <<requested, stored, complete>>
store    == <<contents, annotated, sync, resyncs>>
vars     == <<opts, progress, memory, outcome, checks, uploads, store>>

Locations ==
    {"resolve", "loop", "checkCreate", "checkMetadata", "checkFile", "request",
     "post", "part", "finishParts", "create", "attach", "poll", "resync", "end"}

Exits == {"none", "ok", "usage", "api", "sync"}

Init ==
    /\ opts \in Options
    /\ pc = "resolve" /\ k = 1 /\ f = 1
    /\ left = 0 /\ given = {} /\ attach = FALSE /\ info = "none"
    /\ reported = [j \in Packages |-> "unreported"] /\ exit = "none"
    /\ createOk = {} /\ metadataOk = {} /\ filesOk = {}
    /\ requested = {} /\ stored = [u \in Uploads |-> 0] /\ complete = {}
    /\ contents = [j \in Packages |-> {}] /\ annotated = {}
    /\ sync = [j \in Packages |-> "absent"]
    /\ resyncs = [j \in Packages |-> 0]

-----------------------------------------------------------------------------
(* Control                                                                  *)

Goto(location) == pc' = location /\ UNCHANGED <<k, f>>

\* ctx.exit, or a usage error
Stop(how) == exit' = how /\ Goto("end") /\ UNCHANGED reported

\* The loop over PACKAGE_FILEs goes on.
NextPackage == pc' = "loop" /\ k' = k + 1 /\ f' = 1

\* handle_api_exceptions: with --skip-errors the error reaches the loop, which
\* skips the package; otherwise the command exits.
ApiError == IF opts.skip THEN NextPackage /\ UNCHANGED outcome ELSE Stop("api")

\* upload_files_and_create_package returns the slugs, which go to the results.
Return(result) ==
    /\ reported' = [reported EXCEPT ![k] = result]
    /\ NextPackage /\ UNCHANGED exit

\* What follows the creation of a package and its metadata.
WaitOrReturn(result) ==
    IF opts.noWait
    THEN Return(result) /\ UNCHANGED left
    ELSE Goto("poll") /\ left' = opts.attempts - 1 /\ UNCHANGED outcome

-----------------------------------------------------------------------------
(* Before any upload                                                        *)

\* push_handler: metadata for several packages, content without a type or the
\* reverse are usage errors; unreadable content is one unless failures only warn.
Resolve ==
    /\ pc = "resolve"
    /\ IF \/ opts.count > 1 /\ opts.metadata # "none"
          \/ opts.metadata = "incomplete"
          \/ opts.metadata = "malformed" /\ ~opts.warn
       THEN Stop("usage")
       ELSE Goto("loop") /\ UNCHANGED outcome
    /\ UNCHANGED <<opts, memory, checks, uploads, store>>

\* Mutant: kwargs is shared by the packages, so the identifiers of an earlier
\* package are still in it.
LoopSharingKwargs ==
    /\ pc = "loop"
    /\ IF k > opts.count
       THEN Stop("ok") /\ UNCHANGED memory
       ELSE /\ Goto("checkCreate")
            /\ attach' = (opts.metadata = "content")
            /\ info'   = IF opts.metadata = "malformed" THEN "content_invalid" ELSE "none"
            /\ UNCHANGED <<given, left, outcome>>
    /\ UNCHANGED <<opts, checks, uploads, store>>

\* The next package file, or the end of the command.
Loop ==
    /\ pc = "loop"
    /\ IF k > opts.count
       THEN Stop("ok") /\ UNCHANGED memory
       ELSE /\ Goto("checkCreate")
            /\ given'  = {}
            /\ attach' = (opts.metadata = "content")
            /\ info'   = IF opts.metadata = "malformed" THEN "content_invalid" ELSE "none"
            /\ UNCHANGED <<left, outcome>>
    /\ UNCHANGED <<opts, checks, uploads, store>>

CheckCreate ==
    /\ pc = "checkCreate"
    /\ \/ /\ createOk' = createOk \cup {k}
          /\ Goto(IF attach THEN "checkMetadata" ELSE "checkFile")
          /\ UNCHANGED outcome
       \/ ApiError /\ UNCHANGED createOk
    /\ UNCHANGED <<opts, memory, metadataOk, filesOk, uploads, store>>

CheckMetadata ==
    /\ pc = "checkMetadata"
    /\ \/ /\ metadataOk' = metadataOk \cup {k}
          /\ Goto("checkFile") /\ UNCHANGED <<attach, info, outcome>>
       \/ /\ info' = "validation_failed"
          /\ IF opts.warn
             THEN attach' = FALSE /\ Goto("checkFile") /\ UNCHANGED outcome
             ELSE UNCHANGED attach /\ ApiError
          /\ UNCHANGED metadataOk
    /\ UNCHANGED <<opts, left, given, createOk, filesOk, uploads, store>>

\* Mutant: the first file that passes ends the checks.
CheckFileOnce ==
    /\ pc = "checkFile"
    /\ \/ /\ filesOk' = filesOk \cup {<<k, f>>}
          /\ IF opts.dryRun THEN NextPackage ELSE pc' = "request" /\ f' = 1 /\ UNCHANGED k
          /\ UNCHANGED outcome
       \/ ApiError /\ UNCHANGED filesOk
    /\ UNCHANGED <<opts, memory, createOk, metadataOk, uploads, store>>

\* validate_upload_file for one file; after the last, a dry run returns nothing.
CheckFile ==
    /\ pc = "checkFile"
    /\ \/ /\ filesOk' = filesOk \cup {<<k, f>>}
          /\ IF f < NumFiles
             THEN f' = f + 1 /\ UNCHANGED <<pc, k>>
             ELSE IF opts.dryRun
                  THEN NextPackage
                  ELSE pc' = "request" /\ f' = 1 /\ UNCHANGED k
          /\ UNCHANGED outcome
       \/ ApiError /\ UNCHANGED filesOk
    /\ UNCHANGED <<opts, memory, createOk, metadataOk, uploads, store>>

-----------------------------------------------------------------------------
(* Uploading the files in hand.  The upload itself is not under             *)
(* reraise_on_error: its failure ends the command, --skip-errors or not.    *)

\* projected_chunks > 1: a file of exactly one chunk is sent in parts as well.
IsMultiPart(u) == (Size[u] \div ChunkSize) + 1 > 1

\* The identifier of the upload replaces the file name.
NextFile ==
    /\ given' = given \cup {<<k, f>>}
    /\ UNCHANGED k
    /\ IF f < NumFiles THEN pc' = "request" /\ f' = f + 1
                       ELSE pc' = "create" /\ f' = 1

RequestUpload ==
    /\ pc = "request"
    /\ \/ /\ requested' = requested \cup {<<k, f>>}
          /\ Goto(IF IsMultiPart(<<k, f>>) THEN "part" ELSE "post")
          /\ UNCHANGED outcome
       \/ ApiError /\ UNCHANGED requested
    /\ UNCHANGED <<opts, memory, checks, stored, complete, store>>

PostFile ==
    /\ pc = "post"
    /\ \/ /\ stored' = [stored EXCEPT ![<<k, f>>] = Size[<<k, f>>]]
          /\ complete' = complete \cup {<<k, f>>}
          /\ NextFile /\ UNCHANGED outcome
       \/ Stop("api") /\ UNCHANGED <<given, stored, complete>>
    /\ UNCHANGED <<opts, left, attach, info, checks, requested, store>>

\* Mutant: the loop stops before a last part that is shorter than a chunk.
PutWholeChunks ==
    /\ pc = "part"
    /\ \/ /\ stored' = [stored EXCEPT ![<<k, f>>] = @ + ChunkSize]
          /\ Goto(IF stored'[<<k, f>>] + ChunkSize <= Size[<<k, f>>]
                  THEN "part" ELSE "finishParts")
          /\ UNCHANGED outcome
       \/ Stop("api") /\ UNCHANGED stored
    /\ UNCHANGED <<opts, memory, checks, requested, complete, store>>

\* One chunk is read and sent; reading nothing more ends the loop.
PutPart ==
    /\ pc = "part"
    /\ LET rest == Size[<<k, f>>] - stored[<<k, f>>]
           sent == IF rest < ChunkSize THEN rest ELSE ChunkSize
       IN \/ /\ stored' = [stored EXCEPT ![<<k, f>>] = @ + sent]
             /\ Goto(IF sent < rest THEN "part" ELSE "finishParts")
             /\ UNCHANGED outcome
          \/ Stop("api") /\ UNCHANGED stored
    /\ UNCHANGED <<opts, memory, checks, requested, complete, store>>

FinishParts ==
    /\ pc = "finishParts"
    /\ \/ complete' = complete \cup {<<k, f>>} /\ NextFile /\ UNCHANGED outcome
       \/ Stop("api") /\ UNCHANGED <<given, complete>>
    /\ UNCHANGED <<opts, left, attach, info, checks, requested, stored, store>>

-----------------------------------------------------------------------------
(* The package                                                              *)

\* The API creates the package from the uploads it is given, and starts to
\* synchronise it.
Created == /\ contents' = [contents EXCEPT ![k] = given]
           /\ sync' = [sync EXCEPT ![k] = "pending"]

CreatePackage ==
    /\ pc = "create"
    /\ \/ /\ Created
          /\ IF attach THEN Goto("attach") /\ UNCHANGED <<left, outcome>>
                       ELSE WaitOrReturn(info)
          /\ UNCHANGED <<given, attach, info>>
       \/ ApiError /\ UNCHANGED <<memory, contents, sync>>
    /\ UNCHANGED <<opts, checks, uploads, annotated, resyncs>>

\* The answer is lost; the transport repeats the POST, which may now be refused.
CreateAnswerLost ==
    /\ pc = "create" /\ contents[k] = {}
    /\ Created
    /\ UNCHANGED <<opts, progress, memory, outcome, checks, uploads, annotated, resyncs>>

\* Mutant: a failed attachment only warns, whatever the mode.
AttachLeniently ==
    /\ pc = "attach"
    /\ \/ annotated' = annotated \cup {k} /\ info' = "attached"
       \/ UNCHANGED annotated /\ info' = "attach_failed"
    /\ WaitOrReturn(info')
    /\ UNCHANGED <<opts, given, attach, checks, uploads, contents, sync, resyncs>>

AttachMetadata ==
    /\ pc = "attach"
    /\ \/ /\ annotated' = annotated \cup {k}
          /\ info' = "attached"
          /\ WaitOrReturn("attached")
       \/ /\ annotated' \in {annotated, annotated \cup {k}}  \* refused, or unanswered
          /\ info' = "attach_failed"
          /\ IF opts.warn THEN WaitOrReturn(info') ELSE ApiError /\ UNCHANGED left
    /\ UNCHANGED <<opts, given, attach, checks, uploads, contents, sync, resyncs>>

\* Mutant: the loop waits for success only.
PollForSuccess ==
    /\ pc = "poll" /\ sync[k] = "synced"
    /\ Return(info)
    /\ UNCHANGED <<opts, memory, checks, uploads, store>>

\* Mutant: a synchronisation that ended is taken for one that succeeded.
PollForEnd ==
    /\ pc = "poll" /\ sync[k] # "pending"
    /\ Return(info)
    /\ UNCHANGED <<opts, memory, checks, uploads, store>>

\* One run of the polling loop of wait_for_package_sync, which goes round while
\* the status is neither completed nor failed.  A reason with "package should be
\* deleted" ends the attempts.
Poll ==
    /\ pc = "poll" /\ sync[k] # "pending"
    /\ IF sync[k] = "synced"
       THEN Return(info) /\ UNCHANGED left
       ELSE LET remaining == IF sync[k] = "unrecoverable" /\ left > 1 THEN 0 ELSE left
            IN /\ left' = remaining
               /\ IF remaining > 0 THEN Goto("resync") /\ UNCHANGED outcome
                                   ELSE Stop("sync")
    /\ UNCHANGED <<opts, given, attach, info, checks, uploads, store>>

\* A status request fails.
PollFails ==
    /\ pc = "poll"
    /\ ApiError
    /\ UNCHANGED <<opts, memory, checks, uploads, store>>

\* Mutant: the recursive call leaves attempts to its default.
ResyncAnew ==
    /\ pc = "resync"
    /\ \/ /\ resyncs' = [resyncs EXCEPT ![k] = @ + 1]
          /\ sync' = [sync EXCEPT ![k] = "pending"]
          /\ left' = 3 - 1
          /\ Goto("poll") /\ UNCHANGED outcome
       \/ ApiError /\ UNCHANGED <<left, resyncs, sync>>
    /\ resyncs[k] < 5
    /\ UNCHANGED <<opts, given, attach, info, checks, uploads, contents, annotated>>

\* resync_package, and the recursive call with the attempts that are left
Resync ==
    /\ pc = "resync"
    /\ \/ /\ resyncs' = [resyncs EXCEPT ![k] = @ + 1]
          /\ sync' = [sync EXCEPT ![k] = "pending"]
          /\ left' = left - 1
          /\ Goto("poll") /\ UNCHANGED outcome
       \/ ApiError /\ UNCHANGED <<left, resyncs, sync>>
    /\ UNCHANGED <<opts, given, attach, info, checks, uploads, contents, annotated>>

\* The API ends the synchronisation of a package.
Synchronise ==
    /\ \E j \in Packages, state \in {"synced", "failed", "unrecoverable"} :
        sync[j] = "pending" /\ sync' = [sync EXCEPT ![j] = state]
    /\ UNCHANGED <<opts, progress, memory, outcome, checks, uploads,
                   contents, annotated, resyncs>>

\* The command has ended.
Ended == pc = "end" /\ UNCHANGED vars

Command ==
    \/ Resolve \/ Loop \/ CheckCreate \/ CheckMetadata \/ CheckFile
    \/ RequestUpload \/ PostFile \/ PutPart \/ FinishParts
    \/ CreatePackage \/ AttachMetadata \/ Poll \/ Resync

Next == Command \/ PollFails \/ CreateAnswerLost \/ Synchronise \/ Ended

Spec == Init /\ [][Next]_vars

\* The process is scheduled, and the API ends every synchronisation: the polling
\* loop has no deadline of its own.  No request for the status need ever fail.
FairSpec == Spec /\ WF_vars(Command) /\ WF_vars(Synchronise)

-----------------------------------------------------------------------------
(* Properties                                                               *)

ControlType ==
    /\ opts \in Options /\ pc \in Locations /\ exit \in Exits
    /\ k \in 1 .. NumPackages + 1 /\ f \in Files
    /\ pc \notin {"loop", "end"} => k \in Packages

MemoryType ==
    /\ left \in Int /\ given \subseteq Uploads /\ attach \in BOOLEAN /\ info \in Infos
    /\ reported \in [Packages -> Infos \cup {"unreported"}]

ApiType ==
    /\ createOk \subseteq Packages /\ metadataOk \subseteq Packages
    /\ filesOk \subseteq Uploads
    /\ requested \subseteq Uploads /\ complete \subseteq Uploads
    /\ stored \in [Uploads -> Nat] /\ \A u \in Uploads : stored[u] <= Size[u]
    /\ contents \in [Packages -> SUBSET Uploads] /\ annotated \subseteq Packages
    /\ sync \in [Packages -> SyncStates] /\ resyncs \in [Packages -> Nat]

\* Every variable holds a value of its type; no upload receives more bytes than
\* its file has.
TypeOK == ControlType /\ MemoryType /\ ApiType

\* Content that must not be lost: the push fails rather than go without it.
MetadataMatters == opts.metadata = "content" /\ ~opts.warn

Checked(j) ==
    /\ j \in createOk
    /\ MetadataMatters => j \in metadataOk
    /\ \A g \in Files : <<j, g>> \in filesOk

\* No upload is requested before every check of its package has passed, that of
\* the metadata included ("so a malformed payload does not produce an orphan
\* package", push.py:274), and none in a dry run.
NothingUploadedUnchecked ==
    \A u \in requested : Checked(u[1]) /\ ~opts.dryRun

OfPackage(j) == {j} \X Files

\* A package is created from its own files only, all of them, and each upload has
\* been finished with every byte of its file: the single request, the loop over
\* parts and the exact multiple of CHUNK_SIZE alike (push.py:506, files.py:114).
CreatedPackagesAreWhole ==
    \A j \in Packages : contents[j] # {} =>
        /\ contents[j] = OfPackage(j)
        /\ \A u \in contents[j] : u \in complete /\ stored[u] = Size[u]

\* --sync-attempts bounds the resynchronisations: the first attempt is the one
\* that follows the creation (wait_for_package_sync, push.py:815).
ResyncsBounded ==
    \A j \in Packages :
        resyncs[j] <= IF opts.attempts > 1 THEN opts.attempts - 1 ELSE 0

\* A push that ends with status 0, skips no errors and is no dry run has created
\* and reported every package, with its metadata unless failures only warn.
SuccessMeansEverything ==
    exit = "ok" /\ ~opts.skip /\ ~opts.dryRun =>
        \A j \in 1 .. opts.count :
            /\ contents[j] # {} /\ reported[j] # "unreported"
            /\ MetadataMatters => j \in annotated

\* The command ends: uploads in parts, polling and resynchronisations stop once
\* the API answers.
PushEnds == <>(pc = "end")

\* The push, with its checks, uploads in parts, retries and lost answers, does what
\* the user sees of it: it publishes the packages in order and reports none too early.
Promise == INSTANCE Publication WITH
               order <- [count |-> opts.count, waits |-> ~opts.noWait,
                         matters |-> MetadataMatters, lenient |-> opts.skip,
                         dry |-> opts.dryRun],
               turn <- k,
               created <- {j \in Packages : contents[j] # {}},
               annotated <- annotated,
               sync <- [j \in Packages |->
                           IF sync[j] = "unrecoverable" THEN "failed" ELSE sync[j]],
               results <- {j \in Packages : reported[j] # "unreported"},
               status <- CASE exit = "none" -> "running" [] exit = "ok" -> "ok"
                           [] OTHER -> "failed"
Publishes == Promise!Spec

\* However a push ends, without --skip-errors at most the package in hand exists and
\* is missing in the results: what to look at before it is repeated.
OnlyLastInDoubt == Promise!OnlyLastInDoubt

\* "Ignore API errors: print each error, then continue." (decorators.py:83): with
\* --skip-errors no API error ends the command.
SkipErrorsContinues == opts.skip => exit # "api"

=============================================================================
