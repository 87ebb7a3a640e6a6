------------------------- MODULE PushPipeline_proofs -------------------------
(***************************************************************************)
(* Theorems about PushPipeline, for every number of packages and files,    *)
(* every size of a file and of a chunk, and every --sync-attempts.         *)
(***************************************************************************)
EXTENDS PushPipeline, TLAPS

USE PushAssumption

-----------------------------------------------------------------------------
(* Type correctness                                                         *)

LEMMA InitType == Init => TypeOK
<1> SUFFICES ASSUME Init PROVE TypeOK
  OBVIOUS
<1> USE DEF Init
<1>1. ControlType
  BY DEF ControlType, Locations, Exits, Packages, Files
<1>2. MemoryType
  <2>1. reported \in [Packages -> Infos \cup {"unreported"}]
    OBVIOUS
  <2>2. left = 0 /\ given = {} /\ attach = FALSE /\ info = "none"
    OBVIOUS
  <2>3. left \in Int /\ given \subseteq Uploads /\ info \in Infos
    BY <2>2 DEF Infos
  <2>4. attach \in BOOLEAN
    BY <2>2
  <2> QED BY <2>1, <2>3, <2>4 DEF MemoryType
<1>3. \A u \in Uploads : 0 <= Size[u]
  OBVIOUS
<1>4. ApiType
  BY <1>3 DEF ApiType, SyncStates
<1> QED BY <1>1, <1>2, <1>4 DEF TypeOK

LEMMA AttemptsAreIntegers == TypeOK => opts.attempts \in Int
BY DEF TypeOK, ControlType, Options

LEMMA CountIsPackage == TypeOK => opts.count \in Packages
BY DEF TypeOK, ControlType, Options

LEMMA ControlTypeNext ==
    ASSUME TypeOK, [Next]_vars
    PROVE  ControlType'
<1> USE DEF TypeOK, ControlType, Locations, Exits, Packages, Files,
          Goto, Stop, NextPackage, ApiError, Return, WaitOrReturn, NextFile, Created,
          progress, memory, outcome, checks, uploads, store
<1>1. CASE Resolve
  BY <1>1 DEF Resolve
<1>2. CASE Loop
  <2>1. opts.count \in Packages
    BY CountIsPackage
  <2>. QED BY <1>2, <2>1 DEF Loop
<1>3. CASE CheckCreate
  BY <1>3 DEF CheckCreate
<1>4. CASE CheckMetadata
  BY <1>4 DEF CheckMetadata
<1>5. CASE CheckFile
  BY <1>5 DEF CheckFile
<1>6. CASE RequestUpload
  BY <1>6 DEF RequestUpload
<1>7. CASE PostFile
  BY <1>7 DEF PostFile
<1>8. CASE PutPart
  BY <1>8 DEF PutPart
<1>9. CASE FinishParts
  BY <1>9 DEF FinishParts
<1>10. CASE CreatePackage
  BY <1>10 DEF CreatePackage
<1>11. CASE AttachMetadata
  BY <1>11 DEF AttachMetadata
<1>12. CASE Poll
  BY <1>12 DEF Poll
<1>13. CASE PollFails
  BY <1>13 DEF PollFails
<1>14. CASE Resync
  BY <1>14 DEF Resync
<1>15. CASE CreateAnswerLost
  BY <1>15 DEF CreateAnswerLost
<1>16. CASE Synchronise
  BY <1>16 DEF Synchronise
<1>17. CASE UNCHANGED vars
  BY <1>17 DEF vars
<1> QED BY <1>1, <1>2, <1>3, <1>4, <1>5, <1>6, <1>7, <1>8, <1>9,
       <1>10, <1>11, <1>12, <1>13, <1>14, <1>15, <1>16, <1>17
    DEF Next, Command, Ended

LEMMA MemoryTypeNext ==
    ASSUME TypeOK, [Next]_vars
    PROVE  MemoryType'
<1> USE DEF TypeOK, MemoryType, Infos,
          Goto, Stop, NextPackage, ApiError, Return, WaitOrReturn, NextFile, Created,
          progress, memory, outcome, checks, uploads, store
<1>a. pc \notin {"loop", "end"} => k \in Packages /\ <<k, f>> \in Uploads
  BY DEF Uploads, ControlType
<1>1. CASE Resolve
  BY <1>1, <1>a DEF Resolve
<1>2. CASE Loop
  BY <1>2, <1>a DEF Loop
<1>3. CASE CheckCreate
  BY <1>3, <1>a DEF CheckCreate
<1>4. CASE CheckMetadata
  BY <1>4, <1>a DEF CheckMetadata
<1>5. CASE CheckFile
  BY <1>5, <1>a DEF CheckFile
<1>6. CASE RequestUpload
  BY <1>6, <1>a DEF RequestUpload
<1>7. CASE PostFile
  BY <1>7, <1>a DEF PostFile
<1>8. CASE PutPart
  BY <1>8, <1>a DEF PutPart
<1>9. CASE FinishParts
  BY <1>9, <1>a DEF FinishParts
<1>10. CASE CreatePackage
  BY <1>10, <1>a, AttemptsAreIntegers DEF CreatePackage
<1>11. CASE AttachMetadata
  BY <1>11, <1>a, AttemptsAreIntegers DEF AttachMetadata
<1>12. CASE Poll
  BY <1>12, <1>a DEF Poll
<1>13. CASE PollFails
  BY <1>13, <1>a DEF PollFails
<1>14. CASE Resync
  BY <1>14, <1>a DEF Resync
<1>15. CASE CreateAnswerLost
  BY <1>15, <1>a DEF CreateAnswerLost
<1>16. CASE Synchronise
  BY <1>16, <1>a DEF Synchronise
<1>17. CASE UNCHANGED vars
  BY <1>17 DEF vars
<1> QED BY <1>1, <1>2, <1>3, <1>4, <1>5, <1>6, <1>7, <1>8, <1>9,
       <1>10, <1>11, <1>12, <1>13, <1>14, <1>15, <1>16, <1>17
    DEF Next, Command, Ended

LEMMA ApiTypeNext ==
    ASSUME TypeOK, [Next]_vars
    PROVE  ApiType'
<1> USE DEF TypeOK, MemoryType, ApiType, SyncStates,
          Goto, Stop, NextPackage, ApiError, Return, WaitOrReturn, NextFile, Created,
          progress, memory, outcome, checks, uploads, store
<1>a. pc \notin {"loop", "end"} => k \in Packages /\ <<k, f>> \in Uploads
  BY DEF Uploads, ControlType
<1>1. CASE Resolve
  BY <1>1, <1>a DEF Resolve
<1>2. CASE Loop
  BY <1>2, <1>a DEF Loop
<1>3. CASE CheckCreate
  BY <1>3, <1>a DEF CheckCreate
<1>4. CASE CheckMetadata
  BY <1>4, <1>a DEF CheckMetadata
<1>5. CASE CheckFile
  BY <1>5, <1>a DEF CheckFile
<1>6. CASE RequestUpload
  BY <1>6, <1>a DEF RequestUpload
<1>7. CASE PostFile
  BY <1>7, <1>a DEF PostFile
<1>8. CASE PutPart
  <2> DEFINE u == <<k, f>>
             rest == Size[u] - stored[u]
             sent == IF rest < ChunkSize THEN rest ELSE ChunkSize
  <2>1. u \in Uploads /\ rest \in Nat
    BY <1>8, <1>a DEF PutPart
  <2>2. stored[u] + sent \in Nat /\ stored[u] + sent <= Size[u]
    BY <2>1
  <2>3. stored' = [stored EXCEPT ![u] = stored[u] + sent] \/ stored' = stored
    BY <1>8, <1>a DEF PutPart
  <2>4. stored' \in [Uploads -> Nat] /\ \A v \in Uploads : stored'[v] <= Size[v]
    BY <2>1, <2>2, <2>3
  <2>5. UNCHANGED <<checks, requested, complete, store>>
    BY <1>8, <1>a DEF PutPart
  <2> QED BY <2>4, <2>5
<1>9. CASE FinishParts
  BY <1>9, <1>a DEF FinishParts
<1>10. CASE CreatePackage
  BY <1>10, <1>a DEF CreatePackage
<1>11. CASE AttachMetadata
  BY <1>11, <1>a DEF AttachMetadata
<1>12. CASE Poll
  BY <1>12, <1>a DEF Poll
<1>13. CASE PollFails
  BY <1>13, <1>a DEF PollFails
<1>14. CASE Resync
  BY <1>14, <1>a DEF Resync
<1>15. CASE CreateAnswerLost
  BY <1>15, <1>a DEF CreateAnswerLost
<1>16. CASE Synchronise
  BY <1>16, <1>a DEF Synchronise
<1>17. CASE UNCHANGED vars
  BY <1>17 DEF vars
<1> QED BY <1>1, <1>2, <1>3, <1>4, <1>5, <1>6, <1>7, <1>8, <1>9,
       <1>10, <1>11, <1>12, <1>13, <1>14, <1>15, <1>16, <1>17
    DEF Next, Command, Ended

LEMMA NextType == TypeOK /\ [Next]_vars => TypeOK'
BY ControlTypeNext, MemoryTypeNext, ApiTypeNext DEF TypeOK

\* In every reachable state each variable holds a value of its type, a package is
\* in hand wherever one is needed, and no upload holds more than its file.
THEOREM TypeCorrect == Spec => []TypeOK
BY InitType, NextType, PTL DEF Spec

-----------------------------------------------------------------------------
(* Nothing is uploaded unchecked.  The location tells which checks of the   *)
(* package in hand have passed.                                             *)

Uploading == {"request", "post", "part", "finishParts", "create", "attach",
              "poll", "resync"}

ChecksInv ==
    /\ pc \in {"resolve", "loop", "checkCreate", "checkMetadata"} => f = 1
    /\ pc = "checkCreate" /\ MetadataMatters => attach
    /\ pc \in {"checkMetadata", "checkFile"} => k \in createOk
    /\ pc = "checkFile" =>
          /\ MetadataMatters => k \in metadataOk
          /\ \A g \in Files : g < f => <<k, g>> \in filesOk
    /\ pc \in Uploading => Checked(k) /\ ~opts.dryRun
    /\ NothingUploadedUnchecked

LEMMA ChecksNext ==
    ASSUME TypeOK, ChecksInv, [Next]_vars
    PROVE  ChecksInv'
<1> USE DEF TypeOK, ControlType, MemoryType, ChecksInv, NothingUploadedUnchecked, Checked,
          MetadataMatters, Uploading,
          Goto, Stop, NextPackage, ApiError, Return, WaitOrReturn, NextFile, Created,
          progress, memory, outcome, checks, uploads, store
<1>a. f = 1 => \A g \in Files : ~(g < f)
  BY DEF Files
<1>1. CASE Resolve
  BY <1>1 DEF Resolve
<1>2. CASE Loop
  BY <1>2 DEF Loop
<1>3. CASE CheckCreate
  <2>1. CASE ApiError /\ UNCHANGED createOk
    BY <1>3, <2>1 DEF CheckCreate
  <2>2. CASE createOk' = createOk \cup {k} /\ attach /\ Goto("checkMetadata")
    BY <1>3, <2>2 DEF CheckCreate
  <2>3. CASE createOk' = createOk \cup {k} /\ ~attach /\ Goto("checkFile")
    <3>1. ~MetadataMatters
      BY <1>3, <2>3 DEF CheckCreate
    <3> QED BY <1>3, <1>a, <2>3, <3>1 DEF CheckCreate
  <2> QED BY <1>3, <2>1, <2>2, <2>3 DEF CheckCreate
<1>4. CASE CheckMetadata
  <2>1. f = 1 /\ k \in createOk /\ UNCHANGED <<opts, createOk, filesOk, requested>>
    BY <1>4 DEF CheckMetadata
  <2>2. NothingUploadedUnchecked'
    BY <1>4, <2>1 DEF CheckMetadata
  <2>3. CASE metadataOk' = metadataOk \cup {k} /\ Goto("checkFile")
    BY <1>a, <2>1, <2>2, <2>3
  <2>4. CASE opts.warn /\ Goto("checkFile")
    BY <1>a, <2>1, <2>2, <2>4
  <2>5. CASE ApiError
    BY <2>1, <2>2, <2>5
  <2> QED BY <1>4, <2>3, <2>4, <2>5 DEF CheckMetadata
<1>5. CASE CheckFile
  <2>1. /\ k \in createOk /\ (MetadataMatters => k \in metadataOk)
        /\ \A g \in Files : g < f => <<k, g>> \in filesOk
        /\ f \in Files /\ UNCHANGED <<opts, createOk, metadataOk, requested>>
    BY <1>5 DEF CheckFile
  <2>2. filesOk' = filesOk \cup {<<k, f>>} \/ UNCHANGED filesOk
    BY <1>5 DEF CheckFile
  <2>3. NothingUploadedUnchecked'
    BY <2>1, <2>2
  <2>4. CASE ApiError
    BY <2>1, <2>3, <2>4
  <2>5. CASE /\ filesOk' = filesOk \cup {<<k, f>>}
             /\ f < NumFiles /\ f' = f + 1 /\ UNCHANGED <<pc, k>>
    <3>1. \A g \in Files : g < f' => g < f \/ g = f
      BY <2>1, <2>5 DEF Files
    <3> QED BY <1>5, <2>1, <2>3, <2>5, <3>1 DEF CheckFile
  <2>6. CASE filesOk' = filesOk \cup {<<k, f>>} /\ NextPackage
    BY <2>1, <2>3, <2>6
  <2>7. CASE /\ filesOk' = filesOk \cup {<<k, f>>} /\ ~(f < NumFiles) /\ ~opts.dryRun
             /\ pc' = "request" /\ UNCHANGED k
    <3>1. \A g \in Files : g < f \/ g = f
      BY <2>1, <2>7 DEF Files
    <3>2. \A g \in Files : <<k, g>> \in filesOk'
      BY <2>1, <2>7, <3>1
    <3>3. Checked(k)' /\ ~opts'.dryRun
      BY <2>1, <2>7, <3>2
    <3> HIDE DEF Checked
    <3> QED BY <2>3, <2>7, <3>3
  <2> QED BY <1>5, <2>4, <2>5, <2>6, <2>7 DEF CheckFile
<1>6. CASE RequestUpload
  BY <1>6 DEF RequestUpload
<1>7. CASE PostFile
  BY <1>7 DEF PostFile
<1>8. CASE PutPart
  BY <1>8 DEF PutPart
<1>9. CASE FinishParts
  BY <1>9 DEF FinishParts
<1>10. CASE CreatePackage
  BY <1>10 DEF CreatePackage
<1>11. CASE AttachMetadata
  BY <1>11 DEF AttachMetadata
<1>12. CASE Poll
  BY <1>12 DEF Poll
<1>13. CASE PollFails
  BY <1>13 DEF PollFails
<1>14. CASE Resync
  BY <1>14 DEF Resync
<1>15. CASE CreateAnswerLost
  BY <1>15 DEF CreateAnswerLost
<1>16. CASE Synchronise
  BY <1>16 DEF Synchronise
<1>17. CASE UNCHANGED vars
  BY <1>17 DEF vars
<1> QED BY <1>1, <1>2, <1>3, <1>4, <1>5, <1>6, <1>7, <1>8, <1>9,
       <1>10, <1>11, <1>12, <1>13, <1>14, <1>15, <1>16, <1>17
    DEF Next, Command, Ended

\* No upload is requested before the parameters, the metadata that matters and
\* every file of its package have passed their checks, and none in a dry run,
\* however many packages and files the push has and wherever it fails.
THEOREM UploadsAreChecked == Spec => []NothingUploadedUnchecked
<1>1. Init => ChecksInv
  BY DEF Init, ChecksInv, NothingUploadedUnchecked, Uploading
<1>2. TypeOK /\ ChecksInv /\ [Next]_vars => ChecksInv'
  BY ChecksNext
<1>3. ChecksInv => NothingUploadedUnchecked
  BY DEF ChecksInv
<1> QED BY <1>1, <1>2, <1>3, TypeCorrect, PTL DEF Spec

-----------------------------------------------------------------------------
(* Resynchronisations are bounded: what is spent and what is left never add *)
(* up to more than what the user gave.                                      *)

ResyncInv ==
    /\ \A j \in Packages :
          j > k \/ (j = k /\ pc \notin {"poll", "resync", "end"}) => resyncs[j] = 0
    /\ pc \in {"poll", "resync"} => left <= opts.attempts - 1
    /\ pc \in {"poll", "resync"} /\ left >= 0 => resyncs[k] + left <= opts.attempts - 1
    /\ pc = "poll" /\ left < 0 => resyncs[k] = 0
    /\ pc = "resync" => left > 0
    /\ ResyncsBounded

LEMMA ResyncNext ==
    ASSUME TypeOK, ResyncInv, [Next]_vars
    PROVE  ResyncInv'
<1> USE DEF TypeOK, ControlType, MemoryType, ApiType, ResyncInv, ResyncsBounded, Packages,
          Goto, Stop, NextPackage, ApiError, Return, WaitOrReturn, NextFile, Created,
          progress, memory, outcome, checks, uploads, store
<1>1. CASE Resolve
  BY <1>1, AttemptsAreIntegers DEF Resolve
<1>2. CASE Loop
  BY <1>2, AttemptsAreIntegers DEF Loop
<1>3. CASE CheckCreate
  BY <1>3, AttemptsAreIntegers DEF CheckCreate
<1>4. CASE CheckMetadata
  BY <1>4, AttemptsAreIntegers DEF CheckMetadata
<1>5. CASE CheckFile
  BY <1>5, AttemptsAreIntegers DEF CheckFile
<1>6. CASE RequestUpload
  BY <1>6, AttemptsAreIntegers DEF RequestUpload
<1>7. CASE PostFile
  BY <1>7, AttemptsAreIntegers DEF PostFile
<1>8. CASE PutPart
  BY <1>8, AttemptsAreIntegers DEF PutPart
<1>9. CASE FinishParts
  BY <1>9, AttemptsAreIntegers DEF FinishParts
<1>10. CASE CreatePackage
  BY <1>10, AttemptsAreIntegers DEF CreatePackage
<1>11. CASE AttachMetadata
  BY <1>11, AttemptsAreIntegers DEF AttachMetadata
<1>12. CASE Poll
  BY <1>12, AttemptsAreIntegers DEF Poll
<1>13. CASE PollFails
  BY <1>13, AttemptsAreIntegers DEF PollFails
<1>14. CASE Resync
  <2>1. k \in Packages /\ left > 0 /\ resyncs[k] + left <= opts.attempts - 1
    BY <1>14, AttemptsAreIntegers DEF Resync
  <2>2. CASE ApiError /\ UNCHANGED <<left, resyncs, sync>>
    <3>1. opts' = opts /\ resyncs' = resyncs
      BY <1>14, <2>2 DEF Resync
    <3>2. CASE pc' = "loop" /\ k' = k + 1
      BY <2>1, <3>1, <3>2
    <3>3. CASE pc' = "end" /\ k' = k
      BY <2>1, <3>1, <3>3
    <3> QED BY <2>2, <3>2, <3>3
  <2>3. CASE /\ resyncs' = [resyncs EXCEPT ![k] = @ + 1] /\ left' = left - 1
             /\ Goto("poll") /\ UNCHANGED outcome
    <3>1. resyncs'[k] + left' = resyncs[k] + left /\ resyncs'[k] \in Nat
      BY <2>1, <2>3
    <3>2. \A j \in Packages : j # k => resyncs'[j] = resyncs[j]
      BY <2>1, <2>3
    <3>3. opts' = opts /\ opts.attempts \in Int /\ k' = k
      BY <1>14, <2>3, AttemptsAreIntegers DEF Resync
    <3>4. ResyncsBounded'
      BY <2>1, <2>3, <3>1, <3>2, <3>3
    <3> QED BY <2>1, <2>3, <3>1, <3>2, <3>3, <3>4
  <2> QED BY <1>14, <2>2, <2>3 DEF Resync
<1>15. CASE CreateAnswerLost
  BY <1>15, AttemptsAreIntegers DEF CreateAnswerLost
<1>16. CASE Synchronise
  BY <1>16, AttemptsAreIntegers DEF Synchronise
<1>17. CASE UNCHANGED vars
  BY <1>17 DEF vars
<1> QED BY <1>1, <1>2, <1>3, <1>4, <1>5, <1>6, <1>7, <1>8, <1>9,
       <1>10, <1>11, <1>12, <1>13, <1>14, <1>15, <1>16, <1>17
    DEF Next, Command, Ended

\* Whatever the synchronisations end with, a package is resynchronised at most
\* --sync-attempts - 1 times.
THEOREM ResyncsAreBounded == Spec => []ResyncsBounded
<1>1. Init => ResyncInv
  BY InitType, AttemptsAreIntegers DEF Init, ResyncInv, ResyncsBounded, Packages
<1>2. TypeOK /\ ResyncInv /\ [Next]_vars => ResyncInv'
  BY ResyncNext
<1>3. ResyncInv => ResyncsBounded
  BY DEF ResyncInv
<1> QED BY <1>1, <1>2, <1>3, TypeCorrect, PTL DEF Spec

-----------------------------------------------------------------------------
(* Created packages are whole.                                              *)

Whole(u) == u \in complete /\ stored[u] = Size[u]

\* The identifiers in hand while the files are uploaded, and once they all are.
GivenSoFar == \A u \in Uploads : u \in given <=> u[1] = k /\ u[2] < f

\* What the identifiers in hand stand for, where the command is.
HandInv ==
    /\ pc \in {"checkCreate", "checkMetadata", "checkFile"} => given = {}
    /\ pc \in {"request", "post", "part", "finishParts"} => GivenSoFar
    /\ pc = "finishParts" => stored[<<k, f>>] = Size[<<k, f>>]
    /\ pc = "create" => given = OfPackage(k)
    /\ pc \in {"request", "post", "part", "finishParts", "create"} =>
          \A u \in given : Whole(u)

Late == {"create", "attach", "poll", "resync", "end"}

\* Only packages up to the one in hand have been created.
ContentsBehind ==
    \A j \in Packages : contents[j] # {} => j < k \/ (j = k /\ pc \in Late)

WholeInv == HandInv /\ ContentsBehind /\ CreatedPackagesAreWhole

\* A step that neither uploads nor creates anything.
LEMMA QuietStep ==
    ASSUME TypeOK, WholeInv, UNCHANGED <<complete, stored, contents>>, HandInv',
           k' = k + 1 \/ (k' = k /\ (pc' \in Late \/ pc \notin Late))
    PROVE  WholeInv'
<1>1. CreatedPackagesAreWhole'
  BY DEF WholeInv, CreatedPackagesAreWhole
<1>2. ContentsBehind'
  BY DEF WholeInv, ContentsBehind, TypeOK, ControlType, Packages
<1> QED BY <1>1, <1>2 DEF WholeInv

\* A step that uploads for a file whose identifier is not in hand yet leaves every
\* package that has been created whole.
LEMMA UploadStep ==
    ASSUME TypeOK, WholeInv, pc \notin Late, k \in Packages, contents' = contents,
           complete \subseteq complete',
           \A u \in Uploads : u # <<k, f>> => stored'[u] = stored[u]
    PROVE  CreatedPackagesAreWhole'
<1> SUFFICES ASSUME NEW j \in Packages, contents[j] # {}
             PROVE  /\ contents[j] = OfPackage(j)
                    /\ \A u \in contents[j] : u \in complete' /\ stored'[u] = Size[u]
  BY DEF CreatedPackagesAreWhole
<1>1. j # k
  BY DEF WholeInv, ContentsBehind, Packages
<1>2. \A u \in OfPackage(j) : u # <<k, f>> /\ u \in Uploads
  BY <1>1 DEF OfPackage, Uploads
<1> QED BY <1>2 DEF WholeInv, CreatedPackagesAreWhole

\* The next file is in hand, or the package is complete.
LEMMA NextFileStep ==
    ASSUME TypeOK, WholeInv, pc \in {"post", "finishParts"}, NextFile,
           <<k, f>> \in complete', stored'[<<k, f>>] = Size[<<k, f>>],
           complete \subseteq complete', contents' = contents,
           \A u \in Uploads : u # <<k, f>> => stored'[u] = stored[u]
    PROVE  WholeInv'
<1>1. k \in Packages /\ f \in Files /\ <<k, f>> \in Uploads /\ given \subseteq Uploads /\ f \in Nat
  BY DEF TypeOK, ControlType, MemoryType, Uploads, Files
<1>2. GivenSoFar
  BY DEF WholeInv, HandInv
<1>3. \A u \in given' : u \in Uploads /\ Whole(u)'
  BY <1>1 DEF WholeInv, HandInv, Whole, NextFile
<1>4. \A u \in Uploads : u[1] \in Packages /\ u[2] \in Files /\ u = <<u[1], u[2]>>
  BY DEF Uploads
<1>5. CASE f < NumFiles
  <2>1. \A u \in Uploads : u[2] < f + 1 <=> u[2] < f \/ u[2] = f
    BY <1>1, <1>4 DEF Files
  <2>2. \A u \in Uploads : u \in given' <=> u[1] = k /\ u[2] < f + 1
    BY <1>1, <1>2, <1>4, <2>1 DEF NextFile, GivenSoFar
  <2>3. GivenSoFar' /\ pc' = "request"
    BY <1>5, <2>2 DEF NextFile, GivenSoFar
  <2> QED BY <1>1, <1>3, <2>3, UploadStep DEF WholeInv, HandInv, ContentsBehind, Late, NextFile
<1>6. CASE ~(f < NumFiles)
  <2>1. \A u \in Uploads : u[2] < f \/ u[2] = f
    BY <1>1, <1>4, <1>6 DEF Files
  <2>2. \A u \in Uploads : u \in given' <=> u[1] = k
    BY <1>1, <1>2, <1>4, <2>1 DEF NextFile, GivenSoFar
  <2>3. \A u : u \in OfPackage(k) <=> u \in Uploads /\ u[1] = k
    BY <1>1 DEF OfPackage, Uploads
  <2>4. given' = OfPackage(k)
    BY <1>3, <2>2, <2>3
  <2>5. pc' = "create" /\ k' = k
    BY <1>6 DEF NextFile
  <2> QED BY <1>1, <1>3, <2>4, <2>5, UploadStep DEF WholeInv, HandInv, ContentsBehind, Late
<1> QED BY <1>5, <1>6

\* The package in hand is created from what is in hand, all of it whole.
LEMMA CreationStep ==
    ASSUME TypeOK, WholeInv, pc = "create", Created, UNCHANGED <<complete, stored>>,
           k' = k + 1 \/ (k' = k /\ pc' \in Late), HandInv'
    PROVE  WholeInv'
<1>1. k \in Packages /\ given = OfPackage(k) /\ \A u \in given : Whole(u)
  BY DEF TypeOK, ControlType, WholeInv, HandInv
<1>2. contents' = [contents EXCEPT ![k] = given] /\ contents \in [Packages -> SUBSET Uploads]
  BY DEF Created, TypeOK, ApiType
<1>3. CreatedPackagesAreWhole'
  BY <1>1, <1>2 DEF WholeInv, CreatedPackagesAreWhole, Whole
<1>4. ContentsBehind'
  BY <1>1, <1>2 DEF WholeInv, ContentsBehind, Packages, Late
<1> QED BY <1>3, <1>4 DEF WholeInv

LEMMA WholeNext ==
    ASSUME TypeOK, WholeInv, [Next]_vars
    PROVE  WholeInv'
<1> USE DEF Goto, Stop, NextPackage, ApiError, Return, WaitOrReturn,
          progress, memory, outcome, checks, uploads, store, Late
<1>1. HandInv /\ k \in Int
  BY DEF WholeInv, TypeOK, ControlType
<1>2. CASE Resolve
  BY <1>1, <1>2, QuietStep DEF Resolve, HandInv
<1>3. CASE Loop
  BY <1>1, <1>3, QuietStep DEF Loop, HandInv
<1>4. CASE CheckCreate
  BY <1>1, <1>4, QuietStep DEF CheckCreate, HandInv, GivenSoFar, Whole
<1>5. CASE CheckMetadata
  BY <1>1, <1>5, QuietStep DEF CheckMetadata, HandInv, GivenSoFar, Whole
<1>6. CASE RequestUpload
  BY <1>1, <1>6, QuietStep DEF RequestUpload, HandInv, GivenSoFar, Whole
<1>7. CASE AttachMetadata
  BY <1>1, <1>7, QuietStep DEF AttachMetadata, HandInv, GivenSoFar, Whole
<1>8. CASE Poll
  BY <1>1, <1>8, QuietStep DEF Poll, HandInv, GivenSoFar, Whole
<1>9. CASE PollFails
  BY <1>1, <1>9, QuietStep DEF PollFails, HandInv, GivenSoFar, Whole
<1>10. CASE Resync
  BY <1>1, <1>10, QuietStep DEF Resync, HandInv, GivenSoFar, Whole
<1>11. CASE Synchronise
  BY <1>1, <1>11, QuietStep DEF Synchronise, HandInv, GivenSoFar, Whole
<1>12. CASE CheckFile
  <2>1. UNCHANGED <<given, complete, stored, contents>> /\ given = {} /\ pc = "checkFile"
    BY <1>1, <1>12 DEF CheckFile, HandInv
  <2>2. CASE pc' \in {"checkFile", "loop", "end"}
    BY <1>12, <2>1, <2>2, QuietStep DEF CheckFile, HandInv
  <2>3. CASE pc' = "request" /\ f' = 1 /\ k' = k
    <3>1. \A u \in Uploads : ~(u[2] < 1)
      BY DEF Uploads, Files
    <3>2. GivenSoFar'
      BY <2>1, <2>3, <3>1 DEF GivenSoFar
    <3> QED BY <2>1, <2>3, <3>2, QuietStep DEF HandInv
  <2> QED BY <1>12, <2>2, <2>3 DEF CheckFile
<1>13. CASE PostFile
  <2>1. CASE Stop("api") /\ UNCHANGED <<given, stored, complete>>
    BY <1>1, <1>13, <2>1, QuietStep DEF PostFile, HandInv
  <2>2. CASE /\ stored' = [stored EXCEPT ![<<k, f>>] = Size[<<k, f>>]]
             /\ complete' = complete \cup {<<k, f>>}
             /\ NextFile /\ UNCHANGED outcome
    BY <1>13, <2>2, NextFileStep DEF PostFile, TypeOK, ControlType, ApiType, Uploads
  <2> QED BY <1>13, <2>1, <2>2 DEF PostFile
<1>14. CASE PutPart
  <2> DEFINE u == <<k, f>>
             rest == Size[u] - stored[u]
             sent == IF rest < ChunkSize THEN rest ELSE ChunkSize
  <2>1. /\ u \in Uploads /\ k \in Packages /\ Size[u] \in Nat /\ stored[u] \in Nat /\ stored[u] <= Size[u]
        /\ stored \in [Uploads -> Nat]
    BY <1>14 DEF PutPart, TypeOK, ControlType, ApiType, Uploads
  <2>2. pc = "part" /\ GivenSoFar /\ u \notin given /\ (\A v \in given : Whole(v)) /\ given \subseteq Uploads
    BY <1>1, <1>14, <2>1 DEF PutPart, HandInv, GivenSoFar, TypeOK, ControlType, MemoryType, Files
  <2>3. CASE Stop("api") /\ UNCHANGED stored
    BY <1>1, <1>14, <2>3, QuietStep DEF PutPart, HandInv
  <2>4. CASE /\ stored' = [stored EXCEPT ![u] = @ + sent]
             /\ Goto(IF sent < rest THEN "part" ELSE "finishParts")
    <3>1. UNCHANGED <<given, complete, contents, k, f>>
      BY <1>14, <2>4 DEF PutPart
    <3>2. \A v \in Uploads : v # u => stored'[v] = stored[v]
      BY <2>1, <2>4
    <3>3. pc' = "finishParts" => stored'[u] = Size[u]
      BY <2>1, <2>4
    <3>4. CreatedPackagesAreWhole'
      BY <2>1, <2>2, <3>1, <3>2, UploadStep
    <3>5. ContentsBehind'
      BY <2>2, <2>4, <3>1 DEF WholeInv, ContentsBehind
    <3>6. GivenSoFar' /\ \A v \in given' : Whole(v)'
      BY <2>2, <3>1, <3>2 DEF GivenSoFar, Whole
    <3>7. pc' \in {"part", "finishParts"}
      BY <2>4
    <3> QED BY <3>1, <3>3, <3>4, <3>5, <3>6, <3>7 DEF WholeInv, HandInv
  <2> QED BY <1>14, <2>3, <2>4 DEF PutPart
<1>15. CASE FinishParts
  <2>1. CASE Stop("api") /\ UNCHANGED <<given, complete>>
    BY <1>1, <1>15, <2>1, QuietStep DEF FinishParts, HandInv
  <2>2. CASE complete' = complete \cup {<<k, f>>} /\ NextFile /\ UNCHANGED outcome
    BY <1>1, <1>15, <2>2, NextFileStep DEF FinishParts, HandInv
  <2> QED BY <1>15, <2>1, <2>2 DEF FinishParts
<1>16. CASE CreatePackage
  <2>1. CASE ApiError /\ UNCHANGED <<memory, contents, sync>>
    BY <1>1, <1>16, <2>1, QuietStep DEF CreatePackage, HandInv
  <2>2. CASE Created /\ Goto("attach")
    BY <1>1, <1>16, <2>2, CreationStep DEF CreatePackage, HandInv
  <2>3. CASE Created /\ WaitOrReturn(info)
    BY <1>1, <1>16, <2>3, CreationStep DEF CreatePackage, HandInv
  <2> QED BY <1>16, <2>1, <2>2, <2>3 DEF CreatePackage
<1>17. CASE CreateAnswerLost
  BY <1>1, <1>17, CreationStep DEF CreateAnswerLost, HandInv, Whole
<1>18. CASE UNCHANGED vars
  BY <1>1, <1>18, QuietStep DEF vars, HandInv, GivenSoFar, Whole
<1> QED BY <1>2, <1>3, <1>4, <1>5, <1>6, <1>7, <1>8, <1>9, <1>10,
       <1>11, <1>12, <1>13, <1>14, <1>15, <1>16, <1>17, <1>18
    DEF Next, Command, Ended

\* Every package the API holds was created from all files of its own command line
\* entry and from no other, each uploaded to its last byte and finished, for all
\* sizes of files and chunks.
THEOREM PackagesAreWhole == Spec => []CreatedPackagesAreWhole
<1>1. Init => WholeInv
  BY DEF Init, WholeInv, HandInv, ContentsBehind, CreatedPackagesAreWhole
<1>2. TypeOK /\ WholeInv /\ [Next]_vars => WholeInv'
  BY WholeNext
<1>3. WholeInv => CreatedPackagesAreWhole
  BY DEF WholeInv
<1> QED BY <1>1, <1>2, <1>3, TypeCorrect, PTL DEF Spec

-----------------------------------------------------------------------------
(* A push that succeeds has done everything.                                *)

\* A push that neither skips errors nor only checks.
Strict == ~opts.skip /\ ~opts.dryRun

Done(j) ==
    /\ contents[j] # {} /\ reported[j] # "unreported"
    /\ MetadataMatters => j \in annotated

\* A strict push never leaves a package behind that is not done.
BehindIsDone == Strict /\ pc # "end" => \A j \in Packages : j < k => Done(j)

\* The package in hand: its metadata is still to be attached, or is there.
InHandGoesOn ==
    /\ pc \in {"attach", "poll", "resync"} => contents[k] # {}
    /\ MetadataMatters =>
          /\ pc \in {"checkCreate", "checkMetadata", "checkFile", "request", "post",
                     "part", "finishParts", "create", "attach"} => attach
          /\ pc \in {"poll", "resync"} => k \in annotated

\* Success is told at the end of the loop, and only there.
SuccessAtEnd == exit = "ok" => pc = "end"

DoneInv == BehindIsDone /\ InHandGoesOn /\ SuccessAtEnd /\ SuccessMeansEverything

\* A step of the package in hand, before or after its creation: what is behind
\* stays done, and the command does not end in success.
LEMMA SamePackage ==
    ASSUME TypeOK, DoneInv, opts' = opts, k' = k, reported' = reported,
           annotated \subseteq annotated', exit' # "ok",
           \A j \in Packages : contents[j] # {} => contents'[j] # {},
           pc # "end", InHandGoesOn'
    PROVE  DoneInv'
BY DEF DoneInv, BehindIsDone, SuccessAtEnd, SuccessMeansEverything, Strict, Done,
       MetadataMatters

\* The next package comes into hand: the one that was is done, or errors are
\* skipped, or this is a dry run.
LEMMA NextInHand ==
    ASSUME TypeOK, DoneInv, opts' = opts, k' = k + 1, pc' = "loop", exit' # "ok",
           annotated \subseteq annotated',
           \A j \in Packages : contents[j] # {} => contents'[j] # {},
           \A j \in Packages : j # k => reported'[j] = reported[j],
           pc # "end", Strict => \A j \in Packages : j = k => Done(j)'
    PROVE  DoneInv'
<1>1. k \in Int
  BY DEF TypeOK, ControlType
<1>2. \A j \in Packages : j < k + 1 => j < k \/ j = k
  BY <1>1 DEF Packages
<1>3. BehindIsDone'
  BY <1>1, <1>2 DEF DoneInv, BehindIsDone, Strict, Done, MetadataMatters, Packages
<1> QED BY <1>3 DEF DoneInv, InHandGoesOn, SuccessAtEnd, SuccessMeansEverything

\* The command ends, but not in success.
LEMMA FailureStep ==
    ASSUME pc' = "end", exit' # "ok"
    PROVE  DoneInv'
BY DEF DoneInv, BehindIsDone, InHandGoesOn, SuccessAtEnd, SuccessMeansEverything

\* An error of the API where the request changed nothing that is done.
LEMMA ErrorStep ==
    ASSUME TypeOK, DoneInv, ApiError, opts' = opts, annotated \subseteq annotated',
           contents' = contents, pc # "end"
    PROVE  DoneInv'
<1>1. CASE opts.skip
  <2>1. k' = k + 1 /\ pc' = "loop" /\ exit' = exit /\ reported' = reported
    BY <1>1 DEF ApiError, NextPackage, outcome
  <2>2. exit # "ok" /\ ~Strict
    BY <1>1 DEF DoneInv, SuccessAtEnd, Strict
  <2> QED BY <2>1, <2>2, NextInHand
<1>2. CASE ~opts.skip
  BY <1>2, FailureStep DEF ApiError, Stop, Goto
<1> QED BY <1>1, <1>2

\* The package that was created, with its metadata where it matters, is waited
\* for or reported.
LEMMA WaitStep ==
    ASSUME TypeOK, DoneInv, NEW result \in Infos, WaitOrReturn(result), opts' = opts,
           annotated \subseteq annotated', pc \in {"create", "attach"},
           \A j \in Packages : contents[j] # {} => contents'[j] # {},
           contents'[k] # {}, MetadataMatters => k \in annotated'
    PROVE  DoneInv'
<1>1. k \in Packages /\ reported \in [Packages -> Infos \cup {"unreported"}] /\ exit # "ok"
  BY DEF TypeOK, ControlType, MemoryType, DoneInv, SuccessAtEnd
<1>2. CASE opts.noWait
  <2>1. /\ reported' = [reported EXCEPT ![k] = result] /\ exit' = exit
        /\ pc' = "loop" /\ k' = k + 1
    BY <1>2 DEF WaitOrReturn, Return, NextPackage
  <2>2. reported'[k] # "unreported" /\ \A j \in Packages : j # k => reported'[j] = reported[j]
    BY <1>1, <2>1 DEF Infos
  <2>3. MetadataMatters' => MetadataMatters
    BY DEF MetadataMatters
  <2>4. \A j \in Packages : j = k => Done(j)'
    BY <2>2, <2>3 DEF Done
  <2> QED BY <1>1, <2>1, <2>2, <2>4, NextInHand
<1>3. CASE ~opts.noWait
  <2>1. pc' = "poll" /\ k' = k /\ reported' = reported /\ exit' = exit
    BY <1>3 DEF WaitOrReturn, Goto, outcome
  <2>2. InHandGoesOn'
    BY <2>1 DEF InHandGoesOn, MetadataMatters
  <2> QED BY <1>1, <2>1, <2>2, SamePackage
<1> QED BY <1>2, <1>3

LEMMA DoneNext ==
    ASSUME TypeOK, WholeInv, DoneInv, [Next]_vars
    PROVE  DoneInv'
<1> USE DEF Goto, progress, memory, outcome, checks, uploads, store
<1>a. InHandGoesOn /\ SuccessAtEnd /\ DoneInv
  BY DEF DoneInv
<1>b. pc \notin {"loop", "end"} => k \in Packages /\ info \in Infos
  BY DEF TypeOK, ControlType, MemoryType
<1>1. CASE Resolve
  BY <1>a, <1>1, FailureStep, SamePackage DEF Resolve, Stop, InHandGoesOn, SuccessAtEnd
<1>2. CASE Loop
  <2>1. CASE k > opts.count
    <3>1. pc' = "end" /\ UNCHANGED <<opts, contents, annotated, reported, k>>
      BY <1>2, <2>1 DEF Loop, Stop
    <3>2. opts.count \in Packages /\ k \in Int
      BY CountIsPackage DEF TypeOK, ControlType
    <3>3. \A j \in 1 .. opts.count : j \in Packages /\ j < k
      BY <2>1, <3>2 DEF Packages
    <3>4. Strict => \A j \in 1 .. opts.count : Done(j)
      BY <1>2, <3>3 DEF DoneInv, BehindIsDone, Loop
    <3>5. SuccessMeansEverything'
      BY <3>1, <3>4 DEF SuccessMeansEverything, Strict, Done, MetadataMatters
    <3> QED BY <3>1, <3>5 DEF DoneInv, BehindIsDone, InHandGoesOn, SuccessAtEnd
  <2>2. CASE ~(k > opts.count)
    BY <1>a, <1>2, <2>2, SamePackage DEF Loop, InHandGoesOn, SuccessAtEnd, MetadataMatters
  <2> QED BY <2>1, <2>2
<1>3. CASE CheckCreate
  <2>1. CASE ApiError /\ UNCHANGED createOk
    BY <1>a, <1>3, <2>1, ErrorStep DEF CheckCreate
  <2>2. CASE Goto(IF attach THEN "checkMetadata" ELSE "checkFile") /\ UNCHANGED outcome
    BY <1>a, <1>3, <2>2, SamePackage DEF CheckCreate, InHandGoesOn, SuccessAtEnd, MetadataMatters
  <2> QED BY <1>3, <2>1, <2>2 DEF CheckCreate
<1>4. CASE CheckMetadata
  <2>1. CASE ApiError
    BY <1>a, <1>4, <2>1, ErrorStep DEF CheckMetadata
  <2>2. CASE Goto("checkFile") /\ UNCHANGED outcome /\ (attach' = attach \/ opts.warn)
    BY <1>a, <1>4, <2>2, SamePackage DEF CheckMetadata, InHandGoesOn, SuccessAtEnd, MetadataMatters
  <2> QED BY <1>4, <2>1, <2>2 DEF CheckMetadata
<1>5. CASE CheckFile
  <2>1. CASE ApiError
    BY <1>a, <1>5, <2>1, ErrorStep DEF CheckFile
  <2>2. CASE opts.dryRun /\ NextPackage /\ UNCHANGED outcome
    BY <1>a, <1>5, <2>2, NextInHand DEF CheckFile, NextPackage, Strict, SuccessAtEnd
  <2>3. CASE pc' \in {"checkFile", "request"} /\ k' = k /\ UNCHANGED outcome
    BY <1>a, <1>5, <2>3, SamePackage DEF CheckFile, InHandGoesOn, SuccessAtEnd, MetadataMatters
  <2> QED BY <1>5, <2>1, <2>2, <2>3 DEF CheckFile
<1>6. CASE RequestUpload
  <2>1. CASE ApiError
    BY <1>a, <1>6, <2>1, ErrorStep DEF RequestUpload
  <2>2. CASE Goto(IF IsMultiPart(<<k, f>>) THEN "part" ELSE "post") /\ UNCHANGED outcome
    BY <1>a, <1>6, <2>2, SamePackage DEF RequestUpload, InHandGoesOn, SuccessAtEnd, MetadataMatters
  <2> QED BY <1>6, <2>1, <2>2 DEF RequestUpload
<1>7. CASE PostFile
  <2>1. CASE Stop("api")
    BY <2>1, FailureStep DEF Stop
  <2>2. CASE NextFile /\ UNCHANGED outcome
    <3>1. pc' \in {"request", "create"} /\ k' = k
      BY <2>2 DEF NextFile
    <3>2. UNCHANGED <<opts, attach, contents, annotated, exit, reported>> /\ pc = "post"
      BY <1>7, <2>2 DEF PostFile
    <3> QED BY <1>a, <3>1, <3>2, SamePackage DEF InHandGoesOn, SuccessAtEnd, MetadataMatters
  <2> QED BY <1>7, <2>1, <2>2 DEF PostFile
<1>8. CASE PutPart
  <2>1. CASE Stop("api")
    BY <2>1, FailureStep DEF Stop
  <2>2. CASE pc' \in {"part", "finishParts"} /\ k' = k /\ UNCHANGED outcome
    BY <1>a, <1>8, <2>2, SamePackage DEF PutPart, InHandGoesOn, SuccessAtEnd, MetadataMatters
  <2> QED BY <1>8, <2>1, <2>2 DEF PutPart
<1>9. CASE FinishParts
  <2>1. CASE Stop("api")
    BY <2>1, FailureStep DEF Stop
  <2>2. CASE NextFile /\ UNCHANGED outcome
    <3>1. pc' \in {"request", "create"} /\ k' = k
      BY <2>2 DEF NextFile
    <3>2. UNCHANGED <<opts, attach, contents, annotated, exit, reported>> /\ pc = "finishParts"
      BY <1>9, <2>2 DEF FinishParts
    <3> QED BY <1>a, <3>1, <3>2, SamePackage DEF InHandGoesOn, SuccessAtEnd, MetadataMatters
  <2> QED BY <1>9, <2>1, <2>2 DEF FinishParts
<1>10. CASE CreatePackage
  <2>1. CASE ApiError /\ UNCHANGED <<memory, contents, sync>>
    BY <1>a, <1>10, <2>1, ErrorStep DEF CreatePackage
  <2>2. given # {} /\ k \in Packages
    <3>1. 1 \in Files /\ k \in Packages /\ given = OfPackage(k)
      BY <1>b, <1>10 DEF CreatePackage, WholeInv, HandInv, Files
    <3>2. <<k, 1>> \in OfPackage(k)
      BY <3>1 DEF OfPackage
    <3> QED BY <3>1, <3>2
  <2>3. ASSUME Created
        PROVE  /\ contents'[k] # {}
               /\ \A j \in Packages : contents[j] # {} => contents'[j] # {}
    BY <2>2, <2>3 DEF Created, TypeOK, ApiType
  <2>4. CASE Created /\ attach /\ Goto("attach") /\ UNCHANGED <<left, outcome>>
    BY <1>a, <1>10, <2>3, <2>4, SamePackage
       DEF CreatePackage, InHandGoesOn, SuccessAtEnd, MetadataMatters
  <2>5. CASE Created /\ ~attach /\ WaitOrReturn(info)
    BY <1>a, <1>b, <1>10, <2>3, <2>5, WaitStep DEF CreatePackage, InHandGoesOn
  <2> QED BY <1>10, <2>1, <2>4, <2>5 DEF CreatePackage
<1>11. CASE CreateAnswerLost
  <2>1. k \in Packages /\ given # {}
    <3>1. 1 \in Files /\ k \in Packages /\ given = OfPackage(k)
      BY <1>b, <1>11 DEF CreateAnswerLost, WholeInv, HandInv, Files
    <3>2. <<k, 1>> \in OfPackage(k)
      BY <3>1 DEF OfPackage
    <3> QED BY <3>1, <3>2
  <2>2. \A j \in Packages : contents[j] # {} => contents'[j] # {}
    BY <1>11, <2>1 DEF CreateAnswerLost, Created, TypeOK, ApiType
  <2> QED BY <1>a, <1>11, <2>2, SamePackage
          DEF CreateAnswerLost, InHandGoesOn, SuccessAtEnd, MetadataMatters
<1>12. CASE AttachMetadata
  <2>1. pc = "attach" /\ k \in Packages /\ contents[k] # {} /\ contents' = contents /\ opts' = opts
    BY <1>a, <1>b, <1>12 DEF AttachMetadata, InHandGoesOn
  <2>2. CASE annotated' = annotated \cup {k} /\ WaitOrReturn("attached")
    BY <1>a, <2>1, <2>2, WaitStep DEF Infos
  <2>3. CASE annotated \subseteq annotated' /\ opts.warn /\ WaitOrReturn("attach_failed")
    BY <1>a, <2>1, <2>3, WaitStep DEF Infos, MetadataMatters
  <2>4. CASE annotated \subseteq annotated' /\ ApiError
    BY <1>a, <2>1, <2>4, ErrorStep
  <2> QED BY <1>12, <2>2, <2>3, <2>4 DEF AttachMetadata
<1>13. CASE Poll
  <2>1. /\ pc = "poll" /\ k \in Packages /\ contents[k] # {} /\ info \in Infos
        /\ MetadataMatters => k \in annotated
        /\ UNCHANGED <<opts, contents, annotated>>
    BY <1>a, <1>b, <1>13 DEF Poll, InHandGoesOn
  <2>2. CASE Return(info)
    <3>1. reported' = [reported EXCEPT ![k] = info] /\ exit' = exit /\ pc' = "loop" /\ k' = k + 1
      BY <2>2 DEF Return, NextPackage
    <3>2. reported'[k] # "unreported" /\ \A j \in Packages : j # k => reported'[j] = reported[j]
      BY <2>1, <3>1 DEF Infos, TypeOK, MemoryType
    <3>3. \A j \in Packages : j = k => Done(j)'
      BY <2>1, <3>2 DEF Done, MetadataMatters
    <3> QED BY <1>a, <2>1, <3>1, <3>2, <3>3, NextInHand DEF SuccessAtEnd
  <2>3. CASE Goto("resync") /\ UNCHANGED outcome
    BY <1>a, <2>1, <2>3, SamePackage DEF InHandGoesOn, SuccessAtEnd, MetadataMatters
  <2>4. CASE Stop("sync")
    BY <2>4, FailureStep DEF Stop
  <2> QED BY <1>13, <2>2, <2>3, <2>4 DEF Poll
<1>14. CASE PollFails
  BY <1>a, <1>14, ErrorStep DEF PollFails
<1>15. CASE Resync
  <2>1. CASE ApiError
    BY <1>a, <1>15, <2>1, ErrorStep DEF Resync
  <2>2. CASE Goto("poll") /\ UNCHANGED outcome
    BY <1>a, <1>15, <2>2, SamePackage DEF Resync, InHandGoesOn, SuccessAtEnd, MetadataMatters
  <2> QED BY <1>15, <2>1, <2>2 DEF Resync
<1>16. CASE Synchronise
  BY <1>a, <1>16 DEF Synchronise, DoneInv, BehindIsDone, InHandGoesOn, SuccessAtEnd,
     SuccessMeansEverything, Strict, Done, MetadataMatters
<1>17. CASE UNCHANGED vars
  BY <1>a, <1>17 DEF vars, DoneInv, BehindIsDone, InHandGoesOn, SuccessAtEnd,
     SuccessMeansEverything, Strict, Done, MetadataMatters
<1> QED BY <1>1, <1>2, <1>3, <1>4, <1>5, <1>6, <1>7, <1>8, <1>9,
       <1>10, <1>11, <1>12, <1>13, <1>14, <1>15, <1>16, <1>17
    DEF Next, Command, Ended

\* A push that ends with status 0, skips no errors and is no dry run has created
\* and reported every package on its command line, with its metadata where that
\* matters, whatever answers the API gives and however many packages there are.
THEOREM SuccessIsEverything == Spec => []SuccessMeansEverything
<1>1. Init => WholeInv /\ DoneInv
  BY DEF Init, WholeInv, HandInv, ContentsBehind, CreatedPackagesAreWhole,
         DoneInv, BehindIsDone, InHandGoesOn, SuccessAtEnd, SuccessMeansEverything, Packages
<1>2. TypeOK /\ WholeInv /\ DoneInv /\ [Next]_vars => WholeInv' /\ DoneInv'
  BY WholeNext, DoneNext
<1>3. DoneInv => SuccessMeansEverything
  BY DEF DoneInv
<1> QED BY <1>1, <1>2, <1>3, TypeCorrect, PTL DEF Spec

-----------------------------------------------------------------------------
(* The push implements Publication                                          *)

\* The package in hand is on the command line, and a resynchronisation follows
\* a synchronisation that failed.
TurnInv ==
    /\ pc = "resolve" => k = 1
    /\ pc \notin {"resolve", "loop", "end"} => k <= opts.count
    /\ pc # "end" => k <= opts.count + 1
    /\ exit = "none" <=> pc # "end"
    /\ pc \in {"attach", "poll", "resync"} => sync[k] # "absent"
    /\ pc = "resync" => sync[k] \in {"failed", "unrecoverable"}

LEMMA TurnNext ==
    ASSUME TypeOK, TurnInv, [Next]_vars
    PROVE  TurnInv'
<1> USE DEF TurnInv, Goto, Stop, NextPackage, ApiError, Return, progress, memory, outcome,
            checks, uploads, store
<1>a. /\ k \in Int /\ opts.count \in Int /\ opts.count >= 1
      /\ pc \in Locations /\ exit \in Exits
      /\ pc \notin {"loop", "end"} => k \in Packages
      /\ sync \in [Packages -> SyncStates]
  BY CountIsPackage DEF TypeOK, ControlType, ApiType, Packages
<1>1. CASE Resolve
  BY <1>a, <1>1 DEF Resolve
<1>2. CASE Loop
  BY <1>a, <1>2 DEF Loop
<1>3. CASE CheckCreate
  BY <1>a, <1>3 DEF CheckCreate
<1>4. CASE CheckMetadata
  BY <1>a, <1>4 DEF CheckMetadata
<1>5. CASE CheckFile
  BY <1>a, <1>5 DEF CheckFile
<1>6. CASE RequestUpload
  BY <1>a, <1>6 DEF RequestUpload
<1>7. CASE PostFile \/ FinishParts
  BY <1>a, <1>7 DEF PostFile, FinishParts, NextFile
<1>8. CASE PutPart
  BY <1>a, <1>8 DEF PutPart
<1>9. CASE CreatePackage
  BY <1>a, <1>9 DEF CreatePackage, WaitOrReturn, Created
<1>10. CASE AttachMetadata
  BY <1>a, <1>10 DEF AttachMetadata, WaitOrReturn
<1>11. CASE Poll
  BY <1>a, <1>11 DEF Poll, SyncStates
<1>12. CASE Resync
  BY <1>a, <1>12 DEF Resync
<1>13. CASE PollFails \/ CreateAnswerLost
  BY <1>a, <1>13 DEF PollFails, CreateAnswerLost
<1>14. CASE Synchronise
  BY <1>a, <1>14 DEF Synchronise
<1>15. CASE UNCHANGED vars
  BY <1>15 DEF vars
<1> QED BY <1>1, <1>2, <1>3, <1>4, <1>5, <1>6, <1>7, <1>8, <1>9, <1>10, <1>11, <1>12,
           <1>13, <1>14, <1>15
        DEF Next, Command, Ended

\* The server's side of a step.
LEMMA NothingMaps ==
    UNCHANGED <<contents, annotated, sync>> => UNCHANGED Promise!server
BY DEF Promise!server

LEMMA CreateMaps ==
    ASSUME TypeOK, k \in Packages, given # {}, ~opts.dryRun, Created, annotated' = annotated
    PROVE  Promise!Create
<1>1. contents' = [contents EXCEPT ![k] = given] /\ sync' = [sync EXCEPT ![k] = "pending"]
  BY DEF Created
<1>2. contents \in [Packages -> SUBSET Uploads] /\ sync \in [Packages -> SyncStates]
  BY DEF TypeOK, ApiType
<1>3. {j \in Packages : contents'[j] # {}} = {j \in Packages : contents[j] # {}} \cup {k}
  BY <1>1, <1>2
<1>4. [j \in Packages |-> IF sync'[j] = "unrecoverable" THEN "failed" ELSE sync'[j]]
      = [[j \in Packages |-> IF sync[j] = "unrecoverable" THEN "failed" ELSE sync[j]]
            EXCEPT ![k] = "pending"]
  BY <1>1, <1>2
<1> QED BY <1>3, <1>4 DEF Promise!Create

LEMMA AnnotateMaps ==
    ASSUME k \in Packages, contents[k] # {}, annotated' = annotated \cup {k},
           UNCHANGED <<contents, sync>>
    PROVE  Promise!Annotate
BY DEF Promise!Annotate

LEMMA ResyncMaps ==
    ASSUME TypeOK, k \in Packages, contents[k] # {}, sync[k] \in {"failed", "unrecoverable"},
           sync' = [sync EXCEPT ![k] = "pending"], UNCHANGED <<contents, annotated>>
    PROVE  Promise!Resync
<1>1. sync \in [Packages -> SyncStates]
  BY DEF TypeOK, ApiType
<1>2. [j \in Packages |-> IF sync'[j] = "unrecoverable" THEN "failed" ELSE sync'[j]]
      = [[j \in Packages |-> IF sync[j] = "unrecoverable" THEN "failed" ELSE sync[j]]
            EXCEPT ![k] = "pending"]
  BY <1>1
<1>3. [j \in Packages |-> IF sync[j] = "unrecoverable" THEN "failed" ELSE sync[j]][k] = "failed"
  OBVIOUS
<1> QED BY <1>2, <1>3 DEF Promise!Resync

\* The command's side.
LEMMA StayMaps ==
    UNCHANGED <<k, reported, exit>> => Promise!Stay
BY DEF Promise!Stay

LEMMA ReportMaps ==
    ASSUME TypeOK, k \in Packages, contents'[k] # {}, NEW result \in Infos, Return(result),
           ~opts.noWait => sync'[k] = "synced", MetadataMatters => k \in annotated'
    PROVE  Promise!Report
<1>1. reported' = [reported EXCEPT ![k] = result] /\ k' = k + 1 /\ exit' = exit
  BY DEF Return, NextPackage
<1>2. reported \in [Packages -> Infos \cup {"unreported"}] /\ "unreported" \notin Infos
  BY DEF TypeOK, MemoryType, Infos
<1>3. {j \in Packages : reported'[j] # "unreported"}
      = {j \in Packages : reported[j] # "unreported"} \cup {k}
  BY <1>1, <1>2
<1>4. k \in {j \in Packages : contents'[j] # {}}
  OBVIOUS
<1>5. ~opts.noWait =>
        [j \in Packages |-> IF sync'[j] = "unrecoverable" THEN "failed" ELSE sync'[j]][k]
        = "synced"
  OBVIOUS
<1> QED BY <1>1, <1>3, <1>4, <1>5 DEF Promise!Report

LEMMA PassMaps ==
    ASSUME opts.skip \/ opts.dryRun, NextPackage, UNCHANGED outcome
    PROVE  Promise!Pass
BY DEF Promise!Pass, NextPackage, outcome

LEMMA AbortMaps ==
    ASSUME NEW how \in {"usage", "api", "sync"}, Stop(how)
    PROVE  Promise!Abort
BY DEF Promise!Abort, Stop, Goto

LEMMA ErrorMaps == ApiError => Promise!Pass \/ Promise!Abort
BY PassMaps, AbortMaps DEF ApiError

\* Both sides make a step of Publication.
LEMMA PublishMaps ==
    ASSUME TypeOK, TurnInv, pc \notin {"loop", "end"}, opts' = opts,
           Promise!Create \/ Promise!Annotate \/ Promise!Resync \/ UNCHANGED Promise!server,
           Promise!Stay \/ Promise!Report \/ Promise!Pass \/ Promise!Abort
    PROVE  Promise!Publish
<1>1. exit = "none" /\ k <= opts.count
  BY CountIsPackage DEF TurnInv, TypeOK, ControlType, Packages
<1>2. MetadataMatters' = MetadataMatters
  BY DEF MetadataMatters
<1> QED BY <1>1, <1>2 DEF Promise!Publish

LEMMA StepPublishes ==
    ASSUME TypeOK, ChecksInv, WholeInv, DoneInv, TurnInv, [Next]_vars
    PROVE  [Promise!Next]_(Promise!vars)
<1> USE DEF Goto, progress, memory, outcome, checks, uploads, store
<1> DEFINE server  == Promise!Create \/ Promise!Annotate \/ Promise!Resync
                      \/ UNCHANGED Promise!server
           command == Promise!Stay \/ Promise!Report \/ Promise!Pass \/ Promise!Abort
<1>a. InHandGoesOn /\ (pc \notin {"loop", "end"} => k \in Packages /\ info \in Infos)
  BY DEF DoneInv, TypeOK, ControlType, MemoryType
<1>b. pc \in Uploading => ~opts.dryRun
  BY DEF ChecksInv
<1>c. ASSUME server, command, pc \notin {"loop", "end"}, opts' = opts PROVE Promise!Next
  BY <1>c, PublishMaps DEF Promise!Next
\* Steps that the user does not see.
<1>d. ASSUME UNCHANGED <<opts, k, contents, annotated, sync, reported, exit>>
      PROVE  UNCHANGED Promise!vars
  BY <1>d DEF Promise!vars, Promise!server, MetadataMatters
\* The package is made of its files, so it is made of something.
<1>e. pc = "create" => given # {} /\ k \in Packages
  <2>1. pc = "create" => 1 \in Files /\ k \in Packages /\ given = OfPackage(k)
    BY <1>a DEF WholeInv, HandInv, Files
  <2>2. k \in Packages /\ 1 \in Files => <<k, 1>> \in OfPackage(k)
    BY DEF OfPackage
  <2> QED BY <2>1, <2>2
<1>1. CASE Resolve
  <2>1. CASE Stop("usage")
    <3>1. server /\ command /\ pc = "resolve" /\ opts' = opts
      BY <1>1, <2>1, AbortMaps, NothingMaps DEF Resolve
    <3> HIDE DEF server, command
    <3> QED BY <1>c, <3>1
  <2>2. CASE UNCHANGED <<k, reported, exit>>
    BY <1>1, <1>d, <2>2 DEF Resolve
  <2> QED BY <1>1, <2>1, <2>2 DEF Resolve
<1>2. CASE Loop
  <2>1. CASE k > opts.count
    <3>1. /\ k = opts.count + 1 /\ exit = "none" /\ exit' = "ok"
          /\ UNCHANGED <<opts, k, contents, annotated, sync, reported>>
      BY <1>2, <2>1, CountIsPackage DEF Loop, Stop, TurnInv, TypeOK, ControlType, Packages
    <3>2. MetadataMatters' = MetadataMatters
      BY <3>1 DEF MetadataMatters
    <3>3. Promise!Finish
      BY <3>1, <3>2 DEF Promise!Finish, Promise!server
    <3> QED BY <3>3 DEF Promise!Next
  <2>2. CASE ~(k > opts.count)
    BY <1>2, <1>d, <2>2 DEF Loop
  <2> QED BY <2>1, <2>2
\* The steps before the creation.
<1>3. CASE CheckCreate \/ CheckMetadata \/ CheckFile \/ RequestUpload
           \/ PostFile \/ PutPart \/ FinishParts
  <2>1. /\ pc \notin {"loop", "end"} /\ UNCHANGED <<opts, contents, annotated, sync>>
        /\ UNCHANGED Promise!server
    BY <1>3, NothingMaps DEF CheckCreate, CheckMetadata, CheckFile, RequestUpload, PostFile,
       PutPart, FinishParts
  <2>2. \/ UNCHANGED <<k, reported, exit>> \/ ApiError \/ Stop("api")
        \/ opts.dryRun /\ NextPackage /\ UNCHANGED outcome
    BY <1>3 DEF CheckCreate, CheckMetadata, CheckFile, RequestUpload, PostFile, PutPart,
       FinishParts, NextFile
  <2>3. command
    BY <2>2, StayMaps, ErrorMaps, AbortMaps, PassMaps
  <2> HIDE DEF command
  <2> QED BY <1>c, <2>1, <2>3
<1>4. CASE CreatePackage
  <2>1. pc = "create" /\ opts' = opts /\ annotated' = annotated /\ ~opts.dryRun
    BY <1>4, <1>b DEF CreatePackage, Uploading
  <2>2. CASE ApiError /\ UNCHANGED <<contents, sync>>
    <3>1. server /\ command
      BY <2>1, <2>2, ErrorMaps, NothingMaps
    <3> HIDE DEF server, command
    <3> QED BY <1>c, <2>1, <3>1
  <2>3. CASE /\ Created
             /\ \/ UNCHANGED outcome /\ k' = k
                \/ ~attach /\ WaitOrReturn(info)
    <3>1. Promise!Create
      BY <1>e, <2>1, <2>3, CreateMaps
    <3>2. command
      <4>1. CASE UNCHANGED outcome /\ k' = k
        BY <4>1, StayMaps
      <4>2. CASE ~attach /\ opts.noWait /\ Return(info)
        <5>1. contents'[k] # {}
          BY <1>e, <2>1, <2>3 DEF Created, TypeOK, ApiType
        <5>2. ~MetadataMatters
          BY <1>a, <2>1, <4>2 DEF InHandGoesOn
        <5> QED BY <1>a, <1>e, <2>1, <4>2, <5>1, <5>2, ReportMaps
      <4> QED BY <2>3, <4>1, <4>2 DEF WaitOrReturn
    <3> HIDE DEF command
    <3> QED BY <1>c, <2>1, <3>1, <3>2
  <2> QED BY <1>4, <2>2, <2>3 DEF CreatePackage
<1>5. CASE CreateAnswerLost
  <2>1. /\ pc = "create" /\ UNCHANGED <<opts, annotated, k, reported, exit>> /\ ~opts.dryRun
        /\ Created
    BY <1>5, <1>b DEF CreateAnswerLost, Uploading
  <2>2. Promise!Create /\ Promise!Stay
    BY <1>e, <2>1, CreateMaps, StayMaps
  <2> QED BY <1>c, <2>1, <2>2
<1>6. CASE AttachMetadata
  <2>1. /\ pc = "attach" /\ UNCHANGED <<opts, contents, sync>> /\ k \in Packages
        /\ contents[k] # {} /\ annotated' \in {annotated, annotated \cup {k}}
    BY <1>6, <1>a DEF AttachMetadata, InHandGoesOn
  <2>2. server
    BY <2>1, AnnotateMaps, NothingMaps
  <2>3. command
    <3>1. CASE ApiError
      BY <3>1, ErrorMaps
    <3>2. ASSUME NEW result \in Infos, WaitOrReturn(result), MetadataMatters => k \in annotated'
          PROVE  command
      <4>1. CASE opts.noWait
        BY <2>1, <3>2, <4>1, ReportMaps DEF WaitOrReturn
      <4>2. CASE ~opts.noWait
        BY <3>2, <4>2, StayMaps DEF WaitOrReturn
      <4> QED BY <4>1, <4>2
    <3>3. CASE annotated' = annotated \cup {k} /\ WaitOrReturn("attached")
      BY <3>2, <3>3 DEF Infos
    <3>4. CASE opts.warn /\ WaitOrReturn("attach_failed")
      BY <3>2, <3>4 DEF Infos, MetadataMatters
    <3> HIDE DEF command
    <3> QED BY <1>6, <3>1, <3>3, <3>4 DEF AttachMetadata
  <2> HIDE DEF server, command
  <2> QED BY <1>c, <2>1, <2>2, <2>3
<1>7. CASE Poll \/ PollFails
  <2>1. /\ pc = "poll" /\ UNCHANGED <<opts, contents, annotated, sync>> /\ k \in Packages
        /\ contents[k] # {} /\ (MetadataMatters => k \in annotated) /\ info \in Infos
    BY <1>7, <1>a DEF Poll, PollFails, InHandGoesOn
  <2>2. \/ Return(info) /\ sync[k] = "synced"
        \/ UNCHANGED <<k, reported, exit>> \/ Stop("sync") \/ ApiError
    BY <1>7 DEF Poll, PollFails
  <2>3. command
    BY <2>1, <2>2, ReportMaps, StayMaps, AbortMaps, ErrorMaps
  <2>4. UNCHANGED Promise!server
    BY <2>1, NothingMaps
  <2> HIDE DEF command
  <2> QED BY <1>c, <2>1, <2>3, <2>4
<1>8. CASE Resync
  <2>1. /\ pc = "resync" /\ UNCHANGED <<opts, contents, annotated>> /\ k \in Packages
        /\ contents[k] # {} /\ sync[k] \in {"failed", "unrecoverable"}
    BY <1>8, <1>a DEF Resync, InHandGoesOn, TurnInv
  <2>2. CASE ApiError /\ UNCHANGED sync
    <3>1. server /\ command
      BY <2>1, <2>2, ErrorMaps, NothingMaps
    <3> HIDE DEF server, command
    <3> QED BY <1>c, <2>1, <3>1
  <2>3. CASE sync' = [sync EXCEPT ![k] = "pending"] /\ UNCHANGED <<k, reported, exit>>
    <3>1. Promise!Resync /\ Promise!Stay
      BY <2>1, <2>3, ResyncMaps, StayMaps
    <3> QED BY <1>c, <2>1, <3>1
  <2> QED BY <1>8, <2>2, <2>3 DEF Resync
<1>9. CASE Synchronise
  <2>1. PICK j \in Packages, state \in {"synced", "failed", "unrecoverable"} :
            sync[j] = "pending" /\ sync' = [sync EXCEPT ![j] = state]
    BY <1>9 DEF Synchronise
  <2> DEFINE seen  == [i \in Packages |-> IF sync[i] = "unrecoverable" THEN "failed" ELSE sync[i]]
             ended == IF state = "unrecoverable" THEN "failed" ELSE state
  <2>2. sync \in [Packages -> SyncStates]
    BY DEF TypeOK, ApiType
  <2>3. /\ [i \in Packages |-> IF sync'[i] = "unrecoverable" THEN "failed" ELSE sync'[i]]
           = [seen EXCEPT ![j] = ended]
        /\ seen[j] = "pending" /\ ended \in {"synced", "failed"}
    BY <2>1, <2>2
  <2>4. UNCHANGED <<opts, k, contents, annotated, reported, exit>>
    BY <1>9 DEF Synchronise
  <2>5. MetadataMatters' = MetadataMatters
    BY <2>4 DEF MetadataMatters
  <2> HIDE DEF ended
  <2>6. Promise!Synchronise
    BY <2>3, <2>4, <2>5 DEF Promise!Synchronise
  <2> QED BY <2>6 DEF Promise!Next
<1>10. CASE UNCHANGED vars
  BY <1>10, <1>d DEF vars
<1> QED BY <1>1, <1>2, <1>3, <1>4, <1>5, <1>6, <1>7, <1>8, <1>9, <1>10
        DEF Next, Command, Ended

\* For any packages, files, options and answers, every step of a push is a step of
\* Publication or hidden from it.
THEOREM Refinement == Spec => Publishes
<1>1. Init => Promise!Init
  <2> SUFFICES ASSUME Init PROVE Promise!Init
    OBVIOUS
  <2>1. /\ {j \in Packages : contents[j] # {}} = {}
        /\ {j \in Packages : reported[j] # "unreported"} = {}
        /\ [j \in Packages |-> IF sync[j] = "unrecoverable" THEN "failed" ELSE sync[j]]
           = [j \in Packages |-> "absent"]
    BY DEF Init
  <2>2. [count |-> opts.count, waits |-> ~opts.noWait, matters |-> MetadataMatters,
         lenient |-> opts.skip, dry |-> opts.dryRun] \in Promise!Orders
    BY DEF Init, Options, MetadataMatters, Promise!Orders
  <2> QED BY <2>1, <2>2 DEF Init, Promise!Init
<1>2. Init => ChecksInv /\ WholeInv /\ DoneInv /\ TurnInv
  BY PushAssumption DEF Init, ChecksInv, NothingUploadedUnchecked, Uploading, MetadataMatters,
         WholeInv, HandInv, ContentsBehind, CreatedPackagesAreWhole, DoneInv, BehindIsDone,
         InHandGoesOn, SuccessAtEnd, SuccessMeansEverything, Packages, TurnInv, Options
<1>3. TypeOK /\ ChecksInv /\ WholeInv /\ DoneInv /\ TurnInv /\ [Next]_vars
      => (ChecksInv /\ WholeInv /\ DoneInv /\ TurnInv)'
  BY ChecksNext, WholeNext, DoneNext, TurnNext
<1> QED BY <1>1, <1>2, <1>3, StepPublishes, TypeCorrect, PTL DEF Spec, Publishes, Promise!Spec

\* What follows from Publication alone: only the package in hand is in doubt.
THEOREM LastInDoubt == Spec => []OnlyLastInDoubt
<1>1. Init => OnlyLastInDoubt
  BY DEF Init, OnlyLastInDoubt, Promise!OnlyLastInDoubt, Packages
<1>2. ASSUME TypeOK, OnlyLastInDoubt, [Promise!Next]_(Promise!vars)
      PROVE  OnlyLastInDoubt'
  <2> DEFINE created == {j \in Packages : contents[j] # {}}
             results == {j \in Packages : reported[j] # "unreported"}
             strict  == ~opts.skip /\ ~opts.dryRun
  <2>1. OnlyLastInDoubt <=>
            (strict => results = {j \in Packages : j < k} /\ created \subseteq results \cup {k})
    BY DEF OnlyLastInDoubt, Promise!OnlyLastInDoubt
  <2>2. OnlyLastInDoubt' <=>
            (strict' => results' = {j \in Packages : j < k'} /\ created' \subseteq results' \cup {k'})
    BY DEF OnlyLastInDoubt, Promise!OnlyLastInDoubt
  <2>3. CASE Promise!Publish
    <3>1. strict' = strict /\ k <= opts.count
      BY <2>3 DEF Promise!Publish
    <3>2. created' \subseteq created \cup {k}
      BY <2>3 DEF Promise!Publish, Promise!Create, Promise!Annotate, Promise!Resync, Promise!server
    <3>3. \/ k' = k /\ results' = results
          \/ k' = k + 1 /\ results' = results \cup {k}
          \/ ~strict
      BY <2>3 DEF Promise!Publish, Promise!Stay, Promise!Report, Promise!Pass, Promise!Abort
    <3>4. k \in Packages
      <4>1. opts.count \in 1 .. NumPackages /\ k \in 1 .. NumPackages + 1
        BY <1>2, CountIsPackage DEF TypeOK, ControlType, Packages
      <4> HIDE DEF created, results, strict
      <4> QED BY <3>1, <4>1, PushAssumption DEF Packages
    <3>5. {j \in Packages : j < k + 1} = {j \in Packages : j < k} \cup {k}
      BY <3>4 DEF Packages
    <3> HIDE DEF created, results, strict
    <3> QED BY <1>2, <2>1, <2>2, <3>1, <3>2, <3>3, <3>5
  <2>4. CASE Promise!Finish \/ Promise!Synchronise \/ UNCHANGED Promise!vars
    <3>1. strict' = strict /\ k' = k /\ results' = results /\ created' = created
      BY <2>4 DEF Promise!Finish, Promise!Synchronise, Promise!vars, Promise!server
    <3> HIDE DEF created, results, strict
    <3> QED BY <1>2, <2>1, <2>2, <3>1
  <2> QED BY <1>2, <2>3, <2>4 DEF Promise!Next
<1> QED BY <1>1, <1>2, Refinement, TypeCorrect, PTL DEF Spec, Publishes, Promise!Spec

==============================================================================
