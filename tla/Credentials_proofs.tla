------------------------- MODULE Credentials_proofs -------------------------
(***************************************************************************)
(* Where a command takes its credential from.  For any profiles, keys and   *)
(* commands: types, and what logout, saving, the chain of sources and a     *)
(* rotation promise.  For any jobs and services, and any names that join     *)
(* alike: the OIDC provider with its caches implements TokenService.         *)
(***************************************************************************)
EXTENDS ApiKeys, OidcTokens, TLAPS

\* Whatever key a file or an option has was issued, and a file that does not
\* exist has no line.
Issued ==
    /\ \A x \in Places, p \in Profiles : files[x][p] <= issued
    /\ \A x \in Places \ present : \A p \in Profiles : files[x][p] = NoLine
    /\ cmd.flag <= issued /\ cmd.env <= issued

\* The files are of their types.
FilesOK ==
    /\ present \subseteq Places /\ files \in [Places -> [Profiles -> NoLine .. MaxKeys]]
    /\ loose \in [Places -> SUBSET Profiles] /\ broken \subseteq present
    /\ gap \in [Places -> [Profiles -> Last .. MaxLines]]

\* What logout has done so far: a key is left only where it is not matched.
Clean(place) == \A p \in Profiles : files[place][p] \in Keys => p \in loose[place]

Clearing ==
    /\ pc = "clear" /\ ~cmd.apart => \A x \in present \ toClear : Clean(x)
    /\ loggedOut => \A x \in Places : Clean(x)

\* There is a key to save, and it is in the file that a command said it saved.
Storing ==
    /\ pc \in {"tell", "show", "save", "store"} => new \in Keys
    /\ pc = "logout" \/ pc = "clear" => saved = "none"
    /\ saved = "saved" => /\ pc \in {"idle", "show"} /\ new \in Keys
                          /\ Matched(DefaultPlace, cmd.profile) =>
                                 files[DefaultPlace][cmd.profile] = new

Rotating == pc \in {"list", "rotate"} => agreed \/ cmd.kind = "refresh"

IInv == TypeOK /\ Issued /\ Clearing /\ Storing /\ Rotating /\ SourcesInOrder

-----------------------------------------------------------------------------
(* The files and the chain of sources                                       *)

LEMMA PlacesAre == Places = {"first", "home"} /\ DefaultPlace = "first"
BY DEF Places, SearchPath, DefaultPlace

LEMMA Ordered ==
    ASSUME NEW S \in SUBSET (1 .. 5), S # {}
    PROVE  Min(S) \in S /\ \A i \in S : Min(S) <= i
<1>1. \E m \in S : \A i \in S : m <= i
  <2>1. CASE 1 \in S
    BY <2>1
  <2>2. CASE 1 \notin S /\ 2 \in S
    BY <2>2
  <2>3. CASE 1 \notin S /\ 2 \notin S /\ 3 \in S
    BY <2>3
  <2>4. CASE 1 \notin S /\ 2 \notin S /\ 3 \notin S /\ 4 \in S
    BY <2>4
  <2>5. CASE 1 \notin S /\ 2 \notin S /\ 3 \notin S /\ 4 \notin S
    <3>1. \A i \in S : i \in 1 .. 5
      OBVIOUS
    <3>2. \A i \in S : i = 5
      BY <2>5, <3>1
    <3>3. PICK j : j \in S
      OBVIOUS
    <3>. QED BY <3>2, <3>3
  <2>. QED BY <2>1, <2>2, <2>3, <2>4, <2>5
<1>. QED BY <1>1 DEF Min

\* A profile reads the line of the first file, or else that of the second one.
LEMMA MergedIs ==
    \A p \in Profiles :
        Merged(p) = IF files["first"][p] # NoLine THEN files["first"][p] ELSE files["home"][p]
<1> SUFFICES ASSUME NEW p \in Profiles
    PROVE Merged(p) = IF files["first"][p] # NoLine THEN files["first"][p] ELSE files["home"][p]
  OBVIOUS
<1> DEFINE having == {i \in DOMAIN SearchPath : files[SearchPath[i]][p] # NoLine}
<1>1. DOMAIN SearchPath = {1, 2} /\ SearchPath[1] = "first" /\ SearchPath[2] = "home"
  BY DEF SearchPath
<1>2. having \in SUBSET (1 .. 5)
  BY <1>1
<1>3. Merged(p) = IF having = {} THEN NoLine ELSE files[SearchPath[Min(having)]][p]
  BY DEF Merged
<1>4. CASE files["first"][p] # NoLine
  <2>1. 1 \in having
    BY <1>1, <1>4
  <2>2. Min(having) \in having /\ \A i \in having : Min(having) <= i
    BY <1>2, <2>1, Ordered
  <2>3. Min(having) = 1
    BY <1>1, <2>1, <2>2
  <2>. QED BY <1>1, <1>3, <1>4, <2>1, <2>3
<1>5. CASE files["first"][p] = NoLine /\ files["home"][p] # NoLine
  <2>1. having = {2}
    BY <1>1, <1>5
  <2>2. Min(having) \in having
    BY <1>2, <2>1, Ordered
  <2>. QED BY <1>1, <1>3, <1>5, <2>1, <2>2
<1>6. CASE files["first"][p] = NoLine /\ files["home"][p] = NoLine
  <2>1. having = {}
    BY <1>1, <1>6
  <2>. QED BY <1>3, <1>6, <2>1
<1>. QED BY <1>4, <1>5, <1>6

LEMMA FileKeyType ==
    ASSUME TypeOK, Issued, NEW p \in Profiles PROVE FileKey(p) \in 0 .. issued
<1>1. \A q \in Profiles : Merged(q) \in NoLine .. MaxKeys /\ Merged(q) <= issued
  BY MergedIs, PlacesAre DEF TypeOK, Issued
<1>. QED BY <1>1, ApiKeysAssumption DEF FileKey, Keys, TypeOK, NoLine

LEMMA FileKeyClean ==
    ASSUME \A x \in Places : Clean(x), NEW p \in Profiles
    PROVE  \/ FileKey(p) = 0
           \/ \E x \in Places, q \in {p, "default"} : q \in loose[x] /\ FileKey(p) = files[x][q]
<1>1. "default" \in Profiles
  BY ApiKeysAssumption
<1>2. \A q \in Profiles : Merged(q) \in Keys =>
        \E x \in Places : q \in loose[x] /\ Merged(q) = files[x][q]
  BY MergedIs, PlacesAre DEF Clean
<1>3. CASE Merged(p) \in Keys
  BY <1>2, <1>3 DEF FileKey
<1>4. CASE Merged(p) \notin Keys
  BY <1>1, <1>2, <1>4 DEF FileKey
<1>. QED BY <1>3, <1>4

LEMMA FileKeySaved ==
    ASSUME NEW p \in Profiles, files[DefaultPlace][p] \in Keys
    PROVE  FileKey(p) = files[DefaultPlace][p]
BY MergedIs, PlacesAre, ApiKeysAssumption DEF FileKey, Keys, NoLine

\* The first source in the order of the chain that has something.
LEMMA ResolvedIs ==
    ASSUME TypeOK, Issued
    PROVE  /\ Resolved \in [source : Sources \cup {"none"}, key : 0 .. issued]
           /\ cmd.flag # 0 => Resolved = [source |-> "flag", key |-> cmd.flag]
           /\ cmd.flag = 0 /\ cmd.env # 0 => Resolved = [source |-> "env", key |-> cmd.env]
           /\ Resolved.source \in {"keyring", "oidc"} => FileKey(cmd.profile) = 0
           /\ Resolved.source = "none" => ~cmd.session /\ ~cmd.oidc
<1> DEFINE having == {i \in DOMAIN Providers : Provides(Providers[i])}
           first  == Providers[Min(having)]
<1>1. /\ DOMAIN Providers = 1 .. 5 /\ Providers[1] = "flag" /\ Providers[2] = "env"
      /\ Providers[3] = "file" /\ Providers[4] = "keyring" /\ Providers[5] = "oidc"
  BY DEF Providers
<1>2. /\ cmd.flag \in 0 .. issued /\ cmd.env \in 0 .. issued /\ cmd.profile \in Profiles
      /\ issued \in 0 .. MaxKeys /\ FileKey(cmd.profile) \in 0 .. issued
  BY FileKeyType DEF TypeOK, Commands, Issued
<1>3. /\ 1 \in having <=> cmd.flag # 0
      /\ 2 \in having <=> cmd.env # 0
      /\ 3 \in having <=> FileKey(cmd.profile) # 0
      /\ 4 \in having <=> cmd.session
      /\ 5 \in having <=> cmd.oidc
  BY <1>1, <1>2, ApiKeysAssumption DEF Provides, Result, Keys
<1>4. Resolved = IF having = {} THEN NoCredential ELSE [source |-> first, key |-> Result(first)]
  BY DEF Resolved
<1>5. having \in SUBSET (1 .. 5)
  BY <1>1
<1>6. CASE having = {}
  BY <1>2, <1>3, <1>4, <1>6, ApiKeysAssumption DEF NoCredential
<1>7. CASE having # {}
  <2>1. Min(having) \in having /\ \A i \in having : Min(having) <= i
    BY <1>5, <1>7, Ordered
  <2> DEFINE m == Min(having)
  <2>2. m \in 1 .. 5 /\ Resolved = [source |-> Providers[m], key |-> Result(Providers[m])]
    BY <1>1, <1>4, <1>7, <2>1
  <2>3. /\ cmd.flag # 0 => m = 1
        /\ cmd.flag = 0 => m # 1
        /\ cmd.flag = 0 /\ cmd.env # 0 => m = 2
        /\ m > 3 => FileKey(cmd.profile) = 0
    BY <1>3, <2>1, <2>2
  <2>. HIDE DEF m, having
  <2>4. Providers[m] \in Sources /\ Result(Providers[m]) \in 0 .. issued
    BY <1>1, <1>2, <2>2 DEF Sources, Result
  <2>5. cmd.flag # 0 => Resolved = [source |-> "flag", key |-> cmd.flag]
    BY <1>1, <2>2, <2>3 DEF Result
  <2>6. cmd.flag = 0 /\ cmd.env # 0 => Resolved = [source |-> "env", key |-> cmd.env]
    BY <1>1, <2>2, <2>3 DEF Result
  <2>7. Resolved.source \in {"keyring", "oidc"} => FileKey(cmd.profile) = 0
    BY <1>1, <2>2, <2>3
  <2>8. Resolved.source # "none"
    BY <2>2, <2>4 DEF Sources
  <2>. QED BY <2>2, <2>4, <2>5, <2>6, <2>7, <2>8
<1>. QED BY <1>6, <1>7

LEMMA FileKeyStays == ASSUME UNCHANGED files PROVE \A p \in Profiles : FileKey(p)' = FileKey(p)
BY DEF FileKey, Merged

-----------------------------------------------------------------------------
(* The steps                                                                *)

LEMMA IdleType == Idle \in Commands /\ Idle.flag = 0 /\ Idle.env = 0
BY ApiKeysAssumption DEF Idle, Commands, Kinds

LEMMA InitIInv == Init => IInv
<1> SUFFICES ASSUME Init PROVE IInv
  OBVIOUS
<1>1. valid \in 0 .. MaxKeys /\ issued \in 0 .. MaxKeys /\ issued = valid /\ NoLine = -1
  BY ApiKeysAssumption DEF NoLine, Init
<1>2. PICK lines \in [present -> [Profiles -> {NoLine, valid}]] :
          files = [p \in Places |-> IF p \in present THEN lines[p] ELSE Blank]
  BY DEF Init
<1>3. \A x \in Places : /\ files[x] \in [Profiles -> NoLine .. MaxKeys]
                        /\ \A p \in Profiles : files[x][p] <= issued
                        /\ x \notin present => \A p \in Profiles : files[x][p] = NoLine
  BY <1>1, <1>2, ApiKeysAssumption DEF Blank
<1>4. TypeOK
  <2>1. files \in [Places -> [Profiles -> NoLine .. MaxKeys]]
    BY <1>2, <1>3
  <2>2. credential \in [source : Sources \cup {"none"}, key : 0 .. issued]
    BY <1>1 DEF NoCredential, Init
  <2>3. commandsLeft \in 0 .. MaxCommands /\ othersLeft \in 0 .. MaxOthers
    BY ApiKeysAssumption DEF Init
  <2>4. valid \in 0 .. issued /\ new \in 0 .. issued /\ told \subseteq 1 .. issued
    BY <1>1 DEF Init
  <2>5. /\ present \subseteq Places /\ pc = "idle" /\ agreed \in BOOLEAN /\ toClear \subseteq present
        /\ saved = "none" /\ loggedOut \in BOOLEAN
        /\ loose \in [Places -> SUBSET Profiles] /\ broken \subseteq present
        /\ gap \in [Places -> [Profiles -> Last .. MaxLines]]
    BY DEF Init
  <2>6. cmd \in Commands
    BY IdleType DEF Init
  <2>. QED BY <1>1, <2>1, <2>2, <2>3, <2>4, <2>5, <2>6 DEF TypeOK
<1>5. Issued
  <2>1. cmd.flag <= issued /\ cmd.env <= issued
    BY <1>1, IdleType DEF Init
  <2>. QED BY <1>3, <2>1 DEF Issued
<1>6. Clearing /\ Storing /\ Rotating /\ SourcesInOrder
  BY DEF Init, Clearing, Storing, Rotating, SourcesInOrder, Requesting
<1>. QED BY <1>4, <1>5, <1>6 DEF IInv

LEMMA EndFacts ==
    ASSUME TypeOK, End
    PROVE  /\ pc' = "idle" /\ cmd' \in Commands /\ cmd'.profile = cmd.profile
           /\ cmd'.flag = 0 /\ cmd'.env = 0
           /\ credential' = NoCredential /\ agreed' = FALSE /\ toClear' = {}
BY IdleType DEF TypeOK, End, Commands

LEMMA ToldType ==
    ASSUME TypeOK, issued' = issued, told' = told \/ (told' = told \cup {new} /\ new \in Keys)
    PROVE  told' \subseteq 1 .. issued'
<1>1. told \subseteq 1 .. issued /\ issued \in Nat /\ new \in 0 .. issued
  BY DEF TypeOK
<1>2. CASE told' = told
  BY <1>1, <1>2
<1>3. CASE told' = told \cup {new} /\ new \in Keys
  <2>1. new \in 1 .. issued
    BY <1>1, <1>3 DEF Keys
  <2>. QED BY <1>1, <1>3, <2>1
<1>. QED BY <1>2, <1>3

\* A step that ends the command and changes nothing else
LEMMA EndIInv ==
    ASSUME IInv, End, UNCHANGED <<disk, api, bounds, new, loggedOut>>,
           told' = told \/ (told' = told \cup {new} /\ new \in Keys),
           saved' \in {saved, "none", "error"}
    PROVE  IInv'
<1>1. /\ present' = present /\ files' = files /\ loose' = loose /\ gap' = gap
      /\ broken' = broken /\ valid' = valid /\ issued' = issued
      /\ commandsLeft' = commandsLeft /\ othersLeft' = othersLeft /\ new' = new
      /\ loggedOut' = loggedOut
  BY DEF disk, api, bounds
<1>2. TypeOK /\ Issued /\ Clearing /\ Storing
  BY DEF IInv
<1>3. /\ pc' = "idle" /\ cmd' \in Commands /\ cmd'.profile = cmd.profile
      /\ cmd'.flag = 0 /\ cmd'.env = 0
      /\ credential' = NoCredential /\ agreed' = FALSE /\ toClear' = {}
  BY <1>2, EndFacts
<1>4. TypeOK'
  <2>1. /\ FilesOK' /\ toClear' \subseteq present' /\ loggedOut' \in BOOLEAN /\ agreed' \in BOOLEAN
    BY <1>1, <1>2, <1>3 DEF TypeOK, FilesOK
  <2>2. /\ valid' \in 0 .. issued' /\ issued' \in 0 .. MaxKeys /\ new' \in 0 .. issued'
        /\ commandsLeft' \in 0 .. MaxCommands /\ othersLeft' \in 0 .. MaxOthers
    BY <1>1, <1>2 DEF TypeOK
  <2>3. credential' \in [source : Sources \cup {"none"}, key : 0 .. issued']
    BY <1>2, <1>3, <2>2 DEF NoCredential
  <2>4. saved' \in {"none", "saved", "error"}
    BY <1>2 DEF TypeOK
  <2>5. told' \subseteq 1 .. issued'
    BY <1>1, <1>2, ToldType
  <2>. QED BY <1>3, <2>1, <2>2, <2>3, <2>4, <2>5 DEF TypeOK, FilesOK
<1>5. Issued'
  <2>1. issued' \in Nat
    BY <1>4 DEF TypeOK
  <2>. QED BY <1>1, <1>2, <1>3, <2>1 DEF Issued
<1>6. Clearing'
  BY <1>1, <1>2, <1>3 DEF Clearing, Clean
<1>7. Storing' /\ Rotating' /\ SourcesInOrder'
  BY <1>1, <1>2, <1>3 DEF Storing, Rotating, SourcesInOrder, Requesting, Matched
<1>. QED BY <1>4, <1>5, <1>6, <1>7 DEF IInv

\* A step that goes on, and changes neither files nor keys
LEMMA GotoIInv ==
    ASSUME IInv, NEW location \in {"create", "rotate", "list", "show", "store"},
           pc' = location, UNCHANGED <<cmd, credential, toClear>>,
           agreed' = agreed \/ agreed' = TRUE,
           UNCHANGED <<disk, api, bounds, new, loggedOut>>,
           told' = told \/ (told' = told \cup {new} /\ new \in Keys),
           saved' \in {saved, "none", "error"},
           saved' = "saved" => location = "show",
           location \in {"create", "rotate", "list"} => Requesting,
           location \in {"show", "store"} => new \in Keys,
           location \in {"list", "rotate"} => agreed' \/ cmd.kind = "refresh"
    PROVE  IInv'
<1>1. /\ present' = present /\ files' = files /\ loose' = loose /\ gap' = gap
      /\ broken' = broken /\ valid' = valid /\ issued' = issued
      /\ commandsLeft' = commandsLeft /\ othersLeft' = othersLeft /\ new' = new
      /\ loggedOut' = loggedOut
  BY DEF disk, api, bounds
<1>2. TypeOK /\ Issued /\ Clearing /\ Storing /\ SourcesInOrder
  BY DEF IInv
<1>3. TypeOK'
  <2>1. /\ FilesOK' /\ toClear' \subseteq present' /\ loggedOut' \in BOOLEAN /\ agreed' \in BOOLEAN
    BY <1>1, <1>2 DEF TypeOK, FilesOK
  <2>2. /\ valid' \in 0 .. issued' /\ issued' \in 0 .. MaxKeys /\ new' \in 0 .. issued'
        /\ commandsLeft' \in 0 .. MaxCommands /\ othersLeft' \in 0 .. MaxOthers
    BY <1>1, <1>2 DEF TypeOK
  <2>3. credential' \in [source : Sources \cup {"none"}, key : 0 .. issued'] /\ cmd' \in Commands
    BY <1>1, <1>2 DEF TypeOK
  <2>4. saved' \in {"none", "saved", "error"}
    BY <1>2 DEF TypeOK
  <2>5. told' \subseteq 1 .. issued'
    BY <1>1, <1>2, ToldType
  <2>6. pc' \in {"create", "rotate", "list", "show", "store"}
    OBVIOUS
  <2>. QED BY <2>1, <2>2, <2>3, <2>4, <2>5, <2>6 DEF TypeOK, FilesOK
<1>4. Issued'
  BY <1>1, <1>2 DEF Issued
<1>5. Clearing'
  BY <1>1, <1>2 DEF Clearing, Clean
<1>6. Storing' /\ Rotating'
  BY <1>1, <1>2 DEF Storing, Rotating, Matched
<1>7. SourcesInOrder'
  <2>1. Requesting' => Requesting
    BY DEF Requesting
  <2>2. cmd.profile \in Profiles
    BY <1>2 DEF TypeOK, Commands
  <2>. QED BY <1>1, <1>2, <2>1, <2>2, FileKeyStays DEF SourcesInOrder
<1>. QED BY <1>3, <1>4, <1>5, <1>6, <1>7 DEF IInv

\* A key is issued; the command goes on with it, or waits for an answer still.
LEMMA IssueIInv ==
    ASSUME IInv, Issue, UNCHANGED <<disk, cmd, credential, toClear, agreed, saved, loggedOut>>,
           commandsLeft' = commandsLeft, othersLeft' \in {othersLeft, othersLeft - 1},
           othersLeft' \in Nat,
           told' \in {told, told \cup {valid'}},
           \/ pc' = pc /\ new' = new
           \/ pc \in {"login", "create", "rotate"} /\ pc' \in {"tell", "save"} /\ new' = valid'
    PROVE  IInv'
<1>. USE DEF IInv, disk, Issue
<1>1. valid' = issued + 1 /\ issued' = issued + 1 /\ issued + 1 \in Keys /\ issued \in Nat
  BY ApiKeysAssumption DEF TypeOK, Keys
<1>2. TypeOK'
  <2>1. new' \in 0 .. issued' /\ told' \subseteq 1 .. issued'
    BY <1>1 DEF TypeOK
  <2>2. credential' \in [source : Sources \cup {"none"}, key : 0 .. issued']
    BY <1>1 DEF TypeOK
  <2>3. issued' \in 0 .. MaxKeys /\ valid' \in 0 .. issued'
    BY <1>1, ApiKeysAssumption DEF TypeOK
  <2>4. othersLeft' \in 0 .. MaxOthers /\ commandsLeft' \in 0 .. MaxCommands
    BY ApiKeysAssumption DEF TypeOK
  <2>. QED BY <2>1, <2>2, <2>3, <2>4 DEF TypeOK
<1>3. Issued'
  BY <1>1, PlacesAre, ApiKeysAssumption DEF Issued, TypeOK, Commands, NoLine
<1>4. Clearing'
  BY DEF Clearing, Clean
<1>5. Storing' /\ Rotating'
  BY <1>1 DEF Storing, Rotating, Matched
<1>6. SourcesInOrder'
  <2>1. Requesting' => Requesting
    BY DEF Requesting
  <2>2. cmd.profile \in Profiles
    BY DEF TypeOK, Commands
  <2>. QED BY <2>1, <2>2, FileKeyStays DEF SourcesInOrder
<1>. QED BY <1>2, <1>3, <1>4, <1>5, <1>6

LEMMA RewrittenLines ==
    ASSUME TypeOK, Issued, NEW place \in present, NEW key \in 0 .. issued,
           Rewrite(place, key), UNCHANGED <<present, issued>>
    PROVE  /\ FilesOK'
           /\ \A p \in Profiles :
                files'[place][p] = IF Matched(place, p) THEN key ELSE files[place][p]
           /\ \A x \in Places \ {place} : files'[x] = files[x]
           /\ \A x \in Places, p \in Profiles : files'[x][p] <= issued
           /\ loose' = loose
<1>1. /\ place \in Places /\ issued \in 0 .. MaxKeys /\ MaxKeys \in Nat /\ NoLine = -1
      /\ files \in [Places -> [Profiles -> NoLine .. MaxKeys]]
  BY ApiKeysAssumption DEF TypeOK, NoLine
<1>  DEFINE line(p) == IF Matched(place, p) THEN key ELSE files[place][p]
<1>3. \A p \in Profiles : line(p) \in NoLine .. MaxKeys /\ line(p) <= issued
  BY <1>1 DEF Issued
<1>4. files' = [files EXCEPT ![place] = [p \in Profiles |-> line(p)]]
  BY DEF Rewrite, Rewritten
<1>. HIDE DEF line
<1>5. [p \in Profiles |-> line(p)] \in [Profiles -> NoLine .. MaxKeys]
  BY <1>3
<1>6. files' \in [Places -> [Profiles -> NoLine .. MaxKeys]]
  BY <1>1, <1>4, <1>5
<1>7. /\ \A p \in Profiles : files'[place][p] = line(p)
      /\ \A x \in Places \ {place} : files'[x] = files[x]
  BY <1>1, <1>4
<1>8. \A x \in Places, p \in Profiles : files'[x][p] <= issued
  BY <1>3, <1>7 DEF Issued
<1>9. gap' \in [Places -> [Profiles -> Last .. MaxLines]]
  <2> DEFINE left(p) == IF Swallows(place, p) /\ gap[place][p] > 0 THEN gap[place][p] - 1
                        ELSE gap[place][p]
  <2>1. gap \in [Places -> [Profiles -> Last .. MaxLines]] /\ Last = -1 /\ MaxLines \in Nat
    BY ApiKeysAssumption DEF TypeOK, Last
  <2>2. \A p \in Profiles : left(p) \in Last .. MaxLines
    BY <1>1, <2>1
  <2>3. gap' = [gap EXCEPT ![place] = [p \in Profiles |-> left(p)]]
    BY <1>1, <2>1 DEF Rewrite
  <2>. HIDE DEF left
  <2>4. [p \in Profiles |-> left(p)] \in [Profiles -> Last .. MaxLines]
    BY <2>2
  <2>. QED BY <1>1, <2>1, <2>3, <2>4
<1>10. loose' = loose /\ broken' \subseteq present
  BY DEF Rewrite, TypeOK
<1>. QED BY <1>6, <1>7, <1>8, <1>9, <1>10 DEF line, FilesOK, TypeOK

LEMMA StartIInv == IInv /\ Start => IInv'
<1> SUFFICES ASSUME IInv, Start PROVE IInv'
  OBVIOUS
<1>1. TypeOK /\ Issued /\ Clearing
  BY DEF IInv
<1>2. /\ present' = present /\ files' = files /\ loose' = loose /\ gap' = gap
      /\ broken' = broken /\ valid' = valid /\ issued' = issued
      /\ othersLeft' = othersLeft /\ told' = told /\ loggedOut' = loggedOut
      /\ credential' = credential /\ agreed' = agreed /\ toClear' = toClear
      /\ new' = 0 /\ saved' = "none" /\ commandsLeft' = commandsLeft - 1 /\ commandsLeft > 0
  BY DEF Start, disk, api
<1>3. pc' \in {"logout", "resolve"}
  BY DEF Start
<1>4. cmd' \in Commands /\ cmd'.flag \in told \cup {0} /\ cmd'.env \in told \cup {0}
  BY DEF Start
<1>5. TypeOK'
  <2>1. /\ FilesOK' /\ toClear' \subseteq present' /\ loggedOut' \in BOOLEAN /\ agreed' \in BOOLEAN
    BY <1>1, <1>2 DEF TypeOK, FilesOK
  <2>2. /\ valid' \in 0 .. issued' /\ issued' \in 0 .. MaxKeys /\ new' \in 0 .. issued'
        /\ commandsLeft' \in 0 .. MaxCommands /\ othersLeft' \in 0 .. MaxOthers
    BY <1>1, <1>2, ApiKeysAssumption DEF TypeOK
  <2>3. credential' \in [source : Sources \cup {"none"}, key : 0 .. issued']
        /\ told' \subseteq 1 .. issued'
    BY <1>1, <1>2 DEF TypeOK
  <2>. QED BY <1>2, <1>3, <1>4, <2>1, <2>2, <2>3 DEF TypeOK, FilesOK
<1>6. Issued'
  <2>1. told \subseteq 1 .. issued /\ issued \in Nat
    BY <1>1 DEF TypeOK
  <2>2. \A k \in told \cup {0} : k <= issued
    BY <2>1
  <2>3. cmd'.flag <= issued /\ cmd'.env <= issued
    BY <1>4, <2>2
  <2>. QED BY <1>1, <1>2, <2>3 DEF Issued
<1>7. Clearing'
  BY <1>1, <1>2, <1>3 DEF Clearing, Clean
<1>8. Storing' /\ Rotating' /\ SourcesInOrder'
  BY <1>2, <1>3 DEF Storing, Rotating, SourcesInOrder, Requesting, Matched
<1>. QED BY <1>5, <1>6, <1>7, <1>8 DEF IInv

LEMMA LoadFailsIInv == IInv /\ LoadFails => IInv'
<1> SUFFICES ASSUME IInv, LoadFails PROVE IInv'
  OBVIOUS
<1>1. TypeOK /\ Issued /\ Clearing /\ Rotating
  BY DEF IInv
<1>2. /\ present' = present /\ files' = files /\ loose' = loose /\ gap' = gap
      /\ broken' = broken /\ valid' = valid /\ issued' = issued
      /\ othersLeft' = othersLeft /\ told' = told /\ loggedOut' = loggedOut
      /\ credential' = credential /\ agreed' = agreed /\ toClear' = toClear /\ cmd' = cmd
      /\ pc = "idle" /\ pc' = "idle"
      /\ new' = 0 /\ saved' = "none" /\ commandsLeft' = commandsLeft - 1 /\ commandsLeft > 0
  BY DEF LoadFails, disk, api, command
<1>3. TypeOK'
  <2>1. FilesOK' /\ toClear' \subseteq present' /\ loggedOut' \in BOOLEAN /\ agreed' \in BOOLEAN
    BY <1>1, <1>2 DEF TypeOK, FilesOK
  <2>2. /\ valid' \in 0 .. issued' /\ issued' \in 0 .. MaxKeys /\ new' \in 0 .. issued'
        /\ commandsLeft' \in 0 .. MaxCommands /\ othersLeft' \in 0 .. MaxOthers
    BY <1>1, <1>2, ApiKeysAssumption DEF TypeOK
  <2>3. credential' \in [source : Sources \cup {"none"}, key : 0 .. issued']
        /\ told' \subseteq 1 .. issued' /\ cmd' \in Commands
    BY <1>1, <1>2 DEF TypeOK
  <2>. QED BY <1>2, <2>1, <2>2, <2>3 DEF TypeOK, FilesOK
<1>4. Issued' /\ Clearing'
  BY <1>1, <1>2 DEF Issued, Clearing, Clean
<1>5. Storing' /\ Rotating' /\ SourcesInOrder'
  BY <1>2 DEF Storing, Rotating, SourcesInOrder, Requesting
<1>. QED BY <1>3, <1>4, <1>5 DEF IInv

LEMMA ResolveIInv == IInv /\ Resolve => IInv'
<1> SUFFICES ASSUME IInv, Resolve PROVE IInv'
  OBVIOUS
<1>1. TypeOK /\ Issued /\ Clearing /\ Storing
  BY DEF IInv
<1>2. /\ present' = present /\ files' = files /\ loose' = loose /\ gap' = gap
      /\ broken' = broken /\ valid' = valid /\ issued' = issued
      /\ commandsLeft' = commandsLeft /\ othersLeft' = othersLeft /\ told' = told
      /\ loggedOut' = loggedOut /\ new' = new /\ saved' = saved
      /\ cmd' = cmd /\ agreed' = agreed /\ toClear' = toClear
      /\ pc = "resolve" /\ credential' = Resolved
  BY DEF Resolve, disk, api, bounds
<1>3. pc' \in {"request", "login", "list", "create"} /\ (pc' = "list" => cmd.kind = "refresh")
  BY DEF Resolve, FirstRequest
<1>4. TypeOK'
  <2>1. /\ FilesOK' /\ toClear' \subseteq present' /\ loggedOut' \in BOOLEAN /\ agreed' \in BOOLEAN
    BY <1>1, <1>2 DEF TypeOK, FilesOK
  <2>2. /\ valid' \in 0 .. issued' /\ issued' \in 0 .. MaxKeys /\ new' \in 0 .. issued'
        /\ commandsLeft' \in 0 .. MaxCommands /\ othersLeft' \in 0 .. MaxOthers
    BY <1>1, <1>2 DEF TypeOK
  <2>3. credential' \in [source : Sources \cup {"none"}, key : 0 .. issued']
    BY <1>1, <1>2, ResolvedIs
  <2>4. told' \subseteq 1 .. issued' /\ cmd' \in Commands /\ saved' \in {"none", "saved", "error"}
    BY <1>1, <1>2 DEF TypeOK
  <2>. QED BY <1>3, <2>1, <2>2, <2>3, <2>4 DEF TypeOK, FilesOK
<1>5. Issued'
  BY <1>1, <1>2 DEF Issued
<1>6. Clearing'
  BY <1>1, <1>2, <1>3 DEF Clearing, Clean
<1>7. Storing' /\ Rotating'
  BY <1>1, <1>2, <1>3 DEF Storing, Rotating, Matched
<1>8. SourcesInOrder'
  <2>1. FileKey(cmd.profile)' = FileKey(cmd.profile)
    BY <1>1, <1>2, FileKeyStays DEF TypeOK, Commands
  <2>2. cmd.profile' = cmd.profile
    BY <1>2
  <2>. QED BY <1>1, <1>2, <2>1, <2>2, ResolvedIs DEF SourcesInOrder
<1>. QED BY <1>4, <1>5, <1>6, <1>7, <1>8 DEF IInv

\* The user has a key, and a login takes it.
LEMMA LoginIInv == IInv /\ Login => IInv'
<1> SUFFICES ASSUME IInv, Login PROVE IInv'
  OBVIOUS
<1>1. TypeOK /\ Issued /\ Clearing /\ Storing
  BY DEF IInv
<1>2. /\ present' = present /\ files' = files /\ loose' = loose /\ gap' = gap
      /\ broken' = broken /\ told' = told /\ saved' = saved
      /\ commandsLeft' = commandsLeft /\ othersLeft' = othersLeft
      /\ loggedOut' = loggedOut /\ cmd' = cmd /\ credential' = credential
      /\ agreed' = agreed /\ toClear' = toClear /\ pc = "login" /\ pc' = "tell"
  BY DEF Login, Goto, disk, bounds
<1>3. CASE valid = 0
  <2>1. Issue /\ new' = valid'
    BY <1>3 DEF Login
  <2>2. othersLeft' \in Nat
    BY <1>1, <1>2 DEF TypeOK
  <2>. QED BY <1>2, <2>1, <2>2, IssueIInv DEF disk
<1>4. CASE valid # 0
  <2>1. new' = valid /\ valid' = valid /\ issued' = issued
    BY <1>4 DEF Login, api
  <2>2. valid \in Keys /\ valid \in 0 .. issued
    <3>1. valid \in 0 .. issued /\ issued \in 0 .. MaxKeys /\ MaxKeys \in Nat
      BY <1>1, ApiKeysAssumption DEF TypeOK
    <3>. QED BY <1>4, <3>1 DEF Keys
  <2>3. TypeOK'
    <3>1. /\ FilesOK' /\ toClear' \subseteq present' /\ loggedOut' \in BOOLEAN /\ agreed' \in BOOLEAN
      BY <1>1, <1>2 DEF TypeOK, FilesOK
    <3>2. /\ valid' \in 0 .. issued' /\ issued' \in 0 .. MaxKeys /\ new' \in 0 .. issued'
          /\ commandsLeft' \in 0 .. MaxCommands /\ othersLeft' \in 0 .. MaxOthers
      BY <1>1, <1>2, <2>1, <2>2 DEF TypeOK
    <3>3. credential' \in [source : Sources \cup {"none"}, key : 0 .. issued']
      BY <1>1, <1>2, <2>1 DEF TypeOK
    <3>4. told' \subseteq 1 .. issued' /\ cmd' \in Commands /\ saved' \in {"none", "saved", "error"}
      BY <1>1, <1>2, <2>1 DEF TypeOK
    <3>. QED BY <1>2, <3>1, <3>2, <3>3, <3>4 DEF TypeOK, FilesOK
  <2>4. Issued'
    BY <1>1, <1>2, <2>1 DEF Issued
  <2>5. Clearing'
    BY <1>1, <1>2 DEF Clearing, Clean
  <2>6. Storing' /\ Rotating' /\ SourcesInOrder'
    BY <1>1, <1>2, <2>1, <2>2 DEF Storing, Rotating, SourcesInOrder, Requesting, Matched
  <2>. QED BY <2>3, <2>4, <2>5, <2>6 DEF IInv
<1>. QED BY <1>3, <1>4

LEMMA OthersIInv == IInv /\ Others => IInv'
<1> SUFFICES ASSUME IInv, Others PROVE IInv'
  OBVIOUS
<1>1. TypeOK /\ Issued /\ Clearing /\ Storing /\ Rotating /\ SourcesInOrder
  BY DEF IInv
<1>2. /\ present' = present /\ files' = files /\ loose' = loose /\ gap' = gap
      /\ broken' = broken /\ saved' = saved /\ new' = new
      /\ commandsLeft' = commandsLeft /\ loggedOut' = loggedOut /\ cmd' = cmd
      /\ credential' = credential /\ agreed' = agreed /\ toClear' = toClear /\ pc' = pc
  BY DEF Others, command, disk
<1>3. othersLeft' = othersLeft - 1 /\ othersLeft' \in 0 .. MaxOthers
  BY <1>1, ApiKeysAssumption DEF TypeOK, Others
<1>4. CASE Issue /\ told' = told \cup {valid'}
  BY <1>2, <1>3, <1>4, IssueIInv DEF disk
<1>5. CASE valid' = 0 /\ issued' = issued /\ told' = told
  <2>1. TypeOK'
    <3>1. /\ FilesOK' /\ toClear' \subseteq present' /\ loggedOut' \in BOOLEAN /\ agreed' \in BOOLEAN
      BY <1>1, <1>2 DEF TypeOK, FilesOK
    <3>2. /\ valid' \in 0 .. issued' /\ issued' \in 0 .. MaxKeys /\ new' \in 0 .. issued'
          /\ commandsLeft' \in 0 .. MaxCommands
      BY <1>1, <1>2, <1>5 DEF TypeOK
    <3>3. credential' \in [source : Sources \cup {"none"}, key : 0 .. issued']
      BY <1>1, <1>2, <1>5 DEF TypeOK
    <3>4. told' \subseteq 1 .. issued' /\ cmd' \in Commands /\ saved' \in {"none", "saved", "error"}
      BY <1>1, <1>2, <1>5 DEF TypeOK
    <3>5. pc' \in {"idle", "resolve", "request", "login", "list", "create", "rotate",
                   "tell", "show", "save", "store", "logout", "clear"}
      BY <1>1, <1>2 DEF TypeOK
    <3>. QED BY <1>3, <3>1, <3>2, <3>3, <3>4, <3>5 DEF TypeOK, FilesOK
  <2>2. Issued'
    BY <1>1, <1>2, <1>5 DEF Issued
  <2>3. Clearing'
    BY <1>1, <1>2 DEF Clearing, Clean
  <2>4. Storing' /\ Rotating'
    BY <1>1, <1>2 DEF Storing, Rotating, Matched
  <2>5. SourcesInOrder'
    <3>1. FileKey(cmd.profile)' = FileKey(cmd.profile)
      BY <1>1, <1>2, FileKeyStays DEF TypeOK, Commands
    <3>. QED BY <1>1, <1>2, <3>1 DEF SourcesInOrder, Requesting
  <2>. QED BY <2>1, <2>2, <2>3, <2>4, <2>5 DEF IInv
<1>. QED BY <1>4, <1>5 DEF Others

-----------------------------------------------------------------------------
(* Saving a key, and logout                                                 *)

LEMMA AfterSavingFacts ==
    ASSUME TypeOK, Issued, Saving, AfterSaving
    PROVE  /\ pc' \in {"idle", "show"} /\ agreed' \in BOOLEAN /\ toClear' \subseteq present
           /\ cmd' \in Commands /\ cmd'.profile = cmd.profile
           /\ cmd'.flag <= issued /\ cmd'.env <= issued
           /\ credential' \in [source : Sources \cup {"none"}, key : 0 .. issued]
<1>1. issued \in Nat
  BY DEF TypeOK
<1>2. CASE End
  <2>1. /\ pc' = "idle" /\ cmd' \in Commands /\ cmd'.profile = cmd.profile
        /\ cmd'.flag = 0 /\ cmd'.env = 0
        /\ credential' = NoCredential /\ agreed' = FALSE /\ toClear' = {}
    BY <1>2, EndFacts
  <2>2. credential' \in [source : Sources \cup {"none"}, key : 0 .. issued]
    BY <1>1, <2>1 DEF NoCredential
  <2>3. cmd'.flag <= issued /\ cmd'.env <= issued
    BY <1>1, <2>1
  <2>4. agreed' \in BOOLEAN /\ toClear' \subseteq present
    BY <2>1
  <2>. QED BY <2>1, <2>2, <2>3, <2>4
<1>3. CASE Goto("show")
  <2>1. pc' = "show" /\ cmd' = cmd /\ credential' = credential /\ agreed' = agreed
        /\ toClear' = toClear
    BY <1>3 DEF Goto
  <2>2. credential \in [source : Sources \cup {"none"}, key : 0 .. issued]
    BY DEF TypeOK
  <2>. QED BY <2>1, <2>2 DEF TypeOK, Issued
<1>. QED BY <1>2, <1>3 DEF AfterSaving

\* A file takes the key.
LEMMA SavedIInv ==
    ASSUME IInv, Saving, AfterSaving, UNCHANGED <<api, bounds, new, told>>,
           saved' = "saved", loggedOut' = FALSE,
           present \subseteq present',
           FilesOK',
           \A x \in Places, p \in Profiles : files'[x][p] <= issued,
           \A x \in Places \ present' : \A p \in Profiles : files'[x][p] = NoLine,
           Matched(DefaultPlace, cmd.profile)' => files'[DefaultPlace][cmd.profile] = new
    PROVE  IInv'
<1>1. TypeOK /\ Issued /\ Clearing /\ Storing
  BY DEF IInv
<1>2. /\ valid' = valid /\ issued' = issued /\ commandsLeft' = commandsLeft
      /\ othersLeft' = othersLeft /\ new' = new /\ told' = told
  BY DEF api, bounds
<1>3. /\ pc' \in {"idle", "show"} /\ agreed' \in BOOLEAN /\ toClear' \subseteq present
      /\ cmd' \in Commands /\ cmd'.profile = cmd.profile
      /\ cmd'.flag <= issued /\ cmd'.env <= issued
      /\ credential' \in [source : Sources \cup {"none"}, key : 0 .. issued]
  BY <1>1, AfterSavingFacts
<1>4. TypeOK'
  <2>1. toClear' \subseteq present'
    BY <1>3
  <2>2. /\ valid' \in 0 .. issued' /\ issued' \in 0 .. MaxKeys /\ new' \in 0 .. issued'
        /\ commandsLeft' \in 0 .. MaxCommands /\ othersLeft' \in 0 .. MaxOthers
    BY <1>1, <1>2 DEF TypeOK
  <2>3. told' \subseteq 1 .. issued'
    BY <1>1, <1>2 DEF TypeOK
  <2>. QED BY <1>2, <1>3, <2>1, <2>2, <2>3 DEF TypeOK, FilesOK
<1>5. Issued'
  BY <1>2, <1>3 DEF Issued
<1>6. Clearing' /\ Rotating' /\ SourcesInOrder'
  BY <1>3 DEF Clearing, Rotating, SourcesInOrder, Requesting
<1>7. Storing'
  <2>1. new \in Keys
    BY <1>1 DEF Storing, Saving
  <2>. QED BY <1>2, <1>3, <2>1 DEF Storing, Matched
<1>. QED BY <1>4, <1>5, <1>6, <1>7 DEF IInv

LEMMA CreateFileIInv == IInv /\ CreateFile => IInv'
<1> SUFFICES ASSUME IInv, CreateFile PROVE IInv'
  OBVIOUS
<1>1. TypeOK /\ Issued /\ Storing
  BY DEF IInv
<1>2. /\ Saving /\ AfterSaving /\ UNCHANGED <<api, bounds, new, told>>
      /\ saved' = "saved" /\ loggedOut' = FALSE
      /\ present = {} /\ present' = {"first"}
      /\ files' = [files EXCEPT !["first"] = [Blank EXCEPT !["default"] = new]]
      /\ loose' = loose /\ gap' = gap /\ broken' = broken
  BY PlacesAre DEF CreateFile
<1>3. new \in Keys /\ new \in 0 .. issued /\ issued \in 0 .. MaxKeys /\ NoLine = -1
  BY <1>1, <1>2 DEF TypeOK, Storing, Saving, NoLine
<1>4. files \in [Places -> [Profiles -> NoLine .. MaxKeys]]
  BY <1>1 DEF TypeOK
<1> DEFINE section == [Blank EXCEPT !["default"] = new]
<1>5. /\ section \in [Profiles -> NoLine .. MaxKeys]
      /\ \A p \in Profiles : section[p] <= issued /\ section[p] \in {NoLine, new}
  BY <1>3, ApiKeysAssumption DEF Blank
<1>. HIDE DEF section
<1>6. files' = [files EXCEPT !["first"] = section]
  BY <1>2 DEF section
<1>7. files' \in [Places -> [Profiles -> NoLine .. MaxKeys]]
  BY <1>4, <1>5, <1>6
<1>8. files'["first"] = section /\ \A x \in Places \ {"first"} : files'[x] = files[x]
  BY <1>4, <1>6, PlacesAre
<1>9. /\ \A x \in Places, p \in Profiles : files'[x][p] <= issued
      /\ \A x \in Places \ present' : \A p \in Profiles : files'[x][p] = NoLine
  BY <1>1, <1>2, <1>5, <1>8 DEF Issued
<1>10. cmd.profile \in Profiles
  BY <1>1 DEF TypeOK, Commands
<1>11. files'[DefaultPlace][cmd.profile] \in {NoLine, new}
  BY <1>5, <1>8, <1>10, PlacesAre
<1>12. cmd'.profile = cmd.profile
  BY <1>1, <1>2, AfterSavingFacts
<1>13. Matched(DefaultPlace, cmd.profile)' => files'[DefaultPlace][cmd.profile] = new
  BY <1>11, <1>12 DEF Matched
<1>14. FilesOK'
  BY <1>1, <1>2, <1>7, PlacesAre DEF FilesOK, TypeOK
<1>. QED BY <1>2, <1>9, <1>13, <1>14, SavedIInv, PlacesAre

LEMMA UpdateFileIInv == IInv /\ UpdateFile => IInv'
<1> SUFFICES ASSUME IInv, UpdateFile PROVE IInv'
  OBVIOUS
<1>1. TypeOK /\ Issued
  BY DEF IInv
<1>2. /\ Saving /\ AfterSaving /\ UNCHANGED <<api, bounds, new, told>>
      /\ saved' = "saved" /\ loggedOut' = FALSE
      /\ present' = present /\ DefaultPlace \in present
      /\ Rewrite(DefaultPlace, new)
  BY DEF UpdateFile
<1>3. new \in 0 .. issued /\ issued' = issued
  BY <1>1, <1>2 DEF TypeOK, api
<1>4. /\ FilesOK'
      /\ \A p \in Profiles : files'[DefaultPlace][p] =
           IF Matched(DefaultPlace, p) THEN new ELSE files[DefaultPlace][p]
      /\ \A x \in Places \ {DefaultPlace} : files'[x] = files[x]
      /\ \A x \in Places, p \in Profiles : files'[x][p] <= issued
      /\ loose' = loose
  BY <1>1, <1>2, <1>3, RewrittenLines
<1>5. \A x \in Places \ present' : \A p \in Profiles : files'[x][p] = NoLine
  BY <1>1, <1>2, <1>4 DEF Issued
<1>6. cmd.profile \in Profiles /\ cmd'.profile = cmd.profile
  BY <1>1, <1>2, AfterSavingFacts DEF TypeOK, Commands
<1>7. Matched(DefaultPlace, cmd.profile)' => files'[DefaultPlace][cmd.profile] = new
  BY <1>4, <1>6 DEF Matched
<1>. QED BY <1>2, <1>4, <1>5, <1>7, SavedIInv

\* The key is not saved.
LEMMA NotSavedIInv ==
    ASSUME IInv, Saving \/ pc = "save", AfterSaving,
           UNCHANGED <<disk, api, bounds, new, told, loggedOut>>,
           saved' \in {saved, "none", "error"}
    PROVE  IInv'
<1>1. CASE End
  <2>1. UNCHANGED <<disk, api, bounds, new, loggedOut>> /\ told' = told
    OBVIOUS
  <2>. QED BY <1>1, <2>1, EndIInv
<1>2. CASE pc # "store" /\ Goto("show")
  <2>1. new \in Keys /\ saved # "saved"
    BY <1>2 DEF IInv, Storing, Saving
  <2>2. saved' # "saved"
    BY <2>1
  <2>3. /\ pc' = "show" /\ UNCHANGED <<cmd, credential, toClear>> /\ agreed' = agreed
    BY <1>2 DEF Goto
  <2>. QED BY <2>1, <2>2, <2>3, GotoIInv
<1>. QED BY <1>1, <1>2 DEF AfterSaving

LEMMA LogoutIInv == IInv /\ Logout => IInv'
<1> SUFFICES ASSUME IInv, Logout PROVE IInv'
  OBVIOUS
<1>1. TypeOK /\ Issued /\ Clearing /\ Storing
  BY DEF IInv
<1>2. /\ present' = present /\ files' = files /\ loose' = loose /\ gap' = gap
      /\ broken' = broken /\ valid' = valid /\ issued' = issued
      /\ commandsLeft' = commandsLeft /\ othersLeft' = othersLeft /\ told' = told
      /\ loggedOut' = loggedOut /\ new' = new /\ saved' = saved
      /\ cmd' = cmd /\ agreed' = agreed /\ credential' = credential
      /\ pc = "logout" /\ pc' = "clear" /\ toClear' \subseteq present
      /\ cmd.apart \/ toClear' = present
  BY DEF Logout, disk, api, bounds
<1>3. TypeOK'
  <2>1. /\ FilesOK' /\ toClear' \subseteq present' /\ loggedOut' \in BOOLEAN /\ agreed' \in BOOLEAN
    BY <1>1, <1>2 DEF TypeOK, FilesOK
  <2>2. /\ valid' \in 0 .. issued' /\ issued' \in 0 .. MaxKeys /\ new' \in 0 .. issued'
        /\ commandsLeft' \in 0 .. MaxCommands /\ othersLeft' \in 0 .. MaxOthers
    BY <1>1, <1>2 DEF TypeOK
  <2>3. credential' \in [source : Sources \cup {"none"}, key : 0 .. issued']
    BY <1>1, <1>2 DEF TypeOK
  <2>4. told' \subseteq 1 .. issued' /\ cmd' \in Commands /\ saved' \in {"none", "saved", "error"}
    BY <1>1, <1>2 DEF TypeOK
  <2>. QED BY <1>2, <2>1, <2>2, <2>3, <2>4 DEF TypeOK, FilesOK
<1>4. Issued'
  BY <1>1, <1>2 DEF Issued
<1>5. Clearing'
  BY <1>1, <1>2 DEF Clearing, Clean
<1>6. Storing' /\ Rotating' /\ SourcesInOrder'
  BY <1>1, <1>2 DEF Storing, Rotating, SourcesInOrder, Requesting, Matched
<1>. QED BY <1>3, <1>4, <1>5, <1>6 DEF IInv

LEMMA ClearOneIInv == IInv /\ ClearOne => IInv'
<1> SUFFICES ASSUME IInv, ClearOne PROVE IInv'
  OBVIOUS
<1>1. TypeOK /\ Issued /\ Clearing /\ Storing
  BY DEF IInv
<1>2. PICK place \in toClear : Rewrite(place, Empty) /\ toClear' = toClear \ {place}
  BY DEF ClearOne
<1>3. /\ present' = present /\ valid' = valid /\ issued' = issued
      /\ commandsLeft' = commandsLeft /\ othersLeft' = othersLeft /\ told' = told
      /\ loggedOut' = loggedOut /\ new' = new /\ saved' = saved
      /\ cmd' = cmd /\ agreed' = agreed /\ credential' = credential
      /\ pc = "clear" /\ pc' = "clear"
  BY DEF ClearOne, api, bounds
<1>4. Empty \in 0 .. issued /\ place \in present /\ present \subseteq Places
  BY <1>1, <1>2 DEF TypeOK, Empty
<1>5. /\ FilesOK'
      /\ \A p \in Profiles :
           files'[place][p] = IF Matched(place, p) THEN Empty ELSE files[place][p]
      /\ \A x \in Places \ {place} : files'[x] = files[x]
      /\ \A x \in Places, p \in Profiles : files'[x][p] <= issued
      /\ loose' = loose
  BY <1>1, <1>2, <1>3, <1>4, RewrittenLines
<1>6. TypeOK'
  <2>1. /\ toClear' \subseteq present' /\ loggedOut' \in BOOLEAN /\ agreed' \in BOOLEAN
    BY <1>1, <1>2, <1>3 DEF TypeOK
  <2>2. /\ valid' \in 0 .. issued' /\ issued' \in 0 .. MaxKeys /\ new' \in 0 .. issued'
        /\ commandsLeft' \in 0 .. MaxCommands /\ othersLeft' \in 0 .. MaxOthers
    BY <1>1, <1>3 DEF TypeOK
  <2>3. credential' \in [source : Sources \cup {"none"}, key : 0 .. issued']
    BY <1>1, <1>3 DEF TypeOK
  <2>4. told' \subseteq 1 .. issued' /\ cmd' \in Commands /\ saved' \in {"none", "saved", "error"}
    BY <1>1, <1>3 DEF TypeOK
  <2>. QED BY <1>3, <1>5, <2>1, <2>2, <2>3, <2>4 DEF TypeOK, FilesOK
<1>7. Issued'
  <2>1. \A x \in Places \ present' : \A p \in Profiles : files'[x][p] = NoLine
    BY <1>1, <1>3, <1>4, <1>5 DEF Issued
  <2>. QED BY <1>1, <1>3, <1>5, <2>1 DEF Issued
<1>8. Clearing'
  <2>1. NoLine \notin Keys /\ Empty \notin Keys
    BY DEF NoLine, Empty, Keys
  <2>2. Clean(place)'
    BY <1>5, <2>1 DEF Clean, Matched
  <2>3. \A x \in Places \ {place} : Clean(x) => Clean(x)'
    BY <1>5 DEF Clean
  <2>. QED BY <1>1, <1>2, <1>3, <1>4, <2>2, <2>3 DEF Clearing
<1>9. Storing' /\ Rotating' /\ SourcesInOrder'
  BY <1>1, <1>3 DEF Storing, Rotating, SourcesInOrder, Requesting, Matched
<1>. QED BY <1>6, <1>7, <1>8, <1>9 DEF IInv

LEMMA ClearedIInv == IInv /\ Cleared => IInv'
<1> SUFFICES ASSUME IInv, Cleared PROVE IInv'
  OBVIOUS
<1>1. TypeOK /\ Issued /\ Clearing /\ Storing
  BY DEF IInv
<1>2. /\ present' = present /\ files' = files /\ loose' = loose /\ gap' = gap
      /\ broken' = broken /\ valid' = valid /\ issued' = issued
      /\ commandsLeft' = commandsLeft /\ othersLeft' = othersLeft /\ told' = told
      /\ new' = new /\ saved' = saved /\ pc = "clear" /\ toClear = {}
      /\ loggedOut' = (loggedOut \/ ~cmd.apart)
  BY DEF Cleared, disk, api, bounds
<1>3. /\ pc' = "idle" /\ cmd' \in Commands /\ cmd'.profile = cmd.profile
      /\ cmd'.flag = 0 /\ cmd'.env = 0
      /\ credential' = NoCredential /\ agreed' = FALSE /\ toClear' = {}
  BY <1>1, EndFacts DEF Cleared
<1>4. TypeOK'
  <2>1. /\ FilesOK' /\ toClear' \subseteq present' /\ loggedOut' \in BOOLEAN /\ agreed' \in BOOLEAN
    BY <1>1, <1>2, <1>3 DEF TypeOK, FilesOK
  <2>2. /\ valid' \in 0 .. issued' /\ issued' \in 0 .. MaxKeys /\ new' \in 0 .. issued'
        /\ commandsLeft' \in 0 .. MaxCommands /\ othersLeft' \in 0 .. MaxOthers
    BY <1>1, <1>2 DEF TypeOK
  <2>3. credential' \in [source : Sources \cup {"none"}, key : 0 .. issued']
    BY <1>1, <1>3, <2>2 DEF NoCredential
  <2>4. told' \subseteq 1 .. issued' /\ saved' \in {"none", "saved", "error"}
    BY <1>1, <1>2 DEF TypeOK
  <2>. QED BY <1>3, <2>1, <2>2, <2>3, <2>4 DEF TypeOK, FilesOK
<1>5. Issued'
  <2>1. issued' \in Nat
    BY <1>4 DEF TypeOK
  <2>. QED BY <1>1, <1>2, <1>3, <2>1 DEF Issued
<1>6. Clearing'
  <2>1. ASSUME loggedOut', NEW x \in Places PROVE Clean(x)
    <3>1. CASE loggedOut
      BY <1>1, <3>1 DEF Clearing
    <3>2. CASE ~cmd.apart /\ x \in present
      BY <1>1, <1>2, <3>2 DEF Clearing
    <3>3. CASE x \notin present
      <4>1. NoLine \notin Keys
        BY DEF NoLine, Keys
      <4>. QED BY <1>1, <3>3, <4>1 DEF Issued, Clean
    <3>. QED BY <1>2, <2>1, <3>1, <3>2, <3>3
  <2>2. \A x \in Places : Clean(x)' <=> Clean(x)
    BY <1>2 DEF Clean
  <2>. QED BY <1>3, <2>1, <2>2 DEF Clearing
<1>7. Storing' /\ Rotating' /\ SourcesInOrder'
  BY <1>1, <1>2, <1>3 DEF Storing, Rotating, SourcesInOrder, Requesting, Matched
<1>. QED BY <1>4, <1>5, <1>6, <1>7 DEF IInv

-----------------------------------------------------------------------------
(* The invariant                                                            *)

LEMMA StutterIInv == IInv /\ UNCHANGED vars => IInv'
<1> SUFFICES ASSUME IInv, UNCHANGED vars PROVE IInv'
  OBVIOUS
<1>1. /\ present' = present /\ files' = files /\ loose' = loose /\ gap' = gap
      /\ broken' = broken /\ valid' = valid /\ issued' = issued
      /\ commandsLeft' = commandsLeft /\ othersLeft' = othersLeft /\ told' = told
      /\ loggedOut' = loggedOut /\ new' = new /\ saved' = saved
      /\ cmd' = cmd /\ agreed' = agreed /\ credential' = credential
      /\ pc' = pc /\ toClear' = toClear
  BY DEF vars, disk, api, bounds, command
<1>2. TypeOK'
  BY <1>1 DEF IInv, TypeOK
<1>3. Issued' /\ Clearing' /\ Storing' /\ Rotating'
  BY <1>1 DEF IInv, Issued, Clearing, Clean, Storing, Rotating, Matched
<1>4. SourcesInOrder'
  <2>1. FileKey(cmd.profile)' = FileKey(cmd.profile)
    BY <1>1, FileKeyStays DEF IInv, TypeOK, Commands
  <2>. QED BY <1>1, <2>1 DEF IInv, SourcesInOrder, Requesting
<1>. QED BY <1>2, <1>3, <1>4 DEF IInv

\* The requests and what their answers do
LEMMA ApiIInv == IInv /\ Api => IInv'
<1> SUFFICES ASSUME IInv, Api PROVE IInv'
  OBVIOUS
<1>1. TypeOK /\ Storing /\ Rotating
  BY DEF IInv
<1>2. othersLeft \in Nat
  BY <1>1 DEF TypeOK
<1>3. CASE Use
  BY <1>3, EndIInv DEF Use
<1>4. CASE Login
  BY <1>4, LoginIInv
<1>5. CASE Create
  <2>1. /\ Issue /\ UNCHANGED <<disk, cmd, credential, toClear, agreed, saved, loggedOut>>
        /\ commandsLeft' = commandsLeft /\ othersLeft' = othersLeft /\ told' = told
        /\ pc = "create" /\ pc' \in {"tell", "save"} /\ new' = valid'
    BY <1>5 DEF Create, Goto, bounds
  <2>. QED BY <1>2, <2>1, IssueIInv
<1>6. CASE AnswerLost
  <2>1. /\ Issue /\ UNCHANGED <<disk, cmd, credential, toClear, agreed, saved, loggedOut>>
        /\ commandsLeft' = commandsLeft /\ othersLeft' = othersLeft /\ told' = told
        /\ pc' = pc /\ new' = new
    BY <1>6 DEF AnswerLost, command, bounds
  <2>. QED BY <1>2, <2>1, IssueIInv
<1>7. CASE Duplicate
  <2>1. /\ UNCHANGED <<disk, api, bounds, new, loggedOut>> /\ told' = told
        /\ saved' = saved /\ pc = "create"
    BY <1>7 DEF Duplicate
  <2>2. saved # "saved" /\ Requesting
    BY <1>1, <2>1 DEF Storing, Requesting
  <2>3. CASE pc' = "list" /\ agreed' = TRUE /\ UNCHANGED <<cmd, credential, toClear>>
    BY <2>1, <2>2, <2>3, GotoIInv
  <2>4. CASE End
    BY <2>1, <2>4, EndIInv
  <2>. QED BY <1>7, <2>3, <2>4 DEF Duplicate
<1>8. CASE List
  <2>1. /\ UNCHANGED <<disk, api, bounds, new, loggedOut>> /\ told' = told
        /\ saved' = saved /\ pc = "list"
    BY <1>8 DEF List
  <2>2. saved # "saved" /\ Requesting /\ (agreed \/ cmd.kind = "refresh")
    BY <1>1, <2>1 DEF Storing, Rotating, Requesting
  <2>3. CASE Goto("rotate")
    <3>1. pc' = "rotate" /\ UNCHANGED <<cmd, credential, toClear>> /\ agreed' = agreed
      BY <2>3 DEF Goto
    <3>. QED BY <2>1, <2>2, <3>1, GotoIInv
  <2>4. CASE Goto("create")
    <3>1. pc' = "create" /\ UNCHANGED <<cmd, credential, toClear>> /\ agreed' = agreed
      BY <2>4 DEF Goto
    <3>. QED BY <2>1, <2>2, <3>1, GotoIInv
  <2>5. CASE End
    BY <2>1, <2>5, EndIInv
  <2>. QED BY <1>8, <2>3, <2>4, <2>5 DEF List
<1>9. CASE Rotate
  <2>1. /\ Issue /\ UNCHANGED <<disk, cmd, credential, toClear, agreed, saved, loggedOut>>
        /\ commandsLeft' = commandsLeft /\ othersLeft' = othersLeft /\ told' = told
        /\ pc = "rotate" /\ pc' = "save" /\ new' = valid'
    BY <1>9 DEF Rotate, Goto, bounds
  <2>. QED BY <1>2, <2>1, IssueIInv
<1>. QED BY <1>3, <1>4, <1>5, <1>6, <1>7, <1>8, <1>9 DEF Api

\* Telling the user of the key, and saving it
LEMMA KeepIInv == IInv /\ Keep => IInv'
<1> SUFFICES ASSUME IInv, Keep PROVE IInv'
  OBVIOUS
<1>1. CASE Tell
  <2>1. /\ UNCHANGED <<disk, api, bounds, new, loggedOut>> /\ told' = told \cup {new}
        /\ saved' = saved /\ pc \in {"tell", "show"}
    BY <1>1 DEF Tell
  <2>2. new \in Keys
    BY <2>1 DEF IInv, Storing
  <2>3. CASE End
    BY <2>1, <2>2, <2>3, EndIInv
  <2>4. CASE pc = "tell" /\ Goto("store")
    <3>1. pc' = "store" /\ UNCHANGED <<cmd, credential, toClear>> /\ agreed' = agreed
      BY <2>4 DEF Goto
    <3>2. saved # "saved"
      BY <2>4 DEF IInv, Storing
    <3>. QED BY <2>1, <2>2, <3>1, <3>2, GotoIInv
  <2>. QED BY <1>1, <2>3, <2>4 DEF Tell
<1>2. CASE NotSaved
  BY <1>2, NotSavedIInv DEF NotSaved
<1>3. CASE NoFile
  <2>1. saved' \in {"none", "error"}
    BY <1>3 DEF NoFile
  <2>. QED BY <1>3, <2>1, NotSavedIInv DEF NoFile
<1>4. CASE CreateFile
  BY <1>4, CreateFileIInv
<1>5. CASE UpdateFile
  BY <1>5, UpdateFileIInv
<1>6. CASE UpdateFails
  BY <1>6, NotSavedIInv DEF UpdateFails
<1>. QED BY <1>1, <1>2, <1>3, <1>4, <1>5, <1>6 DEF Keep

LEMMA StepIInv == IInv /\ [Next]_vars => IInv'
<1> SUFFICES ASSUME IInv, [Next]_vars PROVE IInv'
  OBVIOUS
<1>1. CASE Start
  BY <1>1, StartIInv
<1>2. CASE Resolve
  BY <1>2, ResolveIInv
<1>3. CASE RequestFails
  BY <1>3, EndIInv DEF RequestFails
<1>4. CASE Api
  BY <1>4, ApiIInv
<1>5. CASE Keep
  BY <1>5, KeepIInv
<1>6. CASE Out
  <2>1. CASE ClearFails
    BY <2>1, EndIInv DEF ClearFails
  <2>. QED BY <1>6, <2>1, LogoutIInv, ClearOneIInv, ClearedIInv DEF Out
<1>7. CASE Killed
  BY <1>7, EndIInv DEF Killed
<1>8. CASE Others
  BY <1>8, OthersIInv
<1>9. CASE LoadFails
  BY <1>9, LoadFailsIInv
<1>10. CASE UNCHANGED vars
  BY <1>10, StutterIInv
<1>. QED BY <1>1, <1>2, <1>3, <1>4, <1>5, <1>6, <1>7, <1>8, <1>9, <1>10 DEF Next, Work

\* Every reachable state: the invariant holds.
THEOREM Invariance == Spec => []IInv
BY InitIInv, StepIInv, PTL DEF Spec

\* Every variable keeps its type in every behaviour of the commands.
THEOREM TypeCorrect == Spec => []TypeOK
<1>1. IInv => TypeOK
  BY DEF IInv
<1>. QED BY Invariance, <1>1, PTL

\* A logout that ended well leaves no profile a key to find in a credentials
\* file, however many profiles there are and whichever headers the expression ran
\* over, until a command saves one, but in a line that it does not match.
THEOREM LogoutHolds == Spec => []LogoutIsComplete
<1>1. IInv => LogoutIsComplete
  <2>1. SUFFICES ASSUME IInv, loggedOut, NEW p \in Profiles
        PROVE \/ FileKey(p) = 0
              \/ \E x \in Places, q \in {p, "default"} : q \in loose[x] /\ FileKey(p) = files[x][q]
    BY DEF LogoutIsComplete
  <2>2. \A x \in Places : Clean(x)
    BY <2>1 DEF IInv, Clearing
  <2>. QED BY <2>2, FileKeyClean
<1>. QED BY Invariance, <1>1, PTL

\* The key that a command saved is what its profile reads from the files, if the
\* command matched the line of the profile and every file can still be read.
THEOREM SavedHolds == Spec => []SavedIsRead
<1>1. IInv => SavedIsRead
  <2>1. SUFFICES ASSUME IInv, saved = "saved", Matched(DefaultPlace, cmd.profile)
        PROVE FileKey(cmd.profile) = new
    BY DEF SavedIsRead
  <2>2. new \in Keys /\ files[DefaultPlace][cmd.profile] = new /\ cmd.profile \in Profiles
    BY <2>1 DEF IInv, Storing, TypeOK, Commands
  <2>. QED BY <2>2, FileKeySaved
<1>. QED BY Invariance, <1>1, PTL

\* A key that is passed comes before a stored one, and a session comes last.
THEOREM OrderHolds == Spec => []SourcesInOrder
<1>1. IInv => SourcesInOrder
  BY DEF IInv
<1>. QED BY Invariance, <1>1, PTL

\* No command voids the key of the user without being there to do it, or told to.
THEOREM ConsentHolds == Spec => RotationIsConsented
<1>1. ASSUME IInv, [Next]_vars
      PROVE  [valid # 0 /\ valid' # valid /\ othersLeft' = othersLeft =>
                  agreed \/ cmd.kind = "refresh"]_vars
  <2>1. SUFFICES ASSUME Next, valid # 0, valid' # valid, othersLeft' = othersLeft
        PROVE agreed \/ cmd.kind = "refresh"
    BY <1>1
  <2>2. othersLeft \in Nat
    BY <1>1 DEF IInv, TypeOK
  <2>3. ~Others
    BY <2>1, <2>2 DEF Others
  <2>4. pc = "rotate"
    BY <2>1, <2>3 DEF Next, Start, LoadFails, Work, Resolve, RequestFails, Api, Use, Login, Create,
       AnswerLost, Duplicate, List, Rotate, Keep, Tell, NotSaved, NoFile, CreateFile,
       UpdateFile, UpdateFails, Out, Logout, ClearOne, ClearFails, Cleared, Killed, api
  <2>. QED BY <1>1, <2>4 DEF IInv, Rotating
<1>. QED BY Invariance, <1>1, PTL DEF Spec, RotationIsConsented

-----------------------------------------------------------------------------
(* The OIDC provider                                                        *)


OidcIInv == OidcTypeOK /\ EntriesAreGenuine

LEMMA OidcInitIInv == OidcInit => OidcIInv
BY OidcAssumption, NoToken DEF OidcInit, OidcIInv, OidcTypeOK, EntriesAreGenuine

\* A job's own step leaves the others where they were.
LEMMA OidcStepIInv == OidcIInv /\ [OidcNext]_oidcVars => OidcIInv'
<1> SUFFICES ASSUME OidcIInv, [OidcNext]_oidcVars PROVE OidcIInv'
  OBVIOUS
<1> USE OidcAssumption, NoToken DEF OidcIInv, OidcTypeOK, EntriesAreGenuine, Move, Return, Entry,
        File, stores
<1>1. ASSUME NEW j \in Jobs, NEW s \in Services, Ask(j, s) PROVE OidcIInv'
  BY <1>1 DEF Ask
<1>2. ASSUME NEW j \in Jobs, KeyringMiss(j) PROVE OidcIInv'
  BY <1>2 DEF KeyringMiss
<1>3. ASSUME NEW j \in Jobs, KeyringHit(j) PROVE OidcIInv'
  <2>1. asked[j] \in Services /\ Entry(j) \in Tokens
    BY <1>3 DEF KeyringHit
  <2>. QED BY <1>3, <2>1 DEF KeyringHit
<1>4. ASSUME NEW j \in Jobs, KeyringExpired(j) PROVE OidcIInv'
  BY <1>4 DEF KeyringExpired
<1>5. ASSUME NEW j \in Jobs, KeyringDelete(j) PROVE OidcIInv'
  <2>1. asked[j] \in Services
    BY <1>5 DEF KeyringDelete
  <2>. QED BY <1>5, <2>1 DEF KeyringDelete
<1>6. ASSUME NEW j \in Jobs, DiskMiss(j) PROVE OidcIInv'
  BY <1>6 DEF DiskMiss
<1>7. ASSUME NEW j \in Jobs, DiskHit(j) PROVE OidcIInv'
  <2>1. asked[j] \in Services /\ File(j) \in Tokens
    BY <1>7 DEF DiskHit
  <2>. QED BY <1>7, <2>1 DEF DiskHit
<1>8. ASSUME NEW j \in Jobs, DiskBad(j) PROVE OidcIInv'
  BY <1>8 DEF DiskBad
<1>9. ASSUME NEW j \in Jobs, Unlink(j) PROVE OidcIInv'
  <2>1. asked[j] \in Services
    BY <1>9 DEF Unlink
  <2>. QED BY <1>9, <2>1 DEF Unlink
<1>10. ASSUME NEW j \in Jobs, NoExchange(j) PROVE OidcIInv'
  BY <1>10 DEF NoExchange
<1>11. ASSUME NEW j \in Jobs, Exchange(j) PROVE OidcIInv'
  <2>1. PICK l \in Legible :
          /\ minted' = minted \cup {[service |-> asked[j], expires |-> now + Lifetime, legible |-> l]}
          /\ own' = [own EXCEPT ![j] = [service |-> asked[j], expires |-> now + Lifetime, legible |-> l]]
    BY <1>11 DEF Exchange
  <2>2. asked[j] \in Services /\ now + Lifetime \in 0 .. MaxTime + Lifetime
    BY <1>11 DEF Exchange
  <2> DEFINE t == [service |-> asked[j], expires |-> now + Lifetime, legible |-> l]
  <2>3. t \in Tokens /\ t.service = asked[j] /\ t # None
    BY <2>2 DEF Tokens
  <2>4. minted' = minted \cup {t} /\ own' = [own EXCEPT ![j] = t]
    BY <2>1
  <2> HIDE DEF t
  <2>. QED BY <1>11, <2>2, <2>3, <2>4 DEF Exchange
<1>12. ASSUME NEW j \in Jobs, Store(j) PROVE OidcIInv'
  <2>1. asked[j] \in Services /\ own[j] \in Tokens
    BY <1>12 DEF Store
  <2>. QED BY <1>12, <2>1 DEF Store
<1>13. ASSUME NEW j \in Jobs, JobKilled(j) PROVE OidcIInv'
  BY <1>13 DEF JobKilled
<1>14. CASE Tick
  BY <1>14 DEF Tick
<1>15. CASE UNCHANGED oidcVars
  BY <1>15 DEF oidcVars
<1>. QED
  BY <1>1, <1>2, <1>3, <1>4, <1>5, <1>6, <1>7, <1>8, <1>9, <1>10, <1>11, <1>12, <1>13,
     <1>14, <1>15 DEF OidcNext, Step

\* Every variable keeps its type, and no token comes to stand where one for another
\* service should, but in an entry of the keyring whose name theirs join to alike,
\* whatever jobs race on it.
THEOREM Genuine == OidcSpec => [](OidcTypeOK /\ EntriesAreGenuine)
BY OidcInitIInv, OidcStepIInv, PTL DEF OidcSpec, OidcIInv

\* The provider, with its caches and the jobs that race on them, gives out what a
\* service without a cache would.
THEOREM Refinement == OidcSpec => Implements
<1>1. OidcInit => Promise!Init
  BY DEF OidcInit, Promise!Init
<1>2. OidcIInv /\ [OidcNext]_oidcVars => [Promise!Next]_(Promise!vars)
  <2> SUFFICES ASSUME OidcIInv, [OidcNext]_oidcVars PROVE [Promise!Next]_(Promise!vars)
    OBVIOUS
  <2> USE OidcAssumption, NoToken DEF OidcIInv, OidcTypeOK, EntriesAreGenuine, Move, Return, Entry,
          File, stores, Promise!Next, Promise!vars
  <2>1. ASSUME NEW j \in Jobs, NEW s \in Services, Ask(j, s) PROVE Promise!Ask(j, s)
    BY <2>1 DEF Ask, Promise!Ask
  <2>2. ASSUME NEW j \in Jobs, KeyringHit(j) PROVE Promise!Grant(j, Entry(j)) /\ Entry(j) \in Tokens
    <3>1. asked[j] \in Services /\ Joined[asked[j]] \in Entries
      BY <2>2 DEF KeyringHit
    <3>2. Entry(j) \in minted /\ Entry(j) \in Tokens /\ Entry(j).service \in Services
          /\ Joined[Entry(j).service] = Joined[asked[j]]
      BY <2>2, <3>1 DEF KeyringHit, Tokens
    <3> DEFINE Alike == [s \in Services |-> {r \in Services : Joined[r] = Joined[s]}]
    <3>3. Entry(j).service \in Alike[asked[j]]
      BY <3>1, <3>2
    <3>4. Entry(j).legible => Entry(j).expires - now >= Margin
      BY <2>2 DEF KeyringHit, Fresh
    <3>5. Promise!Grantable(j, Entry(j))
      BY <2>2, <3>2, <3>3, <3>4 DEF KeyringHit, Promise!Grantable
    <3>6. asked[j] # None
      BY <3>1
    <3>. QED BY <2>2, <3>2, <3>5, <3>6 DEF KeyringHit, Promise!Grant
  <2>3. ASSUME NEW j \in Jobs, DiskHit(j) PROVE Promise!Grant(j, File(j)) /\ File(j) \in Tokens
    <3>1. asked[j] \in Services /\ File(j) \in Tokens /\ File(j) \in minted
          /\ File(j).service = asked[j]
      BY <2>3 DEF DiskHit
    <3>2. Promise!Grantable(j, File(j))
      BY <2>3, <3>1 DEF DiskHit, Fresh, Promise!Grantable
    <3>. QED BY <2>3, <3>1, <3>2 DEF DiskHit, Promise!Grant
  <2>4. ASSUME NEW j \in Jobs, Store(j) PROVE Promise!Grant(j, own[j]) /\ own[j] \in Tokens
    <3>1. own[j] \in Tokens /\ own[j] \in minted /\ own[j].service = asked[j]
      BY <2>4 DEF Store
    <3>. QED BY <2>4, <3>1 DEF Store, Promise!Grant, Promise!Grantable
  <2>5. ASSUME NEW j \in Jobs, NoExchange(j) PROVE Promise!Deny(j)
    BY <2>5 DEF NoExchange, Promise!Deny
  <2>6. ASSUME NEW j \in Jobs, JobKilled(j) PROVE Promise!Deny(j)
    BY <2>6 DEF JobKilled, Promise!Deny
  <2>7. ASSUME NEW j \in Jobs, Exchange(j) PROVE \E t \in Tokens : Promise!Mint(j, t)
    <3>1. PICK l \in Legible :
            /\ minted' = minted \cup {[service |-> asked[j], expires |-> now + Lifetime, legible |-> l]}
            /\ own' = [own EXCEPT ![j] = [service |-> asked[j], expires |-> now + Lifetime, legible |-> l]]
      BY <2>7 DEF Exchange
    <3> DEFINE t == [service |-> asked[j], expires |-> now + Lifetime, legible |-> l]
    <3>2. asked[j] \in Services /\ now + Lifetime \in 0 .. MaxTime + Lifetime
      BY <2>7 DEF Exchange
    <3>3. t \in Tokens /\ t.service = asked[j]
      BY <3>2 DEF Tokens
    <3>4. minted' = minted \cup {t} /\ own' = [own EXCEPT ![j] = t]
      BY <3>1
    <3> HIDE DEF t
    <3>5. Promise!Mint(j, t)
      BY <2>7, <3>3, <3>4 DEF Exchange, Promise!Mint
    <3>. QED BY <3>3, <3>5
  <2>8. CASE Tick
    BY <2>8 DEF Tick, Promise!Pass
  <2>9. ASSUME NEW j \in Jobs,
               KeyringMiss(j) \/ KeyringExpired(j) \/ KeyringDelete(j) \/ DiskMiss(j)
               \/ DiskBad(j) \/ Unlink(j)
        PROVE  UNCHANGED Promise!vars
    BY <2>9 DEF KeyringMiss, KeyringExpired, KeyringDelete, DiskMiss, DiskBad, Unlink
  <2>10. CASE UNCHANGED oidcVars
    BY <2>10 DEF oidcVars
  <2>. QED
    BY <2>1, <2>2, <2>3, <2>4, <2>5, <2>6, <2>7, <2>8, <2>9, <2>10 DEF OidcNext, Step
<1>3. OidcSpec => []OidcIInv
  BY OidcInitIInv, OidcStepIInv, PTL DEF OidcSpec
<1>. QED BY <1>1, <1>2, <1>3, PTL DEF OidcSpec, Implements, Promise!Spec
=============================================================================
