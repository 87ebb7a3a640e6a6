------------------------------- MODULE ApiKeys ------------------------------
(***************************************************************************)
(* The API key of a user: the credentials files that keep it for each       *)
(* profile, the chain of sources that a command takes a credential from,     *)
(* the commands that make or rotate the key (login, tokens create, tokens    *)
(* refresh, auth --request-api-key) and save it, and logout.  The API keeps   *)
(* one key for the user, which the web application can change as well.        *)
(***************************************************************************)
EXTENDS Integers, Sequences, FiniteSets, FiniteSetsExt

CONSTANTS
    Profiles,      \* the profiles of the files, "default" among them
    MaxKeys,       \* bound: keys that the API issues
    MaxCommands,   \* bound: commands that are run
    MaxOthers,     \* bound: changes from the web application
    MaxLines,      \* bound: lines of a file between two sections, see gap
    Unmatched      \* the lines that say "api_key: ..." or are indented: <<place, profile>>

ASSUME ApiKeysAssumption ==
    /\ "default" \in Profiles
    /\ MaxKeys \in Nat \ {0} /\ MaxCommands \in Nat /\ MaxOthers \in Nat
    /\ MaxLines \in Nat

\* The search path of the credentials files: that of --credentials-file, or else
\* that of the current directory, and that of the user.  The first one wins, and
\* is the one that is created or updated.
SearchPath == <<"first", "home">>
Places == {SearchPath[i] : i \in DOMAIN SearchPath}
DefaultPlace == SearchPath[1]

\* A section of a file has a key, an empty line for one (0), or no line at all.
NoLine == -1
Empty == 0
Last == -1
Keys == 1 .. MaxKeys
Sources == {"flag", "env", "file", "keyring", "oidc"}
Kinds == {"use", "login", "create", "refresh", "request", "logout"}

Commands == [kind : Kinds, profile : Profiles, save : BOOLEAN,
             force : BOOLEAN, apart : BOOLEAN, flag : 0 .. MaxKeys, env : 0 .. MaxKeys,
             session : BOOLEAN, oidc : BOOLEAN]

\* An option is looked at only with the kinds of command that have it, and one
\* of two sources that are treated alike with the commands that make a key.
Effective(c) ==
    /\ c.save => c.kind \in {"create", "refresh", "request"}
    /\ c.force => c.kind \in {"create", "refresh"}
    /\ c.apart => c.kind = "logout"
    /\ c.env # 0 \/ c.session => c.kind \in {"use", "create", "refresh"}
    /\ c.flag # 0 \/ c.oidc => c.kind = "use"

VARIABLES
    present, files,     \* which files exist; place -> profile -> key, Empty or NoLine
    loose,              \* place -> the profiles with a line that is read but not matched
    gap,                \* place -> profile -> the lines between its key and the header of
                        \* the next section with one, blank lines aside, or Last
    broken,             \* the files that have two keys in a section by now
    valid, issued,      \* the API: the key that it takes (0: none), how many were made
    commandsLeft, othersLeft,
    pc, cmd,            \* the command: where it is, and its options
    credential,         \* [source, key] of the chain, or NoCredential
    new,                \* the key that the command obtained, or 0
    agreed,             \* the user agreed to rotate the key
    toClear,            \* the files that logout has not cleared
    saved,              \* what the last command said of the file
    told,               \* keys that the user was shown
    loggedOut           \* history: no key was saved since a logout of the files

disk    == <<present, files, loose, gap, broken>>
api     == <<valid, issued>>
bounds  == <<commandsLeft, othersLeft>>
command == <<pc, cmd, credential, agreed, toClear>>
vars    == <<disk, api, bounds, command, new, saved, told, loggedOut>>

NoCredential == [source |-> "none", key |-> 0]
Blank == [p \in Profiles |-> NoLine]
Idle == [kind |-> "use", profile |-> "default", save |-> FALSE,
         force |-> FALSE, apart |-> FALSE, flag |-> 0, env |-> 0, session |-> FALSE, oidc |-> FALSE]

\* The user has a key or not, and files with that key in any of their sections, which
\* come in any order.
Init ==
    /\ valid \in {0, 1} /\ issued = valid
    /\ present \in SUBSET Places
    /\ \E lines \in [present -> [Profiles -> {NoLine, valid}]] :
         files = [p \in Places |-> IF p \in present THEN lines[p] ELSE Blank]
    /\ loose = [x \in Places |-> {p \in Profiles : files[x][p] # NoLine /\ <<x, p>> \in Unmatched}]
    /\ gap \in [Places -> [Profiles -> Last .. MaxLines]]
    /\ \A x \in Places : \E last \in Profiles :
         /\ files[x][last] # NoLine \/ files[x] = Blank
         /\ \A p \in Profiles : gap[x][p] = Last <=> p = last \/ files[x][p] = NoLine
    /\ broken = {}
    /\ commandsLeft = MaxCommands /\ othersLeft = MaxOthers
    /\ pc = "idle" /\ cmd = Idle /\ credential = NoCredential
    /\ new = 0 /\ agreed = FALSE /\ toClear = {}
    /\ saved = "none" /\ told = {valid} \ {0} /\ loggedOut = FALSE

-----------------------------------------------------------------------------
(* The credentials files                                                    *)

\* The files are merged section by section: the first that has a line has its say.
Merged(p) ==
    LET having == {i \in DOMAIN SearchPath : files[SearchPath[i]][p] # NoLine}
    IN IF having = {} THEN NoLine ELSE files[SearchPath[Min(having)]][p]

\* load_config: the section of the profile over the default one, and an empty
\* value over nothing.
FileKey(p) ==
    IF Merged(p) \in Keys THEN Merged(p)
    ELSE IF Merged("default") \in Keys THEN Merged("default") ELSE 0

\* Mutant: only an empty line takes the key, as in a new file.
RewrittenIfEmpty(place, key) ==
    [files EXCEPT ![place] =
        [p \in Profiles |-> IF files[place][p] = Empty THEN key ELSE files[place][p]]]

Matched(place, p) == files[place][p] # NoLine /\ p \notin loose[place]

\* _set_api_key replaces every line with a key that it matches, whatever its section.
Rewritten(place, key) ==
    [files EXCEPT ![place] =
        [p \in Profiles |-> IF Matched(place, p) THEN key ELSE files[place][p]]]

\* Where the key is empty, the blanks after "=" match the end of the line, and the
\* next line that is not blank is replaced as well.
Swallows(place, p) == Matched(place, p) /\ files[place][p] = Empty /\ gap[place][p] # Last

Rewrite(place, key) ==
    /\ files' = Rewritten(place, key)
    /\ gap' = [gap EXCEPT ![place] = [p \in Profiles |->
                 IF Swallows(place, p) /\ @[p] > 0 THEN @[p] - 1 ELSE @[p]]]
    /\ broken' = broken \cup {x \in {place} : \E p \in Profiles : Swallows(x, p) /\ gap[x][p] = 0}
    /\ UNCHANGED loose

-----------------------------------------------------------------------------
(* The chain of sources                                                     *)

\* Two keys in one section: no command reads its options.
LoadFails ==
    /\ pc = "idle" /\ commandsLeft > 0 /\ broken # {}
    /\ commandsLeft' = commandsLeft - 1
    /\ new' = 0 /\ saved' = "none"
    /\ UNCHANGED <<disk, api, othersLeft, command, told, loggedOut>>

Start ==
    /\ pc = "idle" /\ commandsLeft > 0 /\ broken = {}
    /\ commandsLeft' = commandsLeft - 1
    /\ cmd' \in {c \in Commands : Effective(c) /\ {c.flag, c.env} \subseteq told \cup {0}}
    /\ pc' = IF cmd'.kind = "logout" THEN "logout" ELSE "resolve"
    /\ new' = 0 /\ saved' = "none"
    /\ UNCHANGED <<credential, agreed, toClear>>
    /\ UNCHANGED <<disk, api, othersLeft, told, loggedOut>>

Goto(location) == pc' = location /\ UNCHANGED <<cmd, credential, agreed, toClear>>

\* The process is gone; its profile is kept to look at what it saved.
End ==
    /\ pc' = "idle" /\ cmd' = [Idle EXCEPT !.profile = cmd.profile]
    /\ credential' = NoCredential /\ agreed' = FALSE /\ toClear' = {}

\* What each provider returns; a provider that raises returns nothing.
Result(s) == CASE s = "flag" -> cmd.flag
               [] s = "env"  -> cmd.env
               [] s = "file" -> FileKey(cmd.profile)
               [] OTHER      -> 0

Provides(s) == CASE s = "keyring" -> cmd.session
                 [] s = "oidc"    -> cmd.oidc
                 [] OTHER         -> Result(s) \in Keys

\* Mutant: the session is asked before the credentials file.
SessionFirst == <<"flag", "env", "keyring", "file", "oidc">>

Providers == <<"flag", "env", "file", "keyring", "oidc">>

\* CredentialProviderChain.resolve: the first provider with a result.
Resolved ==
    LET having == {i \in DOMAIN Providers : Provides(Providers[i])}
        first  == Providers[Min(having)]
    IN IF having = {} THEN NoCredential ELSE [source |-> first, key |-> Result(first)]

FirstRequest ==
    CASE cmd.kind = "use"     -> "request"
      [] cmd.kind = "login"   -> "login"
      [] cmd.kind = "refresh" -> "list"
      [] OTHER                -> "create"

Resolve ==
    /\ pc = "resolve"
    /\ credential' = Resolved /\ pc' = FirstRequest
    /\ UNCHANGED <<cmd, agreed, toClear>>
    /\ UNCHANGED <<disk, api, bounds, new, saved, told, loggedOut>>

\* auth comes with the token of the session that it has just opened.
Accepted == \/ cmd.kind = "request"
            \/ credential.source \in {"keyring", "oidc"}
            \/ credential.source # "none" /\ credential.key = valid

-----------------------------------------------------------------------------
(* The API                                                                  *)

Requesting == pc \in {"request", "login", "list", "create", "rotate"}

\* A refusal, or no answer after the last retry
RequestFails ==
    /\ Requesting
    /\ End
    /\ UNCHANGED <<disk, api, bounds, new, saved, told, loggedOut>>

Use ==
    /\ pc = "request" /\ Accepted
    /\ End
    /\ UNCHANGED <<disk, api, bounds, new, saved, told, loggedOut>>

Issue == issued < MaxKeys /\ issued' = issued + 1 /\ valid' = issued'

\* get_user_token: the key that there is, or a new one
Login ==
    /\ pc = "login"
    /\ IF valid # 0 THEN new' = valid /\ UNCHANGED api ELSE Issue /\ new' = valid'
    /\ Goto("tell")
    /\ UNCHANGED <<disk, bounds, saved, told, loggedOut>>

\* create_user_token_saml
Create ==
    /\ pc = "create" /\ Accepted /\ valid = 0
    /\ Issue /\ new' = valid'
    /\ Goto(IF cmd.kind = "request" THEN "save" ELSE "tell")
    /\ UNCHANGED <<disk, bounds, saved, told, loggedOut>>

\* The answer to a request that makes a key is lost, and the request repeated.
AnswerLost ==
    /\ \/ pc = "login" /\ valid = 0
       \/ pc = "create" /\ Accepted /\ valid = 0
       \/ pc = "rotate" /\ Accepted /\ valid # 0
    /\ Issue
    /\ UNCHANGED <<disk, bounds, command, new, saved, told,
                   loggedOut>>

\* Mutant: the key that there is is rotated without a question.
DuplicateRotates ==
    /\ pc = "create" /\ Accepted /\ valid # 0
    /\ Goto("list")
    /\ UNCHANGED <<disk, api, bounds, new, saved, told, loggedOut>>

\* handle_duplicate_token_error: a key exists, and the user is asked.
Duplicate ==
    /\ pc = "create" /\ Accepted /\ valid # 0
    /\ \/ pc' = "list" /\ agreed' = TRUE /\ UNCHANGED <<cmd, credential, toClear>>
       \/ cmd.kind # "request" /\ ~cmd.force /\ End
    /\ UNCHANGED <<disk, api, bounds, new, saved, told, loggedOut>>

\* Mutant: a new key is asked for, whatever the list says.
ListCreates ==
    /\ pc = "list" /\ Accepted
    /\ Goto("create")
    /\ UNCHANGED <<disk, api, bounds, new, saved, told, loggedOut>>

\* list_user_tokens, and without --force the user names the key to refresh.
List ==
    /\ pc = "list" /\ Accepted
    /\ \/ valid # 0 /\ Goto("rotate")
       \/ valid = 0 /\ cmd.kind = "request" /\ End
       \/ valid = 0 /\ cmd.kind # "request" /\ Goto("create")
    /\ UNCHANGED <<disk, api, bounds, new, saved, told, loggedOut>>

\* refresh_user_token: the old key is void from here on.
Rotate ==
    /\ pc = "rotate" /\ Accepted /\ valid # 0
    /\ Issue /\ new' = valid'
    /\ Goto("save")
    /\ UNCHANGED <<disk, bounds, saved, told, loggedOut>>

-----------------------------------------------------------------------------
(* The new key                                                              *)

\* login and create show the key and then store it; a rotation saves it and then
\* shows it.
Tell ==
    /\ pc \in {"tell", "show"}
    /\ told' = told \cup {new}
    /\ IF pc = "tell" /\ (cmd.save \/ cmd.kind = "login")
       THEN Goto("store") ELSE End
    /\ UNCHANGED <<disk, api, bounds, new, saved, loggedOut>>

AfterSaving == IF pc = "store" THEN End ELSE Goto("show")

NotSaved ==
    /\ pc = "save" /\ ~cmd.save
    /\ AfterSaving
    /\ UNCHANGED <<disk, api, bounds, new, saved, told, loggedOut>>

\* Nobody is asked.
Forced == cmd.kind = "request" \/ (cmd.kind # "login" /\ cmd.force)

Saving == pc = "store" \/ (pc = "save" /\ cmd.save)

\* create_config_files: no credentials file, and the user wants none or it
\* cannot be made.
NoFile ==
    /\ Saving /\ present = {}
    /\ saved' \in IF Forced THEN {"error"} ELSE {"none", "error"}
    /\ AfterSaving
    /\ UNCHANGED <<disk, api, bounds, new, told, loggedOut>>

CreateFile ==
    /\ Saving /\ present = {}
    /\ present' = present \cup {DefaultPlace}
    /\ files' = [files EXCEPT ![DefaultPlace] = [Blank EXCEPT !["default"] = new]]
    /\ saved' = "saved" /\ loggedOut' = FALSE
    /\ AfterSaving
    /\ UNCHANGED <<loose, gap, broken, api, bounds, new, told>>

UpdateFile ==
    /\ Saving /\ DefaultPlace \in present
    /\ Rewrite(DefaultPlace, new)
    /\ saved' = "saved" /\ loggedOut' = FALSE
    /\ AfterSaving
    /\ UNCHANGED <<present, api, bounds, new, told>>

\* The file to update is elsewhere, or it cannot be written.
UpdateFails ==
    /\ Saving /\ present # {}
    /\ saved' = "error"
    /\ AfterSaving
    /\ UNCHANGED <<disk, api, bounds, new, told, loggedOut>>

-----------------------------------------------------------------------------
(* logout                                                                   *)

\* Mutant: only the file that a save goes to is cleared.
ClearsDefault ==
    /\ pc = "logout"
    /\ toClear' = IF cmd.apart THEN {} ELSE present \cap {DefaultPlace}
    /\ pc' = "clear"
    /\ UNCHANGED <<disk, api, bounds, cmd, credential, new, agreed, saved, told, loggedOut>>

\* cmd.apart stands for --keyring-only and --dry-run, which leave the files.
Logout ==
    /\ pc = "logout"
    /\ toClear' = IF cmd.apart THEN {} ELSE present
    /\ pc' = "clear"
    /\ UNCHANGED <<disk, api, bounds, cmd, credential, new, agreed, saved, told, loggedOut>>

ClearOne ==
    /\ pc = "clear"
    /\ \E place \in toClear :
         /\ Rewrite(place, Empty)
         /\ toClear' = toClear \ {place}
    /\ UNCHANGED <<present, api, bounds, pc, cmd, credential, new, agreed, saved, told,
                   loggedOut>>

\* A file that cannot be written ends the command.
ClearFails ==
    /\ pc = "clear" /\ toClear # {}
    /\ End
    /\ UNCHANGED <<disk, api, bounds, new, saved, told, loggedOut>>

Cleared ==
    /\ pc = "clear" /\ toClear = {}
    /\ End
    /\ loggedOut' = (loggedOut \/ ~cmd.apart)
    /\ UNCHANGED <<disk, api, bounds, new, saved, told>>

-----------------------------------------------------------------------------
Killed ==
    /\ pc # "idle"
    /\ End
    /\ UNCHANGED <<disk, api, bounds, new, saved, told, loggedOut>>

\* The user makes, rotates or deletes the key in the web application.
Others ==
    /\ othersLeft > 0 /\ othersLeft' = othersLeft - 1
    /\ \/ Issue /\ told' = told \cup {valid'}
       \/ valid # 0 /\ valid' = 0 /\ UNCHANGED <<issued, told>>
    /\ UNCHANGED <<disk, commandsLeft, command, new, saved,
                   loggedOut>>

Api == Use \/ Login \/ Create \/ AnswerLost \/ Duplicate \/ List \/ Rotate
Keep == Tell \/ NotSaved \/ NoFile \/ CreateFile \/ UpdateFile \/ UpdateFails
Out == Logout \/ ClearOne \/ ClearFails \/ Cleared
Work == Resolve \/ RequestFails \/ Api \/ Keep \/ Out

Next == Start \/ LoadFails \/ Work \/ Killed \/ Others

\* Every request is answered or fails, and the user answers every question.
Spec == Init /\ [][Next]_vars /\ WF_vars(Work)

-----------------------------------------------------------------------------
(* Properties                                                               *)

\* Every variable has its type.
TypeOK ==
    /\ present \subseteq Places /\ files \in [Places -> [Profiles -> NoLine .. MaxKeys]]
    /\ loose \in [Places -> SUBSET Profiles] /\ broken \subseteq present
    /\ gap \in [Places -> [Profiles -> Last .. MaxLines]]
    /\ valid \in 0 .. issued /\ issued \in 0 .. MaxKeys
    /\ commandsLeft \in 0 .. MaxCommands /\ othersLeft \in 0 .. MaxOthers
    /\ pc \in {"idle", "resolve", "request", "login", "list", "create", "rotate",
              "tell", "show", "save", "store", "logout", "clear"}
    /\ cmd \in Commands /\ new \in 0 .. issued /\ agreed \in BOOLEAN
    /\ credential \in [source : Sources \cup {"none"}, key : 0 .. issued]
    /\ toClear \subseteq present /\ told \subseteq 1 .. issued
    /\ saved \in {"none", "saved", "error"} /\ loggedOut \in BOOLEAN

\* After a logout that ended well no command finds a key in a credentials file,
\* for any profile, until a command has saved one, but in a line that the logout
\* does not know for one.
LogoutIsComplete ==
    loggedOut => \A p \in Profiles :
        \/ FileKey(p) = 0
        \/ \E x \in Places, q \in {p, "default"} : q \in loose[x] /\ FileKey(p) = files[x][q]

\* A key that a command said it saved is the one that its profile reads from now
\* on, if the file has a line for it that the command knows, and has not lost the
\* header of a section to the new key.
SavedIsRead ==
    saved = "saved" /\ Matched(DefaultPlace, cmd.profile) /\ broken = {} =>
        FileKey(cmd.profile) = new

\* A command voids the key of the user only if it is there to do that, or was
\* told so by its user: a command that makes a key, repeated by the transport or
\* not, leaves one that it did not make.
RotationIsConsented ==
    [][valid # 0 /\ valid' # valid /\ othersLeft' = othersLeft =>
           agreed \/ cmd.kind = "refresh"]_vars

\* A key that the user passes is used rather than a stored one, the command line
\* before the environment, and a session only where there is no key at all.
SourcesInOrder ==
    Requesting =>
        /\ cmd.flag # 0 => credential = [source |-> "flag", key |-> cmd.flag]
        /\ cmd.flag = 0 /\ cmd.env # 0 => credential = [source |-> "env", key |-> cmd.env]
        /\ credential.source \in {"keyring", "oidc"} => FileKey(cmd.profile) = 0
        /\ credential.source = "none" => ~cmd.session /\ ~cmd.oidc

\* Every command ends, also where the key is made and removed meanwhile and
\* creation and refresh fall back on each other.
CommandEnds == pc # "idle" ~> pc = "idle"

=============================================================================
