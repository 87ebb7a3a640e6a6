--------------------------- MODULE ManageCommands ---------------------------
(***************************************************************************)
(* One management command and the service it talks to, while other clients *)
(* of the service change the same repository.                               *)
(*                                                                         *)
(* A command runs the steps that ApiCommands gives it.  A request is one or *)
(* more attempts: the transport repeats every method, a POST like a GET,    *)
(* when the answer is lost or is a server error (core/session.py), until    *)
(* its retries are spent.                                                   *)
(***************************************************************************)
EXTENDS ApiCommands, Integers, FiniteSets

CONSTANTS
    Nameable,    \* the teams, users and services of the model
    Alien,       \* an entry of a kind that this version of the CLI cannot name
    MaxObjects,  \* bound: the objects of the collection that are listed
    PageSize,    \* MAX_PAGE_SIZE
    MaxRetries,  \* error_retry_max
    MaxOthers,   \* bound: changes by other clients
    MaxRotated   \* bound: changes of the secret (a key, a token)

Targets == Nameable \cup {Alien}

\* 0: no explicit privilege; Read < Admin; Future is a level that a later
\* version of the service may give.
Read == 1
Admin == 2
Future == 3
Levels == {Read, Admin}   \* PRIVILEGE_LEVELS; write behaves as another level
Ranks == 0 .. Future

Ids == 1 .. MaxObjects
Named == 1                \* the object that the command names

ASSUME ManageAssumption ==
    /\ IsFiniteSet(Nameable) /\ Alien \notin Nameable
    /\ MaxObjects \in Nat \ {0} /\ PageSize \in Nat \ {0}
    /\ MaxRetries \in Nat /\ MaxOthers \in Nat /\ MaxRotated \in Nat

VARIABLES
    privileges, objects, secret,  \* what the service holds
    othersLeft,                   \* bound on the changes by other clients
    todo, tries, outcome,         \* the command: its steps, attempts left, exit
    consent,                      \* -y was passed, or a question was answered yes
    wanted,                       \* the level each target it names shall have
    held, body,                   \* privileges as read, and as they will be written
    page, got,                    \* a listing: pages received, how often each object came
    lost, effects,                \* history: an answer was lost; changes made (to 2)
    touched,                      \* history: targets others changed since the read
    atStart, grown, shrunk        \* history: the objects at the start, and changes since

service == <<privileges, objects, secret>>
program == <<todo, tries, outcome>>
listing == <<page, got>>
changed == <<touched, atStart, grown, shrunk>>
vars    == <<service, othersLeft, program, consent, wanted, held, body, listing,
             lost, effects, changed>>

None == [t \in Targets |-> 0]

\* The properties tell privileges from objects only, so a run has one of them.
Init ==
    /\ \/ privileges \in [Targets -> Ranks] /\ objects = {}
       \/ privileges = None /\ objects \in SUBSET Ids
    /\ secret = 0 /\ othersLeft = MaxOthers
    /\ todo = <<>> /\ tries = MaxRetries + 1 /\ outcome = "none"
    /\ consent = FALSE /\ wanted = <<>>
    /\ held = None /\ body = None
    /\ page = 0 /\ got = [i \in Ids |-> 0]
    /\ lost = FALSE /\ effects = 0
    /\ touched = {} /\ atStart = {} /\ grown = FALSE /\ shrunk = FALSE

-----------------------------------------------------------------------------
(* Steps that send nothing                                                  *)

Step == Head(todo)
Running(step) == outcome = "running" /\ Step = step

\* A step is done: the next one starts with all its attempts.
Done ==
    /\ todo' = Tail(todo) /\ tries' = MaxRetries + 1
    /\ outcome' = IF Len(todo) = 1 THEN "ok" ELSE "running"

Exit(how) == outcome' = how /\ UNCHANGED <<todo, tries>>

Has(step) == \E i \in DOMAIN todo' : todo'[i] = step

\* What set, revoke and replace are asked for: collect_privilege_targets leaves
\* at least one target, each once, and so does read_privileges_file; the file of
\* replace is about every target.
Requested ==
    CASE Has("name")    -> UNION {{[t \in T |-> l] : l \in Levels} : T \in (SUBSET Nameable) \ {{}}}
      [] Has("found")   -> {[t \in T |-> 0] : T \in (SUBSET Nameable) \ {{}}}
      [] Has("declare") -> {f \in [Targets -> {0} \cup Levels] : f[Alien] = 0}
      [] OTHER          -> {<<>>}

\* A command line
Start ==
    /\ outcome = "none"
    /\ \E o \in Options :
         /\ \/ objects = {} /\ todo' \in PrivilegeCommands(o)
            \/ privileges = None /\ todo' \in ObjectCommands(o)
         /\ consent' = o.yes
    /\ wanted' \in Requested
    /\ outcome' = "running" /\ atStart' = objects
    /\ UNCHANGED <<service, othersLeft, tries, held, body, listing, lost, effects,
                   touched, grown, shrunk>>

\* An option, an argument or the input file is refused, or accepted.
Input ==
    /\ Running("input")
    /\ Done \/ Exit("usage")
    /\ UNCHANGED <<service, othersLeft, consent, wanted, held, body, listing, lost,
                   effects, changed>>

\* click.UsageError whatever the file holds
Usage ==
    /\ Running("usage")
    /\ Exit("usage")
    /\ UNCHANGED <<service, othersLeft, consent, wanted, held, body, listing, lost,
                   effects, changed>>

Answer(yes) ==
    /\ consent' = yes
    /\ IF yes THEN Done ELSE Exit("declined")
    /\ UNCHANGED <<service, othersLeft, wanted, held, body, listing, lost, effects,
                   changed>>

\* confirm_operation: the user may leave the question open.
Ask ==
    /\ Running("ask")
    /\ \E yes \in BOOLEAN : Answer(yes)

\* Mutant: a level that this version does not know ranks below the others.
RankKnown(l) == IF l = Future THEN -1 ELSE IF l = 0 THEN -1 ELSE l

\* privilege_rank
Rank(l) == IF l = 0 THEN -1 ELSE l

\* privileges set: only lowering is a question.
Lowered == {t \in DOMAIN wanted : Rank(held[t]) > Rank(wanted[t])}

AskLowering ==
    /\ Running("askLowering")
    /\ IF Lowered = {}
       THEN Done /\ UNCHANGED <<service, othersLeft, consent, wanted, held, body,
                                listing, lost, effects, changed>>
       ELSE \E yes \in BOOLEAN : Answer(yes)

\* revoke refuses to rewrite a list that it cannot express.
Expressible ==
    /\ Running("expressible")
    /\ IF held[Alien] = 0 THEN Done ELSE Exit("failed")
    /\ UNCHANGED <<service, othersLeft, consent, wanted, held, body, listing, lost,
                   effects, changed>>

\* revoke with nothing to revoke prints the privileges as they were read.
Found ==
    /\ Running("found")
    /\ IF \E t \in DOMAIN wanted : held[t] # 0
       THEN Done /\ UNCHANGED body
       ELSE Exit("ok") /\ body' = held
    /\ UNCHANGED <<service, othersLeft, consent, wanted, held, listing, lost, effects,
                   changed>>

\* Mutant: what is kept is all that was read.
KeptUnfiltered == [t \in Targets |-> IF t \in Nameable THEN held[t] ELSE 0]

\* The entries that set, revoke and replace write, and then print
StatedEntries == [t \in Targets |-> IF t \in DOMAIN wanted THEN wanted[t] ELSE 0]
KeptEntries   == [t \in Targets |-> IF t \in Nameable \ DOMAIN wanted THEN held[t] ELSE 0]

Entries ==
    /\ \/ (Running("name") \/ Running("declare")) /\ body' = StatedEntries
       \/ Running("keep") /\ body' = KeptEntries
    /\ Done
    /\ UNCHANGED <<service, othersLeft, consent, wanted, held, listing, lost, effects,
                   changed>>

\* whoami
Known ==
    /\ Running("known")
    /\ Done \/ Exit("failed")
    /\ UNCHANGED <<service, othersLeft, consent, wanted, held, body, listing, lost,
                   effects, changed>>

-----------------------------------------------------------------------------
(* The service                                                              *)

\* What the service does with a request that it accepts
Execute(step) ==
    /\ CASE step = "create" -> \E i \in Ids \ objects :
                                  objects' = objects \cup {i} /\ UNCHANGED <<privileges, secret>>
         [] step \in {"update", "act"} -> Named \in objects /\ UNCHANGED service
         [] step = "delete" -> /\ Named \in objects
                               /\ objects' = objects \ {Named} /\ UNCHANGED <<privileges, secret>>
         [] step = "rotate" -> /\ Named \in objects /\ secret < MaxRotated
                               /\ secret' = secret + 1 /\ UNCHANGED <<privileges, objects>>
         [] step = "grant" ->
              /\ privileges' = [t \in Targets |-> IF t \in DOMAIN wanted THEN body[t] ELSE privileges[t]]
              /\ UNCHANGED <<objects, secret>>
         [] step = "put" -> privileges' = body /\ UNCHANGED <<objects, secret>>
    /\ effects' = IF effects = 2 THEN 2 ELSE effects + 1

Writes == {"create", "update", "act", "delete", "rotate", "grant", "put"}

\* The objects of a page, and the number of pages that its answer tells
PageOf(k) ==
    {i \in objects : LET before == Cardinality({j \in objects : j < i})
                     IN (k - 1) * PageSize <= before /\ before < k * PageSize}
PageTotal == (Cardinality(objects) + PageSize - 1) \div PageSize

\* Mutant: one page fewer is asked for.
LastPageEarly(k) == k + 1 >= PageTotal

LastPage(k) == k >= PageTotal

-----------------------------------------------------------------------------
(* The attempts of a request                                                *)

\* The service answers with success.
Answered ==
    /\ outcome = "running" /\ Step \in Writes
    /\ Execute(Step) /\ Done
    /\ UNCHANGED <<othersLeft, consent, wanted, held, body, listing, lost, changed>>

\* A reading request is answered.  readHeld and showHeld read privileges.
ReadAnswered ==
    /\ outcome = "running" /\ Step \in {"read", "tryRead", "page", "readHeld", "showHeld"}
    /\ CASE Step = "readHeld" -> held' = privileges /\ touched' = {} /\ UNCHANGED body
         [] Step = "showHeld" -> /\ held' = privileges /\ body' = privileges
                                 /\ touched' = {}
         [] OTHER -> UNCHANGED <<held, body, touched>>
    /\ Done
    /\ UNCHANGED <<service, othersLeft, consent, wanted, listing, lost, effects,
                   atStart, grown, shrunk>>

\* paginate_results for all pages, each a request of its own
NextPageAnswered ==
    /\ Running("pages")
    /\ page' = page + 1
    /\ got' = [i \in Ids |-> got[i] + IF i \in PageOf(page') THEN 1 ELSE 0]
    /\ IF LastPage(page')
       THEN Done
       ELSE tries' = MaxRetries + 1 /\ UNCHANGED <<todo, outcome>>
    /\ UNCHANGED <<service, othersLeft, consent, wanted, held, body, lost, effects, changed>>

\* Mutant: the attempts start again when they are spent.
RetryAgain ==
    /\ tries' = IF tries > 1 THEN tries - 1 ELSE MaxRetries + 1
    /\ UNCHANGED <<todo, outcome>>

\* RetryWithCallback: another attempt, or MaxRetryError and exit status 1
\* (whoami goes on without what it tried to read).
Retry ==
    IF tries > 1 THEN tries' = tries - 1 /\ UNCHANGED <<todo, outcome>>
    ELSE IF Step = "tryRead" THEN Done
    ELSE Exit("failed")

\* The service does the work, and its answer is lost or is a server error.
AnswerLost ==
    /\ outcome = "running" /\ Step \in Writes
    /\ Execute(Step) /\ Retry
    /\ lost' = TRUE
    /\ UNCHANGED <<othersLeft, consent, wanted, held, body, listing, changed>>

\* The attempt does not reach the service, or it does nothing but answer with
\* a server error or with Retry-After.
NotServed ==
    /\ outcome = "running" /\ Step \in Requests
    /\ Retry
    /\ UNCHANGED <<service, othersLeft, consent, wanted, held, body, listing, lost,
                   effects, changed>>

\* An error status that is not repeated, or a certificate that is refused:
\* catch_raise_api_exception and handle_api_exceptions end the command.
Refused ==
    /\ outcome = "running" /\ Step \in Requests
    /\ IF Step = "tryRead" THEN Done ELSE Exit("failed")
    /\ UNCHANGED <<service, othersLeft, consent, wanted, held, body, listing, lost,
                   effects, changed>>

-----------------------------------------------------------------------------
(* Other clients of the service                                             *)

OthersSetPrivilege ==
    /\ \E t \in Targets, l \in Ranks :
         /\ privileges' = [privileges EXCEPT ![t] = l]
         /\ touched' = touched \cup {t}
    /\ UNCHANGED <<objects, grown, shrunk>>

OthersChangeObjects ==
    /\ \/ \E i \in Ids \ objects : objects' = objects \cup {i} /\ grown' = TRUE /\ UNCHANGED shrunk
       \/ \E i \in objects : objects' = objects \ {i} /\ shrunk' = TRUE /\ UNCHANGED grown
    /\ UNCHANGED <<privileges, touched>>

\* The area that the command does not work on stays as it is.
Others ==
    /\ outcome = "running" /\ othersLeft > 0
    /\ othersLeft' = othersLeft - 1
    /\ IF wanted # <<>> \/ Step = "showHeld" THEN OthersSetPrivilege ELSE OthersChangeObjects
    /\ UNCHANGED <<secret, program, consent, wanted, held, body, listing, lost, effects,
                   atStart>>

-----------------------------------------------------------------------------
Questions == Ask \/ AskLowering

Request == Answered \/ ReadAnswered \/ NextPageAnswered
           \/ AnswerLost \/ NotServed \/ Refused

Work == Input \/ Usage \/ Entries \/ Expressible \/ Found \/ Known \/ Request

Next == Start \/ Work \/ Questions \/ Others

\* A command that waits for nothing but itself and the service goes on: every
\* attempt ends, by an answer or an error.  The user need not answer.
Fairness == WF_vars(Work)

Spec == Init /\ [][Next]_vars /\ Fairness
-----------------------------------------------------------------------------
(* Properties                                                               *)

Own == othersLeft' = othersLeft

\* A command changes the access of a target that it does not name only when
\* another client changed that target after the command read the list, which is
\* the loss that the help of set and revoke admits.
UnnamedKeepAccess ==
    [][Own => \A t \in Targets \ DOMAIN wanted : privileges'[t] # privileges[t] => t \in touched]_vars

\* Nothing is lost without consent: an object or a secret goes, and a level is
\* lowered, after -y or an answered question; a level also when another client
\* raised it after it was read.
LossIsConsented ==
    [][Own /\ ~consent =>
         /\ objects \subseteq objects' /\ secret' = secret
         /\ \A t \in Targets \ touched : privileges'[t] >= privileges[t]]_vars

\* After a privileges command that succeeded, each target it names holds what
\* was asked for and what it prints is what the service holds, but for targets
\* that another client changed meanwhile.
ReportIsTrue ==
    outcome = "ok" =>
        \A t \in Targets \ touched :
            /\ t \in DOMAIN wanted => privileges[t] = wanted[t]
            /\ body[t] # 0 => privileges[t] = body[t]

\* When no answer was lost, the exit status tells what happened: a command that
\* did not succeed changed nothing, and one that did made at most one change.
ExitTellsEffect ==
    ~lost => /\ effects <= 1
             /\ outcome \in {"declined", "usage", "failed"} => effects = 0

\* A listing of all pages has every object that was there from the start, unless
\* an object was removed meanwhile, and none twice, unless one was added.
ListIsComplete ==
    outcome = "ok" /\ page > 0 =>
        /\ ~shrunk => \A i \in atStart : got[i] > 0
        /\ ~grown => \A i \in Ids : got[i] <= 1

\* Every command ends or waits for an answer of the user, however often its
\* requests fail.
CommandEnds ==
    outcome = "running" ~> outcome # "running" \/ Step \in {"ask", "askLowering"}
=============================================================================
