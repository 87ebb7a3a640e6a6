----------------------------- MODULE Publication -----------------------------
(***************************************************************************)
(* What `cloudsmith push` promises to its user: the packages are published  *)
(* one after the other in the order of the command line; one is reported    *)
(* when it exists, is synchronised if the user waits for that, and has the  *)
(* metadata that matters; none is left behind unless errors are skipped; and *)
(* nothing is published after a failure.  How files are checked and sent,    *)
(* and what is repeated, is hidden.                                         *)
(***************************************************************************)
EXTENDS Integers

CONSTANT Packages   \* the places on the command line

VARIABLES
    order,       \* what the user asked for
    turn,        \* the package in hand
    created,     \* packages that exist
    annotated,   \* packages with metadata
    sync,        \* package -> the state of its synchronisation
    results,     \* packages in the results
    status       \* of the command

server == <<created, annotated, sync>>
vars   == <<order, turn, server, results, status>>

Orders == [count : Packages, waits : BOOLEAN, matters : BOOLEAN,
           lenient : BOOLEAN, dry : BOOLEAN]

Init ==
    /\ order \in Orders /\ turn = 1
    /\ created = {} /\ annotated = {} /\ sync = [j \in Packages |-> "absent"]
    /\ results = {} /\ status = "running"

-----------------------------------------------------------------------------
(* What a step does for the package in hand ...                             *)

Create ==
    /\ ~order.dry
    /\ created' = created \cup {turn} /\ sync' = [sync EXCEPT ![turn] = "pending"]
    /\ UNCHANGED annotated

Annotate ==
    /\ turn \in created /\ annotated' = annotated \cup {turn}
    /\ UNCHANGED <<created, sync>>

\* Only what failed is synchronised again.
Resync ==
    /\ turn \in created /\ sync[turn] = "failed"
    /\ sync' = [sync EXCEPT ![turn] = "pending"]
    /\ UNCHANGED <<created, annotated>>

(* ... and what becomes of the command.                                     *)

Stay == UNCHANGED <<turn, results, status>>

Report ==
    /\ turn \in created'
    /\ order.waits => sync'[turn] = "synced"
    /\ order.matters => turn \in annotated'
    /\ results' = results \cup {turn} /\ turn' = turn + 1 /\ UNCHANGED status

Pass ==
    /\ order.lenient \/ order.dry
    /\ turn' = turn + 1 /\ UNCHANGED <<results, status>>

Abort == status' = "failed" /\ UNCHANGED <<turn, results>>

Publish ==
    /\ status = "running" /\ turn <= order.count
    /\ Create \/ Annotate \/ Resync \/ UNCHANGED server
    /\ Stay \/ Report \/ Pass \/ Abort
    /\ UNCHANGED order

Finish ==
    /\ status = "running" /\ turn = order.count + 1
    /\ status' = "ok"
    /\ UNCHANGED <<order, turn, server, results>>

\* The server ends the synchronisation of a package.
Synchronise ==
    /\ \E j \in Packages, state \in {"synced", "failed"} :
           sync[j] = "pending" /\ sync' = [sync EXCEPT ![j] = state]
    /\ UNCHANGED <<order, turn, created, annotated, results, status>>

Next == Publish \/ Finish \/ Synchronise

Spec == Init /\ [][Next]_vars

-----------------------------------------------------------------------------

\* Without --skip-errors and --dry-run all packages before the one in hand are in
\* the results, and only the one in hand may exist without being in them: it is
\* the only one to look at before a failed push is repeated.
OnlyLastInDoubt ==
    ~order.lenient /\ ~order.dry =>
        /\ results = {j \in Packages : j < turn}
        /\ created \subseteq results \cup {turn}
=============================================================================
