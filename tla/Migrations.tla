----------------------------- MODULE Migrations -----------------------------
(***************************************************************************)
(* The migrations of the ClickHouse schema (deploy/ch-migrate.sh), run by  *)
(* the service ch-migrate at every start of the stack and by hand with     *)
(* make migrate-ch-up: several runners may be at work.  A runner asks once *)
(* which versions are recorded, then sends each other file, in the order   *)
(* of the names, followed by the INSERT that records it.  The client sends *)
(* the statements of such a list one by one and stops at the first that    *)
(* fails; so does the script (set -e).                                     *)
(*                                                                         *)
(* ClickHouse and the runners may stop at any moment, files may come and   *)
(* go in the directory, and the volume may be removed.                     *)
(***************************************************************************)
EXTENDS Naturals

CONSTANTS
  Runner,
  Version,     \* files, as their names sort them
  Statements,  \* statements in a file
  Fragile,     \* versions whose statements fail if they have been executed before
  WaitSecs,
  MaxFault,    \* bound: stops of ClickHouse or of a runner, removals of the volume
  MaxEdit      \* bound: changes of the directory

ASSUME MigrationsAssumption ==
  /\ Version \subseteq Nat /\ Fragile \subseteq Version
  /\ Statements \in Nat \ {0} /\ {WaitSecs, MaxFault, MaxEdit} \subseteq Nat

VARIABLES
  server,    \* ClickHouse answers
  made,      \* of the database and the tracking table
  executed,  \* statements that have been executed
  rows,      \* rows of _schema_migrations with a version
  files,     \* MIG_DIR
  vanished,  \* files that have been removed from it
  runs,      \* the last run of each runner
  history,   \* what has happened since the volume was created
  faults, edits

disk == <<made, executed, rows>>
directory == <<files, vanished, edits>>
vars == <<server, disk, directory, runs, history, faults>>

Part == Version \X (1..Statements)

Complete(v) == \A i \in 1..Statements : <<v, i>> \in executed

NoRun == [pc |-> "off", tries |-> 0, applied |-> {}, listed |-> {}, todo |-> {}, next |-> 1]

NoHistory == [raced |-> FALSE, unread |-> FALSE, cut |-> FALSE, clashed |-> FALSE]

\* The runs that have asked what is recorded and go by the answer.
Working == {r \in Runner : runs[r].pc \in {"list", "loop", "apply"}}

Over == {"off", "failed", "done"}

Init ==
  /\ server = TRUE
  /\ made = {} /\ executed = {} /\ rows = [v \in Version |-> 0]
  /\ files \in SUBSET Version /\ vanished = {}
  /\ runs = [r \in Runner |-> NoRun] /\ history = NoHistory
  /\ faults = 0 /\ edits = 0

-------------------------------------------------------------------------------
(* The script. *)

At(r, pc) == runs[r].pc = pc

Goto(r, pc) == runs' = [runs EXCEPT ![r].pc = pc]

\* The stack comes up, or make migrate-ch-up: one container of a runner at a time.
Start(r) ==
  /\ runs[r].pc \in Over
  /\ runs' = [runs EXCEPT ![r] = [NoRun EXCEPT !.pc = "wait"]]
  /\ UNCHANGED <<server, disk, directory, history, faults>>

Wait(r) ==
  /\ At(r, "wait")
  /\ \/ server /\ Goto(r, "check")
     \/ ~server /\ runs[r].tries < WaitSecs /\ runs' = [runs EXCEPT ![r].tries = @ + 1]
     \/ ~server /\ runs[r].tries = WaitSecs /\ Goto(r, "check")
  /\ UNCHANGED <<server, disk, directory, history, faults>>

Check(r) ==
  /\ At(r, "check") /\ server
  /\ Goto(r, "database")
  /\ UNCHANGED <<server, disk, directory, history, faults>>

\* CREATE ... IF NOT EXISTS.
CreateDatabase(r) ==
  /\ At(r, "database") /\ server
  /\ made' = made \cup {"database"}
  /\ Goto(r, "table")
  /\ UNCHANGED <<server, executed, rows, directory, history, faults>>

CreateTable(r) ==
  /\ At(r, "table") /\ server
  /\ made' = made \cup {"table"}
  /\ Goto(r, "read")
  /\ UNCHANGED <<server, executed, rows, directory, history, faults>>

InTable == {v \in Version : rows[v] > 0}

\* What is recorded, as far as the answer got: the script goes on with nothing if the query
\* fails, and with some of the versions if the connection breaks on the way.
Read(r) ==
  /\ At(r, "read")
  /\ \E known \in SUBSET InTable :
       /\ \/ server /\ known = InTable /\ UNCHANGED faults
          \/ ~server /\ known = {} /\ UNCHANGED faults
          \/ server /\ known # InTable /\ faults < MaxFault /\ faults' = faults + 1
       /\ runs' = [runs EXCEPT ![r].pc = "list", ![r].applied = known]
       /\ history' = [history EXCEPT !.raced = @ \/ Working # {},
                                     !.unread = @ \/ known # InTable]
  /\ UNCHANGED <<server, disk, directory>>

\* Mutant of List: versions below the last that is recorded are left out.
ListAfterLast(r) ==
  LET new == {v \in files : \A u \in runs[r].applied : u <= v}
  IN /\ At(r, "list")
     /\ runs' = [runs EXCEPT ![r].pc = "loop", ![r].listed = new, ![r].todo = new]
     /\ UNCHANGED <<server, disk, directory, history, faults>>

\* find | sort; a directory without files, or none, leaves nothing to do.
List(r) ==
  /\ At(r, "list")
  /\ runs' = [runs EXCEPT ![r].pc = "loop", ![r].listed = files, ![r].todo = files]
  /\ UNCHANGED <<server, disk, directory, history, faults>>

\* The next file of the loop, if there is one.
First(r) == {v \in runs[r].todo : \A u \in runs[r].todo : v <= u}

Leave(r, v) == runs' = [runs EXCEPT ![r].pc = "loop", ![r].todo = @ \ {v}]

\* Mutant of Recorded: nothing is skipped.
RecordedNever(r, v) == FALSE

Recorded(r, v) == v \in runs[r].applied

Skip(r, v) ==
  /\ At(r, "loop") /\ v \in First(r) /\ Recorded(r, v)
  /\ Leave(r, v)
  /\ UNCHANGED <<server, disk, directory, history, faults>>

Send(r, v) ==
  /\ At(r, "loop") /\ v \in First(r) /\ ~Recorded(r, v) /\ v \in files
  /\ runs' = [runs EXCEPT ![r].pc = "apply", ![r].next = 1]
  /\ UNCHANGED <<server, disk, directory, history, faults>>

\* awk cannot read a file that is gone: set -e ends its side of the pipe before the INSERT,
\* the client gets nothing to execute, and the loop goes on.
SendNothing(r, v) ==
  /\ At(r, "loop") /\ v \in First(r) /\ ~Recorded(r, v) /\ v \notin files
  /\ server
  /\ Leave(r, v)
  /\ UNCHANGED <<server, disk, directory, history, faults>>

Execute(r, v) ==
  /\ At(r, "apply") /\ v \in First(r) /\ server
  /\ runs[r].next <= Statements
  /\ v \in Fragile => <<v, runs[r].next>> \notin executed
  /\ executed' = executed \cup {<<v, runs[r].next>>}
  /\ runs' = [runs EXCEPT ![r].next = @ + 1]
  /\ UNCHANGED <<server, made, rows, directory, history, faults>>

\* Mutant of Clash: the script goes on with the next file.
ClashGoesOn(r, v) ==
  /\ At(r, "apply") /\ v \in First(r) /\ server
  /\ runs[r].next <= Statements
  /\ v \in Fragile /\ <<v, runs[r].next>> \in executed
  /\ Leave(r, v)
  /\ history' = [history EXCEPT !.clashed = TRUE]
  /\ UNCHANGED <<server, disk, directory, faults>>

\* "already exists"
Clash(r, v) ==
  /\ At(r, "apply") /\ v \in First(r) /\ server
  /\ runs[r].next <= Statements
  /\ v \in Fragile /\ <<v, runs[r].next>> \in executed
  /\ Goto(r, "failed")
  /\ history' = [history EXCEPT !.clashed = TRUE]
  /\ UNCHANGED <<server, disk, directory, faults>>

\* Mutant of Record: the version is recorded before the last statement.
RecordEarly(r, v) ==
  /\ At(r, "apply") /\ v \in First(r) /\ server
  /\ runs[r].next >= Statements
  /\ rows' = [rows EXCEPT ![v] = @ + 1]
  /\ Leave(r, v)
  /\ UNCHANGED <<server, made, executed, directory, history, faults>>

\* The INSERT at the end of the list.
Record(r, v) ==
  /\ At(r, "apply") /\ v \in First(r) /\ server
  /\ runs[r].next > Statements
  /\ rows' = [rows EXCEPT ![v] = @ + 1]
  /\ Leave(r, v)
  /\ UNCHANGED <<server, made, executed, directory, history, faults>>

Succeed(r) ==
  /\ At(r, "loop") /\ runs[r].todo = {}
  /\ Goto(r, "done")
  /\ UNCHANGED <<server, disk, directory, history, faults>>

\* The run ends with 1; some of a version may have been executed and not recorded.
Abort(r) ==
  /\ Goto(r, "failed")
  /\ history' = [history EXCEPT !.cut = @ \/ (At(r, "apply") /\ runs[r].next > 1)]

\* A statement finds no server: in the loop, the next file is one to send.
Refused(r) ==
  /\ ~server
  /\ \/ runs[r].pc \in {"check", "database", "table", "apply"}
     \/ At(r, "loop") /\ \E v \in First(r) : ~Recorded(r, v) /\ v \notin files
  /\ Abort(r)
  /\ UNCHANGED <<server, disk, directory, faults>>

-------------------------------------------------------------------------------
(* The environment. *)

\* SIGKILL, or the connection breaks after a statement was executed.
Kill(r) ==
  /\ runs[r].pc \notin Over
  /\ faults < MaxFault /\ faults' = faults + 1
  /\ Abort(r)
  /\ UNCHANGED <<server, disk, directory>>

Down ==
  /\ server /\ server' = FALSE
  /\ faults < MaxFault /\ faults' = faults + 1
  /\ UNCHANGED <<disk, directory, runs, history>>

Up ==
  /\ ~server /\ server' = TRUE
  /\ UNCHANGED <<disk, directory, runs, history, faults>>

\* docker compose down -v: the data and the table of what was applied go together.
Wipe ==
  /\ faults < MaxFault /\ faults' = faults + 1
  /\ made' = {} /\ executed' = {} /\ rows' = [v \in Version |-> 0]
  /\ runs' = [r \in Runner |-> NoRun] /\ history' = NoHistory
  /\ UNCHANGED <<server, directory>>

Add(v) ==
  /\ edits < MaxEdit /\ edits' = edits + 1
  /\ v \notin files /\ files' = files \cup {v}
  /\ UNCHANGED <<server, disk, vanished, runs, history, faults>>

Remove(v) ==
  /\ edits < MaxEdit /\ edits' = edits + 1
  /\ v \in files /\ files' = files \ {v}
  /\ vanished' = vanished \cup {v}
  /\ UNCHANGED <<server, disk, runs, history, faults>>

-------------------------------------------------------------------------------
Attempt(r) ==
  \/ Wait(r) \/ Check(r) \/ CreateDatabase(r) \/ CreateTable(r) \/ Read(r) \/ List(r)
  \/ Succeed(r) \/ Refused(r)
  \/ \E v \in Version :
       \/ Skip(r, v) \/ Send(r, v) \/ SendNothing(r, v)
       \/ Execute(r, v) \/ Clash(r, v) \/ Record(r, v)

Next ==
  \/ Down \/ Up \/ Wipe
  \/ \E r \in Runner : Start(r) \/ Attempt(r) \/ Kill(r)
  \/ \E v \in Version : Add(v) \/ Remove(v)

Spec == Init /\ [][Next]_vars

\* A container runs until it exits; the stack is brought up until it is up.
FairSpec ==
  /\ Spec /\ WF_vars(Up)
  /\ \A r \in Runner : WF_vars(Start(r)) /\ WF_vars(Attempt(r))

-------------------------------------------------------------------------------
(* Properties. *)

\* Every variable has its type.
TypeOK ==
  /\ server \in BOOLEAN /\ made \subseteq {"database", "table"}
  /\ executed \subseteq Part /\ rows \in [Version -> Nat]
  /\ files \subseteq Version /\ vanished \subseteq Version
  /\ runs \in [Runner -> [pc : {"off", "wait", "check", "database", "table", "read", "list",
                                "loop", "apply", "failed", "done"},
                          tries : 0..WaitSecs, applied : SUBSET Version,
                          listed : SUBSET Version, todo : SUBSET Version,
                          next : 1..(Statements + 1)]]
  /\ history \in [raced : BOOLEAN, unread : BOOLEAN, cut : BOOLEAN, clashed : BOOLEAN]
  /\ faults \in 0..MaxFault /\ edits \in 0..MaxEdit

\* Whatever a runner has behind it has been applied, by itself, by another or in an earlier
\* run, even if its own list of what is recorded was cut or old: so that a version is never
\* applied before a smaller one of the directory, and the services, which wait for the runner
\* to end with 0, find every table with its row policy.  Only a file that was removed is
\* passed over.
PassedAreApplied ==
  \A r \in Runner : \A v \in runs[r].listed \ runs[r].todo : Complete(v) \/ v \in vanished

\* So a statement is executed only once the smaller versions its runner listed have been
\* applied, even if another runner is in the middle of one of them, or was stopped there.
AppliedInOrder ==
  [][\A p \in executed' \ executed : \E r \in Runner :
       /\ p[1] \in runs[r].todo
       /\ \A v \in runs[r].listed : v < p[1] => Complete(v) \/ v \in vanished]_vars

\* A version is applied once and has one row, unless runners overlapped, the answer of which
\* are recorded was lost, or, for the first, a run ended within the list of a file: the
\* runner cannot be bricked (already exists) in another way.
ReplaysExplained ==
  /\ history.clashed => history.raced \/ history.unread \/ history.cut
  /\ \A v \in Version : rows[v] > 1 => history.raced \/ history.unread

\* The runners are a ledger of what has been applied.
Ledger == INSTANCE SchemaLedger WITH applied <- {v \in Version : Complete(v)},
                                     recorded <- {v \in Version : rows[v] > 0}
ImplementsLedger == Ledger!Spec

\* However runners and ClickHouse are stopped, and in whatever order the files came, all of
\* the directory is recorded in the end, if nothing that fails when replayed was replayed.
EventuallyApplied == <>[](history.clashed \/ \A v \in files : rows[v] > 0)
=============================================================================
