--------------------------- MODULE MigrationsProofs ---------------------------
(***************************************************************************)
(* The migrations, for any number of runners, versions and statements, and *)
(* any stops, removals and changes of the directory.                       *)
(***************************************************************************)
EXTENDS Migrations, TLAPS

LEMMA Bounds ==
  /\ Version \subseteq Nat /\ Fragile \subseteq Version /\ Statements \in Nat \ {0}
  /\ WaitSecs \in Nat /\ MaxFault \in Nat /\ MaxEdit \in Nat
<1>1. \A n \in {WaitSecs, MaxFault, MaxEdit} : n \in Nat
  BY MigrationsAssumption
<1> QED
  BY <1>1, MigrationsAssumption

USE Bounds

-------------------------------------------------------------------------------
(* Types. *)

Pc == {"off", "wait", "check", "database", "table", "read", "list", "loop", "apply",
       "failed", "done"}

RunType ==
  [pc : Pc, tries : 0..WaitSecs, applied : SUBSET Version, listed : SUBSET Version,
   todo : SUBSET Version, next : 1..(Statements + 1)]

HistoryType == [raced : BOOLEAN, unread : BOOLEAN, cut : BOOLEAN, clashed : BOOLEAN]

\* TypeOK with its sets of records named.
Typed ==
  /\ server \in BOOLEAN /\ made \subseteq {"database", "table"}
  /\ executed \subseteq Part /\ rows \in [Version -> Nat]
  /\ files \subseteq Version /\ vanished \subseteq Version
  /\ runs \in [Runner -> RunType] /\ history \in HistoryType
  /\ faults \in 0..MaxFault /\ edits \in 0..MaxEdit

LEMMA TypedMeans == TypeOK <=> Typed
  BY DEF TypeOK, Typed, RunType, Pc, HistoryType

LEMMA InitType == Init => Typed
<1> SUFFICES ASSUME Init PROVE Typed
  OBVIOUS
<1>1. NoRun \in RunType
  BY DEF NoRun, RunType, Pc
<1>2. NoHistory \in HistoryType
  BY DEF NoHistory, HistoryType
<1> QED
  BY <1>1, <1>2 DEF Init, Typed, Part

\* What a step leaves of a run it changes at a pc, or at a pc and the files to come.
LEMMA RunChanges ==
  ASSUME NEW run \in RunType, NEW pc \in Pc, NEW T \in SUBSET Version
  PROVE  /\ [run EXCEPT !.pc = pc] \in RunType
         /\ [run EXCEPT !.pc = pc, !.applied = T] \in RunType
         /\ [run EXCEPT !.pc = pc, !.listed = T, !.todo = T] \in RunType
         /\ [run EXCEPT !.pc = pc, !.todo = T] \in RunType
         /\ [run EXCEPT !.pc = pc, !.next = 1] \in RunType
<1>1. [run EXCEPT !.pc = pc] \in RunType
  BY DEF RunType
<1>2. [run EXCEPT !.pc = pc, !.applied = T] \in RunType
  BY DEF RunType
<1>3. [run EXCEPT !.pc = pc, !.listed = T, !.todo = T] \in RunType
  BY DEF RunType
<1>4. [run EXCEPT !.pc = pc, !.todo = T] \in RunType
  BY DEF RunType
<1>5. [run EXCEPT !.pc = pc, !.next = 1] \in RunType
  <2>1. 1 \in 1..(Statements + 1)
    OBVIOUS
  <2> QED
    BY <2>1 DEF RunType
<1> QED
  BY <1>1, <1>2, <1>3, <1>4, <1>5

LEMMA PcsOfTheScript ==
  /\ "check" \in Pc /\ "database" \in Pc /\ "table" \in Pc /\ "read" \in Pc
  /\ "list" \in Pc /\ "loop" \in Pc /\ "apply" \in Pc /\ "failed" \in Pc
  /\ "done" \in Pc
  BY DEF Pc

\* It is enough to know what becomes of the run, the disk and the history.
LEMMA StepOfRun ==
  ASSUME Typed, NEW r \in Runner, NEW run \in RunType,
         runs' = [runs EXCEPT ![r] = run],
         UNCHANGED <<server, directory, faults>>,
         made' \subseteq {"database", "table"}, executed' \subseteq Part,
         rows' \in [Version -> Nat], history' \in HistoryType
  PROVE  Typed'
  BY DEF Typed, directory

LEMMA AttemptType ==
  ASSUME Typed, NEW r \in Runner, Attempt(r)
  PROVE  Typed'
<1>0. /\ runs[r] \in RunType /\ made \subseteq {"database", "table"}
      /\ executed \subseteq Part /\ rows \in [Version -> Nat] /\ history \in HistoryType
      /\ runs[r].tries \in 0..WaitSecs /\ runs[r].todo \subseteq Version
      /\ runs[r].next \in 1..(Statements + 1) /\ files \subseteq Version
  BY DEF Typed, RunType
<1> DEFINE at(pc) == [runs[r] EXCEPT !.pc = pc]
<1>a. ASSUME NEW pc \in Pc, Goto(r, pc) PROVE runs' = [runs EXCEPT ![r] = at(pc)]
  BY <1>a DEF Goto
<1>b. ASSUME NEW pc \in Pc PROVE at(pc) \in RunType
  BY <1>0, <1>b, RunChanges
<1>c. CASE UNCHANGED <<disk, history>> /\ \E pc \in Pc : Goto(r, pc)
                                       /\ UNCHANGED <<server, directory, faults>>
  <2>1. PICK pc \in Pc : Goto(r, pc)
    BY <1>c
  <2>2. runs' = [runs EXCEPT ![r] = at(pc)] /\ at(pc) \in RunType
    BY <2>1, <1>a, <1>b
  <2> QED
    BY <1>0, <1>c, <2>2, StepOfRun DEF disk
<1>1. CASE Wait(r)
  <2>1. CASE Goto(r, "check")
    BY <1>1, <2>1, <1>c, PcsOfTheScript DEF Wait
  <2>2. CASE runs[r].tries < WaitSecs /\ runs' = [runs EXCEPT ![r].tries = @ + 1]
    <3>1. [runs[r] EXCEPT !.tries = @ + 1] \in RunType
      BY <1>0, <2>2 DEF RunType
    <3>2. runs' = [runs EXCEPT ![r] = [runs[r] EXCEPT !.tries = @ + 1]]
      BY <2>2
    <3> QED
      BY <1>0, <1>1, <3>1, <3>2, StepOfRun DEF Wait, disk
  <2> QED
    BY <1>1, <2>1, <2>2 DEF Wait
<1>2. CASE Check(r) \/ Succeed(r)
  BY <1>2, <1>c, PcsOfTheScript DEF Check, Succeed
<1>3. CASE CreateDatabase(r) \/ CreateTable(r)
  <2>1. PICK pc \in Pc : Goto(r, pc)
    BY <1>3, PcsOfTheScript DEF CreateDatabase, CreateTable
  <2>2. runs' = [runs EXCEPT ![r] = at(pc)] /\ at(pc) \in RunType
    BY <2>1, <1>a, <1>b
  <2>3. /\ UNCHANGED <<server, directory, faults, executed, rows, history>>
        /\ made' \subseteq {"database", "table"}
    BY <1>0, <1>3 DEF CreateDatabase, CreateTable
  <2> QED
    BY <1>0, <2>2, <2>3, StepOfRun
<1>5. CASE Read(r)
  <2>1. PICK T \in SUBSET InTable :
               /\ runs' = [runs EXCEPT ![r].pc = "list", ![r].applied = T]
               /\ history' = [history EXCEPT !.raced = @ \/ Working # {},
                                             !.unread = @ \/ T # InTable]
    BY <1>5 DEF Read
  <2>2. [runs[r] EXCEPT !.pc = "list", !.applied = T] \in RunType
    <3>1. T \subseteq Version
      BY DEF InTable
    <3> QED
      BY <1>0, <3>1, RunChanges, PcsOfTheScript
  <2>3. history' \in HistoryType
    BY <1>0, <2>1 DEF HistoryType
  <2>4. faults' \in 0..MaxFault
    BY <1>0, <1>5, Bounds DEF Read, Typed
  <2>5. runs' = [runs EXCEPT ![r] = [runs[r] EXCEPT !.pc = "list", !.applied = T]]
    BY <2>1
  <2> QED
    BY <1>0, <1>5, <2>2, <2>3, <2>4, <2>5 DEF Read, disk, directory, Typed
<1>6. CASE List(r)
  <2>1. runs' = [runs EXCEPT ![r] = [runs[r] EXCEPT !.pc = "loop", !.listed = files,
                                                    !.todo = files]]
    BY <1>6 DEF List
  <2>2. [runs[r] EXCEPT !.pc = "loop", !.listed = files, !.todo = files] \in RunType
    BY <1>0, RunChanges, PcsOfTheScript
  <2> QED
    BY <1>0, <1>6, <2>1, <2>2, StepOfRun DEF List, disk
<1>7. CASE Refused(r)
  <2>1. runs' = [runs EXCEPT ![r] = at("failed")] /\ at("failed") \in RunType
    BY <1>7, <1>a, <1>b, PcsOfTheScript DEF Refused, Abort
  <2>2. history' \in HistoryType
    BY <1>0, <1>7 DEF Refused, Abort, HistoryType
  <2> QED
    BY <1>0, <1>7, <2>1, <2>2, StepOfRun DEF Refused, disk
<1>8. ASSUME NEW v \in Version PROVE Leave(r, v) =>
        LET run == [runs[r] EXCEPT !.pc = "loop", !.todo = @ \ {v}]
        IN  runs' = [runs EXCEPT ![r] = run] /\ run \in RunType
  <2>1. [runs[r] EXCEPT !.pc = "loop", !.todo = runs[r].todo \ {v}] \in RunType
    BY <1>0, RunChanges, PcsOfTheScript
  <2> QED
    BY <2>1 DEF Leave
<1>9. ASSUME NEW v \in Version, Skip(r, v) \/ SendNothing(r, v) PROVE Typed'
  BY <1>0, <1>8, <1>9, StepOfRun DEF Skip, SendNothing, disk
<1>10. ASSUME NEW v \in Version, Send(r, v) PROVE Typed'
  <2>1. runs' = [runs EXCEPT ![r] = [runs[r] EXCEPT !.pc = "apply", !.next = 1]]
    BY <1>10 DEF Send
  <2>2. [runs[r] EXCEPT !.pc = "apply", !.next = 1] \in RunType
    BY <1>0, RunChanges, PcsOfTheScript
  <2> QED
    BY <1>0, <1>10, <2>1, <2>2, StepOfRun DEF Send, disk
<1>11. ASSUME NEW v \in Version, Execute(r, v) PROVE Typed'
  <2>1. runs' = [runs EXCEPT ![r] = [runs[r] EXCEPT !.next = @ + 1]]
    BY <1>11 DEF Execute
  <2>2. [runs[r] EXCEPT !.next = @ + 1] \in RunType
    BY <1>0, <1>11 DEF Execute, RunType
  <2>3. executed' \subseteq Part
    BY <1>0, <1>11 DEF Execute, Part
  <2> QED
    BY <1>0, <1>11, <2>1, <2>2, <2>3, StepOfRun DEF Execute
<1>12. ASSUME NEW v \in Version, Clash(r, v) PROVE Typed'
  <2>1. runs' = [runs EXCEPT ![r] = at("failed")] /\ at("failed") \in RunType
    BY <1>12, <1>a, <1>b, PcsOfTheScript DEF Clash
  <2>2. history' \in HistoryType
    BY <1>0, <1>12 DEF Clash, HistoryType
  <2> QED
    BY <1>0, <1>12, <2>1, <2>2, StepOfRun DEF Clash, disk
<1>13. ASSUME NEW v \in Version, Record(r, v) PROVE Typed'
  <2>1. rows' \in [Version -> Nat]
    <3>1. rows' = [rows EXCEPT ![v] = rows[v] + 1]
      BY <1>13 DEF Record
    <3>2. rows \in [Version -> Nat] /\ rows[v] + 1 \in Nat
      BY <1>0, <1>13
    <3> QED
      BY <3>1, <3>2
  <2> QED
    BY <1>0, <1>8, <1>13, <2>1, StepOfRun DEF Record
<1> QED
  BY <1>1, <1>2, <1>3, <1>5, <1>6, <1>7, <1>9, <1>10, <1>11, <1>12, <1>13 DEF Attempt

LEMMA NextType == Typed /\ [Next]_vars => Typed'
<1> SUFFICES ASSUME Typed, [Next]_vars PROVE Typed'
  OBVIOUS
<1> USE DEF Typed, disk, directory
<1>1. CASE Down \/ Up
  <2>1. server' \in BOOLEAN
    BY <1>1 DEF Down, Up
  <2>2. /\ faults' \in 0..MaxFault
        /\ UNCHANGED <<made, executed, rows, files, vanished, runs, history, edits>>
    BY <1>1 DEF Down, Up
  <2> QED
    BY <2>1, <2>2
<1>2. CASE Wipe
  <2>1. NoRun \in RunType /\ NoHistory \in HistoryType
    BY DEF NoRun, RunType, Pc, NoHistory, HistoryType
  <2> QED
    BY <1>2, <2>1 DEF Wipe
<1>3. ASSUME NEW v \in Version, Add(v) \/ Remove(v) PROVE Typed'
  <2>1. files' \subseteq Version /\ vanished' \subseteq Version
    BY <1>3 DEF Add, Remove
  <2>2. edits' \in 0..MaxEdit
    BY <1>3 DEF Add, Remove
  <2>3. UNCHANGED <<server, made, executed, rows, runs, history, faults>>
    BY <1>3 DEF Add, Remove
  <2> QED
    BY <2>1, <2>2, <2>3
<1>4. ASSUME NEW r \in Runner, Start(r) PROVE Typed'
  <2>1. [NoRun EXCEPT !.pc = "wait"] \in RunType
    BY DEF NoRun, RunType, Pc
  <2> QED
    BY <1>4, <2>1 DEF Start
<1>5. ASSUME NEW r \in Runner, Kill(r) PROVE Typed'
  <2>1. [runs[r] EXCEPT !.pc = "failed"] \in RunType
    BY <1>5, RunChanges, PcsOfTheScript DEF Typed
  <2>2. history' \in HistoryType
    BY <1>5 DEF Kill, Abort, HistoryType
  <2>3. runs' = [runs EXCEPT ![r] = [runs[r] EXCEPT !.pc = "failed"]]
    BY <1>5 DEF Kill, Abort, Goto
  <2>4. faults' \in 0..MaxFault /\ UNCHANGED <<server, disk, directory>>
    BY <1>5 DEF Kill
  <2> QED
    BY <2>1, <2>2, <2>3, <2>4
<1>6. ASSUME NEW r \in Runner, Attempt(r) PROVE Typed'
  BY <1>6, AttemptType
<1>7. CASE UNCHANGED vars
  BY <1>7 DEF vars
<1> QED
  BY <1>1, <1>2, <1>3, <1>4, <1>5, <1>6, <1>7 DEF Next

\* The variables keep their types.
THEOREM TypeCorrect == Spec => []TypeOK
<1>1. Init => Typed
  BY InitType
<1>2. Typed /\ [Next]_vars => Typed'
  BY NextType
<1>3. Typed => TypeOK
  BY TypedMeans
<1> QED
  BY <1>1, <1>2, <1>3, PTL DEF Spec
-------------------------------------------------------------------------------
(* What the steps do to the fields of the runs: the facts the invariants need. *)

OthersKeep(r) == \A q \in Runner \ {r} : runs'[q] = runs[q]

\* A step after which the runner does not go by an answer any more, or not yet.
Quiet(r) ==
  /\ OthersKeep(r)
  /\ runs'[r].pc \notin {"list", "loop", "apply"}
  /\ runs'[r].applied \subseteq runs[r].applied /\ runs'[r].todo \subseteq runs[r].todo
  /\ runs'[r].listed \ runs'[r].todo \subseteq runs[r].listed \ runs[r].todo
  /\ UNCHANGED <<executed, rows, files, vanished>>
  /\ history'.raced = history.raced /\ history'.unread = history.unread
  /\ history.cut => history'.cut

\* A file is left behind.
Leaves(r, v) ==
  /\ OthersKeep(r)
  /\ v \in First(r) /\ runs'[r].pc = "loop"
  /\ runs'[r].applied = runs[r].applied /\ runs'[r].listed = runs[r].listed
  /\ runs'[r].todo = runs[r].todo \ {v}

LEMMA QuietSteps ==
  ASSUME Typed, NEW r \in Runner,
         \/ Start(r) \/ Wait(r) \/ Check(r) \/ CreateDatabase(r) \/ CreateTable(r)
         \/ Succeed(r) \/ Refused(r) \/ Kill(r)
  PROVE  /\ Quiet(r)
         /\ history'.clashed = history.clashed
         /\ At(r, "apply") /\ runs[r].next > 1 => history'.cut
<1>1. runs \in [Runner -> RunType] /\ history \in HistoryType
  BY DEF Typed
<1>2. CASE Start(r)
  BY <1>1, <1>2 DEF Start, NoRun, Over, At, Quiet, OthersKeep, RunType, HistoryType, disk,
                    directory
<1>3. CASE Wait(r)
  BY <1>1, <1>3 DEF Wait, Goto, At, Quiet, OthersKeep, RunType, HistoryType, disk, directory
<1>4. CASE Check(r) \/ Succeed(r)
  BY <1>1, <1>4 DEF Check, Succeed, Goto, At, Quiet, OthersKeep, RunType, HistoryType, disk,
                    directory
<1>5. CASE CreateDatabase(r) \/ CreateTable(r)
  BY <1>1, <1>5 DEF CreateDatabase, CreateTable, Goto, At, Quiet, OthersKeep, RunType,
                    HistoryType, directory
<1>6. CASE Refused(r) \/ Kill(r)
  <2>1. Abort(r) /\ UNCHANGED <<disk, directory>>
    BY <1>6 DEF Refused, Kill
  <2> QED
    BY <1>1, <2>1 DEF Abort, Goto, At, Quiet, OthersKeep, RunType, HistoryType, disk, directory
<1> QED
  BY <1>2, <1>3, <1>4, <1>5, <1>6

LEMMA ClashSteps ==
  ASSUME Typed, NEW r \in Runner, NEW v \in Version, Clash(r, v)
  PROVE  Quiet(r)
  BY DEF Typed, Clash, Goto, Quiet, OthersKeep, RunType, HistoryType, disk, directory

LEMMA LeaveSteps ==
  ASSUME Typed, NEW r \in Runner, NEW v \in First(r), Leave(r, v)
  PROVE  Leaves(r, v)
  BY DEF Typed, Leave, Leaves, OthersKeep, RunType

LEMMA ReadSteps ==
  ASSUME Typed, NEW r \in Runner, Read(r)
  PROVE  /\ OthersKeep(r)
         /\ runs'[r].pc = "list" /\ runs'[r].applied \subseteq InTable
         /\ runs'[r].listed = runs[r].listed /\ runs'[r].todo = runs[r].todo
         /\ UNCHANGED <<executed, rows, files, vanished>>
         /\ history'.raced = (history.raced \/ Working # {})
         /\ history'.unread = (history.unread \/ runs'[r].applied # InTable)
         /\ history'.cut = history.cut /\ history'.clashed = history.clashed
<1>1. runs \in [Runner -> RunType] /\ history \in HistoryType
  BY DEF Typed
<1>2. PICK known \in SUBSET InTable :
             /\ runs' = [runs EXCEPT ![r].pc = "list", ![r].applied = known]
             /\ history' = [history EXCEPT !.raced = @ \/ Working # {},
                                           !.unread = @ \/ known # InTable]
  BY DEF Read
<1>3. /\ OthersKeep(r)
      /\ runs'[r].pc = "list" /\ runs'[r].applied = known
      /\ runs'[r].listed = runs[r].listed /\ runs'[r].todo = runs[r].todo
  BY <1>1, <1>2 DEF OthersKeep, RunType
<1>4. /\ history'.raced = (history.raced \/ Working # {})
      /\ history'.unread = (history.unread \/ known # InTable)
      /\ history'.cut = history.cut /\ history'.clashed = history.clashed
  BY <1>1, <1>2 DEF HistoryType
<1> QED
  BY <1>3, <1>4 DEF Read, disk, directory

LEMMA ListSteps ==
  ASSUME Typed, NEW r \in Runner, List(r)
  PROVE  /\ OthersKeep(r)
         /\ At(r, "list") /\ runs'[r].pc = "loop"
         /\ runs'[r].applied = runs[r].applied
         /\ runs'[r].listed = files /\ runs'[r].todo = files
         /\ UNCHANGED <<executed, rows, files, vanished, history>>
  BY DEF Typed, List, At, OthersKeep, RunType, disk, directory

LEMMA SendSteps ==
  ASSUME Typed, NEW r \in Runner, NEW v \in Version, Send(r, v)
  PROVE  /\ OthersKeep(r)
         /\ At(r, "loop") /\ v \in First(r) /\ v \notin runs[r].applied
         /\ runs'[r].pc = "apply" /\ runs'[r].next = 1
         /\ runs'[r].applied = runs[r].applied
         /\ runs'[r].listed = runs[r].listed /\ runs'[r].todo = runs[r].todo
         /\ UNCHANGED <<executed, rows, files, vanished, history>>
  BY DEF Typed, Send, Recorded, At, OthersKeep, RunType, disk, directory

LEMMA ExecuteSteps ==
  ASSUME Typed, NEW r \in Runner, NEW v \in Version, Execute(r, v)
  PROVE  /\ OthersKeep(r)
         /\ At(r, "apply") /\ v \in First(r) /\ runs[r].next <= Statements
         /\ runs'[r].pc = "apply" /\ runs'[r].next = runs[r].next + 1
         /\ runs'[r].applied = runs[r].applied
         /\ runs'[r].listed = runs[r].listed /\ runs'[r].todo = runs[r].todo
         /\ executed' = executed \cup {<<v, runs[r].next>>}
         /\ UNCHANGED <<rows, files, vanished, history>>
  BY DEF Typed, Execute, At, OthersKeep, RunType, directory

\* The first of the files that are left is one file.
LEMMA FirstIsOne ==
  ASSUME Typed, NEW r \in Runner, NEW u \in First(r), NEW v \in First(r)
  PROVE  u = v
<1>1. u \in runs[r].todo /\ v \in runs[r].todo /\ runs[r].todo \subseteq Nat
  BY DEF First, Typed, RunType
<1> QED
  BY <1>1 DEF First

-------------------------------------------------------------------------------
(* What is behind a runner has been applied. *)

\* What a runner knows of the disk stays true: nothing that was executed is undone while it
\* runs.
KnowsDisk(r) ==
  /\ \A v \in runs[r].applied : Complete(v)
  /\ At(r, "apply") => \A v \in First(r) : \A i \in 1..Statements :
                         i < runs[r].next => <<v, i>> \in executed
  /\ runs[r].todo \subseteq files \cup vanished
  /\ \A v \in runs[r].listed \ runs[r].todo : Complete(v) \/ v \in vanished

RecordedAreComplete == \A v \in Version : rows[v] > 0 => Complete(v)

DiskInv ==
  /\ Typed /\ RecordedAreComplete
  /\ \A r \in Runner : KnowsDisk(r)

\* The runs a step leaves alone know as much after it.
LEMMA DiskFrame ==
  ASSUME NEW r \in Runner, KnowsDisk(r), runs'[r] = runs[r],
         executed \subseteq executed', vanished \subseteq vanished',
         files \cup vanished \subseteq files' \cup vanished'
  PROVE  KnowsDisk(r)'
  BY DEF KnowsDisk, At, First, Complete

LEMMA DiskQuiet ==
  ASSUME DiskInv, NEW r \in Runner, Quiet(r)
  PROVE  RecordedAreComplete' /\ \A q \in Runner : KnowsDisk(q)'
<1>1. RecordedAreComplete'
  BY DEF Quiet, DiskInv, RecordedAreComplete, Complete
<1>2. KnowsDisk(r)'
  BY DEF Quiet, DiskInv, KnowsDisk, At, Complete
<1>3. ASSUME NEW q \in Runner \ {r} PROVE KnowsDisk(q)'
  BY DiskFrame DEF Quiet, OthersKeep, DiskInv
<1> QED
  BY <1>1, <1>2, <1>3

\* A file is left behind when it is complete or gone.
LEMMA DiskLeave ==
  ASSUME DiskInv, NEW r \in Runner, NEW v, Leaves(r, v), Complete(v) \/ v \in vanished,
         UNCHANGED <<executed, files, vanished>>
  PROVE  \A q \in Runner : KnowsDisk(q)'
<1>1. KnowsDisk(r)'
  BY DEF Leaves, DiskInv, KnowsDisk, At, Complete
<1>2. ASSUME NEW q \in Runner \ {r} PROVE KnowsDisk(q)'
  BY DiskFrame DEF Leaves, OthersKeep, DiskInv
<1> QED
  BY <1>1, <1>2

LEMMA DiskAttempt ==
  ASSUME DiskInv, NEW r \in Runner, Attempt(r)
  PROVE  RecordedAreComplete' /\ \A q \in Runner : KnowsDisk(q)'
<1>0. Typed /\ RecordedAreComplete /\ \A q \in Runner : KnowsDisk(q)
  BY DEF DiskInv
<1>1. CASE \/ Wait(r) \/ Check(r) \/ CreateDatabase(r) \/ CreateTable(r) \/ Succeed(r)
           \/ Refused(r)
  BY <1>0, <1>1, QuietSteps, DiskQuiet
<1>2. CASE Read(r)
  <2>1. RecordedAreComplete'
    BY <1>0, <1>2, ReadSteps DEF RecordedAreComplete, Complete
  <2>2. KnowsDisk(r)'
    BY <1>0, <1>2, ReadSteps DEF RecordedAreComplete, KnowsDisk, At, Complete, InTable
  <2>3. ASSUME NEW q \in Runner \ {r} PROVE KnowsDisk(q)'
    BY <1>0, <1>2, ReadSteps, DiskFrame DEF OthersKeep
  <2> QED
    BY <2>1, <2>2, <2>3
<1>3. CASE List(r)
  <2>1. RecordedAreComplete'
    BY <1>0, <1>3, ListSteps DEF RecordedAreComplete, Complete
  <2>2. KnowsDisk(r)'
    BY <1>0, <1>3, ListSteps DEF KnowsDisk, At, Complete
  <2>3. ASSUME NEW q \in Runner \ {r} PROVE KnowsDisk(q)'
    BY <1>0, <1>3, ListSteps, DiskFrame DEF OthersKeep
  <2> QED
    BY <2>1, <2>2, <2>3
<1>4. ASSUME NEW v \in Version, Skip(r, v)
      PROVE  RecordedAreComplete' /\ \A q \in Runner : KnowsDisk(q)'
  <2>1. /\ v \in First(r) /\ v \in runs[r].applied /\ Leave(r, v)
        /\ UNCHANGED <<executed, rows, files, vanished>>
    BY <1>4 DEF Skip, Recorded, disk, directory
  <2>2. Complete(v) /\ Leaves(r, v)
    BY <1>0, <2>1, LeaveSteps DEF KnowsDisk
  <2> QED
    BY <1>0, <2>1, <2>2, DiskLeave DEF RecordedAreComplete, Complete
<1>5. ASSUME NEW v \in Version, SendNothing(r, v)
      PROVE  RecordedAreComplete' /\ \A q \in Runner : KnowsDisk(q)'
  <2>1. /\ v \in First(r) /\ v \notin files /\ Leave(r, v)
        /\ UNCHANGED <<executed, rows, files, vanished>>
    BY <1>5 DEF SendNothing, disk, directory
  <2>2. v \in vanished /\ Leaves(r, v)
    BY <1>0, <2>1, LeaveSteps DEF KnowsDisk, First
  <2> QED
    BY <1>0, <2>1, <2>2, DiskLeave DEF RecordedAreComplete, Complete
<1>6. ASSUME NEW v \in Version, Send(r, v)
      PROVE  RecordedAreComplete' /\ \A q \in Runner : KnowsDisk(q)'
  <2>1. RecordedAreComplete'
    BY <1>0, <1>6, SendSteps DEF RecordedAreComplete, Complete
  <2>2. KnowsDisk(r)'
    BY <1>0, <1>6, SendSteps DEF KnowsDisk, At, Complete
  <2>3. ASSUME NEW q \in Runner \ {r} PROVE KnowsDisk(q)'
    BY <1>0, <1>6, SendSteps, DiskFrame DEF OthersKeep
  <2> QED
    BY <2>1, <2>2, <2>3
<1>7. ASSUME NEW v \in Version, Execute(r, v)
      PROVE  RecordedAreComplete' /\ \A q \in Runner : KnowsDisk(q)'
  <2>1. RecordedAreComplete'
    BY <1>0, <1>7, ExecuteSteps DEF RecordedAreComplete, Complete
  <2>2. First(r)' = First(r) /\ \A u \in First(r) : u = v
    BY <1>0, <1>7, ExecuteSteps, FirstIsOne DEF First
  <2>3. ASSUME NEW i \in 1..Statements, i < runs'[r].next PROVE <<v, i>> \in executed'
    <3>1. runs[r].next \in 1..(Statements + 1) /\ runs'[r].next = runs[r].next + 1
      BY <1>0, <1>7, ExecuteSteps DEF Typed, RunType
    <3>2. i < runs[r].next \/ i = runs[r].next
      BY <2>3, <3>1
    <3> QED
      BY <1>0, <1>7, <3>2, ExecuteSteps DEF KnowsDisk
  <2>4. KnowsDisk(r)'
    BY <1>0, <1>7, <2>2, <2>3, ExecuteSteps DEF KnowsDisk, At, Complete
  <2>5. ASSUME NEW q \in Runner \ {r} PROVE KnowsDisk(q)'
    BY <1>0, <1>7, ExecuteSteps, DiskFrame DEF OthersKeep
  <2> QED
    BY <2>1, <2>4, <2>5
<1>8. ASSUME NEW v \in Version, Clash(r, v)
      PROVE  RecordedAreComplete' /\ \A q \in Runner : KnowsDisk(q)'
  BY <1>0, <1>8, ClashSteps, DiskQuiet
<1>9. ASSUME NEW v \in Version, Record(r, v)
      PROVE  RecordedAreComplete' /\ \A q \in Runner : KnowsDisk(q)'
  <2>1. /\ At(r, "apply") /\ v \in First(r) /\ runs[r].next > Statements /\ Leave(r, v)
        /\ rows' = [rows EXCEPT ![v] = @ + 1] /\ UNCHANGED <<executed, files, vanished>>
    BY <1>9 DEF Record, directory
  <2>2. Complete(v) /\ Leaves(r, v)
    <3>1. runs[r].next \in Nat
      BY <1>0 DEF Typed, RunType
    <3>2. \A i \in 1..Statements : i < runs[r].next
      BY <2>1, <3>1
    <3> QED
      BY <1>0, <2>1, <3>2, LeaveSteps DEF KnowsDisk, Complete
  <2>3. RecordedAreComplete'
    BY <1>0, <2>1, <2>2 DEF RecordedAreComplete, Complete, Typed
  <2> QED
    BY <2>1, <2>2, <2>3, DiskLeave
<1> QED
  BY <1>1, <1>2, <1>3, <1>4, <1>5, <1>6, <1>7, <1>8, <1>9 DEF Attempt

LEMMA DiskInit == Init => DiskInv
<1> SUFFICES ASSUME Init PROVE DiskInv
  OBVIOUS
<1>1. RecordedAreComplete
  BY DEF Init, RecordedAreComplete
<1>2. ASSUME NEW r \in Runner PROVE KnowsDisk(r)
  BY DEF Init, KnowsDisk, NoRun, At
<1> QED
  BY <1>1, <1>2, InitType DEF DiskInv

LEMMA DiskNext == DiskInv /\ [Next]_vars => DiskInv'
<1> SUFFICES ASSUME DiskInv, [Next]_vars PROVE DiskInv'
  OBVIOUS
<1>0. Typed /\ Typed' /\ RecordedAreComplete /\ \A q \in Runner : KnowsDisk(q)
  BY NextType DEF DiskInv
<1>1. CASE \/ Down \/ Up \/ (\E v \in Version : Add(v) \/ Remove(v)) \/ UNCHANGED vars
  <2>1. /\ UNCHANGED <<runs, executed, rows>> /\ vanished \subseteq vanished'
        /\ files \cup vanished \subseteq files' \cup vanished'
    BY <1>1 DEF Down, Up, Add, Remove, vars, disk, directory
  <2>2. RecordedAreComplete'
    BY <1>0, <2>1 DEF RecordedAreComplete, Complete
  <2>3. ASSUME NEW q \in Runner PROVE KnowsDisk(q)'
    BY <1>0, <2>1, DiskFrame
  <2> QED
    BY <1>0, <2>2, <2>3 DEF DiskInv
<1>2. CASE Wipe
  <2>1. RecordedAreComplete'
    BY <1>2 DEF Wipe, RecordedAreComplete
  <2>2. ASSUME NEW q \in Runner PROVE KnowsDisk(q)'
    BY <1>2 DEF Wipe, KnowsDisk, NoRun, At
  <2> QED
    BY <1>0, <2>1, <2>2 DEF DiskInv
<1>3. ASSUME NEW r \in Runner, Start(r) \/ Kill(r) PROVE DiskInv'
  BY <1>0, <1>3, QuietSteps, DiskQuiet DEF DiskInv
<1>4. ASSUME NEW r \in Runner, Attempt(r) PROVE DiskInv'
  BY <1>0, <1>4, DiskAttempt DEF DiskInv
<1> QED
  BY <1>1, <1>2, <1>3, <1>4 DEF Next

\* Whatever a runner has behind it has been applied, or its file was removed.
THEOREM PassedAreAppliedHolds == Spec => []PassedAreApplied
<1>1. DiskInv => PassedAreApplied
  BY DEF DiskInv, KnowsDisk, PassedAreApplied
<1> QED
  BY <1>1, DiskInit, DiskNext, PTL DEF Spec

\* Statements are executed in the order of the versions, as each runner listed them.
THEOREM AppliedInOrderHolds == Spec => AppliedInOrder
<1> DEFINE Ordered ==
             \A p \in executed' \ executed : \E r \in Runner :
               /\ p[1] \in runs[r].todo
               /\ \A v \in runs[r].listed : v < p[1] => Complete(v) \/ v \in vanished
<1>1. ASSUME DiskInv, [Next]_vars PROVE Ordered
  <2> SUFFICES ASSUME NEW p \in executed' \ executed
               PROVE  \E r \in Runner :
                        /\ p[1] \in runs[r].todo
                        /\ \A v \in runs[r].listed : v < p[1] => Complete(v) \/ v \in vanished
    OBVIOUS
  <2>1. ~Wipe
    BY DEF Wipe
  <2>0. Typed
    BY <1>1 DEF DiskInv
  <2>2. CASE \/ Down \/ Up \/ (\E v \in Version : Add(v) \/ Remove(v)) \/ UNCHANGED vars
             \/ \E r \in Runner :
                  \/ Start(r) \/ Kill(r) \/ Wait(r) \/ Check(r) \/ CreateDatabase(r)
                  \/ CreateTable(r) \/ Read(r) \/ List(r) \/ Succeed(r) \/ Refused(r)
                  \/ \E v \in Version : \/ Skip(r, v) \/ Send(r, v) \/ SendNothing(r, v)
                                         \/ Clash(r, v) \/ Record(r, v)
    <3>1. executed' = executed
      BY <2>2 DEF Down, Up, Add, Remove, vars, Start, Kill, Wait, Check, CreateDatabase,
                  CreateTable, Read, List, Succeed, Refused, Skip, Send, SendNothing, Clash,
                  Record, disk
    <3> QED
      BY <3>1
  <2>3. ASSUME NEW r \in Runner, NEW v \in Version, Execute(r, v)
        PROVE  /\ p[1] \in runs[r].todo
               /\ \A u \in runs[r].listed : u < p[1] => Complete(u) \/ u \in vanished
    <3>1. /\ v \in First(r) /\ executed' = executed \cup {<<v, runs[r].next>>}
          /\ runs[r].listed \subseteq Version
      BY <2>0, <2>3 DEF Execute, Typed, RunType
    <3>2. p[1] = v /\ v \in runs[r].todo
      BY <3>1 DEF First
    <3>3. ASSUME NEW u \in runs[r].listed, u < v PROVE Complete(u) \/ u \in vanished
      <4>1. u \in Nat /\ v \in Nat
        BY <3>1
      <4>2. u \notin runs[r].todo
        BY <3>1, <3>3, <4>1 DEF First
      <4> QED
        BY <1>1, <4>2 DEF DiskInv, KnowsDisk
    <3> QED
      BY <3>2, <3>3
  <2> QED
    BY <1>1, <2>1, <2>2, <2>3 DEF Next, Attempt
<1>2. DiskInv /\ [Next]_vars => [Ordered]_vars
  BY <1>1
<1> QED
  BY <1>2, DiskInit, DiskNext, PTL DEF Spec, AppliedInOrder

-------------------------------------------------------------------------------
(* The runners implement the ledger. *)

AppliedSet == {v \in Version : Complete(v)}

RecordedSet == {v \in Version : rows[v] > 0}

Ledgers == <<AppliedSet, RecordedSet>>

LEMMA LedgerFrame == UNCHANGED <<executed, rows>> => UNCHANGED Ledgers
<1> SUFFICES ASSUME UNCHANGED <<executed, rows>> PROVE UNCHANGED Ledgers
  OBVIOUS
<1>1. \A v : Complete(v)' <=> Complete(v)
  BY DEF Complete
<1> QED
  BY <1>1 DEF Ledgers, AppliedSet, RecordedSet

LEMMA ExecuteImplements ==
  ASSUME Typed, NEW r \in Runner, NEW v \in Version, Execute(r, v)
  PROVE  [Ledger!Next]_Ledgers
<1>1. /\ executed' = executed \cup {<<v, runs[r].next>>} /\ rows' = rows
  BY ExecuteSteps
<1>2. \A u \in Version : u # v => (Complete(u)' <=> Complete(u))
  BY <1>1 DEF Complete
<1>3. Complete(v) => Complete(v)'
  BY <1>1 DEF Complete
<1>4. RecordedSet' = RecordedSet
  BY <1>1 DEF RecordedSet
<1>5. CASE Complete(v)' <=> Complete(v)
  BY <1>2, <1>4, <1>5 DEF Ledgers, AppliedSet
<1>6. CASE ~Complete(v) /\ Complete(v)'
  <2>1. v \notin AppliedSet /\ AppliedSet' = AppliedSet \cup {v}
    BY <1>2, <1>6 DEF AppliedSet
  <2>2. Ledger!Apply(v)
    BY <2>1, <1>4 DEF Ledger!Apply, AppliedSet, RecordedSet
  <2> QED
    BY <2>2 DEF Ledger!Next
<1> QED
  BY <1>3, <1>5, <1>6

LEMMA RecordImplements ==
  ASSUME DiskInv, NEW r \in Runner, NEW v \in Version, Record(r, v)
  PROVE  [Ledger!Next]_Ledgers
<1>1. /\ At(r, "apply") /\ v \in First(r) /\ runs[r].next > Statements
      /\ rows' = [rows EXCEPT ![v] = @ + 1] /\ executed' = executed
  BY DEF Record
<1>2. Complete(v)
  <2>1. runs[r].next \in Nat
    BY DEF DiskInv, Typed, RunType
  <2>2. \A i \in 1..Statements : i < runs[r].next
    BY <1>1, <2>1
  <2> QED
    BY <1>1, <2>2 DEF DiskInv, KnowsDisk, Complete
<1>3. AppliedSet' = AppliedSet
  BY <1>1 DEF AppliedSet, Complete
<1>4. RecordedSet' = RecordedSet \cup {v}
  BY <1>1 DEF RecordedSet, DiskInv, Typed
<1>5. CASE v \in RecordedSet
  BY <1>3, <1>4, <1>5 DEF Ledgers
<1>6. CASE v \notin RecordedSet
  <2>1. Ledger!Record(v)
    BY <1>2, <1>3, <1>4, <1>6 DEF Ledger!Record, AppliedSet, RecordedSet
  <2> QED
    BY <2>1 DEF Ledger!Next
<1> QED
  BY <1>5, <1>6

LEMMA WipeImplements == Wipe => Ledger!Next
<1> SUFFICES ASSUME Wipe PROVE Ledger!Next
  OBVIOUS
<1>1. executed' = {} /\ rows' = [v \in Version |-> 0]
  BY DEF Wipe
<1>2. 1 \in 1..Statements
  OBVIOUS
<1>3. AppliedSet' = {} /\ RecordedSet' = {}
  BY <1>1, <1>2 DEF AppliedSet, RecordedSet, Complete
<1> QED
  BY <1>3 DEF Ledger!Next, Ledger!Wipe, AppliedSet, RecordedSet

LEMMA NextImplements == DiskInv /\ [Next]_vars => [Ledger!Next]_Ledgers
<1> SUFFICES ASSUME DiskInv, [Next]_vars PROVE [Ledger!Next]_Ledgers
  OBVIOUS
<1>0. Typed
  BY DEF DiskInv
<1>1. CASE \/ Down \/ Up \/ (\E v \in Version : Add(v) \/ Remove(v)) \/ UNCHANGED vars
           \/ \E r \in Runner :
                \/ Start(r) \/ Kill(r) \/ Wait(r) \/ Check(r) \/ CreateDatabase(r)
                \/ CreateTable(r) \/ Read(r) \/ List(r) \/ Succeed(r) \/ Refused(r)
                \/ \E v \in Version :
                     Skip(r, v) \/ Send(r, v) \/ SendNothing(r, v) \/ Clash(r, v)
  <2>1. UNCHANGED <<executed, rows>>
    BY <1>1 DEF Down, Up, Add, Remove, vars, Start, Kill, Wait, Check, CreateDatabase,
                CreateTable, Read, List, Succeed, Refused, Skip, Send, SendNothing, Clash, disk
  <2> QED
    BY <2>1, LedgerFrame
<1>2. CASE Wipe
  BY <1>2, WipeImplements
<1>3. ASSUME NEW r \in Runner, NEW v \in Version, Execute(r, v) \/ Record(r, v)
      PROVE  [Ledger!Next]_Ledgers
  BY <1>0, <1>3, ExecuteImplements, RecordImplements
<1> QED
  BY <1>1, <1>2, <1>3 DEF Next, Attempt

\* A version is recorded only once all of it has been applied, and neither is undone short of
\* a removal of the volume, whatever stops and whoever else is at work.
THEOREM MigrationsImplementLedger == Spec => ImplementsLedger
<1>1. Init => Ledger!Init
  <2> SUFFICES ASSUME Init PROVE Ledger!Init
    OBVIOUS
  <2>1. executed = {} /\ rows = [v \in Version |-> 0] /\ 1 \in 1..Statements
    BY DEF Init
  <2> QED
    BY <2>1 DEF Ledger!Init, Complete
<1>2. DiskInv /\ [Next]_vars => [Ledger!Next]_Ledgers
  BY NextImplements
<1> QED
  BY <1>1, <1>2, DiskInit, DiskNext, PTL
  DEF Spec, ImplementsLedger, Ledger!Spec, Ledgers, AppliedSet, RecordedSet

\* Whatever implements the ledger, these runners or others, records only what is applied.
THEOREM LedgerIsHonest == Ledger!Spec => [](RecordedSet \subseteq AppliedSet)
<1>1. Ledger!Init => RecordedSet \subseteq AppliedSet
  BY DEF Ledger!Init, RecordedSet, AppliedSet
<1>2. ASSUME RecordedSet \subseteq AppliedSet, [Ledger!Next]_Ledgers
      PROVE  (RecordedSet \subseteq AppliedSet)'
  BY <1>2 DEF Ledger!Next, Ledger!Apply, Ledger!Record, Ledger!Wipe, RecordedSet, AppliedSet,
              Ledgers
<1> QED
  BY <1>1, <1>2, PTL DEF Ledger!Spec, Ledgers, AppliedSet, RecordedSet

-------------------------------------------------------------------------------
(* A version is applied again only for a known reason. *)

\* No runner began while another was at work, none lost the answer of what is recorded.
Calm == ~history.raced /\ ~history.unread

Alone == \A r, q \in Working : r = q

\* What is recorded is in the runner's answer, or was recorded by it and is behind it.
KnowsRows(r) ==
  r \in Working => \A v \in Version : rows[v] > 0 =>
                     \/ v \in runs[r].applied
                     \/ runs[r].pc # "list" /\ v \notin runs[r].todo

SendsUnknown(r) == At(r, "apply") => \A v \in First(r) : v \notin runs[r].applied

OnceEach == \A v \in Version : rows[v] \in 0..1

Sending(r, v, i) == At(r, "apply") /\ v \in First(r) /\ i < runs[r].next

\* A statement was executed in a run that recorded its version, or is being executed.
Accounted ==
  \A v \in Version : \A i \in 1..Statements : <<v, i>> \in executed =>
    rows[v] > 0 \/ \E r \in Runner : Sending(r, v, i)

CalmOnce == Alone /\ OnceEach /\ \A r \in Runner : KnowsRows(r)

UncutOnce == Accounted /\ ~history.clashed

ReplayInv ==
  /\ DiskInv
  /\ \A r \in Runner : SendsUnknown(r)
  /\ Calm => CalmOnce
  /\ Calm /\ ~history.cut => UncutOnce

LEMMA KeptRuns ==
  ASSUME NEW q \in Runner, runs'[q] = runs[q]
  PROVE  /\ SendsUnknown(q) => SendsUnknown(q)'
         /\ q \in Working' <=> q \in Working
         /\ rows' = rows /\ KnowsRows(q) => KnowsRows(q)'
         /\ \A v, i : Sending(q, v, i)' <=> Sending(q, v, i)
  BY DEF SendsUnknown, KnowsRows, Sending, Working, At, First

\* One runner moves, and no row is added.
LEMMA CalmFrame ==
  ASSUME CalmOnce, NEW r \in Runner, OthersKeep(r), rows' = rows, KnowsRows(r)',
         r \in Working' => Working \subseteq {r}
  PROVE  CalmOnce'
<1>1. ASSUME NEW q \in Runner PROVE KnowsRows(q)'
  BY KeptRuns DEF CalmOnce, OthersKeep
<1>2. ASSUME NEW p \in Working', NEW q \in Working' PROVE p = q
  <2>1. p \in Runner /\ q \in Runner
    BY DEF Working
  <2>2. (p = r \/ p \in Working) /\ (q = r \/ q \in Working)
    BY <2>1, KeptRuns DEF OthersKeep
  <2> QED
    BY <1>2, <2>2 DEF CalmOnce, Alone
<1>3. OnceEach'
  BY DEF CalmOnce, OnceEach
<1> QED
  BY <1>1, <1>2, <1>3 DEF CalmOnce, Alone

LEMMA SendsFrame ==
  ASSUME \A q \in Runner : SendsUnknown(q), NEW r \in Runner, OthersKeep(r),
         SendsUnknown(r)'
  PROVE  \A q \in Runner : SendsUnknown(q)'
  BY KeptRuns DEF OthersKeep

\* A runner that was sending nothing moves.
LEMMA AccountedFrame ==
  ASSUME Accounted, NEW r \in Runner, OthersKeep(r), UNCHANGED <<rows, executed>>,
         ~At(r, "apply") \/ runs[r].next = 1, Typed
  PROVE  Accounted'
<1>1. \A v, i : i \in 1..Statements => ~Sending(r, v, i)
  BY DEF Sending
<1>2. ASSUME NEW v \in Version, NEW i \in 1..Statements, <<v, i>> \in executed
      PROVE  rows[v] > 0 \/ \E q \in Runner : Sending(q, v, i)'
  <2>1. CASE rows[v] > 0
    BY <2>1
  <2>2. CASE \E q \in Runner : Sending(q, v, i)
    BY <1>1, <2>2, KeptRuns DEF OthersKeep
  <2> QED
    BY <1>2, <2>1, <2>2 DEF Accounted
<1> QED
  BY <1>2 DEF Accounted

\* The part of ReplayInv beyond DiskInv.
OnceInv ==
  /\ \A r \in Runner : SendsUnknown(r)
  /\ Calm => CalmOnce
  /\ Calm /\ ~history.cut => UncutOnce

LEMMA OnceQuiet ==
  ASSUME ReplayInv, NEW r \in Runner, Quiet(r)
  PROVE  /\ \A q \in Runner : SendsUnknown(q)'
         /\ Calm' => CalmOnce'
<1>1. SendsUnknown(r)' /\ KnowsRows(r)' /\ r \notin Working'
  BY DEF Quiet, SendsUnknown, KnowsRows, Working, At
<1>2. Calm' => Calm
  BY DEF Quiet, Calm
<1> QED
  BY <1>1, <1>2, SendsFrame, CalmFrame DEF ReplayInv, Quiet

LEMMA OnceStops ==
  ASSUME ReplayInv, NEW r \in Runner,
         \/ Start(r) \/ Wait(r) \/ Check(r) \/ CreateDatabase(r) \/ CreateTable(r)
         \/ Succeed(r) \/ Refused(r) \/ Kill(r)
  PROVE  OnceInv'
<1>1. /\ Typed /\ Quiet(r) /\ history'.clashed = history.clashed
      /\ At(r, "apply") /\ runs[r].next > 1 => history'.cut
  BY QuietSteps DEF ReplayInv, DiskInv
<1>2. ASSUME Calm', ~history'.cut PROVE UncutOnce'
  <2>1. Calm /\ ~history.cut /\ UncutOnce
    BY <1>1, <1>2 DEF Quiet, Calm, ReplayInv
  <2>2. ~At(r, "apply") \/ runs[r].next = 1
    BY <1>1, <1>2 DEF Typed, RunType
  <2>3. Accounted'
    BY <1>1, <2>1, <2>2, AccountedFrame DEF Quiet, UncutOnce
  <2> QED
    BY <1>1, <2>1, <2>3 DEF UncutOnce
<1> QED
  BY <1>1, <1>2, OnceQuiet DEF OnceInv

\* What fails because it was executed before was executed by another, or by a run that was
\* cut or was not known of.
LEMMA OnceClash ==
  ASSUME ReplayInv, NEW r \in Runner, NEW v \in Version, Clash(r, v)
  PROVE  OnceInv'
<1>1. /\ Typed /\ At(r, "apply") /\ v \in First(r) /\ runs[r].next <= Statements
      /\ <<v, runs[r].next>> \in executed /\ r \in Working
  BY DEF Clash, ReplayInv, DiskInv, Working, At
<1>2. history'.raced = history.raced /\ history'.unread = history.unread
      /\ history'.cut = history.cut
  BY <1>1 DEF Clash, Typed, HistoryType
<1>3. ASSUME Calm, ~history.cut PROVE FALSE
  <2>1. Accounted /\ CalmOnce /\ SendsUnknown(r)
    BY <1>3 DEF ReplayInv, UncutOnce
  <2>2. v \in runs[r].todo /\ v \notin runs[r].applied /\ ~(rows[v] > 0)
    BY <1>1, <2>1 DEF SendsUnknown, CalmOnce, KnowsRows, First, At
  <2>3. runs[r].next \in 1..Statements
    BY <1>1 DEF Typed, RunType
  <2>4. PICK q \in Runner : Sending(q, v, runs[r].next)
    BY <1>1, <2>1, <2>2, <2>3 DEF Accounted
  <2>5. q = r
    BY <1>1, <2>1, <2>4 DEF CalmOnce, Alone, Sending, Working, At
  <2> QED
    BY <2>3, <2>4, <2>5 DEF Sending
<1>4. ~(Calm' /\ ~history'.cut)
  BY <1>2, <1>3 DEF Calm
<1> QED
  BY <1>1, <1>4, ClashSteps, OnceQuiet DEF OnceInv

LEMMA OnceRead ==
  ASSUME ReplayInv, NEW r \in Runner, Read(r)
  PROVE  OnceInv'
<1>1. Typed /\ OthersKeep(r) /\ runs'[r].pc = "list" /\ UNCHANGED <<executed, rows>>
  BY ReadSteps DEF ReplayInv, DiskInv
<1>2. At(r, "read")
  BY DEF Read
<1>3. Calm' => Calm /\ Working = {} /\ runs'[r].applied = InTable
  BY <1>1, ReadSteps DEF Calm
<1>4. SendsUnknown(r)'
  BY <1>1 DEF SendsUnknown, At
<1>5. ASSUME Calm' PROVE CalmOnce'
  <2>1. runs'[r].applied = {v \in Version : rows[v] > 0}
    BY <1>3, <1>5 DEF InTable
  <2>2. KnowsRows(r)'
    BY <1>1, <2>1 DEF KnowsRows
  <2> QED
    BY <1>1, <1>3, <1>5, <2>2, CalmFrame DEF ReplayInv
<1>6. ASSUME Calm', ~history'.cut PROVE UncutOnce'
  <2>1. UncutOnce /\ history'.clashed = history.clashed
    BY <1>1, <1>3, <1>6, ReadSteps DEF ReplayInv
  <2>2. Accounted'
    BY <1>1, <1>2, <2>1, AccountedFrame DEF UncutOnce, At
  <2> QED
    BY <2>1, <2>2 DEF UncutOnce
<1> QED
  BY <1>1, <1>4, <1>5, <1>6, SendsFrame DEF OnceInv, ReplayInv

\* The steps between two files: a runner that was not sending goes on, and knows as much.
LEMMA OnceBetween ==
  ASSUME ReplayInv, NEW r \in Runner, OthersKeep(r), UNCHANGED <<executed, rows, history>>,
         ~At(r, "apply"), r \in Working, SendsUnknown(r)', KnowsRows(r) => KnowsRows(r)'
  PROVE  OnceInv'
<1>1. Typed /\ (Calm' <=> Calm) /\ history'.cut = history.cut
  BY DEF Calm, ReplayInv, DiskInv
<1>2. ASSUME Calm' PROVE CalmOnce'
  <2>1. CalmOnce
    BY <1>1, <1>2 DEF ReplayInv
  <2>2. Working \subseteq {r} /\ KnowsRows(r)'
    BY <2>1 DEF CalmOnce, Alone
  <2> QED
    BY <2>1, <2>2, CalmFrame
<1>3. ASSUME Calm', ~history'.cut PROVE UncutOnce'
  BY <1>1, <1>3, AccountedFrame DEF ReplayInv, UncutOnce
<1> QED
  BY <1>2, <1>3, SendsFrame DEF OnceInv, ReplayInv

LEMMA OnceLoop ==
  ASSUME ReplayInv, NEW r \in Runner,
         List(r) \/ \E v \in Version : Skip(r, v) \/ SendNothing(r, v) \/ Send(r, v)
  PROVE  OnceInv'
<1>0. Typed
  BY DEF ReplayInv, DiskInv
<1>1. CASE List(r)
  <2>1. /\ OthersKeep(r) /\ UNCHANGED <<executed, rows, history>>
        /\ At(r, "list") /\ runs'[r].pc = "loop" /\ runs'[r].applied = runs[r].applied
    BY <1>0, <1>1, ListSteps
  <2>2. ~At(r, "apply") /\ r \in Working /\ SendsUnknown(r)'
    BY <2>1 DEF At, Working, SendsUnknown
  <2>3. KnowsRows(r) => KnowsRows(r)'
    BY <2>1, <2>2 DEF At, KnowsRows
  <2> QED
    BY <2>1, <2>2, <2>3, OnceBetween
<1>2. ASSUME NEW v \in Version, Skip(r, v) \/ SendNothing(r, v) PROVE OnceInv'
  <2>1. At(r, "loop") /\ v \in First(r) /\ Leave(r, v) /\ UNCHANGED <<executed, rows, history>>
    BY <1>2 DEF Skip, SendNothing, disk
  <2>2. Leaves(r, v)
    BY <1>0, <2>1, LeaveSteps
  <2>3. ~At(r, "apply") /\ r \in Working /\ SendsUnknown(r)'
    BY <2>1, <2>2 DEF Leaves, At, Working, SendsUnknown
  <2>4. KnowsRows(r) => KnowsRows(r)'
    BY <2>1, <2>2, <2>3 DEF Leaves, At, KnowsRows
  <2> QED
    BY <2>1, <2>2, <2>3, <2>4, OnceBetween DEF Leaves
<1>3. ASSUME NEW v \in Version, Send(r, v) PROVE OnceInv'
  <2>1. /\ OthersKeep(r) /\ UNCHANGED <<executed, rows, history>>
        /\ At(r, "loop") /\ v \in First(r) /\ v \notin runs[r].applied
        /\ runs'[r].pc = "apply" /\ runs'[r].applied = runs[r].applied
        /\ runs'[r].todo = runs[r].todo
    BY <1>0, <1>3, SendSteps
  <2>2. ~At(r, "apply") /\ r \in Working
    BY <2>1 DEF At, Working
  <2>3. SendsUnknown(r)'
    <3>1. First(r)' = First(r) /\ \A u \in First(r) : u = v
      BY <1>0, <2>1, FirstIsOne DEF First
    <3> QED
      BY <2>1, <3>1 DEF SendsUnknown
  <2>4. KnowsRows(r) => KnowsRows(r)'
    BY <2>1, <2>2 DEF At, KnowsRows
  <2> QED
    BY <2>1, <2>2, <2>3, <2>4, OnceBetween
<1> QED
  BY <1>1, <1>2, <1>3

LEMMA OnceExecute ==
  ASSUME ReplayInv, NEW r \in Runner, NEW v \in Version, Execute(r, v)
  PROVE  OnceInv'
<1>1. /\ Typed /\ OthersKeep(r) /\ UNCHANGED <<rows, history>>
      /\ At(r, "apply") /\ v \in First(r)
      /\ runs'[r].pc = "apply" /\ runs'[r].next = runs[r].next + 1
      /\ runs'[r].applied = runs[r].applied /\ runs'[r].todo = runs[r].todo
      /\ executed' = executed \cup {<<v, runs[r].next>>} /\ runs[r].next \in Nat
  BY ExecuteSteps DEF ReplayInv, DiskInv, Typed, RunType
<1>2. r \in Working /\ First(r)' = First(r) /\ (Calm' <=> Calm)
  BY <1>1 DEF Working, At, First, Calm
<1>3. SendsUnknown(r)'
  BY <1>1, <1>2 DEF SendsUnknown, ReplayInv
<1>4. ASSUME Calm' PROVE CalmOnce'
  <2>1. CalmOnce /\ Working \subseteq {r}
    BY <1>2, <1>4 DEF ReplayInv, CalmOnce, Alone
  <2>2. KnowsRows(r)'
    BY <1>1, <1>2, <2>1 DEF CalmOnce, KnowsRows, At
  <2> QED
    BY <1>1, <2>1, <2>2, CalmFrame
<1>5. ASSUME Calm', ~history'.cut PROVE UncutOnce'
  <2>1. UncutOnce
    BY <1>1, <1>2, <1>5 DEF ReplayInv
  <2>2. \A u, i : i \in 1..Statements /\ Sending(r, u, i) => Sending(r, u, i)'
    BY <1>1, <1>2 DEF Sending, At
  <2>3. \A i : i = runs[r].next => Sending(r, v, i)'
    BY <1>1, <1>2 DEF Sending, At
  <2>4. ASSUME NEW u \in Version, NEW i \in 1..Statements, <<u, i>> \in executed'
        PROVE  rows'[u] > 0 \/ \E q \in Runner : Sending(q, u, i)'
    <3>1. CASE <<u, i>> \in executed
      BY <1>1, <2>1, <2>2, <3>1, KeptRuns DEF UncutOnce, Accounted, OthersKeep
    <3>2. CASE u = v /\ i = runs[r].next
      BY <2>3, <3>2
    <3> QED
      BY <1>1, <2>4, <3>1, <3>2
  <2> QED
    BY <1>1, <2>1, <2>4 DEF UncutOnce, Accounted
<1> QED
  BY <1>1, <1>3, <1>4, <1>5, SendsFrame DEF OnceInv, ReplayInv

LEMMA OnceRecord ==
  ASSUME ReplayInv, NEW r \in Runner, NEW v \in Version, Record(r, v)
  PROVE  OnceInv'
<1>1. /\ Typed /\ At(r, "apply") /\ v \in First(r) /\ Leaves(r, v) /\ r \in Working
      /\ rows' = [rows EXCEPT ![v] = @ + 1] /\ UNCHANGED <<executed, history>>
  BY LeaveSteps DEF Record, ReplayInv, DiskInv, At, Working
<1>2. (Calm' <=> Calm) /\ \A u \in Version : u # v => rows'[u] = rows[u]
  BY <1>1 DEF Calm, Typed
<1>3. SendsUnknown(r)'
  BY <1>1 DEF SendsUnknown, Leaves, At
<1>4. ASSUME Calm PROVE rows[v] = 0 /\ rows'[v] = 1 /\ Working \subseteq {r} /\ CalmOnce
  <2>1. CalmOnce /\ KnowsRows(r) /\ SendsUnknown(r)
    BY <1>4 DEF ReplayInv, CalmOnce
  <2>2. v \in runs[r].todo /\ v \notin runs[r].applied
    BY <1>1, <2>1 DEF SendsUnknown, First
  <2>3. rows[v] = 0
    BY <1>1, <2>1, <2>2 DEF KnowsRows, CalmOnce, OnceEach
  <2> QED
    BY <1>1, <2>1, <2>3 DEF CalmOnce, Alone, Typed
<1>5. ASSUME Calm' PROVE CalmOnce'
  <2>1. KnowsRows(r)'
    BY <1>1, <1>2, <1>4, <1>5 DEF CalmOnce, KnowsRows, Leaves, At
  <2>2. Working' \subseteq {r}
    BY <1>1, <1>2, <1>4, <1>5, KeptRuns DEF Leaves, OthersKeep, Working
  <2>3. ASSUME NEW q \in Runner PROVE KnowsRows(q)'
    BY <2>1, <2>2 DEF KnowsRows
  <2>4. OnceEach'
    BY <1>2, <1>4, <1>5 DEF CalmOnce, OnceEach
  <2> QED
    BY <2>2, <2>3, <2>4 DEF CalmOnce, Alone
<1>6. ASSUME Calm', ~history'.cut PROVE UncutOnce'
  <2>1. UncutOnce /\ rows'[v] = 1 /\ Working \subseteq {r}
    BY <1>1, <1>2, <1>4, <1>6 DEF ReplayInv
  <2>2. ASSUME NEW u \in Version, NEW i \in 1..Statements, <<u, i>> \in executed
        PROVE  rows'[u] > 0
    <3>1. CASE rows[u] > 0
      BY <1>2, <2>1, <3>1
    <3>2. CASE \E q \in Runner : Sending(q, u, i)
      <4>1. Sending(r, u, i)
        BY <2>1, <3>2 DEF Sending, Working, At
      <4>2. u = v
        BY <1>1, <4>1, FirstIsOne DEF Sending
      <4> QED
        BY <2>1, <4>2
    <3> QED
      BY <2>1, <2>2, <3>1, <3>2 DEF UncutOnce, Accounted
  <2> QED
    BY <1>1, <2>1, <2>2 DEF UncutOnce, Accounted
<1> QED
  BY <1>1, <1>3, <1>5, <1>6, SendsFrame DEF OnceInv, ReplayInv, Leaves

LEMMA OnceInit == Init => OnceInv
<1> SUFFICES ASSUME Init PROVE OnceInv
  OBVIOUS
<1>1. /\ runs = [r \in Runner |-> NoRun] /\ executed = {} /\ history = NoHistory
      /\ rows = [v \in Version |-> 0]
  BY DEF Init
<1>2. Working = {} /\ \A r \in Runner : ~At(r, "apply")
  BY <1>1 DEF Working, NoRun, At
<1>3. CalmOnce
  BY <1>1, <1>2 DEF CalmOnce, Alone, OnceEach, KnowsRows
<1>4. UncutOnce
  BY <1>1 DEF UncutOnce, Accounted, NoHistory
<1> QED
  BY <1>2, <1>3, <1>4 DEF OnceInv, SendsUnknown

LEMMA OnceWipe == Wipe => OnceInv'
<1> SUFFICES ASSUME Wipe PROVE OnceInv'
  OBVIOUS
<1>1. /\ runs' = [r \in Runner |-> NoRun] /\ executed' = {} /\ history' = NoHistory
      /\ rows' = [v \in Version |-> 0]
  BY DEF Wipe
<1>2. Working' = {} /\ \A r \in Runner : ~At(r, "apply")'
  BY <1>1 DEF Working, NoRun, At
<1>3. CalmOnce'
  BY <1>1, <1>2 DEF CalmOnce, Alone, OnceEach, KnowsRows
<1>4. UncutOnce'
  BY <1>1 DEF UncutOnce, Accounted, NoHistory
<1> QED
  BY <1>2, <1>3, <1>4 DEF OnceInv, SendsUnknown

LEMMA ReplayNext == ReplayInv /\ [Next]_vars => ReplayInv'
<1> SUFFICES ASSUME ReplayInv, [Next]_vars PROVE OnceInv'
  BY DiskNext DEF ReplayInv, OnceInv
<1>1. CASE \/ Down \/ Up \/ (\E v \in Version : Add(v) \/ Remove(v)) \/ UNCHANGED vars
  <2>1. UNCHANGED <<runs, executed, rows, history>>
    BY <1>1 DEF Down, Up, Add, Remove, vars, disk, directory
  <2>2. \A q \in Runner : SendsUnknown(q)' /\ (CalmOnce => KnowsRows(q)')
    BY <2>1, KeptRuns DEF ReplayInv, CalmOnce
  <2>3. CalmOnce => CalmOnce'
    BY <2>1, <2>2 DEF CalmOnce, Alone, OnceEach, Working
  <2>4. UncutOnce => UncutOnce'
    BY <2>1 DEF UncutOnce, Accounted, Sending, At, First
  <2> QED
    BY <2>1, <2>2, <2>3, <2>4 DEF OnceInv, ReplayInv, Calm
<1>2. CASE Wipe
  BY <1>2, OnceWipe
<1>3. ASSUME NEW r \in Runner, Start(r) \/ Kill(r) PROVE OnceInv'
  BY <1>3, OnceStops
<1>4. ASSUME NEW r \in Runner, Attempt(r) PROVE OnceInv'
  BY <1>4, OnceStops, OnceRead, OnceLoop, OnceClash, OnceExecute, OnceRecord DEF Attempt
<1> QED
  BY <1>1, <1>2, <1>3, <1>4 DEF Next

\* A version has one row and is applied once, unless runners overlapped, an answer was lost
\* or, for the second, a run ended within the list of a file.
THEOREM ReplaysAreExplained == Spec => []ReplaysExplained
<1>1. Init => ReplayInv
  BY DiskInit, OnceInit DEF ReplayInv, OnceInv
<1>2. ReplayInv => ReplaysExplained
  BY DEF ReplayInv, Calm, CalmOnce, UncutOnce, OnceEach, ReplaysExplained
<1> QED
  BY <1>1, <1>2, ReplayNext, PTL DEF Spec

===============================================================================
