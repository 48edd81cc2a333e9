--------------------------- MODULE TopoEngineProofs ---------------------------
(***************************************************************************)
(* The engine keeps its rows complete, never takes a settled span out of   *)
(* them and implements TopoLedger, for any tenants, spans and bounds.      *)
(***************************************************************************)
EXTENDS TopoEngine, FiniteSetTheorems, TLAPS

-------------------------------------------------------------------------------
(* The tables: what a pass returns is typed, and what it must return for a *)
(* closed bucket does not change when more spans arrive.                   *)

\* A stored span has an arrival, which is not in the future.
ArrivalInv ==
  \A t \in Tenant, b \in Minute : \A s \in traces[t][b] :
    arrived[s] \in Minute /\ arrived[s] <= clock

\* What the code's pass returns has the type of rows: KeyOf never falls between its cases.
LEMMA SummaryType ==
  ASSUME TablesTypeOK, NEW p \in Pass, NEW t \in Tenant, NEW b \in Minute
  PROVE  Summary(p, t, b) \subseteq Entry
<1>1. SUFFICES ASSUME NEW s \in traces[t][b], Counts(p, t, s)
               PROVE  KeyOf(p, t, s) \in Key /\ s \in Span
  BY <1>1 DEF Summary, EntryOf, Entry
<1>2. s \in Span /\ Stored(t) \subseteq Span
  BY DEF TablesTypeOK, Stored
<1>3. CASE p = "services"
  BY <1>2, <1>3, TablesAssumption DEF KeyOf, Key
<1>4. CASE p = "edges" /\ CalledByOther(t, s)
  BY <1>2, <1>4, TablesAssumption DEF KeyOf, Key, CalledByOther
<1>5. CASE p = "edges" /\ ~CalledByOther(t, s)
  <2>1. PeerOf[s] \in Peer
    BY <1>1, <1>2, <1>5, TablesAssumption DEF Counts, CallsPeer
  <2>2. KeyOf(p, t, s) = [from |-> ServiceOf[s], to |-> PeerOf[s], kind |-> "external"]
    BY <1>5 DEF KeyOf
  <2> QED
    BY <1>2, <2>1, <2>2, TablesAssumption DEF Key
<1> QED
  BY <1>3, <1>4, <1>5 DEF Pass

\* A pass that reads the bucket now returns every settled span, each in one entry.
LEMMA SummarySettled ==
  ASSUME NEW p \in Pass, NEW t \in Tenant, NEW b \in Minute
  PROVE  /\ SettledSummary(p, t, b) \subseteq Summary(p, t, b)
         /\ {e.span : e \in Summary(p, t, b)} \subseteq traces[t][b]
         /\ \A e, f \in Summary(p, t, b) : e.span = f.span => e = f
<1>1. Settled(p, t, b) \subseteq traces[t][b]
  BY DEF Settled
<1>2. SettledSummary(p, t, b) \subseteq Summary(p, t, b)
  BY <1>1 DEF SettledSummary, Summary
<1>3. \A e \in Summary(p, t, b) : e.span \in traces[t][b] /\ e = EntryOf(p, t, e.span)
  BY DEF Summary, EntryOf
<1> QED
  BY <1>2, <1>3

\* A span that is stored does not touch the spans stored before.
LEMMA StoreKeeps ==
  ASSUME TablesTypeOK, ArrivalInv,
         NEW s \in Span, NEW t \in Tenant, NEW b \in Minute, Store(s, t, b)
  PROVE  /\ \A u \in Tenant, c \in Minute : \A r \in traces[u][c] :
              r # s /\ r \in traces'[u][c] /\ arrived'[r] = arrived[r]
         /\ \A u \in Tenant, c \in Minute : \A r \in traces'[u][c] :
              r # s => r \in traces[u][c]
         /\ arrived'[s] = clock
         /\ \A u \in Tenant : Stored(u) \subseteq Stored(u)'
         /\ \A u \in Tenant : \A r \in Stored(u)' : r # s => r \in Stored(u)
<1>1. \A u \in Tenant, c \in Minute : \A r \in traces[u][c] : r \in Span /\ r # s
  <2> SUFFICES ASSUME NEW u \in Tenant, NEW c \in Minute, NEW r \in traces[u][c]
               PROVE  r \in Span /\ r # s
    OBVIOUS
  <2>1. r \in Span
    BY DEF TablesTypeOK
  <2>2. arrived[r] \in 0..MaxClock /\ arrived[s] = -1
    BY DEF ArrivalInv, Store, None, Minute
  <2> QED
    BY <2>1, <2>2, TablesAssumption
<1>2. \A u \in Tenant, c \in Minute :
        traces'[u][c] = IF u = t /\ c = b THEN traces[u][c] \cup {s} ELSE traces[u][c]
  BY DEF TablesTypeOK, Store
<1>3. \A r \in Span : arrived'[r] = IF r = s THEN clock ELSE arrived[r]
  BY DEF TablesTypeOK, Store
<1>4. \A u \in Tenant, c \in Minute : traces[u][c] \subseteq traces'[u][c]
  BY <1>2
<1>5. \A u \in Tenant, c \in Minute : \A r \in traces'[u][c] : r # s => r \in traces[u][c]
  BY <1>2
<1>6. \A u \in Tenant : Stored(u) \subseteq Stored(u)'
  BY <1>4 DEF Stored
<1>7. \A u \in Tenant : \A r \in Stored(u)' : r # s => r \in Stored(u)
  BY <1>5 DEF Stored
<1> QED
  BY <1>1, <1>3, <1>4, <1>5, <1>6, <1>7

\* Spans that arrive do not change which spans of a closed bucket are settled, nor their rows.
LEMMA SettledStable ==
  ASSUME TablesTypeOK, ArrivalInv,
         NEW s \in Span, NEW t \in Tenant, NEW b \in Minute, Store(s, t, b),
         NEW p \in Pass, NEW u \in Tenant, NEW c \in Minute, c < clock
  PROVE  SettledSummary(p, u, c)' = SettledSummary(p, u, c)
<1>1. clock \in Int /\ c \in Int /\ Stored(u) \subseteq Span
  BY DEF TablesTypeOK, Minute, Stored
<1>2. \A r : StoredBy(u, r, c)' <=> StoredBy(u, r, c)
  <2> SUFFICES ASSUME NEW r PROVE StoredBy(u, r, c)' <=> StoredBy(u, r, c)
    OBVIOUS
  <2>1. \A q \in Stored(u) : q # s /\ arrived'[q] = arrived[q]
    BY StoreKeeps DEF Stored
  <2>2. CASE r = s
    <3>1. ~(arrived'[r] <= c) /\ r \notin Stored(u)
      BY <1>1, <2>1, <2>2, StoreKeeps
    <3> QED
      BY <3>1 DEF StoredBy
  <2>3. CASE r # s
    <3>1. r \in Stored(u)' <=> r \in Stored(u)
      BY <2>3, StoreKeeps
    <3> QED
      BY <2>1, <3>1 DEF StoredBy
  <2> QED
    BY <2>2, <2>3
<1>3. Settled(p, u, c)' = Settled(p, u, c)
  <2>1. \A r : (r \in traces'[u][c] /\ arrived'[r] <= c)
                 <=> (r \in traces[u][c] /\ arrived[r] <= c)
    BY <1>1, StoreKeeps
  <2> QED
    BY <1>2, <2>1 DEF Settled
<1>4. ASSUME NEW r \in Settled(p, u, c), p = "edges"
      PROVE  CalledByOther(u, r)' <=> CalledByOther(u, r)
  <2>1. CASE ParentOf[r] \notin Span
    <3>1. Stored(u)' \subseteq Span
      BY <1>1, StoreKeeps
    <3> QED
      BY <1>1, <2>1, <3>1, TablesAssumption DEF CalledByOther
  <2>2. CASE StoredBy(u, ParentOf[r], c)
    BY <2>2, StoreKeeps DEF StoredBy, CalledByOther
  <2> QED
    BY <1>4, <2>1, <2>2 DEF Settled
<1>5. \A r \in Settled(p, u, c) :
        (Counts(p, u, r)' <=> Counts(p, u, r)) /\ EntryOf(p, u, r)' = EntryOf(p, u, r)
  <2>1. CASE p = "services"
    BY <2>1 DEF Counts, CallsPeer, EntryOf, KeyOf
  <2>2. CASE p = "edges"
    BY <1>4, <2>2 DEF Counts, CallsPeer, EntryOf, KeyOf
  <2> QED
    BY <2>1, <2>2 DEF Pass
<1> QED
  BY <1>3, <1>5 DEF SettledSummary

\* What is settled depends on the stored spans only.
LEMMA SettledSame ==
  ASSUME UNCHANGED <<traces, arrived>>, NEW p \in Pass, NEW t \in Tenant, NEW b \in Minute
  PROVE  SettledSummary(p, t, b)' = SettledSummary(p, t, b)
BY DEF SettledSummary, Settled, StoredBy, Stored, Counts, CalledByOther, CallsPeer, EntryOf,
       KeyOf

\* A step leaves every settled entry that is in the rows in them.
KeepsSettled ==
  \A p \in Pass, t \in Tenant, b \in Minute :
    rows[p][t][b] \cap SettledSummary(p, t, b) \subseteq rows'[p][t][b]

\* The INSERT of a complete summary keeps the rows complete and takes nothing settled away.
LEMMA PublishKeeps ==
  ASSUME TablesTypeOK, RowsComplete,
         NEW p \in Pass, NEW t \in Tenant, NEW b \in Minute, NEW new,
         SettledSummary(p, t, b) \subseteq new,
         {e.span : e \in new} \subseteq traces[t][b],
         Publish(p, t, b, new)
  PROVE  RowsComplete' /\ KeepsSettled
<1>1. \A q \in Pass, u \in Tenant, c \in Minute :
        rows'[q][u][c] = IF q = p /\ u = t /\ c = b THEN Replacing(rows[p][t][b], new)
                                                   ELSE rows[q][u][c]
  BY DEF Publish, TablesTypeOK
<1>2. \A q \in Pass, u \in Tenant, c \in Minute :
        SettledSummary(q, u, c)' = SettledSummary(q, u, c) /\ traces'[u][c] = traces[u][c]
  BY SettledSame DEF Publish
<1>3. ASSUME NEW q \in Pass, NEW u \in Tenant, NEW c \in Minute
      PROVE  /\ {r.span : r \in rows'[q][u][c]} \subseteq traces'[u][c]
             /\ \A r \in rows'[q][u][c], e \in SettledSummary(q, u, c)' :
                  r.key = e.key => e \in rows'[q][u][c]
             /\ rows[q][u][c] \cap SettledSummary(q, u, c) \subseteq rows'[q][u][c]
  <2>1. CASE q = p /\ u = t /\ c = b
    <3>1. rows'[q][u][c] = Replacing(rows[q][u][c], new)
      BY <1>1, <2>1
    <3>2. new \subseteq rows'[q][u][c] /\ rows'[q][u][c] \subseteq rows[q][u][c] \cup new
      BY <3>1 DEF Replacing
    <3>3. \A r \in rows[q][u][c] \cup new : r.span \in traces[u][c]
      BY <2>1 DEF RowsComplete
    <3> QED
      BY <1>2, <2>1, <3>2, <3>3
  <2>2. CASE ~(q = p /\ u = t /\ c = b)
    BY <1>1, <1>2, <2>2 DEF RowsComplete
  <2> QED
    BY <2>1, <2>2
<1> QED
  BY <1>3 DEF RowsComplete, KeepsSettled

\* A span that is stored keeps the rows complete when no row describes an open minute.
LEMMA StoreComplete ==
  ASSUME TablesTypeOK, ArrivalInv, RowsComplete,
         \A p \in Pass, t \in Tenant, b \in Minute : rows[p][t][b] # {} => b < clock,
         NEW s \in Span, NEW t \in Tenant, NEW b \in Minute, Store(s, t, b)
  PROVE  RowsComplete' /\ ArrivalInv'
<1>1. rows' = rows /\ clock' = clock /\ clock \in Minute
  BY DEF Store, TablesTypeOK
<1>2. ASSUME NEW p \in Pass, NEW u \in Tenant, NEW c \in Minute, rows[p][u][c] # {}
      PROVE  SettledSummary(p, u, c)' = SettledSummary(p, u, c)
  BY <1>2, SettledStable
<1>3. RowsComplete'
  <2> SUFFICES ASSUME NEW p \in Pass, NEW u \in Tenant, NEW c \in Minute, rows[p][u][c] # {}
               PROVE  /\ {r.span : r \in rows'[p][u][c]} \subseteq traces'[u][c]
                      /\ \A r \in rows'[p][u][c], e \in SettledSummary(p, u, c)' :
                           r.key = e.key => e \in rows'[p][u][c]
    BY <1>1 DEF RowsComplete
  <2>1. traces[u][c] \subseteq traces'[u][c]
    BY StoreKeeps
  <2> QED
    BY <1>1, <1>2, <2>1 DEF RowsComplete
<1>4. ArrivalInv'
  <2> SUFFICES ASSUME NEW u \in Tenant, NEW c \in Minute, NEW r \in traces'[u][c]
               PROVE  arrived'[r] \in Minute /\ arrived'[r] <= clock
    BY <1>1 DEF ArrivalInv
  <2>1. CASE r = s
    BY <1>1, <2>1, StoreKeeps, TablesAssumption DEF Minute
  <2>2. CASE r # s
    BY <2>2, StoreKeeps DEF ArrivalInv
  <2> QED
    BY <2>1, <2>2
<1> QED
  BY <1>3, <1>4

-------------------------------------------------------------------------------
(* The invariant. *)

\* What the goroutines may be about to work on is closed.
Scheduled ==
  /\ catchup.pc \in {"last", "replay"} =>
       catchup.tenant \in Tenant /\ CatchupMax <= catchup.end /\ catchup.end < clock
  /\ ticker.pending # None => Origin <= ticker.pending /\ ticker.pending <= clock
  /\ run.todo # {} => run.bucket \in Minute /\ run.bucket < clock

\* A statement that has been evaluated holds all that is settled in its bucket.
Evaluated(j) ==
  /\ SettledSummary(j.pass, j.tenant, j.bucket) \subseteq j.seen
  /\ {e.span : e \in j.seen} \subseteq traces[j.tenant][j.bucket]
  /\ \A e, f \in j.seen : e.span = f.span => e = f

JobInv == \A j \in jobs : j.pc = "write" => Evaluated(j)

ScheduleInv == TypeOK /\ Scheduled /\ ClosedOnly
DataInv == ArrivalInv /\ JobInv /\ RowsComplete
Inv == ScheduleInv /\ DataInv

-------------------------------------------------------------------------------
(* Types, and nothing open is worked on. *)

\* A full catchup window fits before the first minute of the model.
LEMMA Constants ==
  /\ Origin \in Minute /\ Origin >= 1 /\ CatchupMax \in Nat /\ MaxClock \in Nat
  /\ \A m \in Minute : m \in Int /\ 0 <= m /\ m <= MaxClock
BY TablesAssumption, TopoAssumption DEF Origin, Minute

\* The states of the goroutines before the process runs are typed.
LEMMA NoneTypes ==
  /\ NoCatchup \in [pc : {"off", "list", "pick", "last", "replay", "done"},
                    todo : SUBSET Tenant, tenant : Tenant \cup {NoTenant},
                    next : 0..(MaxClock + 1), end : Minute]
  /\ NoTicker \in [at : Minute \cup {None}, pending : Minute \cup {None}]
  /\ NoRun \in [bucket : Minute \cup {None}, todo : SUBSET Tenant]
BY Constants DEF NoCatchup, NoTicker, NoRun, Minute

\* At the start nothing is scheduled.
LEMMA InitSchedule == Init => ScheduleInv
<1> SUFFICES ASSUME Init PROVE ScheduleInv
  OBVIOUS
<1> USE Constants, TopoAssumption
<1>1. TablesTypeOK
  BY DEF Init, TablesTypeOK, EmptyTables, Entry, Pass
<1>2. catchup = NoCatchup /\ ticker = NoTicker /\ run = NoRun /\ jobs = {}
  BY DEF Init
<1>3. TypeOK
  <2>1. Origin \in Origin..MaxClock
    BY DEF Minute
  <2>3. up \in BOOLEAN /\ ready \in BOOLEAN
    BY DEF Init
  <2>4. faults \in 0..MaxFault /\ crashes \in 0..MaxCrash /\ lost = {}
    BY DEF Init
  <2>6. overran \in BOOLEAN
    BY DEF Init
  <2>5. clock >= Origin /\ boot \in Origin..MaxClock
    BY <2>1 DEF Init
  <2> QED
    BY <1>1, <1>2, NoneTypes, <2>3, <2>4, <2>5, <2>6 DEF TypeOK
<1>4. Scheduled
  BY <1>2 DEF Scheduled, NoCatchup, NoTicker, NoRun
<1>5. ClosedOnly
  BY <1>2 DEF Init, ClosedOnly, EmptyTables
<1> QED
  BY <1>3, <1>4, <1>5 DEF ScheduleInv

\* A new call of RunOnce is typed.
LEMMA NewJobType ==
  ASSUME NEW src \in Source, NEW t \in Tenant, NEW b \in Minute
  PROVE  NewJob(src, t, b) \in Job /\ NewJob(src, t, b).pc = "read"
         /\ NewJob(src, t, b).bucket = b
BY DEF NewJob, Job, Pass

\* The second pass of a call is typed and works on the bucket of the first.
LEMMA AfterPassType ==
  ASSUME NEW j \in Job
  PROVE  \A k \in AfterPass(j) : k \in Job /\ k.pc = "read" /\ k.bucket = j.bucket
BY DEF AfterPass, Job, Pass

\* Passes that are given up are passes.
LEMMA MissingType ==
  ASSUME NEW S, S \subseteq Pass \X Tenant \X Minute
  PROVE  Missing(S) \subseteq Pass \X Tenant \X Minute
BY DEF Missing

\* So are those of a window, or of one bucket, that could not be worked on.
LEMMA LostType ==
  ASSUME TypeOK
  PROVE  /\ lost \cup Missing(Pass \X Tenant \X Window) \subseteq Pass \X Tenant \X Minute
         /\ \A b \in Minute :
              lost \cup Missing(Pass \X Tenant \X {b}) \subseteq Pass \X Tenant \X Minute
<1>1. Window \subseteq Minute
  BY Constants DEF Window, ClosedBucketAt, TypeOK, TablesTypeOK, Origin, Minute
<1>2. Pass \X Tenant \X Window \subseteq Pass \X Tenant \X Minute
  BY <1>1
<1>3. \A b \in Minute : Pass \X Tenant \X {b} \subseteq Pass \X Tenant \X Minute
  OBVIOUS
<1>4. lost \subseteq Pass \X Tenant \X Minute
  BY DEF TypeOK
<1> QED
  BY <1>2, <1>3, <1>4, MissingType

\* Steps that leave the tables and the jobs alone.
LEMMA ControlSchedule ==
  ASSUME ScheduleInv, UNCHANGED <<clock, tables, jobs>>,
         Scheduled',
         up' \in BOOLEAN, ready' \in BOOLEAN, boot' \in Origin..MaxClock,
         catchup' \in [pc : {"off", "list", "pick", "last", "replay", "done"},
                       todo : SUBSET Tenant, tenant : Tenant \cup {NoTenant},
                       next : 0..(MaxClock + 1), end : Minute],
         ticker' \in [at : Minute \cup {None}, pending : Minute \cup {None}],
         run' \in [bucket : Minute \cup {None}, todo : SUBSET Tenant],
         faults' \in 0..MaxFault, crashes' \in 0..MaxCrash, overran' \in BOOLEAN,
         lost' \subseteq Pass \X Tenant \X Minute
  PROVE  ScheduleInv'
BY DEF ScheduleInv, TypeOK, TablesTypeOK, ClosedOnly, tables

\* A step of Catchup picks, replays or leaves buckets that have closed.
LEMMA CatchupSchedule == ScheduleInv /\ [CatchupStep]_vars => ScheduleInv'
<1> SUFFICES ASSUME ScheduleInv, [CatchupStep]_vars PROVE ScheduleInv'
  OBVIOUS
<1> USE Constants, TopoAssumption
<1>1. CASE UNCHANGED vars
  BY <1>1, ControlSchedule DEF ScheduleInv, TypeOK, Scheduled, vars, tables
<1>2. CASE CatchupList
  BY <1>2, ControlSchedule DEF CatchupList, ScheduleInv, TypeOK, Scheduled, tables, budgets
<1>3. CASE CatchupListFails
  <2>1. lost' \subseteq Pass \X Tenant \X Minute
    BY <1>3, LostType DEF CatchupListFails, ScheduleInv
  <2>2. /\ catchup' = [catchup EXCEPT !.pc = "done"] /\ ready' = TRUE
        /\ faults < MaxFault /\ faults' = faults + 1
        /\ UNCHANGED <<clock, tables, up, boot, ticker, run, jobs, crashes, overran>>
    BY <1>3 DEF CatchupListFails
  <2> QED
    BY <2>1, <2>2, ControlSchedule DEF ScheduleInv, TypeOK, Scheduled, tables
<1>4. ASSUME NEW t \in Tenant, CatchupNow(t) PROVE ScheduleInv'
  <2>1. ClosedBucketAt(clock) \in Minute /\ CatchupMax <= ClosedBucketAt(clock)
        /\ ClosedBucketAt(clock) < clock
    BY DEF ScheduleInv, TypeOK, TablesTypeOK, ClosedBucketAt, Origin, Minute
  <2> QED
    BY <1>4, <2>1, ControlSchedule
    DEF CatchupNow, ScheduleInv, TypeOK, Scheduled, tables, budgets
<1>5. CASE CatchupLast
  <2>1. PICK last \in LastCompleted(catchup.tenant) \cup {None} :
          catchup' = [catchup EXCEPT !.pc = "replay", !.next = ReplayStart(last, catchup.end)]
    BY <1>5 DEF CatchupLast
  <2>2. /\ last \in Minute \cup {-1} /\ catchup.end \in Minute /\ catchup.tenant \in Tenant
        /\ CatchupMax <= catchup.end /\ catchup.end < clock
    BY <1>5 DEF LastCompleted, CatchupLast, ScheduleInv, TypeOK, Scheduled, None
  <2>3. ReplayStart(last, catchup.end) \in 0..(MaxClock + 1)
    BY <2>2 DEF ReplayStart, Minute, None
  <2> QED
    BY <1>5, <2>1, <2>2, <2>3, ControlSchedule
    DEF CatchupLast, ScheduleInv, TypeOK, Scheduled, tables, budgets
<1>6. CASE CatchupReplay
  <2>1. /\ catchup.next \in 0..(MaxClock + 1) /\ catchup.end \in Minute
        /\ catchup.tenant \in Tenant /\ catchup.end < clock /\ clock \in Minute
    BY <1>6 DEF CatchupReplay, ScheduleInv, TypeOK, TablesTypeOK, Scheduled
  <2>2. /\ catchup.next \in Minute /\ catchup.next < clock
        /\ catchup.next + 1 \in 0..(MaxClock + 1)
    BY <1>6, <2>1 DEF CatchupReplay, Minute
  <2>3. NewJob("catchup", catchup.tenant, catchup.next) \in Job
        /\ NewJob("catchup", catchup.tenant, catchup.next).bucket < clock
    BY <2>1, <2>2, NewJobType DEF Source
  <2>4. TypeOK'
    BY <1>6, <2>2, <2>3
    DEF CatchupReplay, ScheduleInv, TypeOK, TablesTypeOK, tables, budgets
  <2>5. Scheduled'
    BY <1>6, <2>1 DEF CatchupReplay, ScheduleInv, Scheduled, TypeOK
  <2>6. ClosedOnly'
    BY <1>6, <2>3 DEF CatchupReplay, ScheduleInv, ClosedOnly, tables
  <2> QED
    BY <2>4, <2>5, <2>6 DEF ScheduleInv
<1>7. CASE CatchupTenantDone
  BY <1>7, ControlSchedule DEF CatchupTenantDone, ScheduleInv, TypeOK, Scheduled, tables, budgets
<1>8. CASE CatchupDone
  BY <1>8, ControlSchedule DEF CatchupDone, ScheduleInv, TypeOK, Scheduled, tables, budgets
<1> QED
  BY <1>1, <1>2, <1>3, <1>4, <1>5, <1>6, <1>7, <1>8 DEF CatchupStep

\* A step of the tick loop works on the minute before its tick.
LEMMA TickSchedule == ScheduleInv /\ TickStep => ScheduleInv'
<1> SUFFICES ASSUME ScheduleInv, TickStep PROVE ScheduleInv'
  OBVIOUS
<1> USE Constants, TopoAssumption
<1>1. CASE TickReceive
  <2>1. ticker.pending \in Minute /\ Origin <= ticker.pending /\ ticker.pending <= clock
    BY <1>1 DEF TickReceive, ScheduleInv, TypeOK, Scheduled
  <2>2. ClosedBucketAt(ticker.pending) \in Minute /\ ClosedBucketAt(ticker.pending) < clock
    BY <2>1 DEF ClosedBucketAt, ScheduleInv, TypeOK, TablesTypeOK, Minute
  <2> QED
    BY <1>1, <2>2, ControlSchedule
    DEF TickReceive, ScheduleInv, TypeOK, Scheduled, tables, budgets, NoRun
<1>2. CASE TickListFails
  <2>1. ticker.pending \in Minute /\ Origin <= ticker.pending
    BY <1>2 DEF TickListFails, ScheduleInv, TypeOK, Scheduled
  <2>2. ClosedBucketAt(ticker.pending) \in Minute
    BY <2>1 DEF ClosedBucketAt, Minute
  <2>3. lost' \subseteq Pass \X Tenant \X Minute
    BY <1>2, <2>2, LostType DEF TickListFails, ScheduleInv
  <2>4. /\ ticker' = [ticker EXCEPT !.pending = None]
        /\ faults < MaxFault /\ faults' = faults + 1
        /\ UNCHANGED <<clock, tables, up, boot, catchup, ready, run, jobs, crashes, overran>>
    BY <1>2 DEF TickListFails
  <2> QED
    BY <2>3, <2>4, ControlSchedule DEF ScheduleInv, TypeOK, Scheduled, tables
<1>3. ASSUME NEW t \in Tenant, TickSpawn(t) PROVE ScheduleInv'
  <2>1. run.bucket \in Minute /\ run.bucket < clock
    BY <1>3 DEF TickSpawn, ScheduleInv, Scheduled
  <2>2. NewJob("tick", t, run.bucket) \in Job /\ NewJob("tick", t, run.bucket).bucket < clock
    BY <2>1, NewJobType DEF Source
  <2>3. TypeOK'
    BY <1>3, <2>2 DEF TickSpawn, ScheduleInv, TypeOK, TablesTypeOK, tables, budgets
  <2>4. Scheduled'
    BY <1>3, <2>1 DEF TickSpawn, ScheduleInv, Scheduled, TypeOK
  <2>5. ClosedOnly'
    BY <1>3, <2>2 DEF TickSpawn, ScheduleInv, ClosedOnly, tables
  <2> QED
    BY <2>3, <2>4, <2>5 DEF ScheduleInv
<1>4. CASE TickWait
  BY <1>4, ControlSchedule
  DEF TickWait, ScheduleInv, TypeOK, Scheduled, tables, budgets, NoRun
<1> QED
  BY <1>1, <1>2, <1>3, <1>4 DEF TickStep

\* A pass replaces its job by jobs of the same bucket.
LEMMA JobSchedule ==
  ASSUME ScheduleInv, NEW src \in Source, JobStep(src)
  PROVE  ScheduleInv'
<1> USE Constants, TopoAssumption
<1>1. PICK j \in jobs : ReadPass(j) \/ WritePass(j) \/ FailPass(j)
  BY DEF JobStep, JobsOf
<1>2. j \in Job /\ j.bucket < clock /\ j.bucket \in Minute
  BY DEF ScheduleInv, TypeOK, ClosedOnly, Job
<1>3. Scheduled'
  BY <1>1 DEF ReadPass, WritePass, FailPass, Publish, ScheduleInv, Scheduled, engine
<1>4. CASE ReadPass(j)
  <2>1. Summary(j.pass, j.tenant, j.bucket) \subseteq Entry
    BY <1>2, SummaryType DEF ScheduleInv, TypeOK, Job
  <2>2. [j EXCEPT !.pc = "write", !.seen = Summary(j.pass, j.tenant, j.bucket)] \in Job
    BY <1>2, <2>1 DEF Job
  <2>3. TypeOK'
    BY <1>4, <2>2
    DEF ReadPass, ScheduleInv, TypeOK, TablesTypeOK, tables, engine, budgets
  <2>4. [j EXCEPT !.pc = "write", !.seen = Summary(j.pass, j.tenant, j.bucket)].bucket = j.bucket
    BY <1>2 DEF Job
  <2>5. ClosedOnly'
    BY <1>2, <1>4, <2>4 DEF ReadPass, ScheduleInv, ClosedOnly, tables
  <2> QED
    BY <1>3, <2>3, <2>5 DEF ScheduleInv
<1>5. CASE WritePass(j)
  <2>1. rows' \in [Pass -> [Tenant -> [Minute -> SUBSET Entry]]]
    BY <1>2, <1>5
    DEF WritePass, Publish, Replacing, Job, ScheduleInv, TypeOK, TablesTypeOK
  <2>2. jobs' \subseteq Job /\ \A k \in jobs' : k.bucket < clock
    BY <1>2, <1>5, AfterPassType DEF WritePass, ScheduleInv, TypeOK, ClosedOnly
  <2>3. TypeOK'
    BY <1>5, <2>1, <2>2
    DEF WritePass, Publish, ScheduleInv, TypeOK, TablesTypeOK, engine, budgets
  <2>4. \A p \in Pass, t \in Tenant, b \in Minute : b # j.bucket => rows'[p][t][b] = rows[p][t][b]
    BY <1>2, <1>5 DEF WritePass, Publish, Job, ScheduleInv, TypeOK, TablesTypeOK
  <2>5. ClosedOnly'
    BY <1>2, <1>5, <2>2, <2>4 DEF WritePass, Publish, ScheduleInv, ClosedOnly
  <2> QED
    BY <1>3, <2>3, <2>5 DEF ScheduleInv
<1>6. CASE FailPass(j)
  <2>1. jobs' \subseteq Job /\ \A k \in jobs' : k.bucket < clock
    BY <1>2, <1>6, AfterPassType DEF FailPass, ScheduleInv, TypeOK, ClosedOnly
  <2>4. {j.pass} \X {j.tenant} \X {j.bucket} \subseteq Pass \X Tenant \X Minute
    BY <1>2 DEF Job
  <2>5. lost' \subseteq Pass \X Tenant \X Minute
    BY <1>6, <2>4, MissingType DEF FailPass, ScheduleInv, TypeOK
  <2>6. /\ faults < MaxFault /\ faults' = faults + 1
        /\ UNCHANGED <<clock, tables, engine, crashes, overran>>
    BY <1>6 DEF FailPass
  <2>2. TypeOK'
    BY <2>1, <2>5, <2>6 DEF ScheduleInv, TypeOK, TablesTypeOK, tables, engine
  <2>3. ClosedOnly'
    BY <1>6, <2>1 DEF FailPass, ScheduleInv, ClosedOnly, tables
  <2> QED
    BY <1>3, <2>2, <2>3 DEF ScheduleInv
<1> QED
  BY <1>1, <1>4, <1>5, <1>6

\* No step types a variable wrongly or makes an open minute the work of a goroutine.
LEMMA NextSchedule == ScheduleInv /\ [Next]_vars => ScheduleInv'
<1> SUFFICES ASSUME ScheduleInv, [Next]_vars PROVE ScheduleInv'
  OBVIOUS
<1> USE Constants, TopoAssumption
<1>1. CASE UNCHANGED vars
  BY <1>1, CatchupSchedule
<1>2. ASSUME NEW s \in Span, NEW t \in Tenant, NEW b \in Minute, Arrive(s, t, b)
      PROVE  ScheduleInv'
  <2>1. TablesTypeOK'
    BY <1>2 DEF Arrive, Store, ScheduleInv, TypeOK, TablesTypeOK
  <2>2. TypeOK'
    BY <1>2, <2>1 DEF Arrive, Store, ScheduleInv, TypeOK, engine, budgets
  <2> QED
    BY <1>2, <2>2 DEF Arrive, Store, ScheduleInv, Scheduled, ClosedOnly, engine
<1>3. CASE AdvanceMinute
  <2>1. clock + 1 \in Minute /\ clock \in Minute /\ clock >= Origin
    BY <1>3 DEF AdvanceMinute, ScheduleInv, TypeOK, TablesTypeOK, Minute
  <2>2. TypeOK'
    BY <1>3, <2>1
    DEF AdvanceMinute, ScheduleInv, TypeOK, TablesTypeOK, tables, engine, budgets
  <2>3. Scheduled'
    BY <1>3, <2>1 DEF AdvanceMinute, ScheduleInv, TypeOK, Scheduled, engine, None
  <2>4. ClosedOnly'
    <3>1. \A j \in jobs : j.bucket \in Minute
      BY DEF ScheduleInv, TypeOK, Job
    <3> QED
      BY <1>3, <2>1, <3>1 DEF AdvanceMinute, ScheduleInv, ClosedOnly, tables
  <2> QED
    BY <2>2, <2>3, <2>4 DEF ScheduleInv
<1>4. CASE Boot
  <2>1. clock \in Origin..MaxClock
    BY DEF ScheduleInv, TypeOK, TablesTypeOK, Minute
  <2> QED
    BY <1>4, <2>1, ControlSchedule
    DEF Boot, NoCatchup, ScheduleInv, TypeOK, Scheduled, tables, budgets, Minute
<1>5. CASE Stop
  <2>1. TypeOK'
    <3>1. up' \in BOOLEAN /\ ready' \in BOOLEAN
      BY <1>5 DEF Stop
    <3>2. faults' \in 0..MaxFault /\ crashes' \in 0..MaxCrash /\ overran' \in BOOLEAN
      BY <1>5 DEF Stop, ScheduleInv, TypeOK
    <3>4. {<<j.pass, j.tenant, j.bucket>> : j \in {k \in jobs : k.pass = "services"}}
            \subseteq Pass \X Tenant \X Minute
      BY DEF ScheduleInv, TypeOK, Job
    <3>5. lost' \subseteq Pass \X Tenant \X Minute
      BY <1>5, <3>4, MissingType DEF Stop, ScheduleInv, TypeOK
    <3>3. /\ catchup' = NoCatchup /\ ticker' = NoTicker /\ run' = NoRun /\ jobs' = {}
          /\ UNCHANGED <<clock, traces, arrived, rows, boot>>
      BY <1>5 DEF Stop, tables
    <3> QED
      BY <3>1, <3>2, <3>3, <3>5, NoneTypes DEF ScheduleInv, TypeOK, TablesTypeOK
  <2>2. Scheduled'
    BY <1>5 DEF Stop, Scheduled, NoCatchup, NoTicker, NoRun
  <2>3. ClosedOnly'
    BY <1>5 DEF Stop, ScheduleInv, ClosedOnly, tables
  <2> QED
    BY <2>1, <2>2, <2>3 DEF ScheduleInv
<1>6. CASE Horizon
  BY <1>6, CatchupSchedule DEF Horizon
<1>7. CASE CatchupStep
  BY <1>7, CatchupSchedule
<1>8. CASE StartTicker
  <2>1. clock \in Minute
    BY DEF ScheduleInv, TypeOK, TablesTypeOK
  <2> QED
    BY <1>8, <2>1, ControlSchedule
    DEF StartTicker, ScheduleInv, TypeOK, Scheduled, tables, budgets
<1>9. CASE FireTicker
  <2>1. clock \in Minute /\ Origin <= clock
    BY DEF ScheduleInv, TypeOK, TablesTypeOK
  <2> QED
    BY <1>9, <2>1, ControlSchedule
    DEF FireTicker, ScheduleInv, TypeOK, Scheduled, tables, budgets
<1>10. CASE TickStep
  BY <1>10, TickSchedule
<1>11. ASSUME NEW src \in Source, JobStep(src) PROVE ScheduleInv'
  BY <1>11, JobSchedule
<1> QED
  BY <1>1, <1>2, <1>3, <1>4, <1>5, <1>6, <1>7, <1>8, <1>9, <1>10, <1>11 DEF Next

-------------------------------------------------------------------------------
(* The data of the jobs and the rows. *)

\* Steps that leave the tables alone and evaluate no statement keep the data.
LEMMA DataUnchanged ==
  ASSUME DataInv, UNCHANGED tables, clock' \in Int, clock' >= clock, TypeOK,
         \A j \in jobs' : j \in jobs \/ j.pc = "read"
  PROVE  DataInv' /\ KeepsSettled
<1>1. jobs \subseteq Job /\ clock \in Int
  BY DEF TypeOK, TablesTypeOK, Minute
<1>2. \A p \in Pass, t \in Tenant, b \in Minute :
        SettledSummary(p, t, b)' = SettledSummary(p, t, b)
  BY SettledSame DEF tables
<1>3. JobInv'
  <2> SUFFICES ASSUME NEW j \in jobs', j.pc = "write" PROVE Evaluated(j)'
    BY DEF JobInv
  <2>1. j \in jobs /\ j \in Job /\ Evaluated(j)
    BY <1>1 DEF DataInv, JobInv
  <2> QED
    BY <1>2, <2>1 DEF Evaluated, Job, tables
<1>4. RowsComplete' /\ KeepsSettled
  BY <1>2 DEF DataInv, RowsComplete, KeepsSettled, tables
<1>5. ArrivalInv'
  BY <1>1, Constants DEF DataInv, ArrivalInv, tables
<1> QED
  BY <1>3, <1>4, <1>5 DEF DataInv

\* A pass that reads, writes or fails keeps the rows complete: what it publishes holds all
\* that is settled in its bucket.
LEMMA JobData ==
  ASSUME ScheduleInv, DataInv, NEW src \in Source, JobStep(src)
  PROVE  DataInv' /\ KeepsSettled
<1>1. PICK j \in jobs : ReadPass(j) \/ WritePass(j) \/ FailPass(j)
  BY DEF JobStep, JobsOf
<1>2. j \in Job /\ jobs \subseteq Job /\ TypeOK /\ TablesTypeOK /\ clock \in Int
  BY DEF ScheduleInv, TypeOK, TablesTypeOK, Minute
<1>3. j.pass \in Pass /\ j.tenant \in Tenant /\ j.bucket \in Minute
  BY <1>2 DEF Job
<1>4. \A k \in AfterPass(j) : k.pc = "read"
  BY <1>2, AfterPassType
<1>5. CASE ReadPass(j)
  <2>0. PICK k : k = [j EXCEPT !.pc = "write", !.seen = Summary(j.pass, j.tenant, j.bucket)]
    OBVIOUS
  <2>1. \A p \in Pass, t \in Tenant, b \in Minute :
          SettledSummary(p, t, b)' = SettledSummary(p, t, b)
    BY <1>5, SettledSame DEF ReadPass, tables
  <2>2. /\ k.pass = j.pass /\ k.tenant = j.tenant /\ k.bucket = j.bucket
        /\ k.seen = Summary(j.pass, j.tenant, j.bucket)
    BY <1>2, <2>0 DEF Job
  <2>3. Evaluated(k)'
    BY <1>3, <1>5, <2>1, <2>2, SummarySettled DEF Evaluated, ReadPass, tables
  <2>4. ASSUME NEW i \in jobs, i.pc = "write" PROVE Evaluated(i)'
    BY <1>2, <1>5, <2>1, <2>4 DEF DataInv, JobInv, Evaluated, Job, ReadPass, tables
  <2>5. JobInv'
    BY <1>5, <2>0, <2>3, <2>4 DEF JobInv, ReadPass
  <2>6. RowsComplete' /\ ArrivalInv' /\ KeepsSettled
    BY <1>5, <2>1 DEF DataInv, RowsComplete, ArrivalInv, KeepsSettled, ReadPass, tables
  <2> QED
    BY <2>5, <2>6 DEF DataInv
<1>6. CASE WritePass(j)
  <2>1. Evaluated(j) /\ Publish(j.pass, j.tenant, j.bucket, j.seen)
    BY <1>6 DEF WritePass, DataInv, JobInv
  <2>2. RowsComplete' /\ KeepsSettled
    BY <1>2, <1>3, <2>1, PublishKeeps DEF Evaluated, DataInv
  <2>3. \A p \in Pass, t \in Tenant, b \in Minute :
          SettledSummary(p, t, b)' = SettledSummary(p, t, b)
    BY <2>1, SettledSame DEF Publish
  <2>4. ASSUME NEW i \in jobs', i.pc = "write" PROVE Evaluated(i)'
    <3>1. i \in jobs /\ Evaluated(i)
      BY <1>4, <1>6, <2>4 DEF WritePass, DataInv, JobInv
    <3> QED
      BY <1>2, <2>1, <2>3, <3>1 DEF Evaluated, Job, Publish
  <2>5. ArrivalInv'
    BY <2>1 DEF Publish, DataInv, ArrivalInv
  <2> QED
    BY <2>2, <2>4, <2>5 DEF DataInv, JobInv
<1>7. CASE FailPass(j)
  <2>1. UNCHANGED tables /\ clock' = clock /\ \A i \in jobs' : i \in jobs \/ i.pc = "read"
    BY <1>4, <1>7 DEF FailPass
  <2> QED
    BY <1>2, <2>1, DataUnchanged
<1> QED
  BY <1>1, <1>5, <1>6, <1>7

\* A span that arrives late is settled in no bucket that has closed, so no row misses it.
LEMMA ArriveData ==
  ASSUME ScheduleInv, DataInv, NEW s \in Span, NEW t \in Tenant, NEW b \in Minute,
         Arrive(s, t, b)
  PROVE  DataInv' /\ KeepsSettled
<1>1. TablesTypeOK /\ ArrivalInv /\ RowsComplete /\ Store(s, t, b) /\ jobs' = jobs /\ rows' = rows
  BY DEF ScheduleInv, TypeOK, DataInv, Arrive, Store
<1>2. RowsComplete' /\ ArrivalInv'
  BY <1>1, StoreComplete DEF ScheduleInv, ClosedOnly
<1>3. ASSUME NEW j \in jobs, j.pc = "write" PROVE Evaluated(j)'
  <2>1. /\ j.pass \in Pass /\ j.tenant \in Tenant /\ j.bucket \in Minute /\ j.bucket < clock
        /\ Evaluated(j)
    BY <1>3 DEF ScheduleInv, TypeOK, ClosedOnly, Job, DataInv, JobInv
  <2>2. SettledSummary(j.pass, j.tenant, j.bucket)' = SettledSummary(j.pass, j.tenant, j.bucket)
    BY <1>1, <2>1, SettledStable
  <2>3. traces[j.tenant][j.bucket] \subseteq traces'[j.tenant][j.bucket]
    BY <1>1, <2>1, StoreKeeps
  <2> QED
    BY <2>1, <2>2, <2>3 DEF Evaluated
<1>4. KeepsSettled
  BY <1>1 DEF KeepsSettled
<1> QED
  BY <1>1, <1>2, <1>3, <1>4 DEF DataInv, JobInv

\* Every step keeps the rows complete and the evaluated statements valid.
LEMMA NextData ==
  ASSUME ScheduleInv, DataInv, [Next]_vars
  PROVE  DataInv' /\ KeepsSettled
<1>1. TypeOK /\ clock \in Int /\ Source = {"catchup", "tick"}
  BY DEF ScheduleInv, TypeOK, TablesTypeOK, Minute, Source
<1>2. ASSUME NEW s \in Span, NEW t \in Tenant, NEW b \in Minute, Arrive(s, t, b)
      PROVE  DataInv' /\ KeepsSettled
  BY <1>2, ArriveData
<1>3. ASSUME NEW src \in Source, JobStep(src) PROVE DataInv' /\ KeepsSettled
  BY <1>3, JobData
<1>4. CASE \/ UNCHANGED vars \/ AdvanceMinute \/ Boot \/ Stop \/ Horizon \/ CatchupStep
           \/ StartTicker \/ FireTicker \/ TickStep
  <2>1. UNCHANGED tables
    BY <1>4 DEF vars, AdvanceMinute, Boot, Stop, Horizon, CatchupStep, CatchupList,
                CatchupListFails, CatchupNow, CatchupLast, CatchupReplay, CatchupTenantDone,
                CatchupDone, StartTicker, FireTicker, TickStep, TickReceive, TickListFails,
                TickSpawn, TickWait, tables
  <2>2. clock' = clock \/ clock' = clock + 1
    BY <1>4 DEF vars, AdvanceMinute, Boot, Stop, Horizon, CatchupStep, CatchupList,
                CatchupListFails, CatchupNow, CatchupLast, CatchupReplay, CatchupTenantDone,
                CatchupDone, StartTicker, FireTicker, TickStep, TickReceive, TickListFails,
                TickSpawn, TickWait
  <2>3. \A j \in jobs' : j \in jobs \/ j.pc = "read"
    <3>1. CASE \/ UNCHANGED vars \/ AdvanceMinute \/ Boot \/ Stop \/ Horizon
               \/ StartTicker \/ FireTicker
      BY <3>1 DEF vars, AdvanceMinute, Boot, Stop, Horizon, StartTicker, FireTicker
    <3>2. CASE CatchupStep
      <4>1. CASE CatchupReplay
        <5>1. NewJob("catchup", catchup.tenant, catchup.next).pc = "read"
          BY DEF NewJob
        <5> QED
          BY <4>1, <5>1 DEF CatchupReplay
      <4>2. CASE ~CatchupReplay
        BY <3>2, <4>2 DEF CatchupStep, CatchupList, CatchupListFails, CatchupNow, CatchupLast,
                          CatchupTenantDone, CatchupDone
      <4> QED
        BY <4>1, <4>2
    <3>3. CASE TickStep
      BY <3>3 DEF TickStep, TickReceive, TickListFails, TickSpawn, TickWait, NewJob
    <3> QED
      BY <1>4, <3>1, <3>2, <3>3
  <2> QED
    BY <1>1, <2>1, <2>2, <2>3, DataUnchanged
<1> QED
  BY <1>2, <1>3, <1>4 DEF Next

-------------------------------------------------------------------------------
(* The statements in flight. *)

\* A job of the tick loop keeps the round it belongs to from being forgotten.
WorkInv == IsFiniteSet(jobs) /\ WorkBounded

\* One more element is one more at most.
LEMMA AddedCardinality ==
  ASSUME NEW S, NEW x, IsFiniteSet(S)
  PROVE  Cardinality(S \cup {x}) \in Nat /\ Cardinality(S \cup {x}) <= Cardinality(S) + 1
<1>1. Cardinality(S) \in Nat
  BY FS_CardinalityType
<1>2. Cardinality(S \cup {x}) = IF x \in S THEN Cardinality(S) ELSE Cardinality(S) + 1
  BY FS_AddElement
<1> QED
  BY <1>1, <1>2

\* A pass that ends leaves its place to the other pass of the same call, or to nothing.
LEMMA ReplacedWork ==
  ASSUME ScheduleInv, WorkInv, NEW j \in jobs, NEW K, jobs' = (jobs \ {j}) \cup K, run' = run,
         \A k \in K : k.src = j.src /\ k.tenant = j.tenant /\ k.bucket = j.bucket,
         K = {} \/ \E k : K = {k}
  PROVE  WorkInv'
<1> DEFINE T == JobsOf("tick")
           R == T \ {j}
<1>1. IsFiniteSet(jobs) /\ IsFiniteSet(jobs \ {j})
  BY FS_RemoveElement DEF WorkInv
<1>0. IsFiniteSet(K)
  BY FS_EmptySet, FS_Singleton
<1>2. IsFiniteSet(jobs')
  BY <1>0, <1>1, FS_Union
<1>3. IsFiniteSet(T) /\ Cardinality(T) \in Nat /\ Cardinality(T) <= TenantConcurrency
  BY <1>1, FS_Subset, FS_CardinalityType DEF WorkInv, WorkBounded, JobsOf
<1>4. IsFiniteSet(R) /\ Cardinality(R) \in Nat
      /\ Cardinality(R) = IF j \in T THEN Cardinality(T) - 1 ELSE Cardinality(T)
  BY <1>3, FS_RemoveElement, FS_CardinalityType
<1> TenantConcurrency \in Nat
  BY TopoAssumption
<1> HIDE DEF T, R
<1>5. Cardinality(JobsOf("tick")') <= TenantConcurrency
  <2>1. CASE K = {}
    <3>1. JobsOf("tick")' = R
      BY <2>1 DEF JobsOf, R, T
    <3>2. Cardinality(R) <= TenantConcurrency
      BY <1>3, <1>4
    <3> QED
      BY <3>1, <3>2
  <2>2. ASSUME NEW k, K = {k} PROVE Cardinality(JobsOf("tick")') <= TenantConcurrency
    <3>1. CASE j.src = "tick"
      <4>1. JobsOf("tick")' = R \cup {k} /\ j \in T
        BY <2>2, <3>1 DEF JobsOf, R, T
      <4>2. Cardinality(R \cup {k}) \in Nat /\ Cardinality(R \cup {k}) <= Cardinality(R) + 1
        BY <1>4, AddedCardinality
      <4>3. Cardinality(R) = Cardinality(T) - 1
        BY <1>4, <4>1
      <4>4. Cardinality(R \cup {k}) <= TenantConcurrency
        BY <1>3, <1>4, <4>2, <4>3
      <4> QED
        BY <4>1, <4>4
    <3>2. CASE j.src # "tick"
      <4>1. JobsOf("tick")' = T
        BY <2>2, <3>2 DEF JobsOf, T
      <4> QED
        BY <1>3, <4>1
    <3> QED
      BY <3>1, <3>2
  <2> QED
    BY <2>1, <2>2
<1>6. (\A i, k \in jobs : i.src = k.src /\ (i.tenant = k.tenant \/ i.src = "catchup") => i = k)'
  BY DEF WorkInv, WorkBounded
<1>7. (\A i \in JobsOf("tick") : i.bucket = run.bucket /\ i.tenant \notin run.todo)'
  BY DEF WorkInv, WorkBounded, JobsOf
<1> QED
  BY <1>2, <1>5, <1>6, <1>7 DEF WorkInv, WorkBounded

\* A goroutine that has neither catchup work nor work of its tenant may start a call.
LEMMA StartedWork ==
  ASSUME ScheduleInv, WorkInv, NEW src \in Source, NEW t \in Tenant, NEW b \in Minute,
         jobs' = jobs \cup {NewJob(src, t, b)},
         src = "catchup" => JobsOf("catchup") = {} /\ run' = run,
         src = "tick" => /\ t \in run.todo /\ b = run.bucket
                         /\ Cardinality(JobsOf("tick")) < TenantConcurrency
                         /\ run' = [run EXCEPT !.todo = @ \ {t}]
  PROVE  WorkInv'
<1> DEFINE T == JobsOf("tick")
           n == NewJob(src, t, b)
<1>1. n.src = src /\ n.tenant = t /\ n.bucket = b
  BY DEF NewJob
<1>2. IsFiniteSet(jobs')
  BY FS_AddElement DEF WorkInv
<1>3. IsFiniteSet(T) /\ Cardinality(T) \in Nat /\ Cardinality(T) <= TenantConcurrency
  BY FS_Subset, FS_CardinalityType DEF WorkInv, WorkBounded, JobsOf
<1>4. run.todo \in SUBSET Tenant /\ run = [bucket |-> run.bucket, todo |-> run.todo]
  BY DEF ScheduleInv, TypeOK
<1>5. CASE src = "catchup"
  <2>1. JobsOf("tick")' = T
    BY <1>1, <1>5 DEF JobsOf
  <2>2. (\A i, k \in jobs : i.src = k.src /\ (i.tenant = k.tenant \/ i.src = "catchup") => i = k)'
    BY <1>1, <1>5 DEF WorkInv, WorkBounded, JobsOf
  <2> QED
    BY <1>2, <1>3, <1>5, <2>1, <2>2 DEF WorkInv, WorkBounded
<1>6. CASE src = "tick"
  <2>1. JobsOf("tick")' = T \cup {n}
    BY <1>1, <1>6 DEF JobsOf
  <2>2. Cardinality(T \cup {n}) <= TenantConcurrency
    <3>1. Cardinality(T \cup {n}) <= Cardinality(T) + 1 /\ Cardinality(T \cup {n}) \in Nat
      BY <1>3, AddedCardinality
    <3> HIDE DEF T, n
    <3>2. Cardinality(T) < TenantConcurrency
      BY <1>6 DEF T
    <3> QED
      BY <1>3, <3>1, <3>2, TopoAssumption
  <2>3. \A i \in T : i.tenant # t
    BY <1>6 DEF WorkInv, WorkBounded
  <2>4. (\A i, k \in jobs : i.src = k.src /\ (i.tenant = k.tenant \/ i.src = "catchup") => i = k)'
    BY <1>1, <1>6, <2>3 DEF WorkInv, WorkBounded, JobsOf
  <2>5. run'.bucket = run.bucket /\ run'.todo = run.todo \ {t}
    BY <1>4, <1>6
  <2>6. (\A i \in JobsOf("tick") : i.bucket = run.bucket /\ i.tenant \notin run.todo)'
    BY <1>1, <1>6, <2>1, <2>5 DEF WorkInv, WorkBounded
  <2> QED
    BY <1>2, <2>1, <2>2, <2>4, <2>6 DEF WorkInv, WorkBounded
<1> QED
  BY <1>5, <1>6 DEF Source

\* Every step keeps the statements in flight bounded.
LEMMA NextWork == ScheduleInv /\ WorkInv /\ [Next]_vars => WorkInv'
<1> SUFFICES ASSUME ScheduleInv, WorkInv, [Next]_vars PROVE WorkInv'
  OBVIOUS
<1>1. CASE UNCHANGED <<jobs, run>>
  BY <1>1 DEF WorkInv, WorkBounded, JobsOf
<1>2. ASSUME NEW src \in Source, JobStep(src) PROVE WorkInv'
  <2>1. PICK j \in jobs : ReadPass(j) \/ WritePass(j) \/ FailPass(j)
    BY <1>2 DEF JobStep, JobsOf
  <2>2. j \in Job /\ run' = run
    BY <2>1 DEF ScheduleInv, TypeOK, ReadPass, WritePass, FailPass, engine
  <2>3. CASE ReadPass(j)
    <3>1. PICK k : k = [j EXCEPT !.pc = "write", !.seen = Summary(j.pass, j.tenant, j.bucket)]
      OBVIOUS
    <3>2. k.src = j.src /\ k.tenant = j.tenant /\ k.bucket = j.bucket
      BY <2>2, <3>1 DEF Job
    <3>3. jobs' = (jobs \ {j}) \cup {k}
      BY <2>3, <3>1 DEF ReadPass
    <3>4. \A i \in {k} : i.src = j.src /\ i.tenant = j.tenant /\ i.bucket = j.bucket
      BY <3>2
    <3>5. \E i : {k} = {i}
      OBVIOUS
    <3> QED
      BY <2>2, <3>3, <3>4, <3>5, ReplacedWork
  <2>4. CASE WritePass(j) \/ FailPass(j)
    <3>1. jobs' = (jobs \ {j}) \cup AfterPass(j)
      BY <2>4 DEF WritePass, FailPass
    <3>2. AfterPass(j) = {} \/ \E k : AfterPass(j) = {k}
      BY DEF AfterPass
    <3>3. \A k \in AfterPass(j) : k.src = j.src /\ k.tenant = j.tenant /\ k.bucket = j.bucket
      BY <2>2 DEF AfterPass, Job
    <3> QED
      BY <2>2, <3>1, <3>2, <3>3, ReplacedWork
  <2> QED
    BY <2>1, <2>3, <2>4
<1>3. CASE CatchupReplay
  <2>0. /\ catchup.next \in 0..(MaxClock + 1) /\ catchup.end \in Minute
        /\ catchup.tenant \in Tenant /\ catchup.end < clock /\ clock \in Minute
    BY <1>3 DEF CatchupReplay, ScheduleInv, TypeOK, TablesTypeOK, Scheduled
  <2>1. catchup.tenant \in Tenant /\ catchup.next \in Minute
    BY <1>3, <2>0, Constants DEF CatchupReplay, Minute
  <2> QED
    BY <1>3, <2>1, StartedWork DEF CatchupReplay, Source
<1>4. ASSUME NEW t \in Tenant, TickSpawn(t) PROVE WorkInv'
  <2>1. run.bucket \in Minute
    BY <1>4 DEF TickSpawn, ScheduleInv, Scheduled
  <2> QED
    BY <1>4, <2>1, StartedWork DEF TickSpawn, Source
<1>5. CASE TickReceive
  <2>1. \A j \in JobsOf("tick") : j.bucket \in Minute /\ j.bucket = None
    BY <1>5 DEF TickReceive, WorkInv, WorkBounded, NoRun, ScheduleInv, TypeOK, Job, JobsOf
  <2>2. JobsOf("tick") = {}
    BY <2>1, Constants DEF None
  <2> QED
    BY <1>5, <2>2 DEF TickReceive, WorkInv, WorkBounded, JobsOf
<1>6. CASE TickWait
  BY <1>6 DEF TickWait, WorkInv, WorkBounded, JobsOf
<1>7. CASE Stop
  <2>1. jobs' = {} /\ JobsOf("tick")' = {}
    BY <1>7 DEF Stop, JobsOf
  <2> QED
    BY <2>1, FS_EmptySet, TopoAssumption DEF WorkInv, WorkBounded
<1>8. CASE \/ UNCHANGED vars \/ AdvanceMinute \/ Boot \/ Horizon \/ StartTicker \/ FireTicker
           \/ TickListFails
           \/ (\E s \in Span, t \in Tenant, b \in Minute : Arrive(s, t, b))
  BY <1>1, <1>8 DEF vars, AdvanceMinute, Boot, Horizon, StartTicker, FireTicker, TickListFails,
                    Arrive, Store, engine
<1>9. CASE CatchupStep /\ ~CatchupReplay
  BY <1>1, <1>9 DEF CatchupStep, CatchupList, CatchupListFails, CatchupNow, CatchupLast,
                    CatchupTenantDone, CatchupDone
<1> QED
  BY <1>2, <1>3, <1>4, <1>5, <1>6, <1>7, <1>8, <1>9 DEF Next, TickStep

-------------------------------------------------------------------------------
(* The theorems. *)

\* The invariant holds before the process starts.
LEMMA InitInv == Init => Inv
<1> SUFFICES ASSUME Init PROVE Inv
  OBVIOUS
<1>1. DataInv
  BY Constants DEF Init, EmptyTables, DataInv, ArrivalInv, JobInv, RowsComplete
<1> QED
  BY <1>1, InitSchedule DEF Inv

\* Inv is an invariant of the engine.
LEMMA Invariance == Spec => []Inv
<1>1. Inv /\ [Next]_vars => Inv'
  BY NextSchedule, NextData DEF Inv
<1> QED
  BY <1>1, InitInv, PTL DEF Spec

\* The variables keep their types.
THEOREM TypeCorrect == Spec => []TypeOK
<1>1. Inv => TypeOK
  BY DEF Inv, ScheduleInv
<1> QED
  BY <1>1, Invariance, PTL

\* The engine works on and describes closed minutes only.
THEOREM WorksOnClosedMinutes == Spec => []ClosedOnly
<1>1. Inv => ClosedOnly
  BY DEF Inv, ScheduleInv
<1> QED
  BY <1>1, Invariance, PTL

\* However catchup, ticks, failures and stops interleave, a row is complete in settled spans.
THEOREM RowsAreComplete == Spec => []RowsComplete
<1>1. Inv => RowsComplete
  BY DEF Inv, DataInv
<1> QED
  BY <1>1, Invariance, PTL

\* However slow the statements are, no more of them are in flight than the engine was set to.
THEOREM WorkIsBounded == Spec => []WorkBounded
<1>1. Init => WorkInv
  BY FS_EmptySet, TopoAssumption DEF Init, WorkInv, WorkBounded, JobsOf
<1>2. Inv /\ WorkInv /\ [Next]_vars => WorkInv'
  BY NextWork DEF Inv
<1>3. WorkInv => WorkBounded
  BY DEF WorkInv
<1> QED
  BY <1>1, <1>2, <1>3, Invariance, PTL DEF Spec

\* No step of the engine takes a settled span out of a row.
THEOREM NothingRegresses == Spec => RowsNeverRegress
<1>1. Inv /\ [Next]_vars => [KeepsSettled]_<<clock, tables>>
  BY NextData DEF Inv
<1>2. Inv /\ [Next]_vars =>
        [\A p \in Pass, t \in Tenant, b \in Minute :
           rows[p][t][b] \cap SettledSummary(p, t, b) \subseteq rows'[p][t][b]]_<<clock, tables>>
  BY <1>1 DEF KeepsSettled
<1> QED
  BY <1>2, Invariance, PTL DEF Spec, RowsNeverRegress

\* The ledger's operators are those of the tables.
LEMMA LedgerTables ==
  /\ Ledger!Pass = Pass /\ Ledger!Minute = Minute /\ Ledger!tables = tables
  /\ Ledger!Entry = Entry
  /\ \A p, t, b : Ledger!SettledSummary(p, t, b) = SettledSummary(p, t, b)
  /\ \A p, t, b, new : Ledger!Publish(p, t, b, new) <=> Publish(p, t, b, new)
  /\ \A s, t, b : Ledger!Store(s, t, b) <=> Store(s, t, b)
  /\ Ledger!EmptyTables <=> EmptyTables
<1>1. /\ Ledger!Pass = Pass /\ Ledger!Minute = Minute /\ Ledger!tables = tables
      /\ Ledger!None = None
  BY DEF Ledger!Pass, Pass, Ledger!Minute, Minute, Ledger!tables, tables, Ledger!None, None
<1>2. \A t : Ledger!Stored(t) = Stored(t)
  BY <1>1 DEF Ledger!Stored, Stored
<1>3. \A t, s : Ledger!CalledByOther(t, s) <=> CalledByOther(t, s)
  BY <1>2 DEF Ledger!CalledByOther, CalledByOther
<1>4. \A p, t, s : Ledger!KeyOf(p, t, s) = KeyOf(p, t, s)
  BY <1>3 DEF Ledger!KeyOf, KeyOf
<1>5. /\ \A p, t, s : Ledger!EntryOf(p, t, s) = EntryOf(p, t, s)
      /\ \A p, t, s : Ledger!Counts(p, t, s) <=> Counts(p, t, s)
  BY <1>3, <1>4 DEF Ledger!EntryOf, EntryOf, Ledger!Counts, Counts,
                   Ledger!CallsPeer, CallsPeer
<1>6. \A p, t, b : Ledger!Settled(p, t, b) = Settled(p, t, b)
  BY <1>2 DEF Ledger!Settled, Settled, Ledger!StoredBy, StoredBy
<1>7. \A p, t, b : Ledger!SettledSummary(p, t, b) = SettledSummary(p, t, b)
  BY <1>5, <1>6 DEF Ledger!SettledSummary, SettledSummary
<1>8. \A p, t, b, new : Ledger!Publish(p, t, b, new) <=> Publish(p, t, b, new)
  BY DEF Ledger!Publish, Publish, Ledger!Replacing, Replacing
<1>9. \A s, t, b : Ledger!Store(s, t, b) <=> Store(s, t, b)
  BY <1>1 DEF Ledger!Store, Store
<1>10. Ledger!EmptyTables <=> EmptyTables
  BY <1>1 DEF Ledger!EmptyTables, EmptyTables
<1>11. Ledger!Entry = Entry
  BY DEF Ledger!Entry, Entry, Ledger!Key, Key, Ledger!SpanKind, SpanKind
<1> QED
  BY <1>1, <1>7, <1>8, <1>9, <1>10, <1>11

\* A step of a statement is a publication or leaves the tables alone.
LEMMA JobImplements ==
  ASSUME Inv, NEW src \in Source, JobStep(src)
  PROVE  Ledger!Next \/ UNCHANGED <<clock, Ledger!tables>>
<1>1. PICK j \in jobs : ReadPass(j) \/ WritePass(j) \/ FailPass(j)
  BY DEF JobStep, JobsOf
<1>2. CASE ReadPass(j) \/ FailPass(j)
  BY <1>2 DEF ReadPass, FailPass, tables, Ledger!tables
<1>3. CASE WritePass(j)
  <2>1. /\ j.pass \in Pass /\ j.tenant \in Tenant /\ j.bucket \in Minute /\ j.bucket < clock
        /\ rows \in [Pass -> [Tenant -> [Minute -> SUBSET Entry]]] /\ j.seen \subseteq Entry
    BY DEF Inv, ScheduleInv, TypeOK, TablesTypeOK, ClosedOnly, Job
  <2>2. Evaluated(j) /\ Publish(j.pass, j.tenant, j.bucket, j.seen)
    BY <1>3 DEF WritePass, Inv, DataInv, JobInv
  <2>3. rows'[j.pass][j.tenant][j.bucket] = Replacing(rows[j.pass][j.tenant][j.bucket], j.seen)
    BY <2>1, <2>2 DEF Publish
  <2>4. j.seen \in SUBSET rows'[j.pass][j.tenant][j.bucket]
    BY <2>3 DEF Replacing
  <2>5. Ledger!PublishClosed(j.pass, j.tenant, j.bucket, j.seen)
    BY <2>1, <2>2, LedgerTables DEF Ledger!PublishClosed, Evaluated
  <2> QED
    BY <2>1, <2>4, <2>5, LedgerTables DEF Ledger!Next
<1> QED
  BY <1>1, <1>2, <1>3

\* Every step of the engine is a step of the ledger or leaves its state alone.
LEMMA NextImplements ==
  ASSUME Inv, [Next]_vars
  PROVE  [Ledger!Next]_<<clock, Ledger!tables>>
<1>1. ASSUME NEW s \in Span, NEW t \in Tenant, NEW b \in Minute, Arrive(s, t, b)
      PROVE  Ledger!Next
  BY <1>1, LedgerTables DEF Arrive, Ledger!Next, Ledger!StoreSpan
<1>2. ASSUME NEW src \in Source, JobStep(src) PROVE [Ledger!Next]_<<clock, Ledger!tables>>
  BY <1>2, JobImplements
<1>3. CASE AdvanceMinute
  BY <1>3, LedgerTables DEF AdvanceMinute, Ledger!Next, Ledger!PassMinute, tables, Ledger!tables
<1>4. CASE \/ UNCHANGED vars \/ Boot \/ Stop \/ Horizon \/ CatchupStep
           \/ StartTicker \/ FireTicker \/ TickStep
  <2>1. UNCHANGED <<clock, tables>>
    BY <1>4 DEF vars, Boot, Stop, Horizon, CatchupStep, CatchupList,
                CatchupListFails, CatchupNow, CatchupLast, CatchupReplay, CatchupTenantDone,
                CatchupDone, StartTicker, FireTicker, TickStep, TickReceive, TickListFails,
                TickSpawn, TickWait, tables
  <2> QED
    BY <2>1 DEF tables, Ledger!tables
<1> QED
  BY <1>1, <1>2, <1>3, <1>4 DEF Next

\* The engine refines the ledger: it publishes only complete summaries of closed buckets.
THEOREM EngineImplementsLedger == Spec => ImplementsLedger
<1>1. Init => Ledger!Init
  BY Constants, LedgerTables DEF Init, Ledger!Init
<1>2. Inv /\ [Next]_vars => [Ledger!Next]_<<clock, Ledger!tables>>
  BY NextImplements
<1> QED
  BY <1>1, <1>2, Invariance, PTL DEF Spec, ImplementsLedger, Ledger!Spec

-------------------------------------------------------------------------------
(* What is missing was lost by a fault.                                    *)
(*                                                                         *)
(* As long as no minute begins with work left over, Catchup has the minute *)
(* of the boot for itself and a tick has the minute it fired in, so that   *)
(* the edges table, the only one asked for the last bucket, is written     *)
(* from older buckets to newer ones.                                       *)

Under(p, t, b) == \E j \in jobs : j.pass = p /\ j.tenant = t /\ j.bucket = b

\* The rows are there, or known to be lost, or the second pass will write them.
Accounted(p, t, b) ==
  \/ Healed(p, t, b)
  \/ <<p, t, b>> \in lost
  \/ p = "services" /\ Under("services", t, b)

\* Who has b of t still ahead.
TickAhead(t, b) ==
  /\ b = clock - 1 /\ clock # boot
  /\ ticker.at # clock \/ ticker.pending # None \/ t \in run.todo

CatchupAhead(t, b) ==
  \/ catchup.pc = "list" \/ t \in catchup.todo
  \/ t = catchup.tenant /\ (catchup.pc = "last" \/ (catchup.pc = "replay" /\ catchup.next <= b))

Ahead(t, b) == TickAhead(t, b) \/ CatchupAhead(t, b) \/ Under("edges", t, b)

Published(t, b) == \E c \in Minute : b <= c /\ rows["edges"][t][c] # {}

\* What lastCompletedBucket passes over is accounted for, even while the engine is down,
Prefix ==
  \A p \in Pass, t \in Tenant, b \in Window : Published(t, b) => Accounted(p, t, b)

\* and what is neither is still ahead of an engine that is up.
Progress ==
  up => \A p \in Pass, t \in Tenant, b \in Window : Accounted(p, t, b) \/ Ahead(t, b)

\* The tick loop works on the bucket that has just closed, from the minute after the boot.
PacedTick ==
  /\ ticker.pending \in {None, clock}
  /\ clock = boot => ticker.at \in {None, clock} /\ ticker.pending = None /\ run = NoRun
  /\ clock # boot => ticker.at \in {clock - 1, clock}
  /\ clock # boot /\ ticker.at # clock => ticker.pending = None /\ run = NoRun
  /\ run # NoRun => run.bucket = clock - 1 /\ ticker.pending = None
  /\ \A j \in JobsOf("tick") : run # NoRun /\ j.bucket = clock - 1

\* Catchup works in the minute of the boot.
PacedCatchup ==
  /\ boot <= clock
  /\ clock # boot \/ ready => catchup.pc = "done"
  /\ catchup.pc \in {"list", "done"} => catchup.todo = {}
  /\ catchup.pc \in {"list", "pick", "done"} => catchup.tenant = NoTenant
  /\ catchup.pc \in {"last", "replay"} =>
       catchup.end = clock - 1 /\ catchup.tenant \notin catchup.todo
  /\ \A j \in JobsOf("catchup") :
       catchup.pc = "replay" /\ j.tenant = catchup.tenant /\ j.bucket = catchup.next - 1

Paced ==
  /\ ~up => /\ catchup = NoCatchup /\ ticker = NoTicker /\ run = NoRun
            /\ jobs = {} /\ ~ready
  /\ up => PacedTick /\ PacedCatchup

Healing == ~overran => Paced /\ Prefix /\ Progress

\* The window is closed.
LEMMA WindowType ==
  ASSUME TypeOK
  PROVE  /\ clock \in Int /\ CatchupMax \in Int
         /\ \A b : b \in Window <=> b \in Int /\ clock - 1 - CatchupMax <= b /\ b <= clock - 1
         /\ \A b \in Window : b \in Minute /\ b < clock
  BY Constants DEF TypeOK, TablesTypeOK, Window, ClosedBucketAt, Origin, Minute

\* What is settled in a closed bucket stays what it is.
LEMMA SettledKept ==
  ASSUME Inv, [Next]_vars, NEW p \in Pass, NEW t \in Tenant, NEW b \in Minute, b < clock
  PROVE  SettledSummary(p, t, b)' = SettledSummary(p, t, b)
<1>1. CASE \E s \in Span, u \in Tenant, c \in Minute : Arrive(s, u, c)
  <2>1. PICK s \in Span, u \in Tenant, c \in Minute : Store(s, u, c)
    BY <1>1 DEF Arrive
  <2> QED
    BY <2>1, SettledStable DEF Inv, ScheduleInv, DataInv, TypeOK
<1>2. CASE ~(\E s \in Span, u \in Tenant, c \in Minute : Arrive(s, u, c))
  <2>1. UNCHANGED <<traces, arrived>>
    BY <1>2 DEF Next, vars, AdvanceMinute, Boot, Stop, Horizon, CatchupStep, CatchupList,
                CatchupListFails, CatchupNow, CatchupLast, CatchupReplay, CatchupTenantDone,
                CatchupDone, StartTicker, FireTicker, TickStep, TickReceive, TickListFails,
                TickSpawn, TickWait, JobStep, ReadPass, WritePass, FailPass, Publish, tables
  <2> QED
    BY <2>1, SettledSame
<1> QED
  BY <1>1, <1>2

\* No step takes settled rows away.
LEMMA HealedGrows ==
  ASSUME Inv, [Next]_vars, NEW p \in Pass, NEW t \in Tenant, NEW b \in Minute, b < clock,
         Healed(p, t, b)
  PROVE  Healed(p, t, b)'
<1>1. KeepsSettled
  BY NextData DEF Inv
<1> QED
  BY <1>1, SettledKept DEF KeepsSettled, Healed

\* A statement that ends has written what it was for, and touches no other bucket.
LEMMA WriteHeals ==
  ASSUME Inv, NEW j \in jobs, WritePass(j)
  PROVE  /\ Healed(j.pass, j.tenant, j.bucket)'
         /\ \A p \in Pass, t \in Tenant, b \in Minute :
              rows'[p][t][b] = rows[p][t][b] \/ (p = j.pass /\ t = j.tenant /\ b = j.bucket)
<1>1. /\ j.pass \in Pass /\ j.tenant \in Tenant /\ j.bucket \in Minute /\ j.bucket < clock
      /\ rows \in [Pass -> [Tenant -> [Minute -> SUBSET Entry]]]
  BY DEF Inv, ScheduleInv, TypeOK, TablesTypeOK, ClosedOnly, Job
<1>2. Evaluated(j) /\ Publish(j.pass, j.tenant, j.bucket, j.seen)
  BY DEF WritePass, Inv, DataInv, JobInv
<1>3. SettledSummary(j.pass, j.tenant, j.bucket)' = SettledSummary(j.pass, j.tenant, j.bucket)
  BY <1>1, <1>2, SettledSame DEF Publish
<1>4. rows'[j.pass][j.tenant][j.bucket] = Replacing(rows[j.pass][j.tenant][j.bucket], j.seen)
  BY <1>1, <1>2 DEF Publish
<1>5. j.seen \subseteq rows'[j.pass][j.tenant][j.bucket]
  BY <1>4 DEF Replacing
<1>6. Healed(j.pass, j.tenant, j.bucket)'
  BY <1>2, <1>3, <1>5 DEF Healed, Evaluated
<1>7. \A p \in Pass, t \in Tenant, b \in Minute :
        rows'[p][t][b] = rows[p][t][b] \/ (p = j.pass /\ t = j.tenant /\ b = j.bucket)
  BY <1>1, <1>2 DEF Publish
<1> QED
  BY <1>6, <1>7

\* A pass that ends leaves its call to the other pass, in the same bucket.
LEMMA JobReplaced ==
  ASSUME TypeOK, NEW j \in jobs, ReadPass(j) \/ WritePass(j) \/ FailPass(j)
  PROVE  \E K : /\ jobs' = (jobs \ {j}) \cup K
                /\ \A k \in K : k.src = j.src /\ k.tenant = j.tenant /\ k.bucket = j.bucket
                /\ ReadPass(j) => \E k \in K : k.pass = j.pass
                /\ (WritePass(j) \/ FailPass(j)) /\ j.pass = "edges" =>
                     \E k \in K : k.pass = "services"
<1>1. j \in Job
  BY DEF TypeOK
<1>2. CASE ReadPass(j)
  <2> DEFINE k == [j EXCEPT !.pc = "write", !.seen = Summary(j.pass, j.tenant, j.bucket)]
  <2>1. k.src = j.src /\ k.tenant = j.tenant /\ k.bucket = j.bucket /\ k.pass = j.pass
    BY <1>1 DEF Job
  <2>2. jobs' = (jobs \ {j}) \cup {k} /\ j.pc = "read"
    BY <1>2 DEF ReadPass
  <2>3. ~(WritePass(j) \/ FailPass(j))
    <3>1. ~WritePass(j)
      BY <2>2 DEF WritePass
    <3>2. ~FailPass(j)
      BY <1>2, TopoAssumption DEF ReadPass, FailPass, budgets, TypeOK
    <3> QED
      BY <3>1, <3>2
  <2> HIDE DEF k
  <2> WITNESS {k}
  <2> QED
    BY <2>1, <2>2, <2>3
<1>3. CASE WritePass(j) \/ FailPass(j)
  <2>1. jobs' = (jobs \ {j}) \cup AfterPass(j)
    BY <1>3 DEF WritePass, FailPass
  <2>2. ~ReadPass(j)
    <3>1. WritePass(j) => ~ReadPass(j)
      BY DEF WritePass, ReadPass
    <3>2. FailPass(j) => ~ReadPass(j)
      BY TopoAssumption DEF ReadPass, FailPass, budgets, TypeOK
    <3> QED
      BY <1>3, <3>1, <3>2
  <2>3. /\ \A k \in AfterPass(j) : k.src = j.src /\ k.tenant = j.tenant /\ k.bucket = j.bucket
        /\ j.pass = "edges" => \E k \in AfterPass(j) : k.pass = "services"
    BY <1>1 DEF AfterPass, Job
  <2> QED
    BY <2>1, <2>2, <2>3
<1> QED
  BY <1>2, <1>3

\* What is accounted for stays so: a pass that was lost is lost or written, the second pass of
\* a call ends with its rows, or is counted as lost.
LEMMA AccountedKept ==
  ASSUME Inv, [Next]_vars, NEW p \in Pass, NEW t \in Tenant, NEW b \in Minute, b < clock,
         Accounted(p, t, b)
  PROVE  Accounted(p, t, b)'
<1>1. CASE Healed(p, t, b)
  BY <1>1, HealedGrows DEF Accounted
<1>2. CASE <<p, t, b>> \in lost
  <2>1. \/ <<p, t, b>> \in lost'
        \/ \E j \in jobs : WritePass(j) /\ <<p, t, b>> = <<j.pass, j.tenant, j.bucket>>
    BY <1>2 DEF Next, vars, Arrive, AdvanceMinute, Boot, Stop, Horizon, CatchupStep, CatchupList,
                CatchupListFails, CatchupNow, CatchupLast, CatchupReplay, CatchupTenantDone,
                CatchupDone, StartTicker, FireTicker, TickStep, TickReceive, TickListFails,
                TickSpawn, TickWait, JobStep, JobsOf, ReadPass, WritePass, FailPass, budgets
  <2>2. CASE <<p, t, b>> \in lost'
    BY <2>2 DEF Accounted
  <2>3. ASSUME NEW j \in jobs, WritePass(j), <<p, t, b>> = <<j.pass, j.tenant, j.bucket>>
        PROVE  Accounted(p, t, b)'
    <3>1. p = j.pass /\ t = j.tenant /\ b = j.bucket
      BY <2>3
    <3> QED
      BY <2>3, <3>1, WriteHeals DEF Accounted
  <2> QED
    BY <2>1, <2>2, <2>3
<1>3. ASSUME p = "services", NEW j \in jobs, j.pass = p, j.tenant = t, j.bucket = b
      PROVE  Accounted(p, t, b)'
  <2>1. CASE j \in jobs'
    BY <1>3, <2>1 DEF Accounted, Under
  <2>2. CASE j \notin jobs'
    <3>1. Stop \/ \E src \in Source : JobStep(src)
      BY <2>2 DEF Next, vars, Arrive, AdvanceMinute, Boot, Horizon, CatchupStep, CatchupList,
                  CatchupListFails, CatchupNow, CatchupLast, CatchupReplay, CatchupTenantDone,
                  CatchupDone, StartTicker, FireTicker, TickStep, TickReceive, TickListFails,
                  TickSpawn, TickWait
    <3>2. CASE Stop
      <4>1. <<p, t, b>> \in {<<i.pass, i.tenant, i.bucket>> :
                                i \in {k \in jobs : k.pass = "services"}}
        BY <1>3
      <4>2. Healed(p, t, b) \/ <<p, t, b>> \in lost'
        BY <3>2, <4>1 DEF Stop, Missing
      <4> QED
        BY <4>2, HealedGrows DEF Accounted
    <3>3. ASSUME NEW i \in jobs, ReadPass(i) \/ WritePass(i) \/ FailPass(i)
          PROVE  Accounted(p, t, b)'
      <4>1. TypeOK
        BY DEF Inv, ScheduleInv
      <4>2. PICK K : /\ jobs' = (jobs \ {i}) \cup K
                     /\ \A k \in K : k.src = i.src /\ k.tenant = i.tenant /\ k.bucket = i.bucket
                     /\ ReadPass(i) => \E k \in K : k.pass = i.pass
        BY <3>3, <4>1, JobReplaced
      <4>3. i = j
        BY <2>2, <4>2
      <4>4. CASE ReadPass(i)
        BY <1>3, <4>2, <4>3, <4>4 DEF Accounted, Under
      <4>5. CASE WritePass(i)
        BY <1>3, <4>3, <4>5, WriteHeals DEF Accounted
      <4>6. CASE FailPass(i)
        <5>1. <<p, t, b>> \in {j.pass} \X {j.tenant} \X {j.bucket}
          BY <1>3
        <5>2. Healed(p, t, b) \/ <<p, t, b>> \in lost'
          BY <4>3, <4>6, <5>1 DEF FailPass, Missing
        <5> QED
          BY <5>2, HealedGrows DEF Accounted
      <4> QED
        BY <3>3, <4>4, <4>5, <4>6
    <3> QED
      BY <3>1, <3>2, <3>3 DEF JobStep, JobsOf
  <2> QED
    BY <2>1, <2>2
<1> QED
  BY <1>1, <1>2, <1>3 DEF Accounted, Under

\* Rows of a later bucket that were not there are those of an edges pass that ends.
LEMMA NewlyPublished ==
  ASSUME Inv, [Next]_vars, NEW t \in Tenant, NEW b \in Minute, Published(t, b)'
  PROVE  \/ Published(t, b)
         \/ \E j \in jobs : /\ WritePass(j) /\ j.pass = "edges" /\ j.tenant = t
                            /\ b <= j.bucket
<1>1. PICK c \in Minute : b <= c /\ rows'["edges"][t][c] # {}
  BY DEF Published
<1>2. CASE rows' = rows
  BY <1>1, <1>2 DEF Published
<1>3. CASE rows' # rows
  <2>1. PICK j \in jobs : WritePass(j)
    BY <1>3 DEF Next, vars, Arrive, Store, AdvanceMinute, Boot, Stop, Horizon, CatchupStep,
                CatchupList, CatchupListFails, CatchupNow, CatchupLast, CatchupReplay,
                CatchupTenantDone, CatchupDone, StartTicker, FireTicker, TickStep, TickReceive,
                TickListFails, TickSpawn, TickWait, JobStep, JobsOf, ReadPass, FailPass, tables
  <2>2. rows'["edges"][t][c] = rows["edges"][t][c]
        \/ ("edges" = j.pass /\ t = j.tenant /\ c = j.bucket)
    BY <2>1, WriteHeals DEF Pass
  <2> QED
    BY <1>1, <2>1, <2>2 DEF Published
<1> QED
  BY <1>2, <1>3

\* An edges pass is the only thing that goes on for its tenant: what is older is behind.
LEMMA NothingOlderAhead ==
  ASSUME TypeOK, Paced, NEW j \in jobs, j.pass = "edges",
         NEW b \in Minute, b < j.bucket, j.bucket < clock
  PROVE  ~Ahead(j.tenant, b)
<1>1. up /\ PacedTick /\ PacedCatchup
  BY DEF Paced
<1>2. /\ j \in Job /\ j.tenant \in Tenant /\ j.bucket \in Int /\ clock \in Int /\ b \in Int
      /\ catchup.next \in Int /\ j.tenant # NoTenant
  BY TopoAssumption, Constants DEF TypeOK, TablesTypeOK, Job
<1>3. CASE j.src = "catchup"
  <2>1. /\ catchup.pc = "replay" /\ j.tenant = catchup.tenant /\ j.bucket = catchup.next - 1
        /\ catchup.tenant \notin catchup.todo /\ clock = boot
    BY <1>1, <1>3 DEF PacedCatchup, JobsOf
  <2>2. ~TickAhead(j.tenant, b) /\ ~CatchupAhead(j.tenant, b)
    BY <1>2, <2>1 DEF TickAhead, CatchupAhead
  <2>3. ASSUME NEW k \in jobs, k.bucket = b PROVE FALSE
    <3>1. CASE k.src = "catchup"
      BY <1>1, <1>2, <2>1, <2>3, <3>1 DEF PacedCatchup, JobsOf
    <3>2. CASE k.src = "tick"
      BY <1>1, <2>1, <3>2 DEF PacedTick, JobsOf
    <3> QED
      BY <3>1, <3>2 DEF TypeOK, Job, Source
  <2> QED
    BY <2>2, <2>3 DEF Ahead, Under
<1>4. CASE j.src = "tick"
  <2>1. run # NoRun /\ j.bucket = clock - 1 /\ clock # boot /\ catchup.pc = "done"
        /\ catchup.todo = {} /\ catchup.tenant = NoTenant
    BY <1>1, <1>4 DEF PacedTick, PacedCatchup, JobsOf
  <2>2. ~TickAhead(j.tenant, b) /\ ~CatchupAhead(j.tenant, b)
    BY <1>2, <2>1 DEF TickAhead, CatchupAhead
  <2>3. ASSUME NEW k \in jobs, k.bucket = b PROVE FALSE
    <3>1. CASE k.src = "catchup"
      BY <1>1, <2>1, <3>1 DEF PacedCatchup, JobsOf
    <3>2. CASE k.src = "tick"
      BY <1>1, <1>2, <2>1, <2>3, <3>2 DEF PacedTick, JobsOf
    <3> QED
      BY <3>1, <3>2 DEF TypeOK, Job, Source
  <2> QED
    BY <2>2, <2>3 DEF Ahead, Under
<1> QED
  BY <1>2, <1>3, <1>4 DEF Job, Source

\* The window moves with the clock only, by one bucket.
LEMMA WindowMoves ==
  ASSUME TypeOK, TypeOK', [Next]_vars
  PROVE  /\ clock' = clock => Window' = Window
         /\ clock' # clock => AdvanceMinute /\ clock' = clock + 1
         /\ \A b \in Window' : b \in Minute /\ (b \in Window \/ (b = clock /\ AdvanceMinute))
<1>1. clock' # clock => AdvanceMinute /\ clock' = clock + 1
  BY DEF Next, vars, Arrive, Store, AdvanceMinute, Boot, Stop, Horizon, CatchupStep,
         CatchupList, CatchupListFails, CatchupNow, CatchupLast, CatchupReplay,
         CatchupTenantDone, CatchupDone, StartTicker, FireTicker, TickStep, TickReceive,
         TickListFails, TickSpawn, TickWait, JobStep, JobsOf, ReadPass, WritePass, Publish,
         FailPass, tables
<1>2. clock' = clock => Window' = Window
  BY DEF Window, ClosedBucketAt
<1>3. \A b \in Window' : b \in Minute
  <2>1. clock' \in Int /\ clock' >= CatchupMax + 1 /\ clock' <= MaxClock
    BY Constants DEF TypeOK, TablesTypeOK, Origin, Minute
  <2>2. CatchupMax \in Nat /\ MaxClock \in Nat
    BY Constants
  <2>3. Window' = (clock' - 1) - CatchupMax .. clock' - 1
    BY DEF Window, ClosedBucketAt
  <2>4. ASSUME NEW c \in Int, c >= CatchupMax + 1, c <= MaxClock
        PROVE  \A b \in (c - 1) - CatchupMax .. c - 1 : b \in Minute
    BY <2>2, <2>4 DEF Minute
  <2> QED
    BY <2>1, <2>3, <2>4
<1>4. clock' = clock + 1 => \A b \in Window' : b \in Window \/ b = clock
  BY Constants DEF TypeOK, TablesTypeOK, Window, ClosedBucketAt, Origin, Minute
<1> QED
  BY <1>1, <1>2, <1>3, <1>4

\* What the table was asked about, and what is older, stays accounted for.
LEMMA StepPrefix ==
  ASSUME Inv, Inv', Paced, Prefix, Progress, [Next]_vars
  PROVE  Prefix'
<1> SUFFICES ASSUME NEW p \in Pass, NEW t \in Tenant, NEW b \in Window', Published(t, b)'
             PROVE  Accounted(p, t, b)'
  BY DEF Prefix
<1>1. TypeOK /\ TypeOK' /\ ClosedOnly
  BY DEF Inv, ScheduleInv
<1>2. b \in Minute
  BY <1>1, WindowMoves
<1>3. CASE b \in Window
  <2>1. b < clock
    BY <1>1, <1>3, WindowType
  <2>2. CASE Accounted(p, t, b)
    BY <1>2, <2>1, <2>2, AccountedKept
  <2>3. ASSUME NEW j \in jobs, WritePass(j), j.pass = "edges", j.tenant = t, b <= j.bucket
        PROVE  Accounted(p, t, b)'
    <3>1. up /\ j.bucket < clock /\ j.bucket \in Int /\ b \in Int
      BY <1>1, <1>2, Constants DEF Paced, ClosedOnly, TypeOK, Job
    <3>2. CASE b < j.bucket
      <4>1. ~Ahead(t, b)
        BY <1>1, <1>2, <2>3, <3>1, <3>2, NothingOlderAhead
      <4>2. Accounted(p, t, b)
        BY <1>3, <3>1, <4>1 DEF Progress
      <4> QED
        BY <1>2, <2>1, <4>2, AccountedKept
    <3>3. CASE b = j.bucket /\ p = "edges"
      BY <2>3, <3>3, WriteHeals DEF Accounted
    <3>4. CASE b = j.bucket /\ p = "services"
      <4>1. PICK K : /\ jobs' = (jobs \ {j}) \cup K
                     /\ \A k \in K : k.src = j.src /\ k.tenant = j.tenant /\ k.bucket = j.bucket
                     /\ \E k \in K : k.pass = "services"
        BY <1>1, <2>3, JobReplaced
      <4> QED
        BY <2>3, <3>4, <4>1 DEF Accounted, Under
    <3> QED
      BY <2>3, <3>1, <3>2, <3>3, <3>4 DEF Pass
  <2>4. Published(t, b) => Accounted(p, t, b)
    BY <1>3 DEF Prefix
  <2> QED
    BY <1>2, <2>2, <2>3, <2>4, NewlyPublished
<1>4. CASE b = clock /\ AdvanceMinute
  <2>1. rows' = rows
    BY <1>4 DEF AdvanceMinute, tables
  <2>2. PICK c \in Minute : b <= c /\ rows["edges"][t][c] # {}
    BY <2>1 DEF Published
  <2>3. c < clock /\ c \in Int /\ clock \in Int
    BY <1>1, <2>2, Constants DEF ClosedOnly, TypeOK, TablesTypeOK, Pass
  <2> QED
    BY <1>4, <2>2, <2>3
<1> QED
  BY <1>1, <1>3, <1>4, WindowMoves

\* The steps keep the pace, as long as the clock waits for them.
LEMMA StepPaced ==
  ASSUME Inv, Inv', Paced, [Next]_vars, ~overran'
  PROVE  Paced'
<1>1. /\ TypeOK /\ TypeOK' /\ ClosedOnly
      /\ clock \in Int /\ clock >= 1 /\ boot \in Int /\ None = -1
      /\ catchup.next \in Int /\ NoTenant \notin Tenant
  <2>1. TypeOK /\ TypeOK' /\ ClosedOnly
    BY DEF Inv, ScheduleInv
  <2>2. None = -1 /\ NoTenant \notin Tenant
    BY TopoAssumption DEF None
  <2>3. clock \in Int /\ clock >= 1 /\ boot \in Int
    BY <2>1, Constants DEF TypeOK, TablesTypeOK, Origin, Minute
  <2>4. catchup.next \in Int
    BY <2>1, Constants DEF TypeOK
  <2> QED
    BY <2>1, <2>2, <2>3, <2>4
<1>2. CASE UNCHANGED <<clock, engine, jobs>>
  BY <1>2 DEF Paced, PacedTick, PacedCatchup, JobsOf, engine
<1>3. CASE AdvanceMinute
  <2>1. up => Idle
    BY <1>3 DEF AdvanceMinute
  <2>2. clock' = clock + 1 /\ UNCHANGED <<engine, jobs>>
    BY <1>3 DEF AdvanceMinute
  <2>3. CASE ~up
    BY <2>2, <2>3 DEF Paced, engine
  <2>4. CASE up
    <3>1. ready /\ ticker.at = clock /\ ticker.pending = None /\ run = NoRun /\ jobs = {}
      BY <2>1, <2>4 DEF Idle
    <3>2. PacedTick'
      BY <1>1, <2>2, <2>4, <3>1 DEF Paced, PacedTick, PacedCatchup, JobsOf, engine
    <3>3. PacedCatchup'
      BY <1>1, <2>2, <2>4, <3>1 DEF Paced, PacedCatchup, JobsOf, engine
    <3> QED
      BY <2>2, <2>4, <3>2, <3>3 DEF Paced, engine
  <2> QED
    BY <2>3, <2>4
<1>4. CASE Boot
  <2>1. /\ ~up /\ up' /\ boot' = clock /\ UNCHANGED <<clock, ready, ticker, run, jobs>>
        /\ catchup' = [NoCatchup EXCEPT !.pc = "list"]
    BY <1>4 DEF Boot
  <2>2. jobs = {} /\ ticker = NoTicker /\ run = NoRun /\ ~ready
    BY <2>1 DEF Paced
  <2>3. PacedTick'
    BY <2>1, <2>2 DEF PacedTick, JobsOf, NoTicker
  <2>4. PacedCatchup'
    BY <1>1, <2>1, <2>2 DEF PacedCatchup, JobsOf, NoCatchup
  <2> QED
    BY <2>1, <2>3, <2>4 DEF Paced
<1>5. CASE Stop
  BY <1>5 DEF Stop, Paced
<1>6. CASE /\ up /\ UNCHANGED <<clock, up, boot, ready, catchup>>
           /\ JobsOf("catchup")' = JobsOf("catchup")
           /\ (StartTicker \/ FireTicker \/ TickStep)
  <2>1. PacedTick /\ PacedCatchup
    BY <1>6 DEF Paced
  <2>2. PacedCatchup'
    BY <1>6, <2>1 DEF PacedCatchup
  <2>3. CASE StartTicker
    <3>1. /\ ticker.at = None /\ ticker' = [ticker EXCEPT !.at = clock]
          /\ UNCHANGED <<clock, boot, run, jobs>>
      BY <2>3 DEF StartTicker
    <3>2. clock = boot
      BY <1>1, <2>1, <3>1 DEF PacedTick
    <3>3. ticker'.at = clock /\ ticker'.pending = ticker.pending
      BY <1>1, <3>1 DEF TypeOK
    <3> QED
      BY <1>6, <2>1, <2>2, <3>1, <3>2, <3>3 DEF Paced, PacedTick, JobsOf
  <2>4. CASE FireTicker
    <3>1. /\ ticker.at # None /\ ticker.at < clock /\ UNCHANGED <<clock, boot, run, jobs>>
          /\ ticker' = [at |-> clock,
                        pending |-> IF ticker.pending = None THEN clock ELSE ticker.pending]
      BY <2>4 DEF FireTicker
    <3>2. clock # boot /\ ticker.pending = None /\ run = NoRun
      BY <1>1, <2>1, <3>1 DEF PacedTick
    <3>3. ticker'.at = clock /\ ticker'.pending = clock
      BY <3>1, <3>2
    <3> QED
      BY <1>6, <2>1, <2>2, <3>1, <3>2, <3>3 DEF Paced, PacedTick, JobsOf
  <2>5. CASE TickReceive \/ TickListFails
    <3>1. /\ run = NoRun /\ ticker.pending # None /\ UNCHANGED <<clock, boot, jobs>>
          /\ ticker' = [ticker EXCEPT !.pending = None]
          /\ run' = run \/ run' = [bucket |-> ticker.pending - 1, todo |-> Tenant]
      BY <2>5 DEF TickReceive, TickListFails, ClosedBucketAt
    <3>2. ticker.pending = clock /\ clock # boot /\ ticker.at = clock
      BY <1>1, <2>1, <3>1 DEF PacedTick
    <3>3. ticker'.at = clock /\ ticker'.pending = None
      BY <1>1, <3>1, <3>2 DEF TypeOK
    <3>4. JobsOf("tick") = {}
      BY <2>1, <3>1 DEF PacedTick
    <3>5. run' # NoRun => run'.bucket = clock - 1
      BY <3>1, <3>2
    <3> QED
      BY <1>6, <2>1, <2>2, <3>1, <3>2, <3>3, <3>4, <3>5 DEF Paced, PacedTick, JobsOf
  <2>6. ASSUME NEW t \in Tenant, TickSpawn(t) PROVE Paced'
    <3>1. /\ t \in run.todo /\ jobs' = jobs \cup {NewJob("tick", t, run.bucket)}
          /\ run' = [run EXCEPT !.todo = @ \ {t}]
          /\ UNCHANGED <<clock, boot, ticker>>
      BY <2>6 DEF TickSpawn
    <3>2. run # NoRun
      BY <3>1 DEF NoRun
    <3>3. run.bucket = clock - 1 /\ ticker.pending = None /\ clock # boot /\ ticker.at = clock
      BY <1>1, <2>1, <3>2 DEF PacedTick
    <3>4. run'.bucket = clock - 1 /\ run' # NoRun
      BY <1>1, <3>1, <3>3 DEF TypeOK, NoRun
    <3>5. \A j \in JobsOf("tick")' : j \in JobsOf("tick") \/ j.bucket = clock - 1
      BY <3>1, <3>3 DEF JobsOf, NewJob
    <3> QED
      BY <1>6, <2>1, <2>2, <3>1, <3>3, <3>4, <3>5 DEF Paced, PacedTick
  <2>7. CASE TickWait
    <3>1. /\ run # NoRun /\ JobsOf("tick") = {} /\ run' = NoRun
          /\ UNCHANGED <<clock, boot, ticker, jobs>>
      BY <2>7 DEF TickWait
    <3> QED
      BY <1>6, <2>1, <2>2, <3>1 DEF Paced, PacedTick, JobsOf
  <2> QED
    BY <1>6, <2>3, <2>4, <2>5, <2>6, <2>7 DEF TickStep
<1>7. CASE up /\ UNCHANGED <<clock, up, boot, ticker, run>> /\ JobsOf("tick")' = JobsOf("tick")
           /\ CatchupStep
  <2>1. PacedTick /\ PacedCatchup
    BY <1>7 DEF Paced
  <2>2. PacedTick'
    BY <1>7, <2>1 DEF PacedTick
  <2>3. CASE CatchupList
    BY <1>1, <1>7, <2>1, <2>2, <2>3 DEF CatchupList, Paced, PacedCatchup, JobsOf, TypeOK
  <2>4. CASE CatchupListFails \/ CatchupDone
    BY <1>1, <1>7, <2>1, <2>2, <2>4
    DEF CatchupListFails, CatchupDone, Paced, PacedCatchup, JobsOf, TypeOK
  <2>5. ASSUME NEW t \in Tenant, CatchupNow(t) PROVE Paced'
    BY <1>1, <1>7, <2>1, <2>2, <2>5
    DEF CatchupNow, ClosedBucketAt, Paced, PacedCatchup, JobsOf, TypeOK
  <2>6. CASE CatchupLast
    BY <1>1, <1>7, <2>1, <2>2, <2>6 DEF CatchupLast, Paced, PacedCatchup, JobsOf, TypeOK
  <2>7. CASE CatchupReplay
    <3>1. /\ catchup.pc = "replay" /\ JobsOf("catchup") = {} /\ ready' = ready
          /\ jobs' = jobs \cup {NewJob("catchup", catchup.tenant, catchup.next)}
          /\ catchup' = [catchup EXCEPT !.next = @ + 1]
      BY <2>7 DEF CatchupReplay
    <3>2. /\ catchup'.pc = "replay" /\ catchup'.tenant = catchup.tenant
          /\ catchup'.next = catchup.next + 1 /\ catchup'.todo = catchup.todo
          /\ catchup'.end = catchup.end
      BY <1>1, <3>1 DEF TypeOK
    <3>3. \A j \in JobsOf("catchup")' : j.tenant = catchup.tenant /\ j.bucket = catchup.next
      BY <3>1 DEF JobsOf, NewJob
    <3>4. PacedCatchup'
      BY <1>1, <1>7, <2>1, <3>1, <3>2, <3>3 DEF PacedCatchup
    <3> QED
      BY <1>7, <2>2, <3>4 DEF Paced
  <2>8. CASE CatchupTenantDone
    BY <1>1, <1>7, <2>1, <2>2, <2>8 DEF CatchupTenantDone, Paced, PacedCatchup, JobsOf, TypeOK
  <2> QED
    BY <1>7, <2>3, <2>4, <2>5, <2>6, <2>7, <2>8 DEF CatchupStep
<1>8. ASSUME NEW j \in jobs, ReadPass(j) \/ WritePass(j) \/ FailPass(j) PROVE Paced'
  <2>1. PICK K : /\ jobs' = (jobs \ {j}) \cup K
                 /\ \A k \in K : k.src = j.src /\ k.tenant = j.tenant /\ k.bucket = j.bucket
    BY <1>1, <1>8, JobReplaced
  <2>2. UNCHANGED <<clock, engine>>
    BY <1>8 DEF ReadPass, WritePass, FailPass, Publish
  <2>3. up /\ PacedTick /\ PacedCatchup
    BY DEF Paced
  <2>4. \A src : \A i \in JobsOf(src)' :
          \E k \in JobsOf(src) : i.tenant = k.tenant /\ i.bucket = k.bucket
    BY <2>1 DEF JobsOf
  <2>5. PacedTick'
    BY <2>2, <2>3, <2>4 DEF PacedTick, engine
  <2>6. PacedCatchup'
    BY <2>2, <2>3, <2>4 DEF PacedCatchup, engine
  <2> QED
    BY <2>2, <2>3, <2>5, <2>6 DEF Paced, engine
<1>9. StartTicker \/ FireTicker \/ TickStep =>
        /\ up /\ UNCHANGED <<clock, up, boot, ready, catchup>>
        /\ JobsOf("catchup")' = JobsOf("catchup")
  <2>1. StartTicker \/ FireTicker \/ TickStep => UNCHANGED <<clock, up, boot, ready, catchup>>
    BY DEF StartTicker, FireTicker, TickStep, TickReceive, TickListFails, TickSpawn, TickWait
  <2>2. StartTicker \/ FireTicker \/ TickStep => up
    BY DEF StartTicker, FireTicker, TickStep, TickReceive, TickListFails, TickSpawn, TickWait,
           Paced, NoTicker, NoRun
  <2>3. ASSUME NEW t \in Tenant, TickSpawn(t) PROVE JobsOf("catchup")' = JobsOf("catchup")
    BY <2>3 DEF TickSpawn, NewJob, JobsOf
  <2>4. ASSUME StartTicker \/ FireTicker \/ TickReceive \/ TickListFails \/ TickWait
        PROVE  JobsOf("catchup")' = JobsOf("catchup")
    BY <2>4 DEF StartTicker, FireTicker, TickReceive, TickListFails, TickWait, JobsOf
  <2> QED
    BY <2>1, <2>2, <2>3, <2>4 DEF TickStep
<1>10. CatchupStep =>
         up /\ UNCHANGED <<clock, up, boot, ticker, run>> /\ JobsOf("tick")' = JobsOf("tick")
  <2>1. CatchupStep => UNCHANGED <<clock, up, boot, ticker, run>>
    BY DEF CatchupStep, CatchupList, CatchupListFails, CatchupNow, CatchupLast, CatchupReplay,
           CatchupTenantDone, CatchupDone
  <2>2. CatchupReplay => JobsOf("tick")' = JobsOf("tick")
    BY DEF CatchupReplay, NewJob, JobsOf
  <2>3. CatchupStep /\ ~CatchupReplay => JobsOf("tick")' = JobsOf("tick")
    BY DEF CatchupStep, CatchupList, CatchupListFails, CatchupNow, CatchupLast,
           CatchupTenantDone, CatchupDone, JobsOf
  <2>4. CatchupStep => catchup.pc # "off"
    BY DEF CatchupStep, CatchupList, CatchupListFails, CatchupNow, CatchupLast, CatchupReplay,
           CatchupTenantDone, CatchupDone
  <2> QED
    BY <2>1, <2>2, <2>3, <2>4 DEF Paced, NoCatchup
<1>11. CASE UNCHANGED vars \/ Horizon \/ \E s \in Span, t \in Tenant, b \in Minute : Arrive(s, t, b)
  BY <1>2, <1>11 DEF vars, Horizon, Arrive, Store, engine
<1> QED
  BY <1>3, <1>4, <1>5, <1>6, <1>7, <1>8, <1>9, <1>10, <1>11 DEF Next, JobStep, JobsOf

\* Whoever has a bucket ahead keeps it ahead until its passes are done or lost.
LEMMA StepAhead ==
  ASSUME Inv, Inv', Paced, Prefix, [Next]_vars, up, up', clock' = clock,
         NEW p \in Pass, NEW t \in Tenant, NEW b \in Window, Ahead(t, b)
  PROVE  Accounted(p, t, b)' \/ Ahead(t, b)'
<1>1. /\ TypeOK /\ b \in Minute /\ b < clock /\ b \in Int /\ clock \in Int /\ clock >= 1
      /\ CatchupMax \in Int /\ clock - 1 - CatchupMax <= b /\ b <= clock - 1
      /\ None = -1 /\ t # NoTenant /\ PacedTick /\ PacedCatchup
  BY Constants, WindowType, TopoAssumption
  DEF Inv, ScheduleInv, TypeOK, TablesTypeOK, Origin, None, Paced
<1>2. /\ catchup.next \in Int /\ catchup.todo \in SUBSET Tenant /\ run.todo \in SUBSET Tenant
      /\ catchup = [pc |-> catchup.pc, todo |-> catchup.todo, tenant |-> catchup.tenant,
                    next |-> catchup.next, end |-> catchup.end]
      /\ ticker = [at |-> ticker.at, pending |-> ticker.pending]
      /\ run = [bucket |-> run.bucket, todo |-> run.todo]
  BY <1>1 DEF TypeOK, Minute
<1>3. ASSUME NEW S \in SUBSET (Pass \X Tenant \X Minute), <<p, t, b>> \in S,
             lost' = lost \cup Missing(S)
      PROVE  Accounted(p, t, b)'
  BY <1>1, <1>3, HealedGrows DEF Missing, Accounted
<1>4. boot' = boot
  BY DEF Next, vars, Arrive, AdvanceMinute, Boot, Stop, Horizon, CatchupStep, CatchupList,
         CatchupListFails, CatchupNow, CatchupLast, CatchupReplay, CatchupTenantDone,
         CatchupDone, StartTicker, FireTicker, TickStep, TickReceive, TickListFails,
         TickSpawn, TickWait, JobStep, ReadPass, WritePass, FailPass, engine
<1>5. ASSUME NEW src, NewJob(src, t, b) \in jobs' PROVE Ahead(t, b)'
  <2>1. LET n == NewJob(src, t, b) IN n.pass = "edges" /\ n.tenant = t /\ n.bucket = b
    BY DEF NewJob
  <2> QED
    BY <1>5, <2>1 DEF Ahead, Under
<1>6. CASE TickAhead(t, b)
  <2>1. b = clock - 1 /\ clock # boot
        /\ (ticker.at # clock \/ ticker.pending # None \/ t \in run.todo)
    BY <1>6 DEF TickAhead
  <2>2. CASE UNCHANGED <<ticker, run>>
    BY <1>4, <2>1, <2>2 DEF Ahead, TickAhead
  <2>3. CASE StartTicker
    BY <1>1, <2>1, <2>3 DEF StartTicker, PacedTick
  <2>4. CASE FireTicker
    <3>1. ticker'.pending # None
      BY <1>1, <2>4 DEF FireTicker
    <3> QED
      BY <1>4, <2>1, <3>1 DEF Ahead, TickAhead
  <2>5. CASE TickReceive
    <3>1. t \in run'.todo
      BY <2>5 DEF TickReceive
    <3> QED
      BY <1>4, <2>1, <3>1 DEF Ahead, TickAhead
  <2>6. CASE TickListFails
    <3>1. /\ ticker.pending = clock
          /\ lost' = lost \cup Missing(Pass \X Tenant \X {ticker.pending - 1})
      BY <1>1, <2>6 DEF TickListFails, PacedTick, ClosedBucketAt
    <3>2. lost' = lost \cup Missing(Pass \X Tenant \X {b})
      BY <2>1, <3>1
    <3> QED
      BY <1>1, <1>3, <3>2
  <2>7. ASSUME NEW u \in Tenant, TickSpawn(u) PROVE Ahead(t, b)'
    <3>1. /\ u \in run.todo /\ run' = [run EXCEPT !.todo = @ \ {u}] /\ ticker' = ticker
          /\ jobs' = jobs \cup {NewJob("tick", u, run.bucket)}
      BY <2>7 DEF TickSpawn
    <3>2. run'.todo = run.todo \ {u}
      BY <1>2, <3>1
    <3>3. CASE t \in run.todo /\ u = t
      <4>1. run # NoRun
        BY <3>1 DEF NoRun
      <4>2. run.bucket = b
        BY <1>1, <2>1, <4>1 DEF PacedTick
      <4> QED
        BY <1>5, <3>1, <3>3, <4>2
    <3>4. CASE ~(t \in run.todo /\ u = t)
      BY <1>4, <2>1, <3>1, <3>2, <3>4 DEF Ahead, TickAhead
    <3> QED
      BY <3>3, <3>4
  <2>8. CASE TickWait
    BY <1>4, <2>1, <2>8 DEF TickWait, Ahead, TickAhead
  <2>9. ~Stop
    BY DEF Stop
  <2> QED
    BY <2>2, <2>3, <2>4, <2>5, <2>6, <2>7, <2>8, <2>9
    DEF Next, vars, Arrive, AdvanceMinute, Boot, Horizon, CatchupStep, CatchupList,
        CatchupListFails, CatchupNow, CatchupLast, CatchupReplay, CatchupTenantDone,
        CatchupDone, TickStep, JobStep, ReadPass, WritePass, FailPass, engine
<1>7. CASE CatchupAhead(t, b)
  <2>1. CASE catchup' = catchup
    BY <1>7, <2>1 DEF Ahead, CatchupAhead
  <2>2. CASE CatchupList
    <3>1. catchup'.todo = Tenant
      BY <1>2, <2>2 DEF CatchupList
    <3> QED
      BY <3>1 DEF Ahead, CatchupAhead
  <2>3. CASE CatchupListFails
    <3>1. lost' = lost \cup Missing(Pass \X Tenant \X Window)
      BY <2>3 DEF CatchupListFails
    <3>2. Pass \X Tenant \X Window \in SUBSET (Pass \X Tenant \X Minute)
      BY <1>1, WindowType
    <3> QED
      BY <1>3, <3>1, <3>2
  <2>4. ASSUME NEW u \in Tenant, CatchupNow(u) PROVE Ahead(t, b)'
    <3>1. /\ catchup.pc = "pick" /\ catchup'.pc = "last" /\ catchup'.tenant = u
          /\ catchup'.todo = catchup.todo \ {u}
      BY <1>2, <2>4 DEF CatchupNow
    <3> QED
      BY <1>7, <3>1 DEF Ahead, CatchupAhead
  <2>5. CASE CatchupLast
    <3>1. PICK last \in LastCompleted(catchup.tenant) \cup {None} :
            catchup' = [catchup EXCEPT !.pc = "replay", !.next = ReplayStart(last, catchup.end)]
      BY <2>5 DEF CatchupLast
    <3>2. /\ catchup'.pc = "replay" /\ catchup'.tenant = catchup.tenant
          /\ catchup'.todo = catchup.todo /\ catchup'.next = ReplayStart(last, catchup.end)
          /\ catchup.pc = "last" /\ catchup.end = clock - 1
      BY <1>1, <1>2, <2>5, <3>1 DEF CatchupLast, PacedCatchup
    <3>3. CASE t \in catchup.todo \/ ReplayStart(last, catchup.end) <= b
      BY <1>7, <3>2, <3>3 DEF Ahead, CatchupAhead
    <3>4. CASE t = catchup.tenant /\ ~(ReplayStart(last, catchup.end) <= b)
      <4>1. last # None
        BY <1>1, <3>2, <3>4 DEF ReplayStart
      <4>2. last \in Minute /\ rows["edges"][t][last] # {} /\ last \in Int
        BY <3>1, <3>4, <4>1, Constants DEF LastCompleted
      <4>3. b <= last
        BY <1>1, <3>2, <3>4, <4>1, <4>2 DEF ReplayStart
      <4>4. Accounted(p, t, b)
        BY <4>2, <4>3 DEF Published, Prefix
      <4> QED
        BY <1>1, <4>4, AccountedKept
    <3> QED
      BY <1>7, <3>2, <3>3, <3>4 DEF CatchupAhead
  <2>6. CASE CatchupReplay
    <3>1. /\ catchup.pc = "replay" /\ catchup'.pc = "replay" /\ catchup'.tenant = catchup.tenant
          /\ catchup'.todo = catchup.todo /\ catchup'.next = catchup.next + 1
          /\ jobs' = jobs \cup {NewJob("catchup", catchup.tenant, catchup.next)}
      BY <1>2, <2>6 DEF CatchupReplay
    <3>2. CASE t = catchup.tenant /\ catchup.next = b
      BY <1>5, <3>1, <3>2
    <3>3. CASE t \in catchup.todo \/ (t = catchup.tenant /\ catchup.next < b)
      BY <1>1, <1>2, <3>1, <3>3 DEF Ahead, CatchupAhead
    <3> QED
      BY <1>1, <1>2, <1>7, <3>1, <3>2, <3>3 DEF CatchupAhead
  <2>7. CASE CatchupTenantDone
    <3>1. /\ catchup.pc = "replay" /\ catchup.next > clock - 1 /\ catchup'.todo = catchup.todo
      BY <1>1, <1>2, <2>7 DEF CatchupTenantDone, PacedCatchup
    <3> QED
      BY <1>1, <1>2, <1>7, <3>1 DEF Ahead, CatchupAhead
  <2>8. CASE CatchupDone
    BY <1>1, <1>7, <2>8 DEF CatchupDone, CatchupAhead
  <2>9. ~Stop /\ ~Boot
    BY DEF Stop, Boot
  <2> QED
    BY <2>1, <2>2, <2>3, <2>4, <2>5, <2>6, <2>7, <2>8, <2>9
    DEF Next, vars, Arrive, AdvanceMinute, Horizon, CatchupStep, StartTicker, FireTicker,
        TickStep, TickReceive, TickListFails, TickSpawn, TickWait, JobStep, ReadPass,
        WritePass, FailPass, engine
<1>8. ASSUME NEW j \in jobs, j.pass = "edges", j.tenant = t, j.bucket = b
      PROVE  Accounted(p, t, b)' \/ Ahead(t, b)'
  <2>1. CASE j \in jobs'
    BY <1>8, <2>1 DEF Ahead, Under
  <2>2. CASE j \notin jobs'
    <3>1. \E src \in Source : JobStep(src)
      BY <2>2 DEF Next, vars, Arrive, AdvanceMinute, Boot, Stop, Horizon, CatchupStep,
                  CatchupList, CatchupListFails, CatchupNow, CatchupLast, CatchupReplay,
                  CatchupTenantDone, CatchupDone, StartTicker, FireTicker, TickStep,
                  TickReceive, TickListFails, TickSpawn, TickWait
    <3>2. PICK i \in jobs : ReadPass(i) \/ WritePass(i) \/ FailPass(i)
      BY <3>1 DEF JobStep, JobsOf
    <3>3. PICK K : /\ jobs' = (jobs \ {i}) \cup K
                   /\ \A k \in K : k.src = i.src /\ k.tenant = i.tenant /\ k.bucket = i.bucket
                   /\ ReadPass(i) => \E k \in K : k.pass = i.pass
                   /\ (WritePass(i) \/ FailPass(i)) /\ i.pass = "edges" =>
                        \E k \in K : k.pass = "services"
      BY <1>1, <3>2, JobReplaced
    <3>4. i = j
      BY <2>2, <3>3
    <3>5. CASE ReadPass(i)
      BY <1>8, <3>3, <3>4, <3>5 DEF Ahead, Under
    <3>6. CASE (WritePass(i) \/ FailPass(i)) /\ p = "services"
      BY <1>8, <3>3, <3>4, <3>6 DEF Accounted, Under
    <3>7. CASE WritePass(i) /\ p = "edges"
      BY <1>8, <3>4, <3>7, WriteHeals DEF Accounted
    <3>8. CASE FailPass(i) /\ p = "edges"
      <4>1. lost' = lost \cup Missing({p} \X {t} \X {b})
        BY <1>8, <3>4, <3>8 DEF FailPass
      <4> QED
        BY <1>1, <1>3, <4>1
    <3> QED
      BY <3>2, <3>5, <3>6, <3>7, <3>8 DEF Pass
  <2> QED
    BY <2>1, <2>2
<1> QED
  BY <1>6, <1>7, <1>8 DEF Ahead, Under

\* No step loses a bucket without a trace.
LEMMA StepProgress ==
  ASSUME Inv, Inv', Paced, Prefix, Progress, [Next]_vars, ~overran'
  PROVE  Progress'
<1> SUFFICES ASSUME up', NEW p \in Pass, NEW t \in Tenant, NEW b \in Window'
             PROVE  Accounted(p, t, b)' \/ Ahead(t, b)'
  BY DEF Progress
<1>1. TypeOK /\ TypeOK' /\ clock \in Int
  BY Constants DEF Inv, ScheduleInv, TypeOK, TablesTypeOK
<1>2. CASE AdvanceMinute
  <2>1. /\ up /\ Idle /\ clock' = clock + 1 /\ UNCHANGED <<boot, ticker>>
    BY <1>2 DEF AdvanceMinute, engine
  <2>2. CASE b = clock
    <3>1. boot <= clock /\ boot \in Int /\ ticker.at = clock
      BY <1>1, <2>1, Constants DEF Paced, PacedCatchup, Idle, TypeOK, Minute, Origin
    <3> QED
      BY <1>1, <2>1, <2>2, <3>1 DEF Ahead, TickAhead
  <2>3. CASE b \in Window
    <3>1. ~Ahead(t, b)
      BY <2>1, TopoAssumption
      DEF Idle, NoRun, Paced, PacedCatchup, Ahead, TickAhead, CatchupAhead, Under
    <3>2. b \in Minute /\ b < clock
      BY <1>1, <2>3, WindowType
    <3> QED
      BY <2>1, <2>3, <3>1, <3>2, AccountedKept DEF Progress
  <2> QED
    BY <1>1, <2>2, <2>3, WindowMoves
<1>3. CASE clock' = clock
  <2>1. b \in Window
    BY <1>1, <1>3, WindowMoves
  <2>2. b \in Minute /\ b < clock
    BY <1>1, <2>1, WindowType
  <2>3. CASE up
    BY <1>3, <2>1, <2>2, <2>3, StepAhead, AccountedKept DEF Progress
  <2>4. CASE ~up
    <3>1. Boot
      BY <2>4 DEF Next, vars, Arrive, AdvanceMinute, Stop, Horizon, CatchupStep, CatchupList,
                  CatchupListFails, CatchupNow, CatchupLast, CatchupReplay, CatchupTenantDone,
                  CatchupDone, StartTicker, FireTicker, TickStep, TickReceive, TickListFails,
                  TickSpawn, TickWait, JobStep, ReadPass, WritePass, FailPass, engine
    <3>2. catchup'.pc = "list"
      BY <3>1 DEF Boot, NoCatchup
    <3> QED
      BY <3>2 DEF Ahead, CatchupAhead
  <2> QED
    BY <2>3, <2>4
<1> QED
  BY <1>1, <1>2, <1>3, WindowMoves

\* The invariant holds of a platform without a history.
LEMMA InitHealing == Init => Healing
<1> SUFFICES ASSUME Init PROVE Paced /\ Prefix /\ Progress
  BY DEF Healing
<1> QED
  BY Constants DEF Init, EmptyTables, Paced, Prefix, Progress, Published, Pass

\* Minutes that the engine has overrun do not come back.
LEMMA NextHealing == Inv /\ Inv' /\ Healing /\ [Next]_vars => Healing'
<1> SUFFICES ASSUME Inv, Inv', Healing, [Next]_vars, ~overran'
             PROVE  Paced' /\ Prefix' /\ Progress'
  BY DEF Healing
<1>1. ~overran
  BY DEF Next, vars, Arrive, AdvanceMinute, Boot, Stop, Horizon, CatchupStep, CatchupList,
         CatchupListFails, CatchupNow, CatchupLast, CatchupReplay, CatchupTenantDone,
         CatchupDone, StartTicker, FireTicker, TickStep, TickReceive, TickListFails,
         TickSpawn, TickWait, JobStep, ReadPass, WritePass, FailPass, budgets
<1>2. Paced /\ Prefix /\ Progress
  BY <1>1 DEF Healing
<1> QED
  BY <1>2, StepPaced, StepPrefix, StepProgress

\* An idle engine has nothing ahead.
LEMMA HealingExplains == Healing => LossExplained
<1> SUFFICES ASSUME Healing, up, Idle, ~overran,
                    NEW p \in Pass, NEW t \in Tenant, NEW b \in Window
             PROVE  Healed(p, t, b) \/ <<p, t, b>> \in lost
  BY DEF LossExplained
<1>1. jobs = {}
  BY DEF Idle
<1>2. ~Ahead(t, b)
  BY <1>1, TopoAssumption
  DEF Healing, Idle, NoRun, Paced, PacedCatchup, Ahead, TickAhead, CatchupAhead, Under
<1> QED
  BY <1>1, <1>2 DEF Healing, Progress, Accounted, Under

\* What is missing from the catchup window of an engine that is ready and idle is what a fault
\* was to write, or the services of a bucket whose edges a stop had let through: an engine
\* that keeps up with the minutes heals everything else, whatever the interleaving of Catchup,
\* ticks, stops and restarts.
THEOREM LossesAreExplained == Spec => []LossExplained
<1>1. Inv /\ Inv' /\ Healing /\ [Next]_vars => Healing'
  BY NextHealing
<1> QED
  BY <1>1, InitHealing, HealingExplains, Invariance, PTL DEF Spec

-------------------------------------------------------------------------------
(* What can be lost without a statement that fails. *)

Blameless ==
  faults = 0 =>
    /\ \A x \in lost : x[1] = "services"
    /\ crashes = 0 => lost = {}

LEMMA NextBlameless ==
  ASSUME TypeOK, Blameless, [Next]_vars
  PROVE  Blameless'
<1>1. faults \in Nat /\ crashes \in Nat
  BY TopoAssumption DEF TypeOK
<1>2. CASE CatchupListFails \/ TickListFails \/ \E j \in jobs : FailPass(j)
  <2>1. faults' = faults + 1
    BY <1>2 DEF CatchupListFails, TickListFails, FailPass
  <2> QED
    BY <1>1, <2>1 DEF Blameless
<1>3. CASE Stop
  <2>1. /\ lost' = lost \cup Missing({<<j.pass, j.tenant, j.bucket>> :
                                    j \in {k \in jobs : k.pass = "services"}})
        /\ faults' = faults /\ crashes' = crashes + 1
    BY <1>3 DEF Stop
  <2>2. \A x \in lost' \ lost : x[1] = "services"
    BY <2>1 DEF Missing
  <2> QED
    BY <1>1, <2>1, <2>2 DEF Blameless
<1>4. ASSUME NEW j \in jobs, WritePass(j) PROVE Blameless'
  BY <1>4 DEF WritePass, Blameless
<1>5. CASE \/ UNCHANGED vars \/ AdvanceMinute \/ Boot \/ Horizon \/ StartTicker \/ FireTicker
           \/ (CatchupStep /\ ~CatchupListFails) \/ (TickStep /\ ~TickListFails)
           \/ (\E s \in Span, t \in Tenant, b \in Minute : Arrive(s, t, b))
           \/ (\E j \in jobs : ReadPass(j))
  <2>1. UNCHANGED <<faults, crashes, lost>>
    BY <1>5 DEF vars, AdvanceMinute, Boot, Horizon, StartTicker, FireTicker, CatchupStep,
                CatchupList, CatchupNow, CatchupLast, CatchupReplay, CatchupTenantDone,
                CatchupDone, TickStep, TickReceive, TickSpawn, TickWait, Arrive, ReadPass,
                budgets
  <2> QED
    BY <2>1 DEF Blameless
<1> QED
  BY <1>2, <1>3, <1>4, <1>5 DEF Next, JobStep, JobsOf

\* Stops alone never cost an edge, nor a service unless there was one.
THEOREM StopsLoseNoEdgesHolds == Spec => []StopsLoseNoEdges
<1>1. Init => Blameless
  BY DEF Init, Blameless
<1>2. Spec => []Blameless
  <2>1. TypeOK /\ Blameless /\ [Next]_vars => Blameless'
    BY NextBlameless
  <2> QED
    BY <1>1, <2>1, TypeCorrect, PTL DEF Spec
<1>3. Blameless /\ LossExplained => StopsLoseNoEdges
  <2> SUFFICES ASSUME Blameless, LossExplained, up, Idle, ~overran, faults = 0,
                      NEW t \in Tenant, NEW b \in Window
               PROVE  Healed("edges", t, b) /\ (crashes = 0 => Healed("services", t, b))
    BY DEF StopsLoseNoEdges
  <2>1. \A p \in Pass : Healed(p, t, b) \/ <<p, t, b>> \in lost
    BY DEF LossExplained
  <2>2. <<"edges", t, b>> \notin lost
    BY DEF Blameless
  <2> QED
    BY <2>1, <2>2 DEF Blameless, Pass
<1> QED
  BY <1>2, <1>3, LossesAreExplained, PTL

-------------------------------------------------------------------------------
(* What the query service may rely on is a consequence of the ledger alone. *)

ClosedRows ==
  \A p \in Pass, t \in Tenant, b \in Minute : rows[p][t][b] # {} => b < clock

LedgerInv == TablesTypeOK /\ ArrivalInv /\ RowsComplete /\ ClosedRows

\* A span that is stored keeps the tables typed.
LEMMA StoreType ==
  ASSUME TablesTypeOK, NEW s \in Span, NEW t \in Tenant, NEW b \in Minute, Store(s, t, b)
  PROVE  TablesTypeOK'
<1>1. traces[t][b] \cup {s} \in SUBSET Span /\ traces[t] \in [Minute -> SUBSET Span]
  BY DEF TablesTypeOK
<1>2. traces' \in [Tenant -> [Minute -> SUBSET Span]]
  BY <1>1 DEF Store, TablesTypeOK
<1> QED
  BY <1>2 DEF Store, TablesTypeOK

\* So does an INSERT of typed rows.
LEMMA PublishType ==
  ASSUME TablesTypeOK, NEW p \in Pass, NEW t \in Tenant, NEW b \in Minute,
         NEW new \in SUBSET Entry, Publish(p, t, b, new)
  PROVE  TablesTypeOK'
<1>1. Replacing(rows[p][t][b], new) \in SUBSET Entry
  BY DEF TablesTypeOK, Replacing
<1>2. rows' \in [Pass -> [Tenant -> [Minute -> SUBSET Entry]]]
  BY <1>1 DEF Publish, TablesTypeOK
<1> QED
  BY <1>2 DEF Publish, TablesTypeOK

\* Every step of the ledger keeps rows complete and takes nothing settled out of them.
LEMMA LedgerNext ==
  ASSUME LedgerInv, [Ledger!Next]_<<clock, Ledger!tables>>
  PROVE  LedgerInv' /\ [KeepsSettled]_<<clock, tables>>
<1>1. ASSUME NEW s \in Span, NEW t \in Tenant, NEW b \in Minute, Store(s, t, b)
      PROVE  LedgerInv' /\ KeepsSettled
  <2>1. TablesTypeOK'
    BY <1>1, StoreType DEF LedgerInv
  <2>2. RowsComplete' /\ ArrivalInv'
    BY <1>1, StoreComplete DEF LedgerInv, ClosedRows
  <2> QED
    BY <1>1, <2>1, <2>2 DEF Store, LedgerInv, ClosedRows, KeepsSettled
<1>2. ASSUME clock < MaxClock, clock' = clock + 1, UNCHANGED tables
      PROVE  LedgerInv' /\ KeepsSettled
  <2>1. UNCHANGED <<traces, arrived, rows>> /\ clock \in Minute /\ clock' \in Minute
    BY <1>2, TablesAssumption DEF tables, LedgerInv, TablesTypeOK, Minute
  <2>2. \A p \in Pass, t \in Tenant, b \in Minute :
          SettledSummary(p, t, b)' = SettledSummary(p, t, b)
    BY <2>1, SettledSame
  <2>3. RowsComplete' /\ KeepsSettled
    BY <2>1, <2>2 DEF LedgerInv, RowsComplete, KeepsSettled
  <2>4. ArrivalInv'
    <3>1. SUFFICES ASSUME NEW t \in Tenant, NEW b \in Minute, NEW s \in traces[t][b]
                   PROVE  arrived[s] \in Minute /\ arrived[s] <= clock'
      BY <2>1 DEF ArrivalInv
    <3>2. arrived[s] \in Minute /\ arrived[s] <= clock
      BY DEF LedgerInv, ArrivalInv
    <3> QED
      BY <1>2, <2>1, <3>2, Constants DEF Minute
  <2>5. ClosedRows'
    BY <1>2, <2>1, Constants DEF LedgerInv, ClosedRows
  <2> QED
    BY <2>1, <2>3, <2>4, <2>5 DEF LedgerInv, TablesTypeOK
<1>3. ASSUME NEW p \in Pass, NEW t \in Tenant, NEW b \in Minute, NEW new,
             Ledger!PublishClosed(p, t, b, new)
      PROVE  LedgerInv' /\ KeepsSettled
  <2>1. /\ b < clock /\ new \subseteq Entry /\ SettledSummary(p, t, b) \subseteq new
        /\ {e.span : e \in new} \subseteq traces[t][b] /\ Publish(p, t, b, new)
    BY <1>3, LedgerTables DEF Ledger!PublishClosed
  <2>2. RowsComplete' /\ KeepsSettled
    BY <2>1, PublishKeeps DEF LedgerInv
  <2>3. TablesTypeOK'
    BY <2>1, PublishType DEF LedgerInv
  <2>4. ClosedRows'
    <3>1. \A q \in Pass, u \in Tenant, c \in Minute :
            (q = p /\ u = t /\ c = b) \/ rows'[q][u][c] = rows[q][u][c]
      BY <2>1 DEF Publish, LedgerInv, TablesTypeOK
    <3> QED
      BY <2>1, <3>1 DEF Publish, LedgerInv, ClosedRows
  <2> QED
    BY <2>1, <2>2, <2>3, <2>4 DEF Publish, LedgerInv, ArrivalInv
<1>4. CASE UNCHANGED <<clock, tables>>
  <2>1. UNCHANGED <<clock, traces, arrived, rows>>
    BY <1>4 DEF tables
  <2>2. \A p \in Pass, t \in Tenant, b \in Minute :
          SettledSummary(p, t, b)' = SettledSummary(p, t, b)
    BY <2>1, SettledSame
  <2> QED
    BY <1>4, <2>1, <2>2 DEF LedgerInv, TablesTypeOK, ArrivalInv, RowsComplete, ClosedRows
<1>5. Ledger!StoreSpan => \E s \in Span, t \in Tenant, b \in Minute : Store(s, t, b)
  BY LedgerTables DEF Ledger!StoreSpan
<1>6. Ledger!PassMinute => clock < MaxClock /\ clock' = clock + 1 /\ UNCHANGED tables
  BY DEF Ledger!PassMinute, Ledger!tables, tables
<1>7. UNCHANGED <<clock, Ledger!tables>> => UNCHANGED <<clock, tables>>
  BY DEF Ledger!tables, tables
<1>8. Ledger!Next => \/ Ledger!StoreSpan \/ Ledger!PassMinute
                     \/ \E p \in Pass, t \in Tenant, b \in Minute :
                          \E new : Ledger!PublishClosed(p, t, b, new)
  BY LedgerTables DEF Ledger!Next
<1>9. ASSUME Ledger!Next PROVE LedgerInv' /\ KeepsSettled
  <2>1. CASE Ledger!StoreSpan
    BY <1>1, <1>5, <2>1
  <2>2. CASE Ledger!PassMinute
    BY <1>2, <1>6, <2>2
  <2>3. ASSUME NEW p \in Pass, NEW t \in Tenant, NEW b \in Minute, NEW new,
               Ledger!PublishClosed(p, t, b, new)
        PROVE  LedgerInv' /\ KeepsSettled
    BY <1>3, <2>3
  <2> QED
    BY <1>8, <1>9, <2>1, <2>2, <2>3
<1> QED
  BY <1>4, <1>7, <1>9

\* Whatever implements the ledger has complete rows that never regress: RowsComplete and
\* RowsNeverRegress need nothing of the engine but that it refines the ledger.
THEOREM LedgerKeepsRows == Ledger!Spec => []RowsComplete /\ RowsNeverRegress
<1>1. Ledger!Init => LedgerInv
  <2> SUFFICES ASSUME clock \in Minute, EmptyTables PROVE LedgerInv
    BY LedgerTables DEF Ledger!Init
  <2>1. TablesTypeOK
    BY DEF EmptyTables, TablesTypeOK
  <2>2. ArrivalInv /\ RowsComplete /\ ClosedRows
    BY DEF EmptyTables, ArrivalInv, RowsComplete, ClosedRows
  <2> QED
    BY <2>1, <2>2 DEF LedgerInv
<1>2. LedgerInv /\ [Ledger!Next]_<<clock, Ledger!tables>> => LedgerInv'
  BY LedgerNext
<1>3. LedgerInv /\ [Ledger!Next]_<<clock, Ledger!tables>> =>
        [\A p \in Pass, t \in Tenant, b \in Minute :
           rows[p][t][b] \cap SettledSummary(p, t, b) \subseteq rows'[p][t][b]]_<<clock, tables>>
  BY LedgerNext DEF KeepsSettled
<1>4. LedgerInv => RowsComplete
  BY DEF LedgerInv
<1> QED
  BY <1>1, <1>2, <1>3, <1>4, PTL DEF Ledger!Spec, RowsNeverRegress
===============================================================================
