------------------------------ MODULE TopoEngine ------------------------------
(***************************************************************************)
(* The topology engine (backend/internal/topoengine, cmd/topo-engine): a   *)
(* process that summarises, minute by minute and tenant by tenant, the     *)
(* spans of traces_v1 into topology_edges_v1 and service_stats_v1.         *)
(*                                                                         *)
(* On boot one goroutine replays the buckets the tables miss (Catchup),    *)
(* while another receives a ticker and aggregates the minute that has just *)
(* closed (RunBucket), at most TenantConcurrency tenants at a time.  Both  *)
(* call RunOnce: an INSERT ... SELECT for the edges and then one for the   *)
(* services.  ClickHouse evaluates the SELECT of such a statement on the   *)
(* parts that exist when it starts and publishes the rows later, so each   *)
(* statement is a Read step and a Write step.                              *)
(***************************************************************************)
EXTENDS TopoTables, FiniteSets

CONSTANTS
  NoTenant,
  CatchupMax,         \* TOPO_CATCHUP_MAX, in minutes
  TenantConcurrency,  \* TOPO_TENANT_CONCURRENCY
  MaxLag,             \* bound: minutes between a span's start and its arrival
  MaxFault,           \* bound: statements that return an error
  MaxCrash            \* bound: stops of the process

Source == {"catchup", "tick"}

ASSUME TopoAssumption ==
  /\ NoTenant \notin Tenant
  /\ CatchupMax \in Nat
  /\ TenantConcurrency \in Nat \ {0}
  /\ MaxLag \in Nat /\ MaxFault \in Nat /\ MaxCrash \in Nat
  /\ MaxClock > CatchupMax

VARIABLES
  up,       \* the process runs
  boot,     \* history: the minute in which it was started
  catchup,  \* the goroutine of Catchup: tenants left, and the loop of one tenant
  ready,    \* /healthz answers 200
  ticker,   \* minute the ticker last fired, and the tick its channel holds
  run,      \* RunBucket: the bucket and the tenants whose goroutine has not started
  jobs,     \* the calls of RunOnce in progress
  faults, crashes,
  overran,  \* history: a minute began while the process ran and had work left
  lost      \* history: the passes a failure or a stop has left undone

vars == <<clock, traces, arrived, rows, up, boot, catchup, ready, ticker, run, jobs,
          faults, crashes, overran, lost>>

engine  == <<up, boot, catchup, ready, ticker, run>>
budgets == <<faults, crashes, overran, lost>>

Origin == CatchupMax + 1  \* the model starts late enough for a full window to exist

\* The newest bucket that is closed in minute m.
ClosedBucketAt(m) == m - 1

\* The buckets a process that starts now may have to replay.
Window == ClosedBucketAt(clock) - CatchupMax .. ClosedBucketAt(clock)

NoCatchup == [pc |-> "off", todo |-> {}, tenant |-> NoTenant, next |-> 0, end |-> 0]
NoTicker == [at |-> None, pending |-> None]
NoRun == [bucket |-> None, todo |-> {}]

Job == [src : Source, tenant : Tenant, bucket : Minute, pass : Pass,
        pc : {"read", "write"}, seen : SUBSET Entry]

NewJob(src, t, b) ==
  [src |-> src, tenant |-> t, bucket |-> b, pass |-> "edges", pc |-> "read", seen |-> {}]

JobsOf(src) == {j \in jobs : j.src = src}

Init ==
  /\ clock = Origin
  /\ EmptyTables
  /\ up = FALSE /\ boot = Origin /\ ready = FALSE
  /\ catchup = NoCatchup /\ ticker = NoTicker /\ run = NoRun /\ jobs = {}
  /\ faults = 0 /\ crashes = 0 /\ overran = FALSE /\ lost = {}

-------------------------------------------------------------------------------
(* The environment: spans arrive, at most MaxLag minutes late, and time passes. *)

Arrive(s, t, b) ==
  /\ clock - MaxLag <= b
  /\ Store(s, t, b)
  /\ UNCHANGED <<jobs, engine, budgets>>

Idle ==
  /\ ready /\ ticker.at = clock /\ ticker.pending = None
  /\ run = NoRun /\ jobs = {}

\* A ticker that exists fires in every minute.
AdvanceMinute ==
  /\ clock < MaxClock
  /\ up /\ ticker.at # None => ticker.at = clock
  /\ clock' = clock + 1
  /\ overran' = (overran \/ (up /\ ~Idle))
  /\ UNCHANGED <<tables, jobs, engine, faults, crashes, lost>>

-------------------------------------------------------------------------------
\* The table has the rows of the settled spans of a bucket.
Healed(p, t, b) == SettledSummary(p, t, b) \subseteq rows[p][t][b]

\* Of the passes given up, those whose rows are missing.
Missing(S) == {x \in S : ~Healed(x[1], x[2], x[3])}

(* RunOnce: pass A over the edges, then, whatever its outcome, pass B. *)

\* Mutants of AfterPass: pass B publishes what pass A read; the passes alternate for ever.
AfterPassStale(j) ==
  IF j.pass = "edges" THEN {[j EXCEPT !.pass = "services"]} ELSE {}

AfterPassAgain(j) ==
  {[j EXCEPT !.pass = IF j.pass = "edges" THEN "services" ELSE "edges",
             !.pc = "read", !.seen = {}]}

AfterPass(j) ==
  IF j.pass = "edges" THEN {[j EXCEPT !.pass = "services", !.pc = "read", !.seen = {}]}
                      ELSE {}

ReadPass(j) ==
  /\ j.pc = "read"
  /\ jobs' = (jobs \ {j}) \cup
             {[j EXCEPT !.pc = "write",
                        !.seen = Summary(j.pass, j.tenant, j.bucket)]}
  /\ UNCHANGED <<clock, tables, engine, budgets>>

WritePass(j) ==
  /\ j.pc = "write"
  /\ Publish(j.pass, j.tenant, j.bucket, j.seen)
  /\ jobs' = (jobs \ {j}) \cup AfterPass(j)
  /\ lost' = lost \ {<<j.pass, j.tenant, j.bucket>>}
  /\ UNCHANGED <<engine, faults, crashes, overran>>

\* The statement returns an error; it is logged and counted, nothing else.
FailPass(j) ==
  /\ faults < MaxFault
  /\ faults' = faults + 1
  /\ jobs' = (jobs \ {j}) \cup AfterPass(j)
  /\ lost' = lost \cup Missing({j.pass} \X {j.tenant} \X {j.bucket})
  /\ UNCHANGED <<clock, tables, engine, crashes, overran>>

-------------------------------------------------------------------------------
(* Catchup: one tenant after the other, one bucket after the other. *)

Boot ==
  /\ ~up
  /\ up' = TRUE /\ boot' = clock
  /\ catchup' = [NoCatchup EXCEPT !.pc = "list"]
  /\ UNCHANGED <<clock, tables, ready, ticker, run, jobs, budgets>>

CatchupList ==
  /\ catchup.pc = "list"
  /\ catchup' = [catchup EXCEPT !.pc = "pick", !.todo = Tenant]
  /\ UNCHANGED <<clock, tables, up, boot, ready, ticker, run, jobs, budgets>>

\* Mutant of CatchupListFails: an engine whose catchup failed does not become ready.
CatchupListFailsUnready ==
  /\ catchup.pc = "list"
  /\ faults < MaxFault
  /\ faults' = faults + 1
  /\ catchup' = [catchup EXCEPT !.pc = "done"]
  /\ lost' = lost \cup Missing(Pass \X Tenant \X Window)
  /\ UNCHANGED <<clock, tables, up, boot, ready, ticker, run, jobs, crashes, overran>>

\* Catchup returns the error of activeTenants; main logs it and becomes ready.
CatchupListFails ==
  /\ catchup.pc = "list"
  /\ faults < MaxFault
  /\ faults' = faults + 1
  /\ catchup' = [catchup EXCEPT !.pc = "done"]
  /\ ready' = TRUE
  /\ lost' = lost \cup Missing(Pass \X Tenant \X Window)
  /\ UNCHANGED <<clock, tables, up, boot, ticker, run, jobs, crashes, overran>>

CatchupNow(t) ==
  /\ catchup.pc = "pick"
  /\ t \in catchup.todo
  /\ catchup' = [catchup EXCEPT !.pc = "last", !.todo = @ \ {t}, !.tenant = t,
                                !.end = ClosedBucketAt(clock)]
  /\ UNCHANGED <<clock, tables, up, boot, ready, ticker, run, jobs, budgets>>

\* The buckets lastCompletedBucket can return for t: the largest with an edges row.
LastCompleted(t) ==
  {b \in Minute : /\ rows["edges"][t][b] # {}
                  /\ \A c \in Minute : rows["edges"][t][c] # {} => c <= b}

\* Mutant of ReplayStart: a bucket too late after the last one.
ReplayStartLate(last, end) ==
  IF last = None \/ end - last > CatchupMax THEN end - CatchupMax ELSE last + 2

\* start of the replay window, from last (None: no row, or the query failed)
ReplayStart(last, end) ==
  IF last = None \/ end - last > CatchupMax THEN end - CatchupMax ELSE last + 1

CatchupLast ==
  /\ catchup.pc = "last"
  /\ \E last \in LastCompleted(catchup.tenant) \cup {None} :
       catchup' = [catchup EXCEPT !.pc = "replay", !.next = ReplayStart(last, catchup.end)]
  /\ UNCHANGED <<clock, tables, up, boot, ready, ticker, run, jobs, budgets>>

CatchupReplay ==
  /\ catchup.pc = "replay"
  /\ catchup.next <= catchup.end
  /\ JobsOf("catchup") = {}
  /\ jobs' = jobs \cup {NewJob("catchup", catchup.tenant, catchup.next)}
  /\ catchup' = [catchup EXCEPT !.next = @ + 1]
  /\ UNCHANGED <<clock, tables, up, boot, ready, ticker, run, budgets>>

CatchupTenantDone ==
  /\ catchup.pc = "replay"
  /\ catchup.next > catchup.end
  /\ JobsOf("catchup") = {}
  /\ catchup' = [catchup EXCEPT !.pc = "pick", !.tenant = NoTenant]
  /\ UNCHANGED <<clock, tables, up, boot, ready, ticker, run, jobs, budgets>>

CatchupDone ==
  /\ catchup.pc = "pick"
  /\ catchup.todo = {}
  /\ catchup' = [catchup EXCEPT !.pc = "done"]
  /\ ready' = TRUE
  /\ UNCHANGED <<clock, tables, up, boot, ticker, run, jobs, budgets>>

-------------------------------------------------------------------------------
(* The tick loop.  Its goroutine does not wait for Catchup. *)

StartTicker ==
  /\ up /\ ticker.at = None
  /\ ticker' = [ticker EXCEPT !.at = clock]
  /\ UNCHANGED <<clock, tables, up, boot, catchup, ready, run, jobs, budgets>>

\* The channel holds one tick: a tick that finds it full is dropped.
FireTicker ==
  /\ ticker.at # None /\ ticker.at < clock
  /\ ticker' = [at |-> clock,
                pending |-> IF ticker.pending = None THEN clock ELSE ticker.pending]
  /\ UNCHANGED <<clock, tables, up, boot, catchup, ready, run, jobs, budgets>>

\* Mutant of TickReceive: the minute of the tick itself is aggregated.
TickReceiveOpen ==
  /\ run = NoRun /\ ticker.pending # None
  /\ run' = [bucket |-> ticker.pending, todo |-> Tenant]
  /\ ticker' = [ticker EXCEPT !.pending = None]
  /\ UNCHANGED <<clock, tables, up, boot, catchup, ready, jobs, budgets>>

\* The bucket is the one that was closed when the ticker fired.
TickReceive ==
  /\ run = NoRun /\ ticker.pending # None
  /\ run' = [bucket |-> ClosedBucketAt(ticker.pending), todo |-> Tenant]
  /\ ticker' = [ticker EXCEPT !.pending = None]
  /\ UNCHANGED <<clock, tables, up, boot, catchup, ready, jobs, budgets>>

TickListFails ==
  /\ run = NoRun /\ ticker.pending # None
  /\ faults < MaxFault
  /\ faults' = faults + 1
  /\ ticker' = [ticker EXCEPT !.pending = None]
  /\ lost' = lost \cup Missing(Pass \X Tenant \X {ClosedBucketAt(ticker.pending)})
  /\ UNCHANGED <<clock, tables, up, boot, catchup, ready, run, jobs, crashes, overran>>

TickSpawn(t) ==
  /\ t \in run.todo
  /\ Cardinality(JobsOf("tick")) < TenantConcurrency
  /\ jobs' = jobs \cup {NewJob("tick", t, run.bucket)}
  /\ run' = [run EXCEPT !.todo = @ \ {t}]
  /\ UNCHANGED <<clock, tables, up, boot, catchup, ready, ticker, budgets>>

\* Mutant of TickWait: RunBucket returns without waiting for its goroutines.
TickWaitEarly ==
  /\ run # NoRun /\ run.todo = {}
  /\ run' = NoRun
  /\ UNCHANGED <<clock, tables, up, boot, catchup, ready, ticker, jobs, budgets>>

TickWait ==
  /\ run # NoRun /\ run.todo = {}
  /\ JobsOf("tick") = {}
  /\ run' = NoRun
  /\ UNCHANGED <<clock, tables, up, boot, catchup, ready, ticker, jobs, budgets>>

\* A signal or a crash: the statements in flight are abandoned.
Stop ==
  /\ up
  /\ crashes < MaxCrash
  /\ crashes' = crashes + 1
  /\ up' = FALSE /\ ready' = FALSE
  /\ catchup' = NoCatchup /\ ticker' = NoTicker /\ run' = NoRun /\ jobs' = {}
  /\ lost' = lost \cup Missing({<<j.pass, j.tenant, j.bucket>> :
                               j \in {k \in jobs : k.pass = "services"}})
  /\ UNCHANGED <<clock, tables, boot, faults, overran>>

\* The end of the model's time, not of the program.
Horizon ==
  /\ clock = MaxClock /\ up /\ Idle
  /\ UNCHANGED vars

-------------------------------------------------------------------------------
CatchupStep ==
  \/ CatchupList \/ CatchupListFails \/ CatchupLast \/ CatchupReplay
  \/ CatchupTenantDone \/ CatchupDone
  \/ \E t \in Tenant : CatchupNow(t)

TickStep ==
  \/ TickReceive \/ TickListFails \/ TickWait
  \/ \E t \in Tenant : TickSpawn(t)

JobStep(src) == \E j \in JobsOf(src) : ReadPass(j) \/ WritePass(j) \/ FailPass(j)

Next ==
  \/ \E s \in Span, t \in Tenant, b \in Minute : Arrive(s, t, b)
  \/ AdvanceMinute \/ Boot \/ Stop \/ Horizon
  \/ CatchupStep
  \/ StartTicker \/ FireTicker
  \/ TickStep
  \/ \E src \in Source : JobStep(src)

Spec == Init /\ [][Next]_vars

\* Goroutines are scheduled, the ticker goroutine too, and every statement ends.
Fairness ==
  /\ WF_vars(CatchupStep \/ JobStep("catchup"))
  /\ WF_vars(StartTicker) /\ WF_vars(FireTicker)
  /\ WF_vars(TickStep \/ JobStep("tick"))

FairSpec == Spec /\ Fairness

-------------------------------------------------------------------------------
(* Properties. *)

\* Every variable has its type.
TypeOK ==
  /\ TablesTypeOK
  /\ clock >= Origin
  /\ up \in BOOLEAN /\ ready \in BOOLEAN
  /\ boot \in Origin..MaxClock
  /\ catchup \in [pc : {"off", "list", "pick", "last", "replay", "done"},
                  todo : SUBSET Tenant, tenant : Tenant \cup {NoTenant},
                  next : 0..(MaxClock + 1), end : Minute]
  /\ ticker \in [at : Minute \cup {None}, pending : Minute \cup {None}]
  /\ run \in [bucket : Minute \cup {None}, todo : SUBSET Tenant]
  /\ jobs \subseteq Job
  /\ faults \in 0..MaxFault /\ crashes \in 0..MaxCrash /\ overran \in BOOLEAN
  /\ lost \subseteq Pass \X Tenant \X Minute

\* No goroutine works on a minute that is still open and no row describes one, however
\* long a tick waited in the channel (ClosedBucketAt of the tick, not of the receipt).
ClosedOnly ==
  /\ \A j \in jobs : j.bucket < clock
  /\ \A p \in Pass, t \in Tenant, b \in Minute : rows[p][t][b] # {} => b < clock

\* The statements in flight are bounded: one of Catchup, TenantConcurrency of RunBucket, at
\* most one of each for a tenant, and RunBucket never works on two buckets at once.
WorkBounded ==
  /\ Cardinality(JobsOf("tick")) <= TenantConcurrency
  /\ \A j, k \in jobs : j.src = k.src /\ (j.tenant = k.tenant \/ j.src = "catchup") => j = k
  /\ \A j \in JobsOf("tick") : j.bucket = run.bucket /\ j.tenant \notin run.todo

\* What is missing from the catchup window of an engine that is ready and idle is what a
\* failed statement was to write, the bucket of a tick or the window of a boot that could not
\* list the tenants, or the services of a bucket whose edges a stop had let through: a fault
\* costs its own passes and nothing else, and every stop heals the rest, if boot, catchup and
\* ticks ended within their minute.
LossExplained ==
  up /\ Idle /\ ~overran =>
    \A p \in Pass, t \in Tenant, b \in Window : Healed(p, t, b) \/ <<p, t, b>> \in lost

\* So stops alone, however many and at whatever statement, cost the services of a bucket at
\* most, never an edge, and an engine that is not stopped loses nothing: in LossExplained only
\* a statement that fails can cost more.
StopsLoseNoEdges ==
  up /\ Idle /\ ~overran /\ faults = 0 =>
    \A t \in Tenant, b \in Window :
      Healed("edges", t, b) /\ (crashes = 0 => Healed("services", t, b))

\* engine.go says of Catchup that it replays the missing buckets up to ClosedBucketAt(now):
\* once it is done, the buckets that had closed before the process started have their edges.
CatchupClosesGap ==
  ready => \A t \in Tenant : \A b \in (clock - 1 - CatchupMax)..(boot - 1) : Healed("edges", t, b)

\* The engine, with its goroutines, ticks, failures and stops, is a ledger that publishes
\* summaries of closed buckets, each complete in the settled spans.
Ledger == INSTANCE TopoLedger WITH clock <- clock, traces <- traces, arrived <- arrived,
                                  rows <- rows
ImplementsLedger == Ledger!Spec

\* A process that starts becomes ready unless it is stopped, even if statements fail and the
\* tick loop competes with Catchup.
BecomesReady == up ~> (ready \/ ~up)

\* Every round of the tick loop ends, so that the next tick can be received.
RoundsEnd == (run # NoRun) ~> (run = NoRun)
===============================================================================
