# OpenAIOps platform: specifications, model checking and proofs

OpenAIOps collects traces and logs over OTLP, keeps them in ClickHouse, derives a service
topology from them, and shows all of it, per tenant, in a browser.  Its own logic is in six
Go programs, a shell script that migrates the ClickHouse schema, and a Vue frontend.  This
directory models the parts where several actors share state, checks the models with TLC and
proves what matters most with TLAPS.

Paths below are relative to `backend/internal/` unless they begin with `cmd/`, `frontend/`,
`deploy/` or `docs/`; `cmd/` is in `backend/`.

- [Inventory](#inventory)
- [Modules and how they follow the code](#modules-and-how-they-follow-the-code)
- [Runs](#runs)
- [Fairness, deadlock and bounds](#fairness-deadlock-and-bounds)
- [Proofs](#proofs)
- [Where the code departs from what is said of it](#where-the-code-departs-from-what-is-said-of-it)
- [Not modelled](#not-modelled)
- [Plan](#plan)

To run: `tlc -config MCIngest.cfg MCIngest` (the cfg of a run has the name of the run, the table
of runs names the module), `tlapm IngestProofs.tla`.

## Inventory

### Topology engine (`topoengine/`, `cmd/topo-engine`)

- State: in the process, the ready flag, the ticker with the one tick its channel holds, the
  goroutines of a round.  What lasts is in ClickHouse: `traces_v1`, `topology_edges_v1`,
  `service_stats_v1`.  The engine keeps no progress of its own; it asks the edges table for
  the last bucket.
- Operations: `Catchup` at boot, `RunBucket` for every tick (at most `TenantConcurrency`
  tenants at a time), `RunOnce` = the edges pass and then the services pass, each an
  `INSERT ... SELECT`.
- Hard: the tick loop starts without waiting for Catchup, so two goroutines may aggregate one
  bucket at once; a SELECT reads long before its INSERT publishes; spans arrive late and
  parents after their children; statements fail; the process stops anywhere.
- Correct if: rows describe closed minutes of one tenant, never lose a span that was there in
  time, the window of minutes missed while the engine was down is replayed, work is bounded,
  the engine becomes ready.

### Ingesters (`ingest/`, `logingest/`, `ingestshared/`, `cmd/ingester`, `cmd/log-ingester`)

- State: the calls in progress, the bounded metering channel, its worker, the shutdown of main;
  `traces_v1` or `logs_v1`, and `metering_events` in PostgreSQL.
- Operations: an export call (authenticate, convert, one batch, one metering event, answer);
  the worker (take, insert within 3 s, count a failure); the shutdown (receiver, `Drain`, admin
  server, one deadline).
- Hard: `Drain` closes a channel others send on; the queue is full; PostgreSQL hangs, in the
  worker or in the authentication of a call; a failed `Send` may have stored its rows.
- Correct if: what is charged was stored; the event of every answered call is accounted for;
  metering never holds up or fails a call; the process stops, unless PostgreSQL holds a gRPC call.

### Annotations (`query/annotations_*.go`)

- State: the table with its partial unique index on (tenant, key); the clock of the retention.
- Operations: Create (INSERT ON CONFLICT DO NOTHING, then SELECT on a conflict), List, the pruner.
- Hard: concurrent retries, lost answers, a prune between the two statements, failed prunes.
- Correct if: a key annotates once within the retention, answers name a row of the caller's
  tenant, keys are freed in the end.

### Service and topology reads (`query/services_repo.go`, `query/topology_repo.go`, handlers)

- State: none of its own; it reads the two tables of the engine while rows come and leave, each
  request in a window of its own.
- Operations: `/v1/topology` (two queries and an assembly that depends on the order of rows),
  `/v1/services` (one query), `/v1/services/{name}` (three queries).
- Correct if: an answer is closed (the force layout looks up both ends of each edge), does not
  depend on the order of rows, shows every edge unless `node_limit` cuts a service, and the
  pages agree with one another as far as their windows do: links lead somewhere, edges of the
  graph are dependencies.

### Trace and log reads (`query/traces_*.go`, `query/logs_*.go`, timestamps in `logingest/logs.go`)

- State: none on the server; a client walks through the pages of a list with `limit` and
  `offset` while rows arrive and, with the default window, while the window moves.
- Operations: `/v1/traces` (rows of a window that pass a filter, grouped by trace, sorted, cut;
  one more than the limit is fetched to learn whether there are more), `/v1/traces/{trace_id}`,
  `/v1/logs`.
- Hard: each page is a query of its own over another table; groups with equal keys come in any
  order; a late span moves its trace; instants are bound as whole seconds; a log has two
  timestamps that may be unset.
- Correct if: what a walk misses or repeats has a cause in the data, what is listed can be
  opened, by its tenant alone, and a fresh row is in the default window.

### Schema migration (`deploy/ch-migrate.sh`)

- State: `_schema_migrations` and what the statements have made, in ClickHouse; the directory of
  files; for each runner its list of what is recorded and its place in the loop.
- Operations: wait for the server, create database and table, read what is recorded, and for
  each other file its statements followed by the INSERT that records it.
- Hard: the client sends the statements one by one; runner or server stop between any two; two
  runners overlap; the query of what is recorded fails and what it gave so far counts; files come with
  smaller names or go while a run is under way; the volume is removed.
- Correct if: a run that ends with 0 has everything applied, nothing is recorded that has not been
  applied, a version is applied once, and in the end all of the directory is recorded.

### Sessions (`auth/`, `identity/`, `httpsrv/`, and in `frontend/src/`: `stores/auth.ts`, `api/client.ts`, `router/index.ts`, `ScopePill.vue`, `LoginView.vue`)

- State: `tenants.domain_id`, `api_keys`, `audit_log`; localStorage (shared by tabs); the
  store and page of each tab; requests in flight with the headers they were sent with.
- Operations: login, restore after a reload, tenant switch, logout; the middleware, `/healthz`,
  `/v1/tenants`, `/v1/tenants/switch`.
- Hard: answers that come late and are handled in another state than they were asked in; two
  logins at once; tabs; tenants that change their domain; keys of three scopes.
- Correct if: no switch leaves the domain of its key, no tenant passes from one session to the
  next, and the pill names the tenant whose data is shown.

### Pages (`frontend/src/views`, `frontend/src/composables`)

- State: the URL with the navigation under way, the form or the window (page and picker have a
  copy each), a flag that suppresses the next run of a watcher, loads in flight.
- Hard: navigations take time and cancel one another, one to the current location changes
  nothing and runs no watcher, answers overtake one another.
- Correct if: one load for every apply(), the page shows the URL's window, page and picker agree.

### Interaction

The ingesters write `traces_v1`; the engine reads it and writes the two topology tables; the
query service reads these; the gateway authenticates and forwards; the pages ask through the
client, whose interceptor takes key and tenant from localStorage.  `ch-migrate` has to have
succeeded before any of them starts.  Components share tables,
never memory.  So each has a module of its own, and what two share is a module both use:
`TopoTables` is the part of the engine that is SQL and is shared with its abstract
specification, `Page` (the router and `load()`) is shared by the two pages.  `ServiceReads` and `SignalReads` take the
tables with arbitrary rows, more than engine and ingesters would write.

`PROJECT.json` lists every component with its sources, and every hazard with its line.

## Modules and how they follow the code

| Module | Models | Abstractions |
|---|---|---|
| `TopoTables` | the three tables, `edgesSQL`, `servicesSQL`, `ReplacingMergeTree` read with FINAL | a row is the set of spans it counts, with its key |
| `TopoEngine` | the engine's process: boot, Catchup, ticker, RunBucket, RunOnce, failures, stops | a minute is a number; a statement is a read step and a write step |
| `TopoLedger` | abstract: what the engine promises | no process at all |
| `Ingest` | both ingesters: calls, metering queue, shutdown | a call is an identity; the channel is a set, since no property sees its order |
| `Annotations` | Create and the pruner | a row is the request that inserted it; time in days |
| `AnnotationStore` | abstract: what `POST /v1/annotations` promises its clients | a request is one step; no failures, no schedule of the pruner |
| `Session` | gateway and browser: login, restore, switch, logout | a request in flight is a record with what the interceptor read |
| `ServiceReads` | the three reads, one step per query, one step per scanned row, each request with its window | a call is a row; errors and percentiles are left out; windows are lengths, the longer contain the shorter |
| `SignalReads` | the lists of traces and logs and the details of a trace, with clients that page and open traces | a query is one step; severity, ids, operation and body filter as service does |
| `Migrations` | `ch-migrate.sh`: any number of runners, ClickHouse, the directory | a file is a number of statements, which can or cannot be executed twice |
| `SchemaLedger` | abstract: what the migrations promise | no runner at all |
| `Page` | vue-router, `load()`, and the flag that suppresses a watcher | a query is an element of a set |
| `LogsPage` | `LogsView.vue` | the filters are one value |
| `WindowPage` | Overview, Topology, ServiceDetail with `useTimeWindow` and the picker | the other parameters of the URL are an element of `Rest` |
| `*Proofs` | theorems | |
| `MC*` | instances for TLC | |

`map` in `PROJECT.json` gives for every definition the lines it stands for.  Some notes:

- **TopoEngine.**  `ReadPass` and `WritePass` split a statement because ClickHouse evaluates the
  SELECT on the parts of its start.  `AfterPass` is `RunOnce`, which goes on after an error.
  `Catchup` handles one tenant at a time in any order (a query without ORDER BY), and reads the
  clock for each.  The ticker's goroutine is independent of Catchup, and `ready` gates nothing
  but `/healthz`, as in `main.go`.  `FireTicker` drops a tick that finds the channel full.
  `Stop` is a signal or a crash: a cancelled statement publishes nothing here; one that
  publishes its rows although the process is gone is a `WritePass` before `Stop`.
- **TopoTables.**  A span is *settled* if it and, for an edge, its parent had arrived when its
  minute closed; only of these can an engine without a grace period promise anything.  A start
  timestamp is the client's and may be in the future.
- **Ingest.**  On a shutdown the HTTP server's `Shutdown` gives up with the deadline, while the
  gRPC server's `GracefulStop` waits; `ReceiverStopped` has both.  `EnqueuePanics` is a send on a
  closed channel, which panics in a select with a default too.  The steps of a call are those
  that wait for PostgreSQL (`AuthStep`) and the others (`StoreStep`), since fairness tells them
  apart.
- **Annotations.**  `StatementFails` may have committed its INSERT: the client retries.
  `Store` maps the holder of a key to `Holders`, the rows the partial unique index has for it.
- **Session.**  Every request keeps the key and the header of the moment it was sent, and its
  answer is handled in the state of the moment it comes, `SwitchOk` by a reload of the page.
  The login button is disabled while it waits, the Enter key of the input is not
  (`LoginView.vue:42`), so logins may overlap.  `Enter` is the end of a login or restore:
  `router.push` and the guard of the router, which restores once more without a tenant.
  `Navigate` is that guard on a later navigation.  Regrouping of tenants is an operator with SQL
  (external).  `Switch` is three steps, one for each of its statements (`SwitchFrom`, `SwitchTo`,
  `SwitchAudit`), between which tenants may move; the lookups of the middleware are one step.
  `strayed` is history: a switch was answered when localStorage had another key or none.
- **ServiceReads.**  `GraphScan` handles the rows in any order, since neither query has a total
  one.  `Upgrade` is the rule that a service stays a service.  `edges` and `stats` give the rows
  of each window: a row is inserted into the windows that reach back to its minute and leaves
  them from the shortest on (`With`, `Oldest`).  `GraphAsk`, `List` and `LookupAsk` take the
  window of the request; `Follow` is a click on a service of a page, which opens details without
  `?window` and so with the default one.
- **SignalReads.**  A page is one query and one step: `Keys` is WHERE and GROUP BY with what the
  groups are sorted by, `Ties` the order of equal keys, which ClickHouse chooses anew each time.
  `WHERE` comes before `GROUP BY`, so an item describes the spans of its trace that pass.
  `TotalDuration` is the sum of durations, counted as a set of pairs, since a recursive
  operator would be out of the prover's reach.  `Bound` rounds an instant to the whole second, as
  the driver binds it.  Each bound of a window has a default of its own (`NotGiven`).  `Open` is a
  request for any trace by any tenant, with what its list promised, if the tenant has the trace
  on its page.  The walk records what happened to the groups between two pages
  (`moved`, `grew`, `tied`): properties speak of causes.
- **Migrations.**  Every statement of a runner is a step.  `Read` while the server is down is an
  empty answer, and one whose connection breaks on the way a partial one (the script has
  `|| echo ""`, `ch-migrate.sh:67`), `Clash` is "already exists", `SendNothing` is a file
  that went after `find` had listed it: `awk` fails on its side of the pipe, the client has
  nothing to execute and the loop goes on.  `Refused` is a statement that finds no server,
  `Kill` also stands for a connection that breaks after a statement was executed.  `history` is
  reset by `Wipe` with the volume.
- **Page.**  vue-router (external) is modelled from what the pages rely on: a navigation takes
  time (the guard awaits), a newer one cancels an older one whose call returns nevertheless, one
  to the current location changes nothing.  `abandoned` in `WindowPage` is history: a pick's own
  navigation did not take place, and the picker has not gone along with the URL since.  The names of `WindowPage` that `LogsPage` has too
  begin with `Window`, so that `PageProofs` can extend both.

### Properties

Each module states its properties at its end, with the behaviour of the code they are about.
The ones a reader should know:

- `RowsComplete`, `RowsNeverRegress`: no interleaving of Catchup, tick and restarts publishes
  half a bucket or an older summary over a newer one *in what was settled*.
- `LossExplained`: what is missing from the catchup window of an engine that is ready and idle
  is what a failed statement was to write, or the services of a bucket whose edges a stop had
  let through, if boot, catchup and each tick ended within their minute (`overran`): a fault
  costs its own passes, and every stop heals the rest.
- `StopsLoseNoEdges`: so without a failed statement no edge is lost, whatever stops, and without
  a stop nothing is.
- `ImplementsLedger` (engine): the engine refines a ledger that may publish complete summaries of closed
  buckets and do nothing else.
- `MeteringIsExact`, `CleanExitAccountsForAll`, `PanicsOnlyAtDeadline`: metering events are
  neither invented nor doubled nor lost, an exit within the deadline has accounted for all of
  them, and only an HTTP call that outlives the deadline can panic.
- `OncePerWindow`, `NoRowsOnlyAfterPrune`, `ExpiredKeysFreed`: idempotency and its bound.
  `ImplementsStore`: two statements with a pruner between them are a store of single steps.
- `CallsEnd`, `StopsEventually`: metering holds up no call, and a process asked to stop does,
  although PostgreSQL hangs, unless it hangs in the authentication of a gRPC call (`HeldByPG`).
- `AuditedInDomain`: what the switch compares, and the middleware before it, is looked up by
  queries of its own; a switch that is granted joins tenants of the domain of its key unless a
  tenant moves during that very request.
- `ActiveWasGranted`: what localStorage and the pill have as the active tenant was granted to the
  key that is in use *now*, its own tenant or one it switched to: nothing of an earlier session
  stays behind.  Two logins at once and a switch that is answered after its session are the
  exceptions.  `ShownIsServed`: pill and served data agree, through late answers and reloads.
- `KindsIgnoreOrder`, `AnswerIsClosed`, `WholeWhenSmall`, `LinksResolve`, `ShownEdgeIsDependency`:
  a graph that is consistent, with itself and with the pages it links to, although it comes from
  several queries.  The last two hold for details asked for with a window no shorter than
  the one of the page that showed the service, while no row has left that window; the links of
  the pages do not ask for such a window (see below).
- `SkipsNeedMoves`, `RepeatsNeedChanges`: a walk through the pages misses a group only if one was
  moved, by a late span or by the window, or two had the same key; it repeats one only for these
  reasons or because groups arrived.  `LogsAreNeverSkipped`: so logs from an instant the client gives
  with distinct timestamps are never missed, however many arrive.
- `OpenedKeepsPromise`: a trace is opened with all the spans its list described, and whoever opens
  a trace sees no span of another tenant, although tenants may have traces with one id.
  `FreshRowsAreListed`: the lookahead of one second for logs makes up for bounds that are
  rounded down.
- `PassedAreApplied`, `AppliedInOrder`, `ReplaysExplained`, `ImplementsLedger`,
  `EventuallyApplied`: what a runner has behind it is applied, so a statement is executed only
  after the smaller versions its runner listed; a version is replayed only if runners overlapped, an answer was lost
  or a run was cut within a file; what is recorded has been applied; all is recorded in the end.
- `OncePerApply`, `MissesExplained`, `ShowsLastAsked`, `EveryApplyLoads`: one load for each
  apply(), a change from outside is missed only for an apply() whose own navigation did not
  take place, and a page at rest shows what was asked last.
- `PageShowsUrlWindow`, `PageCatchesUp`: pages that agree with their URL.
  `PickerStraysExplained`: the picker agrees with it as well, in any order of picks and of
  navigations from outside, but after a pick whose own navigation did not take place.

`StopsLoseNoEdges`, `LogsAreNeverSkipped` and `AppliedInOrder` are consequences of properties the
runs check; they are proved, and no run lists them.

## Runs

| Run | Module | Instance | Shows |
|---|---|---|---|
| `MCTopoEngine` | `MCTopoEngine` | 1 tenant, a span and its child with a peer, 1 minute of lag, window 1, 1 fault, 1 stop; 1.7 million states | closed minutes, losses explained, no regress, refinement |
| `MCTopoLive` | `MCTopoEngine` | 2 tenants, 1 fault, 1 stop, concurrency 1, fairness | bounded work, becomes ready, rounds end |
| `MCTopoGap` | `MCTopoEngine` | 2 tenants, 2 spans, window 2, nothing fails | violated: Catchup does not close the gap |
| `MCIngest` | `MCIngest` | 1 HTTP and 3 gRPC calls, queue of 2 | all properties of the ingesters |
| `MCAnnotations` | `MCAnnotations` | 3 tries of one key, the key in another tenant, a foreign tenant in the body; retention 1 of 3 days; 1 failing statement | all properties of annotations, refinement of the store |
| `MCSession` | `MCSession` | 1 tab, 3 tenants (one without a domain), keys of every scope and a revoked one, 2 requests in flight, 1 lost, 1 regrouping; 7.7 million states | all properties of the session |
| `MCSessionUngrouped` | `MCSession` | 1 tab, a key without a domain | violated: the session a key logged in to is refused |
| `MCServiceReads` | `MCServiceReads` | 2 names, 2 windows, 2 rows, which may leave, LIMIT 1, node_limit 1 or 2; 4.7 million states | all properties of the reads |
| `MCSignalReads` | `MCSignalReads` | 5 spans of 3 traces and 3 logs of 2 tenants, one trace id in both, lists in windows with both bounds, one or none; 520 thousand states | all properties of the lists |
| `MCLogsPage` | `MCLogsPage` | 3 calls of apply(), 2 navigations from outside, 1 failing load; 580 thousand states | one load per apply(), misses explained |
| `MCWindowPage` | `MCWindowPage` | 3 windows, 2 picks, 2 navigations from outside, 1 tick, fairness; 2.2 million states | page and URL agree, what the picker shows instead is explained |
| `MCMigrations` | `MCMigrations` | 2 runners, 2 versions of 2 statements (one cannot be replayed), any files to begin with, 1 stop or removal, 1 change of the directory, fairness; 700 thousand states | all properties of the migrations |

Every property of a passing run has a mutant in `PROJECT.json`: a definition next to the one it
replaces, with a plausible bug, under which the run finds the property violated.

## Fairness, deadlock and bounds

**Fairness.**  Safety runs assume none, except where a cfg also has liveness.

- `TopoEngine!Fairness`: the two goroutines are scheduled, their statements end, the ticker
  exists and fires.  Nothing is fair about spans, boots, stops or the clock.
- `Ingest`: each call has its goroutine, and what it asks of ClickHouse ends with a result or an
  error, since the driver gives up on a read that takes too long (external; five minutes unless
  configured); main goes on and a deadline passes.  *Nothing* is assumed of PostgreSQL, which may
  hang: neither of the metering worker nor of `AuthStep`, whose query
  (`auth/resolver_pg.go:31`) has no deadline but one the client may have sent.
- `Annotations`: the pruner's goroutine runs and its ticker fires.  That passes may fail is
  allowed, and the number of faults is bounded, so one succeeds.
- `Migrations`: a container runs until it exits; the operator, who has to (the services depend
  on `service_completed_successfully`, and compose restarts neither), brings ClickHouse and the
  runner up until both are.  The number of stops is bounded, so one run is undisturbed.
- `LogsPage`, `WindowPage`: the event loop runs what it can, the guard of the router ends and
  (for `PageCatchesUp`) requests are answered, since axios gives up after 10 s.

**Deadlock** is checked except where the system may really stop: `Ingest` (the process exits and
the calls of the model end), `Session`, `ServiceReads` and `SignalReads` (nobody has to send
another request), `LogsPage` and `WindowPage` (nobody has to click).  `TopoEngine` has the action `Horizon`
for the end of the model's time, in an idle engine only: any other stop would be reported.

**Bounds** are constants: `MaxClock`, `MaxLag`, `MaxFault`, `MaxCrash` (engine), `MaxClock`,
`MaxFault` (annotations), `MaxFault`, `MaxRegroup`, `MaxAudit`, and the pool `Call` (session),
`MaxCalls`, `MaxRows`, `MaxGraph`, `MaxLookup` (service reads), `MaxClock`, `MaxWalk`
(trace and log reads), `MaxFault`, `MaxEdit` (migrations), `MaxFail`, `MaxApply`, `MaxOutside`,
`MaxPick`, `MaxTick` (pages).  Why they are enough:

- The engine: window + 3 minutes have a bucket before the boot, the buckets of Catchup, one the
  tick aggregates meanwhile, and a late arrival; the stop happens during catchup or in a round.
- `QueueCap = 2` with four calls has a queue that is empty, half full, full, and one more call.
- Retention 1 of days 0 to 3: a key is used, expires, is freed, and used again; the third try
  meets the second row.
- Two requests in flight have every pair of overlapping login, restore and switch; a third only
  repeats one.  `MaxAudit` = 1 bounds *different* rows of `audit_log`.
- Two names and two rows have a name that is a callee of both kinds, a tie, a cut service and a
  row that comes between two queries; two windows, the shorter one the default, have details that
  are asked for with a shorter and with a longer window than the page's.
- A walk with limit 1 over the three traces or logs of a tenant has three pages; an hour of four
  instants and a second of two, with a clock up to eight, let the window pass a row while the
  walk is under way and round a bound either way; two equal keys and a trace of two spans that
  arrive in either order are among the rows.
- Two versions of two statements have a run that is cut within a file, between files and before
  the record; the second cannot be replayed, so a second run, overlapping or later, can clash.
- Three calls of apply() with two navigations have a cancelled one on either side.

What a theorem below states holds for every value of these constants.

## Proofs

Eight modules have theorems: `TopoEngineProofs` (with the lemmas on the tables),
`IngestProofs`, `AnnotationsProofs`, `SessionProofs`, `ServiceReadsProofs`, `SignalReadsProofs`,
`MigrationsProofs`, `PageProofs`.  All rest on the named assumption of the module (types of
the constants, the "no ..." values being outside of their sets), and nothing else, unless a
theorem says so.

- **Engine.**  `TypeCorrect`, `WorksOnClosedMinutes`, `RowsAreComplete`, `NothingRegresses`,
  `EngineImplementsLedger`, `WorkIsBounded`, `LossesAreExplained`.  The properties are not
  inductive: a bucket is published by a job that read it earlier.  So `Inv` also says of each job
  that it works on a closed bucket and, between its read and its write, holds every settled span
  of its bucket and only spans of it; the settled spans of a closed bucket no longer change, and
  that is what makes a late write harmless.  A tick in the channel is at most the present minute.
  The refinement follows from the same invariant: a `WritePass` is a `PublishClosed`, and every
  other step stores a span, passes a minute or stutters.  `WorkIsBounded` needs finite sets: a
  pass that ends hands its place on, a goroutine that starts takes one below the limit.
- **Engine, losses.**  `Healing` has three parts, all under the condition that no minute began
  with work left over.  `Paced`: Catchup has the minute of the boot for itself and a tick the
  minute it fired in.  `Progress`: every pass of the window is *accounted for* (healed, lost, or
  a services pass in flight) or still *ahead* of Catchup, of the tick loop or of an edges pass.
  `Prefix`: what is not later than a bucket with an edges row is accounted for, which also holds
  while the engine is down, and is why Catchup may skip what `lastCompletedBucket` passes over:
  an edges row is published only when nothing older of its tenant is ahead
  (`NothingOlderAhead`).  This is where `MCTopoGap` goes wrong: without `Paced` it does not hold.
  `StopsLoseNoEdgesHolds` adds `Blameless`: what is lost without a failed statement is the
  services pass of a bucket, and only after a stop.
- **Engine, ledger.**  `LedgerKeepsRows`: the ledger alone, with no process, satisfies
  `RowsComplete` and `RowsNeverRegress` (`LedgerInv`), so together with the refinement the
  abstraction promises its readers what the engine was shown to do.
- **Ingest.**  `TypeCorrect`, `EventsAreConserved`, `CleanExitLosesNothing`, `PanicNeedsDeadline`.
  The invariant ties the progress of main to the channel and the worker: open until
  `CloseQueue`; once the receiver has stopped, calls in flight are HTTP calls beyond the
  deadline; a stopped worker has left nothing behind.
- **Annotations.**  `TypeCorrect`, `KeyAnnotatesOnce`, `AnswersAreOwn`, `NoRowsMeansPruned`,
  `AnnotationsImplementStore`, `StoreAnnotatesOnce`.  A
  row that has lost its key is expired, so a new row with the key is later by more than the
  retention; and what a request conflicted with has the key or has lost it to the pruner.
  In the refinement an INSERT that commits is a `Create`, whether or not its answer comes, the
  SELECT that finds a row a `Recall`, a prune a `Free`, and everything else stutters; it needs
  that an answered request has ended.  That a key annotates once follows from the store alone.
- **Session.**  `TypeCorrect` and `SwitchesStayInDomain`, for any number of tabs and requests.
  `Shape` adds to the types what a request of each kind carries.  `Reach`: until a tenant moves
  after it passed the middleware, a switch of a domain key acts within its domain and carries
  that domain, so that Switch, which compares with the tenant the request *acts for*, stays in it
  as well.  `PillIsHonest` is for one tab (`OneTab`; with two it
  is false) and any number of requests: `Honest` says that at most one login or restore is
  under way, that it went out with what localStorage still holds, and that a tab in the app has
  as its active tenant the one that fits the key and header its next request will have.
  `ActiveNeedsGrant`, for one tab too, adds `KeyOwns`: the tenant in localStorage was granted to
  the key there, and while a key is asked for there is none, which is what makes a failed login,
  after which the key alone is forgotten, and the next login harmless; and `SwitchesRecorded`:
  the answer to a switch comes after its row.
- **Service reads.**  `TypeCorrect`, `OrderIsIgnored`, `AnswersAreClosed`, `SmallGraphsAreWhole`,
  `LinksDoResolve`, `ShownEdgesAreDependencies`.  The invariant of the first four is the one of
  the scan: after any subset of the rows, the kind of a name is that function of the subset.  The
  other two need `Kept`: while no row has left a window, everything the graphs and links of that
  window and the shorter ones were made of is still in it, and what a lookup has not found yet
  is still to be found.
- **Trace and log reads.**  `TypeCorrect`, `SkipsNeedMovesHolds`, `RepeatsNeedChangesHolds`,
  `OpenedKeepsPromiseHolds`, `FreshRowsAreListedHolds`, `LogsAreNeverSkippedHolds`, for any rows, queries, limits and
  walks.  Most of the module is about ranks: in a finite strict total order, a page is the set
  of elements with a rank in an interval, adding elements never lowers a rank, and some element
  has each rank below the cardinality.  On that rests the invariant of the walk: what it has not
  listed of its first query has a rank of at least the offset.  The groups of logs are rows and
  their keys are timestamps, which no later row changes: in a fixed window nothing moves.
- **Migrations.**  `TypeCorrect`, `PassedAreAppliedHolds`, `AppliedInOrderHolds`,
  `ReplaysAreExplained`, `MigrationsImplementLedger`, and `LedgerIsHonest`, which is about the
  ledger alone: what is recorded has been applied.  `DiskInv`: a runner knows of the disk no more than is true (what
  it takes as recorded is complete, the statements before its place are executed), although
  others write to it.  `ReplayInv` adds, for runners that did not overlap and a history
  without a lost answer, that what is executed without being recorded is of the file in hand.
- **Log page.**  `TypeCorrect`, `OncePerApplyHolds`, `MissesAreExplained`, `ShowsLastAskedHolds`.
  The invariant counts: calls of apply() are loaded, resumable or waiting for the navigation
  under way, and the flag is owed to a call whose own navigation did not take it.
- **Pages with a window.**  `WindowTypeCorrect`, `PageShowsUrlWindowHolds`,
  `PickerStraysAreExplained`.  `WindowInv` says that nobody suppresses the watcher of the page, so
  that its window is the URL's (`PageFollows`); that a page with no load to send has sent its
  last one with its window, so that no answer to an older one is shown (`LastLoadIsCurrent`); and
  that, while no pick is abandoned, the URL has the picker's window, is on the way to it by a pick
  (`PickUnderWay`), or on another way that the picker, whose flag is down, will see
  (`PickerLeads`, `PickerAtRest`).

What is only model-checked: everything about liveness (`BecomesReady`, `RoundsEnd`, `CallsEnd`,
`StopsEventually`, `ExpiredKeysFreed`, `EveryApplyLoads`, `PageCatchesUp`, `EventuallyApplied`),
which is out of the reach of the prover as is ENABLED.  Every safety property and every
refinement the passing runs check is a theorem, and so are the type invariants, which the runs
therefore need not list.  No module
has a RECURSIVE operator, and nothing is proved by induction over data.

## Where the code departs from what is said of it

Two runs end in a violation; `findings` in `PROJECT.json` quotes the lines.

1. `MCTopoGap`: a tick that publishes while Catchup has not yet asked for a tenant's last bucket
   makes Catchup skip all the buckets missed while the engine was down (`topoengine/engine.go:119`
   against its comment at 84-85 and the one at `cmd/topo-engine/main.go:115-116`).
2. `MCSessionUngrouped`: the client sends `X-Tenant-Id` for the key's own tenant as well, and the
   middleware refuses every header of a domain key without a domain.

Met while modelling, visible in the models, without a run of their own:

- Spans that arrive within the minute after their bucket has closed are never aggregated
  (`topoengine/bucket.go:6-7` expects none).  If the parent of a span arrives that late and the
  bucket is run again, the span is counted in two edges.
- An error of `lastCompletedBucket` is an empty answer (`topoengine/state.go:18`): Catchup replays
  the whole window.  `docs/plans/2026-05-27-slice-3-plan.md:4645` expects the engine to exit.
- A call that outlives the receiver's deadline meets the closed metering channel and panics;
  `cmd/ingester/main.go` says that no events come once the receiver has stopped.
- While PostgreSQL hangs, a gRPC call waits in `ResolveBearer`, `GracefulStop` waits for the
  call, and the 30 s of the shutdown (`cmd/ingester/main.go:105`) are over without effect: the
  process never exits by itself.  `StopsEventually` has this case, `HeldByPG`, as its exception.
- The links to `/services/<name>` have no `?window` (`OverviewPage.vue:28`, `TopologyPage.vue:40`),
  so the details open with the default of one hour (`useTimeWindow.ts:24`, `:39-41`), although
  `docs/specs/2026-05-27-slice-3-services-topology-design.md:647` calls `?window=` the single source
  of truth across the three pages.  A service shown under 6h or 24h whose rows are older
  than an hour is answered 404, and an edge shown there is no dependency, without any row having
  left a window.  `Follow` has it; `LinksResolve` and `ShownEdgeIsDependency` state what is left.
- A root client span that names a peer is counted as an external edge: its parent is stored as
  the hex of eight zero bytes (`ingest/spans.go:36`, `:40`), so that `b.parent_span_id != ''`
  (`topoengine/edges.go:80`) is always true; the comment at `:19-22` speaks of a parent that is
  missing or in the same service.
- A retry whose key is pruned between INSERT and SELECT is answered 500
  (`query/annotations_repo.go:45-47`).
- A switch answered after a logout leaves `activeTenantId` in localStorage (`auth.ts:43`), for the
  next key.  A tenant so left, if the next key has its domain, is active without an audit row of
  that key (`docs/decisions`, ADR-0004, lines 59-60).  `ActiveWasGranted` has it as its exception
  `strayed`; it says that no other way leads there.
- A persisted tenant that has left the domain makes `restore` fail and log out (`auth.ts:77`),
  before `loadTenants` could fall back to the key's own tenant.
- Tabs share localStorage: with two tabs, or with logins that overlap, the pill can name another
  tenant than the one served.  `ShownIsServed` and `ActiveWasGranted` are checked and
  proved for one tab and conditioned on `~overlapped`.
- `node_limit` cuts externals with their services (`query/topology_repo.go:165`, `:175`, against
  the comment at `:51`), and a peer that has the name of a service is dropped as an external
  (`:74`, `:112`); `WholeWhenSmall` has the exception.
- A service with spans of other kinds than Server and Client only has no details
  (`query/services_repo.go:159`, `:209`, against `:130-131`); `Listed` leaves such services out,
  so that none of them is a link.
- apply() on an unchanged URL, or one whose navigation is cancelled, leaves `suppressNextWatch` set
  (`LogsView.vue:75`), and the next change from outside is not loaded, against the comment at
  80; `MissesExplained` states how far that goes.
- The load of a log page follows the form, the address bar follows the URL (`LogsView.vue:77`,
  `:64`): an edit during a navigation shows one and loads the other.
- The picker's flag stays set when its window is the URL's already or its navigation is
  cancelled (`useTimeWindow.ts:47`), and it then shows another window than URL and page until it
  next goes along with the URL; `PickerStraysExplained` says that nothing else does that.
- The list of traces filters spans before it groups them (`query/traces_repo.go:50-55`): its
  root service, span count and duration are those of the spans that match, not of the trace.
- A log with neither timestamp is stored at the epoch (`logingest/logs.go:43`): its time of arrival
  becomes `observed_ts` only, and the default window never shows it.
- A limit out of range is clamped for traces (`query/traces_handler.go:69-74`), so that a client
  that adds its own limit to the offset skips items, and refused for logs
  (`query/logs_handler.go:55`); `Unclamped` is the condition of the properties of a walk.
- `deploy/ch-migrate.sh:86-88` calls apply and record atomic because they are sent together; the
  client executes statement by statement, and a stop within a file leaves some of it executed and
  not recorded (`docs/decisions/0002-clickhouse-schema-migrations.md:39` concedes it).
- `docs/decisions/0002-clickhouse-schema-migrations.md:49`: one file is one row of the tracking
  table.  Runners that overlap, or one whose query of what is recorded fails, add a second.
- A query of what is recorded that fails on the way leaves a part of the list (`|| echo ""` adds
  a line to what was printed), so that some versions are executed again; `ReplaysExplained` has
  it as a cause (`unread`).
- A file that goes between `find` and `awk` is passed over, and the run ends with 0.

## Not modelled

- Minutes whose ticks were dropped because a round took longer than a minute: `FireTicker` drops
  them, and `LossExplained` is conditioned on `~overran`, which excludes them.
- Leaving a page: `Page!Navigate` is a navigation to the page itself with another query.  A page
  that is left and entered again is mounted anew, with `PageInit`; answers to the one that is gone
  reach nobody.
- The time between the lookups of the middleware (the tenant of the key, and the one of the
  header), and between those of `/v1/tenants`: each of the two is one step of `Session`.
- Trace pages (`frontend/src/views/Traces`): their `load()` is that of `Page`; a detail that fails
  to load keeps the previous spans, the selected span is not reset, the waterfall follows parents.
- The parameters of the lists that are not numbers or times (`min_duration_ms` of NaN), the 500
  of a query that fails, the time between the computation of a window and its query.
- `MustTenantScope`, a check of SQL text; conversion of attributes; hashing of keys; percentiles
  and rates; metrics; configuration (its values are the constants); the layout of graph and
  waterfall; presentation; the programs that seed a database.
- PostgreSQL, ClickHouse, otlpreceiver, vue-router, the clock and the operator are modelled
  from how the code uses them, and marked external in `map`.

## Plan

Written, checked and proved, in this order: `TopoTables`, `TopoEngine`, `TopoLedger`; `Ingest`;
`Annotations`, `AnnotationStore`; `Session`; `ServiceReads`; `Page`, `LogsPage`, `WindowPage`;
`SignalReads`; `Migrations`, `SchemaLedger`.

Next:

1. The tables as the engine writes them composed with `ServiceReads`: an edge on the graph is an
   edge of settled spans.
2. A clock finer than the minute for the boot of the engine: the minute that ends between
   Catchup's reading of the clock and the ticker's start.
3. The layout of the waterfall (depth and order of spans with missing parents) as a function
   against a reference definition.
