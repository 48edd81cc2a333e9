----------------------------- MODULE SignalReads -----------------------------
(***************************************************************************)
(* The reads of the query service over the rows the ingesters store        *)
(* (backend/internal/query): GET /v1/traces, GET /v1/traces/{trace_id} and *)
(* GET /v1/logs, with the timestamps of the rows (logingest/logs.go).      *)
(*                                                                         *)
(* A list is one query: the rows of the tenant in a window of time that    *)
(* pass the filter, grouped by trace (a log is a group of its own), sorted *)
(* by a key, cut with LIMIT limit + 1 OFFSET offset.  ClickHouse orders    *)
(* groups with the same key as it likes, in each query anew.  A client     *)
(* walks through the pages while rows go on arriving and, with the default *)
(* window, while the window moves.                                         *)
(*                                                                         *)
(* Operation, severity, ids and body filter as service does and are left   *)
(* out; so is the content of an item, apart from the spans it describes.   *)
(***************************************************************************)
EXTENDS Integers, FiniteSets

CONSTANTS
  Row,       \* spans and log records
  Data,      \* Data[r]: what the client sent as r
  Tenant,
  Trace,
  Service,
  AnyService,
  Hour,      \* the default window
  Second,    \* instants in a second
  MaxDuration,
  MaxLimit,  \* greatest limit: 1000 for traces, 500 for logs
  Explicit,  \* windows a client asks for, with one bound or both
  Asked,     \* the queries clients walk through
  MaxClock,  \* bound: instants
  MaxWalk    \* bound: walks through the pages

Signal == {"traces", "logs"}

Unset == 0  \* a timestamp the client did not set; the epoch if it is stored

Instant == 0..(MaxClock + Second)

NotGiven == -1  \* a bound the request leaves to the default

NoWindow == [from |-> NotGiven, to |-> NotGiven]

Query == [signal : Signal, tenant : Tenant, service : Service \cup {AnyService},
          longer : Nat, window : Explicit \cup {NoWindow},
          sort : {"ts", "duration"}, order : {"asc", "desc"}, limit : Nat]

ASSUME SignalReadsAssumption ==
  /\ IsFiniteSet(Row) /\ Row \cap Trace = {} /\ AnyService \notin Service
  /\ Data \in [Row -> [signal : Signal, tenant : Tenant, trace : Trace, service : Service,
                       ts : Instant, observed : Instant, duration : 0..MaxDuration]]
  /\ {Hour, Second, MaxLimit} \subseteq Nat \ {0} /\ {MaxDuration, MaxClock, MaxWalk} \subseteq Nat
  /\ Hour < MaxClock
  /\ Explicit \subseteq [from : Instant \cup {NotGiven}, to : Instant \cup {NotGiven}]
  /\ Asked \subseteq Query

VARIABLES
  clock,
  stored,  \* the rows of traces_v1 and logs_v1
  walk,    \* a client that asks for one page after the other
  opened,  \* the answer to GET /v1/traces/{trace_id} for an item of a page
  walks

vars == <<clock, stored, walk, opened, walks>>

Group == Trace \cup Row

-------------------------------------------------------------------------------
(* What a row is stored with. *)

\* ts of a row: a log whose own timestamp is unset takes the observed one.  A log that has
\* neither keeps the zero time: the time of arrival becomes its observed_ts only.
Stamp(r) ==
  IF Data[r].signal = "logs" /\ Data[r].ts = Unset THEN Data[r].observed ELSE Data[r].ts

GroupOf(r) == IF Data[r].signal = "traces" THEN Data[r].trace ELSE r

-------------------------------------------------------------------------------
(* parseListParams, LogsHandler.List: the parameters. *)

\* The driver binds an instant as a DateTime, which has whole seconds.
Bound(m) == m - (m % Second)

\* Mutant of DefaultWindow: logs without the second of lookahead.
DefaultWindowUpToNow(signal) == [from |-> clock - Hour, to |-> clock]

DefaultWindow(signal) ==
  [from |-> clock - Hour, to |-> IF signal = "logs" THEN clock + Second ELSE clock]

\* Each bound has a default of its own.
WindowOf(q) ==
  [bound \in {"from", "to"} |->
     IF q.window[bound] = NotGiven THEN DefaultWindow(q.signal)[bound] ELSE q.window[bound]]

\* Logs come newest first, and a limit out of range is refused; traces clamp it.
Accepted(q) ==
  q.signal = "logs" => /\ q.limit \in 1..MaxLimit
                       /\ q.sort = "ts" /\ q.order = "desc" /\ q.longer = 0

Limit(q) == IF q.limit < 1 THEN 1 ELSE IF q.limit > MaxLimit THEN MaxLimit ELSE q.limit

-------------------------------------------------------------------------------
(* TracesRepo.List, LogsRepo.List: the query. *)

Passes(q, r) ==
  /\ Data[r].signal = q.signal /\ Data[r].tenant = q.tenant
  /\ q.service \in {AnyService, Data[r].service}
  /\ Data[r].duration >= q.longer

\* WHERE, before GROUP BY: an item describes the spans of its trace that pass.
Rows(q) ==
  {r \in stored : /\ Passes(q, r)
                  /\ Bound(WindowOf(q).from) <= Stamp(r)
                  /\ Stamp(r) < Bound(WindowOf(q).to)}

RowsOf(q, g) == {r \in Rows(q) : GroupOf(r) = g}

\* The sum of the durations, counted.
TotalDuration(S) ==
  Cardinality({p \in S \X (1..MaxDuration) : p[2] <= Data[p[1]].duration})

Earliest(S) == CHOOSE m \in {Stamp(r) : r \in S} : \A r \in S : m <= Stamp(r)

\* The groups of a query, each with what it is sorted by.
Keys(q) ==
  [g \in {GroupOf(r) : r \in Rows(q)} |->
     IF q.sort = "ts" THEN Earliest(RowsOf(q, g)) ELSE TotalDuration(RowsOf(q, g))]

Before(q, k, l) == IF q.order = "asc" THEN k < l ELSE l < k

\* The groups ahead of g; those with its key come as tie has them.
Ahead(q, keys, tie, g) ==
  {h \in DOMAIN keys : \/ Before(q, keys[h], keys[g])
                       \/ keys[h] = keys[g] /\ tie[h] < tie[g]}

Ties(G) == {f \in [G -> 1..Cardinality(G)] : \A g, h \in G : f[g] = f[h] => g = h}

Fetched(q, keys, tie, offset, count) ==
  {g \in DOMAIN keys : /\ offset <= Cardinality(Ahead(q, keys, tie, g))
                       /\ Cardinality(Ahead(q, keys, tie, g)) < offset + count}

\* Mutants of Page and HasMore: the extra row is kept; it is not asked for.
PageUntrimmed(q, keys, tie, offset) == Fetched(q, keys, tie, offset, Limit(q) + 1)

HasMoreNever(q, keys, tie, offset) ==
  Cardinality(Fetched(q, keys, tie, offset, Limit(q))) > Limit(q)

\* limit + 1 rows are fetched to learn whether there are more; limit are returned.
Page(q, keys, tie, offset) == Fetched(q, keys, tie, offset, Limit(q))

HasMore(q, keys, tie, offset) ==
  Cardinality(Fetched(q, keys, tie, offset, Limit(q) + 1)) > Limit(q)

-------------------------------------------------------------------------------
(* The environment: rows are stored in any order, however old, and time passes. *)

NoItems == [g \in {} |-> 0]

NoWalk == [pc |-> "idle", query |-> [limit |-> 0], offset |-> 0, keys |-> NoItems,
           first |-> {}, listed |-> {}, items |-> NoItems,
           moved |-> FALSE, grew |-> FALSE, tied |-> FALSE, repeated |-> FALSE]

\* promised: the spans the list described, when the client asks for what its list has shown.
NothingOpened(t) == [tenant |-> t, promised |-> {}, spans |-> {}]

Init ==
  /\ clock = Hour + 1
  /\ stored = {} /\ walk = NoWalk /\ walks = 0
  /\ \E t \in Tenant : opened = NothingOpened(t)

StoreRow(r) ==
  /\ r \notin stored
  /\ stored' = stored \cup {r}
  /\ UNCHANGED <<clock, walk, opened, walks>>

Tick ==
  /\ clock < MaxClock
  /\ clock' = clock + 1
  /\ UNCHANGED <<stored, walk, opened, walks>>

-------------------------------------------------------------------------------
(* A client that walks through the pages, adding its limit to its offset. *)

\* The walk once a page has come: what has happened to the groups since the page before is
\* recorded in moved, grew and tied.
Listed(w, keys, tie) ==
  LET page == Page(w.query, keys, tie, w.offset)
  IN [pc |-> IF HasMore(w.query, keys, tie, w.offset) THEN "more" ELSE "done",
      query |-> w.query, offset |-> w.offset + w.query.limit, keys |-> keys,
      first |-> w.first, listed |-> w.listed \cup page,
      items |-> [g \in page |-> RowsOf(w.query, g)],
      moved |-> w.moved \/ \E g \in DOMAIN w.keys : g \notin DOMAIN keys \/ keys[g] # w.keys[g],
      grew |-> w.grew \/ ~(DOMAIN keys \subseteq DOMAIN w.keys),
      tied |-> w.tied \/ \E g, h \in DOMAIN keys : g # h /\ keys[g] = keys[h],
      repeated |-> w.repeated \/ page \cap w.listed # {}]

FirstPage(q) ==
  /\ walks < MaxWalk
  /\ walks' = walks + 1
  /\ Accepted(q)
  /\ LET keys == Keys(q)
         w == [NoWalk EXCEPT !.query = q, !.keys = keys, !.first = DOMAIN keys]
     IN \E tie \in Ties(DOMAIN keys) : walk' = Listed(w, keys, tie)
  /\ UNCHANGED <<clock, stored, opened>>

NextPage ==
  /\ walk.pc = "more"
  /\ LET keys == Keys(walk.query)
     IN \E tie \in Ties(DOMAIN keys) : walk' = Listed(walk, keys, tie)
  /\ UNCHANGED <<clock, stored, opened, walks>>

\* Mutant of SpansOf: the trace of every tenant.
SpansOfAnyTenant(t, g) == {r \in stored : Data[r].signal = "traces" /\ Data[r].trace = g}

\* TracesRepo.Detail: no window.
SpansOf(t, g) ==
  {r \in stored : Data[r].signal = "traces" /\ Data[r].tenant = t /\ Data[r].trace = g}

\* The tenant t has the trace g on the page.
Shows(t, g) ==
  /\ walk.pc # "idle" /\ walk.query.signal = "traces" /\ walk.query.tenant = t
  /\ g \in DOMAIN walk.items

\* GET /v1/traces/{trace_id}: any trace, of whatever tenant the request is for; no span at
\* all is a 404.
Open(t, g) ==
  /\ opened' = [tenant |-> t, promised |-> IF Shows(t, g) THEN walk.items[g] ELSE {},
                spans |-> SpansOf(t, g)]
  /\ UNCHANGED <<clock, stored, walk, walks>>

-------------------------------------------------------------------------------
Next ==
  \/ Tick \/ NextPage
  \/ \E r \in Row : StoreRow(r)
  \/ \E q \in Asked : FirstPage(q)
  \/ \E t \in Tenant, g \in Trace : Open(t, g)

Spec == Init /\ [][Next]_vars

-------------------------------------------------------------------------------
(* Properties. *)

\* The client asks for pages of the size it gets.
Unclamped == walk.query.limit \in 1..MaxLimit

\* Paging with an offset over a table that grows: a group the first query had is missed by a
\* walk only if a group was moved by a new span of its trace or by the window, or if two
\* groups had the same key.  Groups that arrive push others back, never out of the walk, so
\* that logs with an explicit window and distinct timestamps are never missed.
SkipsNeedMoves ==
  walk.pc = "done" /\ Unclamped /\ ~walk.moved /\ ~walk.tied => walk.first \subseteq walk.listed

\* So a client that walks through the logs from an instant of its own on misses none it could
\* have had at first, whatever is stored meanwhile, if no two of them have the same timestamp.
LogsAreNeverSkipped ==
  LET q == walk.query
  IN walk.pc = "done" /\ q.signal = "logs" /\ q.window.from # NotGiven
       /\ (\A r, s \in Rows(q) : Stamp(r) = Stamp(s) => r = s)
     => walk.first \subseteq walk.listed

\* A group is listed twice only if groups came, moved or had the same key, whatever was
\* stored meanwhile under other tenants and out of the filter and the window.
RepeatsNeedChanges ==
  walk.repeated /\ Unclamped => walk.moved \/ walk.grew \/ walk.tied

\* What the list has shown of a trace is there when its tenant opens it, however late, under
\* whatever window it was listed; and whoever opens a trace, shown or not, sees no span of
\* another tenant, although tenants may have traces with the same id.
OpenedKeepsPromise ==
  /\ opened.promised \subseteq opened.spans
  /\ \A r \in opened.spans : Data[r].tenant = opened.tenant

\* A row of the last hour is in the default window as soon as it is stored: a log at once,
\* although its timestamp may be set by either of two fields and the bound is rounded down to
\* the second, and a span when its second is over (SLICE-1, drift D1).
FreshRowsAreListed ==
  \A r \in stored :
    LET d == Data[r]
        sent == IF d.ts # Unset THEN d.ts ELSE d.observed
        q == [signal |-> d.signal, tenant |-> d.tenant, service |-> AnyService, longer |-> 0,
              window |-> NoWindow, sort |-> "ts", order |-> "desc", limit |-> MaxLimit]
    IN /\ d.signal = "logs" /\ clock - Hour <= sent /\ sent <= clock => r \in Rows(q)
       /\ d.signal = "traces" /\ clock - Hour <= d.ts /\ d.ts <= clock - Second => r \in Rows(q)

\* Every variable has its type.
TypeOK ==
  /\ clock \in Instant /\ stored \subseteq Row /\ walks \in 0..MaxWalk
  /\ walk.pc \in {"idle", "more", "done"} /\ walk.offset \in Nat
  /\ walk.pc # "idle" => walk.query \in Asked
  /\ walk.first \cup walk.listed \subseteq Group /\ DOMAIN walk.items \subseteq walk.listed
  /\ DOMAIN walk.keys \subseteq Group
  /\ {walk.moved, walk.grew, walk.tied, walk.repeated} \subseteq BOOLEAN
  /\ opened.tenant \in Tenant /\ opened.promised \cup opened.spans \subseteq Row
===============================================================================
