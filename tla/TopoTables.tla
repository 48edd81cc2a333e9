------------------------------ MODULE TopoTables ------------------------------
(***************************************************************************)
(* The ClickHouse tables the topology engine reads and writes: traces_v1,  *)
(* topology_edges_v1 and service_stats_v1, and the two INSERT ... SELECT   *)
(* statements over them (topoengine/edges.go, topoengine/services.go).     *)
(*                                                                         *)
(* A minute is a number; minute m is bucket m while clock = m, and closed  *)
(* afterwards.  A row (calls, errors, p95) is abstracted to its key and    *)
(* the spans it summarises; a table is read with FINAL, so of the rows     *)
(* with one key (ReplacingMergeTree) only the newest exists.               *)
(***************************************************************************)
EXTENDS Integers

CONSTANTS
  Tenant,             \* rows of the PG table tenants
  Span, NoSpan,       \* identities of spans
  LostSpan,           \* a parent that is never stored, of another system or not sampled
  Service, Peer,      \* names of services, and of what they call outside the platform
  NoPeer,
  ParentOf,           \* ParentOf[s]: the span s names as its parent, or NoSpan
  ServiceOf,          \* ServiceOf[s]: the service that emitted s
  KindOf,             \* KindOf[s]: its kind
  PeerOf,             \* PeerOf[s]: the peer its attributes name, or NoPeer
  MaxClock            \* bound: the last minute of the model

None == -1
Minute == 0..MaxClock
Pass == {"edges", "services"}
SpanKind == {"Unspecified", "Internal", "Server", "Client", "Producer", "Consumer"}

ASSUME TablesAssumption ==
  /\ MaxClock \in Nat
  /\ {NoSpan, LostSpan} \cap Span = {} /\ NoPeer \notin Peer
  /\ ParentOf \in [Span -> Span \cup {NoSpan, LostSpan}]
  /\ ServiceOf \in [Span -> Service]
  /\ KindOf \in [Span -> SpanKind]
  /\ PeerOf \in [Span -> Peer \cup {NoPeer}]

VARIABLES
  clock,    \* the current minute
  traces,   \* traces[t][b]: the spans of tenant t in traces_v1 that start in minute b
  arrived,  \* history: the minute in which a span arrived
  rows      \* rows[p][t][b]: the rows of pass p for bucket b, an entry for each span counted

tables  == <<traces, arrived, rows>>

Key == [from : Service, to : Service \cup Peer \cup {NoPeer},
        kind : {"service", "external"} \cup SpanKind]
Entry == [key : Key, span : Span]

TablesTypeOK ==
  /\ clock \in Minute
  /\ traces \in [Tenant -> [Minute -> SUBSET Span]]
  /\ arrived \in [Span -> Minute \cup {None}]
  /\ rows \in [Pass -> [Tenant -> [Minute -> SUBSET Entry]]]

EmptyTables ==
  /\ traces = [t \in Tenant |-> [b \in Minute |-> {}]]
  /\ arrived = [s \in Span |-> None]
  /\ rows = [p \in Pass |-> [t \in Tenant |-> [b \in Minute |-> {}]]]

\* The spans the self-join finds: those of the tenant, whatever their minute.
Stored(t) == {s \in Span : \E b \in Minute : s \in traces[t][b]}

\* s was called from another service by a span that is stored.
CalledByOther(t, s) ==
  ParentOf[s] \in Stored(t) /\ ServiceOf[ParentOf[s]] # ServiceOf[s]

\* The row in which a pass counts s: of the edge from the calling service, else of the edge
\* to the peer; of the service and kind of s.
KeyOf(p, t, s) ==
  CASE p = "services" ->
         [from |-> ServiceOf[s], to |-> NoPeer, kind |-> KindOf[s]]
    [] p = "edges" /\ CalledByOther(t, s) ->
         [from |-> ServiceOf[ParentOf[s]], to |-> ServiceOf[s], kind |-> "service"]
    [] p = "edges" /\ ~CalledByOther(t, s) ->
         [from |-> ServiceOf[s], to |-> PeerOf[s], kind |-> "external"]

\* A root span is no exception: its parent_span_id is stored as the hex of zeros, not as ''.
CallsPeer(s) == KindOf[s] = "Client" /\ PeerOf[s] # NoPeer

\* edgesSQL has no row for a span that neither was called nor calls a peer.
Counts(p, t, s) == p = "edges" => CalledByOther(t, s) \/ CallsPeer(s)

EntryOf(p, t, s) == [key |-> KeyOf(p, t, s), span |-> s]

\* What the SELECT of a pass returns for the bucket now.
Summary(p, t, b) == {EntryOf(p, t, s) : s \in {r \in traces[t][b] : Counts(p, t, r)}}

\* The ingester appends a span to the minute of its start timestamp, which is what the client
\* says: it may be in the future.
Store(s, t, b) ==
  /\ arrived[s] = None
  /\ traces' = [traces EXCEPT ![t][b] = @ \cup {s}]
  /\ arrived' = [arrived EXCEPT ![s] = clock]
  /\ UNCHANGED <<clock, rows>>

\* The newest row of a key replaces the older ones; a key without a new row keeps its own.
Replacing(old, new) == {o \in old : \A n \in new : n.key # o.key} \cup new

\* Mutant of Publish: the partition of the bucket is dropped before the rows are inserted.
PublishDroppingPartition(p, t, b, new) ==
  /\ rows' = [rows EXCEPT ![p][t] = [c \in Minute |-> IF c = b THEN new ELSE {}]]
  /\ UNCHANGED <<clock, traces, arrived>>

Publish(p, t, b, new) ==
  /\ rows' = [rows EXCEPT ![p][t][b] = Replacing(@, new)]
  /\ UNCHANGED <<clock, traces, arrived>>

\* s was stored for t by the end of minute b.
StoredBy(t, s, b) == s \in Stored(t) /\ arrived[s] <= b

\* The spans of a bucket that were there when it closed (all of them, before that) with what
\* their row depends on: for an edge, the parent they name.
Settled(p, t, b) ==
  {s \in traces[t][b] :
     /\ arrived[s] <= b
     /\ p = "edges" => ParentOf[s] \notin Span \/ StoredBy(t, ParentOf[s], b)}

SettledSummary(p, t, b) ==
  {EntryOf(p, t, s) : s \in {r \in Settled(p, t, b) : Counts(p, t, r)}}

\* The rows of a tenant's bucket count spans of that tenant and that bucket only, and a row
\* that exists counts every settled span of its key: no interleaving of catchup and tick
\* publishes half a bucket.
RowsComplete ==
  \A p \in Pass, t \in Tenant, b \in Minute :
    /\ {r.span : r \in rows[p][t][b]} \subseteq traces[t][b]
    /\ \A r \in rows[p][t][b], e \in SettledSummary(p, t, b) :
         r.key = e.key => e \in rows[p][t][b]

\* Aggregating a bucket again, or twice at once, or stopping in the middle, never takes a
\* settled span out of the row that counts it.
RowsNeverRegress ==
  [][\A p \in Pass, t \in Tenant, b \in Minute :
       rows[p][t][b] \cap SettledSummary(p, t, b) \subseteq rows'[p][t][b]]_<<clock, tables>>
===============================================================================
