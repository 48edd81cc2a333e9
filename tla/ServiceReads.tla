---------------------------- MODULE ServiceReads ----------------------------
(***************************************************************************)
(* The reads of the query service over the two tables of the topology      *)
(* engine (backend/internal/query): GET /v1/topology, GET /v1/services and *)
(* GET /v1/services/{name}.                                                *)
(*                                                                         *)
(* /v1/topology runs two queries, one after the other, and assembles the   *)
(* graph from their rows in the order they come in; /v1/services/{name}    *)
(* runs three.  ClickHouse answers each query from the rows it has when it *)
(* starts, while the engine goes on inserting and rows leave the windows.  *)
(* Every request has a window of its own, and every window ends now: what  *)
(* is in a window is in all the longer ones.                               *)
(*                                                                         *)
(* The pages turn every service they show into a link to its details.  The *)
(* link has no ?window: the details open with the default one, whatever    *)
(* window the service was shown under.                                     *)
(*                                                                         *)
(* A call is a row of its own, so that sum(calls) is a number of rows.  The*)
(* calls of an edge only order the rows of an answer: any order is allowed.*)
(***************************************************************************)
EXTENDS Integers, FiniteSets

CONSTANTS
  Window,     \* lengths of the windows a request can ask for
  DefaultWindow,  \* the window of a request or a page that is given none
  Name,       \* names of services and of peers, in the order of strings
  DepLimit,   \* LIMIT of the dependency queries
  MaxLimit,   \* greatest node_limit and limit a request can ask for
  MaxCalls,   \* bound: calls of one service and span kind
  MaxRows,    \* bound: rows inserted
  MaxGraph,   \* bound: requests of /v1/topology
  MaxLookup   \* bound: requests of /v1/services/{name}

ASSUME ServiceReadsAssumption ==
  /\ Window \subseteq Nat /\ DefaultWindow \in Window
  /\ Name \subseteq Nat /\ IsFiniteSet(Name)
  /\ DepLimit \in Nat \ {0} /\ MaxLimit \in Nat \ {0}
  /\ {MaxCalls, MaxRows, MaxGraph, MaxLookup} \subseteq Nat

Kind == {"service", "external"}

\* An edge to a service joins two services; a peer may have the name of a service.
Edge == {e \in [caller : Name, callee : Name, kind : Kind] :
           e.kind = "service" => e.caller # e.callee}

Stat == [service : Name, span : {"Server", "Client", "Internal"}, call : 1..MaxCalls]

VARIABLES
  edges,   \* the rows of topology_edges_v1 in each window
  stats,   \* the rows of service_stats_v1 in each window
  rows,    \* rows inserted
  left,    \* the windows some row has left
  links,   \* services the pages have offered as links, and the windows of the pages
  graph,   \* the request of /v1/topology
  lookup,  \* the request of /v1/services/{name}
  graphs, lookups  \* requests made

vars == <<edges, stats, rows, left, links, graph, lookup, graphs, lookups>>

tables == <<edges, stats, rows, left>>

NoGraph == [pc |-> "idle", window |-> DefaultWindow, limit |-> 0, todo |-> {}, raw |-> {},
            kinds |-> [n \in Name |-> "none"], calls |-> [n \in Name |-> 0],
            services |-> {}, edges |-> {}, externals |-> {}]

\* offered: the windows under which the service had been shown when it was asked for;
\* known and shown: the edges of the graph at that time, and its window.
NoLookup == [pc |-> "idle", name |-> 0, window |-> DefaultWindow, offered |-> {},
             known |-> {}, shown |-> DefaultWindow, stats |-> {}, inbound |-> {}, outbound |-> {}]

Init ==
  /\ edges = [w \in Window |-> {}] /\ stats = [w \in Window |-> {}]
  /\ rows = 0 /\ left = {} /\ links = {}
  /\ graph = NoGraph /\ lookup = NoLookup
  /\ graphs = 0 /\ lookups = 0

-------------------------------------------------------------------------------
(* The engine inserts the rows of a closed minute, which may be an old one (Catchup): they  *)
(* are in the windows that reach back to it.  Each window slides over the rows.             *)

\* A table once row is in the windows from v on.
With(table, row, v) == [w \in Window |-> IF v <= w THEN table[w] \cup {row} ELSE table[w]]

InsertEdge(e, v) ==
  /\ rows < MaxRows
  /\ rows' = rows + 1
  /\ edges' = With(edges, e, v)
  /\ UNCHANGED <<stats, left, links, graph, lookup, graphs, lookups>>

InsertStat(s, v) ==
  /\ rows < MaxRows
  /\ rows' = rows + 1
  /\ stats' = With(stats, s, v)
  /\ UNCHANGED <<edges, left, links, graph, lookup, graphs, lookups>>

\* The rows of a table that are too old for the windows shorter than w.
Oldest(table, w) == {r \in table[w] : \A v \in Window : v < w => r \notin table[v]}

Leave(w) ==
  /\ left' = left \cup {w}
  /\ \/ \E e \in Oldest(edges, w) : edges' = [edges EXCEPT ![w] = @ \ {e}] /\ UNCHANGED stats
     \/ \E s \in Oldest(stats, w) : stats' = [stats EXCEPT ![w] = @ \ {s}] /\ UNCHANGED edges
  /\ UNCHANGED <<rows, links, graph, lookup, graphs, lookups>>

-------------------------------------------------------------------------------
(* GET /v1/topology: TopologyHandler.Get and TopologyRepo.Topology. *)

\* A node_limit outside of 1..MaxLimit and an unknown window are refused with 400.
GraphAsk(limit, w) ==
  /\ graph.pc \in {"idle", "answered"}
  /\ graphs < MaxGraph
  /\ graphs' = graphs + 1
  /\ graph' = [NoGraph EXCEPT !.pc = "edges", !.limit = limit, !.window = w]
  /\ UNCHANGED <<tables, links, lookup, lookups>>

GraphEdges ==
  /\ graph.pc = "edges"
  /\ graph' = [graph EXCEPT !.pc = "scan", !.todo = edges[graph.window]]
  /\ UNCHANGED <<tables, links, lookup, graphs, lookups>>

\* Mutant of Upgrade: the kind a name was first seen with stays.
FirstKind(known, kind) == IF known = "none" THEN kind ELSE known

\* The kind of a callee after one more row: a service stays a service.
Upgrade(known, kind) ==
  IF known = "none" \/ (known = "external" /\ kind = "service") THEN kind ELSE known

\* The kinds after the row e: first its caller, then its callee.
KindsAfter(e) ==
  LET seen == [graph.kinds EXCEPT ![e.caller] = "service"]
  IN [seen EXCEPT ![e.callee] = Upgrade(seen[e.callee], e.kind)]

GraphScan(e) ==
  /\ graph.pc = "scan"
  /\ e \in graph.todo
  /\ graph' = [graph EXCEPT !.todo = @ \ {e}, !.raw = @ \cup {e},
                            !.kinds = KindsAfter(e)]
  /\ UNCHANGED <<tables, links, lookup, graphs, lookups>>

ServerCalls(n) ==
  Cardinality({s \in stats[graph.window] : s.service = n /\ s.span = "Server"})

\* A name that has Server calls and no edge becomes a service node.
GraphStats ==
  /\ graph.pc = "scan" /\ graph.todo = {}
  /\ graph' = [graph EXCEPT
       !.pc = "rank",
       !.calls = [n \in Name |-> ServerCalls(n)],
       !.kinds = [n \in Name |-> IF @[n] = "none" /\ ServerCalls(n) > 0 THEN "service"
                                                                        ELSE @[n]]]
  /\ UNCHANGED <<tables, links, lookup, graphs, lookups>>

Outranks(m, n) ==
  graph.calls[m] > graph.calls[n] \/ (graph.calls[m] = graph.calls[n] /\ m < n)

OfKind(kind) == {n \in Name : graph.kinds[n] = kind}

\* Mutant of KeptServices: one service too few.
KeptOneShort ==
  {n \in OfKind("service") :
     Cardinality({m \in OfKind("service") : Outranks(m, n)}) < graph.limit - 1}

\* The first graph.limit services in the order of Outranks.
KeptServices ==
  {n \in OfKind("service") :
     Cardinality({m \in OfKind("service") : Outranks(m, n)}) < graph.limit}

\* Mutant of KeptEdges: an external callee is not looked up.
EdgesToAnyPeer(kept) ==
  {e \in graph.raw : e.caller \in kept /\ (e.kind = "service" => e.callee \in kept)}

KeptEdges(kept) ==
  {e \in graph.raw : /\ e.caller \in kept
                     /\ e.callee \in IF e.kind = "service" THEN kept ELSE OfKind("external")}

ExternalsOf(es) == {e.callee : e \in {f \in es : f.kind = "external"}}

GraphAnswer ==
  /\ graph.pc = "rank"
  /\ graph' = [graph EXCEPT !.pc = "answered",
                            !.services = KeptServices,
                            !.edges = KeptEdges(KeptServices),
                            !.externals = ExternalsOf(KeptEdges(KeptServices))]
  /\ links' = links \cup (KeptServices \X {graph.window})
  /\ UNCHANGED <<tables, lookup, graphs, lookups>>

\* A query fails: 500.
GraphFails ==
  /\ graph.pc = "edges" \/ graph.pc = "scan"
  /\ graph' = NoGraph
  /\ UNCHANGED <<tables, links, lookup, graphs, lookups>>

-------------------------------------------------------------------------------
(* GET /v1/services: one query, which keeps the first rows by calls, errors or p95. *)

\* Mutant of Listed: every service that has a row.
ListedWithAnyRow(w) == {s.service : s \in stats[w]}

Listed(w) == {s.service : s \in {r \in stats[w] : r.span # "Internal"}}

FirstOf(S, limit) ==
  IF Cardinality(S) <= limit THEN {S} ELSE {K \in SUBSET S : Cardinality(K) = limit}

List(w) ==
  /\ \E limit \in 1..MaxLimit : \E items \in FirstOf(Listed(w), limit) :
       links' = links \cup (items \X {w})
  /\ UNCHANGED <<tables, graph, lookup, graphs, lookups>>

-------------------------------------------------------------------------------
(* GET /v1/services/{name}: ServicesRepo.Detail. *)

LookupAsk(n, w) ==
  /\ lookup.pc \in {"idle", "found", "missing"}
  /\ lookups < MaxLookup
  /\ lookups' = lookups + 1
  /\ lookup' = [NoLookup EXCEPT !.pc = "self", !.name = n, !.window = w,
                                !.offered = {v \in Window : <<n, v>> \in links},
                                !.known = graph.edges, !.shown = graph.window]
  /\ UNCHANGED <<tables, links, graph, graphs>>

\* A link is followed: the page it opens has no window in its URL and takes the default one.
Follow(n) ==
  /\ \E v \in Window : <<n, v>> \in links
  /\ LookupAsk(n, DefaultWindow)

\* Rows of another kind than Server and Client are read and left out.
LookupSelf ==
  /\ lookup.pc = "self"
  /\ lookup' = [lookup EXCEPT
       !.pc = "inbound",
       !.stats = {s \in stats[lookup.window] : s.service = lookup.name /\ s.span # "Internal"}]
  /\ UNCHANGED <<tables, links, graph, graphs, lookups>>

\* Mutant of Callers: the edges to a peer of that name.
CallersOfPeer(n) ==
  {e.caller : e \in {f \in edges[lookup.window] : f.callee = n /\ f.kind = "external"}}

Callers(n) ==
  {e.caller : e \in {f \in edges[lookup.window] : f.callee = n /\ f.kind = "service"}}

Callees(n) == {<<e.callee, e.kind>> : e \in {f \in edges[lookup.window] : f.caller = n}}

LookupInbound ==
  /\ lookup.pc = "inbound"
  /\ \E peers \in FirstOf(Callers(lookup.name), DepLimit) :
       lookup' = [lookup EXCEPT !.pc = "outbound", !.inbound = peers]
  /\ UNCHANGED <<tables, links, graph, graphs, lookups>>

LookupOutbound ==
  /\ lookup.pc = "outbound"
  /\ \E peers \in FirstOf(Callees(lookup.name), DepLimit) :
       lookup' = [lookup EXCEPT
         !.pc = IF lookup.stats = {} /\ lookup.inbound = {} /\ peers = {}
                THEN "missing" ELSE "found",
         !.outbound = peers]
  /\ UNCHANGED <<tables, links, graph, graphs, lookups>>

\* A query fails: 500.
LookupFails ==
  /\ lookup.pc \in {"self", "inbound", "outbound"}
  /\ lookup' = NoLookup
  /\ UNCHANGED <<tables, links, graph, graphs, lookups>>

-------------------------------------------------------------------------------
GraphStep == GraphEdges \/ GraphStats \/ GraphAnswer \/ GraphFails

LookupStep == LookupSelf \/ LookupInbound \/ LookupOutbound \/ LookupFails

Next ==
  \/ \E w \in Window :
       \/ \E e \in Edge : InsertEdge(e, w)
       \/ \E s \in Stat : InsertStat(s, w)
       \/ Leave(w)
       \/ \E limit \in 1..MaxLimit : GraphAsk(limit, w)
       \/ List(w)
  \/ \E e \in Edge : GraphScan(e)
  \/ GraphStep
  \/ \E n \in Name : Follow(n) \/ \E w \in Window : LookupAsk(n, w)
  \/ LookupStep

Spec == Init /\ [][Next]_vars

-------------------------------------------------------------------------------
(* Properties. *)

GraphState ==
  [pc : {"idle", "edges", "scan", "rank", "answered"}, window : Window,
   limit : 0..MaxLimit, todo : SUBSET Edge, raw : SUBSET Edge, kinds : [Name -> Kind \cup {"none"}],
   calls : [Name -> Nat], services : SUBSET Name, edges : SUBSET Edge,
   externals : SUBSET Name]

LookupState ==
  [pc : {"idle", "self", "inbound", "outbound", "found", "missing"}, name : Name \cup {0},
   window : Window, offered : SUBSET Window, known : SUBSET Edge, shown : Window,
   stats : SUBSET Stat,
   inbound : SUBSET Name, outbound : SUBSET (Name \X Kind)]

\* Every variable has its type.
TypeOK ==
  /\ edges \in [Window -> SUBSET Edge] /\ stats \in [Window -> SUBSET Stat]
  /\ rows \in 0..MaxRows /\ left \subseteq Window
  /\ links \subseteq Name \X Window
  /\ graph \in GraphState /\ lookup \in LookupState
  /\ graphs \in 0..MaxGraph /\ lookups \in 0..MaxLookup

\* The services among the names of the rows that were read, whatever the order they came in.
EdgeServices ==
  {e.caller : e \in graph.raw} \cup {e.callee : e \in {f \in graph.raw : f.kind = "service"}}

ServiceNames ==
  EdgeServices \cup {n \in Name : graph.calls[n] > 0 /\ \A e \in graph.raw : e.callee # n}

\* The kind of every node is a function of the set of rows read: the order in which
\* ClickHouse returns them, which changes from one request to the next, does not show.
KindsIgnoreOrder ==
  graph.pc \in {"rank", "answered"} =>
    /\ OfKind("service") = ServiceNames
    /\ OfKind("external") = {e.callee : e \in graph.raw} \ ServiceNames

\* Every edge of the answer joins two of its nodes, the callee one of the kind the edge
\* says, and no name is a service and an external at once.  The force layout of the page
\* looks up both ends of every edge by name.
AnswerIsClosed ==
  graph.pc = "answered" =>
    /\ graph.services \cap graph.externals = {}
    /\ \A e \in graph.edges :
         /\ e.caller \in graph.services
         /\ e.callee \in IF e.kind = "service" THEN graph.services ELSE graph.externals

\* When node_limit cuts nothing, the answer shows every edge that was read, except one to an
\* external that has the name of a service.
WholeWhenSmall ==
  graph.pc = "answered" /\ Cardinality(ServiceNames) <= graph.limit =>
    \A e \in graph.raw :
      e \in graph.edges \/ (e.kind = "external" /\ e.callee \in ServiceNames)

\* A service the graph or the list has shown has details under every window that is no shorter
\* than the one it was shown under, as long as no row has left that window and whatever the
\* engine inserts between the queries.  Nothing more holds: the details a link opens have the
\* default window, so the link of a page with a longer one may lead to a 404 at once.
LinksResolve ==
  lookup.pc = "missing" /\ lookup.window \notin left =>
    \A v \in lookup.offered : v > lookup.window

\* An edge the graph has shown is a dependency in the details of both its ends, under every
\* window no shorter than the graph's, unless the LIMIT of the query has cut it off or a row
\* has left that window.
ShownEdgeIsDependency ==
  lookup.pc \in {"found", "missing"} /\ lookup.window \notin left
    /\ lookup.shown <= lookup.window =>
    \A e \in lookup.known :
      /\ e.caller = lookup.name =>
           <<e.callee, e.kind>> \in lookup.outbound \/ Cardinality(lookup.outbound) = DepLimit
      /\ e.callee = lookup.name /\ e.kind = "service" =>
           e.caller \in lookup.inbound \/ Cardinality(lookup.inbound) = DepLimit
===============================================================================
