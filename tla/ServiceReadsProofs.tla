------------------------- MODULE ServiceReadsProofs -------------------------
(* Proofs about ServiceReads: for any names, windows, limits and bounds. *)
EXTENDS ServiceReads, TLAPS, FiniteSetTheorems

\* The tables stay finite: what makes a number of calls a number.
Typed == TypeOK /\ \A w \in Window : IsFiniteSet(stats[w])

\* The kind a name has among the rows read so far.
KindSoFar(n) ==
  IF n \in ServiceNames THEN "service"
  ELSE IF \E e \in graph.raw : e.callee = n THEN "external" ELSE "none"

\* The kinds agree with the rows read so far at every step of a request; until the second
\* query ends no calls are known.
KindsSoFar ==
  /\ \A n \in Name : graph.kinds[n] = KindSoFar(n)
  /\ graph.pc \notin {"rank", "answered"} => \A n \in Name : graph.calls[n] = 0

\* The invariant: what the answer is made of when it is there.
Assembled ==
  /\ Typed /\ KindsSoFar
  /\ graph.pc = "answered" =>
       /\ graph.services = KeptServices
       /\ graph.edges = KeptEdges(graph.services)
       /\ graph.externals = ExternalsOf(graph.edges)

-------------------------------------------------------------------------------
\* The calls of a service are a natural number, and none when it has no row.
LEMMA CallsAreNatural ==
  ASSUME Typed, NEW n PROVE ServerCalls(n) \in Nat
<1>0. IsFiniteSet(stats[graph.window])
  BY DEF Typed, TypeOK, GraphState
<1>1. IsFiniteSet({s \in stats[graph.window] : s.service = n /\ s.span = "Server"})
  BY <1>0, FS_Subset
<1> QED
  BY <1>1, FS_CardinalityType DEF ServerCalls

\* FirstOf keeps members of its set.
LEMMA FirstIsSubset == ASSUME NEW S, NEW l, NEW K \in FirstOf(S, l) PROVE K \subseteq S
  BY DEF FirstOf

\* The requests that have not begun have their types.
LEMMA IdleTyped == NoGraph \in GraphState /\ NoLookup \in LookupState
<1>1. NoGraph \in GraphState
  BY ServiceReadsAssumption DEF NoGraph, GraphState, Kind
<1>2. NoLookup \in LookupState
  BY ServiceReadsAssumption DEF NoLookup, LookupState
<1> QED
  BY <1>1, <1>2

\* What Init establishes.
LEMMA InitTyped == ASSUME Init PROVE Typed
<1>1. NoGraph \in GraphState
  BY IdleTyped
<1>2. NoLookup \in LookupState
  BY IdleTyped
<1>3. IsFiniteSet({})
  BY FS_EmptySet
<1> QED
  BY <1>1, <1>2, <1>3, ServiceReadsAssumption DEF Init, Typed, TypeOK

\* A link that is followed is a request with the default window.
LEMMA AskCases ==
  ASSUME NEW n \in Name, Follow(n) \/ \E w \in Window : LookupAsk(n, w)
  PROVE  \E w \in Window : LookupAsk(n, w)
  BY ServiceReadsAssumption DEF Follow

\* Every step keeps the types.
LEMMA StepTyped == ASSUME Typed, [Next]_vars PROVE Typed'
<1> USE DEF Typed, TypeOK
<1>0. CASE UNCHANGED vars
  BY <1>0 DEF vars
<1>1. ASSUME NEW w \in Window, NEW e \in Edge, InsertEdge(e, w) PROVE Typed'
  <2>1. rows' \in 0..MaxRows
    BY <1>1, ServiceReadsAssumption DEF InsertEdge
  <2>2. edges' \in [Window -> SUBSET Edge]
    BY <1>1 DEF InsertEdge, With
  <2> QED
    BY <1>1, <2>1, <2>2 DEF InsertEdge
<1>2. ASSUME NEW w \in Window, NEW s \in Stat, InsertStat(s, w) PROVE Typed'
  <2>1. rows' \in 0..MaxRows
    BY <1>2, ServiceReadsAssumption DEF InsertStat
  <2>2. stats' \in [Window -> SUBSET Stat]
    BY <1>2 DEF InsertStat, With
  <2>3. ASSUME NEW v \in Window PROVE IsFiniteSet(stats'[v])
    <3>1. stats'[v] = stats[v] \/ stats'[v] = stats[v] \cup {s}
      BY <1>2 DEF InsertStat, With
    <3>2. IsFiniteSet(stats[v])
      OBVIOUS
    <3> QED
      BY <3>1, <3>2, FS_AddElement
  <2> QED
    BY <1>2, <2>1, <2>2, <2>3 DEF InsertStat
<1>3. ASSUME NEW w \in Window, Leave(w) PROVE Typed'
  <2>1. edges' \in [Window -> SUBSET Edge] /\ stats' \in [Window -> SUBSET Stat]
    BY <1>3 DEF Leave
  <2>2. ASSUME NEW v \in Window PROVE IsFiniteSet(stats'[v])
    <3>1. stats'[v] \subseteq stats[v]
      BY <1>3 DEF Leave
    <3> QED
      BY <3>1, FS_Subset
  <2> QED
    BY <1>3, <2>1, <2>2 DEF Leave
<1>4. ASSUME NEW w \in Window, NEW l \in 1..MaxLimit, GraphAsk(l, w) PROVE Typed'
  <2>1. graph' \in GraphState
    <3>1. l \in 0..MaxLimit
      BY ServiceReadsAssumption
    <3>2. graph' = [NoGraph EXCEPT !.pc = "edges", !.limit = l, !.window = w]
      BY <1>4 DEF GraphAsk
    <3> QED
      BY <3>1, <3>2, IdleTyped DEF GraphState
  <2>2. graphs' \in 0..MaxGraph
    BY <1>4, ServiceReadsAssumption DEF GraphAsk
  <2> QED
    BY <1>4, <2>1, <2>2 DEF GraphAsk, tables
<1>5. CASE GraphEdges
  BY <1>5 DEF GraphEdges, GraphState, tables
<1>6. ASSUME NEW e \in Edge, GraphScan(e) PROVE Typed'
  <2>1. /\ e.caller \in Name /\ e.callee \in Name /\ e.kind \in Kind
    BY DEF Edge
  <2>2. KindsAfter(e) \in [Name -> Kind \cup {"none"}]
    BY <2>1 DEF KindsAfter, Upgrade, GraphState, Kind
  <2>3. graph' = [graph EXCEPT !.todo = @ \ {e}, !.raw = @ \cup {e}, !.kinds = KindsAfter(e)]
    BY <1>6 DEF GraphScan
  <2>4. (graph.raw \cup {e}) \subseteq Edge /\ (graph.todo \ {e}) \subseteq Edge
    BY DEF GraphState
  <2>5. graph' \in GraphState
    BY <2>2, <2>3, <2>4 DEF GraphState
  <2> QED
    BY <1>6, <2>5 DEF GraphScan, tables
<1>7. CASE GraphStats
  <2> DEFINE calls == [n \in Name |-> ServerCalls(n)]
             new == [n \in Name |-> IF graph.kinds[n] = "none" /\ ServerCalls(n) > 0
                                    THEN "service" ELSE graph.kinds[n]]
  <2>1. calls \in [Name -> Nat]
    BY CallsAreNatural
  <2>2. new \in [Name -> Kind \cup {"none"}]
    BY DEF GraphState, Kind
  <2>3. graph' = [graph EXCEPT !.pc = "rank", !.calls = calls, !.kinds = new]
    BY <1>7 DEF GraphStats
  <2> HIDE DEF calls, new
  <2> QED
    BY <1>7, <2>1, <2>2, <2>3 DEF GraphStats, GraphState, tables
<1>8. CASE GraphAnswer
  <2>1. KeptServices \subseteq Name
    BY DEF KeptServices, OfKind
  <2>2. KeptEdges(KeptServices) \subseteq Edge
    BY DEF KeptEdges, GraphState
  <2>3. ExternalsOf(KeptEdges(KeptServices)) \subseteq Name
    BY <2>2 DEF ExternalsOf, Edge
  <2>4. links' \subseteq Name \X Window
    BY <1>8, <2>1 DEF GraphAnswer, GraphState
  <2> QED
    BY <1>8, <2>1, <2>2, <2>3, <2>4 DEF GraphAnswer, GraphState, tables
<1>9. CASE GraphFails
  <2>1. NoGraph \in GraphState
    BY IdleTyped
  <2> QED
    BY <1>9, <2>1 DEF GraphFails, tables
<1>10. ASSUME NEW w \in Window, List(w) PROVE Typed'
  <2>1. PICK items : items \subseteq Listed(w) /\ links' = links \cup (items \X {w})
    BY <1>10, FirstIsSubset DEF List
  <2>2. Listed(w) \subseteq Name
    BY DEF Listed, Stat
  <2>3. links' \subseteq Name \X Window
    BY <2>1, <2>2
  <2> QED
    BY <1>10, <2>3 DEF List, tables
<1>11. ASSUME NEW n \in Name, NEW w \in Window, LookupAsk(n, w) PROVE Typed'
  <2> DEFINE offered == {v \in Window : <<n, v>> \in links}
  <2>1. lookup' \in LookupState
    <3>1. graph.edges \subseteq Edge /\ graph.window \in Window
      BY DEF GraphState
    <3>2. lookup' = [NoLookup EXCEPT !.pc = "self", !.name = n, !.window = w,
                                     !.offered = offered,
                                     !.known = graph.edges, !.shown = graph.window]
      BY <1>11 DEF LookupAsk
    <3>3. offered \subseteq Window
      OBVIOUS
    <3> HIDE DEF offered
    <3> QED
      BY <3>1, <3>2, <3>3, IdleTyped DEF LookupState
  <2>2. lookups' \in 0..MaxLookup
    BY <1>11, ServiceReadsAssumption DEF LookupAsk
  <2> QED
    BY <1>11, <2>1, <2>2 DEF LookupAsk, tables
<1>12. CASE LookupSelf
  BY <1>12 DEF LookupSelf, LookupState, tables
<1>13. CASE LookupInbound
  <2>1. Callers(lookup.name) \subseteq Name
    BY DEF Callers, Edge, LookupState
  <2>2. PICK peers \in FirstOf(Callers(lookup.name), DepLimit) :
          lookup' = [lookup EXCEPT !.pc = "outbound", !.inbound = peers]
    BY <1>13 DEF LookupInbound
  <2>3. peers \subseteq Name
    BY <2>1, FirstIsSubset
  <2> QED
    BY <1>13, <2>2, <2>3 DEF LookupInbound, LookupState, tables
<1>14. CASE LookupOutbound
  <2>1. Callees(lookup.name) \subseteq Name \X Kind
    BY DEF Callees, Edge, LookupState
  <2>2. PICK peers \in FirstOf(Callees(lookup.name), DepLimit) :
          lookup' = [lookup EXCEPT
            !.pc = IF lookup.stats = {} /\ lookup.inbound = {} /\ peers = {}
                   THEN "missing" ELSE "found",
            !.outbound = peers]
    BY <1>14 DEF LookupOutbound
  <2>3. peers \subseteq Name \X Kind
    BY <2>1, FirstIsSubset
  <2> QED
    BY <1>14, <2>2, <2>3 DEF LookupOutbound, LookupState, tables
<1>15. CASE LookupFails
  <2>1. NoLookup \in LookupState
    BY IdleTyped
  <2> QED
    BY <1>15, <2>1 DEF LookupFails, tables
<1> QED
  BY <1>0, <1>1, <1>2, <1>3, <1>4, <1>5, <1>6, <1>7, <1>8, <1>9, <1>10, <1>11, <1>12, <1>13,
     <1>14, <1>15, AskCases DEF Next, GraphStep, LookupStep

\* Every variable keeps its type (the state of the tables and of both requests).
THEOREM TypeCorrect == Spec => []TypeOK
<1>1. Init => Typed
  BY InitTyped
<1>2. Typed /\ [Next]_vars => Typed'
  BY StepTyped
<1>3. Typed => TypeOK
  BY DEF Typed
<1> QED
  BY <1>1, <1>2, <1>3, PTL DEF Spec

-------------------------------------------------------------------------------
\* What the answer is made of depends on nothing but the rows read and their kinds.
LEMMA SameKinds ==
  ASSUME graph'.raw = graph.raw, graph'.kinds = graph.kinds, graph'.calls = graph.calls
  PROVE  /\ \A n : KindSoFar(n)' = KindSoFar(n)
         /\ \A k : OfKind(k)' = OfKind(k)
         /\ \A kept : KeptEdges(kept)' = KeptEdges(kept)
         /\ graph'.limit = graph.limit => KeptServices' = KeptServices
<1>1. EdgeServices' = EdgeServices
  BY DEF EdgeServices
<1>2. ServiceNames' = ServiceNames
  BY <1>1 DEF ServiceNames
<1>3. \A n : KindSoFar(n)' = KindSoFar(n)
  BY <1>2 DEF KindSoFar
<1>4. \A k : OfKind(k)' = OfKind(k)
  BY DEF OfKind
<1>5. \A kept : KeptEdges(kept)' = KeptEdges(kept)
  BY DEF KeptEdges, OfKind
<1>6. ASSUME graph'.limit = graph.limit PROVE KeptServices' = KeptServices
  <2>1. \A m, n : Outranks(m, n)' <=> Outranks(m, n)
    BY DEF Outranks
  <2>2. \A n : {m \in OfKind("service")' : Outranks(m, n)'}
               = {m \in OfKind("service") : Outranks(m, n)}
    BY <1>4, <2>1
  <2> QED
    BY <1>4, <1>6, <2>2 DEF KeptServices
<1> QED
  BY <1>3, <1>4, <1>5, <1>6

\* KindsSoFar and the answer depend on nothing but the request of /v1/topology.
LEMMA SameGraph ==
  ASSUME Assembled, Typed', graph' = graph PROVE Assembled'
<1>1. KindsSoFar'
  BY SameKinds DEF Assembled, KindsSoFar
<1>2. KeptServices' = KeptServices
  BY SameKinds
<1>3. KeptEdges(graph.services)' = KeptEdges(graph.services)
  BY DEF KeptEdges, OfKind
<1>4. ExternalsOf(graph.edges)' = ExternalsOf(graph.edges)
  BY DEF ExternalsOf
<1> QED
  BY <1>1, <1>2, <1>3, <1>4 DEF Assembled

\* A request that has not begun has read no row.
LEMMA NoRows ==
  ASSUME graph.raw = {}, graph.calls = [n \in Name |-> 0], graph.kinds = [n \in Name |-> "none"]
  PROVE  KindsSoFar
  BY DEF KindsSoFar, KindSoFar, ServiceNames, EdgeServices

\* One more row of the first query.
LEMMA ScanKeepsKinds ==
  ASSUME Assembled, NEW e \in Edge, GraphScan(e) PROVE KindsSoFar'
<1>0. /\ e.caller \in Name /\ e.callee \in Name /\ e.kind \in Kind
      /\ graph.kinds \in [Name -> Kind \cup {"none"}]
  BY DEF Edge, Assembled, Typed, TypeOK, GraphState
<1>1. /\ graph'.pc = "scan" /\ graph.pc = "scan"
      /\ graph'.raw = graph.raw \cup {e} /\ graph'.calls = graph.calls
      /\ graph'.kinds = KindsAfter(e)
  BY DEF GraphScan, Assembled, Typed, TypeOK, GraphState
<1>2. \A n \in Name : graph.calls[n] = 0
  BY <1>1 DEF Assembled, KindsSoFar
<1>3. SUFFICES ASSUME NEW n \in Name PROVE graph'.kinds[n] = KindSoFar(n)'
  BY <1>1, <1>2 DEF KindsSoFar
<1>4. graph.kinds[n] = KindSoFar(n)
  BY DEF Assembled, KindsSoFar
<1>5. n \in ServiceNames <=>
        \E f \in graph.raw : f.caller = n \/ (f.kind = "service" /\ f.callee = n)
  BY <1>2 DEF ServiceNames, EdgeServices
<1>6. (n \in ServiceNames)' <=>
        \/ n \in ServiceNames
        \/ e.caller = n \/ (e.kind = "service" /\ e.callee = n)
  BY <1>1, <1>2, <1>5 DEF ServiceNames, EdgeServices
<1>7. (\E f \in graph'.raw : f.callee = n) <=> (\E f \in graph.raw : f.callee = n) \/ e.callee = n
  BY <1>1
<1>8. KindsAfter(e)[n] = IF n = e.callee
                         THEN Upgrade(IF n = e.caller THEN "service" ELSE graph.kinds[n], e.kind)
                         ELSE IF n = e.caller THEN "service" ELSE graph.kinds[n]
  BY <1>0 DEF KindsAfter
<1>9. KindSoFar(n)' = IF (n \in ServiceNames)' THEN "service"
                      ELSE IF \E f \in graph'.raw : f.callee = n THEN "external" ELSE "none"
  BY DEF KindSoFar
<1>10. graph.kinds[n] = IF n \in ServiceNames THEN "service"
                        ELSE IF \E f \in graph.raw : f.callee = n THEN "external" ELSE "none"
  BY <1>4 DEF KindSoFar
<1>11. graph'.kinds[n] = KindsAfter(e)[n]
  BY <1>1
<1> HIDE DEF KindsAfter
<1> QED
  BY <1>0, <1>6, <1>7, <1>8, <1>9, <1>10, <1>11 DEF Upgrade, Kind

\* The calls of the second query.
LEMMA StatsKeepKinds == ASSUME Assembled, GraphStats PROVE KindsSoFar'
<1>1. /\ graph.pc = "scan" /\ graph'.pc = "rank" /\ graph'.raw = graph.raw
      /\ graph'.calls = [n \in Name |-> ServerCalls(n)]
      /\ graph'.kinds = [n \in Name |-> IF graph.kinds[n] = "none" /\ ServerCalls(n) > 0
                                        THEN "service" ELSE graph.kinds[n]]
  BY DEF GraphStats, Assembled, Typed, TypeOK, GraphState
<1>2. \A n \in Name : graph.calls[n] = 0
  BY <1>1 DEF Assembled, KindsSoFar
<1>3. SUFFICES ASSUME NEW n \in Name PROVE graph'.kinds[n] = KindSoFar(n)'
  BY <1>1 DEF KindsSoFar
<1>4. graph.kinds[n] = KindSoFar(n)
  BY DEF Assembled, KindsSoFar
<1>5. n \in ServiceNames <=> n \in EdgeServices
  BY <1>2 DEF ServiceNames
<1>6. EdgeServices' = EdgeServices
  BY <1>1 DEF EdgeServices
<1>7. (n \in ServiceNames)' <=>
        n \in EdgeServices \/ (ServerCalls(n) > 0 /\ \A e \in graph.raw : e.callee # n)
  BY <1>1, <1>6 DEF ServiceNames
<1>8. n \notin EdgeServices => (graph.kinds[n] = "none" <=> \A e \in graph.raw : e.callee # n)
  BY <1>4, <1>5 DEF KindSoFar
<1>9. n \in EdgeServices => graph.kinds[n] = "service"
  BY <1>4, <1>5 DEF KindSoFar
<1>10. graph'.kinds[n] = IF graph.kinds[n] = "none" /\ ServerCalls(n) > 0
                         THEN "service" ELSE graph.kinds[n]
  BY <1>1
<1>11. KindSoFar(n)' = IF (n \in ServiceNames)' THEN "service"
                       ELSE IF \E e \in graph.raw : e.callee = n THEN "external" ELSE "none"
  BY <1>1 DEF KindSoFar
<1>12. graph.kinds[n] = IF n \in EdgeServices THEN "service"
                        ELSE IF \E e \in graph.raw : e.callee = n THEN "external" ELSE "none"
  BY <1>4, <1>5 DEF KindSoFar
<1> QED
  BY <1>7, <1>8, <1>9, <1>10, <1>11, <1>12

\* Every step keeps the invariant.
LEMMA StepAssembled == ASSUME Assembled, [Next]_vars PROVE Assembled'
<1>0. Typed'
  BY StepTyped DEF Assembled
<1>1. CASE graph' = graph
  BY <1>0, <1>1, SameGraph
<1>2. ASSUME NEW w \in Window, NEW l \in 1..MaxLimit, GraphAsk(l, w) PROVE Assembled'
  <2>1. /\ graph'.raw = {} /\ graph'.calls = [n \in Name |-> 0]
        /\ graph'.kinds = [n \in Name |-> "none"] /\ graph'.pc = "edges"
    BY <1>2 DEF GraphAsk, NoGraph
  <2>2. KindsSoFar'
    BY <2>1 DEF KindsSoFar, KindSoFar, ServiceNames, EdgeServices
  <2> QED
    BY <1>0, <2>1, <2>2 DEF Assembled
<1>3. CASE GraphFails
  <2>1. /\ graph'.raw = {} /\ graph'.calls = [n \in Name |-> 0]
        /\ graph'.kinds = [n \in Name |-> "none"] /\ graph'.pc = "idle"
    BY <1>3 DEF GraphFails, NoGraph
  <2>2. KindsSoFar'
    BY <2>1 DEF KindsSoFar, KindSoFar, ServiceNames, EdgeServices
  <2> QED
    BY <1>0, <2>1, <2>2 DEF Assembled
<1>4. CASE GraphEdges
  <2>1. /\ graph.pc = "edges" /\ graph'.pc = "scan" /\ graph'.raw = graph.raw
        /\ graph'.calls = graph.calls /\ graph'.kinds = graph.kinds
    BY <1>4 DEF GraphEdges, Assembled, Typed, TypeOK, GraphState
  <2>2. KindsSoFar'
    BY <2>1, SameKinds DEF Assembled, KindsSoFar
  <2> QED
    BY <1>0, <2>1, <2>2 DEF Assembled
<1>5. ASSUME NEW e \in Edge, GraphScan(e) PROVE Assembled'
  <2>1. graph'.pc = "scan"
    BY <1>5 DEF GraphScan, Assembled, Typed, TypeOK, GraphState
  <2> QED
    BY <1>0, <1>5, <2>1, ScanKeepsKinds DEF Assembled
<1>6. CASE GraphStats
  <2>1. graph'.pc = "rank"
    BY <1>6 DEF GraphStats, Assembled, Typed, TypeOK, GraphState
  <2> QED
    BY <1>0, <1>6, <2>1, StatsKeepKinds DEF Assembled
<1>7. CASE GraphAnswer
  <2>1. /\ graph.pc = "rank" /\ graph'.pc = "answered"
        /\ graph'.raw = graph.raw /\ graph'.calls = graph.calls
        /\ graph'.kinds = graph.kinds /\ graph'.limit = graph.limit
        /\ graph'.services = KeptServices
        /\ graph'.edges = KeptEdges(KeptServices)
        /\ graph'.externals = ExternalsOf(KeptEdges(KeptServices))
    BY <1>7 DEF GraphAnswer, Assembled, Typed, TypeOK, GraphState
  <2>2. KindsSoFar'
    BY <2>1, SameKinds DEF Assembled, KindsSoFar
  <2>3. KeptServices' = KeptServices
    BY <2>1, SameKinds
  <2>4. KeptEdges(graph.services)' = KeptEdges(KeptServices)
    BY <2>1 DEF KeptEdges, OfKind
  <2>5. ExternalsOf(graph.edges)' = ExternalsOf(KeptEdges(KeptServices))
    BY <2>1 DEF ExternalsOf
  <2> QED
    BY <1>0, <2>1, <2>2, <2>3, <2>4, <2>5 DEF Assembled
<1>8. \/ graph' = graph \/ (\E w \in Window, l \in 1..MaxLimit : GraphAsk(l, w)) \/ GraphFails
      \/ GraphEdges \/ (\E e \in Edge : GraphScan(e)) \/ GraphStats \/ GraphAnswer
  BY DEF Next, vars, GraphStep, LookupStep, InsertEdge, InsertStat, Leave, List, LookupAsk,
         Follow, LookupSelf, LookupInbound, LookupOutbound, LookupFails
<1> QED
  BY <1>1, <1>2, <1>3, <1>4, <1>5, <1>6, <1>7, <1>8

\* The invariant holds at the start.
LEMMA InitAssembled == ASSUME Init PROVE Assembled
<1>1. graph.pc = "idle" /\ KindsSoFar
  BY NoRows DEF Init, NoGraph
<1> QED
  BY <1>1, InitTyped DEF Assembled

\* The invariant holds in every state.
LEMMA AlwaysAssembled == Spec => []Assembled
<1>1. Init => Assembled
  BY InitAssembled
<1>2. Assembled /\ [Next]_vars => Assembled'
  BY StepAssembled
<1> QED
  BY <1>1, <1>2, PTL DEF Spec

\* Every name the rows mention is one of the model's names.
LEMMA NamesOfRows ==
  ASSUME Typed PROVE \A e \in graph.raw : e.caller \in Name /\ e.callee \in Name /\ e.kind \in Kind
  BY DEF Typed, TypeOK, GraphState, Edge

\* Kinds, read as the two sets of nodes.
LEMMA KindsAreSets ==
  ASSUME Assembled
  PROVE  /\ OfKind("service") = ServiceNames
         /\ OfKind("external") = {e.callee : e \in graph.raw} \ ServiceNames
<1>1. \A n \in Name : graph.kinds[n] = KindSoFar(n)
  BY DEF Assembled, KindsSoFar
<1>2. ServiceNames \subseteq Name /\ {e.callee : e \in graph.raw} \subseteq Name
  BY NamesOfRows DEF Assembled, ServiceNames, EdgeServices
<1> QED
  BY <1>1, <1>2 DEF OfKind, KindSoFar

\* The nodes and their kinds are a function of the set of rows, for any number of rows in
\* any order.
THEOREM OrderIsIgnored == Spec => []KindsIgnoreOrder
<1>1. Assembled => KindsIgnoreOrder
  BY KindsAreSets DEF KindsIgnoreOrder
<1> QED
  BY <1>1, AlwaysAssembled, PTL

\* Every edge of every answer joins two of its nodes.
THEOREM AnswersAreClosed == Spec => []AnswerIsClosed
<1>1. ASSUME Assembled, graph.pc = "answered"
      PROVE  /\ graph.services \cap graph.externals = {}
             /\ \A e \in graph.edges :
                  /\ e.caller \in graph.services
                  /\ e.callee \in IF e.kind = "service" THEN graph.services
                                                        ELSE graph.externals
  <2>1. /\ graph.services = KeptServices /\ graph.edges = KeptEdges(graph.services)
        /\ graph.externals = ExternalsOf(graph.edges)
    BY <1>1 DEF Assembled
  <2>2. graph.services \subseteq OfKind("service")
    BY <2>1 DEF KeptServices
  <2>3. \A e \in graph.edges :
          /\ e \in graph.raw /\ e.caller \in graph.services
          /\ e.callee \in IF e.kind = "service" THEN graph.services ELSE OfKind("external")
    BY <2>1 DEF KeptEdges
  <2>4. \A e \in graph.edges : e.kind \in Kind
    BY <1>1, <2>3, NamesOfRows DEF Assembled
  <2>5. graph.externals \subseteq OfKind("external")
    BY <2>1, <2>3 DEF ExternalsOf
  <2>6. OfKind("service") \cap OfKind("external") = {}
    BY DEF OfKind
  <2>7. \A e \in graph.edges : e.kind = "external" => e.callee \in graph.externals
    BY <2>1 DEF ExternalsOf
  <2> QED
    BY <2>2, <2>3, <2>4, <2>5, <2>6, <2>7 DEF Kind
<1>2. Assembled => AnswerIsClosed
  BY <1>1 DEF AnswerIsClosed
<1> QED
  BY <1>2, AlwaysAssembled, PTL

\* When no more services are known than node_limit allows, the cut keeps them all.
LEMMA SmallKeepsAll ==
  ASSUME Assembled, Cardinality(ServiceNames) <= graph.limit PROVE KeptServices = ServiceNames
<1>1. OfKind("service") = ServiceNames
  BY KindsAreSets
<1>2. ServiceNames \subseteq Name /\ IsFiniteSet(ServiceNames)
  BY <1>1, FS_Subset, ServiceReadsAssumption DEF OfKind
<1>3. SUFFICES ASSUME NEW n \in ServiceNames
               PROVE  Cardinality({m \in ServiceNames : Outranks(m, n)}) < graph.limit
  BY <1>1 DEF KeptServices
<1> DEFINE Above == {m \in ServiceNames : Outranks(m, n)}
<1>4. n \in Nat /\ graph.calls[n] \in Nat
  BY <1>2, ServiceReadsAssumption DEF Assembled, Typed, TypeOK, GraphState
<1>5. Above \subseteq ServiceNames /\ n \notin Above
  BY <1>4 DEF Outranks
<1>6. Above \subseteq ServiceNames \ {n}
  BY <1>5
<1>7. /\ IsFiniteSet(ServiceNames \ {n})
      /\ Cardinality(ServiceNames \ {n}) = Cardinality(ServiceNames) - 1
  BY <1>2, FS_RemoveElement
<1>8. Cardinality(Above) <= Cardinality(ServiceNames) - 1 /\ IsFiniteSet(Above)
  BY <1>6, <1>7, FS_Subset
<1>9. Cardinality(Above) \in Nat /\ Cardinality(ServiceNames) \in Nat
  BY <1>2, <1>8, FS_CardinalityType
<1>10. graph.limit \in Nat
  BY ServiceReadsAssumption DEF Assembled, Typed, TypeOK, GraphState
<1> HIDE DEF Above
<1>11. Cardinality(Above) < graph.limit
  BY <1>8, <1>9, <1>10
<1> QED
  BY <1>11 DEF Above

\* A graph that node_limit does not cut shows every edge that was read, whatever their
\* number, except one to an external that has the name of a service.
THEOREM SmallGraphsAreWhole == Spec => []WholeWhenSmall
<1>1. ASSUME Assembled, graph.pc = "answered", Cardinality(ServiceNames) <= graph.limit,
             NEW e \in graph.raw, e.kind = "external" => e.callee \notin ServiceNames
      PROVE  e \in graph.edges
  <2>1. graph.services = ServiceNames /\ graph.edges = KeptEdges(graph.services)
    BY <1>1, SmallKeepsAll DEF Assembled
  <2>2. OfKind("external") = {f.callee : f \in graph.raw} \ ServiceNames
    BY <1>1, KindsAreSets
  <2>3. e.caller \in ServiceNames /\ (e.kind = "service" => e.callee \in ServiceNames)
    BY <1>1 DEF ServiceNames, EdgeServices
  <2>4. e.kind \in Kind
    BY <1>1, NamesOfRows DEF Assembled
  <2> QED
    BY <1>1, <2>1, <2>2, <2>3, <2>4 DEF KeptEdges, Kind
<1>2. Assembled => WholeWhenSmall
  BY <1>1 DEF WholeWhenSmall
<1> QED
  BY <1>2, AlwaysAssembled, PTL

-------------------------------------------------------------------------------
\* What the pages promise.  A promise made under one window is about every longer one that has
\* lost no row: Leave, the only step that takes rows away, names the window.

\* Some row of the window w has n where the three queries of its details look.
StatOf(n, w) == \E s \in stats[w] : s.service = n /\ s.span # "Internal"
CallerOf(n, w) == \E e \in edges[w] : e.caller = n
CalleeOf(n, w) == \E e \in edges[w] : e.callee = n /\ e.kind = "service"
Backed(n, w) == StatOf(n, w) \/ CalleeOf(n, w) \/ CallerOf(n, w)

\* All windows end now.
Nested ==
  \A v, w \in Window : v <= w => edges[v] \subseteq edges[w] /\ stats[v] \subseteq stats[w]

\* The graph is made of rows that are still in w, if its window is no longer, and so are the
\* links that were shown under a window no longer.
GraphBacked(w) ==
  /\ graph.window <= w =>
       /\ graph.raw \cup graph.todo \cup graph.edges \subseteq edges[w]
       /\ \A n \in Name : graph.calls[n] > 0 => StatOf(n, w)
  /\ \A n \in Name, v \in Window : v <= w /\ <<n, v>> \in links => Backed(n, w)

\* The service had been shown under a window no longer than the one of the request.
Linked == \E v \in lookup.offered : v <= lookup.window

\* What a lookup of a linked name has not found yet is still to be found.
LookupBacked ==
  /\ lookup.shown <= lookup.window =>
       (lookup.pc # "idle" => lookup.known \subseteq edges[lookup.window])
  /\ lookup.pc = "self" /\ Linked => Backed(lookup.name, lookup.window)
  /\ lookup.pc = "inbound" /\ Linked /\ lookup.stats = {} =>
       CalleeOf(lookup.name, lookup.window) \/ CallerOf(lookup.name, lookup.window)
  /\ lookup.pc = "outbound" /\ Linked /\ lookup.stats = {} /\ lookup.inbound = {} =>
       CallerOf(lookup.name, lookup.window)
  /\ lookup.pc = "missing" => ~Linked

\* The edges the graph had shown are among the dependencies that have been read.
InboundShown ==
  \A e \in lookup.known :
    e.callee = lookup.name /\ e.kind = "service" =>
      e.caller \in lookup.inbound \/ Cardinality(lookup.inbound) = DepLimit

OutboundShown ==
  \A e \in lookup.known :
    e.caller = lookup.name =>
      <<e.callee, e.kind>> \in lookup.outbound \/ Cardinality(lookup.outbound) = DepLimit

DependenciesShown ==
  lookup.shown <= lookup.window =>
    /\ lookup.pc \in {"outbound", "found", "missing"} => InboundShown
    /\ lookup.pc \in {"found", "missing"} => OutboundShown

\* The invariant of one window, on top of the one of the graph.
KeptIn(w) ==
  w \notin left =>
    /\ GraphBacked(w)
    /\ lookup.window = w => LookupBacked /\ DependenciesShown

Kept == Nested /\ \A w \in Window : KeptIn(w)

\* A LIMIT never makes an answer empty, and keeps what it does not fill up.
LEMMA FirstKeeps ==
  ASSUME NEW S, NEW K \in FirstOf(S, DepLimit)
  PROVE  /\ K = {} => S = {}
         /\ \A x \in S : x \in K \/ Cardinality(K) = DepLimit
<1>1. CASE Cardinality(S) <= DepLimit
  BY <1>1 DEF FirstOf
<1>2. CASE ~(Cardinality(S) <= DepLimit)
  <2>1. Cardinality(K) = DepLimit
    BY <1>2 DEF FirstOf
  <2>2. K # {}
    BY <2>1, FS_EmptySet, ServiceReadsAssumption
  <2> QED
    BY <2>1, <2>2
<1> QED
  BY <1>1, <1>2

\* The windows stay nested: rows come into all longer windows and leave the shortest first.
LEMMA StaysNested == ASSUME Typed, Nested, [Next]_vars PROVE Nested'
<1> USE ServiceReadsAssumption DEF Typed, TypeOK, Nested
<1>0. ASSUME NEW u \in Window, NEW v \in Window, NEW w \in Window, v <= w, NEW row,
             NEW table, table[v] \subseteq table[w]
      PROVE  With(table, row, u)[v] \subseteq With(table, row, u)[w]
  <2>1. u \in Nat /\ v \in Nat /\ w \in Nat
    OBVIOUS
  <2>2. u <= v => u <= w
    BY <1>0, <2>1
  <2> QED
    BY <1>0, <2>2 DEF With
<1>1. ASSUME NEW u \in Window, NEW e \in Edge, InsertEdge(e, u) PROVE Nested'
  BY <1>0, <1>1 DEF InsertEdge
<1>2. ASSUME NEW u \in Window, NEW s \in Stat, InsertStat(s, u) PROVE Nested'
  BY <1>0, <1>2 DEF InsertStat
<1>3. ASSUME NEW u \in Window, Leave(u) PROVE Nested'
  <2>1. CASE \E e \in Oldest(edges, u) : edges' = [edges EXCEPT ![u] = @ \ {e}] /\ UNCHANGED stats
    BY <2>1 DEF Oldest
  <2>2. CASE \E s \in Oldest(stats, u) : stats' = [stats EXCEPT ![u] = @ \ {s}] /\ UNCHANGED edges
    BY <2>2 DEF Oldest
  <2> QED
    BY <1>3, <2>1, <2>2 DEF Leave
<1>4. CASE tables' = tables
  BY <1>4 DEF tables
<1>5. \/ \E u \in Window : \/ \E e \in Edge : InsertEdge(e, u)
                           \/ \E s \in Stat : InsertStat(s, u)
                           \/ Leave(u)
      \/ tables' = tables
  BY DEF Next, vars, tables, GraphStep, LookupStep, GraphAsk, GraphEdges, GraphScan, GraphStats,
         GraphAnswer, GraphFails, List, Follow, LookupAsk, LookupSelf, LookupInbound,
         LookupOutbound, LookupFails
<1> QED
  BY <1>1, <1>2, <1>3, <1>4, <1>5

\* A service of the graph has a row.
LEMMA ServicesAreBacked ==
  ASSUME Assembled, NEW w \in Window, GraphBacked(w), graph.window <= w,
         NEW n \in OfKind("service")
  PROVE  Backed(n, w)
<1>1. n \in ServiceNames
  BY KindsAreSets
<1>2. graph.raw \subseteq edges[w] /\ \A m \in Name : graph.calls[m] > 0 => StatOf(m, w)
  BY DEF GraphBacked
<1> QED
  BY <1>1, <1>2 DEF ServiceNames, EdgeServices, Backed, CallerOf, CalleeOf

\* What the graph shows stays backed while it is left alone,
LEMMA GraphStays ==
  ASSUME NEW w \in Window, GraphBacked(w), edges[w] \subseteq edges'[w],
         stats[w] \subseteq stats'[w], graph' = graph, links' = links
  PROVE  GraphBacked(w)'
<1>1. \A n : (StatOf(n, w) => StatOf(n, w)') /\ (Backed(n, w) => Backed(n, w)')
  BY DEF StatOf, CallerOf, CalleeOf, Backed
<1> QED
  BY <1>1 DEF GraphBacked

\* and so does what a lookup has still to find.
LEMMA LookupStays ==
  ASSUME NEW w \in Window, LookupBacked, DependenciesShown, lookup.window = w,
         edges[w] \subseteq edges'[w], stats[w] \subseteq stats'[w], lookup' = lookup
  PROVE  LookupBacked' /\ DependenciesShown'
<1>1. DependenciesShown'
  BY DEF DependenciesShown, InboundShown, OutboundShown
<1>2. /\ CallerOf(lookup.name, w) => CallerOf(lookup.name, w)'
      /\ CalleeOf(lookup.name, w) => CalleeOf(lookup.name, w)'
      /\ Backed(lookup.name, w) => Backed(lookup.name, w)'
  BY DEF StatOf, CallerOf, CalleeOf, Backed
<1>3. LookupBacked'
  BY <1>2 DEF LookupBacked, Linked, StatOf, CallerOf, CalleeOf, Backed
<1> QED
  BY <1>1, <1>3

\* A step of /v1/topology shows only what has rows.
LEMMA GraphStepBacked ==
  ASSUME Assembled, Assembled', Nested, NEW w \in Window, GraphBacked(w), tables' = tables,
         \/ \E v \in Window, limit \in 1..MaxLimit : GraphAsk(limit, v)
         \/ \E e \in Edge : GraphScan(e)
         \/ GraphStep
  PROVE  GraphBacked(w)'
<1>0. edges' = edges /\ stats' = stats
  BY DEF tables
<1>1. \A n : (StatOf(n, w) => StatOf(n, w)') /\ (Backed(n, w) => Backed(n, w)')
  BY <1>0 DEF StatOf, CallerOf, CalleeOf, Backed
<1>2. graph \in GraphState
  BY DEF Assembled, Typed, TypeOK
<1>3. ASSUME \/ /\ graph'.window = graph.window
                /\ graph.window <= w =>
                     /\ graph'.raw \cup graph'.todo \cup graph'.edges \subseteq edges[w]
                     /\ graph'.calls = graph.calls
             \/ /\ graph'.raw = {} /\ graph'.todo = {} /\ graph'.edges = {}
                /\ graph'.calls = [n \in Name |-> 0],
             links' = links
      PROVE  GraphBacked(w)'
  BY <1>0, <1>1, <1>3 DEF GraphBacked
<1>4. CASE \E v \in Window, limit \in 1..MaxLimit : GraphAsk(limit, v)
  BY <1>3, <1>4 DEF GraphAsk, NoGraph
<1>5. CASE \E e \in Edge : GraphScan(e)
  <2>1. PICK e \in Edge : GraphScan(e)
    BY <1>5
  <2>2. /\ e \in graph.todo /\ graph'.raw = graph.raw \cup {e} /\ graph'.todo = graph.todo \ {e}
        /\ graph'.edges = graph.edges /\ graph'.calls = graph.calls /\ links' = links
        /\ graph'.window = graph.window
    BY <1>2, <2>1 DEF GraphScan, GraphState
  <2> QED
    BY <1>3, <2>2 DEF GraphBacked
<1>6. CASE GraphEdges
  <2>1. /\ graph'.raw = graph.raw /\ graph'.todo = edges[graph.window]
        /\ graph'.edges = graph.edges /\ graph'.calls = graph.calls /\ links' = links
        /\ graph'.window = graph.window
    BY <1>2, <1>6 DEF GraphEdges, GraphState
  <2>2. graph.window <= w => edges[graph.window] \subseteq edges[w]
    BY <1>2 DEF Nested, GraphState
  <2> QED
    BY <1>3, <2>1, <2>2 DEF GraphBacked
<1>7. CASE GraphFails
  BY <1>3, <1>7 DEF GraphFails, NoGraph
<1>8. CASE GraphStats
  <2>1. /\ graph'.raw = graph.raw /\ graph'.todo = graph.todo /\ graph'.edges = graph.edges
        /\ graph'.calls = [n \in Name |-> ServerCalls(n)] /\ links' = links
        /\ graph'.window = graph.window
    BY <1>2, <1>8 DEF GraphStats, GraphState
  <2>2. ASSUME NEW n \in Name, ServerCalls(n) > 0, graph.window <= w PROVE StatOf(n, w)
    <3>1. {s \in stats[graph.window] : s.service = n /\ s.span = "Server"} # {}
      BY <2>2, FS_EmptySet DEF ServerCalls
    <3>2. stats[graph.window] \subseteq stats[w]
      BY <1>2, <2>2 DEF Nested, GraphState
    <3> QED
      BY <3>1, <3>2 DEF StatOf
  <2> QED
    BY <1>0, <1>1, <2>1, <2>2 DEF GraphBacked
<1>9. CASE GraphAnswer
  <2>1. /\ graph'.raw = graph.raw /\ graph'.todo = graph.todo /\ graph'.calls = graph.calls
        /\ graph'.edges = KeptEdges(KeptServices) /\ graph'.window = graph.window
        /\ links' = links \cup (KeptServices \X {graph.window})
    BY <1>2, <1>9 DEF GraphAnswer, GraphState
  <2>2. graph.window <= w => \A n \in KeptServices : Backed(n, w)
    BY ServicesAreBacked DEF KeptServices
  <2>3. KeptEdges(KeptServices) \subseteq graph.raw
    BY DEF KeptEdges
  <2> QED
    BY <1>0, <1>1, <2>1, <2>2, <2>3 DEF GraphBacked
<1> QED
  BY <1>4, <1>5, <1>6, <1>7, <1>8, <1>9 DEF GraphStep

\* A lookup that begins: the promises made under windows no longer than its own.
LEMMA AskBacked ==
  ASSUME Typed, NEW n \in Name, NEW w \in Window, GraphBacked(w), LookupAsk(n, w)
  PROVE  lookup'.window = w /\ LookupBacked' /\ DependenciesShown'
<1> DEFINE offered == {v \in Window : <<n, v>> \in links}
<1>1. /\ lookup'.pc = "self" /\ lookup'.name = n /\ lookup'.window = w
      /\ lookup'.offered = offered
      /\ lookup'.known = graph.edges /\ lookup'.shown = graph.window
      /\ edges' = edges /\ stats' = stats
  BY DEF LookupAsk, NoLookup, tables
<1>2. ASSUME Linked' PROVE Backed(n, w)
  <2>1. PICK v \in offered : v <= w
    BY <1>1, <1>2 DEF Linked
  <2> QED
    BY <2>1 DEF GraphBacked
<1>3. graph.window <= w => graph.edges \subseteq edges[w]
  BY DEF GraphBacked
<1>4. Backed(n, w) => Backed(lookup.name, lookup.window)'
  BY <1>1 DEF Backed, StatOf, CallerOf, CalleeOf
<1> HIDE DEF offered
<1> QED
  BY <1>1, <1>2, <1>3, <1>4 DEF LookupBacked, DependenciesShown

\* A query of the details finds what is still to be found, or leaves it to the next.
LEMMA LookupStepBacked ==
  ASSUME Typed, LookupBacked, DependenciesShown, tables' = tables, LookupStep,
         lookup.window = lookup'.window
  PROVE  LookupBacked' /\ DependenciesShown'
<1> DEFINE w == lookup.window
<1>0. edges' = edges /\ stats' = stats
  BY DEF tables
<1>1. \A n, v : /\ StatOf(n, v)' <=> StatOf(n, v)
                /\ CallerOf(n, v)' <=> CallerOf(n, v)
                /\ CalleeOf(n, v)' <=> CalleeOf(n, v)
                /\ Backed(n, v)' <=> Backed(n, v)
  BY <1>0 DEF StatOf, CallerOf, CalleeOf, Backed
<1>2. lookup \in LookupState
  BY DEF Typed, TypeOK
<1>4. CASE LookupSelf
  <2>1. /\ lookup.pc = "self" /\ lookup'.pc = "inbound" /\ lookup'.name = lookup.name
        /\ lookup'.offered = lookup.offered /\ lookup'.known = lookup.known
        /\ lookup'.shown = lookup.shown
        /\ lookup'.stats = {s \in stats[w] : s.service = lookup.name /\ s.span # "Internal"}
    BY <1>2, <1>4 DEF LookupSelf, LookupState
  <2>2. lookup'.stats = {} => ~StatOf(lookup.name, w)
    BY <2>1 DEF StatOf
  <2>3. Linked' <=> Linked
    BY <2>1 DEF Linked
  <2> QED
    BY <1>0, <1>1, <2>1, <2>2, <2>3
       DEF LookupBacked, DependenciesShown, Backed, CallerOf, CalleeOf
<1>5. CASE LookupInbound
  <2>1. PICK peers \in FirstOf(Callers(lookup.name), DepLimit) :
          lookup' = [lookup EXCEPT !.pc = "outbound", !.inbound = peers]
    BY <1>5 DEF LookupInbound
  <2>2. /\ lookup.pc = "inbound" /\ lookup'.pc = "outbound" /\ lookup'.name = lookup.name
        /\ lookup'.offered = lookup.offered /\ lookup'.known = lookup.known
        /\ lookup'.shown = lookup.shown
        /\ lookup'.stats = lookup.stats /\ lookup'.inbound = peers
    BY <1>2, <1>5, <2>1 DEF LookupInbound, LookupState
  <2>3. peers = {} => ~CalleeOf(lookup.name, w)
    BY <2>1, FirstKeeps DEF Callers, CalleeOf
  <2>4. \A e \in edges[w] : e.callee = lookup.name /\ e.kind = "service" =>
                              e.caller \in peers \/ Cardinality(peers) = DepLimit
    BY <2>1, FirstKeeps DEF Callers
  <2>5. lookup.shown <= w => lookup.known \subseteq edges[w]
    BY <2>2 DEF LookupBacked
  <2>6. Linked' <=> Linked
    BY <2>2 DEF Linked
  <2> QED
    BY <1>0, <1>1, <2>2, <2>3, <2>4, <2>5, <2>6
       DEF LookupBacked, DependenciesShown, InboundShown, CallerOf, CalleeOf
<1>6. CASE LookupOutbound
  <2>1. PICK peers \in FirstOf(Callees(lookup.name), DepLimit) :
          lookup' = [lookup EXCEPT
            !.pc = IF lookup.stats = {} /\ lookup.inbound = {} /\ peers = {}
                   THEN "missing" ELSE "found",
            !.outbound = peers]
    BY <1>6 DEF LookupOutbound
  <2>2. /\ lookup.pc = "outbound" /\ lookup'.pc \in {"missing", "found"}
        /\ lookup'.pc = "missing" => lookup.stats = {} /\ lookup.inbound = {} /\ peers = {}
        /\ lookup'.name = lookup.name /\ lookup'.offered = lookup.offered
        /\ lookup'.known = lookup.known /\ lookup'.shown = lookup.shown
        /\ lookup'.inbound = lookup.inbound /\ lookup'.outbound = peers
    BY <1>2, <1>6, <2>1 DEF LookupOutbound, LookupState
  <2>3. ASSUME peers = {} PROVE ~CallerOf(lookup.name, w)
    <3>1. Callees(lookup.name) = {}
      BY <2>1, <2>3, FirstKeeps
    <3>2. \A e \in edges[w] : e.caller = lookup.name =>
                                <<e.callee, e.kind>> \in Callees(lookup.name)
      BY DEF Callees
    <3> QED
      BY <3>1, <3>2 DEF CallerOf
  <2>4. \A e \in edges[w] : e.caller = lookup.name =>
                              <<e.callee, e.kind>> \in peers \/ Cardinality(peers) = DepLimit
    BY <2>1, FirstKeeps DEF Callees
  <2>5. lookup.shown <= w => lookup.known \subseteq edges[w]
    BY <2>2 DEF LookupBacked
  <2>6. Linked' <=> Linked
    BY <2>2 DEF Linked
  <2> QED
    BY <1>0, <1>1, <2>2, <2>3, <2>4, <2>5, <2>6
       DEF LookupBacked, DependenciesShown, InboundShown, OutboundShown
<1>7. CASE LookupFails
  BY <1>7 DEF LookupFails, NoLookup, LookupBacked, DependenciesShown
<1> QED
  BY <1>4, <1>5, <1>6, <1>7 DEF LookupStep

\* Every step keeps the invariant of a window.
LEMMA StepKept ==
  ASSUME Assembled, Assembled', Nested, NEW w \in Window, KeptIn(w), [Next]_vars PROVE KeptIn(w)'
<1>0. Typed
  BY DEF Assembled
<1>1. ASSUME left' = left, edges[w] \subseteq edges'[w], stats[w] \subseteq stats'[w],
             w \notin left /\ GraphBacked(w) => GraphBacked(w)', lookup' = lookup
      PROVE  KeptIn(w)'
  BY <1>1, LookupStays DEF KeptIn
<1>3. CASE UNCHANGED vars
  BY <1>1, <1>3, GraphStays DEF vars
<1>4. ASSUME NEW u \in Window, NEW e \in Edge, InsertEdge(e, u) PROVE KeptIn(w)'
  <2>1. edges[w] \subseteq edges'[w]
    BY <1>4 DEF InsertEdge, With
  <2> QED
    BY <1>1, <1>4, <2>1, GraphStays DEF InsertEdge
<1>5. ASSUME NEW u \in Window, NEW s \in Stat, InsertStat(s, u) PROVE KeptIn(w)'
  <2>1. stats[w] \subseteq stats'[w]
    BY <1>5 DEF InsertStat, With
  <2> QED
    BY <1>1, <1>5, <2>1, GraphStays DEF InsertStat
<1>6. ASSUME NEW u \in Window, Leave(u) PROVE KeptIn(w)'
  <2>1. CASE u = w
    BY <1>6, <2>1 DEF Leave, KeptIn
  <2>2. CASE u # w
    <3>1. edges'[w] = edges[w] /\ stats'[w] = stats[w]
      BY <1>0, <1>6, <2>2 DEF Leave, Typed, TypeOK
    <3>2. graph' = graph /\ links' = links /\ lookup' = lookup /\ left \subseteq left'
      BY <1>6 DEF Leave
    <3> QED
      BY <3>1, <3>2, GraphStays, LookupStays DEF KeptIn
  <2> QED
    BY <2>1, <2>2
<1>7. CASE (\E u \in Window, limit \in 1..MaxLimit : GraphAsk(limit, u))
           \/ (\E e \in Edge : GraphScan(e)) \/ GraphStep
  <2>1. tables' = tables /\ lookup' = lookup
    BY <1>7 DEF GraphAsk, GraphScan, GraphStep, GraphEdges, GraphStats, GraphAnswer, GraphFails
  <2>2. GraphBacked(w) => GraphBacked(w)'
    BY <1>7, <2>1, GraphStepBacked
  <2> QED
    BY <1>1, <2>1, <2>2 DEF tables
<1>8. ASSUME NEW u \in Window, List(u) PROVE KeptIn(w)'
  <2>1. /\ tables' = tables /\ graph' = graph /\ lookup' = lookup
        /\ links' \subseteq links \cup (Listed(u) \X {u})
    BY <1>8, FirstIsSubset DEF List
  <2>2. u <= w => \A n \in Listed(u) : StatOf(n, w)
    BY DEF Listed, StatOf, Nested
  <2>3. ASSUME GraphBacked(w) PROVE GraphBacked(w)'
    <3>1. \A n : (StatOf(n, w)' <=> StatOf(n, w)) /\ (Backed(n, w)' <=> Backed(n, w))
      BY <2>1 DEF tables, StatOf, CallerOf, CalleeOf, Backed
    <3> QED
      BY <2>1, <2>2, <2>3, <3>1 DEF GraphBacked, Backed, tables
  <2> QED
    BY <1>1, <2>1, <2>3 DEF tables
<1>9. ASSUME NEW n \in Name, NEW u \in Window, LookupAsk(n, u) PROVE KeptIn(w)'
  <2>1. tables' = tables /\ graph' = graph /\ links' = links /\ lookup'.window = u
    BY <1>9 DEF LookupAsk, NoLookup
  <2>2. GraphBacked(w) => GraphBacked(w)'
    BY <2>1, GraphStays DEF tables
  <2>3. u = w /\ GraphBacked(w) => LookupBacked' /\ DependenciesShown'
    BY <1>0, <1>9, AskBacked
  <2> QED
    BY <2>1, <2>2, <2>3 DEF KeptIn, tables
<1>10. CASE LookupStep
  <2>1. tables' = tables /\ graph' = graph /\ links' = links
    BY <1>10 DEF LookupStep, LookupSelf, LookupInbound, LookupOutbound, LookupFails
  <2>2. GraphBacked(w) => GraphBacked(w)'
    BY <2>1, GraphStays DEF tables
  <2>3. CASE lookup'.window = lookup.window
    <3>1. LookupBacked /\ DependenciesShown => LookupBacked' /\ DependenciesShown'
      BY <1>0, <1>10, <2>1, <2>3, LookupStepBacked
    <3> QED
      BY <2>1, <2>2, <2>3, <3>1 DEF KeptIn, tables
  <2>4. CASE LookupFails
    BY <2>1, <2>2, <2>4 DEF LookupFails, NoLookup, KeptIn, LookupBacked, DependenciesShown, tables
  <2>5. LookupFails \/ lookup'.window = lookup.window
    BY <1>0, <1>10 DEF LookupStep, LookupSelf, LookupInbound, LookupOutbound, Typed, TypeOK,
                       LookupState
  <2> QED
    BY <2>3, <2>4, <2>5
<1> QED
  BY <1>3, <1>4, <1>5, <1>6, <1>7, <1>8, <1>9, <1>10, AskCases DEF Next

LEMMA InitKept == ASSUME Init PROVE Kept
<1>1. Nested
  BY DEF Init, Nested
<1>2. ASSUME NEW w \in Window PROVE KeptIn(w)
  BY DEF Init, NoGraph, NoLookup, KeptIn, GraphBacked, LookupBacked, DependenciesShown
<1> QED
  BY <1>1, <1>2 DEF Kept

LEMMA AlwaysKept == Spec => []Kept
<1>1. Init => Kept
  BY InitKept
<1>2. Assembled /\ Assembled' /\ Kept /\ [Next]_vars => Kept'
  BY StepKept, StaysNested DEF Assembled, Kept
<1> QED
  BY <1>1, <1>2, AlwaysAssembled, PTL DEF Spec

\* The details of a service that was shown under a window no longer than theirs are never a
\* 404 unless a row has left their window, whatever is inserted between the queries of all
\* three requests, for any windows and any of the requests' limits.
THEOREM LinksDoResolve == Spec => []LinksResolve
<1>1. Assembled /\ Kept => LinksResolve
  <2>1. SUFFICES ASSUME Assembled, Kept, lookup.pc = "missing", lookup.window \notin left,
                        NEW v \in lookup.offered
                 PROVE  v > lookup.window
    BY DEF LinksResolve
  <2>2. lookup.window \in Nat /\ v \in Nat /\ lookup.window \in Window
    BY <2>1, ServiceReadsAssumption DEF Assembled, Typed, TypeOK, LookupState
  <2>3. ~Linked
    BY <2>1, <2>2 DEF Kept, KeptIn, LookupBacked
  <2> QED
    BY <2>2, <2>3 DEF Linked
<1> QED
  BY <1>1, AlwaysKept, AlwaysAssembled, PTL

\* An edge the graph has shown is in the details of both its ends under every window no
\* shorter than the graph's, unless their LIMIT is reached or a row has left that window.
THEOREM ShownEdgesAreDependencies == Spec => []ShownEdgeIsDependency
<1>1. Assembled /\ Kept => ShownEdgeIsDependency
  BY DEF Assembled, Typed, TypeOK, LookupState, Kept, KeptIn, DependenciesShown, InboundShown,
         OutboundShown, ShownEdgeIsDependency
<1> QED
  BY <1>1, AlwaysKept, AlwaysAssembled, PTL

===============================================================================
