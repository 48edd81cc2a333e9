------------------------------ MODULE PageProofs ------------------------------
(***************************************************************************)
(* The pages of the frontend: the loads they have in common, the log page  *)
(* and the pages with a time window, for any filters or windows, any       *)
(* number of navigations and loads, and any order of the answers.          *)
(***************************************************************************)
EXTENDS LogsPage, WindowPage, FiniteSetTheorems, TLAPS

USE PageAssumption, LogsPageAssumption, WindowPageAssumption


-------------------------------------------------------------------------------
(* The loads of a page, with parameters from What. *)

\* Each load has a number of its own; as long as no answer has overtaken an older one, the
\* last load is under way, or nothing is and the page shows its answer or its error.
LoadsInv(What) ==
  /\ issued \in Nat /\ loads \subseteq [n : 1..issued, what : What]
  /\ shown = NoAnswer \/ shown \in [n : 1..issued, what : What]
  /\ loading \in BOOLEAN /\ error \in BOOLEAN /\ overtaken \in BOOLEAN /\ fails \in 0..MaxFail
  /\ \A k, l \in loads : k.n = l.n => k = l
  /\ issued > 0 /\ ~overtaken =>
       (\E l \in loads : l.n = issued) \/ (loads = {} /\ (error \/ shown.n = issued))

LEMMA NoLoads == ASSUME NEW What, PageInit PROVE LoadsInv(What)
<1>1. /\ loads = {} /\ issued = 0 /\ shown = NoAnswer /\ loading = FALSE /\ error = FALSE
      /\ fails = 0 /\ overtaken = FALSE
  BY DEF PageInit
<1>2. loading \in BOOLEAN /\ error \in BOOLEAN /\ overtaken \in BOOLEAN
  BY <1>1
<1>3. fails \in 0..MaxFail /\ ~(issued > 0)
  BY <1>1
<1> QED
  BY <1>1, <1>2, <1>3 DEF LoadsInv

LEMMA StartKeepsLoads ==
  ASSUME NEW What, LoadsInv(What), NEW f \in What, StartLoad(f)
  PROVE  LoadsInv(What)'
<1>1. /\ issued' = issued + 1 /\ loads' = loads \cup {[n |-> issued + 1, what |-> f]}
      /\ loading' = TRUE /\ error' = FALSE /\ overtaken' = (overtaken /\ loads # {})
      /\ shown' = shown /\ fails' = fails
  BY DEF StartLoad
<1>2. issued' \in Nat /\ loads' \subseteq [n : 1..issued', what : What]
  BY <1>1 DEF LoadsInv
<1>3. shown' = NoAnswer \/ shown' \in [n : 1..issued', what : What]
  BY <1>1 DEF LoadsInv
<1>4. /\ loading' \in BOOLEAN /\ error' \in BOOLEAN /\ overtaken' \in BOOLEAN
      /\ fails' \in 0..MaxFail
  BY <1>1 DEF LoadsInv
<1>5. \A k, l \in loads' : k.n = l.n => k = l
  <2>1. \A k \in loads : k.n \in 1..issued
    BY DEF LoadsInv
  <2> QED
    BY <1>1, <2>1 DEF LoadsInv
<1>6. \E l \in loads' : l.n = issued'
  <2>1. [n |-> issued + 1, what |-> f].n = issued'
    BY <1>1
  <2> QED
    BY <1>1, <2>1
<1> QED
  BY <1>2, <1>3, <1>4, <1>5, <1>6 DEF LoadsInv, NoAnswer

LEMMA EndKeepsLoads ==
  ASSUME NEW What, LoadsInv(What), NEW m \in loads, Answer(m) \/ Fail(m)
  PROVE  LoadsInv(What)'
<1>1. /\ loads' = loads \ {m} /\ issued' = issued /\ loading' = FALSE
      /\ overtaken' = (overtaken \/ \E k \in loads : k.n < m.n)
      /\ (shown' = m /\ error' = error /\ fails' = fails)
         \/ (shown' = shown /\ error' = TRUE /\ fails < MaxFail /\ fails' = fails + 1)
  BY DEF Answer, Fail, End
<1>2. issued' \in Nat /\ loads' \subseteq [n : 1..issued', what : What]
  BY <1>1 DEF LoadsInv
<1>3. shown' = NoAnswer \/ shown' \in [n : 1..issued', what : What]
  BY <1>1 DEF LoadsInv, NoAnswer
<1>4. loading' \in BOOLEAN /\ error' \in BOOLEAN /\ overtaken' \in BOOLEAN
  BY <1>1 DEF LoadsInv
<1>5. fails' \in 0..MaxFail
  BY <1>1 DEF LoadsInv
<1>6. \A k, l \in loads' : k.n = l.n => k = l
  BY <1>1 DEF LoadsInv
<1>7. ASSUME issued > 0, ~overtaken'
      PROVE  \/ \E l \in loads' : l.n = issued
             \/ loads' = {} /\ (error' \/ shown'.n = issued)
  <2>1. ~overtaken /\ \A k \in loads : ~(k.n < m.n)
    BY <1>1, <1>7
  <2>2. PICK l \in loads : l.n = issued
    BY <1>7, <2>1 DEF LoadsInv
  <2>3. CASE l = m
    <3>1. \A k \in loads : k.n \in 1..issued
      BY DEF LoadsInv
    <3>2. \A k \in loads : k = m
      BY <2>1, <2>2, <2>3, <3>1 DEF LoadsInv
    <3> QED
      BY <1>1, <2>2, <2>3, <3>2
  <2>4. CASE l # m
    BY <1>1, <2>2, <2>4
  <2> QED
    BY <2>3, <2>4
<1> QED
  BY <1>1, <1>2, <1>3, <1>4, <1>5, <1>6, <1>7 DEF LoadsInv

LEMMA KeptLoads ==
  ASSUME NEW What, LoadsInv(What), UNCHANGED load
  PROVE  LoadsInv(What)'
BY DEF LoadsInv, load, NoAnswer

-------------------------------------------------------------------------------
(* The log page: the navigation under way. *)

Navigation == [to : Query, by : Origin]

\* None, or one.
NavOK == nav = {} \/ \E v \in Navigation : nav = {v}

\* The calls of apply() that wait for it: none or one.
Waiting == IF \E v \in nav : v.by = "apply" THEN 1 ELSE 0

\* The same for navigations from outside.
Coming == IF \E v \in nav : v.by = "outside" THEN 1 ELSE 0

LEMMA WaitingIsCancelled ==
  ASSUME NavOK
  PROVE  Cardinality(Cancelled("apply")) = Waiting
<1>1. CASE \E v \in nav : v.by = "apply"
  <2>1. PICK v \in Navigation : nav = {v}
    BY <1>1 DEF NavOK
  <2>2. Cancelled("apply") = {v}
    BY <1>1, <2>1 DEF Cancelled
  <2> QED
    BY <1>1, <2>2, FS_Singleton DEF Waiting
<1>2. CASE ~\E v \in nav : v.by = "apply"
  <2>1. Cancelled("apply") = {}
    BY <1>2 DEF Cancelled
  <2> QED
    BY <1>2, <2>1, FS_EmptySet DEF Waiting
<1> QED
  BY <1>1, <1>2

LEMMA NavSize == NavOK => nav \subseteq Navigation /\ Cardinality(nav) <= 1
<1>1. CASE nav = {}
  BY <1>1, FS_EmptySet
<1>2. ASSUME NEW v \in Navigation, nav = {v} PROVE nav \subseteq Navigation /\ Cardinality(nav) <= 1
  BY <1>2, FS_Singleton
<1> QED
  BY <1>1, <1>2 DEF NavOK

\* What Navigate leaves under way.
LEMMA Navigates ==
  ASSUME NEW q \in Query, NEW by \in Origin, Navigate(q, by)
  PROVE  /\ NavOK'
         /\ Waiting' = IF by = "apply" /\ q # url THEN 1 ELSE 0
         /\ Coming' = IF by = "outside" /\ q # url THEN 1 ELSE 0
<1>1. CASE q = url
  BY <1>1 DEF Navigate, NavOK, Waiting, Coming
<1>2. CASE q # url
  <2>1. [to |-> q, by |-> by] \in Navigation /\ nav' = {[to |-> q, by |-> by]}
    BY <1>2 DEF Navigate, Navigation
  <2> QED
    BY <1>2, <2>1 DEF NavOK, Waiting, Coming
<1> QED
  BY <1>1, <1>2

-------------------------------------------------------------------------------
(* The calls of apply(), the navigations and the watcher. *)

Suppressed == IF suppressNextWatch THEN 1 ELSE 0

PlaceInv ==
  /\ url \in Query /\ form \in Filter /\ suppressNextWatch \in BOOLEAN /\ NavOK
  /\ Waiting = 1 => suppressNextWatch

Counts ==
  /\ resumable \in Nat /\ loaded \in Nat /\ applied \in 0..MaxApply /\ landed \in Nat
  /\ watched \in Nat /\ arrived \in Nat /\ outside \in 0..MaxOutside
  /\ loaded + resumable + Waiting = applied
  /\ landed + Waiting <= applied
  /\ arrived + Coming <= outside
  /\ watched <= arrived
  /\ arrived + landed + Suppressed <= watched + applied

CountInv == PlaceInv /\ Counts

Inv == LoadsInv(Filter) /\ CountInv

LEMMA Queries == \A f \in Filter : QueryOf(f) \in Query
  BY DEF QueryOf, Query

LEMMA InitInv == Init => Inv
<1> SUFFICES ASSUME Init PROVE Inv
  OBVIOUS
<1>1. url.filter \in Filter
  BY DEF Init, Query
<1>2. LoadsInv(Filter)
  BY NoLoads DEF Init
<1>3. NavOK /\ Waiting = 0 /\ Coming = 0 /\ Suppressed = 0
  BY DEF Init, PageInit, NavOK, Waiting, Coming, Suppressed
<1>4. PlaceInv
  <2>1. ~(Waiting = 1)
    BY <1>3
  <2>2. suppressNextWatch \in BOOLEAN
    BY DEF Init
  <2> QED
    BY <1>1, <1>3, <2>1, <2>2 DEF Init, PlaceInv
<1>5. Counts
  BY <1>3 DEF Init, Counts
<1> QED
  BY <1>2, <1>4, <1>5 DEF CountInv, Inv

LEMMA ApplyInv == ASSUME Inv, Apply PROVE Inv'
<1> DEFINE q == QueryOf(form)
<1>1. q \in Query /\ NavOK
  BY Queries DEF Inv, CountInv, PlaceInv, Counts
<1>2. /\ applied < MaxApply /\ applied' = applied + 1 /\ suppressNextWatch' = TRUE
      /\ Navigate(q, "apply")
      /\ resumable' = resumable + (Waiting + (IF q = url THEN 1 ELSE 0))
      /\ UNCHANGED <<url, load, form, loaded, watched, landed, outside, arrived>>
  BY <1>1, WaitingIsCancelled DEF Apply, ComeBack
<1> HIDE DEF q
<1>3. /\ NavOK' /\ Waiting' = (IF q # url THEN 1 ELSE 0) /\ Coming' = 0
  BY <1>1, <1>2, Navigates DEF Origin
<1>4. Waiting \in 0..1 /\ Coming \in 0..1 /\ Suppressed \in 0..1 /\ Suppressed' = 1
  BY <1>2 DEF Waiting, Coming, Suppressed
<1>5. Counts'
  <2>1. CASE q = url
    BY <1>2, <1>3, <1>4, <2>1 DEF Inv, CountInv, Counts
  <2>2. CASE q # url
    BY <1>2, <1>3, <1>4, <2>2 DEF Inv, CountInv, Counts
  <2> QED
    BY <2>1, <2>2
<1>6. PlaceInv'
  BY <1>2, <1>3 DEF Inv, CountInv, PlaceInv
<1> QED
  BY <1>2, <1>5, <1>6, KeptLoads DEF Inv, CountInv, PlaceInv, Counts

LEMMA OutsideInv == ASSUME Inv, NEW q \in Query, Outside(q) PROVE Inv'
<1>1. NavOK
  BY DEF Inv, CountInv, PlaceInv, Counts
<1>2. /\ outside < MaxOutside /\ outside' = outside + 1 /\ Navigate(q, "outside")
      /\ resumable' = resumable + Waiting
      /\ UNCHANGED <<url, load, form, suppressNextWatch, applied, loaded, watched, landed, arrived>>
  <2>1. Waiting + 0 = Waiting
    BY DEF Waiting
  <2> QED
    BY <1>1, <2>1, WaitingIsCancelled DEF Outside, ComeBack
<1>3. NavOK' /\ Waiting' = 0 /\ Coming' \in 0..1
  BY <1>1, <1>2, Navigates DEF Origin
<1>4. Waiting \in 0..1 /\ Coming \in 0..1 /\ Suppressed' = Suppressed /\ Suppressed \in 0..1
  BY <1>2 DEF Waiting, Coming, Suppressed
<1>5. Counts'
  <2>1. Counts /\ Coming \in 0..1 /\ Coming' \in 0..1 /\ outside' = outside + 1
        /\ arrived' = arrived /\ outside < MaxOutside
    BY <1>2, <1>3, <1>4 DEF Inv, CountInv
  <2>2. arrived' + Coming' <= outside' /\ outside' \in 0..MaxOutside
    <3>1. arrived \in Nat /\ outside \in 0..MaxOutside /\ arrived + Coming <= outside
      BY <2>1 DEF Counts
    <3>2. arrived <= outside
      BY <2>1, <3>1
    <3>3. ASSUME NEW c \in 0..1 PROVE arrived + c <= outside + 1
      BY <3>1, <3>2
    <3>4. outside + 1 \in 0..MaxOutside
      BY <2>1, <3>1
    <3> QED
      BY <2>1, <3>3, <3>4
  <2>3. /\ loaded' + resumable' + Waiting' = applied' /\ resumable' \in Nat
        /\ landed' + Waiting' <= applied'
    BY <1>2, <1>3, <1>4, <2>1 DEF Counts
  <2>4. arrived' + landed' + Suppressed' <= watched' + applied'
    BY <1>2, <1>4, <2>1 DEF Counts
  <2> QED
    BY <1>2, <2>1, <2>2, <2>3, <2>4 DEF Counts
<1>6. PlaceInv'
  <2>1. ~(Waiting' = 1)
    BY <1>3
  <2> QED
    BY <1>2, <1>3, <2>1 DEF Inv, CountInv, PlaceInv
<1> QED
  BY <1>2, <1>5, <1>6, KeptLoads DEF Inv, CountInv, PlaceInv, Counts

\* What a navigation that ends does to the page: the watcher loads unless it is suppressed.
LEMMA Lands ==
  ASSUME Inv, NEW v \in nav, Land(v), Watch(v.to)
  PROVE  /\ LoadsInv(Filter)' /\ nav = {v} /\ v \in Navigation
         /\ NavOK' /\ Waiting' = 0 /\ Coming' = 0
         /\ url' \in Query /\ form' \in Filter
         /\ \/ suppressNextWatch /\ suppressNextWatch' = FALSE /\ watched' = watched
            \/ ~suppressNextWatch /\ suppressNextWatch' = FALSE /\ watched' = watched + 1
<1>1. nav = {v} /\ v \in Navigation /\ url' = v.to /\ nav' = {}
  BY DEF Inv, CountInv, PlaceInv, Counts, NavOK, Land
<1>2. v.to \in Query /\ v.to.filter \in Filter /\ form \in Filter
  BY <1>1 DEF Navigation, Query, Inv, CountInv, PlaceInv, Counts
<1>3. NavOK' /\ Waiting' = 0 /\ Coming' = 0
  BY <1>1 DEF NavOK, Waiting, Coming
<1>4. CASE suppressNextWatch
  BY <1>1, <1>2, <1>3, <1>4, KeptLoads DEF Watch, Inv
<1>5. CASE ~suppressNextWatch
  <2>1. /\ form' = v.to.filter /\ watched' = watched + 1 /\ StartLoad(v.to.filter)
        /\ suppressNextWatch' = suppressNextWatch
    BY <1>5 DEF Watch
  <2>2. LoadsInv(Filter)'
    BY <1>2, <2>1, StartKeepsLoads DEF Inv
  <2>3. suppressNextWatch' = FALSE
    BY <1>5, <2>1 DEF Inv, CountInv, PlaceInv, Counts
  <2> QED
    BY <1>1, <1>2, <1>3, <1>5, <2>1, <2>2, <2>3
<1> QED
  BY <1>4, <1>5

LEMMA LandApplyInv == ASSUME Inv, LandApply PROVE Inv'
<1>1. PICK v \in nav : /\ v.by = "apply" /\ Land(v) /\ Watch(v.to)
                       /\ resumable' = resumable + 1 /\ landed' = landed + 1
                       /\ UNCHANGED <<applied, loaded, outside, arrived>>
  BY DEF LandApply
<1>2. /\ LoadsInv(Filter)' /\ nav = {v} /\ NavOK' /\ Waiting' = 0 /\ Coming' = 0
      /\ url' \in Query /\ form' \in Filter
  BY <1>1, Lands
<1>3. Waiting = 1 /\ Coming = 0
  BY <1>1, <1>2 DEF Waiting, Coming
<1>4. suppressNextWatch
  BY <1>3 DEF Inv, CountInv, PlaceInv, Counts
<1>5. suppressNextWatch' = FALSE /\ watched' = watched
  BY <1>1, <1>4, Lands
<1>6. Suppressed = 1 /\ Suppressed' = 0
  BY <1>4, <1>5 DEF Suppressed
<1>7. Counts'
  BY <1>1, <1>2, <1>3, <1>5, <1>6 DEF Inv, CountInv, Counts
<1>8. PlaceInv'
  <2>1. ~(Waiting' = 1)
    BY <1>2
  <2>2. suppressNextWatch' \in BOOLEAN
    BY <1>5
  <2> QED
    BY <1>2, <2>1, <2>2 DEF PlaceInv
<1> QED
  BY <1>2, <1>7, <1>8 DEF Inv, CountInv, PlaceInv, Counts

LEMMA LandOutsideInv == ASSUME Inv, LandOutside PROVE Inv'
<1>1. PICK v \in nav : /\ v.by = "outside" /\ Land(v) /\ Watch(v.to)
                       /\ arrived' = arrived + 1
                       /\ UNCHANGED <<resumable, applied, loaded, landed, outside>>
  BY DEF LandOutside
<1>2. /\ LoadsInv(Filter)' /\ nav = {v} /\ NavOK' /\ Waiting' = 0 /\ Coming' = 0
      /\ url' \in Query /\ form' \in Filter
  BY <1>1, Lands
<1>3. Waiting = 0 /\ Coming = 1
  BY <1>1, <1>2 DEF Waiting, Coming
<1>4. PlaceInv'
  <2>1. ~(Waiting' = 1)
    BY <1>2
  <2>2. suppressNextWatch' = FALSE
    BY <1>1, Lands
  <2>3. suppressNextWatch' \in BOOLEAN
    BY <2>2
  <2> QED
    BY <1>2, <2>1, <2>3 DEF PlaceInv
<1>5. CASE suppressNextWatch
  <2>1. suppressNextWatch' = FALSE /\ watched' = watched
    BY <1>1, <1>5, Lands
  <2>2. Suppressed = 1 /\ Suppressed' = 0
    BY <1>5, <2>1 DEF Suppressed
  <2> QED
    BY <1>1, <1>2, <1>3, <1>4, <2>1, <2>2 DEF Inv, CountInv, Counts
<1>6. CASE ~suppressNextWatch
  <2>1. suppressNextWatch' = FALSE /\ watched' = watched + 1
    BY <1>1, <1>6, Lands
  <2>2. Suppressed = 0 /\ Suppressed' = 0
    BY <1>6, <2>1 DEF Suppressed
  <2> QED
    BY <1>1, <1>2, <1>3, <1>4, <2>1, <2>2 DEF Inv, CountInv, Counts
<1> QED
  BY <1>5, <1>6

LEMMA NextInv == Inv /\ [Next]_vars => Inv'
<1> SUFFICES ASSUME Inv, [Next]_vars PROVE Inv'
  OBVIOUS
<1>1. CASE Apply
  BY <1>1, ApplyInv
<1>2. CASE Resume
  <2>1. LoadsInv(Filter)'
    BY <1>2, StartKeepsLoads DEF Resume, Inv, CountInv, PlaceInv, Counts
  <2>2. NavOK' /\ Waiting' = Waiting /\ Coming' = Coming /\ Suppressed' = Suppressed
    BY <1>2 DEF Resume, Inv, CountInv, PlaceInv, Counts, NavOK, Waiting, Coming, Suppressed
  <2>3. Waiting \in 0..1
    BY DEF Waiting
  <2> QED
    BY <1>2, <2>1, <2>2, <2>3 DEF Resume, Inv, CountInv, PlaceInv, Counts
<1>3. CASE LandApply
  BY <1>3, LandApplyInv
<1>4. CASE LandOutside
  BY <1>4, LandOutsideInv
<1>5. CASE EndLoad
  <2>1. PICK m \in loads : Answer(m) \/ Fail(m)
    BY <1>5 DEF EndLoad
  <2>2. LoadsInv(Filter)'
    BY <2>1, EndKeepsLoads DEF Inv
  <2>3. /\ url' = url /\ nav' = nav
        /\ UNCHANGED <<form, suppressNextWatch, resumable, applied, loaded, watched, landed,
                       outside, arrived>>
    BY <1>5, <2>1 DEF EndLoad, Answer, Fail
  <2>4. NavOK' /\ Waiting' = Waiting /\ Coming' = Coming /\ Suppressed' = Suppressed
    BY <2>3 DEF Inv, CountInv, PlaceInv, Counts, NavOK, Waiting, Coming, Suppressed
  <2> QED
    BY <2>2, <2>3, <2>4 DEF Inv, CountInv, PlaceInv, Counts
<1>6. ASSUME NEW f \in Filter, Edit(f) PROVE Inv'
  <2>1. NavOK' /\ Waiting' = Waiting /\ Coming' = Coming /\ Suppressed' = Suppressed
    BY <1>6 DEF Edit, pageVars, Inv, CountInv, PlaceInv, Counts, NavOK, Waiting, Coming, Suppressed
  <2> QED
    BY <1>6, <2>1, KeptLoads DEF Edit, pageVars, Inv, CountInv, PlaceInv, Counts
<1>7. ASSUME NEW q \in Query, Outside(q) PROVE Inv'
  BY <1>7, OutsideInv
<1>8. CASE UNCHANGED vars
  <2>1. NavOK' /\ Waiting' = Waiting /\ Coming' = Coming /\ Suppressed' = Suppressed
    BY <1>8 DEF vars, pageVars, Inv, CountInv, PlaceInv, Counts, NavOK, Waiting, Coming, Suppressed
  <2> QED
    BY <1>8, <2>1, KeptLoads DEF vars, pageVars, Inv, CountInv, PlaceInv, Counts
<1> QED
  BY <1>1, <1>2, <1>3, <1>4, <1>5, <1>6, <1>7, <1>8 DEF Next

LEMMA Invariance == Spec => []Inv
<1> QED
  BY InitInv, NextInv, PTL DEF Spec

-------------------------------------------------------------------------------
(* The theorems of the log page. *)

\* The variables keep their types: no count leaves the bound of the calls it counts.
THEOREM TypeCorrect == Spec => []TypeOK
<1>1. ASSUME Inv PROVE TypeOK
  <2>1. nav \subseteq Navigation /\ Cardinality(nav) <= 1
    BY <1>1, NavSize DEF Inv, CountInv, PlaceInv, Counts
  <2>2. PageTypeOK(Query, Origin, Filter)
    <3>1. loading \in BOOLEAN /\ error \in BOOLEAN /\ overtaken \in BOOLEAN
      BY <1>1 DEF Inv, LoadsInv
    <3>2. {loading, error, overtaken} \subseteq BOOLEAN
      BY <3>1
    <3> QED
      BY <1>1, <2>1, <3>2 DEF Inv, CountInv, PlaceInv, Counts, LoadsInv, PageTypeOK, Navigation
  <2>3. Waiting \in 0..1 /\ Coming \in 0..1
    BY DEF Waiting, Coming
  <2>4. /\ resumable \in 0..MaxApply /\ applied \in 0..MaxApply /\ loaded \in 0..MaxApply
        /\ landed \in 0..MaxApply
    BY <1>1, <2>3 DEF Inv, CountInv, PlaceInv, Counts
  <2>5. watched \in 0..MaxOutside /\ outside \in 0..MaxOutside /\ arrived \in 0..MaxOutside
    BY <1>1, <2>3 DEF Inv, CountInv, PlaceInv, Counts
  <2>6. form \in Filter /\ suppressNextWatch \in BOOLEAN
    BY <1>1 DEF Inv, CountInv, PlaceInv, Counts
  <2> QED
    BY <2>2, <2>4, <2>5, <2>6 DEF TypeOK
<1> QED
  BY <1>1, Invariance, PTL

\* Each call of apply() loads once, and the watcher for changes from outside only.
THEOREM OncePerApplyHolds == Spec => []OncePerApply
<1>1. ASSUME Inv PROVE OncePerApply
  BY <1>1, WaitingIsCancelled DEF Inv, CountInv, PlaceInv, Counts, OncePerApply
<1> QED
  BY <1>1, Invariance, PTL

\* Each change from outside that does not load is owed to a call of apply() of its own.
THEOREM MissesAreExplained == Spec => []MissesExplained
<1>1. ASSUME Inv PROVE MissesExplained
  <2>1. Suppressed \in 0..1
    BY DEF Suppressed
  <2> QED
    BY <1>1, <2>1 DEF Inv, CountInv, PlaceInv, Counts, MissesExplained
<1> QED
  BY <1>1, Invariance, PTL

\* A page that waits for nothing shows the answer to its last load, if none overtook another.
THEOREM ShowsLastAskedHolds == Spec => []ShowsLastAsked
<1>1. Inv => ShowsLastAsked
  BY DEF Inv, LoadsInv, ShowsLastAsked
<1> QED
  BY <1>1, Invariance, PTL

-------------------------------------------------------------------------------
(* A page with a time window. *)

WindowNavigation == [to : WindowQuery, by : Origin]

WindowPlaces ==
  /\ url \in WindowQuery /\ (nav = {} \/ \E v \in WindowNavigation : nav = {v})
  /\ windowVal \in [Instance -> Window] /\ suppressNextWatch \in [Instance -> BOOLEAN]
  /\ due \in BOOLEAN /\ abandoned \in BOOLEAN
  /\ picks \in 0..MaxPick /\ outside \in 0..MaxOutside /\ ticks \in 0..MaxTick

\* Nobody suppresses the watcher of the page, so its window is that of the URL.
PageFollows == ~suppressNextWatch["page"] /\ windowVal["page"] = Valid(url.window)

\* A page that has no load to send has sent its last one with its window.
LastLoadIsCurrent ==
  ~due => /\ issued > 0
          /\ \A l \in loads : l.n = issued => l.what = windowVal["page"]
          /\ shown.n = issued => shown.what = windowVal["page"]

\* A pick's own navigation leads to another window than the URL has, and to the picker's; the
\* flag waits for it.
PickUnderWay ==
  \A v \in nav : v.by = "apply" => /\ v.to.window = windowVal["picker"]
                                   /\ v.to.window # url.window
                                   /\ suppressNextWatch["picker"]

\* Without one, and if none was given up, the picker is where the URL is, with its flag reset.
PickerAtRest ==
  ~abandoned /\ Cancelled("apply") = {} =>
    ~suppressNextWatch["picker"] /\ windowVal["picker"] = Valid(url.window)

PickerLeads == PickUnderWay /\ PickerAtRest

WindowInv ==
  LoadsInv(Window) /\ WindowPlaces /\ PageFollows /\ LastLoadIsCurrent /\ PickerLeads

LEMMA ValidWindows == \A w : Valid(w) \in Window /\ (w \in Window => Valid(w) = w)
  BY DEF Valid

LEMMA WindowNavigates ==
  ASSUME NEW q \in WindowQuery, NEW by \in Origin, Navigate(q, by)
  PROVE  /\ nav' = {} \/ \E v \in WindowNavigation : nav' = {v}
         /\ nav' = {} => q = url
         /\ \A v \in nav' : v.to = q /\ v.by = by /\ q # url
<1>1. CASE q = url
  BY <1>1 DEF Navigate
<1>2. CASE q # url
  <2>1. [to |-> q, by |-> by] \in WindowNavigation /\ nav' = {[to |-> q, by |-> by]}
    BY <1>2 DEF Navigate, WindowNavigation
  <2> QED
    BY <1>2, <2>1
<1> QED
  BY <1>1, <1>2

LEMMA WindowInitInv == WindowInit => WindowInv
<1> SUFFICES ASSUME WindowInit PROVE WindowInv
  OBVIOUS
<1>1. LoadsInv(Window)
  BY NoLoads DEF WindowInit
<1>2. /\ url \in WindowQuery /\ nav = {} /\ due = TRUE /\ abandoned = FALSE
      /\ windowVal = [i \in Instance |-> Valid(url.window)]
      /\ suppressNextWatch = [i \in Instance |-> FALSE]
      /\ picks = 0 /\ outside = 0 /\ ticks = 0
  BY DEF WindowInit, PageInit
<1>3. WindowPlaces
  <2>1. Valid(url.window) \in Window
    BY ValidWindows
  <2>2. windowVal \in [Instance -> Window] /\ suppressNextWatch \in [Instance -> BOOLEAN]
    BY <1>2, <2>1
  <2>3. due \in BOOLEAN /\ abandoned \in BOOLEAN
    BY <1>2
  <2>4. picks \in 0..MaxPick /\ outside \in 0..MaxOutside /\ ticks \in 0..MaxTick
    BY <1>2, PageAssumption, WindowPageAssumption
  <2> QED
    BY <1>2, <2>2, <2>3, <2>4 DEF WindowPlaces
<1>4. PageFollows /\ LastLoadIsCurrent
  BY <1>2 DEF Instance, PageFollows, LastLoadIsCurrent
<1>5. PickUnderWay /\ PickerAtRest
  BY <1>2 DEF Instance, PickUnderWay, PickerAtRest
<1> QED
  BY <1>1, <1>3, <1>4, <1>5 DEF WindowInv, PickerLeads

LEMMA PickInv == ASSUME WindowInv, NEW w \in Window, Pick(w) PROVE WindowInv'
<1> DEFINE q == [url EXCEPT !.window = w]
<1>1. /\ picks < MaxPick /\ picks' = picks + 1
      /\ windowVal' = [windowVal EXCEPT !["picker"] = w]
      /\ suppressNextWatch' = [suppressNextWatch EXCEPT !["picker"] = TRUE]
      /\ Navigate(q, "apply")
      /\ abandoned' = Abandons(q)
      /\ UNCHANGED <<url, load, due, outside, ticks>>
  BY DEF Pick
<1>2. q \in WindowQuery /\ q.window = w /\ (q # url => url.window # w)
  BY DEF WindowInv, WindowPlaces, WindowQuery
<1> HIDE DEF q
<1>3. /\ nav' = {} \/ \E v \in WindowNavigation : nav' = {v}
      /\ nav' = {} => q = url
      /\ \A v \in nav' : v.to = q /\ v.by = "apply" /\ q # url
  BY <1>1, <1>2, WindowNavigates DEF Origin
<1>4. /\ windowVal' \in [Instance -> Window] /\ suppressNextWatch' \in [Instance -> BOOLEAN]
      /\ windowVal'["page"] = windowVal["page"] /\ windowVal'["picker"] = w
      /\ suppressNextWatch'["page"] = suppressNextWatch["page"]
      /\ suppressNextWatch'["picker"]
  BY <1>1 DEF WindowInv, WindowPlaces, Instance
<1>5. WindowPlaces'
  <2>1. abandoned' \in BOOLEAN
    BY <1>1 DEF Abandons
  <2> QED
    BY <1>1, <1>3, <1>4, <2>1 DEF WindowInv, WindowPlaces
<1>6. PageFollows' /\ LastLoadIsCurrent'
  BY <1>1, <1>4 DEF WindowInv, PageFollows, LastLoadIsCurrent, load
<1>7. PickUnderWay'
  BY <1>1, <1>2, <1>3, <1>4 DEF PickUnderWay
<1>8. PickerAtRest'
  <2>1. CASE q = url
    BY <1>1, <2>1 DEF Abandons, PickerAtRest
  <2>2. CASE q # url
    <3>1. \E v \in nav' : v.by = "apply"
      BY <1>3, <2>2
    <3> QED
      BY <3>1 DEF PickerAtRest, Cancelled
  <2> QED
    BY <2>1, <2>2
<1> QED
  BY <1>1, <1>5, <1>6, <1>7, <1>8, KeptLoads DEF WindowInv, PickerLeads

LEMMA GoOutsideInv == ASSUME WindowInv, NEW q \in WindowQuery, GoOutside(q) PROVE WindowInv'
<1>1. /\ outside < MaxOutside /\ outside' = outside + 1
      /\ Navigate(q, "outside")
      /\ abandoned' = (abandoned \/ Cancelled("apply") # {})
      /\ UNCHANGED <<url, load, windowVal, suppressNextWatch, due, picks, ticks>>
  BY DEF GoOutside
<1>2. /\ nav' = {} \/ \E v \in WindowNavigation : nav' = {v}
      /\ \A v \in nav' : v.by = "outside"
  BY <1>1, WindowNavigates DEF Origin
<1>3. WindowPlaces'
  BY <1>1, <1>2 DEF WindowInv, WindowPlaces
<1>4. PageFollows' /\ LastLoadIsCurrent'
  BY <1>1 DEF WindowInv, PageFollows, LastLoadIsCurrent, load
<1>5. PickUnderWay' /\ PickerAtRest'
  BY <1>1, <1>2 DEF WindowInv, PickerLeads, PickUnderWay, PickerAtRest
<1> QED
  BY <1>1, <1>3, <1>4, <1>5, KeptLoads DEF WindowInv, PickerLeads

LEMMA LandInv == ASSUME WindowInv, LandAny PROVE WindowInv'
<1>1. PICK v \in nav : /\ Land(v) /\ WindowWatch(v.to)
                       /\ abandoned' = (abandoned /\ ~PickerFollows(v))
                       /\ UNCHANGED <<load, picks, outside, ticks>>
  BY DEF LandAny
<1>2. nav = {v} /\ v \in WindowNavigation /\ url' = v.to /\ nav' = {} /\ v.to \in WindowQuery
  BY <1>1 DEF Land, WindowInv, WindowPlaces, WindowNavigation
<1>3. /\ LoadsInv(Window)' /\ abandoned' \in BOOLEAN /\ Cancelled("apply")' = {}
      /\ PickUnderWay'
  BY <1>1, <1>2, KeptLoads DEF WindowInv, WindowPlaces, Cancelled, PickUnderWay
<1>a. v.by = "apply" => /\ v.to.window = windowVal["picker"] /\ v.to.window # url.window
                        /\ suppressNextWatch["picker"]
  BY <1>2 DEF WindowInv, PickerLeads, PickUnderWay
<1>b. v.by # "apply" /\ ~abandoned => /\ ~suppressNextWatch["picker"]
                                       /\ windowVal["picker"] = Valid(url.window)
  BY <1>2 DEF WindowInv, PickerLeads, PickerAtRest, Cancelled
<1>4. CASE v.to.window = url.window
  <2>1. UNCHANGED <<windowVal, suppressNextWatch, due>> /\ url'.window = url.window
    BY <1>1, <1>2, <1>4 DEF WindowWatch
  <2>2. WindowPlaces'
    BY <1>1, <1>2, <1>3, <2>1 DEF WindowInv, WindowPlaces
  <2>3. PageFollows' /\ LastLoadIsCurrent'
    BY <1>1, <2>1 DEF WindowInv, PageFollows, LastLoadIsCurrent, load
  <2>4. PickerAtRest'
    <3>1. abandoned' = abandoned /\ v.by # "apply"
      BY <1>1, <1>4, <1>a DEF WindowInv, WindowPlaces, PickerFollows
    <3> QED
      BY <1>b, <2>1, <3>1 DEF PickerAtRest
  <2> QED
    BY <1>3, <2>2, <2>3, <2>4 DEF WindowInv, PickerLeads
<1>5. CASE v.to.window # url.window
  <2>1. /\ windowVal' = [i \in Instance |-> IF suppressNextWatch[i] THEN windowVal[i]
                                                                   ELSE Valid(v.to.window)]
        /\ suppressNextWatch' = [i \in Instance |-> FALSE]
        /\ due' = (due \/ windowVal'["page"] # windowVal["page"])
    BY <1>1, <1>5 DEF WindowWatch
  <2>2. /\ windowVal' \in [Instance -> Window] /\ suppressNextWatch' \in [Instance -> BOOLEAN]
        /\ windowVal'["page"] = Valid(url'.window) /\ ~suppressNextWatch'["page"]
        /\ ~suppressNextWatch'["picker"] /\ windowVal["picker"] \in Window
        /\ windowVal'["picker"] = IF suppressNextWatch["picker"] THEN windowVal["picker"]
                                                                 ELSE Valid(url'.window)
    BY <1>2, <2>1, ValidWindows DEF WindowInv, WindowPlaces, PageFollows, Instance
  <2>3. WindowPlaces'
    <3>1. due' \in BOOLEAN
      BY <2>1 DEF WindowInv, WindowPlaces
    <3> QED
      BY <1>1, <1>2, <1>3, <2>2, <3>1 DEF WindowInv, WindowPlaces
  <2>4. LastLoadIsCurrent'
    <3>1. ~due' => ~due /\ windowVal'["page"] = windowVal["page"]
      BY <2>1
    <3> QED
      BY <1>1, <3>1 DEF WindowInv, LastLoadIsCurrent, load
  <2>5. PickerAtRest'
    <3>1. CASE v.by = "apply"
      BY <1>2, <1>a, <2>2, <3>1, ValidWindows DEF PickerAtRest
    <3>2. CASE v.by # "apply" /\ suppressNextWatch["picker"]
      <4>1. abandoned' = abandoned /\ abandoned
        BY <1>1, <1>b, <3>2 DEF WindowInv, WindowPlaces, PickerFollows
      <4> QED
        BY <4>1 DEF PickerAtRest
    <3>3. CASE ~suppressNextWatch["picker"]
      BY <2>2, <3>3 DEF PickerAtRest
    <3> QED
      BY <3>1, <3>2, <3>3
  <2> QED
    BY <1>3, <2>2, <2>3, <2>4, <2>5 DEF WindowInv, PageFollows, PickerLeads
<1> QED
  BY <1>4, <1>5

LEMMA LoadInv == ASSUME WindowInv, Load PROVE WindowInv'
<1>1. /\ due /\ due' = FALSE /\ StartLoad(windowVal["page"])
      /\ UNCHANGED <<url, nav, windowVal, suppressNextWatch, picks, outside, ticks, abandoned>>
  BY DEF Load
<1>2. windowVal["page"] \in Window
  BY DEF WindowInv, WindowPlaces, Instance
<1>3. LoadsInv(Window)'
  BY <1>1, <1>2, StartKeepsLoads DEF WindowInv
<1>4. LastLoadIsCurrent'
  <2>1. /\ issued' = issued + 1 /\ shown' = shown
        /\ loads' = loads \cup {[n |-> issued + 1, what |-> windowVal["page"]]}
    BY <1>1 DEF StartLoad
  <2>2. /\ issued \in Nat /\ \A l \in loads : l.n \in 1..issued
        /\ shown.n \in 0..issued
    BY DEF WindowInv, LoadsInv, NoAnswer
  <2>3. issued' > 0 /\ shown'.n # issued' /\ \A l \in loads : l.n # issued'
    BY <2>1, <2>2
  <2>4. \A l \in loads' : l.n = issued' => l.what = windowVal["page"]
    BY <2>1, <2>3
  <2> QED
    BY <1>1, <2>3, <2>4 DEF LastLoadIsCurrent
<1>5. WindowPlaces' /\ PageFollows' /\ PickerLeads'
  BY <1>1 DEF WindowInv, WindowPlaces, PageFollows, PickerLeads, PickUnderWay, PickerAtRest,
         Cancelled
<1> QED
  BY <1>3, <1>4, <1>5 DEF WindowInv

LEMMA WindowEndLoadInv == ASSUME WindowInv, WindowEndLoad PROVE WindowInv'
<1>1. PICK m \in loads : Answer(m) \/ Fail(m)
  BY DEF WindowEndLoad
<1>2. UNCHANGED <<windowVal, suppressNextWatch, due, picks, outside, ticks, abandoned>>
  BY DEF WindowEndLoad
<1>3. /\ UNCHANGED <<url, nav>> /\ issued' = issued /\ loads' = loads \ {m}
      /\ shown' = m \/ shown' = shown
  BY <1>1 DEF Answer, Fail, End
<1>4. LoadsInv(Window)'
  BY <1>1, EndKeepsLoads DEF WindowInv
<1>5. WindowPlaces' /\ PageFollows' /\ PickerLeads'
  BY <1>2, <1>3 DEF WindowInv, WindowPlaces, PageFollows, PickerLeads, PickUnderWay, PickerAtRest,
         Cancelled
<1>6. LastLoadIsCurrent'
  BY <1>1, <1>2, <1>3 DEF WindowInv, LastLoadIsCurrent
<1> QED
  BY <1>4, <1>5, <1>6 DEF WindowInv

LEMMA WindowNextInv == WindowInv /\ [WindowNext]_windowVars => WindowInv'
<1> SUFFICES ASSUME WindowInv, [WindowNext]_windowVars PROVE WindowInv'
  OBVIOUS
<1>1. ASSUME NEW w \in Window, Pick(w) PROVE WindowInv'
  BY <1>1, PickInv
<1>2. ASSUME NEW q \in WindowQuery, GoOutside(q) PROVE WindowInv'
  BY <1>2, GoOutsideInv
<1>3. CASE LandAny
  BY <1>3, LandInv
<1>4. CASE Tick
  <2>1. /\ due' = TRUE /\ ticks < MaxTick /\ ticks' = ticks + 1
        /\ UNCHANGED <<pageVars, windowVal, suppressNextWatch, picks, outside, abandoned>>
    BY <1>4 DEF Tick
  <2>2. WindowPlaces' /\ PageFollows' /\ LastLoadIsCurrent' /\ PickerLeads'
    BY <2>1 DEF pageVars, WindowInv, WindowPlaces, PageFollows, LastLoadIsCurrent, PickerLeads,
           PickUnderWay, PickerAtRest, Cancelled
  <2> QED
    BY <2>1, <2>2, KeptLoads DEF WindowInv, pageVars
<1>5. CASE Load
  BY <1>5, LoadInv
<1>6. CASE WindowEndLoad
  BY <1>6, WindowEndLoadInv
<1>7. CASE UNCHANGED windowVars
  <2>1. WindowPlaces' /\ PageFollows' /\ LastLoadIsCurrent' /\ PickerLeads'
    BY <1>7 DEF windowVars, pageVars, load, WindowInv, WindowPlaces, PageFollows,
                LastLoadIsCurrent, PickerLeads, PickUnderWay, PickerAtRest, Cancelled
  <2> QED
    BY <1>7, <2>1, KeptLoads DEF WindowInv, windowVars, pageVars
<1> QED
  BY <1>1, <1>2, <1>3, <1>4, <1>5, <1>6, <1>7 DEF WindowNext

LEMMA WindowInvariance == WindowSpec => []WindowInv
<1> QED
  BY WindowInitInv, WindowNextInv, PTL DEF WindowSpec

-------------------------------------------------------------------------------
(* The theorems of a page with a time window. *)

\* The variables keep their types: no instance ever has a window that is not allowed.
THEOREM WindowTypeCorrect == WindowSpec => []WindowTypeOK
<1>1. ASSUME WindowInv PROVE WindowTypeOK
  <2>1. nav \subseteq WindowNavigation /\ Cardinality(nav) <= 1
    <3>1. CASE nav = {}
      BY <3>1, FS_EmptySet
    <3>2. ASSUME NEW v \in WindowNavigation, nav = {v}
          PROVE  nav \subseteq WindowNavigation /\ Cardinality(nav) <= 1
      BY <3>2, FS_Singleton
    <3> QED
      BY <1>1, <3>1, <3>2 DEF WindowInv, WindowPlaces
  <2>2. {loading, error, overtaken} \subseteq BOOLEAN
    <3>1. loading \in BOOLEAN /\ error \in BOOLEAN /\ overtaken \in BOOLEAN
      BY <1>1 DEF WindowInv, LoadsInv
    <3> QED
      BY <3>1
  <2>3. PageTypeOK(WindowQuery, Origin, Window)
    BY <1>1, <2>1, <2>2 DEF WindowInv, WindowPlaces, LoadsInv, PageTypeOK, WindowNavigation
  <2> QED
    <3>1. {due, abandoned} \subseteq BOOLEAN
      BY <1>1 DEF WindowInv, WindowPlaces
    <3> QED
      BY <1>1, <2>3, <3>1 DEF WindowInv, WindowPlaces, WindowTypeOK
<1> QED
  BY <1>1, WindowInvariance, PTL

\* A page at rest whose answers came in order shows the window of the URL, however picks,
\* navigations and ticks overlapped.
THEOREM PageShowsUrlWindowHolds == WindowSpec => []PageShowsUrlWindow
<1>1. ASSUME WindowInv PROVE PageShowsUrlWindow
  <2> SUFFICES ASSUME Still, ~error, ~overtaken PROVE shown.what = Valid(url.window)
    BY DEF PageShowsUrlWindow
  <2>1. issued > 0 /\ loads = {}
    BY <1>1 DEF Still, WindowInv, LastLoadIsCurrent
  <2>2. shown.n = issued
    BY <1>1, <2>1 DEF WindowInv, LoadsInv
  <2> QED
    BY <1>1, <2>2 DEF Still, WindowInv, LastLoadIsCurrent, PageFollows
<1> QED
  BY <1>1, WindowInvariance, PTL

\* The picker shows another window than the URL only after a pick whose own navigation did not
\* take place, and only until it next goes along with the URL.
THEOREM PickerStraysAreExplained == WindowSpec => []PickerStraysExplained
<1>1. WindowInv => PickerStraysExplained
  BY DEF WindowInv, PickerLeads, PickerAtRest, Cancelled, PickerStraysExplained
<1> QED
  BY <1>1, WindowInvariance, PTL

===============================================================================
