-------------------------------- MODULE Page --------------------------------
(***************************************************************************)
(* What the pages of the frontend have in common: the router's current     *)
(* query with the navigation under way, and the loads a page has sent to   *)
(* the gateway (load() in composables/useLogs.ts, composables/useTraces.ts *)
(* and in the pages themselves, which all have the same body).             *)
(*                                                                         *)
(* A navigation takes time, since the guard of router/index.ts awaits.     *)
(* vue-router keeps the newest one only: an older one that is still under  *)
(* way is cancelled, and one to the current location changes nothing.      *)
(***************************************************************************)
EXTENDS Naturals, FiniteSets

CONSTANTS
  MaxFail,    \* bound: loads that fail
  MaxOutside  \* bound: navigations the page does not make

ASSUME PageAssumption == MaxFail \in Nat /\ MaxOutside \in Nat

\* Who navigates: apply() of the page or its picker; the history buttons or a link.
Origin == {"apply", "outside"}

VARIABLES
  url,      \* route.query
  nav,      \* the navigation under way: none, or one with its target and its origin
  loads,    \* requests sent and not answered: number and parameters
  issued,   \* the number of the last load
  shown,    \* the load whose answer the page shows (number 0: none)
  loading, error, fails,
  overtaken, \* since the page last waited for nothing, a load ended before an older one
  suppressNextWatch,  \* what apply() leaves for the watchers of the URL
  outside   \* navigations from outside that have begun

load == <<loads, issued, shown, loading, error, fails, overtaken>>
pageVars == <<url, nav, load>>

NoAnswer == [n |-> 0]

PageInit ==
  /\ nav = {} /\ loads = {} /\ issued = 0 /\ shown = NoAnswer
  /\ loading = FALSE /\ error = FALSE /\ fails = 0 /\ overtaken = FALSE

-------------------------------------------------------------------------------
(* vue-router: push, replace and the history buttons. *)

Navigate(to, by) == nav' = IF to = url THEN {} ELSE {[to |-> to, by |-> by]}

\* A navigation that is under way and that a new one cancels.
Cancelled(by) == {v \in nav : v.by = by}

Land(v) == v \in nav /\ url' = v.to /\ nav' = {}

-------------------------------------------------------------------------------
(* load(). *)

StartLoad(what) ==
  /\ loads' = loads \cup {[n |-> issued + 1, what |-> what]}
  /\ issued' = issued + 1
  /\ loading' = TRUE /\ error' = FALSE
  /\ overtaken' = (overtaken /\ loads # {})
  /\ UNCHANGED <<shown, fails>>

\* The gateway answers in any order: load() neither cancels nor numbers its requests.
End(l) ==
  /\ loads' = loads \ {l}
  /\ overtaken' = (overtaken \/ \E k \in loads : k.n < l.n)

\* Mutant of Answer: a page that is not loading ignores the answer.
AnswerIfLoading(l) ==
  /\ End(l)
  /\ shown' = IF loading THEN l ELSE shown
  /\ loading' = FALSE
  /\ UNCHANGED <<url, nav, issued, error, fails>>

\* The answer replaces what is shown, whatever was asked since.
Answer(l) ==
  /\ End(l)
  /\ shown' = l
  /\ loading' = FALSE
  /\ UNCHANGED <<url, nav, issued, error, fails>>

Fail(l) ==
  /\ fails < MaxFail
  /\ fails' = fails + 1
  /\ End(l)
  /\ error' = TRUE
  /\ loading' = FALSE
  /\ UNCHANGED <<url, nav, issued, shown>>

-------------------------------------------------------------------------------
(* Properties of every page. *)

PageTypeOK(Query, By, What) ==
  /\ url \in Query
  /\ nav \subseteq [to : Query, by : By] /\ Cardinality(nav) <= 1
  /\ loads \subseteq [n : 1..issued, what : What]
  /\ issued \in Nat
  /\ shown = NoAnswer \/ shown \in [n : 1..issued, what : What]
  /\ {loading, error, overtaken} \subseteq BOOLEAN /\ fails \in 0..MaxFail

\* A page that waits for nothing and shows no error shows the answer to its last load, if
\* no answer overtook an older one: load() itself does nothing to make it so.
ShowsLastAsked ==
  loads = {} /\ ~error /\ ~overtaken /\ issued > 0 => shown.n = issued
===============================================================================
