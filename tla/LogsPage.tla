------------------------------ MODULE LogsPage ------------------------------
(***************************************************************************)
(* The log page (frontend/src/views/Logs/LogsView.vue).  Apply writes the  *)
(* form to the URL, waits for the navigation and then loads; a watcher of  *)
(* the URL reads the form from it and loads.  A flag set by Apply keeps    *)
(* the watcher from loading a second time.                                 *)
(***************************************************************************)
EXTENDS Page

CONSTANTS
  Filter,   \* what the form can hold
  MaxApply  \* bound: calls of apply()

ASSUME LogsPageAssumption == MaxApply \in Nat

\* other: the URL has parameters the page does not read, or a spelling it does not write.
Query == [filter : Filter, other : BOOLEAN]

VARIABLES
  form,       \* the filter refs
  resumable,  \* calls of apply() whose router.replace has come back
  applied,    \* calls of apply()
  loaded,     \* loads they have sent
  watched,    \* loads the watcher has sent
  landed,     \* navigations of apply() that have ended at their target
  arrived     \* navigations from outside that have ended

vars == <<pageVars, form, suppressNextWatch, resumable, applied, loaded, watched, landed,
          outside, arrived>>

Init ==
  /\ PageInit
  /\ url \in Query /\ form = url.filter
  /\ suppressNextWatch = FALSE
  /\ resumable = 0 /\ applied = 0 /\ loaded = 0 /\ watched = 0
  /\ landed = 0 /\ outside = 0 /\ arrived = 0

-------------------------------------------------------------------------------
QueryOf(f) == [filter |-> f, other |-> FALSE]

\* How many calls of apply() come back when another navigation to q begins.
ComeBack(q, by) ==
  Cardinality(Cancelled("apply")) + (IF by = "apply" /\ q = url THEN 1 ELSE 0)

\* Mutants of Apply: the flag is not set; a call whose navigation is cancelled ends there.
ApplyUnsuppressed ==
  /\ applied < MaxApply
  /\ applied' = applied + 1
  /\ resumable' = resumable + ComeBack(QueryOf(form), "apply")
  /\ Navigate(QueryOf(form), "apply")
  /\ UNCHANGED <<url, load, form, suppressNextWatch, loaded, watched, landed, outside, arrived>>

ApplyForgetsCancelled ==
  /\ applied < MaxApply
  /\ applied' = applied + 1
  /\ suppressNextWatch' = TRUE
  /\ resumable' = resumable + (IF QueryOf(form) = url THEN 1 ELSE 0)
  /\ Navigate(QueryOf(form), "apply")
  /\ UNCHANGED <<url, load, form, loaded, watched, landed, outside, arrived>>

\* onMounted, the button, and refreshTick: the part of apply() before its first await.
Apply ==
  /\ applied < MaxApply
  /\ applied' = applied + 1
  /\ suppressNextWatch' = TRUE
  /\ resumable' = resumable + ComeBack(QueryOf(form), "apply")
  /\ Navigate(QueryOf(form), "apply")
  /\ UNCHANGED <<url, load, form, loaded, watched, landed, outside, arrived>>

\* The rest of apply(): the load takes the form as it is now.
Resume ==
  /\ resumable > 0
  /\ resumable' = resumable - 1
  /\ loaded' = loaded + 1
  /\ StartLoad(form)
  /\ UNCHANGED <<url, nav, form, suppressNextWatch, applied, watched, landed, outside, arrived>>

Mounted == applied > 0

Edit(f) ==
  /\ Mounted /\ f # form
  /\ form' = f
  /\ UNCHANGED <<pageVars, suppressNextWatch, resumable, applied, loaded, watched, landed,
                 outside, arrived>>

\* The history buttons, or a link to the log page with another query.
Outside(q) ==
  /\ Mounted
  /\ outside < MaxOutside
  /\ outside' = outside + 1
  /\ resumable' = resumable + ComeBack(q, "outside")
  /\ Navigate(q, "outside")
  /\ UNCHANGED <<url, load, form, suppressNextWatch, applied, loaded, watched, landed, arrived>>

\* Mutant of Watch: the flag stays set.
WatchSticky(q) ==
  \/ suppressNextWatch /\ UNCHANGED <<load, form, watched, suppressNextWatch>>
  \/ /\ ~suppressNextWatch
     /\ form' = q.filter
     /\ watched' = watched + 1
     /\ StartLoad(q.filter)
     /\ UNCHANGED suppressNextWatch

\* The watcher of route.query, which runs before apply() goes on.
Watch(q) ==
  \/ /\ suppressNextWatch
     /\ suppressNextWatch' = FALSE
     /\ UNCHANGED <<load, form, watched>>
  \/ /\ ~suppressNextWatch
     /\ form' = q.filter
     /\ watched' = watched + 1
     /\ StartLoad(q.filter)
     /\ UNCHANGED suppressNextWatch

LandApply ==
  \E v \in nav :
    /\ v.by = "apply"
    /\ Land(v)
    /\ Watch(v.to)
    /\ resumable' = resumable + 1 /\ landed' = landed + 1
    /\ UNCHANGED <<applied, loaded, outside, arrived>>

LandOutside ==
  \E v \in nav :
    /\ v.by = "outside"
    /\ Land(v)
    /\ Watch(v.to)
    /\ arrived' = arrived + 1
    /\ UNCHANGED <<resumable, applied, loaded, landed, outside>>

EndLoad ==
  /\ \E l \in loads : Answer(l) \/ Fail(l)
  /\ UNCHANGED <<form, suppressNextWatch, resumable, applied, loaded, watched, landed, outside,
                 arrived>>

-------------------------------------------------------------------------------
Next ==
  \/ Apply \/ Resume \/ LandApply \/ LandOutside \/ EndLoad
  \/ \E f \in Filter : Edit(f)
  \/ \E q \in Query : Outside(q)

Spec == Init /\ [][Next]_vars

\* The event loop resumes what it can; the guard of the router ends.
FairSpec == Spec /\ WF_vars(Resume) /\ WF_vars(LandApply \/ LandOutside)

-------------------------------------------------------------------------------
(* Properties. *)

\* Every variable has its type.
TypeOK ==
  /\ PageTypeOK(Query, Origin, Filter)
  /\ form \in Filter /\ suppressNextWatch \in BOOLEAN
  /\ {resumable, applied, loaded, landed} \subseteq 0..MaxApply
  /\ {watched, outside, arrived} \subseteq 0..MaxOutside

\* LogsView.vue: we hit the backend exactly once per user-initiated Apply.  A call of apply()
\* loads once, and the watcher loads for navigations from outside only, whichever of the
\* overlapping navigations the router cancels.
OncePerApply ==
  /\ loaded + resumable + Cardinality(Cancelled("apply")) = applied
  /\ watched <= arrived

\* LogsView.vue: when the URL changes from outside, reload.  A change is missed only for a call
\* of apply() whose own navigation was cancelled or led to where the page was, and one such
\* call hides one change: the flag it leaves is spent on the next navigation.
MissesExplained == arrived + landed <= watched + applied

\* Every call of apply() does load in the end, even if its navigation is cancelled.
EveryApplyLoads == \A k \in 1..MaxApply : applied = k ~> loaded >= k
===============================================================================
