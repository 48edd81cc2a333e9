----------------------------- MODULE WindowPage -----------------------------
(***************************************************************************)
(* A page with a time window (frontend/src/views/Overview, Services and    *)
(* Topology): the page and the picker it contains both call useTimeWindow  *)
(* (composables/useTimeWindow.ts), and each call keeps a window and a flag *)
(* of its own.  The picker applies a window, which writes it to the URL;   *)
(* both watch the URL, and the page loads when its window changes and when *)
(* the refresh timer ticks.                                                *)
(*                                                                         *)
(* Names that LogsPage has as well begin with Window here, so that one     *)
(* module can extend both.                                                 *)
(***************************************************************************)
EXTENDS Page

CONSTANTS
  Window,         \* the allowed windows
  DefaultWindow,  \* the window of a URL that has none, or one that is not allowed
  Rest,           \* the other parameters of a URL
  MaxPick,        \* bound: windows picked
  MaxTick         \* bound: ticks of the refresh timer

ASSUME WindowPageAssumption ==
  /\ DefaultWindow \in Window
  /\ MaxPick \in Nat /\ MaxTick \in Nat

NoWindow == "none"

\* apply() keeps the rest.
WindowQuery == [window : Window \cup {NoWindow}, rest : Rest]
Instance == {"page", "picker"}

VARIABLES
  windowVal,  \* windowVal of each instance; suppressNextWatch is a flag of each
  due,        \* the watcher of the page has to call load()
  picks, ticks,
  abandoned   \* history: since the picker last went along with the URL, a pick's own
              \* navigation was cancelled or went nowhere

windowVars ==
  <<pageVars, windowVal, suppressNextWatch, due, picks, outside, ticks, abandoned>>

\* windowFromQuery: what a URL that has no allowed window means.
Valid(w) == IF w \in Window THEN w ELSE DefaultWindow

WindowInit ==
  /\ PageInit
  /\ url \in WindowQuery
  /\ windowVal = [i \in Instance |-> Valid(url.window)]
  /\ suppressNextWatch = [i \in Instance |-> FALSE]
  /\ due = TRUE  \* onMounted(load)
  /\ picks = 0 /\ outside = 0 /\ ticks = 0 /\ abandoned = FALSE

-------------------------------------------------------------------------------
\* A pick has no navigation of its own: the current one is to the same place, or a newer one
\* cancels it.
Abandons(to) == abandoned \/ Cancelled("apply") # {} \/ to = url

\* Mutant of Pick: the flag is set for both instances.
PickForBoth(w) ==
  LET to == [url EXCEPT !.window = w] IN
    /\ picks < MaxPick
    /\ w \in Window /\ w # windowVal["picker"]
    /\ picks' = picks + 1
    /\ windowVal' = [windowVal EXCEPT !["picker"] = w]
    /\ suppressNextWatch' = [i \in Instance |-> TRUE]
    /\ Navigate(to, "apply")
    /\ abandoned' = Abandons(to)
    /\ UNCHANGED <<url, load, due, outside, ticks>>

\* apply(w) of the picker.
Pick(w) ==
  LET to == [url EXCEPT !.window = w] IN
    /\ picks < MaxPick
    /\ w \in Window /\ w # windowVal["picker"]
    /\ picks' = picks + 1
    /\ windowVal' = [windowVal EXCEPT !["picker"] = w]
    /\ suppressNextWatch' = [suppressNextWatch EXCEPT !["picker"] = TRUE]
    /\ Navigate(to, "apply")
    /\ abandoned' = Abandons(to)
    /\ UNCHANGED <<url, load, due, outside, ticks>>

\* The history buttons, or a link to the page with another query.
GoOutside(q) ==
  /\ outside < MaxOutside
  /\ outside' = outside + 1
  /\ Navigate(q, "outside")
  /\ abandoned' = (abandoned \/ Cancelled("apply") # {})
  /\ UNCHANGED <<url, load, windowVal, suppressNextWatch, due, picks, ticks>>

\* Mutant of WindowWatch: a suppressed watcher leaves the flag set.
WindowWatchSticky(q) ==
  IF q.window = url.window
  THEN UNCHANGED <<windowVal, suppressNextWatch, due>>
  ELSE /\ windowVal' = [i \in Instance |-> IF suppressNextWatch[i] THEN windowVal[i]
                                                                 ELSE Valid(q.window)]
       /\ due' = (due \/ windowVal'["page"] # windowVal["page"])
       /\ UNCHANGED suppressNextWatch

\* The watchers of route.query.window, which run when its value has changed.
WindowWatch(q) ==
  IF q.window = url.window
  THEN UNCHANGED <<windowVal, suppressNextWatch, due>>
  ELSE /\ windowVal' = [i \in Instance |-> IF suppressNextWatch[i] THEN windowVal[i]
                                                                 ELSE Valid(q.window)]
       /\ suppressNextWatch' = [i \in Instance |-> FALSE]
       /\ due' = (due \/ windowVal'["page"] # windowVal["page"])

\* The picker goes along with the URL that v leads to: it picked its window, or sees it.
PickerFollows(v) ==
  v.by = "apply" \/ (v.to.window # url.window /\ ~suppressNextWatch["picker"])

LandAny ==
  \E v \in nav :
    /\ Land(v)
    /\ WindowWatch(v.to)
    /\ abandoned' = (abandoned /\ ~PickerFollows(v))
    /\ UNCHANGED <<load, picks, outside, ticks>>

Tick ==
  /\ ticks < MaxTick
  /\ ticks' = ticks + 1
  /\ due' = TRUE
  /\ UNCHANGED <<pageVars, windowVal, suppressNextWatch, picks, outside, abandoned>>

\* The watcher of windowVal and refreshTick.
Load ==
  /\ due
  /\ due' = FALSE
  /\ StartLoad(windowVal["page"])
  /\ UNCHANGED <<url, nav, windowVal, suppressNextWatch, picks, outside, ticks, abandoned>>

WindowEndLoad ==
  /\ \E l \in loads : Answer(l) \/ Fail(l)
  /\ UNCHANGED <<windowVal, suppressNextWatch, due, picks, outside, ticks, abandoned>>

-------------------------------------------------------------------------------
WindowNext ==
  \/ \E w \in Window : Pick(w)
  \/ \E q \in WindowQuery : GoOutside(q)
  \/ LandAny \/ Tick \/ Load \/ WindowEndLoad

WindowSpec == WindowInit /\ [][WindowNext]_windowVars

\* Navigations end, watchers run, and the gateway answers.
WindowFairSpec ==
  WindowSpec /\ WF_windowVars(LandAny) /\ WF_windowVars(Load) /\ WF_windowVars(WindowEndLoad)

-------------------------------------------------------------------------------
(* Properties. *)

\* Every variable has its type.
WindowTypeOK ==
  /\ PageTypeOK(WindowQuery, Origin, Window)
  /\ windowVal \in [Instance -> Window]
  /\ suppressNextWatch \in [Instance -> BOOLEAN] /\ {due, abandoned} \subseteq BOOLEAN
  /\ picks \in 0..MaxPick /\ outside \in 0..MaxOutside /\ ticks \in 0..MaxTick

Still == nav = {} /\ ~due /\ loads = {}

\* A page at rest whose answers came in order shows the window of the URL, through any
\* navigations, picks and ticks that overlapped.
PageShowsUrlWindow ==
  Still /\ ~error /\ ~overtaken => shown.what = Valid(url.window)

\* The flag of the picker, which nothing else resets, makes it show another window than the URL
\* only after a pick whose own navigation did not take place, and until the picker next goes
\* along with the URL: any other pick and any change from outside is followed, in any order.
PickerStraysExplained ==
  nav = {} /\ ~abandoned => windowVal["picker"] = Valid(url.window)

\* The page that is left alone shows the window of the URL in the end.
PageCatchesUp ==
  <>[](~error /\ ~overtaken => shown.n # 0 /\ shown.what = Valid(url.window))
===============================================================================
