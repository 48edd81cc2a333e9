------------------------------- MODULE Session -------------------------------
(***************************************************************************)
(* The session of a browser with the gateway: login, restore after a       *)
(* reload, tenant switch and logout (frontend/src/stores/auth.ts, the      *)
(* interceptor of api/client.ts, ScopePill.vue, the guard of router/) and  *)
(* what the gateway does with their requests (the middleware of            *)
(* backend/internal/auth, /healthz, /v1/tenants, /v1/tenants/switch).      *)
(*                                                                         *)
(* The API key and the active tenant are in localStorage, which the tabs   *)
(* share; what a tab shows is in its own store.  Every request carries     *)
(* what localStorage held when it was sent, and its answer is handled      *)
(* whenever it comes, in the state the tab has then.                       *)
(***************************************************************************)
EXTENDS Naturals, FiniteSets

CONSTANTS
  Tenant, NoTenant,
  Domain, NoDomain,
  InitialDomain,  \* tenants.domain_id at the start
  Key, NoKey,
  HomeOf,         \* the tenant of a key; NoTenant: the key is unknown or revoked
  ScopeOf,        \* api_keys.scope
  Tab, NoTab,
  Call,           \* a pool of requests in flight
  MaxFault,       \* bound: requests that fail or time out
  MaxRegroup,     \* bound: tenants that change their domain
  MaxAudit        \* bound: different rows of audit_log

Scope == {"domain", "service:ai", "read-write"}

ASSUME SessionAssumption ==
  /\ NoTenant \notin Tenant /\ NoDomain \notin Domain /\ NoKey \notin Key
  /\ NoTab \notin Tab
  /\ InitialDomain \in [Tenant -> Domain \cup {NoDomain}]
  /\ HomeOf \in [Key -> Tenant \cup {NoTenant}]
  /\ ScopeOf \in [Key -> Scope]
  /\ {MaxFault, MaxRegroup, MaxAudit} \subseteq Nat

VARIABLES
  domain,   \* tenants.domain_id
  audit,    \* rows of audit_log
  storage,  \* localStorage: apiKey and activeTenantId
  page,     \* what each tab shows
  store,    \* its auth store: tenantId, activeTenantId, domainTenants
  calls,    \* the requests of the pool
  faults, regroups,
  overlapped, \* history: a login began in a tab that had another one under way
  strayed     \* history: a switch was answered when localStorage had another key than it, or none

vars == <<domain, audit, storage, page, store, calls, faults, regroups, overlapped, strayed>>

server == <<domain, audit, regroups>>
history == <<faults, overlapped, strayed>>

NoStore == [id |-> NoTenant, active |-> NoTenant, options |-> {}]
NoStorage == [key |-> NoKey, active |-> NoTenant]
NoCall == [tab |-> NoTab, kind |-> "none", step |-> "none", at |-> "none",
           key |-> NoKey, header |-> NoTenant, eff |-> NoTenant, target |-> NoTenant,
           list |-> {}, dom |-> NoDomain, since |-> 0]

Init ==
  /\ domain = InitialDomain /\ audit = {}
  /\ storage = NoStorage
  /\ page = [t \in Tab |-> "login"] /\ store = [t \in Tab |-> NoStore]
  /\ calls = [c \in Call |-> NoCall]
  /\ faults = 0 /\ regroups = 0 /\ overlapped = FALSE /\ strayed = FALSE

-------------------------------------------------------------------------------
(* The gateway. *)

SameDomain(t, own) == domain[own] # NoDomain /\ domain[t] = domain[own]

\* Mutant of Effective: the target is not checked against the key's domain.
EffectiveUnchecked(k, h) ==
  IF k = NoKey \/ HomeOf[k] = NoTenant THEN NoTenant
  ELSE IF h = NoTenant \/ ScopeOf[k] = "read-write" THEN HomeOf[k]
  ELSE h

\* The tenant a request with key k and X-Tenant-Id h acts for; NoTenant if it is refused.
Effective(k, h) ==
  IF k = NoKey \/ HomeOf[k] = NoTenant THEN NoTenant
  ELSE IF h = NoTenant \/ ScopeOf[k] = "read-write" THEN HomeOf[k]
  ELSE IF ScopeOf[k] = "domain" /\ ~SameDomain(h, HomeOf[k]) THEN NoTenant
  ELSE h

VisibleTenants(own, scope) ==
  IF scope = "domain" /\ domain[own] # NoDomain
    THEN {t \in Tenant : domain[t] = domain[own]}
    ELSE {own}

\* since counts the tenants that had moved by then; it is of use to a switch only.
Authenticate(c) ==
  LET eff == Effective(calls[c].key, calls[c].header)
      since == IF calls[c].step = "switch" THEN regroups ELSE 0 IN
    /\ calls[c].at = "sent"
    /\ calls' = [calls EXCEPT ![c].eff = eff, ![c].since = since,
                              ![c].at = IF eff = NoTenant THEN "failed" ELSE "authed"]
    /\ UNCHANGED <<server, storage, page, store, history>>

\* healthzResp names the effective tenant, in eff.
Healthz(c) ==
  /\ calls[c].at = "authed" /\ calls[c].step = "healthz"
  /\ calls' = [calls EXCEPT ![c].at = "ok"]
  /\ UNCHANGED <<server, storage, page, store, history>>

List(c) ==
  /\ calls[c].at = "authed" /\ calls[c].step = "tenants"
  /\ calls' = [calls EXCEPT ![c].at = "ok",
                            ![c].list = VisibleTenants(calls[c].eff, ScopeOf[calls[c].key])]
  /\ UNCHANGED <<server, storage, page, store, history>>

(* Switch compares the domains of two tenants, which it looks up one after the other. *)

\* The scope, and the domain of the tenant the request acts for.
SwitchFrom(c) ==
  LET call == calls[c] IN
    /\ call.at = "authed" /\ call.step = "switch"
    /\ calls' = [calls EXCEPT ![c].dom = domain[call.eff],
                              ![c].at = IF ScopeOf[call.key] = "domain" THEN "from" ELSE "failed"]
    /\ UNCHANGED <<server, storage, page, store, history>>

\* The domain of the target.
SwitchTo(c) ==
  LET call == calls[c]
      same == call.dom # NoDomain /\ domain[call.target] = call.dom IN
    /\ call.at = "from"
    /\ calls' = [calls EXCEPT ![c].at = IF same THEN "granted" ELSE "failed"]
    /\ UNCHANGED <<server, storage, page, store, history>>

\* InsertSwitchAudit, then 200.
SwitchAudit(c) ==
  LET call == calls[c] IN
    /\ call.at = "granted"
    /\ audit' = audit \cup {[actor |-> call.key, from |-> call.eff, to |-> call.target]}
    /\ Cardinality(audit') <= MaxAudit
    /\ calls' = [calls EXCEPT ![c].at = "ok"]
    /\ UNCHANGED <<domain, regroups, storage, page, store, history>>

Switch(c) == SwitchFrom(c) \/ SwitchTo(c) \/ SwitchAudit(c)

\* The request, its handler or its answer is lost, or the client's 10 s are over.
Lose(c) ==
  /\ faults < MaxFault
  /\ faults' = faults + 1
  /\ calls[c].at \notin {"none", "failed"}
  /\ calls' = [calls EXCEPT ![c].at = "failed"]
  /\ UNCHANGED <<server, storage, page, store, overlapped, strayed>>

\* An operator moves a tenant to another domain, or deletes the domain.
Regroup(t) ==
  /\ regroups < MaxRegroup
  /\ regroups' = regroups + 1
  /\ \E d \in Domain \cup {NoDomain} : domain' = [domain EXCEPT ![t] = d]
  /\ UNCHANGED <<audit, storage, page, store, calls, history>>

-------------------------------------------------------------------------------
(* Requests of a tab. *)

\* A request with the headers the interceptor takes from localStorage s.
Request(t, kind, step, target, s) ==
  [tab |-> t, kind |-> kind, step |-> step, at |-> "sent", key |-> s.key,
   header |-> s.active, eff |-> NoTenant, target |-> target, list |-> {}, dom |-> NoDomain,
   since |-> 0]

Free == {c \in Call : calls[c] = NoCall}
CallsOf(t) == {c \in Call \ Free : calls[c].tab = t}

\* A page load: the store is empty, earlier requests go on without anyone to handle their
\* answers, and the guard of the router restores the session if there is a key.
Load(t, c, s) ==
  /\ store' = [store EXCEPT ![t] = NoStore]
  /\ page' = [page EXCEPT ![t] = IF s.key = NoKey THEN "login" ELSE "loading"]
  /\ calls' = [d \in Call |->
                 IF d = c THEN IF s.key = NoKey THEN NoCall
                               ELSE Request(t, "restore", "healthz", NoTenant, s)
                 ELSE IF d \in CallsOf(t) THEN [calls[d] EXCEPT !.kind = "orphan"]
                 ELSE calls[d]]

\* The button is disabled while a login is under way, but the Enter key is not.
Submit(t, c, k) ==
  /\ page[t] = "login"
  /\ c \in Free
  /\ storage' = [storage EXCEPT !.key = k]
  /\ calls' = [calls EXCEPT ![c] = Request(t, "login", "healthz", NoTenant, storage')]
  /\ overlapped' = (overlapped \/ \E d \in CallsOf(t) : calls[d].kind \in {"login", "restore"})
  /\ UNCHANGED <<server, page, store, faults, strayed>>

Reload(t, c) ==
  /\ c \in Free
  /\ Load(t, c, storage)
  /\ UNCHANGED <<server, storage, history>>

\* The guard restores the session on a navigation, if a failed login has cleared the tenant.
Navigate(t, c) ==
  /\ page[t] = "app" /\ store[t].id = NoTenant
  /\ c \in Free
  /\ page' = [page EXCEPT ![t] = IF storage.key = NoKey THEN "login" ELSE @]
  /\ calls' = [calls EXCEPT ![c] = IF storage.key = NoKey THEN NoCall
                                   ELSE Request(t, "restore", "healthz", NoTenant, storage)]
  /\ UNCHANGED <<server, storage, store, history>>

Pick(t, c, x) ==
  /\ page[t] = "app"
  /\ x \in store[t].options \ {store[t].active}
  /\ Cardinality(store[t].options) > 1
  /\ c \in Free
  /\ calls' = [calls EXCEPT ![c] = Request(t, "switch", "switch", x, storage)]
  /\ UNCHANGED <<server, storage, page, store, history>>

\* Mutant of Logout: the tenant stays in localStorage.
LogoutKeepsTenant(t) ==
  /\ page[t] = "app"
  /\ storage' = [storage EXCEPT !.key = NoKey]
  /\ store' = [store EXCEPT ![t] = NoStore]
  /\ page' = [page EXCEPT ![t] = "login"]
  /\ UNCHANGED <<server, calls, history>>

Logout(t) ==
  /\ page[t] = "app"
  /\ storage' = NoStorage
  /\ store' = [store EXCEPT ![t] = NoStore]
  /\ page' = [page EXCEPT ![t] = "login"]
  /\ UNCHANGED <<server, calls, history>>

-------------------------------------------------------------------------------
(* The answers. *)

Awaited(call, step) == call.step = step /\ call.kind # "orphan"

\* login and restore, after /healthz: loadTenants sends its request.
HealthzOk(c) ==
  LET call == calls[c] IN
    /\ Awaited(call, "healthz") /\ call.at = "ok"
    /\ store' = [store EXCEPT ![call.tab].id = call.eff]
    /\ calls' = [calls EXCEPT ![c] =
                   Request(call.tab, call.kind, "tenants", NoTenant, storage)]
    /\ UNCHANGED <<server, storage, page, history>>

\* login forgets the key and leaves the page as it is; restore logs out.
HealthzFails(c) ==
  LET call == calls[c] IN
    /\ Awaited(call, "healthz") /\ call.at = "failed"
    /\ IF call.kind = "login"
         THEN /\ storage' = [storage EXCEPT !.key = NoKey]
              /\ store' = [store EXCEPT ![call.tab].id = NoTenant]
              /\ UNCHANGED page
         ELSE /\ storage' = NoStorage
              /\ store' = [store EXCEPT ![call.tab] = NoStore]
              /\ page' = [page EXCEPT ![call.tab] = "login"]
    /\ calls' = [calls EXCEPT ![c] = NoCall]
    /\ UNCHANGED <<server, history>>

\* Mutant of ActiveAfter: the persisted tenant is not validated.
ActiveAfterPersisted(list, id) == IF storage.active # NoTenant THEN storage.active ELSE id

\* loadTenants keeps the persisted tenant if it is in the list.
ActiveAfter(list, id) == IF storage.active \in list THEN storage.active ELSE id

\* The end of a login or restore: the app is entered with a tenant.  Without one (a login that
\* overlapped has failed) the guard refuses it, after it tried to restore in the case of login.
Enter(c) ==
  LET t == calls[c].tab
      again == store[t].id = NoTenant /\ calls[c].kind = "login" /\ storage.key # NoKey IN
    /\ page' = [page EXCEPT ![t] = IF store[t].id # NoTenant THEN "app"
                                   ELSE IF again THEN @ ELSE "login"]
    /\ calls' = [calls EXCEPT ![c] =
                   IF again THEN Request(t, "restore", "healthz", NoTenant, storage') ELSE NoCall]

TenantsOk(c) ==
  LET call == calls[c]
      active == ActiveAfter(call.list, store[call.tab].id) IN
    /\ Awaited(call, "tenants") /\ call.at = "ok"
    /\ store' = [store EXCEPT ![call.tab].options = call.list, ![call.tab].active = active]
    /\ storage' = [storage EXCEPT !.active = active]
    /\ Enter(c)
    /\ UNCHANGED <<server, history>>

\* The selector degrades to a single tenant, and the login or restore succeeds.
TenantsFails(c) ==
  LET call == calls[c]
      id == store[call.tab].id IN
    /\ Awaited(call, "tenants") /\ call.at = "failed"
    /\ store' = [store EXCEPT ![call.tab].options = {id} \ {NoTenant},
                              ![call.tab].active = id]
    /\ UNCHANGED storage
    /\ Enter(c)
    /\ UNCHANGED <<server, history>>

\* switchActiveTenant persists the tenant and pick reloads the page, whatever the tab shows
\* by now.
SwitchOk(c) ==
  LET call == calls[c] IN
    /\ Awaited(call, "switch") /\ call.at = "ok"
    /\ storage' = [storage EXCEPT !.active = call.target]
    /\ strayed' = (strayed \/ storage.key # call.key)
    /\ Load(call.tab, c, storage')
    /\ UNCHANGED <<server, faults, overlapped>>

SwitchFails(c) ==
  /\ Awaited(calls[c], "switch") /\ calls[c].at = "failed"
  /\ calls' = [calls EXCEPT ![c] = NoCall]
  /\ UNCHANGED <<server, storage, page, store, history>>

Forget(c) ==
  /\ calls[c].kind = "orphan" /\ calls[c].at \in {"ok", "failed"}
  /\ calls' = [calls EXCEPT ![c] = NoCall]
  /\ UNCHANGED <<server, storage, page, store, history>>

-------------------------------------------------------------------------------
ServerStep(c) == Authenticate(c) \/ Healthz(c) \/ List(c) \/ Switch(c) \/ Lose(c)

AnswerStep(c) ==
  \/ HealthzOk(c) \/ HealthzFails(c)
  \/ TenantsOk(c) \/ TenantsFails(c)
  \/ SwitchOk(c) \/ SwitchFails(c)
  \/ Forget(c)

UserStep(t) ==
  \/ \E c \in Call :
       \/ Reload(t, c) \/ Navigate(t, c)
       \/ \E k \in Key : Submit(t, c, k)
       \/ \E x \in Tenant : Pick(t, c, x)
  \/ Logout(t)

Next ==
  \/ \E c \in Call : ServerStep(c) \/ AnswerStep(c)
  \/ \E t \in Tab : UserStep(t)
  \/ \E t \in Tenant : Regroup(t)

Spec == Init /\ [][Next]_vars

-------------------------------------------------------------------------------
(* Properties. *)

CallRecord ==
  [tab : Tab \cup {NoTab}, kind : {"none", "login", "restore", "switch", "orphan"},
   step : {"none", "healthz", "tenants", "switch"},
   at : {"none", "sent", "authed", "from", "granted", "ok", "failed"},
   key : Key \cup {NoKey}, header : Tenant \cup {NoTenant}, eff : Tenant \cup {NoTenant},
   target : Tenant \cup {NoTenant}, list : SUBSET Tenant, dom : Domain \cup {NoDomain},
   since : 0..MaxRegroup]

\* Every variable has its type.
TypeOK ==
  /\ domain \in [Tenant -> Domain \cup {NoDomain}]
  /\ audit \subseteq [actor : Key, from : Tenant, to : Tenant]
  /\ storage \in [key : Key \cup {NoKey}, active : Tenant \cup {NoTenant}]
  /\ page \in [Tab -> {"login", "loading", "app"}]
  /\ store \in [Tab -> [id : Tenant \cup {NoTenant}, active : Tenant \cup {NoTenant},
                        options : SUBSET Tenant]]
  /\ calls \in [Call -> CallRecord]
  /\ faults \in 0..MaxFault /\ regroups \in 0..MaxRegroup
  /\ overlapped \in BOOLEAN /\ strayed \in BOOLEAN

\* No sequence of logins, switches, late answers and moves of tenants lets a switch be recorded
\* that leaves the domain of its key, unless a tenant moves during the request itself: the
\* middleware and Switch look the domains up one by one, and what they found is used later.
AuditedInDomain ==
  \A c \in Call :
    calls[c].at = "granted" /\ calls[c].since = regroups =>
      /\ SameDomain(calls[c].eff, HomeOf[calls[c].key])
      /\ SameDomain(calls[c].target, HomeOf[calls[c].key])

\* What the gateway has granted to a key: its own tenant, and those it switched to.
GrantedTo(k) ==
  IF k = NoKey THEN {NoTenant}
  ELSE {NoTenant, HomeOf[k]} \cup {a.to : a \in {x \in audit : x.actor = k}}

\* No tenant passes from one session to the next: what localStorage and the pill have as the
\* active tenant was granted to the key that is logged in now, through any reloads, failed
\* logins and lost answers.  The exceptions are two logins at once, and a switch that is
\* answered after its session has ended.
ActiveWasGranted ==
  ~overlapped /\ ~strayed =>
    /\ storage.active \in GrantedTo(storage.key)
    /\ \A t \in Tab : page[t] = "app" => store[t].active \in GrantedTo(storage.key)

\* The tenant that requests sent now are served for.
Served == Effective(storage.key, storage.active)

\* The ScopePill shows, as the active tenant of a tab, the tenant whose data the tab is served,
\* if no login was begun before another one had ended.
ShownIsServed ==
  ~overlapped => \A t \in Tab : page[t] = "app" => Served \in {store[t].active, NoTenant}

\* VisibleTenants says that a domain key whose tenant has no domain sees its own tenant: the
\* session such a key logged in to is served.
LoggedInIsServed ==
  \A t \in Tab : page[t] = "app" /\ storage.key # NoKey => Served # NoTenant
===============================================================================
