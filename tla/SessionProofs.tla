---------------------------- MODULE SessionProofs ----------------------------
(***************************************************************************)
(* Theorems about Session, for any tenants, domains, keys, tabs and        *)
(* requests.                                                               *)
(***************************************************************************)
EXTENDS Session, TLAPS

SessionKind == {"login", "restore"}

\* A request that was sent belongs to a tab; one that passed the middleware has a key and a
\* tenant; a switch names a tenant.
RequestOK(call) ==
  /\ call.step # "none" => call.tab \in Tab
  /\ call.kind \in SessionKind => call.step \in {"healthz", "tenants"}
  /\ call.step \in {"healthz", "tenants"} => call.kind \in SessionKind \cup {"orphan"}
  /\ call.at \in {"authed", "from", "granted", "ok"} => call.key \in Key /\ call.eff \in Tenant
  /\ call.at \in {"from", "granted"} => call.step = "switch"
  /\ call.step = "switch" => call.target \in Tenant

CallsOK == \A c \in Call : RequestOK(calls[c])

Shape == TypeOK /\ CallsOK

\* The middleware's answer is a tenant of the key's reach, and needs a key.
LEMMA EffectiveType ==
  ASSUME domain \in [Tenant -> Domain \cup {NoDomain}],
         NEW k \in Key \cup {NoKey}, NEW h \in Tenant \cup {NoTenant},
         Effective(k, h) # NoTenant
  PROVE  /\ k \in Key /\ HomeOf[k] \in Tenant
         /\ Effective(k, h) \in Tenant
         /\ Effective(k, h) \in {HomeOf[k], h}
         /\ ScopeOf[k] = "domain" =>
              Effective(k, h) = HomeOf[k] \/ SameDomain(Effective(k, h), HomeOf[k])
  BY SessionAssumption DEF Effective, Scope

\* The interceptor builds a request record from a well-formed localStorage.
LEMMA RequestType ==
  ASSUME NEW t \in Tab, NEW kind \in {"login", "restore", "switch"},
         NEW step \in {"healthz", "tenants", "switch"}, NEW target \in Tenant \cup {NoTenant},
         NEW s \in [key : Key \cup {NoKey}, active : Tenant \cup {NoTenant}]
  PROVE  Request(t, kind, step, target, s) \in CallRecord
  BY SessionAssumption DEF Request, NoCall, CallRecord

\* A free entry of the pool is neither a session's request nor on its way.
LEMMA NoCallType ==
  NoCall \in CallRecord /\ NoCall.kind = "none" /\ NoCall.step = "none" /\ NoCall.at = "none"
  BY SessionAssumption DEF NoCall, CallRecord

\* A step that changes one request keeps the requests in order if the new record is.
LEMMA UpdateOne ==
  ASSUME Shape, NEW c \in Call, NEW new \in CallRecord, RequestOK(new),
         calls' = [calls EXCEPT ![c] = new]
  PROVE  calls' \in [Call -> CallRecord] /\ CallsOK'
  <1>1. /\ calls' \in [Call -> CallRecord]
        /\ \A d \in Call : calls'[d] = IF d = c THEN new ELSE calls[d]
    BY DEF Shape, TypeOK
  <1>2. CallsOK'
    BY <1>1 DEF Shape, CallsOK, RequestOK
  <1>. QED BY <1>1, <1>2

\* What the gateway does to a request keeps requests and sessions in order.
LEMMA ServerShape ==
  ASSUME Shape, NEW c \in Call, ServerStep(c)
  PROVE  Shape'
  <1>. USE DEF Shape
  <1>0. calls[c] \in CallRecord /\ RequestOK(calls[c])
    BY DEF TypeOK, CallsOK
  <1>1. CASE Authenticate(c)
    <2>. DEFINE eff == Effective(calls[c].key, calls[c].header)
                since == IF calls[c].step = "switch" THEN regroups ELSE 0
                new == [calls[c] EXCEPT !.eff = eff, !.since = since,
                                        !.at = IF eff = NoTenant THEN "failed" ELSE "authed"]
    <2>0. /\ domain \in [Tenant -> Domain \cup {NoDomain}]
          /\ calls[c].key \in Key \cup {NoKey} /\ calls[c].header \in Tenant \cup {NoTenant}
      BY <1>0 DEF TypeOK, CallRecord
    <2>1. eff # NoTenant => calls[c].key \in Key /\ eff \in Tenant
      BY <2>0, EffectiveType
    <2>s. since \in 0..MaxRegroup
      BY SessionAssumption DEF TypeOK
    <2>. HIDE DEF eff, since
    <2>2. calls' = [calls EXCEPT ![c] = new]
      BY <1>1 DEF Authenticate, eff, since, TypeOK
    <2>3. new \in CallRecord /\ RequestOK(new)
      <3>1. CASE eff = NoTenant
        <4>1. new = [calls[c] EXCEPT !.eff = NoTenant, !.since = since, !.at = "failed"]
          BY <3>1
        <4>. HIDE DEF new
        <4>. QED BY <1>0, <2>s, <4>1 DEF CallRecord, RequestOK
      <3>2. CASE eff # NoTenant
        BY <1>0, <2>1, <2>s, <3>2 DEF CallRecord, RequestOK
      <3>. QED BY <3>1, <3>2
    <2>. HIDE DEF new
    <2>4. calls' \in [Call -> CallRecord] /\ CallsOK'
      BY <2>2, <2>3, UpdateOne
    <2>. QED BY <1>1, <2>4 DEF Authenticate, TypeOK, server, history
  <1>2. CASE Healthz(c)
    <2>. DEFINE new == [calls[c] EXCEPT !.at = "ok"]
    <2>2. calls' = [calls EXCEPT ![c] = new]
      BY <1>2 DEF Healthz, TypeOK
    <2>3. new \in CallRecord /\ RequestOK(new)
      BY <1>0, <1>2 DEF CallRecord, RequestOK, Healthz
    <2>. HIDE DEF new
    <2>4. calls' \in [Call -> CallRecord] /\ CallsOK'
      BY <2>2, <2>3, UpdateOne
    <2>. QED BY <1>2, <2>4 DEF Healthz, TypeOK, server, history
  <1>3. CASE List(c)
    <2>. DEFINE list == VisibleTenants(calls[c].eff, ScopeOf[calls[c].key])
                new == [calls[c] EXCEPT !.at = "ok", !.list = list]
    <2>1. list \subseteq Tenant
      BY <1>0, <1>3 DEF List, RequestOK, VisibleTenants
    <2>. HIDE DEF list
    <2>2. calls' = [calls EXCEPT ![c] = new]
      BY <1>3 DEF List, TypeOK, list
    <2>3. new \in CallRecord /\ RequestOK(new)
      BY <1>0, <1>3, <2>1 DEF CallRecord, RequestOK, List
    <2>. HIDE DEF new
    <2>4. calls' \in [Call -> CallRecord] /\ CallsOK'
      BY <2>2, <2>3, UpdateOne
    <2>. QED BY <1>3, <2>4 DEF List, TypeOK, server, history
  <1>4. CASE SwitchFrom(c)
    <2>. DEFINE at == IF ScopeOf[calls[c].key] = "domain" THEN "from" ELSE "failed"
                new == [calls[c] EXCEPT !.dom = domain[calls[c].eff], !.at = at]
    <2>1. domain[calls[c].eff] \in Domain \cup {NoDomain}
      BY <1>0, <1>4 DEF SwitchFrom, RequestOK, TypeOK
    <2>2. calls' = [calls EXCEPT ![c] = new]
      BY <1>4 DEF SwitchFrom, TypeOK
    <2>3. new \in CallRecord /\ RequestOK(new)
      BY <1>0, <1>4, <2>1 DEF CallRecord, RequestOK, SwitchFrom
    <2>. HIDE DEF new
    <2>4. calls' \in [Call -> CallRecord] /\ CallsOK'
      BY <2>2, <2>3, UpdateOne
    <2>. QED BY <1>4, <2>4 DEF SwitchFrom, TypeOK, server, history
  <1>5. CASE SwitchTo(c)
    <2>. DEFINE same == calls[c].dom # NoDomain /\ domain[calls[c].target] = calls[c].dom
                new == [calls[c] EXCEPT !.at = IF same THEN "granted" ELSE "failed"]
    <2>2. calls' = [calls EXCEPT ![c] = new]
      BY <1>5 DEF SwitchTo, TypeOK
    <2>. HIDE DEF same
    <2>3. new \in CallRecord /\ RequestOK(new)
      BY <1>0, <1>5 DEF CallRecord, RequestOK, SwitchTo
    <2>. HIDE DEF new
    <2>4. calls' \in [Call -> CallRecord] /\ CallsOK'
      BY <2>2, <2>3, UpdateOne
    <2>. QED BY <1>5, <2>4 DEF SwitchTo, TypeOK, server, history
  <1>6. CASE SwitchAudit(c)
    <2>. DEFINE new == [calls[c] EXCEPT !.at = "ok"]
    <2>2. calls' = [calls EXCEPT ![c] = new]
      BY <1>6 DEF SwitchAudit, TypeOK
    <2>3. new \in CallRecord /\ RequestOK(new)
      BY <1>0, <1>6 DEF CallRecord, RequestOK, SwitchAudit
    <2>. HIDE DEF new
    <2>4. calls' \in [Call -> CallRecord] /\ CallsOK'
      BY <2>2, <2>3, UpdateOne
    <2>5. audit' \subseteq [actor : Key, from : Tenant, to : Tenant]
      BY <1>0, <1>6 DEF SwitchAudit, RequestOK, TypeOK
    <2>. QED BY <1>6, <2>4, <2>5 DEF SwitchAudit, TypeOK, history
  <1>7. CASE Lose(c)
    <2>. DEFINE new == [calls[c] EXCEPT !.at = "failed"]
    <2>2. calls' = [calls EXCEPT ![c] = new]
      BY <1>7 DEF Lose, TypeOK
    <2>3. new \in CallRecord /\ RequestOK(new)
      BY <1>0 DEF CallRecord, RequestOK
    <2>. HIDE DEF new
    <2>4. calls' \in [Call -> CallRecord] /\ CallsOK'
      BY <2>2, <2>3, UpdateOne
    <2>5. faults' \in 0..MaxFault
      BY <1>7, SessionAssumption DEF Lose, TypeOK
    <2>. QED BY <1>7, <2>4, <2>5 DEF Lose, TypeOK, server
  <1>. QED BY <1>1, <1>2, <1>3, <1>4, <1>5, <1>6, <1>7 DEF ServerStep, Switch

\* A page load forgets the tab's store and whom its requests answer, and may send one more.
LEMMA LoadShape ==
  ASSUME Shape, NEW t \in Tab, NEW c \in Call,
         NEW s \in [key : Key \cup {NoKey}, active : Tenant \cup {NoTenant}],
         Load(t, c, s)
  PROVE  /\ page' \in [Tab -> {"login", "loading", "app"}]
         /\ store' \in [Tab -> [id : Tenant \cup {NoTenant}, active : Tenant \cup {NoTenant},
                                options : SUBSET Tenant]]
         /\ calls' \in [Call -> CallRecord] /\ CallsOK'
  <1>. USE DEF Shape
  <1>. DEFINE req == Request(t, "restore", "healthz", NoTenant, s)
              orphan(d) == [calls[d] EXCEPT !.kind = "orphan"]
  <1>0. \A d \in Call : calls[d] \in CallRecord /\ RequestOK(calls[d])
    BY DEF TypeOK, CallsOK
  <1>1. page' \in [Tab -> {"login", "loading", "app"}]
    BY DEF Load, TypeOK
  <1>2. store' \in [Tab -> [id : Tenant \cup {NoTenant}, active : Tenant \cup {NoTenant},
                            options : SUBSET Tenant]]
    BY DEF Load, TypeOK, NoStore
  <1>3. req \in CallRecord /\ RequestOK(req)
    <2>1. req \in CallRecord
      BY RequestType
    <2>2. req.tab = t /\ req.kind = "restore" /\ req.step = "healthz" /\ req.at = "sent"
      BY DEF Request
    <2>. HIDE DEF req
    <2>. QED BY <2>1, <2>2 DEF RequestOK, SessionKind
  <1>4. \A d \in Call : orphan(d) \in CallRecord /\ RequestOK(orphan(d))
    BY <1>0 DEF CallRecord, RequestOK, SessionKind
  <1>5. RequestOK(NoCall)
    BY NoCallType DEF RequestOK, SessionKind
  <1>. HIDE DEF req
  <1>6. calls' = [d \in Call |-> IF d = c THEN IF s.key = NoKey THEN NoCall ELSE req
                                 ELSE IF d \in CallsOf(t) THEN orphan(d) ELSE calls[d]]
    BY DEF Load, req
  <1>. HIDE DEF orphan
  <1>. QED BY <1>0, <1>1, <1>2, <1>3, <1>4, <1>5, <1>6, NoCallType DEF CallsOK

\* A request of the session that was just sent is in order.
LEMMA SessionRequest ==
  ASSUME NEW t \in Tab, NEW kind \in SessionKind, NEW step \in {"healthz", "tenants"},
         NEW s \in [key : Key \cup {NoKey}, active : Tenant \cup {NoTenant}]
  PROVE  LET new == Request(t, kind, step, NoTenant, s)
         IN new \in CallRecord /\ RequestOK(new)
  <1>. DEFINE new == Request(t, kind, step, NoTenant, s)
  <1>1. new \in CallRecord
    BY RequestType DEF SessionKind
  <1>2. new.tab = t /\ new.kind = kind /\ new.step = step /\ new.at = "sent"
    BY DEF Request
  <1>. HIDE DEF new
  <1>3. RequestOK(new)
    BY <1>2 DEF RequestOK
  <1>. QED BY <1>1, <1>3 DEF new

\* The end of a login or restore leaves the tab on a page and the request free or sent again.
LEMMA EnterShape ==
  ASSUME Shape, NEW c \in Call, calls[c].tab \in Tab, calls[c].kind \in SessionKind,
         storage' \in [key : Key \cup {NoKey}, active : Tenant \cup {NoTenant}], Enter(c)
  PROVE  /\ page' \in [Tab -> {"login", "loading", "app"}]
         /\ calls' \in [Call -> CallRecord] /\ CallsOK'
  <1>. USE DEF Shape
  <1>. DEFINE again == store[calls[c].tab].id = NoTenant /\ calls[c].kind = "login"
                       /\ storage.key # NoKey
              req == Request(calls[c].tab, "restore", "healthz", NoTenant, storage')
              new == IF again THEN req ELSE NoCall
  <1>1. page' \in [Tab -> {"login", "loading", "app"}]
    BY DEF Enter, TypeOK
  <1>2. calls' = [calls EXCEPT ![c] = new]
    BY DEF Enter
  <1>3. NoCall \in CallRecord /\ RequestOK(NoCall)
    BY NoCallType DEF RequestOK, SessionKind
  <1>4. req \in CallRecord /\ RequestOK(req)
    BY SessionRequest DEF SessionKind
  <1>. HIDE DEF req, again
  <1>5. new \in CallRecord /\ RequestOK(new)
    BY <1>3, <1>4
  <1>. HIDE DEF new
  <1>. QED BY <1>1, <1>2, <1>5, UpdateOne

\* Handling an answer keeps requests and stores in order.
LEMMA AnswerShape ==
  ASSUME Shape, NEW c \in Call, AnswerStep(c)
  PROVE  Shape'
  <1>. USE DEF Shape
  <1>. DEFINE t == calls[c].tab
  <1>0. calls[c] \in CallRecord /\ RequestOK(calls[c])
    BY DEF TypeOK, CallsOK
  <1>n. NoCall \in CallRecord /\ RequestOK(NoCall)
    BY NoCallType DEF RequestOK, SessionKind
  <1>s. ASSUME Awaited(calls[c], "healthz") \/ Awaited(calls[c], "tenants")
        PROVE  calls[c].kind \in SessionKind /\ t \in Tab
    BY <1>s, <1>0 DEF Awaited, RequestOK
  <1>1. CASE HealthzOk(c)
    <2>. DEFINE new == Request(t, calls[c].kind, "tenants", NoTenant, storage)
    <2>1. calls[c].kind \in SessionKind /\ t \in Tab /\ calls[c].eff \in Tenant
      BY <1>1, <1>0, <1>s DEF HealthzOk, RequestOK
    <2>2. calls' = [calls EXCEPT ![c] = new] /\ store' = [store EXCEPT ![t].id = calls[c].eff]
      BY <1>1 DEF HealthzOk
    <2>3. new \in CallRecord /\ RequestOK(new)
      BY <2>1, SessionRequest DEF TypeOK
    <2>. HIDE DEF new
    <2>4. calls' \in [Call -> CallRecord] /\ CallsOK'
      BY <2>2, <2>3, UpdateOne
    <2>5. store' \in [Tab -> [id : Tenant \cup {NoTenant}, active : Tenant \cup {NoTenant},
                              options : SUBSET Tenant]]
      BY <2>1, <2>2 DEF TypeOK
    <2>. QED BY <1>1, <2>4, <2>5 DEF HealthzOk, TypeOK, server, history
  <1>2. CASE HealthzFails(c)
    <2>1. t \in Tab
      BY <1>2, <1>s DEF HealthzFails
    <2>2. calls' \in [Call -> CallRecord] /\ CallsOK'
      BY <1>2, <1>n, UpdateOne DEF HealthzFails
    <2>3. /\ store' \in [Tab -> [id : Tenant \cup {NoTenant}, active : Tenant \cup {NoTenant},
                                 options : SUBSET Tenant]]
          /\ storage' \in [key : Key \cup {NoKey}, active : Tenant \cup {NoTenant}]
          /\ page' \in [Tab -> {"login", "loading", "app"}]
      <3>1. CASE calls[c].kind = "login"
        <4>1. /\ storage' = [storage EXCEPT !.key = NoKey] /\ page' = page
              /\ store' = [store EXCEPT ![t].id = NoTenant]
          BY <1>2, <3>1 DEF HealthzFails
        <4>. QED BY <2>1, <4>1 DEF TypeOK
      <3>2. CASE calls[c].kind # "login"
        <4>1. /\ storage' = NoStorage /\ page' = [page EXCEPT ![t] = "login"]
              /\ store' = [store EXCEPT ![t] = NoStore]
          BY <1>2, <3>2 DEF HealthzFails
        <4>. QED BY <2>1, <4>1 DEF TypeOK, NoStore, NoStorage
      <3>. QED BY <3>1, <3>2
    <2>. QED BY <1>2, <2>2, <2>3 DEF HealthzFails, TypeOK, server, history
  <1>3. CASE TenantsOk(c)
    <2>. DEFINE active == ActiveAfter(calls[c].list, store[t].id)
    <2>1. calls[c].kind \in SessionKind /\ t \in Tab /\ calls[c].list \subseteq Tenant
          /\ store[t].id \in Tenant \cup {NoTenant}
      BY <1>3, <1>s, <1>0 DEF TenantsOk, TypeOK, CallRecord
    <2>2. active \in Tenant \cup {NoTenant}
      BY <2>1 DEF ActiveAfter
    <2>. HIDE DEF active
    <2>3. /\ store' = [store EXCEPT ![t].options = calls[c].list, ![t].active = active]
          /\ storage' = [storage EXCEPT !.active = active]
          /\ Enter(c)
      BY <1>3 DEF TenantsOk, active
    <2>4. /\ store' \in [Tab -> [id : Tenant \cup {NoTenant}, active : Tenant \cup {NoTenant},
                                 options : SUBSET Tenant]]
          /\ storage' \in [key : Key \cup {NoKey}, active : Tenant \cup {NoTenant}]
      BY <2>1, <2>2, <2>3 DEF TypeOK
    <2>5. /\ page' \in [Tab -> {"login", "loading", "app"}]
          /\ calls' \in [Call -> CallRecord] /\ CallsOK'
      BY <2>1, <2>3, <2>4, EnterShape
    <2>. QED BY <1>3, <2>4, <2>5 DEF TenantsOk, TypeOK, server, history
  <1>4. CASE TenantsFails(c)
    <2>1. calls[c].kind \in SessionKind /\ t \in Tab /\ store[t].id \in Tenant \cup {NoTenant}
      BY <1>4, <1>s DEF TenantsFails, TypeOK
    <2>2. store' \in [Tab -> [id : Tenant \cup {NoTenant}, active : Tenant \cup {NoTenant},
                              options : SUBSET Tenant]]
      BY <1>4, <2>1 DEF TenantsFails, TypeOK
    <2>3. /\ page' \in [Tab -> {"login", "loading", "app"}]
          /\ calls' \in [Call -> CallRecord] /\ CallsOK'
      BY <1>4, <2>1, EnterShape DEF TenantsFails, TypeOK
    <2>. QED BY <1>4, <2>2, <2>3 DEF TenantsFails, TypeOK, server, history
  <1>5. CASE SwitchOk(c)
    <2>1. t \in Tab /\ calls[c].target \in Tenant
      BY <1>5, <1>0 DEF SwitchOk, Awaited, RequestOK
    <2>2. storage' \in [key : Key \cup {NoKey}, active : Tenant \cup {NoTenant}]
      BY <1>5, <2>1 DEF SwitchOk, TypeOK
    <2>3. Load(t, c, storage')
      BY <1>5 DEF SwitchOk
    <2>. QED BY <1>5, <2>1, <2>2, <2>3, LoadShape DEF SwitchOk, TypeOK, server, history
  <1>6. CASE SwitchFails(c) \/ Forget(c)
    <2>1. calls' \in [Call -> CallRecord] /\ CallsOK'
      BY <1>6, <1>n, UpdateOne DEF SwitchFails, Forget
    <2>. QED BY <1>6, <2>1 DEF SwitchFails, Forget, TypeOK, server, history
  <1>. QED BY <1>1, <1>2, <1>3, <1>4, <1>5, <1>6 DEF AnswerStep

\* So does what a user does.
LEMMA UserShape ==
  ASSUME Shape, NEW t \in Tab, UserStep(t)
  PROVE  Shape'
  <1>. USE DEF Shape
  <1>0. storage \in [key : Key \cup {NoKey}, active : Tenant \cup {NoTenant}]
    BY DEF TypeOK
  <1>1. ASSUME NEW c \in Call, Reload(t, c) PROVE Shape'
    BY <1>0, <1>1, LoadShape DEF Reload, TypeOK, server, history
  <1>2. ASSUME NEW c \in Call, NEW k \in Key, Submit(t, c, k) PROVE Shape'
    <2>. DEFINE new == Request(t, "login", "healthz", NoTenant, storage')
    <2>1. storage' \in [key : Key \cup {NoKey}, active : Tenant \cup {NoTenant}]
      BY <1>0, <1>2 DEF Submit
    <2>2. new \in CallRecord /\ RequestOK(new)
      BY <2>1, SessionRequest DEF SessionKind
    <2>. HIDE DEF new
    <2>3. calls' = [calls EXCEPT ![c] = new]
      BY <1>2 DEF Submit, new
    <2>4. calls' \in [Call -> CallRecord] /\ CallsOK'
      BY <2>2, <2>3, UpdateOne
    <2>5. overlapped' \in BOOLEAN
      BY <1>2 DEF Submit, TypeOK
    <2>. QED BY <1>2, <2>1, <2>4, <2>5 DEF Submit, TypeOK, server
  <1>3. ASSUME NEW c \in Call, Navigate(t, c) PROVE Shape'
    <2>. DEFINE req == Request(t, "restore", "healthz", NoTenant, storage)
                new == IF storage.key = NoKey THEN NoCall ELSE req
    <2>1. req \in CallRecord /\ RequestOK(req)
      BY <1>0, SessionRequest DEF SessionKind
    <2>. HIDE DEF req
    <2>2. new \in CallRecord /\ RequestOK(new)
      BY <2>1, NoCallType DEF RequestOK, SessionKind
    <2>. HIDE DEF new
    <2>3. calls' = [calls EXCEPT ![c] = new]
      BY <1>3 DEF Navigate, new, req
    <2>4. calls' \in [Call -> CallRecord] /\ CallsOK'
      BY <2>2, <2>3, UpdateOne
    <2>5. page' \in [Tab -> {"login", "loading", "app"}]
      BY <1>3 DEF Navigate, TypeOK
    <2>. QED BY <1>3, <2>4, <2>5 DEF Navigate, TypeOK, server, history
  <1>4. ASSUME NEW c \in Call, NEW x \in Tenant, Pick(t, c, x) PROVE Shape'
    <2>. DEFINE new == Request(t, "switch", "switch", x, storage)
    <2>1. /\ new \in CallRecord /\ new.tab = t /\ new.kind = "switch" /\ new.step = "switch"
          /\ new.at = "sent" /\ new.target = x
      BY <1>0, RequestType DEF Request
    <2>. HIDE DEF new
    <2>2. RequestOK(new)
      BY <2>1 DEF RequestOK, SessionKind
    <2>3. calls' = [calls EXCEPT ![c] = new]
      BY <1>4 DEF Pick, new
    <2>4. calls' \in [Call -> CallRecord] /\ CallsOK'
      BY <2>1, <2>2, <2>3, UpdateOne
    <2>. QED BY <1>4, <2>4 DEF Pick, TypeOK, server, history
  <1>5. ASSUME Logout(t) PROVE Shape'
    <2>1. /\ store' \in [Tab -> [id : Tenant \cup {NoTenant}, active : Tenant \cup {NoTenant},
                                 options : SUBSET Tenant]]
          /\ storage' \in [key : Key \cup {NoKey}, active : Tenant \cup {NoTenant}]
      BY <1>5 DEF Logout, TypeOK, NoStore, NoStorage
    <2>. QED BY <1>5, <2>1 DEF Logout, TypeOK, CallsOK, RequestOK, server, history
  <1>. QED BY <1>1, <1>2, <1>3, <1>4, <1>5 DEF UserStep

\* A browser without a key is in order.
LEMMA InitShape == Init => Shape
  <1>. SUFFICES ASSUME Init PROVE Shape
    OBVIOUS
  <1>1. /\ storage \in [key : Key \cup {NoKey}, active : Tenant \cup {NoTenant}]
        /\ store \in [Tab -> [id : Tenant \cup {NoTenant}, active : Tenant \cup {NoTenant},
                             options : SUBSET Tenant]]
    BY DEF Init, NoStore, NoStorage
  <1>2. calls \in [Call -> CallRecord] /\ CallsOK
    <2>1. NoCall \in CallRecord /\ RequestOK(NoCall)
      BY NoCallType DEF RequestOK, SessionKind
    <2>2. calls = [c \in Call |-> NoCall]
      BY DEF Init
    <2>. QED BY <2>1, <2>2 DEF CallsOK
  <1>3. /\ domain \in [Tenant -> Domain \cup {NoDomain}]
        /\ audit \subseteq [actor : Key, from : Tenant, to : Tenant]
        /\ page \in [Tab -> {"login", "loading", "app"}]
        /\ faults \in 0..MaxFault /\ regroups \in 0..MaxRegroup
        /\ overlapped \in BOOLEAN /\ strayed \in BOOLEAN
    <2>1. MaxFault \in Nat /\ MaxRegroup \in Nat
      BY SessionAssumption
    <2>2. /\ domain \in [Tenant -> Domain \cup {NoDomain}]
          /\ audit \subseteq [actor : Key, from : Tenant, to : Tenant]
      BY SessionAssumption DEF Init
    <2>3. page \in [Tab -> {"login", "loading", "app"}]
      BY DEF Init
    <2>4. faults \in 0..MaxFault /\ regroups \in 0..MaxRegroup
      BY <2>1 DEF Init
    <2>5. overlapped \in BOOLEAN /\ strayed \in BOOLEAN
      BY DEF Init
    <2>. QED BY <2>2, <2>3, <2>4, <2>5
  <1>. QED BY <1>1, <1>2, <1>3 DEF Shape, TypeOK

\* Every step keeps the shape.
LEMMA StepShape == Shape /\ [Next]_vars => Shape'
  <1>. SUFFICES ASSUME Shape, [Next]_vars PROVE Shape'
    OBVIOUS
  <1>1. ASSUME NEW t \in Tenant, Regroup(t) PROVE Shape'
    <2>1. domain' \in [Tenant -> Domain \cup {NoDomain}] /\ regroups' \in 0..MaxRegroup
      BY <1>1, SessionAssumption DEF Regroup, Shape, TypeOK
    <2>. QED BY <1>1, <2>1 DEF Regroup, Shape, TypeOK, CallsOK, RequestOK, history
  <1>2. CASE UNCHANGED vars
    BY <1>2 DEF vars, Shape, TypeOK, CallsOK, RequestOK
  <1>. QED BY <1>1, <1>2, ServerShape, AnswerShape, UserShape DEF Next

\* Every variable keeps its type, however the requests of the tabs interleave.
THEOREM TypeCorrect == Spec => []TypeOK
  <1>1. Spec => []Shape
    BY InitShape, StepShape, PTL DEF Spec
  <1>2. Shape => TypeOK
    BY DEF Shape
  <1>. QED BY <1>1, <1>2, PTL

-------------------------------------------------------------------------------
(* A switch is recorded within the domain of its key.                      *)

\* What a request is known to have found about domains, as long as no tenant has moved since
\* the middleware let it pass: it acts for the tenant of its key or one of its domain, and has
\* the domain of that tenant, and of the target, from Switch.
InReach(call) ==
  /\ call.since <= regroups
  /\ call.at \in {"from", "granted"} => ScopeOf[call.key] = "domain"
  /\ call.since = regroups /\ call.step = "switch" /\ ScopeOf[call.key] = "domain" =>
       /\ call.at \in {"authed", "from", "granted"} =>
            call.eff = HomeOf[call.key] \/ SameDomain(call.eff, HomeOf[call.key])
       /\ call.at \in {"from", "granted"} => call.dom = domain[call.eff]
       /\ call.at = "granted" => call.dom # NoDomain /\ domain[call.target] = call.dom

Reach == \A c \in Call : InReach(calls[c])

\* A request that is not on its way to the gateway has found nothing yet.
LEMMA NewReach ==
  ASSUME Shape, NEW call, call.at \in {"none", "sent"}, call.since = 0
  PROVE  InReach(call)
  BY DEF InReach, Shape, TypeOK

\* What the gateway does to a request.
LEMMA ServerReach ==
  ASSUME Shape, Reach, NEW c \in Call, ServerStep(c)
  PROVE  Reach'
  <1>. DEFINE old == calls[c]
  <1>0. /\ old \in CallRecord /\ RequestOK(old) /\ InReach(old)
        /\ domain' = domain /\ regroups' = regroups /\ regroups \in Nat
    BY DEF ServerStep, Authenticate, Healthz, List, Switch, SwitchFrom, SwitchTo, SwitchAudit,
           Lose, server, Shape, TypeOK, CallsOK, Reach
  <1>1. \A d \in Call : d # c => calls'[d] = calls[d]
    BY DEF ServerStep, Authenticate, Healthz, List, Switch, SwitchFrom, SwitchTo, SwitchAudit,
           Lose, Shape, TypeOK
  <1>2. SUFFICES InReach(calls'[c])
    BY <1>0, <1>1 DEF Reach, InReach, SameDomain
  <1>3. CASE Authenticate(c)
    <2>. DEFINE eff == Effective(old.key, old.header)
                since == IF old.step = "switch" THEN regroups ELSE 0
    <2>1. /\ domain \in [Tenant -> Domain \cup {NoDomain}]
          /\ old.key \in Key \cup {NoKey} /\ old.header \in Tenant \cup {NoTenant}
      BY <1>0 DEF CallRecord, Shape, TypeOK
    <2>2. eff # NoTenant /\ ScopeOf[old.key] = "domain" =>
            eff = HomeOf[old.key] \/ SameDomain(eff, HomeOf[old.key])
      BY <2>1, EffectiveType
    <2>3. calls'[c] = [old EXCEPT !.eff = eff, !.since = since,
                                  !.at = IF eff = NoTenant THEN "failed" ELSE "authed"]
      BY <1>3 DEF Authenticate, Shape, TypeOK
    <2>4. since <= regroups
      BY <1>0
    <2>. HIDE DEF eff, since
    <2>5. /\ calls'[c].key = old.key /\ calls'[c].eff = eff /\ calls'[c].since = since
          /\ calls'[c].at = IF eff = NoTenant THEN "failed" ELSE "authed"
      BY <1>0, <2>3 DEF CallRecord
    <2>. QED BY <2>2, <2>4, <2>5 DEF InReach
  <1>4. CASE SwitchFrom(c)
    <2>. DEFINE at == IF ScopeOf[old.key] = "domain" THEN "from" ELSE "failed"
    <2>1. calls'[c] = [old EXCEPT !.dom = domain[old.eff], !.at = at] /\ old.at = "authed"
      BY <1>4 DEF SwitchFrom, Shape, TypeOK
    <2>2. /\ calls'[c].key = old.key /\ calls'[c].eff = old.eff /\ calls'[c].since = old.since
          /\ calls'[c].step = old.step /\ calls'[c].dom = domain[old.eff] /\ calls'[c].at = at
      BY <1>0, <2>1 DEF CallRecord
    <2>. QED BY <1>0, <2>1, <2>2 DEF InReach
  <1>5. CASE SwitchTo(c)
    <2>. DEFINE same == old.dom # NoDomain /\ domain[old.target] = old.dom
    <2>1. /\ calls'[c] = [old EXCEPT !.at = IF same THEN "granted" ELSE "failed"]
          /\ old.at = "from"
      BY <1>5 DEF SwitchTo, Shape, TypeOK
    <2>2. /\ calls'[c].key = old.key /\ calls'[c].eff = old.eff /\ calls'[c].since = old.since
          /\ calls'[c].step = old.step /\ calls'[c].dom = old.dom
          /\ calls'[c].target = old.target
          /\ calls'[c].at = IF same THEN "granted" ELSE "failed"
      BY <1>0, <2>1 DEF CallRecord
    <2>. QED BY <1>0, <2>1, <2>2 DEF InReach
  <1>6. CASE Healthz(c) \/ List(c) \/ SwitchAudit(c) \/ Lose(c)
    <2>1. /\ calls'[c].key = old.key /\ calls'[c].since = old.since
          /\ calls'[c].at \in {"ok", "failed"}
      BY <1>0, <1>6 DEF Healthz, List, SwitchAudit, Lose, CallRecord, Shape, TypeOK
    <2>. QED BY <1>0, <2>1 DEF InReach
  <1>. QED BY <1>3, <1>4, <1>5, <1>6 DEF ServerStep, Switch

\* Every other step leaves a request, sends it, drops it or orphans it; a tenant that moves is
\* counted.
LEMMA StepReach ==
  ASSUME Shape, Reach, Next
  PROVE  Reach'
  <1>. USE DEF Shape
  <1>1. ASSUME NEW t \in Tenant, Regroup(t) PROVE Reach'
    <2>1. calls' = calls /\ regroups' = regroups + 1 /\ regroups \in Nat
      BY <1>1 DEF Regroup, TypeOK
    <2>2. \A c \in Call : calls[c].since \in Nat /\ InReach(calls[c])
      BY DEF TypeOK, CallRecord, Reach
    <2>. QED BY <2>1, <2>2 DEF Reach, InReach
  <1>2. ASSUME domain' = domain, regroups' = regroups,
               \A d \in Call : \/ calls'[d] = calls[d]
                               \/ calls'[d].at \in {"none", "sent"} /\ calls'[d].since = 0
                               \/ calls'[d] = [calls[d] EXCEPT !.kind = "orphan"]
        PROVE  Reach'
    <2>. SUFFICES ASSUME NEW d \in Call PROVE InReach(calls'[d])
      BY <1>2 DEF Reach, InReach, SameDomain
    <2>1. CASE calls'[d] = [calls[d] EXCEPT !.kind = "orphan"]
      <3>1. calls[d] \in CallRecord
        BY DEF TypeOK
      <3>2. /\ calls'[d].at = calls[d].at /\ calls'[d].key = calls[d].key
            /\ calls'[d].eff = calls[d].eff /\ calls'[d].since = calls[d].since
            /\ calls'[d].step = calls[d].step /\ calls'[d].dom = calls[d].dom
            /\ calls'[d].target = calls[d].target
        BY <2>1, <3>1 DEF CallRecord
      <3>. QED BY <3>2 DEF Reach, InReach
    <2>. QED BY <1>2, <2>1, NewReach DEF Reach
  <1>3. NoCall.at = "none" /\ NoCall.since = 0
    BY DEF NoCall
  <1>4. ASSUME NEW c \in Call, AnswerStep(c) PROVE Reach'
    BY <1>2, <1>3, <1>4
       DEF AnswerStep, HealthzOk, HealthzFails, TenantsOk, TenantsFails, SwitchOk, SwitchFails,
           Forget, Enter, Load, Request, TypeOK, server
  <1>5. ASSUME NEW t \in Tab, UserStep(t) PROVE Reach'
    BY <1>2, <1>3, <1>5
      DEF UserStep, Reload, Navigate, Load, Submit, Pick, Logout, Request, TypeOK, server
  <1>. QED BY <1>1, <1>4, <1>5, ServerReach DEF Next

\* A switch that is recorded stays within the domain of its key unless a tenant moves during
\* the request: the middleware confines the request, and Switch compares with the tenant the
\* request acts for.
THEOREM SwitchesStayInDomain == Spec => []AuditedInDomain
  <1>1. Init => Shape /\ Reach
    <2>. SUFFICES ASSUME Init PROVE Reach
      BY InitShape
    <2>1. Shape
      BY InitShape
    <2>2. \A c \in Call : calls[c].at = "none" /\ calls[c].since = 0
      BY DEF Init, NoCall
    <2>. QED BY <2>1, <2>2, NewReach DEF Reach
  <1>2. Shape /\ Reach /\ [Next]_vars => Shape' /\ Reach'
    <2>. SUFFICES ASSUME Shape, Reach, [Next]_vars PROVE Reach'
      BY StepShape
    <2>1. CASE UNCHANGED vars
      BY <2>1 DEF vars, Reach, InReach, SameDomain
    <2>. QED BY <2>1, StepReach
  <1>3. Shape /\ Reach => AuditedInDomain
    <2>. SUFFICES ASSUME Shape, Reach, NEW c \in Call,
                         calls[c].at = "granted", calls[c].since = regroups
                  PROVE  /\ SameDomain(calls[c].eff, HomeOf[calls[c].key])
                         /\ SameDomain(calls[c].target, HomeOf[calls[c].key])
      BY DEF AuditedInDomain
    <2>1. InReach(calls[c]) /\ calls[c].step = "switch"
      BY DEF Reach, Shape, CallsOK, RequestOK
    <2>. QED BY <2>1 DEF InReach, SameDomain
  <1>. QED BY <1>1, <1>2, <1>3, PTL DEF Spec

-------------------------------------------------------------------------------
(* In a browser with one tab the pill is right.                            *)

OneTab == \A t, u \in Tab : t = u

InSession(call) == call.kind \in SessionKind

\* Whom the gateway serves for a key and a header, if it serves the request at all.
Fits(k, h) == IF h = NoTenant \/ ScopeOf[k] = "read-write" THEN HomeOf[k] ELSE h

\* The login or restore under way belongs to a tab that has not entered the app, and went out
\* with what localStorage holds still.
Current(call) ==
  /\ page[call.tab] # "app"
  /\ call.key = storage.key /\ call.key \in Key /\ call.header = storage.active
  /\ call.at \in {"authed", "ok"} => call.eff = Fits(call.key, call.header)
  /\ call.step = "tenants" =>
       /\ store[call.tab].id = Fits(storage.key, storage.active)
       /\ store[call.tab].id # NoTenant
       /\ call.at = "ok" /\ ScopeOf[call.key] = "read-write" =>
            call.list \subseteq {HomeOf[call.key]}

\* A tab in the app has the tenant that localStorage fits.
Entered(t) ==
  /\ store[t].id # NoTenant /\ storage.key \in Key
  /\ store[t].active = Fits(storage.key, storage.active)

\* The invariant: unless logins overlapped, one at most is under way.
Honest ==
  ~overlapped =>
    /\ \A c, d \in Call : InSession(calls[c]) /\ InSession(calls[d]) => c = d
    /\ \A c \in Call : InSession(calls[c]) => Current(calls[c])
    /\ \A t \in Tab : page[t] = "app" => Entered(t)

\* A request of a session has a tab.
LEMMA SessionTab ==
  ASSUME Shape, NEW c \in Call, InSession(calls[c])
  PROVE  calls[c].tab \in Tab /\ calls[c].step \in {"healthz", "tenants"}
  BY DEF Shape, CallsOK, RequestOK, InSession, SessionKind

\* What the gateway answers is for the tenant that fits.
LEMMA EffectiveFits ==
  ASSUME NEW k, NEW h, Effective(k, h) # NoTenant PROVE Effective(k, h) = Fits(k, h)
  BY DEF Effective, Fits

\* A step that changes one request, and no other state of the browser, keeps Honest if the
\* new record is as it should be.
LEMMA ReplaceOne ==
  ASSUME Shape, Honest, NEW c \in Call, NEW new, calls' = [calls EXCEPT ![c] = new],
         storage' = storage, page' = page, store' = store, overlapped' = overlapped,
         InSession(new) => InSession(calls[c]),
         InSession(new) /\ ~overlapped => Current(new)
  PROVE  Honest'
  <1>. SUFFICES ASSUME ~overlapped PROVE Honest'
    BY DEF Honest
  <1>1. \A d \in Call : calls'[d] = IF d = c THEN new ELSE calls[d]
    BY DEF Shape, TypeOK
  <1>2. \A d \in Call : InSession(calls'[d]) => InSession(calls[d]) /\ Current(calls'[d])
    BY <1>1 DEF Honest
  <1>3. \A d \in Call : InSession(calls'[d]) => Current(calls[d])'
    BY <1>2 DEF Current
  <1>4. \A t \in Tab : page'[t] = "app" => Entered(t)'
    BY DEF Honest, Entered
  <1>5. \A d, e \in Call : InSession(calls'[d]) /\ InSession(calls'[e]) => d = e
    BY <1>2 DEF Honest
  <1>6. \A d \in Call : InSession(calls[d])' <=> InSession(calls'[d])
    BY DEF InSession
  <1>. QED BY <1>3, <1>4, <1>5, <1>6 DEF Honest

\* The gateway.
LEMMA ServerHonest ==
  ASSUME Shape, Honest, NEW c \in Call, ServerStep(c)
  PROVE  Honest'
  <1>. DEFINE old == calls[c]
  <1>0. /\ storage' = storage /\ page' = page /\ store' = store /\ overlapped' = overlapped
        /\ old \in CallRecord
    BY DEF ServerStep, Authenticate, Healthz, List, Switch, SwitchFrom, SwitchTo, SwitchAudit,
           Lose, history, Shape, TypeOK
  <1>1. InSession(old) /\ ~overlapped => Current(old)
    BY DEF Honest
  <1>. HIDE DEF old
  <1>2. CASE Authenticate(c)
    <2>. DEFINE eff == Effective(old.key, old.header)
                since == IF old.step = "switch" THEN regroups ELSE 0
                new == [old EXCEPT !.eff = eff, !.since = since,
                                   !.at = IF eff = NoTenant THEN "failed" ELSE "authed"]
    <2>1. calls' = [calls EXCEPT ![c] = new] /\ old.at = "sent"
      BY <1>2 DEF Authenticate, old
    <2>2. eff # NoTenant => eff = Fits(old.key, old.header)
      BY EffectiveFits
    <2>. HIDE DEF eff
    <2>3. /\ new.kind = old.kind /\ new.tab = old.tab /\ new.key = old.key
          /\ new.header = old.header /\ new.step = old.step /\ new.eff = eff
          /\ new.at = IF eff = NoTenant THEN "failed" ELSE "authed"
      BY <1>0 DEF CallRecord
    <2>. HIDE DEF new
    <2>4. (InSession(new) => InSession(old)) /\ (InSession(new) /\ ~overlapped => Current(new))
      BY <1>1, <2>1, <2>2, <2>3 DEF InSession, Current
    <2>. QED BY <1>0, <2>1, <2>4, ReplaceOne DEF old
  <1>3. CASE Healthz(c)
    <2>. DEFINE new == [old EXCEPT !.at = "ok"]
    <2>1. calls' = [calls EXCEPT ![c] = new] /\ old.at = "authed" /\ old.step = "healthz"
      BY <1>3 DEF Healthz, old
    <2>2. /\ new.kind = old.kind /\ new.tab = old.tab /\ new.key = old.key
          /\ new.header = old.header /\ new.step = old.step /\ new.eff = old.eff
      BY <1>0 DEF CallRecord
    <2>. HIDE DEF new
    <2>3. (InSession(new) => InSession(old)) /\ (InSession(new) /\ ~overlapped => Current(new))
      BY <1>1, <2>1, <2>2 DEF InSession, Current
    <2>. QED BY <1>0, <2>1, <2>3, ReplaceOne DEF old
  <1>4. CASE List(c)
    <2>. DEFINE list == VisibleTenants(old.eff, ScopeOf[old.key])
                new == [old EXCEPT !.at = "ok", !.list = list]
    <2>1. calls' = [calls EXCEPT ![c] = new] /\ old.at = "authed"
      BY <1>4 DEF List, old
    <2>2. ScopeOf[old.key] = "read-write" => list = {old.eff}
      BY DEF VisibleTenants
    <2>. HIDE DEF list
    <2>3. /\ new.kind = old.kind /\ new.tab = old.tab /\ new.key = old.key
          /\ new.header = old.header /\ new.step = old.step /\ new.eff = old.eff
          /\ new.list = list
      BY <1>0 DEF CallRecord
    <2>. HIDE DEF new
    <2>4. (InSession(new) => InSession(old)) /\ (InSession(new) /\ ~overlapped => Current(new))
      BY <1>1, <2>1, <2>2, <2>3 DEF InSession, Current, Fits
    <2>. QED BY <1>0, <2>1, <2>4, ReplaceOne DEF old
  <1>5. CASE Switch(c)
    <2>1. \E new : calls' = [calls EXCEPT ![c] = new] /\ new.kind = old.kind
      <3>1. CASE SwitchFrom(c)
        <4>. DEFINE at == IF ScopeOf[old.key] = "domain" THEN "from" ELSE "failed"
                    new == [old EXCEPT !.dom = domain[old.eff], !.at = at]
        <4>1. calls' = [calls EXCEPT ![c] = new]
          BY <3>1 DEF SwitchFrom, old, Shape, TypeOK
        <4>2. new.kind = old.kind
          BY <1>0 DEF CallRecord
        <4>. QED BY <4>1, <4>2
      <3>2. CASE SwitchTo(c)
        <4>. DEFINE same == old.dom # NoDomain /\ domain[old.target] = old.dom
                    new == [old EXCEPT !.at = IF same THEN "granted" ELSE "failed"]
        <4>1. calls' = [calls EXCEPT ![c] = new]
          BY <3>2 DEF SwitchTo, old
        <4>2. new.kind = old.kind
          BY <1>0 DEF CallRecord
        <4>. QED BY <4>1, <4>2
      <3>3. CASE SwitchAudit(c)
        <4>. DEFINE new == [old EXCEPT !.at = "ok"]
        <4>1. calls' = [calls EXCEPT ![c] = new]
          BY <3>3 DEF SwitchAudit, old
        <4>2. new.kind = old.kind
          BY <1>0 DEF CallRecord
        <4>. QED BY <4>1, <4>2
      <3>. QED BY <1>5, <3>1, <3>2, <3>3 DEF Switch
    <2>2. old.step = "switch"
      BY <1>5 DEF Switch, SwitchFrom, SwitchTo, SwitchAudit, Shape, CallsOK, RequestOK, old
    <2>3. ~InSession(old)
      BY <2>2, SessionTab DEF old
    <2>4. PICK new : calls' = [calls EXCEPT ![c] = new] /\ new.kind = old.kind
      BY <2>1
    <2>5. ~InSession(new)
      BY <2>3, <2>4 DEF InSession
    <2>. QED BY <1>0, <2>4, <2>5, ReplaceOne
  <1>6. CASE Lose(c)
    <2>. DEFINE new == [old EXCEPT !.at = "failed"]
    <2>1. calls' = [calls EXCEPT ![c] = new]
      BY <1>6 DEF Lose, old
    <2>2. /\ new.kind = old.kind /\ new.tab = old.tab /\ new.key = old.key
          /\ new.header = old.header /\ new.step = old.step /\ new.at = "failed"
      BY <1>0 DEF CallRecord
    <2>. HIDE DEF new
    <2>3. (InSession(new) => InSession(old)) /\ (InSession(new) /\ ~overlapped => Current(new))
      BY <1>1, <2>2 DEF InSession, Current
    <2>. QED BY <1>0, <2>1, <2>3, ReplaceOne DEF old
  <1>. QED BY <1>2, <1>3, <1>4, <1>5, <1>6 DEF ServerStep

\* After a page load no request belongs to the session but the one it sends.
LEMMA LoadLeaves ==
  ASSUME Shape, OneTab, NEW t \in Tab, NEW c \in Call, NEW s, Load(t, c, s),
         NEW d \in Call, InSession(calls'[d])
  PROVE  d = c /\ s.key # NoKey /\ calls'[d].kind = "restore"
  <1>1. NoCall.kind \notin SessionKind
    BY NoCallType DEF SessionKind
  <1>2. CASE d # c /\ d \in CallsOf(t)
    <2>1. calls'[d] = [calls[d] EXCEPT !.kind = "orphan"] /\ calls[d] \in CallRecord
      BY <1>2 DEF Load, Shape, TypeOK
    <2>2. calls'[d].kind = "orphan"
      BY <2>1 DEF CallRecord
    <2>. QED BY <2>2 DEF InSession, SessionKind
  <1>3. CASE d # c /\ d \notin CallsOf(t)
    <2>1. calls'[d] = calls[d]
      BY <1>3 DEF Load
    <2>2. calls[d].tab = t /\ calls[d] # NoCall
      BY <1>1, <2>1, SessionTab DEF InSession, OneTab
    <2>. QED BY <1>3, <2>2 DEF CallsOf, Free
  <1>4. CASE d = c
    BY <1>1, <1>4 DEF Load, InSession, Request
  <1>. QED BY <1>2, <1>3, <1>4

\* The session a page load begins is the one of localStorage.
LEMMA LoadHonest ==
  ASSUME Shape, OneTab, NEW t \in Tab, NEW c \in Call,
         storage' \in [key : Key \cup {NoKey}, active : Tenant \cup {NoTenant}],
         Load(t, c, storage')
  PROVE  Honest'
  <1>. DEFINE req == Request(t, "restore", "healthz", NoTenant, storage')
  <1>1. \A u \in Tab : page'[u] = IF storage'.key = NoKey THEN "login" ELSE "loading"
    BY DEF Load, OneTab, Shape, TypeOK
  <1>2. \A d \in Call : InSession(calls'[d]) => d = c /\ storage'.key # NoKey
    BY LoadLeaves
  <1>3. ASSUME storage'.key # NoKey PROVE Current(calls[c])'
    <2>1. calls'[c] = req
      BY <1>3 DEF Load
    <2>2. /\ req.tab = t /\ req.key = storage'.key /\ req.header = storage'.active
          /\ req.at = "sent" /\ req.step = "healthz"
      BY DEF Request
    <2>. HIDE DEF req
    <2>. QED BY <1>1, <1>3, <2>1, <2>2 DEF Current
  <1>4. \A d \in Call : InSession(calls[d])' <=> InSession(calls'[d])
    BY DEF InSession
  <1>. QED BY <1>1, <1>2, <1>3, <1>4 DEF Honest

\* A session that ends, in the app or not, has no request left.
LEMMA SessionEnds ==
  ASSUME Shape, Honest, NEW c \in Call, InSession(calls[c]), ~overlapped, NEW new,
         calls' = [calls EXCEPT ![c] = new], ~InSession(new),
         \A t \in Tab : page'[t] = "app" => Entered(t)'
  PROVE  Honest'
  <1>1. \A d \in Call : calls'[d] = IF d = c THEN new ELSE calls[d]
    BY DEF Shape, TypeOK
  <1>2. \A d \in Call : ~InSession(calls'[d])
    BY <1>1 DEF Honest
  <1>3. \A d \in Call : InSession(calls[d])' <=> InSession(calls'[d])
    BY DEF InSession
  <1>. QED BY <1>2, <1>3 DEF Honest

\* The answers.
LEMMA AnswerHonest ==
  ASSUME Shape, Shape', OneTab, Honest, NEW c \in Call, AnswerStep(c)
  PROVE  Honest'
  <1>. DEFINE call == calls[c]
              t == call.tab
  <1>0. /\ overlapped' = overlapped /\ call \in CallRecord /\ RequestOK(call)
        /\ ~InSession(NoCall)
    BY NoCallType DEF AnswerStep, HealthzOk, HealthzFails, TenantsOk, TenantsFails, SwitchOk,
                      SwitchFails, Forget, history, Shape, TypeOK, CallsOK, InSession, SessionKind
  <1>1. SUFFICES ASSUME ~overlapped PROVE Honest'
    BY <1>0 DEF Honest
  <1>2. ASSUME Awaited(call, "healthz") \/ Awaited(call, "tenants")
        PROVE  /\ InSession(call) /\ Current(call) /\ t \in Tab
               /\ \A u \in Tab : u = t /\ page[u] # "app"
    <2>1. InSession(call)
      BY <1>0, <1>2 DEF Awaited, RequestOK, InSession
    <2>2. Current(call) /\ t \in Tab
      BY <1>1, <2>1, SessionTab DEF Honest
    <2>. QED BY <2>1, <2>2 DEF Current, OneTab
  <1>3. CASE HealthzOk(c)
    <2>. DEFINE new == Request(t, call.kind, "tenants", NoTenant, storage)
    <2>1. /\ InSession(call) /\ Current(call) /\ t \in Tab
          /\ \A u \in Tab : u = t /\ page[u] # "app"
          /\ call.at = "ok" /\ call.eff \in Tenant
      BY <1>0, <1>2, <1>3 DEF HealthzOk, RequestOK
    <2>2. /\ store'[t].id = call.eff /\ storage' = storage /\ page' = page
      BY <1>3, <2>1 DEF HealthzOk, Shape, TypeOK
    <2>3. \A d \in Call : calls'[d] = IF d = c THEN new ELSE calls[d]
      BY <1>3 DEF HealthzOk, Shape, TypeOK
    <2>4. /\ new.tab = t /\ new.step = "tenants" /\ new.at = "sent"
          /\ new.key = storage.key /\ new.header = storage.active
      BY DEF Request
    <2>. HIDE DEF new
    <2>5. Current(calls[c])'
      BY <2>1, <2>2, <2>3, <2>4, SessionAssumption DEF Current
    <2>6. \A d \in Call : InSession(calls'[d]) => d = c
      BY <1>1, <2>1, <2>3 DEF Honest
    <2>7. \A d \in Call : InSession(calls[d])' <=> InSession(calls'[d])
      BY DEF InSession
    <2>. QED BY <2>1, <2>2, <2>5, <2>6, <2>7 DEF Honest
  <1>4. CASE HealthzFails(c)
    <2>1. InSession(call) /\ t \in Tab /\ \A u \in Tab : u = t /\ page[u] # "app"
      BY <1>2, <1>4 DEF HealthzFails
    <2>2. calls' = [calls EXCEPT ![c] = NoCall]
      BY <1>4 DEF HealthzFails
    <2>3. \A u \in Tab : page'[u] # "app"
      BY <1>4, <2>1 DEF HealthzFails, Shape, TypeOK
    <2>. HIDE DEF t
    <2>. QED BY <1>0, <1>1, <2>1, <2>2, <2>3, SessionEnds
  <1>5. CASE TenantsOk(c)
    <2>. DEFINE active == ActiveAfter(call.list, store[t].id)
    <2>1. InSession(call) /\ Current(call) /\ t \in Tab /\ call.at = "ok" /\ call.step = "tenants"
          /\ \A u \in Tab : u = t
      BY <1>2, <1>5 DEF TenantsOk, Awaited
    <2>2. /\ storage.key \in Key /\ store[t].id = Fits(storage.key, storage.active)
          /\ store[t].id \in Tenant /\ call.list \subseteq Tenant
          /\ ScopeOf[storage.key] = "read-write" => call.list \subseteq {HomeOf[storage.key]}
      BY <1>0, <2>1 DEF Current, Shape, TypeOK, CallRecord
    <2>3. active \in Tenant /\ active = Fits(storage.key, active)
      BY <2>2, SessionAssumption DEF ActiveAfter, Fits
    <2>. HIDE DEF active
    <2>4. /\ store' = [store EXCEPT ![t].options = call.list, ![t].active = active]
          /\ storage' = [storage EXCEPT !.active = active] /\ Enter(c)
      BY <1>5 DEF TenantsOk, active
    <2>5. /\ store'[t].active = active /\ store'[t].id = store[t].id
          /\ storage'.key = storage.key /\ storage'.active = active
      BY <2>1, <2>4 DEF Shape, TypeOK
    <2>6. calls' = [calls EXCEPT ![c] = NoCall]
      BY <2>2, <2>4, SessionAssumption DEF Enter
    <2>7. \A u \in Tab : Entered(u)'
      BY <2>1, <2>2, <2>3, <2>5, SessionAssumption DEF Entered
    <2>. QED BY <1>0, <1>1, <2>1, <2>6, <2>7, SessionEnds
  <1>6. CASE TenantsFails(c)
    <2>1. InSession(call) /\ Current(call) /\ t \in Tab /\ call.step = "tenants"
          /\ \A u \in Tab : u = t
      BY <1>2, <1>6 DEF TenantsFails, Awaited
    <2>2. /\ storage.key \in Key /\ store[t].id = Fits(storage.key, storage.active)
          /\ store[t].id # NoTenant
      BY <2>1 DEF Current
    <2>3. /\ store'[t].active = store[t].id /\ store'[t].id = store[t].id /\ storage' = storage
      BY <1>6, <2>1 DEF TenantsFails, Shape, TypeOK
    <2>4. calls' = [calls EXCEPT ![c] = NoCall]
      BY <1>6, <2>2 DEF TenantsFails, Enter
    <2>5. \A u \in Tab : Entered(u)'
      BY <2>1, <2>2, <2>3 DEF Entered
    <2>. QED BY <1>0, <1>1, <2>1, <2>4, <2>5, SessionEnds
  <1>7. CASE SwitchOk(c)
    <2>1. t \in Tab /\ Load(t, c, storage')
      BY <1>0, <1>7 DEF SwitchOk, Awaited, RequestOK
    <2>2. storage' \in [key : Key \cup {NoKey}, active : Tenant \cup {NoTenant}]
      BY DEF Shape, TypeOK
    <2>. QED BY <2>1, <2>2, LoadHonest
  <1>8. CASE SwitchFails(c) \/ Forget(c)
    <2>1. /\ calls' = [calls EXCEPT ![c] = NoCall]
          /\ storage' = storage /\ page' = page /\ store' = store
      BY <1>8 DEF SwitchFails, Forget
    <2>. QED BY <1>0, <2>1, ReplaceOne
  <1>. QED BY <1>3, <1>4, <1>5, <1>6, <1>7, <1>8 DEF AnswerStep

\* What the user does.
LEMMA UserHonest ==
  ASSUME Shape, Shape', OneTab, Honest, NEW t \in Tab, UserStep(t)
  PROVE  Honest'
  <1>0. /\ ~InSession(NoCall)
        /\ storage' \in [key : Key \cup {NoKey}, active : Tenant \cup {NoTenant}]
        /\ \A u \in Tab : u = t
    BY NoCallType DEF InSession, SessionKind, Shape, TypeOK, OneTab
  <1>1. ASSUME NEW c \in Call, Reload(t, c) PROVE Honest'
    <2>1. Load(t, c, storage')
      BY <1>1 DEF Reload
    <2>. QED BY <1>0, <2>1, LoadHonest
  <1>2. ASSUME NEW c \in Call, NEW k \in Key, Submit(t, c, k) PROVE Honest'
    <2>. DEFINE new == Request(t, "login", "healthz", NoTenant, storage')
    <2>. SUFFICES ASSUME ~overlapped' PROVE Honest'
      BY DEF Honest
    <2>1. \A d \in Call : ~InSession(calls[d])
      <3>. SUFFICES ASSUME NEW d \in Call, InSession(calls[d]) PROVE FALSE
        OBVIOUS
      <3>1. calls[d].tab = t /\ calls[d] # NoCall
        BY <1>0, SessionTab
      <3>. QED BY <1>2, <3>1 DEF Submit, CallsOf, Free, InSession, SessionKind
    <2>2. \A d \in Call : calls'[d] = IF d = c THEN new ELSE calls[d]
      BY <1>2 DEF Submit, Shape, TypeOK
    <2>3. page' = page /\ store' = store /\ page[t] = "login" /\ storage'.key = k
      BY <1>2 DEF Submit, Shape, TypeOK
    <2>4. /\ new.tab = t /\ new.step = "healthz" /\ new.at = "sent"
          /\ new.key = storage'.key /\ new.header = storage'.active
      BY DEF Request
    <2>. HIDE DEF new
    <2>5. Current(calls[c])'
      BY <2>2, <2>3, <2>4 DEF Current
    <2>6. \A d \in Call : InSession(calls'[d]) => d = c
      BY <2>1, <2>2
    <2>7. \A d \in Call : InSession(calls[d])' <=> InSession(calls'[d])
      BY DEF InSession
    <2>. QED BY <1>0, <2>3, <2>5, <2>6, <2>7 DEF Honest
  <1>3. ASSUME NEW c \in Call, Navigate(t, c) PROVE Honest'
    BY <1>3 DEF Navigate, Honest, Entered, history
  <1>4. ASSUME NEW c \in Call, NEW x \in Tenant, Pick(t, c, x) PROVE Honest'
    <2>. DEFINE new == Request(t, "switch", "switch", x, storage)
    <2>1. new.kind = "switch"
      BY DEF Request
    <2>. HIDE DEF new
    <2>2. /\ calls' = [calls EXCEPT ![c] = new]
          /\ storage' = storage /\ page' = page /\ store' = store /\ overlapped' = overlapped
      BY <1>4 DEF Pick, history, new
    <2>3. ~InSession(new)
      BY <2>1 DEF InSession, SessionKind
    <2>. QED BY <2>2, <2>3, ReplaceOne
  <1>5. ASSUME Logout(t) PROVE Honest'
    <2>. SUFFICES ASSUME ~overlapped PROVE Honest'
      BY <1>5 DEF Logout, history, Honest
    <2>1. page[t] = "app" /\ calls' = calls
      BY <1>5 DEF Logout
    <2>2. \A d \in Call : ~InSession(calls[d])
      BY <1>0, <2>1, SessionTab DEF Honest, Current
    <2>3. \A u \in Tab : page'[u] = "login"
      BY <1>0, <1>5 DEF Logout, Shape, TypeOK
    <2>4. \A d \in Call : ~InSession(calls[d])'
      BY <2>1, <2>2 DEF InSession
    <2>. QED BY <2>3, <2>4 DEF Honest
  <1>. QED BY <1>1, <1>2, <1>3, <1>4, <1>5 DEF UserStep

\* Every step.
LEMMA StepHonest ==
  ASSUME Shape, Shape', OneTab, Honest, [Next]_vars
  PROVE  Honest'
  <1>1. CASE UNCHANGED vars \/ \E t \in Tenant : Regroup(t)
    <2>1. /\ storage' = storage /\ page' = page /\ store' = store /\ calls' = calls
          /\ overlapped' = overlapped
      BY <1>1 DEF vars, Regroup, history
    <2>. QED BY <2>1 DEF Honest, InSession, Current, Entered
  <1>. QED BY <1>1, ServerHonest, AnswerHonest, UserHonest DEF Next

\* With one tab the active tenant the pill shows is the one the tab is served for, or nothing
\* is served, through any reloads, late answers, lost answers and moved tenants, unless
\* logins overlapped.  The request under way is part of the induction: it went out with what
\* localStorage holds still, so that its answer is about the headers of the next requests.
THEOREM PillIsHonest == ASSUME OneTab PROVE Spec => []ShownIsServed
  <1>1. Init => Honest
    <2>. SUFFICES ASSUME Init PROVE Honest
      OBVIOUS
    <2>1. \A c \in Call : calls[c] = NoCall
      BY DEF Init
    <2>2. \A t \in Tab : page[t] = "login"
      BY DEF Init
    <2>. QED BY <2>1, <2>2, NoCallType DEF Honest, InSession, SessionKind
  <1>2. Shape /\ Shape' /\ Honest /\ [Next]_vars => Honest'
    BY StepHonest
  <1>3. Honest => ShownIsServed
    BY EffectiveFits DEF Honest, Entered, ShownIsServed, Served
  <1>. QED BY <1>1, <1>2, <1>3, InitShape, StepShape, PTL DEF Spec

-------------------------------------------------------------------------------
(* And no tenant passes from one session to the next.                      *)

\* A tab that asks for a key has no request but the login with that key.
AtLogin(t) ==
  /\ page[t] = "login"
  /\ \A c \in Call : InSession(calls[c]) => calls[c].kind = "login" /\ calls[c].step = "healthz"

\* The tenant in localStorage was granted to the key there.
Owned == storage.active \in GrantedTo(storage.key)

\* localStorage holds no tenant while a key is asked for, and one that was granted to the key
\* otherwise.
KeyOwns ==
  ~overlapped /\ ~strayed =>
    /\ Owned
    /\ \A c \in Call :
         InSession(calls[c]) /\ calls[c].kind = "login" => page[calls[c].tab] = "login"
    /\ \A t \in Tab : AtLogin(t) => storage.active = NoTenant

\* A switch is answered after it was recorded.
Recorded(call) ==
  call.step = "switch" /\ call.at = "ok" =>
    \E row \in audit : row.actor = call.key /\ row.to = call.target

SwitchesRecorded == \A c \in Call : Recorded(calls[c])

\* audit_log only grows.
LEMMA AuditGrows == [Next]_vars => audit \subseteq audit'
  BY DEF Next, Regroup, ServerStep, AnswerStep, UserStep, Authenticate, Healthz, List, Switch,
         SwitchFrom, SwitchTo, SwitchAudit, Lose, HealthzOk, HealthzFails, TenantsOk,
         TenantsFails, SwitchOk, SwitchFails, Forget, Reload, Navigate, Submit, Pick, Logout,
         server, history, vars

\* The gateway answers a switch when it has recorded it.
LEMMA ServerRecorded ==
  ASSUME Shape, SwitchesRecorded, NEW c \in Call, ServerStep(c), audit \subseteq audit'
  PROVE  SwitchesRecorded'
  <1>. DEFINE old == calls[c]
  <1>0. old \in CallRecord
    BY DEF Shape, TypeOK
  <1>1. \A d \in Call : d # c => calls'[d] = calls[d]
    BY DEF ServerStep, Authenticate, Healthz, List, Switch, SwitchFrom, SwitchTo, SwitchAudit,
           Lose, Shape, TypeOK
  <1>2. Recorded(calls[c])'
    <2>1. CASE SwitchAudit(c)
      <3>. DEFINE row == [actor |-> old.key, from |-> old.eff, to |-> old.target]
      <3>1. row \in audit' /\ row.actor = old.key /\ row.to = old.target
        BY <2>1 DEF SwitchAudit
      <3>. HIDE DEF row
      <3>2. calls'[c].key = old.key /\ calls'[c].target = old.target
        BY <1>0, <2>1 DEF SwitchAudit, CallRecord, Shape, TypeOK
      <3>. QED BY <3>1, <3>2 DEF Recorded
    <2>2. CASE Healthz(c) \/ List(c)
      <3>1. calls'[c].step = old.step /\ old.step \in {"healthz", "tenants"}
        BY <1>0, <2>2 DEF Healthz, List, CallRecord, Shape, TypeOK
      <3>. QED BY <3>1 DEF Recorded
    <2>3. CASE Authenticate(c)
      <3>1. calls'[c].at \in {"failed", "authed"}
        BY <1>0, <2>3 DEF Authenticate, CallRecord, Shape, TypeOK
      <3>. QED BY <3>1 DEF Recorded
    <2>4. CASE SwitchFrom(c)
      <3>1. calls'[c].at \in {"failed", "from"}
        BY <1>0, <2>4 DEF SwitchFrom, CallRecord, Shape, TypeOK
      <3>. QED BY <3>1 DEF Recorded
    <2>5. CASE SwitchTo(c)
      <3>1. calls'[c].at \in {"failed", "granted"}
        BY <1>0, <2>5 DEF SwitchTo, CallRecord, Shape, TypeOK
      <3>. QED BY <3>1 DEF Recorded
    <2>6. CASE Lose(c)
      <3>1. calls'[c].at = "failed"
        BY <1>0, <2>6 DEF Lose, CallRecord, Shape, TypeOK
      <3>. QED BY <3>1 DEF Recorded
    <2>. QED BY <2>1, <2>2, <2>3, <2>4, <2>5, <2>6 DEF ServerStep, Switch
  <1>3. ASSUME NEW d \in Call, d # c PROVE Recorded(calls[d])'
    BY <1>1, <1>3 DEF SwitchesRecorded, Recorded
  <1>. QED BY <1>2, <1>3 DEF SwitchesRecorded

\* Nothing else makes an answer.
LEMMA StepRecorded ==
  ASSUME Shape, SwitchesRecorded, [Next]_vars
  PROVE  SwitchesRecorded'
  <1>1. audit \subseteq audit'
    BY AuditGrows
  <1>2. ASSUME \A d \in Call : \/ calls'[d] = calls[d]
                               \/ calls'[d].at \in {"none", "sent"}
                               \/ calls'[d] = [calls[d] EXCEPT !.kind = "orphan"]
        PROVE  SwitchesRecorded'
    <2>. SUFFICES ASSUME NEW d \in Call PROVE Recorded(calls[d])'
      BY DEF SwitchesRecorded
    <2>0. calls[d] \in CallRecord /\ Recorded(calls[d])
      BY DEF Shape, TypeOK, SwitchesRecorded
    <2>1. CASE calls'[d] = calls[d]
      BY <1>1, <2>0, <2>1 DEF Recorded
    <2>2. CASE calls'[d].at \in {"none", "sent"}
      BY <2>2 DEF Recorded
    <2>3. CASE calls'[d] = [calls[d] EXCEPT !.kind = "orphan"]
      <3>1. /\ calls'[d].at = calls[d].at /\ calls'[d].key = calls[d].key
            /\ calls'[d].step = calls[d].step /\ calls'[d].target = calls[d].target
        BY <2>0, <2>3 DEF CallRecord
      <3>. QED BY <1>1, <2>0, <3>1 DEF Recorded
    <2>. QED BY <1>2, <2>1, <2>2, <2>3
  <1>3. NoCall.at = "none"
    BY DEF NoCall
  <1>4. ASSUME NEW c \in Call, AnswerStep(c) PROVE SwitchesRecorded'
    BY <1>2, <1>3, <1>4
       DEF AnswerStep, HealthzOk, HealthzFails, TenantsOk, TenantsFails, SwitchOk, SwitchFails,
           Forget, Enter, Load, Request, Shape, TypeOK
  <1>5. ASSUME NEW t \in Tab, UserStep(t) PROVE SwitchesRecorded'
    BY <1>2, <1>3, <1>5
      DEF UserStep, Reload, Navigate, Load, Submit, Pick, Logout, Request, Shape, TypeOK
  <1>6. CASE UNCHANGED vars \/ \E t \in Tenant : Regroup(t)
    BY <1>2, <1>6 DEF vars, Regroup
  <1>. QED BY <1>1, <1>4, <1>5, <1>6, ServerRecorded DEF Next

\* A step that leaves the requests of the session, localStorage and the pages alone.
LEMMA KeepKeyOwns ==
  ASSUME KeyOwns, storage' = storage, page' = page, overlapped' = overlapped,
         strayed' = strayed, audit \subseteq audit',
         \A d \in Call :
           /\ InSession(calls'[d]) <=> InSession(calls[d])
           /\ InSession(calls[d]) => /\ calls'[d].kind = calls[d].kind
                                     /\ calls'[d].step = calls[d].step
                                     /\ calls'[d].tab = calls[d].tab
  PROVE  KeyOwns'
  <1>1. \A d \in Call : InSession(calls[d])' <=> InSession(calls[d])
    BY DEF InSession
  <1>2. ASSUME NEW t \in Tab, AtLogin(t)' PROVE AtLogin(t)
    BY <1>1, <1>2 DEF AtLogin
  <1>3. Owned => Owned'
    BY DEF Owned, GrantedTo
  <1>4. \A d \in Call : InSession(calls[d])' /\ calls'[d].kind = "login" =>
          InSession(calls[d]) /\ calls[d].kind = "login" /\ calls'[d].tab = calls[d].tab
    BY <1>1
  <1>. QED BY <1>2, <1>3, <1>4 DEF KeyOwns

\* A step after which no request of a session is under way.
LEMMA EndKeyOwns ==
  ASSUME \A d \in Call : ~InSession(calls'[d]),
         ~overlapped' /\ ~strayed' =>
           Owned' /\ \A u \in Tab : page'[u] # "login" \/ storage'.active = NoTenant
  PROVE  KeyOwns'
  <1>1. \A d \in Call : ~InSession(calls[d])'
    BY DEF InSession
  <1>. QED BY <1>1 DEF KeyOwns, AtLogin

\* What the gateway does with a request of the session does not matter to KeyOwns.
LEMMA ServerOwns ==
  ASSUME Shape, KeyOwns, NEW c \in Call, ServerStep(c), audit \subseteq audit'
  PROVE  KeyOwns'
  <1>1. /\ storage' = storage /\ page' = page /\ overlapped' = overlapped
        /\ strayed' = strayed
    BY DEF ServerStep, Authenticate, Healthz, List, Switch, SwitchFrom, SwitchTo, SwitchAudit,
           Lose, history
  <1>2. ASSUME NEW d \in Call
        PROVE  /\ calls'[d].kind = calls[d].kind /\ calls'[d].step = calls[d].step
               /\ calls'[d].tab = calls[d].tab
    <2>1. calls[d] \in CallRecord
      BY DEF Shape, TypeOK
    <2>2. CASE Authenticate(c)
      BY <2>1, <2>2 DEF Authenticate, CallRecord, Shape, TypeOK
    <2>3. CASE Healthz(c) \/ List(c)
      BY <2>1, <2>3 DEF Healthz, List, CallRecord, Shape, TypeOK
    <2>4. CASE SwitchFrom(c)
      BY <2>1, <2>4 DEF SwitchFrom, CallRecord, Shape, TypeOK
    <2>5. CASE SwitchTo(c)
      BY <2>1, <2>5 DEF SwitchTo, CallRecord, Shape, TypeOK
    <2>6. CASE SwitchAudit(c)
      BY <2>1, <2>6 DEF SwitchAudit, CallRecord, Shape, TypeOK
    <2>7. CASE Lose(c)
      BY <2>1, <2>7 DEF Lose, CallRecord, Shape, TypeOK
    <2>. QED BY <2>2, <2>3, <2>4, <2>5, <2>6, <2>7 DEF ServerStep, Switch
  <1>3. \A d \in Call : InSession(calls'[d]) <=> InSession(calls[d])
    BY <1>2 DEF InSession
  <1>. QED BY <1>1, <1>2, <1>3, KeepKeyOwns

\* A page load with a tenant that was granted to the key.
LEMMA LoadOwns ==
  ASSUME Shape, OneTab, NEW t \in Tab, NEW c \in Call, Load(t, c, storage'),
         ~overlapped' /\ ~strayed' => Owned'
  PROVE  KeyOwns'
  <1>1. ASSUME NEW d \in Call, InSession(calls[d])' PROVE calls'[d].kind = "restore"
    BY <1>1, LoadLeaves DEF InSession
  <1>2. ASSUME NEW u \in Tab, AtLogin(u)', Owned' PROVE storage'.active = NoTenant
    <2>1. storage'.key = NoKey
      BY <1>2 DEF AtLogin, Load, OneTab, Shape, TypeOK
    <2>. QED BY <1>2, <2>1 DEF Owned, GrantedTo
  <1>. QED BY <1>1, <1>2 DEF KeyOwns

\* The answers.
LEMMA AnswerOwns ==
  ASSUME Shape, OneTab, Honest, KeyOwns, SwitchesRecorded, NEW c \in Call, AnswerStep(c),
         audit \subseteq audit'
  PROVE  KeyOwns'
  <1>. DEFINE call == calls[c]
              t == call.tab
  <1>0. call \in CallRecord /\ RequestOK(call) /\ ~InSession(NoCall)
    BY NoCallType DEF Shape, TypeOK, CallsOK, InSession, SessionKind
  <1>1. SUFFICES ASSUME ~overlapped, ~strayed PROVE KeyOwns'
    <2>1. overlapped' = overlapped
      BY DEF AnswerStep, HealthzOk, HealthzFails, TenantsOk, TenantsFails, SwitchOk,
             SwitchFails, Forget, history
    <2>2. CASE SwitchOk(c)
      <3>1. strayed' = (strayed \/ storage.key # call.key)
        BY <2>2 DEF SwitchOk
      <3>. QED BY <2>1, <3>1 DEF KeyOwns
    <2>3. CASE ~SwitchOk(c)
      <3>1. strayed' = strayed
        BY <2>3 DEF AnswerStep, HealthzOk, HealthzFails, TenantsOk, TenantsFails, SwitchFails,
                    Forget, history
      <3>. QED BY <2>1, <3>1 DEF KeyOwns
    <2>. QED BY <2>2, <2>3
  <1>2. ASSUME Awaited(call, "healthz") \/ Awaited(call, "tenants")
        PROVE  /\ InSession(call) /\ Current(call) /\ t \in Tab
               /\ \A u \in Tab : u = t
               /\ \A d \in Call : InSession(calls[d]) => d = c
    <2>1. InSession(call)
      BY <1>0, <1>2 DEF Awaited, RequestOK, InSession
    <2>2. Current(call) /\ t \in Tab
      BY <1>1, <2>1, SessionTab DEF Honest
    <2>. QED BY <1>1, <2>1, <2>2 DEF OneTab, Honest
  <1>3. CASE HealthzOk(c)
    <2>1. /\ InSession(call) /\ t \in Tab
          /\ \A d \in Call : InSession(calls[d]) => d = c
      BY <1>2, <1>3 DEF HealthzOk
    <2>2. /\ calls' = [calls EXCEPT ![c] = Request(t, call.kind, "tenants", NoTenant, storage)]
          /\ storage' = storage /\ page' = page
      BY <1>3 DEF HealthzOk
    <2>3. /\ calls'[c].kind = call.kind /\ calls'[c].tab = t /\ calls'[c].step = "tenants"
          /\ \A d \in Call : d # c => calls'[d] = calls[d]
      BY <2>2 DEF Request, Shape, TypeOK
    <2>4. \A u \in Tab : ~AtLogin(u)'
      BY <2>1, <2>3 DEF AtLogin, InSession
    <2>5. Owned'
      BY <1>1, <2>2 DEF KeyOwns, Owned, GrantedTo
    <2>6. \A d \in Call : InSession(calls[d])' => d = c
      BY <2>1, <2>3 DEF InSession
    <2>7. calls'[c].kind = "login" => page'[calls'[c].tab] = "login"
      BY <1>1, <2>1, <2>2, <2>3 DEF KeyOwns
    <2>. QED BY <2>4, <2>5, <2>6, <2>7 DEF KeyOwns
  <1>4. CASE HealthzFails(c)
    <2>1. /\ InSession(call) /\ t \in Tab /\ call.step = "healthz"
          /\ \A d \in Call : InSession(calls[d]) => d = c
      BY <1>2, <1>4 DEF HealthzFails, Awaited
    <2>2. \A d \in Call : ~InSession(calls'[d])
      BY <1>0, <1>4, <2>1 DEF HealthzFails, Shape, TypeOK
    <2>3. CASE call.kind = "login"
      <3>1. AtLogin(t)
        BY <1>1, <2>1, <2>3 DEF KeyOwns, AtLogin
      <3>2. storage'.key = NoKey /\ storage'.active = NoTenant
        BY <1>1, <1>4, <2>1, <2>3, <3>1 DEF HealthzFails, KeyOwns, Shape, TypeOK
      <3>. QED BY <2>2, <3>2, EndKeyOwns DEF Owned, GrantedTo
    <2>4. CASE call.kind # "login"
      <3>1. storage'.key = NoKey /\ storage'.active = NoTenant
        BY <1>4, <2>4 DEF HealthzFails, NoStorage
      <3>. QED BY <2>2, <3>1, EndKeyOwns DEF Owned, GrantedTo
    <2>. QED BY <2>3, <2>4
  <1>5. CASE TenantsOk(c)
    <2>. DEFINE active == ActiveAfter(call.list, store[t].id)
    <2>1. /\ InSession(call) /\ Current(call) /\ t \in Tab /\ call.step = "tenants"
          /\ \A u \in Tab : u = t
          /\ \A d \in Call : InSession(calls[d]) => d = c
      BY <1>2, <1>5 DEF TenantsOk, Awaited
    <2>2. /\ storage.key \in Key /\ store[t].id = Fits(storage.key, storage.active)
          /\ store[t].id # NoTenant
      BY <2>1 DEF Current
    <2>3. active \in {storage.active, HomeOf[storage.key]}
      BY <2>2 DEF ActiveAfter, Fits
    <2>. HIDE DEF active
    <2>4. /\ storage' = [storage EXCEPT !.active = active] /\ Enter(c)
      BY <1>5 DEF TenantsOk, active
    <2>5. /\ calls' = [calls EXCEPT ![c] = NoCall]
          /\ page' = [page EXCEPT ![t] = "app"]
      BY <2>2, <2>4 DEF Enter
    <2>6. \A d \in Call : ~InSession(calls'[d])
      BY <1>0, <2>1, <2>5 DEF Shape, TypeOK
    <2>7. \A u \in Tab : page'[u] = "app"
      BY <2>1, <2>5 DEF Shape, TypeOK
    <2>8. storage'.key = storage.key /\ storage'.active = active
      BY <2>4 DEF Shape, TypeOK
    <2>9. Owned'
      <3>1. storage.active \in GrantedTo(storage.key)
        BY <1>1 DEF KeyOwns, Owned
      <3>2. storage.key # NoKey
        BY <2>2, SessionAssumption
      <3>. QED BY <2>3, <2>8, <3>1, <3>2 DEF Owned, GrantedTo
    <2>. QED BY <2>6, <2>7, <2>9, EndKeyOwns
  <1>6. CASE TenantsFails(c)
    <2>1. /\ InSession(call) /\ Current(call) /\ t \in Tab /\ call.step = "tenants"
          /\ \A u \in Tab : u = t
          /\ \A d \in Call : InSession(calls[d]) => d = c
      BY <1>2, <1>6 DEF TenantsFails, Awaited
    <2>2. store[t].id # NoTenant /\ storage' = storage
      BY <1>6, <2>1 DEF Current, TenantsFails
    <2>3. /\ calls' = [calls EXCEPT ![c] = NoCall]
          /\ page' = [page EXCEPT ![t] = "app"]
      BY <1>6, <2>2 DEF TenantsFails, Enter
    <2>4. \A d \in Call : ~InSession(calls'[d])
      BY <1>0, <2>1, <2>3 DEF Shape, TypeOK
    <2>5. \A u \in Tab : page'[u] = "app"
      BY <2>1, <2>3 DEF Shape, TypeOK
    <2>6. Owned'
      BY <1>1, <2>2 DEF KeyOwns, Owned, GrantedTo
    <2>. QED BY <2>4, <2>5, <2>6, EndKeyOwns
  <1>7. CASE SwitchOk(c)
    <2>1. /\ t \in Tab /\ call.key \in Key /\ call.step = "switch" /\ call.at = "ok"
          /\ Load(t, c, storage') /\ storage' = [storage EXCEPT !.active = call.target]
          /\ strayed' = (strayed \/ storage.key # call.key)
      BY <1>0, <1>7 DEF SwitchOk, Awaited, RequestOK
    <2>2. ASSUME ~strayed' PROVE Owned'
      <3>1. PICK row \in audit : row.actor = call.key /\ row.to = call.target
        BY <2>1 DEF SwitchesRecorded, Recorded
      <3>2. row \in audit' /\ storage'.key = call.key /\ storage'.active = call.target
        BY <2>1, <2>2 DEF Shape, TypeOK
      <3>3. call.key # NoKey
        BY <2>1, SessionAssumption
      <3>. QED BY <3>1, <3>2, <3>3 DEF Owned, GrantedTo
    <2>. QED BY <2>1, <2>2, LoadOwns
  <1>8. CASE SwitchFails(c) \/ Forget(c)
    <2>1. /\ calls' = [calls EXCEPT ![c] = NoCall] /\ ~InSession(call)
          /\ storage' = storage /\ page' = page
          /\ overlapped' = overlapped /\ strayed' = strayed
      BY <1>0, <1>8
         DEF SwitchFails, Forget, Awaited, history, RequestOK, InSession, SessionKind
    <2>2. \A d \in Call : calls'[d] = calls[d] \/ (d = c /\ calls'[d] = NoCall)
      BY <2>1 DEF Shape, TypeOK
    <2>. QED BY <1>0, <2>1, <2>2, KeepKeyOwns
  <1>. QED BY <1>3, <1>4, <1>5, <1>6, <1>7, <1>8 DEF AnswerStep

\* What the user does.
LEMMA UserOwns ==
  ASSUME Shape, OneTab, Honest, KeyOwns, NEW t \in Tab, UserStep(t), audit \subseteq audit'
  PROVE  KeyOwns'
  <1>0. /\ ~InSession(NoCall)
        /\ \A u \in Tab : u = t
        /\ \A d \in Call : InSession(calls[d]) => calls[d].tab = t /\ calls[d] # NoCall
    BY NoCallType, SessionTab DEF InSession, SessionKind, OneTab
  <1>1. ASSUME NEW c \in Call, Reload(t, c) PROVE KeyOwns'
    <2>1. /\ Load(t, c, storage') /\ storage' = storage
          /\ overlapped' = overlapped /\ strayed' = strayed
      BY <1>1 DEF Reload, history
    <2>2. ~overlapped' /\ ~strayed' => Owned'
      BY <2>1 DEF KeyOwns, Owned, GrantedTo
    <2>. QED BY <2>1, <2>2, LoadOwns
  <1>2. ASSUME NEW c \in Call, NEW k \in Key, Submit(t, c, k) PROVE KeyOwns'
    <2>. DEFINE new == Request(t, "login", "healthz", NoTenant, storage')
    <2>0. SUFFICES ASSUME ~overlapped', ~strayed' PROVE KeyOwns'
      BY DEF KeyOwns
    <2>1. \A d \in Call : ~InSession(calls[d])
      BY <1>0, <1>2, <2>0 DEF Submit, CallsOf, Free, InSession, SessionKind
    <2>2. ~overlapped /\ ~strayed /\ AtLogin(t)
      BY <1>2, <2>0, <2>1 DEF Submit, AtLogin
    <2>3. storage.active = NoTenant
      BY <2>2 DEF KeyOwns
    <2>4. storage'.active = NoTenant /\ storage'.key = k /\ k # NoKey
      BY <1>2, <2>3, SessionAssumption DEF Submit, Shape, TypeOK
    <2>5. Owned'
      BY <2>4 DEF Owned, GrantedTo
    <2>6. page' = page /\ page[t] = "login"
      BY <1>2 DEF Submit
    <2>7. new.tab = t
      BY DEF Request
    <2>. HIDE DEF new
    <2>8. \A d \in Call : calls'[d] = IF d = c THEN new ELSE calls[d]
      BY <1>2 DEF Submit, Shape, TypeOK, new
    <2>9. \A d \in Call : InSession(calls[d])' => calls'[d].tab = t
      BY <2>1, <2>7, <2>8 DEF InSession
    <2>. QED BY <2>4, <2>5, <2>6, <2>9 DEF KeyOwns
  <1>3. ASSUME NEW c \in Call, Navigate(t, c) PROVE KeyOwns'
    BY <1>3 DEF Navigate, Honest, Entered, history, KeyOwns
  <1>4. ASSUME NEW c \in Call, NEW x \in Tenant, Pick(t, c, x) PROVE KeyOwns'
    <2>. DEFINE new == Request(t, "switch", "switch", x, storage)
    <2>1. ~InSession(new)
      BY DEF Request, InSession, SessionKind
    <2>. HIDE DEF new
    <2>2. /\ calls' = [calls EXCEPT ![c] = new] /\ calls[c] = NoCall
          /\ storage' = storage /\ page' = page
          /\ overlapped' = overlapped /\ strayed' = strayed
      BY <1>4 DEF Pick, history, new, Free
    <2>3. \A d \in Call : calls'[d] = IF d = c THEN new ELSE calls[d]
      BY <2>2 DEF Shape, TypeOK
    <2>. QED BY <1>0, <2>1, <2>2, <2>3, KeepKeyOwns
  <1>5. ASSUME Logout(t) PROVE KeyOwns'
    <2>1. /\ storage' = NoStorage /\ calls' = calls
          /\ overlapped' = overlapped /\ strayed' = strayed
      BY <1>5 DEF Logout, history
    <2>2. storage'.key = NoKey /\ storage'.active = NoTenant
      BY <2>1 DEF NoStorage
    <2>3. Owned'
      BY <2>2 DEF Owned, GrantedTo
    <2>4. \A u \in Tab : page'[u] = "login"
      BY <1>0, <1>5 DEF Logout, Shape, TypeOK
    <2>5. \A d \in Call : InSession(calls[d])' => calls'[d].tab \in Tab
      BY <1>0, <2>1 DEF InSession
    <2>. QED BY <2>2, <2>3, <2>4, <2>5 DEF KeyOwns
  <1>. QED BY <1>1, <1>2, <1>3, <1>4, <1>5 DEF UserStep

\* With one tab no tenant passes from one session to the next, through any reloads, failed
\* logins, lost answers and moved tenants: what localStorage and the pill have was granted to
\* the key in use, unless logins overlapped or a switch outlived its session.  A failed login
\* forgets the key alone, so the induction needs that no tenant is stored while a key is asked
\* for; and that a switch is recorded before it is answered.
THEOREM ActiveNeedsGrant == ASSUME OneTab PROVE Spec => []ActiveWasGranted
  <1>. DEFINE Inv == Honest /\ KeyOwns /\ SwitchesRecorded
  <1>1. Init => Inv
    <2>. SUFFICES ASSUME Init PROVE Inv
      OBVIOUS
    <2>1. \A c \in Call : calls[c] = NoCall
      BY DEF Init
    <2>2. \A t \in Tab : page[t] = "login"
      BY DEF Init
    <2>3. storage.key = NoKey /\ storage.active = NoTenant
      BY DEF Init, NoStorage
    <2>4. \A c \in Call : ~InSession(calls[c]) /\ calls[c].step = "none"
      BY <2>1, NoCallType DEF InSession, SessionKind
    <2>5. Honest
      BY <2>2, <2>4 DEF Honest
    <2>6. KeyOwns
      BY <2>3, <2>4 DEF KeyOwns, Owned, GrantedTo
    <2>7. SwitchesRecorded
      BY <2>4 DEF SwitchesRecorded, Recorded
    <2>. QED BY <2>5, <2>6, <2>7
  <1>2. Shape /\ Shape' /\ Inv /\ [Next]_vars => Inv'
    <2>. SUFFICES ASSUME Shape, Shape', Inv, [Next]_vars PROVE Inv'
      OBVIOUS
    <2>1. audit \subseteq audit'
      BY AuditGrows
    <2>2. KeyOwns'
      <3>1. CASE UNCHANGED vars \/ \E t \in Tenant : Regroup(t)
        <4>1. /\ storage' = storage /\ page' = page /\ calls' = calls
              /\ overlapped' = overlapped /\ strayed' = strayed
          BY <3>1 DEF vars, Regroup, history
        <4>. QED BY <2>1, <4>1, KeepKeyOwns
      <3>. QED BY <2>1, <3>1, ServerOwns, AnswerOwns, UserOwns DEF Next
    <2>3. Honest'
      BY StepHonest
    <2>4. SwitchesRecorded'
      BY StepRecorded
    <2>. QED BY <2>2, <2>3, <2>4
  <1>3. Shape /\ Inv => ActiveWasGranted
    <2>. SUFFICES ASSUME Shape, Inv, ~overlapped, ~strayed,
                         NEW t \in Tab, page[t] = "app"
                  PROVE  store[t].active \in GrantedTo(storage.key)
      BY DEF ActiveWasGranted, KeyOwns, Owned
    <2>1. /\ storage.key \in Key
          /\ store[t].active \in {HomeOf[storage.key], storage.active}
      BY DEF Honest, Entered, Fits
    <2>2. storage.active \in GrantedTo(storage.key)
      BY DEF KeyOwns, Owned
    <2>3. storage.key # NoKey
      BY <2>1, SessionAssumption
    <2>. QED BY <2>1, <2>2, <2>3 DEF GrantedTo
  <1>. QED BY <1>1, <1>2, <1>3, InitShape, StepShape, PTL DEF Spec
===============================================================================
