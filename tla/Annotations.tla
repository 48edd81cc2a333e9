----------------------------- MODULE Annotations -----------------------------
(***************************************************************************)
(* Annotations of the query service: POST /v1/annotations with an optional *)
(* Idempotency-Key (internal/query/annotations_handler.go and _repo.go)    *)
(* and the pruner that frees old keys (annotations_pruner.go).  Insert is  *)
(* two statements: INSERT ... ON CONFLICT DO NOTHING and, on a conflict, a *)
(* SELECT of the row that holds the key; requests and the pruner run       *)
(* between them.                                                           *)
(*                                                                         *)
(* A row is abstracted to the request that inserted it.  The unit of time  *)
(* is the day.                                                             *)
(***************************************************************************)
EXTENDS Naturals

CONSTANTS
  Request,     \* POST requests; retries are requests of their own
  Tenant,
  TenantOf,    \* the effective tenant of a request, from its credentials
  BodyTenant,  \* the tenant_id in its body, or NoTenant
  NoTenant,
  KeyOf,       \* its Idempotency-Key, or NoKey
  NoKey,
  Retention,   \* ANNOTATIONS_IDEMPOTENCY_RETENTION_DAYS
  MaxClock,    \* bound: days
  MaxFault     \* bound: statements that fail

ASSUME AnnotationsAssumption ==
  /\ Retention \in Nat /\ MaxClock \in Nat /\ MaxFault \in Nat
  /\ NoTenant \notin Tenant
  /\ TenantOf \in [Request -> Tenant]
  /\ BodyTenant \in [Request -> Tenant \cup {NoTenant}]

VARIABLES
  clock,     \* the day
  pc,        \* progress of each request
  rows,      \* the table annotations
  keyed,     \* its rows whose idempotency_key is not null
  created,   \* created_at of a row
  conflict,  \* history: the row a request conflicted with
  reply,     \* the annotation_id a request was answered with, as a set of at most one
  due,       \* the pruner's turn has come
  faults

vars == <<clock, pc, rows, keyed, created, conflict, reply, due, faults>>

table == <<rows, keyed, created>>
answers == <<conflict, reply>>

SameKey(q, r) == TenantOf[q] = TenantOf[r] /\ KeyOf[q] = KeyOf[r] /\ KeyOf[r] # NoKey

\* Mutant of Holders: the index without its tenant.
HoldersOfAnyTenant(r) == {q \in keyed : KeyOf[q] = KeyOf[r]}

\* The rows of the partial unique index that have the tenant and the key of r.
Holders(r) == {q \in keyed : SameKey(q, r)}

\* List: a tenant sees its own rows.
Visible(t) == {q \in rows : TenantOf[q] = t}

Init ==
  /\ clock = 0 /\ faults = 0 /\ due = TRUE
  /\ pc = [r \in Request |-> "new"]
  /\ rows = {} /\ keyed = {} /\ created = [r \in Request |-> 0]
  /\ conflict = [r \in Request |-> {}] /\ reply = [r \in Request |-> {}]

-------------------------------------------------------------------------------
\* Create: the body may not name another tenant, and must be well formed.
Refuse(r) ==
  /\ pc[r] = "new"
  /\ pc' = [pc EXCEPT ![r] = IF BodyTenant[r] \notin {NoTenant, TenantOf[r]}
                             THEN "forbidden" ELSE "bad"]
  /\ UNCHANGED <<clock, table, answers, due, faults>>

Accept(r) ==
  /\ pc[r] = "new"
  /\ BodyTenant[r] \in {NoTenant, TenantOf[r]}
  /\ pc' = [pc EXCEPT ![r] = "insert"]
  /\ UNCHANGED <<clock, table, answers, due, faults>>

AddRow(r) ==
  /\ rows' = rows \cup {r}
  /\ keyed' = IF KeyOf[r] = NoKey THEN keyed ELSE keyed \cup {r}
  /\ created' = [created EXCEPT ![r] = clock]

Insert(r) ==
  /\ pc[r] = "insert" /\ Holders(r) = {}
  /\ AddRow(r)
  /\ pc' = [pc EXCEPT ![r] = "created"]
  /\ reply' = [reply EXCEPT ![r] = {r}]
  /\ UNCHANGED <<clock, conflict, due, faults>>

InsertConflicts(r) ==
  /\ pc[r] = "insert" /\ Holders(r) # {}
  /\ pc' = [pc EXCEPT ![r] = "select"]
  /\ conflict' = [conflict EXCEPT ![r] = Holders(r)]
  /\ UNCHANGED <<clock, table, reply, due, faults>>

\* Mutant of SelectExisting: the answer is the row of the conflict, whatever became of it.
SelectRemembered(r) ==
  /\ pc[r] = "select"
  /\ pc' = [pc EXCEPT ![r] = "existing"]
  /\ reply' = [reply EXCEPT ![r] = conflict[r]]
  /\ UNCHANGED <<clock, table, conflict, due, faults>>

SelectExisting(r) ==
  /\ pc[r] = "select" /\ Holders(r) # {}
  /\ pc' = [pc EXCEPT ![r] = "existing"]
  /\ reply' = [reply EXCEPT ![r] = Holders(r)]
  /\ UNCHANGED <<clock, table, conflict, due, faults>>

\* ErrNoRows, answered 500.
SelectFindsNone(r) ==
  /\ pc[r] = "select" /\ Holders(r) = {}
  /\ pc' = [pc EXCEPT ![r] = "norows"]
  /\ UNCHANGED <<clock, table, answers, due, faults>>

\* A statement fails, or its context is cancelled: 500; a failed INSERT may have committed.
StatementFails(r) ==
  /\ faults < MaxFault
  /\ faults' = faults + 1
  /\ pc[r] \in {"insert", "select"}
  /\ pc' = [pc EXCEPT ![r] = "error"]
  /\ \/ UNCHANGED table
     \/ pc[r] = "insert" /\ Holders(r) = {} /\ AddRow(r)
  /\ UNCHANGED <<clock, answers, due>>

RequestStep(r) ==
  \/ Refuse(r) \/ Accept(r)
  \/ Insert(r) \/ InsertConflicts(r) \/ SelectExisting(r) \/ SelectFindsNone(r)
  \/ StatementFails(r)

-------------------------------------------------------------------------------
(* The pruner: once at the start, then whenever its interval has passed. *)

\* Mutant of Expired: a key ends with the last day of its retention.
ExpiredToday(r) == created[r] + Retention <= clock

Expired(r) == created[r] + Retention < clock

\* Mutants of Prune: every key is freed; the fresh keys are freed.
PruneAll ==
  /\ due
  /\ keyed' = {}
  /\ due' = FALSE
  /\ UNCHANGED <<clock, pc, rows, created, answers, faults>>

PruneFresh ==
  /\ due
  /\ keyed' = {r \in keyed : Expired(r)}
  /\ due' = FALSE
  /\ UNCHANGED <<clock, pc, rows, created, answers, faults>>

Prune ==
  /\ due
  /\ keyed' = {r \in keyed : ~Expired(r)}
  /\ due' = FALSE
  /\ UNCHANGED <<clock, pc, rows, created, answers, faults>>

PruneFails ==
  /\ due
  /\ faults < MaxFault
  /\ faults' = faults + 1
  /\ due' = FALSE
  /\ UNCHANGED <<clock, pc, table, answers>>

PruneInterval ==
  /\ ~due
  /\ due' = TRUE
  /\ UNCHANGED <<clock, pc, table, answers, faults>>

PassDay ==
  /\ clock < MaxClock
  /\ clock' = clock + 1
  /\ UNCHANGED <<pc, table, answers, due, faults>>

Next ==
  \/ \E r \in Request : RequestStep(r)
  \/ Prune \/ PruneFails \/ PruneInterval
  \/ PassDay

Spec == Init /\ [][Next]_vars

\* The pruner's goroutine runs and its ticker fires.
FairSpec == Spec /\ WF_vars(Prune \/ PruneFails) /\ WF_vars(PruneInterval)

-------------------------------------------------------------------------------
(* Properties. *)

Answered == {"created", "existing"}

\* Every variable has its type.
TypeOK ==
  /\ clock \in 0..MaxClock /\ faults \in 0..MaxFault /\ due \in BOOLEAN
  /\ pc \in [Request -> {"new", "forbidden", "bad", "insert", "select", "norows", "error"}
                          \cup Answered]
  /\ rows \subseteq Request /\ keyed \subseteq rows
  /\ created \in [Request -> 0..MaxClock]
  /\ conflict \in [Request -> SUBSET Request] /\ reply \in [Request -> SUBSET Request]

\* A key annotates once within the retention window: two rows of one tenant with one key,
\* concurrent or retried, are more than Retention days apart.
OncePerWindow ==
  \A q, r \in rows : q # r /\ SameKey(q, r) =>
    created[q] + Retention < created[r] \/ created[r] + Retention < created[q]

\* An answer names one row, of the tenant and with the key of the request, that the tenant
\* can list: never the row another tenant inserted under the same key.
AnswersOwnRow ==
  \A r \in Request : pc[r] \in Answered =>
    \E q \in Visible(TenantOf[r]) : reply[r] = {q} /\ (q = r \/ SameKey(q, r))

\* A conflict finds no row only if the row it met has been pruned, after its retention.
NoRowsOnlyAfterPrune ==
  \A r \in Request : pc[r] = "norows" =>
    \A q \in conflict[r] : q \in rows \ keyed /\ Expired(q)

\* What two statements with a pruner between them do is what a store of single steps does: no
\* failure, retry or prune makes a request insert twice, be answered with a row that did not
\* hold its key then, or free a key before its time.
Store == INSTANCE AnnotationStore WITH holder <- [r \in Request |-> Holders(r)]
ImplementsStore == Store!Spec

\* The index is bounded: a key does not outlive its retention for ever, even if prunes fail.
ExpiredKeysFreed ==
  \A r \in Request : (r \in keyed /\ Expired(r)) ~> (r \notin keyed)
===============================================================================
