--------------------------- MODULE AnnotationStore ---------------------------
(***************************************************************************)
(* What POST /v1/annotations promises its clients, with neither of its two *)
(* statements, the failures of either nor the pruner's schedule: each      *)
(* request is a single step that inserts a row or names the row that holds *)
(* its key, and each is answered once at most.  An answer may be lost      *)
(* after the row has come.  A key is held until its row is older than the  *)
(* retention, and perhaps longer.                                          *)
(***************************************************************************)
EXTENDS Naturals

CONSTANTS Request, TenantOf, KeyOf, NoKey, Retention

VARIABLES
  clock,    \* the day
  rows,     \* the requests that have a row
  created,  \* the day of a row
  holder,   \* the rows that hold the key of a request, at most one
  reply     \* the row a request was answered with, as a set of at most one

SameSlot(q, r) == TenantOf[q] = TenantOf[r] /\ KeyOf[q] = KeyOf[r] /\ KeyOf[r] # NoKey

Init ==
  /\ clock = 0
  /\ rows = {} /\ created = [r \in Request |-> 0]
  /\ holder = [r \in Request |-> {}] /\ reply = [r \in Request |-> {}]

\* The row of r comes, and holds the key of r for all requests that have it.
Create(r) ==
  /\ r \notin rows /\ holder[r] = {} /\ reply[r] = {}
  /\ rows' = rows \cup {r}
  /\ created' = [created EXCEPT ![r] = clock]
  /\ holder' = [q \in Request |-> IF SameSlot(q, r) THEN {r} ELSE holder[q]]
  /\ reply' \in {reply, [reply EXCEPT ![r] = {r}]}
  /\ UNCHANGED clock

Recall(r) ==
  /\ holder[r] # {} /\ reply[r] = {}
  /\ reply' = [reply EXCEPT ![r] = holder[r]]
  /\ UNCHANGED <<clock, rows, created, holder>>

\* Keys are freed whose rows are too old.
Free(old) ==
  /\ \A q \in old : created[q] + Retention < clock
  /\ holder' = [r \in Request |-> holder[r] \ old]
  /\ UNCHANGED <<clock, rows, created, reply>>

PassDay ==
  /\ clock' = clock + 1
  /\ UNCHANGED <<rows, created, holder, reply>>

Next ==
  \/ \E r \in Request : Create(r) \/ Recall(r)
  \/ \E old \in SUBSET rows : Free(old)
  \/ PassDay

Spec == Init /\ [][Next]_<<clock, rows, created, holder, reply>>
==============================================================================
