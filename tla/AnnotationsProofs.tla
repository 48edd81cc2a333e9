--------------------------- MODULE AnnotationsProofs ---------------------------
(***************************************************************************)
(* Proofs about Annotations, for any requests, tenants, keys and retention.*)
(* The argument: a row that has lost its key is expired, and a row that    *)
(* has its key makes the INSERT of that key conflict; so the row a request *)
(* inserts meets, under its key, only rows older than the retention.       *)
(***************************************************************************)
EXTENDS Annotations, TLAPS

\* Only the request itself inserts its row, and no later than now.
RowsInserted ==
  \A r \in rows : pc[r] \in {"created", "error"} /\ created[r] <= clock

\* The index has rows with a key only, one of each key, and misses expired rows only.
IndexUnique ==
  /\ \A r \in keyed : KeyOf[r] # NoKey
  /\ \A q, r \in keyed : SameKey(q, r) => q = r
  /\ \A r \in rows \ keyed : KeyOf[r] # NoKey => Expired(r)

\* A request met rows of its own tenant and key.
ConflictsMet ==
  \A r \in Request : pc[r] \in {"select", "norows"} =>
    \A q \in conflict[r] : q \in rows /\ SameKey(q, r)

Table == RowsInserted /\ IndexUnique /\ OncePerWindow
Requests == ConflictsMet /\ AnswersOwnRow /\ NoRowsOnlyAfterPrune

\* The initial state is well typed and has no row, no answer and no conflict.
LEMMA InitOK == Init => TypeOK /\ Table /\ Requests
BY AnnotationsAssumption
   DEF Init, TypeOK, Table, Requests, RowsInserted, IndexUnique, OncePerWindow,
       ConflictsMet, AnswersOwnRow, NoRowsOnlyAfterPrune, Answered

\* Every step keeps the types.
LEMMA NextTypes == TypeOK /\ [Next]_vars => TypeOK'
<1> SUFFICES ASSUME TypeOK, [Next]_vars PROVE TypeOK'
    OBVIOUS
<1> USE AnnotationsAssumption DEF TypeOK, table, answers, Answered
<1>1. ASSUME NEW r \in Request, RequestStep(r) PROVE TypeOK'
  <2>1. CASE Refuse(r)
    BY <2>1 DEF Refuse
  <2>2. CASE Accept(r)
    BY <2>2 DEF Accept
  <2>3. CASE Insert(r)
    BY <2>3 DEF Insert, AddRow
  <2>4. CASE InsertConflicts(r)
    BY <2>4 DEF InsertConflicts, Holders
  <2>5. CASE SelectExisting(r)
    BY <2>5 DEF SelectExisting, Holders
  <2>6. CASE SelectFindsNone(r)
    BY <2>6 DEF SelectFindsNone
  <2>7. CASE StatementFails(r)
    BY <2>7 DEF StatementFails, AddRow
  <2> QED BY <1>1, <2>1, <2>2, <2>3, <2>4, <2>5, <2>6, <2>7 DEF RequestStep
<1>2. CASE Prune
  BY <1>2 DEF Prune
<1>3. CASE PruneFails
  <2>1. faults' \in 0..MaxFault
    BY <1>3 DEF PruneFails
  <2>2. due' \in BOOLEAN /\ UNCHANGED <<clock, pc, rows, keyed, created, conflict, reply>>
    BY <1>3 DEF PruneFails
  <2> QED BY <2>1, <2>2
<1>4. CASE PruneInterval \/ PassDay
  <2>1. clock' \in 0..MaxClock
    BY <1>4 DEF PruneInterval, PassDay
  <2>2. due' \in BOOLEAN /\ UNCHANGED <<faults, pc, rows, keyed, created, conflict, reply>>
    BY <1>4 DEF PruneInterval, PassDay
  <2> QED BY <2>1, <2>2
<1>5. CASE UNCHANGED vars
  BY <1>5 DEF vars
<1> QED BY <1>1, <1>2, <1>3, <1>4, <1>5 DEF Next

\* A request that inserts its row, when no row of the index has its key, keeps the table's
\* invariant: whatever rows have the key are expired.
LEMMA AddRowTable ==
  ASSUME TypeOK, Table, NEW r \in Request, r \notin rows, Holders(r) = {}, AddRow(r),
         clock' = clock, pc' \in [Request -> {"created", "error"} \cup {pc[q] : q \in Request}],
         pc'[r] \in {"created", "error"}, \A q \in Request \ {r} : pc'[q] = pc[q]
  PROVE  Table'
<1> USE DEF TypeOK, Table
<1>1. \A q \in rows : q \in Request /\ q # r /\ created'[q] = created[q]
  BY DEF AddRow
<1>2. created'[r] = clock /\ clock \in Nat
  BY AnnotationsAssumption DEF AddRow
<1>3. RowsInserted'
  BY <1>1, <1>2 DEF RowsInserted, AddRow
<1>4. IndexUnique'
  BY <1>1 DEF IndexUnique, AddRow, Holders, SameKey, Expired
<1>5. \A q \in rows : SameKey(q, r) \/ SameKey(r, q) => created[q] + Retention < clock
  BY DEF IndexUnique, Holders, SameKey, Expired
<1>6. OncePerWindow'
  <2> SUFFICES ASSUME NEW p \in rows', NEW q \in rows', p # q, SameKey(p, q)
               PROVE  \/ created'[p] + Retention < created'[q]
                      \/ created'[q] + Retention < created'[p]
      BY DEF OncePerWindow, SameKey
  <2>1. CASE p = r
    BY <2>1, <1>1, <1>2, <1>5 DEF AddRow
  <2>2. CASE q = r
    BY <2>2, <1>1, <1>2, <1>5 DEF AddRow
  <2>3. CASE p # r /\ q # r
    BY <2>3, <1>1 DEF AddRow, OncePerWindow
  <2> QED BY <2>1, <2>2, <2>3
<1> QED BY <1>3, <1>4, <1>6

\* Every step keeps the table's invariant.
LEMMA NextTable == TypeOK /\ Table /\ [Next]_vars => Table'
<1> SUFFICES ASSUME TypeOK, Table, [Next]_vars PROVE Table'
    OBVIOUS
<1> USE AnnotationsAssumption DEF TypeOK
<1>1. ASSUME UNCHANGED <<table, clock>>, \A r \in rows : pc'[r] = pc[r] PROVE Table'
  BY <1>1 DEF Table, RowsInserted, IndexUnique, OncePerWindow, SameKey, Expired, table
<1>2. ASSUME NEW r \in Request, RequestStep(r) PROVE Table'
  <2>1. pc[r] \in {"new", "insert", "select"}
    BY <1>2 DEF RequestStep, Refuse, Accept, Insert, InsertConflicts, SelectExisting,
                SelectFindsNone, StatementFails
  <2>2. r \notin rows
    BY <2>1 DEF Table, RowsInserted
  <2>3. clock' = clock /\ \A q \in Request \ {r} : pc'[q] = pc[q]
    BY <1>2 DEF RequestStep, Refuse, Accept, Insert, InsertConflicts, SelectExisting,
                SelectFindsNone, StatementFails
  <2>4. CASE UNCHANGED table
    BY <1>1, <2>2, <2>3, <2>4
  <2>5. CASE Holders(r) = {} /\ AddRow(r) /\ pc' = [pc EXCEPT ![r] = "created"]
    BY <2>2, <2>3, <2>5, AddRowTable
  <2>6. CASE Holders(r) = {} /\ AddRow(r) /\ pc' = [pc EXCEPT ![r] = "error"]
    BY <2>2, <2>3, <2>6, AddRowTable
  <2> QED BY <1>2, <2>4, <2>5, <2>6
          DEF RequestStep, Refuse, Accept, Insert, InsertConflicts, SelectExisting,
              SelectFindsNone, StatementFails
<1>3. CASE Prune
  BY <1>3 DEF Prune, Table, RowsInserted, IndexUnique, OncePerWindow, SameKey, Expired
<1>4. CASE PruneFails \/ PruneInterval
  BY <1>1, <1>4 DEF PruneFails, PruneInterval
<1>5. CASE PassDay
  <2> USE <1>5 DEF PassDay, table, Table
  <2>1. RowsInserted'
    BY DEF RowsInserted
  <2>2. IndexUnique'
    BY DEF IndexUnique, SameKey, Expired
  <2>3. OncePerWindow'
    BY DEF OncePerWindow, SameKey
  <2> QED BY <2>1, <2>2, <2>3
<1>6. CASE UNCHANGED vars
  BY <1>1, <1>6 DEF vars, table
<1> QED BY <1>2, <1>3, <1>4, <1>5, <1>6 DEF Next

\* No step takes a row away or changes when it was created, and what has expired stays so.
LEMMA RowsStay ==
  ASSUME TypeOK, Table, [Next]_vars
  PROVE  \A q \in rows : /\ q \in rows' /\ (q \notin keyed => q \notin keyed')
                         /\ Expired(q) => Expired(q)'
<1> USE AnnotationsAssumption DEF TypeOK, Table, RowsInserted, Expired, table
<1>1. ASSUME NEW r \in Request, RequestStep(r)
      PROVE  \A q \in rows : /\ q \in rows' /\ (q \notin keyed => q \notin keyed')
                             /\ Expired(q) => Expired(q)'
  BY <1>1 DEF RequestStep, Refuse, Accept, Insert, InsertConflicts, SelectExisting,
              SelectFindsNone, StatementFails, AddRow
<1>2. CASE Prune \/ PruneFails \/ PruneInterval \/ PassDay \/ UNCHANGED vars
  BY <1>2 DEF Prune, PruneFails, PruneInterval, PassDay, vars
<1> QED BY <1>1, <1>2 DEF Next

\* Every step keeps what is known of the requests.
LEMMA NextRequests == TypeOK /\ Table /\ Requests /\ [Next]_vars => Requests'
<1> SUFFICES ASSUME TypeOK, Table, Requests, [Next]_vars PROVE Requests'
    OBVIOUS
<1> USE DEF TypeOK
<1> DEFINE Fine(r) ==
      /\ pc[r] \in {"select", "norows"} => \A q \in conflict[r] : q \in rows /\ SameKey(q, r)
      /\ pc[r] \in Answered =>
           \E q \in Visible(TenantOf[r]) : reply[r] = {q} /\ (q = r \/ SameKey(q, r))
      /\ pc[r] = "norows" => \A q \in conflict[r] : q \in rows \ keyed /\ Expired(q)
<1>1. \A r \in Request : Fine(r)
  BY DEF Requests, ConflictsMet, AnswersOwnRow, NoRowsOnlyAfterPrune
<1>2. ASSUME NEW r \in Request, pc'[r] = pc[r], conflict'[r] = conflict[r],
             reply'[r] = reply[r]
      PROVE  Fine(r)'
  BY <1>1, <1>2, RowsStay DEF SameKey, Visible
<1>3. ASSUME NEW r \in Request, RequestStep(r) PROVE Fine(r)'
  <2>1. CASE Refuse(r) \/ Accept(r)
    BY <2>1 DEF Refuse, Accept, Answered
  <2>2. CASE Insert(r)
    BY <2>2 DEF Insert, AddRow, Visible, Answered
  <2>3. CASE InsertConflicts(r)
    BY <2>3 DEF InsertConflicts, Holders, SameKey, table, Answered
  <2>4. CASE SelectExisting(r)
    <3>1. PICK q \in keyed : SameKey(q, r)
      BY <2>4 DEF SelectExisting, Holders
    <3>2. Holders(r) = {q}
      BY <3>1 DEF Holders, SameKey, Table, IndexUnique
    <3>3. pc'[r] = "existing" /\ reply'[r] = {q} /\ rows' = rows
      BY <2>4, <3>2 DEF SelectExisting, table
    <3> QED BY <3>1, <3>3 DEF Visible, SameKey, Answered
  <2>5. CASE SelectFindsNone(r)
    <3>1. \A q \in conflict[r] : q \in rows /\ SameKey(q, r) /\ q \notin keyed
      BY <1>1, <2>5 DEF SelectFindsNone, Holders
    <3>2. \A q \in conflict[r] : Expired(q)
      BY <3>1 DEF Table, IndexUnique, SameKey
    <3>3. pc'[r] = "norows" /\ UNCHANGED <<clock, table, conflict>>
      BY <2>5 DEF SelectFindsNone, answers
    <3> QED BY <3>1, <3>2, <3>3 DEF SameKey, Expired, table, Answered
  <2>6. CASE StatementFails(r)
    BY <2>6 DEF StatementFails, Answered
  <2> QED BY <1>3, <2>1, <2>2, <2>3, <2>4, <2>5, <2>6 DEF RequestStep
<1>4. \A r \in Request : Fine(r)'
  <2>1. ASSUME NEW s \in Request, RequestStep(s), NEW r \in Request \ {s} PROVE Fine(r)'
    <3>1. pc'[r] = pc[r] /\ conflict'[r] = conflict[r] /\ reply'[r] = reply[r]
      BY <2>1 DEF RequestStep, Refuse, Accept, Insert, InsertConflicts, SelectExisting,
                  SelectFindsNone, StatementFails, answers
    <3> QED BY <3>1, <1>2, <2>1
  <2>2. CASE Prune \/ PruneFails \/ PruneInterval \/ PassDay \/ UNCHANGED vars
    <3>1. UNCHANGED <<pc, conflict, reply>>
      BY <2>2 DEF Prune, PruneFails, PruneInterval, PassDay, vars, answers
    <3> QED BY <3>1, <1>2
  <2> QED BY <1>3, <2>1, <2>2 DEF Next
<1> QED BY <1>4 DEF Requests, ConflictsMet, AnswersOwnRow, NoRowsOnlyAfterPrune

\* The inductive invariant of the annotations.
LEMMA Invariance == Spec => [](TypeOK /\ Table /\ Requests)
BY InitOK, NextTypes, NextTable, NextRequests, PTL DEF Spec

\* The variables keep their types in every behaviour of the handler and the pruner.
THEOREM TypeCorrect == Spec => []TypeOK
BY Invariance, PTL

\* Idempotency: a tenant's key never has two rows within one retention window, however
\* requests, retries and prunes interleave.
THEOREM KeyAnnotatesOnce == Spec => []OncePerWindow
BY Invariance, PTL DEF Table

\* Isolation of the idempotency keys: an answer names a row of the caller's own tenant.
THEOREM AnswersAreOwn == Spec => []AnswersOwnRow
BY Invariance, PTL DEF Requests

\* The 500 of the conflicting INSERT whose SELECT finds nothing needs a prune in between.
THEOREM NoRowsMeansPruned == Spec => []NoRowsOnlyAfterPrune
BY Invariance, PTL DEF Requests

-------------------------------------------------------------------------------
(* The refinement: a request's row comes with its INSERT, and its answer is that of the      *)
(* INSERT or of the SELECT; all other steps of requests are none of the store's.             *)

\* Only requests that have ended well have been answered.
AnsweredAtEnd == \A r \in Request : reply[r] # {} => pc[r] \in Answered

LEMMA InitAnswered == Init => AnsweredAtEnd
BY DEF Init, AnsweredAtEnd

LEMMA NextAnswered == TypeOK /\ AnsweredAtEnd /\ [Next]_vars => AnsweredAtEnd'
<1> SUFFICES ASSUME TypeOK, AnsweredAtEnd, [Next]_vars PROVE AnsweredAtEnd'
    OBVIOUS
<1> USE DEF TypeOK, AnsweredAtEnd, Answered, answers
<1>1. ASSUME NEW r \in Request, RequestStep(r) PROVE AnsweredAtEnd'
  BY <1>1 DEF RequestStep, Refuse, Accept, Insert, InsertConflicts, SelectExisting,
              SelectFindsNone, StatementFails
<1>2. CASE Prune \/ PruneFails \/ PruneInterval \/ PassDay \/ UNCHANGED vars
  BY <1>2 DEF Prune, PruneFails, PruneInterval, PassDay, vars
<1> QED BY <1>1, <1>2 DEF Next

LEMMA AnsweredInvariance == Spec => []AnsweredAtEnd
<1>1. Spec => []TypeOK
  BY TypeCorrect
<1> QED BY <1>1, InitAnswered, NextAnswered, PTL DEF Spec

LEMMA SlotIsKey == \A q, r \in Request : Store!SameSlot(q, r) <=> SameKey(q, r)
BY DEF Store!SameSlot, SameKey

\* A row that comes takes its key for all requests that have it, and no other.
LEMMA RowTakesKey ==
  ASSUME TypeOK, NEW r \in Request, Holders(r) = {}, AddRow(r)
  PROVE  \A q \in Request : Holders(q)' = IF SameKey(q, r) THEN {r} ELSE Holders(q)
<1> TAKE q \in Request
<1>1. CASE SameKey(q, r)
  <2>1. KeyOf[r] # NoKey /\ keyed' = keyed \cup {r} /\ SameKey(r, q)
    BY <1>1 DEF SameKey, AddRow
  <2>2. \A p \in keyed : SameKey(p, q) => p \in Holders(r)
    BY <1>1 DEF SameKey, Holders
  <2> QED BY <1>1, <2>1, <2>2 DEF Holders, SameKey
<1>2. CASE ~SameKey(q, r)
  <2>1. KeyOf[r] # NoKey => ~SameKey(r, q)
    BY <1>2 DEF SameKey
  <2>2. Holders(q)' = {p \in keyed' : SameKey(p, q)}
    BY DEF Holders, SameKey
  <2>3. CASE KeyOf[r] = NoKey
    BY <1>2, <2>2, <2>3 DEF Holders, AddRow
  <2>4. CASE KeyOf[r] # NoKey
    BY <1>2, <2>1, <2>2, <2>4 DEF Holders, AddRow
  <2> QED BY <2>3, <2>4
<1> QED BY <1>1, <1>2

\* An INSERT that commits, answered or not, is the store's Create.
LEMMA AddRowCreates ==
  ASSUME TypeOK, Table, AnsweredAtEnd, NEW r \in Request, pc[r] = "insert",
         Holders(r) = {}, AddRow(r), clock' = clock,
         reply' = reply \/ reply' = [reply EXCEPT ![r] = {r}]
  PROVE  Store!Create(r)
<1>1. r \notin rows /\ reply[r] = {}
  BY DEF Table, RowsInserted, AnsweredAtEnd, Answered
<1>2. [q \in Request |-> Holders(q)]' =
        [q \in Request |-> IF Store!SameSlot(q, r) THEN {r} ELSE [p \in Request |-> Holders(p)][q]]
  BY RowTakesKey, SlotIsKey
<1> QED BY <1>1, <1>2 DEF AddRow, Store!Create

\* A step that leaves the table, the answers and the clock as they are is none of the store's.
LEMMA Stutters ==
  ASSUME UNCHANGED <<clock, rows, keyed, created, reply>>
  PROVE  UNCHANGED <<clock, rows, created, [r \in Request |-> Holders(r)], reply>>
BY DEF Holders, SameKey

LEMMA NextImplements ==
  ASSUME TypeOK, Table, AnsweredAtEnd, [Next]_vars
  PROVE  [Store!Next]_<<clock, rows, created, [r \in Request |-> Holders(r)], reply>>
<1> DEFINE none == UNCHANGED <<clock, rows, keyed, created, reply>>
<1>1. ASSUME NEW r \in Request, RequestStep(r)
      PROVE  none \/ Store!Create(r) \/ Store!Recall(r)
  <2>1. CASE Refuse(r) \/ Accept(r) \/ InsertConflicts(r) \/ SelectFindsNone(r)
    BY <2>1 DEF Refuse, Accept, InsertConflicts, SelectFindsNone, table, answers
  <2>2. CASE Insert(r)
    BY <2>2, AddRowCreates DEF Insert
  <2>3. CASE SelectExisting(r)
    <3>1. reply[r] = {}
      BY <2>3 DEF SelectExisting, AnsweredAtEnd, Answered
    <3>2. [q \in Request |-> Holders(q)]' = [q \in Request |-> Holders(q)]
      BY <2>3, Stutters DEF SelectExisting, table, Holders, SameKey
    <3> QED BY <2>3, <3>1, <3>2 DEF SelectExisting, table, Store!Recall
  <2>4. CASE StatementFails(r)
    <3>1. CASE UNCHANGED table
      BY <2>4, <3>1 DEF StatementFails, table, answers
    <3>2. CASE pc[r] = "insert" /\ Holders(r) = {} /\ AddRow(r)
      BY <2>4, <3>2, AddRowCreates DEF StatementFails, answers
    <3> QED BY <2>4, <3>1, <3>2 DEF StatementFails
  <2> QED BY <1>1, <2>1, <2>2, <2>3, <2>4 DEF RequestStep
<1>2. CASE Prune
  <2> DEFINE old == {q \in keyed : Expired(q)}
  <2>1. keyed' = keyed \ old /\ UNCHANGED <<clock, rows, created, reply>>
    BY <1>2 DEF Prune, answers
  <2>2. old \in SUBSET rows /\ \A q \in old : created[q] + Retention < clock
    BY DEF TypeOK, Expired
  <2>3. \A r \in Request : Holders(r)' = Holders(r) \ old
    <3>1. \A r \in Request : Holders(r)' = {q \in keyed' : SameKey(q, r)}
      BY DEF Holders, SameKey
    <3> HIDE DEF old
    <3> QED BY <2>1, <3>1 DEF Holders
  <2> HIDE DEF old
  <2>4. [r \in Request |-> Holders(r)]' =
          [r \in Request |-> [q \in Request |-> Holders(q)][r] \ old]
    BY <2>3
  <2>5. Store!Free(old)
    BY <2>1, <2>2, <2>4 DEF Store!Free
  <2> QED BY <2>2, <2>5 DEF Store!Next
<1>3. CASE PruneFails \/ PruneInterval \/ UNCHANGED vars
  BY <1>3, Stutters DEF PruneFails, PruneInterval, vars, table, answers
<1>4. CASE PassDay
  <2>1. [r \in Request |-> Holders(r)]' = [r \in Request |-> Holders(r)]
    BY <1>4 DEF PassDay, table, Holders, SameKey
  <2> QED BY <1>4, <2>1 DEF PassDay, table, answers, Store!PassDay, Store!Next
<1> QED BY <1>1, <1>2, <1>3, <1>4, Stutters DEF Next, Store!Next

\* The handler's two statements and the pruner implement the store of single steps.
THEOREM AnnotationsImplementStore == Spec => ImplementsStore
<1>1. Init => Store!Init
  BY DEF Init, Store!Init, Holders
<1>2. Spec => [](TypeOK /\ Table /\ AnsweredAtEnd)
  BY Invariance, AnsweredInvariance, PTL
<1> QED BY <1>1, <1>2, NextImplements, PTL DEF Spec, ImplementsStore, Store!Spec

-------------------------------------------------------------------------------
(* What a client may rely on is a consequence of the store alone.                             *)

\* A row holds its key for every request that has it until it is older than the retention.
StoreInv ==
  /\ clock \in Nat /\ rows \subseteq Request /\ created \in [Request -> Nat]
  /\ \A q \in rows : created[q] <= clock
  /\ \A q \in rows, r \in Request :
       SameKey(q, r) => q \in Holders(r) \/ created[q] + Retention < clock
  /\ OncePerWindow

LEMMA StoreNext ==
  ASSUME StoreInv, [Store!Next]_<<clock, rows, created, [r \in Request |-> Holders(r)], reply>>
  PROVE  StoreInv'
<1> USE AnnotationsAssumption
<1>1. ASSUME NEW r \in Request, Store!Create(r) PROVE StoreInv'
  <2>1. /\ r \notin rows /\ Holders(r) = {} /\ rows' = rows \cup {r} /\ clock' = clock
        /\ created' = [created EXCEPT ![r] = clock]
        /\ [q \in Request |-> Holders(q)]' =
             [q \in Request |-> IF Store!SameSlot(q, r) THEN {r}
                               ELSE [p \in Request |-> Holders(p)][q]]
    BY <1>1 DEF Store!Create
  <2>2. \A q \in Request : Holders(q)' = IF SameKey(q, r) THEN {r} ELSE Holders(q)
    <3>1. \A q \in Request : [x \in Request |-> Holders(x)]'[q] = Holders(q)'
      OBVIOUS
    <3> QED BY <2>1, <3>1, SlotIsKey
  <2>3. \A q \in rows : q # r /\ created'[q] = created[q] /\ q \in Request
    BY <2>1 DEF StoreInv
  <2>4. created'[r] = clock /\ created' \in [Request -> Nat]
    BY <2>1 DEF StoreInv
  <2>5. \A q \in rows : SameKey(q, r) => created[q] + Retention < clock
    BY <2>1 DEF StoreInv
  <2>6. ASSUME NEW q \in rows', NEW x \in Request, SameKey(q, x)
        PROVE  q \in Holders(x)' \/ created'[q] + Retention < clock
    <3>1. CASE q = r
      <4>1. SameKey(x, r)
        BY <2>6, <3>1 DEF SameKey
      <4> QED BY <2>2, <3>1, <4>1
    <3>2. CASE q \in rows /\ SameKey(x, r)
      <4>1. SameKey(q, r)
        BY <2>6, <3>2 DEF SameKey
      <4> QED BY <2>3, <2>5, <3>2, <4>1
    <3>3. CASE q \in rows /\ ~SameKey(x, r)
      BY <2>2, <2>3, <2>6, <3>3 DEF StoreInv
    <3> QED BY <2>1, <2>6, <3>1, <3>2, <3>3
  <2>7. OncePerWindow'
    <3> SUFFICES ASSUME NEW p \in rows', NEW q \in rows', p # q, SameKey(p, q)
                 PROVE  \/ created'[p] + Retention < created'[q]
                        \/ created'[q] + Retention < created'[p]
      BY DEF OncePerWindow, SameKey
    <3>1. CASE p \in rows /\ q \in rows
      BY <2>3, <3>1 DEF StoreInv, OncePerWindow
    <3>2. CASE p \in rows /\ q = r
      BY <2>3, <2>4, <2>5, <3>2
    <3>3. CASE p = r /\ q \in rows
      <4>1. SameKey(q, r)
        BY <3>3 DEF SameKey
      <4> QED BY <2>3, <2>4, <2>5, <3>3, <4>1
    <3> QED BY <2>1, <3>1, <3>2, <3>3
  <2>8. \A q \in rows' : created'[q] <= clock
    BY <2>1, <2>3, <2>4 DEF StoreInv
  <2>9. \A q \in rows', x \in Request :
          SameKey(q, x)' => q \in Holders(x)' \/ created'[q] + Retention < clock'
    BY <2>1, <2>6 DEF SameKey
  <2> QED BY <2>1, <2>4, <2>7, <2>8, <2>9 DEF StoreInv
<1>2. ASSUME NEW old \in SUBSET rows, Store!Free(old) PROVE StoreInv'
  <2>1. /\ \A q \in old : created[q] + Retention < clock
        /\ UNCHANGED <<clock, rows, created>>
        /\ [r \in Request |-> Holders(r)]' =
             [r \in Request |-> [q \in Request |-> Holders(q)][r] \ old]
    BY <1>2 DEF Store!Free
  <2>2. \A q \in Request : Holders(q)' = Holders(q) \ old
    <3>1. \A q \in Request : [x \in Request |-> Holders(x)]'[q] = Holders(q)'
      OBVIOUS
    <3> QED BY <2>1, <3>1
  <2>3. \A q \in rows', x \in Request :
          SameKey(q, x)' => q \in Holders(x)' \/ created'[q] + Retention < clock'
    BY <2>1, <2>2 DEF StoreInv, SameKey
  <2> QED BY <2>1, <2>3 DEF StoreInv, OncePerWindow, SameKey
<1>3. CASE \/ Store!PassDay \/ \E r \in Request : Store!Recall(r)
           \/ UNCHANGED <<clock, rows, created, [r \in Request |-> Holders(r)], reply>>
  <2>1. /\ UNCHANGED <<rows, created, [r \in Request |-> Holders(r)]>>
        /\ clock' = clock \/ clock' = clock + 1
    BY <1>3 DEF Store!PassDay, Store!Recall
  <2>2. \A q \in Request : Holders(q)' = Holders(q)
    <3>1. \A q \in Request : /\ [x \in Request |-> Holders(x)]'[q] = Holders(q)'
                             /\ [x \in Request |-> Holders(x)][q] = Holders(q)
      OBVIOUS
    <3> QED BY <2>1, <3>1
  <2>3. clock' \in Nat /\ clock <= clock'
    BY <2>1 DEF StoreInv
  <2>4. \A q \in rows : created[q] \in Nat /\ created'[q] = created[q]
    BY <2>1 DEF StoreInv
  <2>5. \A q \in rows', x \in Request :
          SameKey(q, x)' => q \in Holders(x)' \/ created'[q] + Retention < clock'
    BY <2>1, <2>2, <2>3, <2>4 DEF StoreInv, SameKey
  <2>6. \A q \in rows' : created'[q] <= clock'
    BY <2>1, <2>3, <2>4 DEF StoreInv
  <2> QED BY <2>1, <2>3, <2>5, <2>6 DEF StoreInv, OncePerWindow, SameKey
<1> QED BY <1>1, <1>2, <1>3 DEF Store!Next

\* A store that promises no more than AnnotationStore gives no key two rows within its
\* retention: the idempotency of the endpoint needs nothing else of its implementation.
THEOREM StoreAnnotatesOnce == Store!Spec => []OncePerWindow
<1>1. Store!Init => StoreInv
  BY DEF Store!Init, StoreInv, OncePerWindow
<1>2. StoreInv => OncePerWindow
  BY DEF StoreInv
<1> QED BY <1>1, <1>2, StoreNext, PTL DEF Store!Spec
===============================================================================
