---------------------------- MODULE SchemaLedger ----------------------------
(***************************************************************************)
(* What the migrations of ClickHouse promise (docs/decisions/0002): a      *)
(* version is recorded in _schema_migrations only once all of it has been  *)
(* applied, both for good, until the volume is removed with all it holds.  *)
(***************************************************************************)
CONSTANT Version

VARIABLES
  applied,  \* versions all of whose statements have been executed
  recorded  \* versions _schema_migrations has

Init == applied = {} /\ recorded = {}

Apply(v) ==
  /\ v \notin applied
  /\ applied' = applied \cup {v}
  /\ UNCHANGED recorded

Record(v) ==
  /\ v \in applied \ recorded
  /\ recorded' = recorded \cup {v}
  /\ UNCHANGED applied

Wipe == applied' = {} /\ recorded' = {}

Next == Wipe \/ \E v \in Version : Apply(v) \/ Record(v)

Spec == Init /\ [][Next]_<<applied, recorded>>
=============================================================================
