------------------------------ MODULE TopoLedger ------------------------------
(***************************************************************************)
(* What the topology engine promises to the query service, with none of    *)
(* its machinery: spans are stored, time passes, and a pass over a tenant  *)
(* may publish the rows of a bucket at any moment after it closed.  Rows   *)
(* that are published count no span of another tenant or bucket and miss   *)
(* no settled span.  The ledger does not promise that a bucket is ever     *)
(* published, nor that it is published once.                               *)
(***************************************************************************)
EXTENDS TopoTables

Init == clock \in Minute /\ EmptyTables

StoreSpan == \E s \in Span, t \in Tenant, b \in Minute : Store(s, t, b)

PassMinute ==
  /\ clock < MaxClock
  /\ clock' = clock + 1
  /\ UNCHANGED tables

\* new is what the pass returned: all of it is in the table afterwards.
PublishClosed(p, t, b, new) ==
  /\ b < clock /\ new \subseteq Entry
  /\ SettledSummary(p, t, b) \subseteq new
  /\ {e.span : e \in new} \subseteq traces[t][b]
  /\ \A e, f \in new : e.span = f.span => e = f
  /\ Publish(p, t, b, new)

Next ==
  \/ StoreSpan
  \/ PassMinute
  \/ \E p \in Pass, t \in Tenant, b \in Minute :
       \E new \in SUBSET rows'[p][t][b] : PublishClosed(p, t, b, new)

Spec == Init /\ [][Next]_<<clock, tables>>
===============================================================================
