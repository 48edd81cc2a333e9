------------------------------ MODULE MCLogsPage ------------------------------
(* Instances of LogsPage for TLC. *)
EXTENDS LogsPage

CONSTANTS f1, f2

Filters == {f1, f2}
===============================================================================
