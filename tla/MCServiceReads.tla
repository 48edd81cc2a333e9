---------------------------- MODULE MCServiceReads ----------------------------
(* Instances of ServiceReads for TLC. *)
EXTENDS ServiceReads

Two == {1, 2}
===============================================================================
