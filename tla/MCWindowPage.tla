----------------------------- MODULE MCWindowPage -----------------------------
(* Instances of WindowPage for TLC. *)
EXTENDS WindowPage

Windows == {"15m", "1h", "6h"}
===============================================================================
