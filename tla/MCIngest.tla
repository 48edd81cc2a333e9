------------------------------- MODULE MCIngest -------------------------------
(* Instances of Ingest for TLC: h1 is an HTTP call, the others are gRPC calls. *)
EXTENDS Ingest

CONSTANTS h1, g1, g2, g3
===============================================================================
