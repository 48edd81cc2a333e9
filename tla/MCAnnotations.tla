---------------------------- MODULE MCAnnotations ----------------------------
(* Instances of Annotations for TLC: r1, r2 and r3 are one tenant's tries with one key; o1 is *)
(* another tenant's request with that key; n1 has no key and names another tenant.           *)
EXTENDS Annotations

CONSTANTS r1, r2, r3, o1, n1, acme, beta, k

Owners == [r \in Request |-> IF r = o1 THEN beta ELSE acme]
Keys == [r \in Request |-> IF r = n1 THEN NoKey ELSE k]
Bodies == [r \in Request |-> IF r = n1 THEN beta ELSE IF r = r1 THEN acme ELSE NoTenant]
==============================================================================
