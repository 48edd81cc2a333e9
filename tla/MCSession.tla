------------------------------ MODULE MCSession ------------------------------
(* Instances of Session for TLC: a and b are in the domain shop, u is in none. *)
EXTENDS Session, TLC

CONSTANTS a, b, u, shop, ka, ku, rw, ai, bad

Grouping == [t \in Tenant |-> IF t = u THEN NoDomain ELSE shop]

\* The tenants of the keys, b has none; bad is not a key of the database.
Homes ==
  [k \in Key |-> CASE k \in {ka, ai, rw} -> a [] k = ku -> u [] OTHER -> NoTenant]

Scopes ==
  [k \in Key |-> CASE k = rw -> "read-write" [] k = ai -> "service:ai" [] OTHER -> "domain"]

CallSymmetry == Permutations(Call)
=============================================================================
