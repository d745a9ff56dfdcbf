-------------------------- MODULE MCTenantRegistry --------------------------
(***************************************************************************)
(* TenantRegistry with two tenants, for TLC: two roles of the first one    *)
(* and one of the second.                                                  *)
(***************************************************************************)
EXTENDS TenantRegistry, TLC

CONSTANTS w1, w2, root, tom, ann, sA, sB, dA, rA, qA, rB, eA, lap

OneScope   == [a \in Tenants \union Clerks |-> sA]
TwoTenants == [x \in Depts \union Roles \union Emps \union Devs |-> IF x = rB THEN sB ELSE sA]

\* The requests, and the two roles of the first tenant.
Symmetry == Permutations(Workers) \union Permutations({rA, qA})

=============================================================================
