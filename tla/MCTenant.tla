----------------------------- MODULE MCTenant ------------------------------
(***************************************************************************)
(* One call of Tenant.Create with the longest name, and nothing else.      *)
(***************************************************************************)
EXTENDS Tenant

CONSTANT long

LongestName == {[base |-> long, length |-> 63]}
Nothing == {{}}

=============================================================================
