----------------------------- MODULE MCAuditChain -----------------------------
(* AuditChain on small instances. *)
EXTENDS AuditChain

\* Not positive, below a page of two, and above it.
MCLimits == {-1, 1, 3}

\* Calls that are not an admin's differ in nothing but their names.
Symmetry == Permutations(Calls \ Admins)
===============================================================================
