----------------------------- MODULE MCApprovals -----------------------------
(***************************************************************************)
(* Instances of Approvals for TLC: two requests of one tenant, and one of  *)
(* another.                                                                *)
(***************************************************************************)
EXTENDS Approvals, TLC

CONSTANTS r1, r2, r3, t1, t2

MCTenantOf == [r \in Requests |-> IF r = r3 THEN t2 ELSE t1]

\* The requests of t1, and the actors of one kind, are interchangeable.
Symmetry == Permutations(Requests \ {r3}) \cup Permutations(Deciders) \cup Permutations(Passes)
=============================================================================
