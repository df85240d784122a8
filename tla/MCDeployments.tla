---------------------------- MODULE MCDeployments ----------------------------
(***************************************************************************)
(* Instances of Deployments for TLC: k1 asks for release v1 in staging, k2 *)
(* for release v2 in production with approval q1; kr and ks roll the       *)
(* deployments of k2 and k1 back.                                          *)
(***************************************************************************)
EXTENDS Deployments, TLC

CONSTANTS a1, a2, a3, k1, k2, kr, ks, q1, v1, v2,
    Checked   \* the creates with a health_check_url

MCReleaseOf == [k \in Creates |-> IF k = k1 THEN v1 ELSE v2]
MCEnvironmentOf == [k \in Creates |-> IF k = k1 THEN "staging" ELSE "production"]
MCApprovalOf == [k \in Creates |-> IF k = k1 THEN None ELSE q1]
MCHasUrl == [k \in Creates |-> k \in Checked]
MCDeploymentOf == [k \in Rollbacks |-> IF k = kr THEN k2 ELSE k1]
\* Attempts are interchangeable.
Symmetry == Permutations(Attempts)
=============================================================================
