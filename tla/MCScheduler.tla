----------------------------- MODULE MCScheduler -----------------------------
(***************************************************************************)
(* An instance of Scheduler for TLC: a request of a sound tenant and one   *)
(* of a tenant whose approval sweep always fails, and working memory of    *)
(* the latter.                                                             *)
(***************************************************************************)
EXTENDS Scheduler

CONSTANTS r1, r3, t1, t2

MCTenantOf == [r \in Requests |-> IF r = r3 THEN t2 ELSE t1]
MCOwnerOf == [e \in Entries |-> t2]
=============================================================================
