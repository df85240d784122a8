-------------------------- MODULE MCIdempotentWrite --------------------------
(***************************************************************************)
(* Instances of ApiResources for TLC: two requests to create one project,  *)
(* two to patch different columns of it, two for one flag, and one of each *)
(* other kind of operation.                                                *)
(***************************************************************************)
EXTENDS ApiResources

CONSTANTS p1, p2, u1, u2, f1, f2, v1, rot, art, wf, msg, nested, task,
    project, flag, version, agent, secret

MCNamed == [k \in Rowed |-> CASE k \in Flags -> flag [] k \in Versions -> version
                              [] k \in Rotations -> secret [] OTHER -> project]
MCParent == [k \in Versions \cup Attaches |-> IF k \in Versions THEN agent ELSE project]
MCGiven == [k \in Updates |-> IF k = u1 THEN {"name"} ELSE {"state"}]
=============================================================================
