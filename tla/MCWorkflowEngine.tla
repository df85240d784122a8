-------------------------- MODULE MCWorkflowEngine --------------------------
(***************************************************************************)
(* Instances of WorkflowEngine for TLC.                                    *)
(***************************************************************************)
EXTENDS WorkflowEngine, TLC

\* Workers are interchangeable, and so are request slots.
Symmetry == Permutations(Workers) \cup Permutations(Operators)
=============================================================================
