----------------------------- MODULE ExactlyOnce -----------------------------
(***************************************************************************)
(* What an idempotent write promises (idempotency.ts: "a retried request   *)
(* (same tenant + key) returns the original result instead of              *)
(* re-executing"): for each key the operation is executed at most once,    *)
(* and whoever is answered for that key gets that execution's result.  An  *)
(* execution is named by the attempt that performed it.                    *)
(***************************************************************************)
CONSTANTS Attempts, Keys, Nobody

VARIABLES
    keyOf,     \* the key each attempt carries, NoKey before it is sent
    executed,  \* the attempts that executed their operation
    result,    \* the execution whose result is kept for a key
    answers    \* the execution whose result an attempt was given

CONSTANT NoKey

vars == <<keyOf, executed, result, answers>>

Init ==
    /\ keyOf = [a \in Attempts |-> NoKey]
    /\ executed = {}
    /\ result = [k \in Keys |-> Nobody]
    /\ answers = [a \in Attempts |-> Nobody]

\* A client sends an attempt.
Send(a, k) ==
    /\ keyOf[a] = NoKey
    /\ keyOf' = [keyOf EXCEPT ![a] = k]
    /\ UNCHANGED <<executed, result, answers>>

\* The first attempt to get through executes the operation; its effect, the
\* kept result and the answer are one step.
Execute(a, k) ==
    /\ keyOf[a] = k /\ answers[a] = Nobody
    /\ result[k] = Nobody
    /\ executed' = executed \cup {a}
    /\ result' = [result EXCEPT ![k] = a]
    /\ answers' = [answers EXCEPT ![a] = a]
    /\ UNCHANGED keyOf

\* Every later one is given the kept result.
Answer(a, k) ==
    /\ keyOf[a] = k /\ answers[a] = Nobody
    /\ result[k] # Nobody
    /\ answers' = [answers EXCEPT ![a] = result[k]]
    /\ UNCHANGED <<keyOf, executed, result>>

Next == \E a \in Attempts, k \in Keys : Send(a, k) \/ Execute(a, k) \/ Answer(a, k)

Spec == Init /\ [][Next]_vars
=============================================================================
