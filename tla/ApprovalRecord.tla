--------------------------- MODULE ApprovalRecord ---------------------------
(***************************************************************************)
(* What the rest of the system may rely on about approval requests:        *)
(* approval_requests.decision is NULL until one decision is made, and then *)
(* never changes; only an overdue request expires.  Agents                 *)
(* (AgentLifecycle) and deployments (Deployments) are built on this.       *)
(***************************************************************************)
CONSTANT Requests

VARIABLES
    decision,  \* "absent" before the request exists, "NULL" while undecided
    overdue    \* requests whose expires_at has passed

vars == <<decision, overdue>>

Verdicts == {"APPROVED", "DENIED", "EXPIRED"}

TypeOK ==
    /\ decision \in [Requests -> {"absent", "NULL"} \cup Verdicts]
    /\ overdue \subseteq Requests

Init ==
    /\ decision = [r \in Requests |-> "absent"]
    /\ overdue = {}

Create(r) ==
    /\ decision[r] = "absent"
    /\ decision' = [decision EXCEPT ![r] = "NULL"]
    /\ UNCHANGED overdue

\* Time passes: expires_at <= now() becomes true.
Elapse(r) ==
    /\ decision[r] # "absent" /\ r \notin overdue
    /\ overdue' = overdue \cup {r}
    /\ UNCHANGED decision

\* One decision for a request, or one sweep of overdue requests.
Settle(S, v) ==
    /\ \A r \in S : decision[r] = "NULL"
    /\ v = "EXPIRED" => S \subseteq overdue
    /\ decision' = [r \in Requests |-> IF r \in S THEN v ELSE decision[r]]
    /\ UNCHANGED overdue

Next ==
    \/ \E r \in Requests : Create(r) \/ Elapse(r)
    \/ \E S \in SUBSET Requests, v \in Verdicts : Settle(S, v)

Spec == Init /\ [][Next]_vars
=============================================================================
