----------------------------- MODULE Deployments -----------------------------
(***************************************************************************)
(* Deployments: POST /deployments and POST /deployments/{id}/rollback      *)
(* (control-plane-api, routes/deployments.ts) on the deployment            *)
(* orchestrator (services/deployment-orchestrator).                        *)
(*                                                                         *)
(* A create is one transaction that tests the production approval, inserts *)
(* the row and remembers the idempotency key; only after its commit is the *)
(* deployment health-checked, in transactions of their own.  A rollback    *)
(* with a health_check_url runs the orchestrator's transactions inside the *)
(* attempt and remembers the key last; one without is a single             *)
(* transaction.                                                            *)
(*                                                                         *)
(* A key stands for the request sent under it, and a row is named after    *)
(* the attempt that inserts it.  Approvals are those of ApprovalRecord,    *)
(* which module Approvals implements.                                      *)
(***************************************************************************)
EXTENDS Naturals, FiniteSets

CONSTANTS
    Attempts,             \* requests sent, retries included
    Creates, Rollbacks,   \* the idempotency keys, by what is asked under them
    ReleaseOf, EnvironmentOf, ApprovalOf, HasUrl,  \* the body of a create
    DeploymentOf,         \* the key whose deployment a rollback names
    Releases, Environments,
    Requests,             \* approval requests
    ProductionRequests,   \* those with action = 'DEPLOYMENT_PRODUCTION'
    None,
    MaxCrashes            \* bound: attempts that die

Keys == Creates \cup Rollbacks

ASSUME KeysAssumption ==
    /\ Creates \cap Rollbacks = {}
    /\ ReleaseOf \in [Creates -> Releases] /\ EnvironmentOf \in [Creates -> Environments]
    /\ ApprovalOf \in [Creates -> Requests \cup {None}] /\ HasUrl \in [Creates -> BOOLEAN]
    /\ DeploymentOf \in [Rollbacks -> Keys]
    /\ ProductionRequests \subseteq Requests
ASSUME BoundAssumption == MaxCrashes \in Nat
ASSUME NoneAssumption == None \notin Attempts \cup Requests \cup Keys \cup Releases \cup Environments

VARIABLES
    decision, overdue,  \* approval_requests, see ApprovalRecord
    row,       \* deployment_registry
    result,    \* api_idempotency_keys: the row whose insertion answered a key
    session,   \* what each attempt is doing, see Session
    audited    \* audit_events: <<event, deployment>>

vars == <<decision, overdue, row, result, session, audited>>
approvals == <<decision, overdue>>

Approval == INSTANCE ApprovalRecord

Row == [status : {"absent", "IN_PROGRESS", "HEALTHY", "FAILED", "ROLLED_BACK"},
        release : Releases \cup {None}, environment : Environments \cup {None},
        approval : Requests \cup {None}, url : BOOLEAN, target : Attempts \cup {None}]

Absent == [status |-> "absent", release |-> None, environment |-> None,
           approval |-> None, url |-> FALSE, target |-> None]

\* row: the deployment the attempt checks; of, target: the deployment it rolls
\* back and that one's rollback_target.
Session == [pc : {"unsent", "begin", "replace", "check", "record", "audit", "commit", "done", "crashed"},
            key : Keys \cup {None}, row : Attempts \cup {None},
            of : Attempts \cup {None}, target : Attempts \cup {None}, healthy : BOOLEAN]

Unsent == [pc |-> "unsent", key |-> None, row |-> None, of |-> None, target |-> None, healthy |-> FALSE]

Events == {"DEPLOYMENT_HEALTHY", "DEPLOYMENT_FAILED", "DEPLOYMENT_ROLLED_BACK", "DEPLOYMENT_ROLLBACK_FAILED"}

TypeOK ==
    /\ Approval!TypeOK
    /\ row \in [Attempts -> Row]
    /\ result \in [Keys -> Attempts \cup {None}]
    /\ session \in [Attempts -> Session]
    /\ audited \subseteq Events \X Attempts

Init ==
    /\ Approval!Init
    /\ row = [d \in Attempts |-> Absent]
    /\ result = [k \in Keys |-> None]
    /\ session = [a \in Attempts |-> Unsent]
    /\ audited = {}

At(a, pc) == session[a].pc = pc
Goto(a, pc) == session' = [session EXCEPT ![a].pc = pc]

-----------------------------------------------------------------------------
(* Both routes: the idempotent write around the operation. *)

Receive(a, k) ==
    /\ At(a, "unsent") /\ result[k] = None
    /\ session' = [session EXCEPT ![a].pc = "begin", ![a].key = k]
    /\ UNCHANGED <<approvals, row, result, audited>>

\* A replayed request gets the remembered answer and checks nothing.
FaultReplayChecks(a, k) ==
    /\ At(a, "unsent") /\ result[k] # None
    /\ session' = [session EXCEPT ![a].pc = IF k \in Creates /\ HasUrl[k] THEN "check" ELSE "done",
                                  ![a].key = k, ![a].row = result[k]]
    /\ UNCHANGED <<approvals, row, result, audited>>
Replay(a, k) ==
    /\ At(a, "unsent") /\ result[k] # None
    /\ session' = [session EXCEPT ![a].pc = "done", ![a].key = k]
    /\ UNCHANGED <<approvals, row, result, audited>>

\* The primary key (tenant_id, idempotency_key).
FaultNoPrimaryKey(a) == TRUE
KeyFree(a) == result[session[a].key] = None

\* The key exists by now: the INSERT fails and the transaction with it.
Conflict(a) ==
    /\ At(a, "commit") /\ ~KeyFree(a)
    /\ Goto(a, "done")
    /\ UNCHANGED <<approvals, row, result, audited>>

Remembered(a) == result' = [result EXCEPT ![session[a].key] = a]

-----------------------------------------------------------------------------
(* POST /deployments. *)

FaultAnyDecision(r) == r \in ProductionRequests /\ decision[r] \notin {"absent", "NULL"}
Approved(r) == r \in ProductionRequests /\ decision[r] = "APPROVED"

\* The production gate; elsewhere approval_request_id is optional and only has
\* to exist, a foreign key.
Admitted(k) ==
    IF EnvironmentOf[k] = "production"
    THEN ApprovalOf[k] # None /\ Approved(ApprovalOf[k])
    ELSE ApprovalOf[k] # None => decision[ApprovalOf[k]] # "absent"

Create(a) ==
    /\ At(a, "begin") /\ session[a].key \in Creates
    /\ Goto(a, IF Admitted(session[a].key) THEN "commit" ELSE "done")
    /\ UNCHANGED <<approvals, row, result, audited>>

NewRow(k) ==
    [status |-> "IN_PROGRESS", release |-> ReleaseOf[k], environment |-> EnvironmentOf[k],
     approval |-> ApprovalOf[k], url |-> HasUrl[k], target |-> None]

\* After the commit, a deployment with a health_check_url is checked.
FaultNeverChecked(k) == "done"
AfterCreate(k) == IF HasUrl[k] THEN "check" ELSE "done"

CommitCreate(a) ==
    /\ At(a, "commit") /\ session[a].key \in Creates /\ KeyFree(a)
    /\ Remembered(a)
    /\ row' = [row EXCEPT ![a] = NewRow(session[a].key)]
    /\ session' = [session EXCEPT ![a].pc = AfterCreate(session[a].key), ![a].row = a]
    /\ UNCHANGED <<approvals, audited>>

-----------------------------------------------------------------------------
(* POST /deployments/{id}/rollback. *)

\* A deployment without a rollback_target is refused; one with a
\* health_check_url goes to the orchestrator.
Rollback(a) ==
    /\ At(a, "begin") /\ session[a].key \in Rollbacks
    /\ LET d == result[DeploymentOf[session[a].key]]
       IN IF d = None \/ (d # None /\ row[d].target = None)
          THEN Goto(a, "done")
          ELSE session' = [session EXCEPT ![a].pc = IF row[d].url THEN "replace" ELSE "commit",
                                          ![a].of = d, ![a].target = row[d].target]
    /\ UNCHANGED <<approvals, row, result, audited>>

\* rollbackDeployment inserts a deployment of the target's release, where the
\* target was deployed.
FaultOwnEnvironment(a) == [Absent EXCEPT !.status = "IN_PROGRESS", !.release = row[session[a].target].release,
                                         !.environment = row[session[a].of].environment]
Replacement(a) == [Absent EXCEPT !.status = "IN_PROGRESS", !.release = row[session[a].target].release,
                                 !.environment = row[session[a].target].environment]

Replace(a) ==
    /\ At(a, "replace")
    /\ row' = [row EXCEPT ![a] = Replacement(a)]
    /\ session' = [session EXCEPT ![a].pc = "check", ![a].row = a]
    /\ UNCHANGED <<approvals, result, audited>>

\* Without a health_check_url: a deployment of the rolled-back one's own release,
\* and the old one marked, in the attempt's transaction.
CommitRollback(a) ==
    /\ At(a, "commit") /\ session[a].key \in Rollbacks /\ KeyFree(a)
    /\ Remembered(a)
    /\ row' = IF session[a].row # None THEN row
              ELSE [row EXCEPT ![a] = [row[session[a].of] EXCEPT !.status = "IN_PROGRESS",
                                           !.approval = None, !.target = session[a].of],
                               ![session[a].of].status = "ROLLED_BACK"]
    /\ Goto(a, "done")
    /\ UNCHANGED <<approvals, audited>>

-----------------------------------------------------------------------------
(* The orchestrator: advanceDeployment, and rollbackDeployment once its row  *)
(* is inserted.                                                             *)

IsRollback(a) == session[a].of # None

\* The health check answers, or times out as unhealthy.  advanceDeployment
\* throws INVALID_STATE unless the deployment is IN_PROGRESS.
Check(a, healthy) ==
    /\ At(a, "check")
    /\ IF IsRollback(a) \/ row[session[a].row].status = "IN_PROGRESS"
       THEN session' = [session EXCEPT ![a].pc = "record", ![a].healthy = healthy]
       ELSE Goto(a, "done")
    /\ UNCHANGED <<approvals, row, result, audited>>

\* Only a confirmed replacement marks the original.
FaultMarksAnyway(a) == IsRollback(a)
MarksOriginal(a) == IsRollback(a) /\ session[a].healthy

\* UPDATE ... SET status WHERE deployment_id: whatever the status is by now.
Record(a) ==
    /\ At(a, "record")
    /\ LET d == session[a].row
           verdict == IF session[a].healthy THEN "HEALTHY" ELSE "FAILED"
           checked == [row EXCEPT ![d].status = verdict]
       IN row' = IF MarksOriginal(a) THEN [checked EXCEPT ![session[a].of].status = "ROLLED_BACK"]
                                     ELSE checked
    /\ Goto(a, "audit")
    /\ UNCHANGED <<approvals, result, audited>>

Event(a) ==
    IF IsRollback(a)
    THEN <<IF session[a].healthy THEN "DEPLOYMENT_ROLLED_BACK" ELSE "DEPLOYMENT_ROLLBACK_FAILED", session[a].of>>
    ELSE <<IF session[a].healthy THEN "DEPLOYMENT_HEALTHY" ELSE "DEPLOYMENT_FAILED", session[a].row>>

Audit(a) ==
    /\ At(a, "audit")
    /\ audited' = audited \cup {Event(a)}
    /\ Goto(a, IF IsRollback(a) THEN "commit" ELSE "done")
    /\ UNCHANGED <<approvals, row, result>>

-----------------------------------------------------------------------------
(* The environment. *)

\* The process dies or loses the database; open transactions roll back.
Crash(a) ==
    /\ session[a].pc \notin {"unsent", "done", "crashed"}
    /\ Cardinality({b \in Attempts : At(b, "crashed")}) < MaxCrashes
    /\ Goto(a, "crashed")
    /\ UNCHANGED <<approvals, row, result, audited>>

\* Nothing in the program records a rollback_target on a created deployment;
\* its operators do, once.
SetRollbackTarget(d, t) ==
    /\ row[d].status # "absent" /\ row[t].status # "absent"
    /\ row[d].target = None
    /\ row' = [row EXCEPT ![d].target = t]
    /\ UNCHANGED <<approvals, result, session, audited>>

Approving == Approval!Next /\ UNCHANGED <<row, result, session, audited>>

Step(a) ==
    \/ Create(a) \/ CommitCreate(a) \/ Rollback(a) \/ Replace(a) \/ CommitRollback(a) \/ Conflict(a)
    \/ Record(a) \/ Audit(a)
    \/ \E healthy \in BOOLEAN : Check(a, healthy)

Next ==
    \/ \E a \in Attempts, k \in Keys : Receive(a, k) \/ Replay(a, k)
    \/ \E a \in Attempts : Step(a) \/ Crash(a)
    \/ \E d, t \in Attempts : SetRollbackTarget(d, t)
    \/ Approving

Spec == Init /\ [][Next]_vars

-----------------------------------------------------------------------------
(* Safety. *)

\* Contract rule 9, whatever the gate, the insertion, the decision, the sweeps
\* and rollbacks interleave to: every deployment in production, the ones
\* rollbacks insert without an approval_request_id included, runs a release
\* that POST /deployments brought to production under an approval for it that
\* is APPROVED; one that POST /deployments created has such an approval itself.
Created(d) == row[d].status # "absent" /\ session[d].key \in Creates

ProductionApproved ==
    \A d \in Attempts : row[d].status # "absent" /\ row[d].environment = "production" =>
        \E c \in Attempts :
            /\ Created(c) /\ (Created(d) => c = d)
            /\ row[c].release = row[d].release /\ row[c].environment = "production"
            /\ row[c].approval \in ProductionRequests /\ decision[row[c].approval] = "APPROVED"

\* Retries of one create leave one deployment.
OneDeploymentPerKey ==
    \A c, d \in Attempts : Created(c) /\ Created(d) /\ session[c].key = session[d].key => c = d

\* A confirmed replacement of d: the release its rollback_target had, healthy
\* until something replaced it in turn.
Replaced(d) ==
    \E b \in Attempts :
        /\ session[b].of = d /\ session[b].row = b
        /\ row[b].status \in {"HEALTHY", "ROLLED_BACK"}
        /\ row[b].release = row[row[d].target].release
        /\ row[b].environment = row[row[d].target].environment

\* A deployment with a health_check_url is ROLLED_BACK only once a replacement
\* is confirmed, and only then does the audit trail say so: a failed or
\* abandoned rollback leaves it as it was.
RolledBackReplaced ==
    \A d \in Attempts : row[d].url =>
        /\ row[d].status = "ROLLED_BACK" => Replaced(d)
        /\ <<"DEPLOYMENT_ROLLED_BACK", d>> \in audited => Replaced(d)

\* The audit trail never contradicts itself or the registry: a deployment has
\* one verdict, and keeps it until it is rolled back.
OneVerdict ==
    \A d \in Attempts :
        /\ <<"DEPLOYMENT_HEALTHY", d>> \in audited =>
              <<"DEPLOYMENT_FAILED", d>> \notin audited /\ row[d].status \in {"HEALTHY", "ROLLED_BACK"}
        /\ <<"DEPLOYMENT_FAILED", d>> \in audited => row[d].status \in {"FAILED", "ROLLED_BACK"}

\* orchestrator.ts: "Every outcome is audited": an attempt that ended without
\* dying leaves no deployment it had to check IN_PROGRESS, and its verdict is
\* in the audit trail, unless a rollback overtook the check.
HealthChecked(a) == session[a].row = a /\ (row[a].url \/ IsRollback(a))

OutcomeAudited ==
    \A a \in Attempts : At(a, "done") /\ HealthChecked(a) =>
        \/ row[a].status # "IN_PROGRESS" /\ Event(a) \in audited
        \/ row[a].status = "ROLLED_BACK"
-----------------------------------------------------------------------------
(* The inductive invariant. *)

\* An attempt inserts at most the row named after it, and checks no other.
OwnRow ==
    \A a \in Attempts :
        /\ session[a].row \in {None, a}
        /\ session[a].row = a => row[a].status # "absent"
        /\ session[a].pc \in {"check", "record", "audit"} => session[a].row = a
        /\ session[a].pc \in {"unsent", "begin", "replace"} => row[a] = Absent /\ session[a].row = None
        /\ At(a, "commit") /\ session[a].row = None => row[a] = Absent

\* What an attempt has learnt fits its key and stays true.
SessionFits ==
    \A a \in Attempts :
        /\ session[a].pc \notin {"unsent"} <=> session[a].key # None
        /\ session[a].pc \in {"unsent", "begin"} => session[a].of = None
        /\ At(a, "replace") => IsRollback(a)
        /\ At(a, "commit") => (session[a].key \in Rollbacks <=> IsRollback(a))
        /\ At(a, "commit") /\ session[a].key \in Creates => session[a].row = None
        /\ IsRollback(a) =>
              /\ session[a].key \in Rollbacks /\ session[a].of # a /\ row[session[a].of].status # "absent"
              /\ session[a].target # None /\ row[session[a].of].target = session[a].target
              /\ row[session[a].target].status # "absent"

\* The row remembered for a key was inserted under it, and holds its body.
ResultFits ==
    \A k \in Keys : result[k] # None =>
        session[result[k]].key = k /\ row[result[k]].status # "absent"
BodyKept ==
    \A d \in Attempts : Created(d) =>
        /\ result[session[d].key] = d
        /\ row[d].environment = EnvironmentOf[session[d].key] /\ row[d].approval = ApprovalOf[session[d].key]
        /\ row[d].url = HasUrl[session[d].key]

\* A rollback_target is a deployment.
TargetsExist == \A d \in Attempts : row[d].target # None => row[row[d].target].status # "absent"

\* The gate passed for a create about to commit, and an approval is final.
GatePassed ==
    \A a \in Attempts :
        At(a, "commit") /\ session[a].key \in Creates /\ EnvironmentOf[session[a].key] = "production" =>
            /\ ApprovalOf[session[a].key] \in ProductionRequests
            /\ decision[ApprovalOf[session[a].key]] = "APPROVED"

IInv ==
    /\ TypeOK /\ OwnRow /\ SessionFits /\ ResultFits /\ BodyKept /\ TargetsExist /\ GatePassed
    /\ ProductionApproved /\ OneDeploymentPerKey
=============================================================================
