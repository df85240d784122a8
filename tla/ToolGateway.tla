----------------------------- MODULE ToolGateway -----------------------------
(***************************************************************************)
(* callTool (services/tool-gateway-mcp/src/gateway.ts): a tool call is     *)
(* checked and its policy decision recorded in one transaction, performed  *)
(* outside any, and audited in another.  Which binding, tool and rules a   *)
(* call meets is left open: it is refused or gets some decision.           *)
(***************************************************************************)
EXTENDS ConnectionPool

CONSTANTS
    Calls,      \* invocations of callTool
    Decisions   \* what the policy engine may decide

VARIABLES
    call,       \* what each invocation does next, see Places
    told,       \* how it ended for its caller
    recorded,   \* policy_decision_records: <<call, decision>>
    performed,  \* the calls whose tool ran, at the MCP server
    audited     \* audit_events: <<event, call>>

toolVars == <<call, told, recorded, performed, audited>>

Places  == {"new", "check", "mcp", "blocked", "executed", "failed", "done", "crashed"}
Answers == {"nothing", "refused", "blocked", "result", "error"}
Events  == {"TOOL_CALL_BLOCKED", "TOOL_CALL_EXECUTED", "TOOL_CALL_FAILED"}

ToolTypeOK ==
    /\ call \in [Calls -> Places] /\ told \in [Calls -> Answers]
    /\ recorded \subseteq Calls \X Decisions
    /\ performed \subseteq Calls /\ audited \subseteq Events \X Calls

ToolInit ==
    /\ call = [c \in Calls |-> "new"] /\ told = [c \in Calls |-> "nothing"]
    /\ recorded = {} /\ performed = {} /\ audited = {}

Goto(c, place) == call' = [call EXCEPT ![c] = place]
Tell(c, answer) == Goto(c, "done") /\ told' = [told EXCEPT ![c] = answer]

\* The statements of c's transaction at a place are done.
InTransaction(c, place) == call[c] = place /\ held[c] = 1

CallTool(c) ==
    /\ call[c] = "new"
    /\ Goto(c, "check")
    /\ UNCHANGED <<held, told, recorded, performed, audited>>

BeginTool(c) ==
    /\ call[c] \in {"check", "blocked", "executed", "failed"} /\ held[c] = 0
    /\ Connect(c)
    /\ UNCHANGED toolVars

\* NOT_FOUND and BINDING_DENIED, of which no trace is kept.
Refuse(c) ==
    /\ InTransaction(c, "check")
    /\ Release(c, "rolled back")
    /\ Tell(c, "refused")
    /\ UNCHANGED <<recorded, performed, audited>>

FaultAllButDenied(decision) == decision # "DENY"
MayCall(decision) == decision = "ALLOW"

\* recordPolicyDecision, and what the decision leads to.
Decide(c, decision, end) ==
    /\ InTransaction(c, "check")
    /\ Release(c, end)
    /\ recorded' = IF Wrote(end) THEN recorded \cup {<<c, decision>>} ELSE recorded
    /\ IF end = "committed"
       THEN Goto(c, IF MayCall(decision) THEN "mcp" ELSE "blocked") /\ UNCHANGED told
       ELSE Tell(c, "error")
    /\ UNCHANGED <<performed, audited>>

\* The request to the MCP server: the tool may have run although the answer
\* is an error, malformed, or later than the timeout.
CallMcp(c, runs, answers) ==
    /\ call[c] = "mcp"
    /\ answers => runs
    /\ performed' = IF runs THEN performed \cup {c} ELSE performed
    /\ Goto(c, IF answers THEN "executed" ELSE "failed")
    /\ UNCHANGED <<held, told, recorded, audited>>

recordAudit(c, event, end) ==
    /\ Release(c, end)
    /\ audited' = IF Wrote(end) THEN audited \cup {<<event, c>>} ELSE audited
    /\ UNCHANGED <<recorded, performed>>

AuditBlocked(c, end) ==
    /\ InTransaction(c, "blocked")
    /\ recordAudit(c, "TOOL_CALL_BLOCKED", end)
    /\ Tell(c, IF end = "committed" THEN "blocked" ELSE "error")

\* The audit of an executed call is inside the try: when it fails, the call is
\* treated as failed.
FaultAuditIgnored(c, end) == Tell(c, "result")
AfterExecuted(c, end) ==
    IF end = "committed" THEN Tell(c, "result") ELSE Goto(c, "failed") /\ UNCHANGED told

AuditExecuted(c, end) ==
    /\ InTransaction(c, "executed")
    /\ recordAudit(c, "TOOL_CALL_EXECUTED", end)
    /\ AfterExecuted(c, end)

AuditFailed(c, end) ==
    /\ InTransaction(c, "failed")
    /\ recordAudit(c, "TOOL_CALL_FAILED", end)
    /\ Tell(c, "error")

ToolStep(c) ==
    \/ Refuse(c)
    \/ \E end \in Ends :
          \/ \E decision \in Decisions : Decide(c, decision, end)
          \/ AuditBlocked(c, end) \/ AuditExecuted(c, end) \/ AuditFailed(c, end)
    \/ \E runs, answers \in BOOLEAN : CallMcp(c, runs, answers)

\* Where a crash of the process leaves the calls.
ToolsCrash ==
    /\ call' = [c \in Calls |-> IF call[c] \in {"new", "done"} THEN call[c] ELSE "crashed"]
    /\ UNCHANGED <<told, recorded, performed, audited>>

-----------------------------------------------------------------------------
\* gateway.ts: "Every outcome ... is written to audit_events": a caller that is
\* given a result or told of a block finds that in the audit trail.
OutcomesAudited ==
    \A c \in Calls :
        /\ told[c] = "result"  => <<"TOOL_CALL_EXECUTED", c>> \in audited
        /\ told[c] = "blocked" => <<"TOOL_CALL_BLOCKED", c>> \in audited

\* A tool runs only behind a durable ALLOW, a call audited as executed ran, and
\* a blocked or refused one did not.  TOOL_CALL_FAILED is no such claim: a call
\* whose audit failed may have run (gateway.ts:118).
TrailMatchesCalls ==
    \A c \in Calls :
        /\ c \in performed => <<c, "ALLOW">> \in recorded
        /\ <<"TOOL_CALL_EXECUTED", c>> \in audited => c \in performed
        /\ <<"TOOL_CALL_BLOCKED", c>> \in audited \/ told[c] = "refused" => c \notin performed

\* What is on record of a call that has come to a place, and how far a call
\* has come of which something is on record.
CallFits ==
    \A c \in Calls :
        /\ told[c] # "nothing" => call[c] = "done"
        /\ call[c] \in {"new", "check", "blocked", "mcp"} => c \notin performed
        /\ call[c] \in {"mcp", "executed", "failed"} => <<c, "ALLOW">> \in recorded
        /\ call[c] = "executed" => c \in performed
        /\ <<"TOOL_CALL_BLOCKED", c>> \in audited => call[c] \in {"done", "crashed"}
=============================================================================
