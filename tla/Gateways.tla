------------------------------ MODULE Gateways ------------------------------
(***************************************************************************)
(* The outbound gateways in one process: tool calls (ToolGateway) and      *)
(* model runs (ModelRouter) share its connection pool and its crashes.     *)
(***************************************************************************)
EXTENDS ConnectionPool

CONSTANTS Calls, Decisions, Runs, Suites, maxAttempts

ASSUME ClientsAssumption == Clients = Calls \cup Runs /\ Calls \cap Runs = {} /\ Suites \subseteq Runs
ASSUME RetriesAssumption == maxAttempts \in Nat \ {0}

VARIABLES call, told, recorded, performed, audited, run, outcome, tries, served, status, usage, scored

Tools  == INSTANCE ToolGateway
Models == INSTANCE ModelRouter

toolVars == <<call, told, recorded, performed, audited>>
runVars  == <<run, outcome, tries, served, status, usage, scored>>
vars == <<held, toolVars, runVars>>

TypeOK == held \in [Clients -> Nat] /\ Tools!ToolTypeOK /\ Models!RunTypeOK

Init == held = [c \in Clients |-> 0] /\ Tools!ToolInit /\ Models!RunInit

AtRest ==
    /\ \A c \in Calls : call[c] \in {"new", "done", "crashed"}
    /\ \A r \in Runs : run[r] \in {"new", "done", "crashed"}

\* The process dies: its connections close, and what they had not committed
\* is rolled back.
Crash ==
    /\ ~AtRest
    /\ held' = [c \in Clients |-> 0]
    /\ Tools!ToolsCrash /\ Models!RunsCrash

ToolCalls(c) ==
    (Tools!CallTool(c) \/ Tools!BeginTool(c) \/ Tools!ToolStep(c)) /\ UNCHANGED runVars
ModelRuns(r) ==
    (Models!StartRun(r) \/ Models!Evaluate(r) \/ Models!BeginRun(r) \/ Models!RunStep(r))
        /\ UNCHANGED toolVars

Next ==
    \/ \E c \in Calls : ToolCalls(c)
    \/ \E r \in Runs : ModelRuns(r)
    \/ Crash

Spec == Init /\ [][Next]_vars

\* Requests time out and statements end, and the pool serves its queue in
\* order.  Nobody has to call, and the process need not crash.
FairSpec ==
    /\ Spec
    /\ \A c \in Calls : SF_vars(Tools!BeginTool(c) /\ UNCHANGED runVars)
                        /\ WF_vars(Tools!ToolStep(c) /\ UNCHANGED runVars)
    /\ \A r \in Runs : /\ SF_vars((Models!Evaluate(r) \/ Models!BeginRun(r)) /\ UNCHANGED toolVars)
                       /\ WF_vars(Models!RunStep(r) /\ UNCHANGED toolVars)

-----------------------------------------------------------------------------
\* What a run may hold at a place.
Held(r, place) ==
    LET base == IF r \in Suites /\ place \notin {"new", "evaluate", "done", "crashed"} THEN 1 ELSE 0
        own  == IF place \in {"insert", "secret", "complete", "fail"} THEN 1 ELSE 0
    IN {base, base + own}

\* A connection is held exactly while a transaction is open, by a suite also
\* around its run; and never more than the pool has.
ConnectionsMatch ==
    /\ IsFiniteSet(Slots) /\ InUse <= PoolSize
    /\ \A c \in Calls : held[c] <= IF call[c] \in {"check", "blocked", "executed", "failed"} THEN 1 ELSE 0
    /\ \A r \in Runs : held[r] \in Held(r, run[r])

\* See ToolGateway and ModelRouter.
OutcomesAudited   == Tools!OutcomesAudited
TrailMatchesCalls == Tools!TrailMatchesCalls
RunsOnRecord      == Models!RunsOnRecord

\* Inductive.
IInv ==
    /\ TypeOK /\ ConnectionsMatch /\ Tools!CallFits /\ Models!RunFits
    /\ OutcomesAudited /\ TrailMatchesCalls /\ RunsOnRecord

\* Who waits for a connection, and keeps what it has meanwhile.
Waiting(c) ==
    \/ c \in Calls /\ held[c] = 0 /\ call[c] \in {"check", "blocked", "executed", "failed"}
    \/ c \in Runs /\ run[c] = "evaluate"
    \/ c \in Runs /\ held[c] = Models!Base(c) /\ run[c] \in {"insert", "secret", "complete", "fail"}

\* What keeps the pool moving: with fewer evaluations than connections one is
\* free, or is held by somebody who needs no other to give it back.
PoolServes ==
    Cardinality(Suites) < PoolSize =>
        InUse < PoolSize \/ \E c \in Clients : held[c] > 0 /\ ~Waiting(c)

\* Evaluations hold one connection and wait for another: as long as there are
\* fewer of them than connections, everyone who waits for the pool gets
\* through, and after finitely many calls nobody is waiting.
CallsEnd == Cardinality(Suites) < PoolSize => []<>AtRest
=============================================================================
