----------------------------- MODULE ModelRouter -----------------------------
(***************************************************************************)
(* executeModelRun (services/model-router-gateway/src/execute.ts), called  *)
(* by a workflow's step or by POST /models/evaluate, which holds its own   *)
(* connection meanwhile and scores how the run ended.  Suites have one     *)
(* prompt here.  Whether the provider served a request is its own affair:  *)
(* an answer may be lost, late or malformed.                               *)
(***************************************************************************)
EXTENDS ConnectionPool

CONSTANTS
    Runs,        \* invocations of executeModelRun
    Suites,      \* those on behalf of POST /models/evaluate
    maxAttempts

VARIABLES
    run,      \* what each invocation does next, see RunPlaces
    outcome,  \* how executeModelRun ended for its caller
    tries,    \* requests sent to the provider
    served,   \* the runs some request of which the provider served, and bills
    status,   \* model_runs.status
    usage,    \* usage_events of the run
    scored    \* model_evaluation_runs of the suite

runVars == <<run, outcome, tries, served, status, usage, scored>>

RunPlaces == {"new", "evaluate", "insert", "secret", "ask", "complete", "fail", "score", "done", "crashed"}

RunTypeOK ==
    /\ run \in [Runs -> RunPlaces]
    /\ outcome \in [Runs -> {"nothing", "result", "failed", "error"}]
    /\ tries \in [Runs -> 0..maxAttempts] /\ served \subseteq Runs
    /\ status \in [Runs -> {"absent", "RUNNING", "COMPLETED", "FAILED"}]
    /\ usage \in [Runs -> Nat] /\ scored \in [Runs -> {"absent", "success", "failure"}]

RunInit ==
    /\ run = [r \in Runs |-> "new"] /\ outcome = [r \in Runs |-> "nothing"]
    /\ tries = [r \in Runs |-> 0] /\ served = {}
    /\ status = [r \in Runs |-> "absent"] /\ usage = [r \in Runs |-> 0]
    /\ scored = [r \in Runs |-> "absent"]

GotoRun(r, place) == run' = [run EXCEPT ![r] = place]

\* The connection of the evaluating request, held around the run.
Base(r) == IF r \in Suites THEN 1 ELSE 0
RunInTransaction(r, place) == run[r] = place /\ held[r] = Base(r) + 1

\* A suite catches the error of its case and scores it.
Finish(r, result) ==
    /\ outcome' = [outcome EXCEPT ![r] = result]
    /\ GotoRun(r, IF r \in Suites THEN "score" ELSE "done")

StartRun(r) ==
    /\ run[r] = "new"
    /\ GotoRun(r, IF r \in Suites THEN "evaluate" ELSE "insert")
    /\ UNCHANGED <<held, outcome, tries, served, status, usage, scored>>

\* The transaction of withIdempotentWrite around the evaluation.
Evaluate(r) ==
    /\ run[r] = "evaluate"
    /\ Connect(r)
    /\ GotoRun(r, "insert")
    /\ UNCHANGED <<outcome, tries, served, status, usage, scored>>

\* There is no such model: the request ends before the suite begins.
UnknownModel(r) ==
    /\ r \in Suites /\ run[r] = "insert" /\ held[r] = Base(r)
    /\ Release(r, "rolled back")
    /\ GotoRun(r, "done")
    /\ UNCHANGED <<outcome, tries, served, status, usage, scored>>

BeginRun(r) ==
    /\ run[r] \in {"insert", "secret", "complete", "fail"} /\ held[r] = Base(r)
    /\ Connect(r)
    /\ UNCHANGED runVars

\* Provider and model exist and the row is inserted, or the transaction fails.
InsertRun(r, end) ==
    /\ RunInTransaction(r, "insert")
    /\ Release(r, end)
    /\ status' = IF Wrote(end) THEN [status EXCEPT ![r] = "RUNNING"] ELSE status
    /\ IF end = "committed" THEN GotoRun(r, "secret") /\ UNCHANGED outcome
                            ELSE Finish(r, "error")
    /\ UNCHANGED <<tries, served, usage, scored>>

\* The API key is looked up and resolved, inside the try.
ResolveSecret(r, found) ==
    /\ RunInTransaction(r, "secret")
    /\ Release(r, IF found THEN "committed" ELSE "rolled back")
    /\ GotoRun(r, IF found THEN "ask" ELSE "fail")
    /\ UNCHANGED <<outcome, tries, served, status, usage, scored>>

\* adapter.complete under withRetry: a completion, a retryable error, another.
Retries(r, reply) == reply = "retryable" /\ tries'[r] < maxAttempts

AskProvider(r, serves, reply) ==
    /\ run[r] = "ask"
    /\ reply = "completion" => serves
    /\ tries' = [tries EXCEPT ![r] = @ + 1]
    /\ served' = IF serves THEN served \cup {r} ELSE served
    /\ GotoRun(r, IF Retries(r, reply) THEN "ask"
                  ELSE IF reply = "completion" THEN "complete" ELSE "fail")
    /\ UNCHANGED <<held, outcome, status, usage, scored>>

\* The row and the usage event are one transaction, outside the try: when it
\* fails, the run stays RUNNING.
FaultUsageFirst(r, end) == usage' = [usage EXCEPT ![r] = @ + 1]
RecordUsage(r, end) == usage' = IF Wrote(end) THEN [usage EXCEPT ![r] = @ + 1] ELSE usage

CompleteRun(r, end) ==
    /\ RunInTransaction(r, "complete")
    /\ Release(r, end)
    /\ status' = IF Wrote(end) THEN [status EXCEPT ![r] = "COMPLETED"] ELSE status
    /\ RecordUsage(r, end)
    /\ Finish(r, IF end = "committed" THEN "result" ELSE "error")
    /\ UNCHANGED <<tries, served, scored>>

\* The catch: the provider's error reaches the caller once FAILED is written.
FailRun(r, end) ==
    /\ RunInTransaction(r, "fail")
    /\ Release(r, end)
    /\ status' = IF Wrote(end) THEN [status EXCEPT ![r] = "FAILED"] ELSE status
    /\ Finish(r, IF end = "committed" THEN "failed" ELSE "error")
    /\ UNCHANGED <<tries, served, usage, scored>>

\* runBenchmarkSuite returns, and the evaluation commits with its key.
Score(r, end) ==
    /\ run[r] = "score"
    /\ Release(r, end)
    /\ scored' = IF Wrote(end)
                 THEN [scored EXCEPT ![r] = IF outcome[r] = "result" THEN "success" ELSE "failure"]
                 ELSE scored
    /\ GotoRun(r, "done")
    /\ UNCHANGED <<outcome, tries, served, status, usage>>

RunStep(r) ==
    \/ UnknownModel(r)
    \/ \E end \in Ends : InsertRun(r, end) \/ CompleteRun(r, end) \/ FailRun(r, end) \/ Score(r, end)
    \/ \E found \in BOOLEAN : ResolveSecret(r, found)
    \/ \E serves \in BOOLEAN, reply \in {"completion", "retryable", "error"} : AskProvider(r, serves, reply)

RunsCrash ==
    /\ run' = [r \in Runs |-> IF run[r] \in {"new", "done"} THEN run[r] ELSE "crashed"]
    /\ UNCHANGED <<outcome, tries, served, status, usage, scored>>

-----------------------------------------------------------------------------
\* execute.ts: "a failed call still leaves a FAILED model_runs row on record":
\* what executeModelRun told its caller is what the row says, costs are
\* counted once for a COMPLETED run, never for one the provider did not serve,
\* and a suite's success is a completed run.
RunsOnRecord ==
    \A r \in Runs :
        /\ outcome[r] = "result" => status[r] = "COMPLETED"
        /\ outcome[r] = "failed" => status[r] = "FAILED"
        /\ usage[r] = IF status[r] = "COMPLETED" THEN 1 ELSE 0
        /\ usage[r] > 0 => r \in served
        /\ scored[r] = "success" => status[r] = "COMPLETED"

\* What is on record of a run that has come to a place.
RunFits ==
    \A r \in Runs :
        /\ run[r] \in {"evaluate", "score"} => r \in Suites
        /\ run[r] \in {"new", "evaluate", "insert"} => status[r] = "absent"
        /\ run[r] \in {"secret", "ask", "complete", "fail"} => status[r] = "RUNNING"
        /\ run[r] \in {"new", "evaluate", "insert", "secret"} => tries[r] = 0
        /\ run[r] = "ask" => tries[r] < maxAttempts
        /\ run[r] = "complete" => r \in served
        /\ outcome[r] # "nothing" => run[r] \in {"score", "done", "crashed"}
        /\ scored[r] # "absent" => run[r] = "done"
=============================================================================
