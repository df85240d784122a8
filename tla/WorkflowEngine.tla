--------------------------- MODULE WorkflowEngine ---------------------------
(***************************************************************************)
(* One durable workflow: its workflow_registry row, its append-only        *)
(* workflow_history, the engine workers that drive it (services/           *)
(* workflow-engine) and the API requests that pause, resume, cancel, retry *)
(* and escalate it (control-plane-api/src/routes/workflows.ts).            *)
(*                                                                         *)
(* Every database statement is a step of its own.  Transactions run at     *)
(* READ COMMITTED on PostgreSQL: a SELECT sees what is committed when it   *)
(* runs, an UPDATE holds the row's lock until its transaction ends, an     *)
(* INSERT waits for an uncommitted row with the same sequence_no and fails *)
(* when that row commits, and one transaction of a wait cycle is aborted.  *)
(*                                                                         *)
(* A step of the definition is its position 1..StepCount.  Payloads,       *)
(* results and timestamps are left out; completedSteps is kept as the set  *)
(* of its members.                                                         *)
(***************************************************************************)
EXTENDS Integers, FiniteSets, FiniteSetsExt

CONSTANTS
    Workers,     \* processes that call runNextStep on this workflow
    Operators,   \* API requests in flight: one slot each
    StepCount,   \* number of steps of the definition
    NoActor,     \* no transaction holds the lock
    MaxEvents,   \* bound: no call of a worker begins once history holds this many rows
    MaxRequests, \* bound: no request begins once history holds this many rows
    MaxCrashes   \* bound: process crashes

ASSUME ActorsAssumption  ==
    Workers \cap Operators = {} /\ NoActor \notin Workers \cup Operators
ASSUME WorkersAssumption == IsFiniteSet(Workers)
ASSUME StepsAssumption   == StepCount \in Nat
ASSUME BoundsAssumption  == {MaxEvents, MaxRequests, MaxCrashes} \subseteq Nat

Actors == Workers \cup Operators
Steps  == 1..StepCount
NoStep == 0

Statuses == {"RUNNING", "PAUSED", "COMPLETED", "FAILED", "CANCELLED", "ESCALATED"}

OperatorEvents == {"PAUSED", "RESUMED", "ROLLED_BACK", "RETRY", "ESCALATED"}
StepEvents     == {"STEP_STARTED", "STEP_COMPLETED", "STEP_FAILED"}
EventTypes     == OperatorEvents \cup StepEvents \cup {"STARTED", "COMPLETED"}

\* The statuses from which a request may make its transition.
FromStatuses(k) ==
    CASE k = "PAUSED"      -> {"RUNNING"}
      [] k = "RESUMED"     -> {"PAUSED"}
      [] k = "ROLLED_BACK" -> {"RUNNING", "PAUSED", "FAILED", "ESCALATED"}
      [] k = "RETRY"       -> {"FAILED"}
      [] k = "ESCALATED"   -> {"RUNNING", "PAUSED", "FAILED"}

\* The status the transaction that appends an event of type k writes; old
\* when it writes none.
StatusAfter(k, old) ==
    CASE k \in {"RESUMED", "RETRY"} -> "RUNNING"
      [] k = "PAUSED"      -> "PAUSED"
      [] k = "ROLLED_BACK" -> "CANCELLED"
      [] k = "ESCALATED"   -> "ESCALATED"
      [] k = "COMPLETED"   -> "COMPLETED"
      [] k = "STEP_FAILED" -> "FAILED"
      [] OTHER             -> old

VARIABLES
    definition,  \* "none" before creation, "api" without steps, "engine" with steps
    status,      \* workflow_registry.status, committed
    cached,      \* workflow_registry.current_state.completedSteps, committed
    history,     \* committed rows of workflow_history
    escalations, \* WORKFLOW_ESCALATE rows of approval_requests, committed
    local,       \* what each actor knows, see Local
    pending,     \* actors whose transaction holds an uncommitted history row
    rowLock,     \* actor whose transaction holds the registry row's lock
    effects,     \* how often each step's effect was performed
    crashes

vars == <<definition, status, cached, history, escalations, local,
          pending, rowLock, effects, crashes>>
committed == <<definition, status, cached, history, escalations>>

Rows == [seq : Nat \ {0}, type : StepEvents, step : Steps]
          \cup [seq : Nat \ {0}, type : EventTypes \ StepEvents, step : {NoStep}]

\* An actor's next statement (pc): a worker that is "idle" drives nothing, and
\* one at "loop" is inside runToCompletion, between two calls.  The event type of its transaction, the step
\* it works on, the completedSteps it replayed, the sequence_no it computed.
Local == [pc   : {"idle", "loop", "replay", "exec", "update", "select", "insert", "commit"},
          kind : EventTypes,
          step : Steps \cup {NoStep},
          seen : SUBSET Steps,
          seq  : Nat]

Idle == [pc |-> "idle", kind |-> "STARTED", step |-> NoStep, seen |-> {}, seq |-> 0]
Loop == [Idle EXCEPT !.pc = "loop"]

TypeOK ==
    /\ definition \in {"none", "api", "engine"}
    /\ status \in Statuses
    /\ cached \subseteq Steps
    /\ history \subseteq Rows
    /\ escalations \in Nat
    /\ local \in [Actors -> Local]
    /\ pending \subseteq Actors
    /\ rowLock \in Actors \cup {NoActor}
    /\ effects \in [Steps -> Nat]
    /\ crashes \in Nat

-----------------------------------------------------------------------------
(* What the code reads from the history.  An operator named Fault... is not  *)
(* part of the model: it is the definition after it with a bug, and exists   *)
(* to show that a property would notice the bug.                             *)

Completed(rows) == {r.step : r \in {q \in rows : q.type = "STEP_COMPLETED"}}

\* SELECT COALESCE(MAX(sequence_no), 0) + 1
NextSequenceNo(rows) == Max({0} \cup {r.seq : r \in rows}) + 1

\* steps.find((s) => !completedSteps.includes(s.stepId))
FaultAnyPending(s, done) == s \in Steps \ done
FaultForgetsDone(s, done) == s \in Steps /\ \A t \in Steps \ done : s <= t
IsNextStep(s, done) == s \in Steps \ done /\ \A t \in Steps \ done : s <= t

\* if (!nextStep)
FaultOneLeft(done) == Cardinality(done) >= StepCount - 1
NothingLeft(done) == Steps \subseteq done

(* The order of the statements of a transaction.  The outcome of a step is *)
(* appended before the row is updated; every other status change updates   *)
(* the row first; STEP_STARTED only appends.                               *)
FirstStatement(k) == IF k \in StepEvents THEN "select" ELSE "update"
AfterInsert(k) == IF k \in {"STEP_COMPLETED", "STEP_FAILED"} THEN "update" ELSE "commit"
FaultNoEvent(k) == "commit"
AfterUpdate(k) == IF k \in {"STEP_COMPLETED", "STEP_FAILED"} THEN "commit" ELSE "select"

Init ==
    /\ definition = "none"
    /\ status = "RUNNING"
    /\ cached = {}
    /\ history = {}
    /\ escalations = 0
    /\ local = [a \in Actors |-> Idle]
    /\ pending = {}
    /\ rowLock = NoActor
    /\ effects = [s \in Steps |-> 0]
    /\ crashes = 0

\* startWorkflow, or POST /workflows, whose STARTED event carries no
\* definition.  One transaction on a row no one else knows of yet.
StartWorkflow(d) ==
    /\ definition = "none"
    /\ definition' = d
    /\ history' = {[seq |-> NextSequenceNo({}), type |-> "STARTED", step |-> NoStep]}
    /\ UNCHANGED <<status, cached, escalations, local, pending, rowLock, effects, crashes>>

-----------------------------------------------------------------------------
(* The engine. *)

FaultRunsFailed == status \in {"RUNNING", "FAILED"}
Runnable == status = "RUNNING"

\* The status query of runNextStep.  A workflow that is not RUNNING makes
\* the call return without a trace, and runToCompletion with it.
ReadStatus(w) ==
    /\ local[w].pc \in {"idle", "loop"}
    /\ definition # "none"
    /\ \/ /\ Runnable
          /\ Cardinality(history) < MaxEvents
          /\ local' = [local EXCEPT ![w].pc = "replay"]
       \/ /\ ~Runnable
          /\ local' = [local EXCEPT ![w] = Idle]
    /\ UNCHANGED <<committed, pending, rowLock, effects, crashes>>

\* An actor turns to a transaction that appends an event of type k.
Begin(a, k, s, done) ==
    local' = [local EXCEPT ![a] =
        [pc |-> FirstStatement(k), kind |-> k, step |-> s, seen |-> done, seq |-> 0]]

\* replayState, and what runNextStep does with it: nothing without a
\* definition, the next step, or completion when no step is left.
Replay(w) ==
    /\ local[w].pc = "replay"
    /\ LET done == Completed(history) IN
         \/ /\ definition # "engine"
            /\ local' = [local EXCEPT ![w] = Idle]
         \/ /\ definition = "engine" /\ NothingLeft(done)
            /\ Begin(w, "COMPLETED", NoStep, done)
         \/ \E s \in Steps :
            /\ definition = "engine" /\ IsNextStep(s, done)
            /\ Begin(w, "STEP_STARTED", s, done)
    /\ UNCHANGED <<committed, pending, rowLock, effects, crashes>>

\* How executeStep may end: it fails before its effect, fails after it, or
\* performs it and returns.
FaultNotAwaited(outcome, performed) == TRUE
MayEnd(outcome, performed) == outcome = "STEP_COMPLETED" => performed

\* executeStep runs outside any transaction of the engine.
ExecuteStep(w, outcome, performed) ==
    /\ local[w].pc = "exec"
    /\ MayEnd(outcome, performed)
    /\ effects' = IF performed THEN [effects EXCEPT ![local[w].step] = @ + 1] ELSE effects
    /\ Begin(w, outcome, local[w].step, local[w].seen)
    /\ UNCHANGED <<committed, pending, rowLock, crashes>>

-----------------------------------------------------------------------------
(* The API. *)

\* The guard of transition: the status is read, compared, and the row is
\* not locked.  A refused request answers 409 and changes nothing.
Request(o, k) ==
    /\ local[o].pc = "idle"
    /\ definition # "none" /\ status \in FromStatuses(k)
    /\ Cardinality(history) < MaxRequests
    /\ Begin(o, k, NoStep, {})
    /\ UNCHANGED <<committed, pending, rowLock, effects, crashes>>

-----------------------------------------------------------------------------
(* The statements of a transaction. *)

\* appendEvent, appendHistory: the SELECT.
SelectMax(a) ==
    /\ local[a].pc = "select"
    /\ local' = [local EXCEPT ![a].pc = "insert", ![a].seq = NextSequenceNo(history)]
    /\ UNCHANGED <<committed, pending, rowLock, effects, crashes>>

Taken(n) == \E r \in history : r.seq = n

\* The INSERT waits behind an uncommitted row of the same sequence_no.
InsertWaitsFor(a, b) ==
    local[a].pc = "insert" /\ b \in pending /\ local[b].seq = local[a].seq

FaultNotUnique(a) ==
    /\ local[a].pc = "insert"
    /\ pending' = pending \cup {a}
    /\ local' = [local EXCEPT ![a].pc = AfterInsert(local[a].kind)]
    /\ UNCHANGED <<committed, rowLock, effects, crashes>>
InsertEvent(a) ==
    /\ local[a].pc = "insert"
    /\ ~Taken(local[a].seq)
    /\ \A b \in Actors : ~InsertWaitsFor(a, b)
    /\ pending' = pending \cup {a}
    /\ local' = [local EXCEPT ![a].pc = AfterInsert(local[a].kind)]
    /\ UNCHANGED <<committed, rowLock, effects, crashes>>

\* The UPDATE of workflow_registry; it waits for the row's lock.
UpdateRow(a) ==
    /\ local[a].pc = "update"
    /\ rowLock = NoActor
    /\ rowLock' = a
    /\ local' = [local EXCEPT ![a].pc = AfterUpdate(local[a].kind)]
    /\ UNCHANGED <<committed, pending, effects, crashes>>

\* The end of a transaction.
FaultKeepsLock(a) == pending' = pending \ {a} /\ UNCHANGED rowLock
Release(a) ==
    /\ pending' = pending \ {a}
    /\ rowLock' = IF rowLock = a THEN NoActor ELSE rowLock

Event(a) == [seq |-> local[a].seq, type |-> local[a].kind, step |-> local[a].step]

\* The completedSteps a worker writes: those it replayed, and its own.
FaultOwnStepOnly(me) == {me.step}
NewState(me) == me.seen \cup {me.step}

\* STEP_STARTED is followed by its step, a completed step by the next round of
\* runToCompletion; every other commit ends the call or the request.
AfterCommit(me) ==
    CASE me.kind = "STEP_STARTED"   -> [me EXCEPT !.pc = "exec"]
      [] me.kind = "STEP_COMPLETED" -> Loop
      [] OTHER                      -> Idle

\* COMMIT publishes the row update and the event together.
Commit(a) ==
    LET me == local[a] IN
    /\ me.pc = "commit"
    /\ history' = history \cup {Event(b) : b \in pending \cap {a}}
    /\ status' = StatusAfter(me.kind, status)
    /\ cached' = IF me.kind = "STEP_COMPLETED" THEN NewState(me) ELSE cached
    /\ escalations' = IF me.kind = "ESCALATED" THEN escalations + 1 ELSE escalations
    /\ local' = [local EXCEPT ![a] = AfterCommit(me)]
    /\ Release(a)
    /\ UNCHANGED <<definition, effects, crashes>>

\* ROLLBACK: the error leaves runNextStep and the loop of runToCompletion, or
\* reaches the client.
Rollback(a) ==
    /\ local' = [local EXCEPT ![a] = Idle]
    /\ Release(a)
    /\ UNCHANGED <<committed, effects>>

\* The row it would insert exists: the UNIQUE constraint aborts it.
UniqueViolation(a) ==
    /\ local[a].pc = "insert" /\ Taken(local[a].seq)
    /\ Rollback(a)
    /\ UNCHANGED crashes

\* a waits for b's row lock while b waits for a's uncommitted event.
Deadlocked(a, b) ==
    local[a].pc = "update" /\ rowLock = b /\ InsertWaitsFor(b, a)

\* The database's deadlock detector aborts one of the two.
DeadlockVictim(a) ==
    /\ \E b \in Actors : Deadlocked(a, b) \/ Deadlocked(b, a)
    /\ Rollback(a)
    /\ UNCHANGED crashes

\* The process dies; the server rolls its open transaction back.
Crash(a) ==
    /\ local[a].pc # "idle" /\ crashes < MaxCrashes
    /\ crashes' = crashes + 1
    /\ Rollback(a)

-----------------------------------------------------------------------------
Statement(a) == \/ SelectMax(a) \/ InsertEvent(a) \/ UpdateRow(a) \/ Commit(a)
                \/ UniqueViolation(a) \/ DeadlockVictim(a)

Worker(w) ==
    \/ ReadStatus(w) \/ Replay(w)
    \/ \E outcome \in {"STEP_COMPLETED", "STEP_FAILED"}, performed \in BOOLEAN :
          ExecuteStep(w, outcome, performed)

Next ==
    \/ \E d \in {"api", "engine"} : StartWorkflow(d)
    \/ \E w \in Workers : Worker(w)
    \/ \E o \in Operators, k \in OperatorEvents : Request(o, k)
    \/ \E a \in Actors : Statement(a) \/ Crash(a)

Spec == Init /\ [][Next]_vars

\* A worker inside runToCompletion goes on; the database finishes statements
\* and detects deadlocks, and grants a contended lock in the order it was
\* asked for (strong fairness).  Nothing obliges a user to send a request, nor
\* anyone to call runToCompletion.
Driving(w) == local[w].pc # "idle" /\ Worker(w)
Fairness ==
    /\ \A w \in Workers : WF_vars(Driving(w))
    /\ \A a \in Actors : /\ WF_vars(SelectMax(a)) /\ WF_vars(Commit(a))
                         /\ SF_vars(UpdateRow(a)) /\ SF_vars(InsertEvent(a))
                         /\ WF_vars(UniqueViolation(a)) /\ WF_vars(DeadlockVictim(a))

FairSpec == Spec /\ Fairness

-----------------------------------------------------------------------------
(* Safety. *)

\* The sequence numbers of the history are 1, 2, ..., n and none is used
\* twice (history.ts: "so it stays gap-free per workflow"), although each
\* appender computes its number from a snapshot that may be stale.
HistoryGapFree ==
    /\ \A r \in history : \A n \in 1..r.seq : \E q \in history : q.seq = n
    /\ \A r, q \in history : r.seq = q.seq => r = q

StatusEvents == {"STARTED", "COMPLETED", "STEP_FAILED"} \cup OperatorEvents

\* The mutable status is the one its last status event stands for: the
\* append and the update of a transaction commit together and in the order
\* of the sequence numbers, whichever statement came first.
StatusMatchesHistory ==
    \A r \in history :
        /\ r.type \in StatusEvents
        /\ \A q \in history : q.type \in StatusEvents => q.seq <= r.seq
        => status = StatusAfter(r.type, "RUNNING")

\* Steps complete in the order of the definition, whatever the number of
\* workers: each completion follows a start of that step and a completion of
\* every earlier one.
CompletionsInOrder ==
    \A r \in history : r.type = "STEP_COMPLETED" =>
        /\ \E q \in history : q.seq < r.seq /\ q.type = "STEP_STARTED" /\ q.step = r.step
        /\ \A t \in 1..(r.step - 1) : \E q \in history :
              q.seq < r.seq /\ q.type = "STEP_COMPLETED" /\ q.step = t

\* A COMPLETED event, even one written by a worker whose reads are old,
\* means that every step is recorded as completed.
CompletedMeansAllSteps ==
    (\E r \in history : r.type = "COMPLETED") =>
        definition = "engine" /\ Steps \subseteq Completed(history)

\* What the history records has happened: a completion stands for an effect
\* that was performed, one for each record, and an escalation for the approval
\* request it opened, whatever aborts between the statements.
RowsOf(type, s) == {r \in history : r.type = type /\ r.step = s}
RecordsBacked ==
    /\ \A s \in Steps : Cardinality(RowsOf("STEP_COMPLETED", s)) <= effects[s]
    /\ escalations = Cardinality(RowsOf("ESCALATED", NoStep))

\* ADR 0005 section 3: a pause, cancel or failure between two calls stops the
\* very next call.  A worker already past its status query may start one step
\* more, and no worker starts two.
LateStarts ==
    {r \in history : /\ r.type = "STEP_STARTED"
                     /\ \A q \in history : q.type \in StatusEvents => q.seq < r.seq}
OneStartAfterStop ==
    status # "RUNNING" => Cardinality(LateStarts) <= Cardinality(Workers)

\* With one worker the cache that GET /workflows serves is what a replay of
\* the history gives, across crashes, failures, retries and requests.
CacheIsReplay == cached = Completed(history)

-----------------------------------------------------------------------------
(* The inductive invariant behind the safety properties. *)

InStep(a) == local[a].pc \in {"exec", "update", "select", "insert", "commit"}

\* A transaction holds an uncommitted event between its INSERT and its end.
PendingRows ==
    \A a \in Actors :
        a \in pending <=>
            \/ local[a].pc = "commit"
            \/ local[a].pc = "update" /\ local[a].kind \in {"STEP_COMPLETED", "STEP_FAILED"}

\* A computed sequence number is at most the next free one, and one held by
\* an uncommitted event is exactly that, so no two are held at a time.
NumbersInFlight ==
    /\ \A a \in Actors :
          local[a].pc = "insert" => local[a].seq \in 1..NextSequenceNo(history)
    /\ \A a \in pending : local[a].seq = NextSequenceNo(history)
    /\ \A a, b \in pending : a = b

\* The committed rows are numbered from 1 without a gap.
Numbered ==
    /\ NextSequenceNo(history) \in Nat \ {0}
    /\ {r.seq : r \in history} = 1..(NextSequenceNo(history) - 1)
    /\ \A r, q \in history : r.seq = q.seq => r = q

\* What an actor concluded from its reads still holds of the history, which
\* only grows: the steps before its own are recorded, an outcome has its
\* start, and completion was decided when nothing was left.
ConclusionsHold ==
    \A a \in Actors : InStep(a) =>
        /\ local[a].kind # "STARTED"
        /\ local[a].pc = "exec" => local[a].kind = "STEP_STARTED"
        /\ local[a].kind \in StepEvents =>
              /\ local[a].step \in Steps
              /\ 1..(local[a].step - 1) \subseteq Completed(history)
        /\ local[a].kind \notin StepEvents => local[a].step = NoStep
        /\ local[a].pc = "exec" \/ local[a].kind \in {"STEP_COMPLETED", "STEP_FAILED"} =>
              \E q \in history : q.type = "STEP_STARTED" /\ q.step = local[a].step
        /\ local[a].kind = "COMPLETED" =>
              definition = "engine" /\ Steps \subseteq Completed(history)

\* Nothing has happened to a workflow that does not exist.
NotCreated ==
    definition = "none" =>
        /\ history = {} /\ status = "RUNNING"
        /\ \A a \in Actors : local[a].pc = "idle"

\* Inductive: it holds initially, every step of the engine and of the API
\* keeps it, and it implies the safety properties proved of Spec.
IInv ==
    /\ TypeOK
    /\ Numbered
    /\ PendingRows
    /\ NumbersInFlight
    /\ ConclusionsHold
    /\ NotCreated
    /\ StatusMatchesHistory
    /\ CompletionsInOrder
    /\ CompletedMeansAllSteps

(* What counting adds.  An actor under way is counted with the rows it has   *)
(* yet to write, so that a commit moves one from one side to the other.      *)

Recording(s) == {a \in Actors : InStep(a) /\ local[a].kind = "STEP_COMPLETED" /\ local[a].step = s}
Answering(s) ==
    {a \in Actors : /\ InStep(a) /\ local[a].step = s
                    /\ local[a].pc = "exec" \/ local[a].kind \in {"STEP_COMPLETED", "STEP_FAILED"}}
MayStart ==
    {a \in Actors : \/ local[a].pc = "replay"
                    \/ InStep(a) /\ local[a].pc # "exec" /\ local[a].kind = "STEP_STARTED"}

\* Each completion, recorded or about to be, has an effect of its own.
EffectsCover ==
    \A s \in Steps :
        /\ IsFiniteSet(Recording(s))
        /\ Cardinality(RowsOf("STEP_COMPLETED", s)) + Cardinality(Recording(s)) <= effects[s]

\* Each outcome, recorded or still to come, has a start of its own.
StartsCover ==
    \A s \in Steps :
        /\ IsFiniteSet(Answering(s))
        /\ Cardinality(RowsOf("STEP_COMPLETED", s)) + Cardinality(RowsOf("STEP_FAILED", s))
             + Cardinality(Answering(s)) <= Cardinality(RowsOf("STEP_STARTED", s))

\* A worker has started a step since the workflow stopped, or still may, or
\* neither.
StopsCover ==
    /\ MayStart \subseteq Workers
    /\ status # "RUNNING" => Cardinality(LateStarts) + Cardinality(MayStart) <= Cardinality(Workers)

\* Inductive: IInv, and what it takes to count.
CountInv ==
    /\ IInv
    /\ EffectsCover
    /\ StartsCover
    /\ StopsCover
    /\ escalations = Cardinality(RowsOf("ESCALATED", NoStep))

\* What one worker alone replayed stays true until it records the outcome.
OneWorker == \A v, w \in Workers : v = w
ReplayCurrent ==
    \A a \in Actors : InStep(a) /\ local[a].kind \in StepEvents =>
        /\ a \in Workers
        /\ local[a].seen = Completed(history)
        /\ local[a].step \notin Completed(history)

\* Inductive when there is one worker.
SingleInv == IInv /\ ReplayCurrent /\ CacheIsReplay

(* Who waits for whom. *)

Waits(a, b) ==
    \/ local[a].pc = "update" /\ rowLock = b
    \/ InsertWaitsFor(a, b)

\* The row is locked from a transaction's UPDATE to its end.
LocksRow(a) ==
    \/ local[a].pc \in {"select", "insert", "commit"} /\ local[a].kind \notin StepEvents
    \/ local[a].pc = "commit" /\ local[a].kind \in {"STEP_COMPLETED", "STEP_FAILED"}
LockFits ==
    \A a \in Actors :
        /\ rowLock = a <=> LocksRow(a)
        /\ local[a].pc = "update" => local[a].kind # "STEP_STARTED"

\* Whoever waits, waits for somebody who can go on, or for somebody who waits
\* for such a one, or there are two that wait for each other: no transaction
\* waits for ever on a circle that the detector, which looks at two, misses.
WaitsEnd ==
    \A a, b, c, d \in Actors :
        Waits(a, b) /\ Waits(b, c) /\ Waits(c, d) => Deadlocked(b, c) \/ Deadlocked(c, b)

(* Action properties. *)

\* With one worker a step whose completion is recorded is never run again,
\* whatever is retried (ADR 0005 section 1: "the completed step never runs
\* twice").
NoRerunOfCompleted ==
    [][\A s \in Steps : effects'[s] # effects[s] => s \notin Completed(history)]_vars

\* The history is append-only and grows at its end.
AppendOnly ==
    [][/\ history \subseteq history'
       /\ \A r \in history' \ history, q \in history : q.seq < r.seq]_vars

(* The abstract specification: the log is the history read in the order of   *)
(* sequence_no.                                                              *)

LogOf(rows) ==
    [n \in 1..Cardinality(rows) |->
        LET r == CHOOSE q \in rows : q.seq = n IN [type |-> r.type, step |-> r.step]]

Log == INSTANCE WorkflowLog WITH log <- LogOf(history), status <- status

\* However workers and requests interleave, abort and crash, they implement
\* the append-only log whose status is a function of it (history.ts and
\* migration 0004: the history is the source of truth, the row its image).
ImplementsLog == Log!Spec

(* What a test says and racing transactions contradict. *)

\* golden-path.test.ts: "rejects an invalid workflow transition (cannot resume
\* an ESCALATED workflow)".
EscalatedNotResumed ==
    [][status = "ESCALATED" => \A o \in Operators :
          local[o].kind = "RESUMED" => ~(local[o].pc = "commit" /\ local'[o].pc = "idle" /\ status' = "RUNNING")]_vars

(* Liveness. *)

\* The assumption under which a workflow finishes, and which nothing in the
\* repository provides: a workflow left RUNNING is handed to runToCompletion
\* again.  ADR 0005 section 5 names the caller, a future "resumeStuckWorkflows
\* sweep (not built in this phase)".
CalledAgain == \A w \in Workers : WF_vars(local[w].pc = "idle" /\ ReadStatus(w))

\* If somebody calls again whenever a lost sequence number, a deadlock, a crash
\* or a pause has ended the loop, one worker brings the workflow to an end once
\* users leave it alone: whatever aborts, no row, lock or log entry is left
\* behind that a later call cannot get past.
WorkflowFinishes ==
    CalledAgain =>
        (definition = "engine" ~> status # "RUNNING" \/ \E o \in Operators : local[o].pc # "idle")

\* Every request is answered: the opposite lock orders of a step's outcome
\* (append, then update) and of a transition (update, then append) cost a
\* transaction, never a wait without end.
RequestsAnswered == \A o \in Operators : local[o].pc # "idle" ~> local[o].pc = "idle"
=============================================================================
