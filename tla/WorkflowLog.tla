----------------------------- MODULE WorkflowLog -----------------------------
(***************************************************************************)
(* What the engine and the workflow API promise together: one log of       *)
(* events that only grows at its end, and a status that is at every moment *)
(* a function of that log.  Nothing here knows of transactions, locks,     *)
(* snapshots, sequence numbers or the number of workers.                   *)
(***************************************************************************)
EXTENDS Integers, Sequences, FiniteSets

CONSTANT StepCount

Steps == 1..StepCount

VARIABLES log, status

NewStatus == [STARTED |-> "RUNNING", RESUMED |-> "RUNNING", RETRY |-> "RUNNING",
              PAUSED |-> "PAUSED", ROLLED_BACK |-> "CANCELLED", ESCALATED |-> "ESCALATED",
              COMPLETED |-> "COMPLETED", STEP_FAILED |-> "FAILED"]

Count(type, s) == Cardinality({i \in DOMAIN log : log[i].type = type /\ log[i].step = s})
Done == {s \in Steps : Count("STEP_COMPLETED", s) > 0}

Record(type, s) ==
    /\ log' = Append(log, [type |-> type, step |-> s])
    /\ status' = IF type \in DOMAIN NewStatus THEN NewStatus[type] ELSE status

Init == log = <<>> /\ status = "RUNNING"

Start == log = <<>> /\ Record("STARTED", 0)

\* A step starts when the steps before it are done, any number of times.
StartStep(s) == log # <<>> /\ 1..(s - 1) \subseteq Done /\ Record("STEP_STARTED", s)

\* Each outcome answers a start of its own.
EndStep(s, outcome) ==
    /\ Count("STEP_COMPLETED", s) + Count("STEP_FAILED", s) < Count("STEP_STARTED", s)
    /\ Record(outcome, s)

Finish == log # <<>> /\ Done = Steps /\ Record("COMPLETED", 0)

Transition(type) == log # <<>> /\ Record(type, 0)

Next ==
    \/ Start \/ Finish
    \/ \E s \in Steps : \/ StartStep(s)
                        \/ \E outcome \in {"STEP_COMPLETED", "STEP_FAILED"} : EndStep(s, outcome)
    \/ \E type \in {"PAUSED", "RESUMED", "ROLLED_BACK", "RETRY", "ESCALATED"} : Transition(type)

Spec == Init /\ [][Next]_<<log, status>>
=============================================================================
