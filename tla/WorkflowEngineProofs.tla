------------------------ MODULE WorkflowEngineProofs ------------------------
(***************************************************************************)
(* Theorems about WorkflowEngine for any number of workers, requests and   *)
(* steps.  The argument: a committed row has the next free number, because *)
(* a transaction with any other number fails on the UNIQUE constraint, so  *)
(* rows commit in the order of their numbers (Numbered, NumbersInFlight);  *)
(* what an actor concluded from an old read stays true of a history that   *)
(* only grows (ConclusionsHold).                                           *)
(***************************************************************************)
EXTENDS WorkflowEngine, TLAPS

\* The largest of 0, 1, ..., m is m.
LEMMA MaxOfInterval ==
    ASSUME NEW m \in Nat
    PROVE  Max({0} \cup 1..m) = m
<1>1. m \in {0} \cup 1..m /\ \A y \in {0} \cup 1..m : m >= y
  OBVIOUS
<1>2. \A x \in {0} \cup 1..m : (\A y \in {0} \cup 1..m : x >= y) => x = m
  OBVIOUS
<1> QED
  BY <1>1, <1>2 DEF Max

\* A history numbered 1..m gives m + 1 to the next event.
LEMMA NextNumber ==
    ASSUME NEW rows, NEW m \in Nat, {r.seq : r \in rows} = 1..m
    PROVE  NextSequenceNo(rows) = m + 1
BY MaxOfInterval DEF NextSequenceNo

\* Appending the row with the next free number keeps the numbering.
LEMMA AppendRow ==
    ASSUME Numbered, NEW row, row.seq = NextSequenceNo(history),
           history' = history \cup {row}
    PROVE  /\ Numbered'
           /\ NextSequenceNo(history)' = NextSequenceNo(history) + 1
           /\ \A q \in history : q.seq < row.seq
<1> DEFINE m == NextSequenceNo(history) - 1
<1>1. m \in Nat /\ {r.seq : r \in history} = 1..m /\ row.seq = m + 1
  BY DEF Numbered
<1> HIDE DEF m
<1>2. {r.seq : r \in history'} = 1..(m + 1)
  <2>1. {r.seq : r \in history'} = {r.seq : r \in history} \cup {row.seq}
    OBVIOUS
  <2>2. 1..(m + 1) = 1..m \cup {m + 1}
    BY <1>1
  <2> QED BY <1>1, <2>1, <2>2
<1>3. NextSequenceNo(history') = m + 2
  BY <1>1, <1>2, NextNumber, m + 1 \in Nat
<1>4. NextSequenceNo(history) = m + 1
  BY <1>1, NextNumber
<1>5. \A q \in history : q.seq \in 1..m
  BY <1>1
<1>6. \A r, q \in history' : r.seq = q.seq => r = q
  <2> SUFFICES ASSUME NEW r \in history', NEW q \in history', r.seq = q.seq
               PROVE  r = q
    OBVIOUS
  <2>1. CASE r \in history /\ q \in history
    BY <2>1 DEF Numbered
  <2>2. CASE r \in history /\ q = row
    BY <2>2, <1>1, <1>5
  <2>3. CASE r = row /\ q \in history
    BY <2>3, <1>1, <1>5
  <2> QED BY <2>1, <2>2, <2>3
<1>7. Numbered'
  <2>1. NextSequenceNo(history') - 1 = m + 1 /\ NextSequenceNo(history') \in Nat \ {0}
    BY <1>1, <1>3
  <2>2. {r.seq : r \in history'} = 1..(NextSequenceNo(history') - 1)
    BY <1>2, <2>1
  <2> QED BY <1>6, <2>1, <2>2 DEF Numbered
<1> QED
  BY <1>1, <1>3, <1>4, <1>5, <1>7

-----------------------------------------------------------------------------
(* Steps that commit nothing: only what is known of the actors can change. *)

\* The part of the invariant that speaks of committed state alone.
LEMMA QuietStep ==
    ASSUME IInv, UNCHANGED <<definition, status, history>>
    PROVE  /\ Numbered' /\ StatusMatchesHistory' /\ CompletionsInOrder'
           /\ CompletedMeansAllSteps'
           /\ NextSequenceNo(history)' = NextSequenceNo(history)
           /\ Completed(history)' = Completed(history)
<1>1. /\ NextSequenceNo(history)' = NextSequenceNo(history)
      /\ Completed(history)' = Completed(history)
  BY DEF NextSequenceNo, Completed
<1>2. Numbered'
  BY <1>1 DEF IInv, Numbered
<1>3. StatusMatchesHistory'
  BY DEF IInv, StatusMatchesHistory
<1>4. CompletionsInOrder'
  BY DEF IInv, CompletionsInOrder
<1>5. CompletedMeansAllSteps'
  BY <1>1 DEF IInv, CompletedMeansAllSteps
<1> QED
  BY <1>1, <1>2, <1>3, <1>4, <1>5

\* What the assignment of one actor's record does.
LEMMA LocalUpdate ==
    ASSUME TypeOK, NEW a \in Actors, NEW new \in Local, local' = [local EXCEPT ![a] = new]
    PROVE  /\ local' \in [Actors -> Local]
           /\ local'[a] = new
           /\ \A b \in Actors : b # a => local'[b] = local[b]
BY DEF TypeOK

LEMMA BeginUpdate ==
    ASSUME TypeOK, NEW a \in Actors, NEW k \in EventTypes, NEW s \in Steps \cup {NoStep},
           NEW done \in SUBSET Steps, Begin(a, k, s, done)
    PROVE  /\ local' \in [Actors -> Local]
           /\ local'[a].pc = FirstStatement(k) /\ local'[a].kind = k /\ local'[a].step = s
           /\ FirstStatement(k) \in {"select", "update"}
           /\ \A b \in Actors : b # a => local'[b] = local[b]
<1> DEFINE new == [pc |-> FirstStatement(k), kind |-> k, step |-> s, seen |-> done, seq |-> 0]
<1>1. FirstStatement(k) \in {"select", "update"}
  BY DEF FirstStatement
<1>2. new \in Local
  BY <1>1 DEF Local
<1>3. local' = [local EXCEPT ![a] = new]
  BY DEF Begin
<1> QED
  BY <1>1, <1>2, <1>3, LocalUpdate, Zenon

\* An actor that turns to a new transaction holds nothing yet: it is enough
\* that its conclusion holds of the history.
LEMMA BeginStep ==
    ASSUME IInv, NEW a \in Actors, NEW k \in EventTypes \ {"STARTED"},
           NEW s \in Steps \cup {NoStep}, NEW done \in SUBSET Steps,
           Begin(a, k, s, done), local[a].pc \in {"idle", "replay", "exec"},
           UNCHANGED <<committed, pending, rowLock, crashes>>,
           effects' \in [Steps -> Nat],
           definition # "none",
           k \in StepEvents => s \in Steps /\ 1..(s - 1) \subseteq Completed(history),
           k \in {"STEP_COMPLETED", "STEP_FAILED"} =>
               \E q \in history : q.type = "STEP_STARTED" /\ q.step = s,
           k \notin StepEvents => s = NoStep,
           k = "COMPLETED" => definition = "engine" /\ Steps \subseteq Completed(history)
    PROVE  IInv'
<1>1. /\ local' \in [Actors -> Local]
      /\ local'[a].pc = FirstStatement(k) /\ local'[a].kind = k /\ local'[a].step = s
      /\ FirstStatement(k) \in {"select", "update"}
      /\ \A b \in Actors : b # a => local'[b] = local[b]
  BY BeginUpdate DEF IInv
<1>2. TypeOK'
  BY <1>1 DEF IInv, TypeOK, committed
<1>3. /\ Numbered' /\ StatusMatchesHistory' /\ CompletionsInOrder' /\ CompletedMeansAllSteps'
      /\ NextSequenceNo(history)' = NextSequenceNo(history)
      /\ Completed(history)' = Completed(history)
  BY QuietStep DEF committed
<1>4. a \notin pending
  BY DEF IInv, PendingRows
<1>5. PendingRows'
  <2>1. ~(FirstStatement(k) = "update" /\ k \in {"STEP_COMPLETED", "STEP_FAILED"})
    BY DEF FirstStatement, StepEvents
  <2> QED BY <1>1, <1>4, <2>1 DEF IInv, PendingRows
<1>6. NumbersInFlight'
  BY <1>1, <1>3, <1>4 DEF IInv, NumbersInFlight, TypeOK
<1>7. ConclusionsHold'
  BY <1>1, <1>3 DEF IInv, ConclusionsHold, InStep, committed
<1>8. NotCreated'
  BY DEF NotCreated, committed
<1> QED
  BY <1>2, <1>3, <1>5, <1>6, <1>7, <1>8 DEF IInv

\* An actor whose call or transaction ends without a commit.
LEMMA IdleStep ==
    ASSUME IInv, NEW a \in Actors, local' = [local EXCEPT ![a] = Idle],
           pending' = pending \ {a}, rowLock' \in Actors \cup {NoActor},
           UNCHANGED <<committed, effects>>, crashes' \in Nat
    PROVE  IInv'
<1>1. /\ local' \in [Actors -> Local]
      /\ local'[a].pc = "idle"
      /\ \A b \in Actors : b # a => local'[b] = local[b]
  <2>1. Idle \in Local
    BY DEF Idle, Local, EventTypes, NoStep
  <2>2. Idle.pc = "idle"
    BY DEF Idle
  <2> QED BY <2>1, <2>2, LocalUpdate DEF IInv
<1>2. TypeOK'
  BY <1>1 DEF IInv, TypeOK, committed
<1>3. /\ Numbered' /\ StatusMatchesHistory' /\ CompletionsInOrder' /\ CompletedMeansAllSteps'
      /\ NextSequenceNo(history)' = NextSequenceNo(history)
      /\ Completed(history)' = Completed(history)
  BY QuietStep DEF committed
<1>4. PendingRows'
  BY <1>1 DEF IInv, PendingRows
<1>5. NumbersInFlight'
  BY <1>1, <1>3 DEF IInv, NumbersInFlight, TypeOK
<1>6. ConclusionsHold'
  BY <1>1, <1>3 DEF IInv, ConclusionsHold, InStep, committed
<1>7. NotCreated'
  BY <1>1 DEF IInv, NotCreated, committed
<1> QED
  BY <1>2, <1>3, <1>4, <1>5, <1>6, <1>7 DEF IInv

LEMMA ReadStatusStep ==
    ASSUME IInv, NEW w \in Actors, ReadStatus(w)
    PROVE  IInv'
<1>1. /\ w \notin pending /\ UNCHANGED <<committed, pending, rowLock, effects, crashes>>
      /\ rowLock' \in Actors \cup {NoActor} /\ crashes' \in Nat
  BY DEF IInv, TypeOK, PendingRows, ReadStatus
<1>2. CASE local' = [local EXCEPT ![w] = Idle]
  BY <1>1, <1>2, IdleStep
<1>3. CASE local' = [local EXCEPT ![w].pc = "replay"]
  <2>1. /\ local' \in [Actors -> Local]
        /\ local'[w].pc = "replay"
        /\ \A b \in Actors : b # w => local'[b] = local[b]
    BY <1>3 DEF IInv, TypeOK, Local
  <2>2. TypeOK'
    BY <1>1, <2>1 DEF IInv, TypeOK, committed
  <2>3. /\ Numbered' /\ StatusMatchesHistory' /\ CompletionsInOrder' /\ CompletedMeansAllSteps'
        /\ NextSequenceNo(history)' = NextSequenceNo(history)
        /\ Completed(history)' = Completed(history)
    BY <1>1, QuietStep DEF committed
  <2>4. PendingRows'
    BY <1>1, <2>1 DEF IInv, PendingRows
  <2>5. NumbersInFlight'
    BY <1>1, <2>1, <2>3 DEF IInv, NumbersInFlight, TypeOK
  <2>6. ConclusionsHold'
    BY <1>1, <2>1, <2>3 DEF IInv, ConclusionsHold, InStep, committed
  <2>7. NotCreated'
    BY DEF NotCreated, committed, ReadStatus
  <2> QED
    BY <2>2, <2>3, <2>4, <2>5, <2>6, <2>7 DEF IInv
<1> QED
  BY <1>2, <1>3 DEF ReadStatus

LEMMA CompletedAreSteps ==
    ASSUME TypeOK
    PROVE  Completed(history) \subseteq Steps
BY DEF TypeOK, Completed, Rows, StepEvents

LEMMA ReplayStep ==
    ASSUME IInv, NEW w \in Workers, Replay(w)
    PROVE  IInv'
<1> DEFINE done == Completed(history)
<1>1. done \subseteq Steps
  BY CompletedAreSteps DEF IInv
<1>2. w \in Actors /\ local[w].pc = "replay" /\ w \notin pending
      /\ UNCHANGED <<committed, pending, rowLock, effects, crashes>>
  BY DEF IInv, PendingRows, Replay, Actors
<1>3. effects' \in [Steps -> Nat] /\ crashes' \in Nat /\ rowLock' \in Actors \cup {NoActor}
  BY <1>2 DEF IInv, TypeOK
<1> HIDE DEF done
<1>4. CASE local' = [local EXCEPT ![w] = Idle]
  BY <1>2, <1>3, <1>4, IdleStep
<1>5. CASE definition = "engine" /\ NothingLeft(done) /\ Begin(w, "COMPLETED", NoStep, done)
  BY <1>1, <1>2, <1>3, <1>5, BeginStep DEF NothingLeft, done, EventTypes, StepEvents
<1>6. ASSUME NEW s \in Steps, definition = "engine", IsNextStep(s, done),
             Begin(w, "STEP_STARTED", s, done)
      PROVE  IInv'
  <2>1. 1..(s - 1) \subseteq done
    BY <1>6, StepsAssumption DEF IsNextStep, Steps
  <2> QED
    BY <1>1, <1>2, <1>3, <1>6, <2>1, BeginStep DEF done, EventTypes, StepEvents
<1> QED
  BY <1>4, <1>5, <1>6 DEF Replay, done

LEMMA ExecuteStepStep ==
    ASSUME IInv, NEW w \in Workers, NEW outcome \in {"STEP_COMPLETED", "STEP_FAILED"},
           NEW performed \in BOOLEAN, ExecuteStep(w, outcome, performed)
    PROVE  IInv'
<1> DEFINE s == local[w].step
           done == local[w].seen
<1>1. w \in Actors /\ local[w].pc = "exec" /\ local[w].kind = "STEP_STARTED"
  BY DEF IInv, ConclusionsHold, InStep, ExecuteStep, Actors
<1>2. /\ s \in Steps /\ 1..(s - 1) \subseteq Completed(history)
      /\ \E q \in history : q.type = "STEP_STARTED" /\ q.step = s
  BY <1>1 DEF IInv, ConclusionsHold, InStep, StepEvents
<1>3. done \in SUBSET Steps
  BY <1>1 DEF IInv, TypeOK, Local
<1>4. definition # "none"
  BY <1>1 DEF IInv, NotCreated
<1>5. effects' \in [Steps -> Nat]
  BY <1>2 DEF IInv, TypeOK, ExecuteStep
<1>6. Begin(w, outcome, s, done) /\ UNCHANGED <<committed, pending, rowLock, crashes>>
  BY DEF ExecuteStep
<1> HIDE DEF s, done
<1> QED
  BY <1>1, <1>2, <1>3, <1>4, <1>5, <1>6, BeginStep DEF EventTypes, StepEvents

LEMMA RequestStep ==
    ASSUME IInv, NEW o \in Operators, NEW k \in OperatorEvents, Request(o, k)
    PROVE  IInv'
<1>1. k \in EventTypes \ {"STARTED"} /\ k \notin StepEvents /\ k # "COMPLETED"
  BY DEF OperatorEvents, EventTypes, StepEvents
<1>2. o \in Actors /\ local[o].pc = "idle" /\ definition # "none"
      /\ Begin(o, k, NoStep, {}) /\ UNCHANGED <<committed, pending, rowLock, effects, crashes>>
  BY DEF Request, Actors
<1>3. effects' \in [Steps -> Nat]
  BY <1>2 DEF IInv, TypeOK
<1>4. k \notin {"STEP_COMPLETED", "STEP_FAILED"} /\ {} \in SUBSET Steps
  BY <1>1 DEF StepEvents
<1> QED
  BY <1>1, <1>2, <1>3, <1>4, BeginStep

LEMMA SelectMaxStep ==
    ASSUME IInv, NEW a \in Actors, SelectMax(a)
    PROVE  IInv'
<1> DEFINE n == NextSequenceNo(history)
<1>0. n \in Nat \ {0}
  BY DEF IInv, Numbered
<1>1. UNCHANGED <<committed, pending, rowLock, effects, crashes>>
  BY DEF SelectMax
<1> HIDE DEF n
<1>2. /\ local' \in [Actors -> Local]
      /\ local'[a].pc = "insert" /\ local'[a].seq = n
      /\ local'[a].kind = local[a].kind /\ local'[a].step = local[a].step
      /\ \A b \in Actors : b # a => local'[b] = local[b]
  BY <1>0 DEF IInv, TypeOK, SelectMax, Local, n
<1>3. TypeOK'
  BY <1>1, <1>2 DEF IInv, TypeOK, committed
<1>4. /\ Numbered' /\ StatusMatchesHistory' /\ CompletionsInOrder' /\ CompletedMeansAllSteps'
      /\ NextSequenceNo(history)' = n
      /\ Completed(history)' = Completed(history)
  BY <1>1, QuietStep DEF committed, n
<1>5. a \notin pending
  BY DEF IInv, PendingRows, SelectMax
<1>6. PendingRows'
  BY <1>1, <1>2, <1>5 DEF IInv, PendingRows
<1>7. NumbersInFlight'
  <2>1. \A b \in Actors : local'[b].pc = "insert" => local'[b].seq \in 1..n
    BY <1>0, <1>2 DEF IInv, NumbersInFlight, n
  <2>2. \A b \in pending : local'[b].seq = n
    BY <1>2, <1>5 DEF IInv, NumbersInFlight, TypeOK, n
  <2>3. \A b, c \in pending : b = c
    BY DEF IInv, NumbersInFlight
  <2> QED BY <1>1, <1>4, <2>1, <2>2, <2>3 DEF NumbersInFlight
<1>8. ConclusionsHold'
  BY <1>1, <1>2, <1>4 DEF IInv, ConclusionsHold, InStep, committed, SelectMax
<1>9. NotCreated'
  BY <1>1 DEF IInv, NotCreated, committed, SelectMax
<1> QED
  BY <1>3, <1>4, <1>6, <1>7, <1>8, <1>9 DEF IInv

LEMMA InsertEventStep ==
    ASSUME IInv, NEW a \in Actors, InsertEvent(a)
    PROVE  IInv'
<1> DEFINE n == NextSequenceNo(history)
<1>0. n \in Nat \ {0} /\ {r.seq : r \in history} = 1..(n - 1)
  BY DEF IInv, Numbered
<1>1. local[a].pc = "insert" /\ ~Taken(local[a].seq)
      /\ UNCHANGED <<committed, rowLock, effects, crashes>> /\ pending' = pending \cup {a}
  BY DEF InsertEvent
<1> HIDE DEF n
<1>2. AfterInsert(local[a].kind) \in {"update", "commit"}
  BY DEF AfterInsert
<1>3. /\ local' \in [Actors -> Local]
      /\ local'[a].pc = AfterInsert(local[a].kind) /\ local'[a].seq = local[a].seq
      /\ local'[a].kind = local[a].kind /\ local'[a].step = local[a].step
      /\ \A b \in Actors : b # a => local'[b] = local[b]
  BY <1>2 DEF IInv, TypeOK, InsertEvent, Local
<1>4. TypeOK'
  BY <1>1, <1>3 DEF IInv, TypeOK, committed
<1>5. /\ Numbered' /\ StatusMatchesHistory' /\ CompletionsInOrder' /\ CompletedMeansAllSteps'
      /\ NextSequenceNo(history)' = n
      /\ Completed(history)' = Completed(history)
  BY <1>1, QuietStep DEF committed, n
<1>6. local[a].seq = n
  \* At most the next free number, and not a committed one.
  <2>1. local[a].seq \in 1..n
    BY <1>1 DEF IInv, NumbersInFlight, n
  <2>2. local[a].seq \notin 1..(n - 1)
    BY <1>0, <1>1 DEF Taken
  <2> QED BY <1>0, <2>1, <2>2
<1>7. pending = {}
  \* Another uncommitted event would have that number, and make a wait.
  BY <1>1, <1>6 DEF IInv, NumbersInFlight, InsertEvent, InsertWaitsFor, TypeOK, n
<1>8. PendingRows'
  BY <1>1, <1>3, <1>7 DEF IInv, PendingRows, AfterInsert
<1>9. NumbersInFlight'
  BY <1>1, <1>3, <1>2, <1>5, <1>6, <1>7 DEF IInv, NumbersInFlight, n
<1>10. ConclusionsHold'
  BY <1>1, <1>2, <1>3, <1>5 DEF IInv, ConclusionsHold, InStep, committed
<1>11. NotCreated'
  BY <1>1 DEF IInv, NotCreated, committed
<1> QED
  BY <1>4, <1>5, <1>8, <1>9, <1>10, <1>11 DEF IInv

LEMMA UpdateRowStep ==
    ASSUME IInv, NEW a \in Actors, UpdateRow(a)
    PROVE  IInv'
<1>1. local[a].pc = "update" /\ UNCHANGED <<committed, pending, effects, crashes>> /\ rowLock' = a
  BY DEF UpdateRow
<1>2. AfterUpdate(local[a].kind) \in {"select", "commit"}
  BY DEF AfterUpdate
<1>3. /\ local' \in [Actors -> Local]
      /\ local'[a].pc = AfterUpdate(local[a].kind) /\ local'[a].seq = local[a].seq
      /\ local'[a].kind = local[a].kind /\ local'[a].step = local[a].step
      /\ \A b \in Actors : b # a => local'[b] = local[b]
  BY <1>2 DEF IInv, TypeOK, UpdateRow, Local
<1>4. TypeOK'
  BY <1>1, <1>3 DEF IInv, TypeOK, committed
<1>5. /\ Numbered' /\ StatusMatchesHistory' /\ CompletionsInOrder' /\ CompletedMeansAllSteps'
      /\ NextSequenceNo(history)' = NextSequenceNo(history)
      /\ Completed(history)' = Completed(history)
  BY <1>1, QuietStep DEF committed
<1>6. PendingRows'
  BY <1>1, <1>3 DEF IInv, PendingRows, AfterUpdate
<1>7. NumbersInFlight'
  BY <1>1, <1>2, <1>3, <1>5 DEF IInv, NumbersInFlight, TypeOK
<1>8. ConclusionsHold'
  BY <1>1, <1>2, <1>3, <1>5 DEF IInv, ConclusionsHold, InStep, committed
<1>9. NotCreated'
  BY <1>1 DEF IInv, NotCreated, committed
<1> QED
  BY <1>4, <1>5, <1>6, <1>7, <1>8, <1>9 DEF IInv

LEMMA RollbackStep ==
    ASSUME IInv, NEW a \in Actors, Rollback(a), crashes' \in Nat
    PROVE  IInv'
<1>1. rowLock' \in Actors \cup {NoActor}
  BY DEF IInv, TypeOK, Rollback, Release
<1> QED
  BY <1>1, IdleStep DEF Rollback, Release

-----------------------------------------------------------------------------
(* Steps that commit. *)

LEMMA StatusAfterFacts ==
    ASSUME NEW k \in EventTypes \ {"STARTED"}, NEW old \in Statuses
    PROVE  /\ StatusAfter(k, old) \in Statuses
           /\ k \in StatusEvents => StatusAfter(k, old) = StatusAfter(k, "RUNNING")
           /\ k \notin StatusEvents => StatusAfter(k, old) = old
<1>1. CASE k \in StatusEvents
  BY <1>1 DEF StatusAfter, Statuses, StatusEvents, OperatorEvents
<1>2. CASE k \notin StatusEvents
  BY <1>2 DEF StatusAfter, Statuses, StatusEvents, OperatorEvents, EventTypes, StepEvents
<1> QED BY <1>1, <1>2

LEMMA CommitStep ==
    ASSUME IInv, NEW a \in Actors, Commit(a)
    PROVE  IInv'
<1> DEFINE me == local[a]
           n == NextSequenceNo(history)
           row == Event(a)
<1>1. /\ me.pc = "commit" /\ a \in pending /\ me.seq = n /\ n \in Nat \ {0}
      /\ \A b \in pending : b = a
  BY DEF IInv, PendingRows, NumbersInFlight, Numbered, Commit
<1>2. /\ me \in Local /\ me.kind # "STARTED"
      /\ me.kind \in StepEvents => me.step \in Steps /\ 1..(me.step - 1) \subseteq Completed(history)
      /\ me.kind \notin StepEvents => me.step = NoStep
      /\ me.kind \in {"STEP_COMPLETED", "STEP_FAILED"} =>
            \E q \in history : q.type = "STEP_STARTED" /\ q.step = me.step
      /\ me.kind = "COMPLETED" => definition = "engine" /\ Steps \subseteq Completed(history)
  BY <1>1 DEF IInv, ConclusionsHold, InStep, TypeOK
<1>3. row.seq = n /\ row.type = me.kind /\ row.step = me.step /\ row \in Rows
  BY <1>1, <1>2 DEF Event, Rows, Local
<1>4. history' = history \cup {row} /\ definition' = definition
  <2>1. pending \cap {a} = {a}
    BY <1>1
  <2> QED BY <2>1 DEF Commit
<1> HIDE DEF me, n, row
<1>5. /\ Numbered' /\ NextSequenceNo(history)' = n + 1
      /\ \A q \in history : q.seq < row.seq
  BY <1>3, <1>4, AppendRow DEF IInv, n
<1>6. Completed(history) \subseteq Completed(history)'
  BY <1>4 DEF Completed
<1>7. me.kind = "STEP_COMPLETED" => me.step \in Completed(history)'
  BY <1>3, <1>4 DEF Completed
<1>8. /\ pending' = {} /\ rowLock' \in Actors \cup {NoActor}
      /\ UNCHANGED <<effects, crashes>>
  BY <1>1 DEF Commit, Release, IInv, TypeOK
<1>9. /\ local' \in [Actors -> Local]
      /\ me.kind = "STEP_STARTED" =>
            /\ local'[a].pc = "exec" /\ local'[a].kind = me.kind /\ local'[a].step = me.step
      /\ me.kind # "STEP_STARTED" => local'[a].pc \in {"idle", "loop"}
      /\ \A b \in Actors : b # a => local'[b] = local[b]
  <2>1. CASE me.kind = "STEP_STARTED"
    <3> DEFINE new == [me EXCEPT !.pc = "exec"]
    <3>1. new \in Local /\ new.pc = "exec" /\ new.kind = me.kind /\ new.step = me.step
      BY <1>2 DEF Local
    <3>2. local' = [local EXCEPT ![a] = new]
      BY <2>1 DEF Commit, AfterCommit, me
    <3> HIDE DEF new
    <3> QED BY <2>1, <3>1, <3>2, LocalUpdate DEF IInv
  <2>2. CASE me.kind # "STEP_STARTED"
    <3> DEFINE new == AfterCommit(me)
    <3>1. new \in Local /\ new.pc \in {"idle", "loop"}
      BY <2>2 DEF AfterCommit, Loop, Idle, Local, EventTypes, NoStep
    <3>2. local' = [local EXCEPT ![a] = new]
      BY DEF Commit, me
    <3> HIDE DEF new
    <3> QED BY <2>2, <3>1, <3>2, LocalUpdate DEF IInv
  <2> QED BY <2>1, <2>2
<1>10. TypeOK'
  <2>1. status' \in Statuses
    BY <1>2, StatusAfterFacts DEF IInv, TypeOK, Commit, Local, me
  <2>2. cached' \subseteq Steps
    BY <1>2 DEF IInv, TypeOK, Commit, Local, me, NewState, StepEvents
  <2>3. escalations' \in Nat
    BY DEF IInv, TypeOK, Commit
  <2> QED BY <1>3, <1>4, <1>8, <1>9, <2>1, <2>2, <2>3 DEF IInv, TypeOK
<1>11. PendingRows'
  BY <1>1, <1>8, <1>9 DEF IInv, PendingRows
<1>12. NumbersInFlight'
  BY <1>1, <1>5, <1>8, <1>9 DEF IInv, NumbersInFlight, n
<1>13. ConclusionsHold'
  <2> SUFFICES ASSUME NEW b \in Actors, InStep(b)'
               PROVE  /\ local'[b].kind # "STARTED"
                      /\ local'[b].pc = "exec" => local'[b].kind = "STEP_STARTED"
                      /\ local'[b].kind \in StepEvents =>
                            /\ local'[b].step \in Steps
                            /\ 1..(local'[b].step - 1) \subseteq Completed(history)'
                      /\ local'[b].kind \notin StepEvents => local'[b].step = NoStep
                      /\ local'[b].pc = "exec" \/ local'[b].kind \in {"STEP_COMPLETED", "STEP_FAILED"} =>
                            \E q \in history' : q.type = "STEP_STARTED" /\ q.step = local'[b].step
                      /\ local'[b].kind = "COMPLETED" =>
                            definition' = "engine" /\ Steps \subseteq Completed(history)'
    BY DEF ConclusionsHold
  <2>1. CASE b = a
    BY <1>2, <1>3, <1>4, <1>6, <1>9, <2>1 DEF InStep, StepEvents
  <2>2. CASE b # a
    BY <1>4, <1>6, <1>9, <2>2 DEF IInv, ConclusionsHold, InStep
  <2> QED BY <2>1, <2>2
<1>14. NotCreated'
  BY <1>1, <1>4 DEF IInv, NotCreated, me
<1>15. StatusMatchesHistory'
  <2> SUFFICES ASSUME NEW r \in history', r.type \in StatusEvents,
                      \A q \in history' : q.type \in StatusEvents => q.seq <= r.seq
               PROVE  status' = StatusAfter(r.type, "RUNNING")
    BY DEF StatusMatchesHistory
  <2>1. status' = StatusAfter(me.kind, status)
    BY DEF Commit, me
  <2>2. /\ me.kind \in StatusEvents => status' = StatusAfter(me.kind, "RUNNING")
        /\ me.kind \notin StatusEvents => status' = status
    BY <1>2, <2>1, StatusAfterFacts DEF IInv, TypeOK, Local
  <2>3. CASE me.kind \in StatusEvents
    <3>1. row.seq <= r.seq
      BY <1>3, <1>4, <2>3
    <3>2. r \notin history
      BY <1>1, <1>3, <1>5, <3>1 DEF IInv, TypeOK, Rows
    <3> QED BY <1>3, <1>4, <2>2, <2>3, <3>2
  <2>4. CASE me.kind \notin StatusEvents
    <3>1. r \in history
      BY <1>3, <1>4, <2>4
    <3> QED BY <1>4, <2>2, <2>4, <3>1 DEF IInv, StatusMatchesHistory
  <2> QED BY <2>3, <2>4
<1>16. CompletionsInOrder'
  <2> SUFFICES ASSUME NEW r \in history', r.type = "STEP_COMPLETED"
               PROVE  /\ \E q \in history' : q.seq < r.seq /\ q.type = "STEP_STARTED" /\ q.step = r.step
                      /\ \A t \in 1..(r.step - 1) : \E q \in history' :
                            q.seq < r.seq /\ q.type = "STEP_COMPLETED" /\ q.step = t
    BY DEF CompletionsInOrder
  <2>1. CASE r \in history
    BY <1>4, <2>1 DEF IInv, CompletionsInOrder
  <2>2. CASE r = row
    <3>1. 1..(me.step - 1) \subseteq Completed(history)
      BY <1>2, <1>3, <2>2 DEF StepEvents
    <3>2. \A t \in 1..(me.step - 1) : \E q \in history : q.type = "STEP_COMPLETED" /\ q.step = t
      BY <3>1 DEF Completed
    <3> QED BY <1>2, <1>3, <1>4, <1>5, <2>2, <3>2
  <2> QED BY <1>4, <2>1, <2>2
<1>17. CompletedMeansAllSteps'
  BY <1>2, <1>3, <1>4, <1>6 DEF IInv, CompletedMeansAllSteps
<1> QED
  BY <1>5, <1>10, <1>11, <1>12, <1>13, <1>14, <1>15, <1>16, <1>17 DEF IInv

LEMMA StartWorkflowStep ==
    ASSUME IInv, NEW d \in {"api", "engine"}, StartWorkflow(d)
    PROVE  IInv'
<1> DEFINE row == [seq |-> 1, type |-> "STARTED", step |-> NoStep]
<1>1. NextSequenceNo({}) = 1
  BY NextNumber, 0 \in Nat, {r.seq : r \in {}} = 1..0
<1>2. /\ history = {} /\ status = "RUNNING" /\ \A b \in Actors : local[b].pc = "idle"
      /\ UNCHANGED <<status, cached, escalations, local, pending, rowLock, effects, crashes>>
      /\ definition' = d /\ history' = {row}
  BY <1>1 DEF IInv, NotCreated, StartWorkflow
<1>3. TypeOK'
  BY <1>2 DEF IInv, TypeOK, Rows, EventTypes, StepEvents
<1>4. Numbered'
  <2>1. row.seq = NextSequenceNo(history) /\ history' = history \cup {row}
    BY <1>1, <1>2
  <2> HIDE DEF row
  <2> QED BY <2>1, AppendRow DEF IInv
<1>5. pending = {}
  BY <1>2 DEF IInv, TypeOK, PendingRows
<1>6. PendingRows' /\ NumbersInFlight' /\ ConclusionsHold' /\ NotCreated'
  BY <1>2, <1>5 DEF PendingRows, NumbersInFlight, ConclusionsHold, InStep, NotCreated
<1>7. StatusMatchesHistory'
  BY <1>2 DEF StatusMatchesHistory, StatusAfter
<1>8. CompletionsInOrder' /\ CompletedMeansAllSteps'
  BY <1>2 DEF CompletionsInOrder, CompletedMeansAllSteps
<1> QED
  BY <1>3, <1>4, <1>6, <1>7, <1>8 DEF IInv

-----------------------------------------------------------------------------
(* The theorems. *)

LEMMA InitStep == Init => IInv
<1> SUFFICES ASSUME Init
             PROVE  IInv
  OBVIOUS
<1>1. TypeOK
  BY DEF Init, TypeOK, Statuses, Idle, Local, EventTypes, NoStep
<1>2. NextSequenceNo(history) = 1
  BY NextNumber, 0 \in Nat, {r.seq : r \in {}} = 1..0 DEF Init
<1>3. Numbered
  BY <1>2 DEF Init, Numbered
<1>4. PendingRows /\ NumbersInFlight /\ ConclusionsHold /\ NotCreated
  BY DEF Init, Idle, PendingRows, NumbersInFlight, ConclusionsHold, InStep, NotCreated
<1>5. StatusMatchesHistory /\ CompletionsInOrder /\ CompletedMeansAllSteps
  BY DEF Init, StatusMatchesHistory, CompletionsInOrder, CompletedMeansAllSteps
<1> QED
  BY <1>1, <1>3, <1>4, <1>5 DEF IInv

LEMMA NextStep == IInv /\ [Next]_vars => IInv'
<1> SUFFICES ASSUME IInv, [Next]_vars
             PROVE  IInv'
  OBVIOUS
<1>1. ASSUME NEW d \in {"api", "engine"}, StartWorkflow(d) PROVE IInv'
  BY <1>1, StartWorkflowStep
<1>2. ASSUME NEW w \in Workers, Worker(w) PROVE IInv'
  BY <1>2, ReadStatusStep, ReplayStep, ExecuteStepStep DEF Worker, Actors
<1>3. ASSUME NEW o \in Operators, NEW k \in OperatorEvents, Request(o, k) PROVE IInv'
  BY <1>3, RequestStep
<1>4. ASSUME NEW a \in Actors, Statement(a) PROVE IInv'
  <2>1. CASE Rollback(a) /\ UNCHANGED crashes
    BY <2>1, RollbackStep DEF IInv, TypeOK
  <2> QED
    BY <1>4, <2>1, SelectMaxStep, InsertEventStep, UpdateRowStep, CommitStep
    DEF Statement, UniqueViolation, DeadlockVictim
<1>5. ASSUME NEW a \in Actors, Crash(a) PROVE IInv'
  BY <1>5, RollbackStep DEF Crash, IInv, TypeOK
<1>6. CASE UNCHANGED vars
  BY <1>6 DEF IInv, vars, TypeOK, Numbered, PendingRows, NumbersInFlight, ConclusionsHold, InStep,
     NotCreated, StatusMatchesHistory, CompletionsInOrder, CompletedMeansAllSteps
<1> QED
  BY <1>1, <1>2, <1>3, <1>4, <1>5, <1>6 DEF Next

\* The inductive invariant holds of every behaviour.
THEOREM Invariance == Spec => []IInv
BY InitStep, NextStep, PTL DEF Spec

\* Every variable keeps its type.
THEOREM TypeCorrectness == Spec => []TypeOK
<1>1. IInv => TypeOK
  BY DEF IInv
<1> QED
  BY <1>1, Invariance, PTL

\* history.ts: sequence_no "stays gap-free per workflow".
THEOREM GapFree == Spec => []HistoryGapFree
<1>1. IInv => HistoryGapFree
  <2> SUFFICES ASSUME IInv
               PROVE  HistoryGapFree
    OBVIOUS
  <2> DEFINE m == NextSequenceNo(history) - 1
  <2>1. m \in Nat /\ {r.seq : r \in history} = 1..m
    BY DEF IInv, Numbered
  <2> HIDE DEF m
  <2>2. ASSUME NEW r \in history, NEW n \in 1..r.seq
        PROVE  \E q \in history : q.seq = n
    <3>1. r.seq \in 1..m
      BY <2>1, <2>2
    <3>2. n \in 1..m
      BY <2>1, <3>1
    <3> QED BY <2>1, <3>2
  <2> QED BY <2>2 DEF HistoryGapFree, IInv, Numbered
<1> QED
  BY <1>1, Invariance, PTL

\* The mutable row is the image of the log.
THEOREM StatusIsReplayed == Spec => []StatusMatchesHistory
<1>1. IInv => StatusMatchesHistory
  BY DEF IInv
<1> QED
  BY <1>1, Invariance, PTL

\* Steps complete in the order of the definition.
THEOREM StepsInOrder == Spec => []CompletionsInOrder
<1>1. IInv => CompletionsInOrder
  BY DEF IInv
<1> QED
  BY <1>1, Invariance, PTL

\* A workflow recorded as completed has completed every step.
THEOREM CompletionIsTotal == Spec => []CompletedMeansAllSteps
<1>1. IInv => CompletedMeansAllSteps
  BY DEF IInv
<1> QED
  BY <1>1, Invariance, PTL

\* Committed rows are never changed or removed, and new ones come last.
THEOREM HistoryAppendOnly == Spec => AppendOnly
<1> DEFINE A == /\ history \subseteq history'
                /\ \A r \in history' \ history, q \in history : q.seq < r.seq
<1>1. ASSUME IInv, [Next]_vars
      PROVE  [A]_vars
  <2>1. ASSUME NEW a \in Actors, Commit(a)
        PROVE  A
    <3>1. a \in pending /\ pending \cap {a} = {a} /\ Event(a).seq = NextSequenceNo(history)
      BY <1>1, <2>1 DEF IInv, PendingRows, NumbersInFlight, Commit, Event
    <3>2. history' = history \cup {Event(a)}
      BY <2>1, <3>1 DEF Commit
    <3>3. \A q \in history : q.seq < Event(a).seq
      BY <1>1, <3>1, <3>2, AppendRow DEF IInv
    <3> QED BY <3>2, <3>3
  <2>2. ASSUME NEW d \in {"api", "engine"}, StartWorkflow(d)
        PROVE  A
    BY <1>1, <2>2 DEF IInv, NotCreated, StartWorkflow
  <2>3. CASE UNCHANGED history
    BY <2>3
  <2>4. ASSUME NEW a \in Actors, Statement(a) \/ Crash(a), ~Commit(a)
        PROVE  UNCHANGED history
    BY <2>4 DEF Statement, SelectMax, InsertEvent, UpdateRow, UniqueViolation, DeadlockVictim,
       Crash, Rollback, committed
  <2>5. ASSUME NEW w \in Workers, Worker(w)
        PROVE  UNCHANGED history
    BY <2>5 DEF Worker, ReadStatus, Replay, ExecuteStep, committed
  <2>6. ASSUME NEW o \in Operators, NEW k \in OperatorEvents, Request(o, k)
        PROVE  UNCHANGED history
    BY <2>6 DEF Request, committed
  <2> QED
    BY <1>1, <2>1, <2>2, <2>3, <2>4, <2>5, <2>6 DEF Next
<1> QED
  BY <1>1, Invariance, PTL DEF Spec, AppendOnly

-----------------------------------------------------------------------------
(* Who waits for whom. *)

\* A step of one actor may only change what it holds itself.
LEMMA LockOfOne ==
    ASSUME LockFits, NEW a \in Actors,
           \A b \in Actors : b # a => local'[b] = local[b] /\ (rowLock' = b <=> rowLock = b),
           rowLock' = a <=> LocksRow(a)',
           local'[a].pc = "update" => local'[a].kind # "STEP_STARTED"
    PROVE  LockFits'
BY DEF LockFits, LocksRow

\* An actor that begins a transaction holds no lock.
LEMMA LockBegin ==
    ASSUME TypeOK, LockFits, NEW a \in Actors, local[a].pc \in {"idle", "replay", "exec"}, UNCHANGED rowLock,
           NEW k \in EventTypes, NEW s \in Steps \cup {NoStep}, NEW done \in SUBSET Steps, Begin(a, k, s, done)
    PROVE  LockFits'
<1>1. /\ local'[a].pc = FirstStatement(k) /\ local'[a].kind = k
      /\ \A b \in Actors : b # a => local'[b] = local[b]
  BY BeginUpdate
<1>2. rowLock # a
  BY DEF LockFits, LocksRow
<1> QED
  BY <1>1, <1>2, LockOfOne DEF LocksRow, FirstStatement, StepEvents

\* One that ends its transaction gives it back.
LEMMA LockEnd ==
    ASSUME TypeOK, LockFits, NEW a \in Actors, NEW new \in Local, local' = [local EXCEPT ![a] = new],
           Release(a), new.pc \in {"idle", "loop", "exec"}
    PROVE  LockFits'
<1>1. local'[a] = new /\ \A b \in Actors : b # a => local'[b] = local[b]
  BY LocalUpdate
<1>2. NoActor \notin Actors
  BY ActorsAssumption DEF Actors
<1>3. /\ rowLock' # a
      /\ \A b \in Actors : b # a => (rowLock' = b <=> rowLock = b)
  BY <1>2 DEF Release, TypeOK
<1> QED
  BY <1>1, <1>3, LockOfOne DEF LocksRow

LEMMA LockNext == ASSUME IInv, LockFits, [Next]_vars PROVE LockFits'
<1>1. TypeOK /\ Workers \subseteq Actors /\ Operators \subseteq Actors /\ NoActor \notin Actors
  BY ActorsAssumption DEF IInv, Actors
<1>2. Idle \in Local /\ Idle.pc = "idle"
  BY DEF Idle, Local, EventTypes, NoStep
<1>3. CASE UNCHANGED <<local, rowLock>>
  BY <1>3 DEF LockFits, LocksRow
<1>4. ASSUME NEW w \in Workers, ReadStatus(w) PROVE LockFits'
  <2>1. local[w].pc \in {"idle", "loop"} /\ UNCHANGED rowLock
    BY <1>4 DEF ReadStatus
  <2>2. local'[w].pc \in {"idle", "replay"} /\ \A b \in Actors : b # w => local'[b] = local[b]
    BY <1>1, <1>2, <1>4 DEF ReadStatus, TypeOK, Local
  <2> QED
    BY <1>1, <2>1, <2>2, LockOfOne DEF LockFits, LocksRow
<1>5. ASSUME NEW w \in Workers, Replay(w) PROVE LockFits'
  <2>1. local[w].pc = "replay" /\ UNCHANGED <<pending, rowLock>> /\ Completed(history) \in SUBSET Steps
    BY <1>1, <1>5, CompletedAreSteps DEF Replay
  <2>2. CASE local' = [local EXCEPT ![w] = Idle]
    <3>1. local'[w] = Idle /\ \A b \in Actors : b # w => local'[b] = local[b]
      BY <1>1, <1>2, <2>2, LocalUpdate
    <3> QED
      BY <1>1, <1>2, <2>1, <3>1, LockOfOne DEF LockFits, LocksRow
  <2>3. ASSUME NEW k \in EventTypes, NEW s \in Steps \cup {NoStep}, Begin(w, k, s, Completed(history))
        PROVE  LockFits'
    BY <1>1, <2>1, <2>3, LockBegin
  <2>4. "COMPLETED" \in EventTypes /\ "STEP_STARTED" \in EventTypes
    BY DEF EventTypes, StepEvents
  <2> QED
    BY <1>5, <2>2, <2>3, <2>4 DEF Replay
<1>6. ASSUME NEW w \in Workers, NEW outcome \in {"STEP_COMPLETED", "STEP_FAILED"},
             NEW performed \in BOOLEAN, ExecuteStep(w, outcome, performed)
      PROVE  LockFits'
  <2>1. outcome \in EventTypes /\ local[w].step \in Steps \cup {NoStep} /\ local[w].seen \in SUBSET Steps
    BY <1>1 DEF TypeOK, Local, EventTypes, StepEvents
  <2> QED
    BY <1>1, <1>6, <2>1, LockBegin DEF ExecuteStep
<1>7. ASSUME NEW o \in Operators, NEW k \in OperatorEvents, Request(o, k) PROVE LockFits'
  <2>1. k \in EventTypes /\ {} \in SUBSET Steps
    BY DEF EventTypes
  <2> QED
    BY <1>1, <1>7, <2>1, LockBegin DEF Request
<1>8. ASSUME NEW a \in Actors, Statement(a) \/ Crash(a) PROVE LockFits'
  <2>1. CASE Rollback(a)
    BY <1>1, <1>2, <2>1, LockEnd DEF Rollback
  <2>2. CASE SelectMax(a)
    <3>1. /\ local'[a].pc = "insert" /\ local'[a].kind = local[a].kind /\ UNCHANGED rowLock /\ local[a].pc = "select"
          /\ \A b \in Actors : b # a => local'[b] = local[b]
      BY <1>1, <2>2 DEF SelectMax, TypeOK, Local
    <3> QED
      BY <3>1, LockOfOne DEF LockFits, LocksRow
  <2>3. CASE InsertEvent(a)
    <3>1. /\ local'[a].pc = AfterInsert(local[a].kind) /\ local'[a].kind = local[a].kind
          /\ UNCHANGED rowLock /\ local[a].pc = "insert"
          /\ \A b \in Actors : b # a => local'[b] = local[b]
      BY <1>1, <2>3 DEF InsertEvent, TypeOK, Local
    <3> QED
      BY <3>1, LockOfOne DEF LockFits, LocksRow, AfterInsert, StepEvents
  <2>4. CASE UpdateRow(a)
    <3>1. /\ local'[a].pc = AfterUpdate(local[a].kind) /\ local'[a].kind = local[a].kind
          /\ rowLock = NoActor /\ rowLock' = a /\ local[a].pc = "update"
          /\ \A b \in Actors : b # a => local'[b] = local[b]
      BY <1>1, <2>4 DEF UpdateRow, TypeOK, Local
    <3> QED
      BY <1>1, <3>1, LockOfOne DEF LockFits, LocksRow, AfterUpdate, StepEvents
  <2>5. CASE Commit(a)
    <3> DEFINE new == AfterCommit(local[a])
    <3>1. new \in Local /\ new.pc \in {"idle", "loop", "exec"}
      BY <1>1, <1>2 DEF TypeOK, Local, AfterCommit, Loop, Idle
    <3>2. local' = [local EXCEPT ![a] = new] /\ Release(a)
      BY <2>5 DEF Commit
    <3> QED
      BY <1>1, <3>1, <3>2, LockEnd
  <2> QED
    BY <1>8, <2>1, <2>2, <2>3, <2>4, <2>5 DEF Statement, UniqueViolation, DeadlockVictim, Crash
<1>9. CASE \E d \in {"api", "engine"} : StartWorkflow(d)
  BY <1>3, <1>9 DEF StartWorkflow
<1> QED
  BY <1>3, <1>4, <1>5, <1>6, <1>7, <1>8, <1>9 DEF Next, Worker, vars

\* One transaction has the row, and one the next number: of three that wait in
\* a row, the last two are these, and wait for each other.
LEMMA WaitsOfTwo == ASSUME IInv, LockFits PROVE WaitsEnd
<1> SUFFICES ASSUME NEW a \in Actors, NEW b \in Actors, NEW c \in Actors, NEW d \in Actors,
                    Waits(a, b), Waits(b, c), Waits(c, d)
             PROVE  Deadlocked(b, c) \/ Deadlocked(c, b)
  BY DEF WaitsEnd
<1>1. \A e, f \in pending : e = f
  BY DEF IInv, NumbersInFlight
<1>2. ASSUME NEW e \in pending, local[e].pc \in {"update", "insert"} PROVE local[e].pc = "update"
  BY <1>2 DEF IInv, PendingRows, TypeOK
<1>3. ASSUME NEW e \in Actors, rowLock = e PROVE local[e].pc # "update"
  BY <1>3 DEF LockFits, LocksRow
<1>4. /\ local[b].pc \in {"update", "insert"} /\ local[c].pc \in {"update", "insert"}
      /\ rowLock = b \/ b \in pending
      /\ rowLock = c \/ c \in pending
  BY DEF Waits, InsertWaitsFor
<1>5. CASE rowLock = b
  <2>1. local[b].pc = "insert" /\ InsertWaitsFor(b, c)
    BY <1>3, <1>4, <1>5 DEF Waits
  <2>2. local[c].pc = "update" /\ rowLock = d /\ d = b
    BY <1>2, <1>4, <1>5, <2>1 DEF Waits, InsertWaitsFor
  <2> QED
    BY <1>5, <2>1, <2>2 DEF Deadlocked
<1>6. CASE b \in pending
  <2>1. local[b].pc = "update" /\ rowLock = c
    BY <1>2, <1>4, <1>6 DEF Waits, InsertWaitsFor
  <2>2. InsertWaitsFor(c, d) /\ d = b
    BY <1>1, <1>3, <1>6, <2>1 DEF Waits, InsertWaitsFor
  <2> QED
    BY <2>1, <2>2 DEF Deadlocked
<1> QED
  BY <1>4, <1>5, <1>6

\* The database's detector finds every deadlock of the engine between two
\* transactions; there are no longer circles, and all other waiting ends.
THEOREM WaitingEnds == Spec => []WaitsEnd
<1>1. Init => LockFits
  BY ActorsAssumption DEF Init, LockFits, LocksRow, Idle, Actors
<1>2. IInv /\ LockFits /\ [Next]_vars => LockFits'
  BY LockNext
<1>3. IInv /\ LockFits => WaitsEnd
  BY WaitsOfTwo
<1> QED
  BY Invariance, <1>1, <1>2, <1>3, PTL DEF Spec
=============================================================================
