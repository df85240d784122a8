------------------------ MODULE WorkflowCountsProofs ------------------------
(***************************************************************************)
(* What counting shows of WorkflowEngine, for any finite number of workers *)
(* and any number of requests and steps: CountInv is inductive, records    *)
(* are backed by effects, a stop is overtaken by one start for each        *)
(* worker, and the engine implements WorkflowLog.  With one worker, what   *)
(* it replayed stays true (SingleInv), so the cache is the replay and      *)
(* nothing completed runs again.                                           *)
(***************************************************************************)
EXTENDS WorkflowEngineProofs, Sequences, FiniteSetTheorems

\* The numbers make the history finite, and say how long it is.
LEMMA NumberedFinite ==
    ASSUME NEW rows, NEW m \in Nat, {r.seq : r \in rows} = 1..m,
           \A r, q \in rows : r.seq = q.seq => r = q
    PROVE  IsFiniteSet(rows) /\ Cardinality(rows) = m
<1> DEFINE f == [r \in rows |-> r.seq]
<1>1. f \in Bijection(rows, 1..m)
  BY DEF Bijection, Injection, IsInjective, Surjection
<1>2. f \in Injection(rows, 1..m) /\ f \in Surjection(rows, 1..m)
  BY <1>1 DEF Bijection
<1>3. IsFiniteSet(1..m) /\ Cardinality(1..m) = m
  BY FS_Interval
<1> QED
  BY <1>2, <1>3, FS_Injection

LEMMA HistoryFinite ==
    ASSUME Numbered
    PROVE  IsFiniteSet(history) /\ Cardinality(history) = NextSequenceNo(history) - 1
<1> DEFINE m == NextSequenceNo(history) - 1
<1>1. m \in Nat /\ {r.seq : r \in history} = 1..m /\ \A r, q \in history : r.seq = q.seq => r = q
  BY DEF Numbered
<1> HIDE DEF m
<1>2. IsFiniteSet(history) /\ Cardinality(history) = m
  BY <1>1, NumberedFinite
<1> QED
  BY <1>2 DEF m

\* So every set of its rows has a size.
LEMMA RowsFinite ==
    ASSUME Numbered
    PROVE  /\ \A type, s : IsFiniteSet(RowsOf(type, s)) /\ Cardinality(RowsOf(type, s)) \in Nat
           /\ IsFiniteSet(LateStarts) /\ Cardinality(LateStarts) \in Nat
<1>1. ASSUME NEW S \in SUBSET history PROVE IsFiniteSet(S) /\ Cardinality(S) \in Nat
  BY <1>1, HistoryFinite, FS_Subset, FS_CardinalityType
<1> QED
  BY <1>1 DEF RowsOf, LateStarts

\* A set that grows by at most one element.
LEMMA AtMostOneMore ==
    ASSUME NEW S, IsFiniteSet(S), NEW x, NEW T \in SUBSET (S \cup {x})
    PROVE  /\ IsFiniteSet(T) /\ Cardinality(T) \in Nat /\ Cardinality(S) \in Nat
           /\ Cardinality(T) <= Cardinality(S) + 1
           /\ x \notin T => Cardinality(T) <= Cardinality(S)
           /\ x \in S => Cardinality(T) <= Cardinality(S)
           /\ x \in S /\ x \notin T => Cardinality(T) <= Cardinality(S) - 1
<1>1. IsFiniteSet(S \cup {x}) /\ Cardinality(S \cup {x}) = IF x \in S THEN Cardinality(S) ELSE Cardinality(S) + 1
  BY FS_AddElement
<1>2. IsFiniteSet(T) /\ Cardinality(T) <= Cardinality(S \cup {x})
  BY <1>1, FS_Subset
<1>3. Cardinality(T) \in Nat /\ Cardinality(S) \in Nat /\ Cardinality(S \cup {x}) \in Nat
  BY <1>1, <1>2, FS_CardinalityType
<1>4. x \notin T => Cardinality(T) <= Cardinality(S)
  <2>1. x \notin T => T \in SUBSET S
    OBVIOUS
  <2> QED BY <2>1, FS_Subset
<1>5. x \in S /\ x \notin T => Cardinality(T) <= Cardinality(S) - 1
  <2>1. IsFiniteSet(S \ {x}) /\ Cardinality(S \ {x}) = IF x \in S THEN Cardinality(S) - 1 ELSE Cardinality(S)
    BY FS_RemoveElement
  <2>2. x \notin T => T \in SUBSET (S \ {x})
    OBVIOUS
  <2> QED BY <2>1, <2>2, FS_Subset
<1> QED
  BY <1>1, <1>2, <1>3, <1>4, <1>5

-----------------------------------------------------------------------------
(* Steps that commit nothing. *)

\* The rows stay; no one new answers a start, a new record has a new effect,
\* and a stopped workflow has no new worker on the way to a start.
LEMMA QuietCount ==
    ASSUME CountInv, TypeOK', UNCHANGED <<status, history, escalations>>, NEW a,
           \A s \in Steps :
               /\ Answering(s)' \subseteq Answering(s)
               /\ effects'[s] >= effects[s]
               /\ \/ Recording(s)' \subseteq Recording(s)
                  \/ /\ Recording(s)' \subseteq Recording(s) \cup {a}
                     /\ effects'[s] = effects[s] + 1,
           \/ MayStart' \subseteq MayStart
           \/ status = "RUNNING" /\ MayStart' \subseteq Workers
    PROVE  EffectsCover' /\ StartsCover' /\ StopsCover' /\ (escalations = Cardinality(RowsOf("ESCALATED", NoStep)))'
<1>1. /\ \A type, s : /\ RowsOf(type, s)' = RowsOf(type, s)
                      /\ Cardinality(RowsOf(type, s)) \in Nat
      /\ LateStarts' = LateStarts /\ Cardinality(LateStarts) \in Nat
  <2>1. \A type, s : RowsOf(type, s)' = RowsOf(type, s)
    BY DEF RowsOf
  <2>2. LateStarts' = LateStarts
    BY DEF LateStarts
  <2> QED BY <2>1, <2>2, RowsFinite DEF CountInv, IInv
<1>2. EffectsCover'
  <2> SUFFICES ASSUME NEW s \in Steps
               PROVE  /\ IsFiniteSet(Recording(s)')
                      /\ Cardinality(RowsOf("STEP_COMPLETED", s)') + Cardinality(Recording(s)') <= effects'[s]
    BY DEF EffectsCover
  <2> DEFINE A == Recording(s)
             B == Recording(s)'
             c == Cardinality(RowsOf("STEP_COMPLETED", s))
  <2>1. IsFiniteSet(A) /\ c \in Nat /\ c + Cardinality(A) <= effects[s]
    BY <1>1 DEF CountInv, EffectsCover
  <2>2. effects[s] \in Nat /\ effects'[s] \in Nat
    BY DEF CountInv, IInv, TypeOK
  <2>3. /\ B \subseteq A \cup {a} /\ effects'[s] >= effects[s]
        /\ B \subseteq A \/ effects'[s] = effects[s] + 1
    OBVIOUS
  <2>4. Cardinality(RowsOf("STEP_COMPLETED", s)') = c
    BY <1>1
  <2> HIDE DEF A, B, c
  <2>5. /\ IsFiniteSet(B) /\ Cardinality(B) \in Nat /\ Cardinality(A) \in Nat
        /\ Cardinality(B) <= Cardinality(A) + 1
    BY <2>1, <2>3, AtMostOneMore
  <2>6. B \subseteq A => Cardinality(B) <= Cardinality(A)
    BY <2>1, FS_Subset
  <2> QED BY <2>1, <2>2, <2>3, <2>4, <2>5, <2>6 DEF A, B
<1>3. StartsCover'
  <2> SUFFICES ASSUME NEW s \in Steps
               PROVE  /\ IsFiniteSet(Answering(s)')
                      /\ Cardinality(RowsOf("STEP_COMPLETED", s)') + Cardinality(RowsOf("STEP_FAILED", s)')
                           + Cardinality(Answering(s)') <= Cardinality(RowsOf("STEP_STARTED", s)')
    BY DEF StartsCover
  <2>1. /\ IsFiniteSet(Answering(s)) /\ Answering(s)' \subseteq Answering(s)
        /\ Cardinality(RowsOf("STEP_COMPLETED", s)) + Cardinality(RowsOf("STEP_FAILED", s))
             + Cardinality(Answering(s)) <= Cardinality(RowsOf("STEP_STARTED", s))
    BY DEF CountInv, StartsCover
  <2>2. /\ IsFiniteSet(Answering(s)') /\ Cardinality(Answering(s)') <= Cardinality(Answering(s))
        /\ Cardinality(Answering(s)) \in Nat /\ Cardinality(Answering(s)') \in Nat
    BY <2>1, FS_Subset, FS_CardinalityType
  <2> QED BY <1>1, <2>1, <2>2
<1>4. StopsCover'
  <2>1. /\ MayStart \subseteq Workers /\ MayStart' \subseteq Workers
        /\ status # "RUNNING" => Cardinality(LateStarts) + Cardinality(MayStart) <= Cardinality(Workers)
    BY DEF CountInv, StopsCover
  <2>2. /\ IsFiniteSet(MayStart) /\ Cardinality(MayStart) \in Nat
        /\ Cardinality(MayStart') \in Nat /\ Cardinality(Workers) \in Nat
        /\ status # "RUNNING" => Cardinality(MayStart') <= Cardinality(MayStart)
    BY <2>1, WorkersAssumption, FS_Subset, FS_CardinalityType
  <2> QED BY <1>1, <2>1, <2>2 DEF StopsCover
<1> QED
  BY <1>1, <1>2, <1>3, <1>4 DEF CountInv

\* What is left to show of a step of actor a: how a itself is counted.
LEMMA ActorCount ==
    ASSUME CountInv, IInv', UNCHANGED <<status, history, escalations>>, NEW a \in Actors,
           \A b \in Actors : b # a => local'[b] = local[b],
           \A s \in Steps :
               /\ a \in Answering(s)' => a \in Answering(s)
               /\ effects'[s] >= effects[s]
               /\ a \in Recording(s)' => a \in Recording(s) \/ effects'[s] = effects[s] + 1,
           a \in MayStart' => a \in MayStart \/ (status = "RUNNING" /\ a \in Workers)
    PROVE  CountInv'
<1>1. ASSUME NEW s \in Steps
      PROVE  /\ Answering(s)' \subseteq Answering(s)
             /\ effects'[s] >= effects[s]
             /\ \/ Recording(s)' \subseteq Recording(s)
                \/ /\ Recording(s)' \subseteq Recording(s) \cup {a}
                   /\ effects'[s] = effects[s] + 1
  <2> DEFINE A == Answering(s)
             R == Recording(s)
  <2>1. \A b \in Actors \ {a} : (b \in A' => b \in A) /\ (b \in R' => b \in R)
    BY DEF Answering, Recording, InStep
  <2>2. A' \subseteq Actors /\ R' \subseteq Actors
    BY DEF Answering, Recording
  <2>3. effects'[s] >= effects[s]
    OBVIOUS
  <2>4. /\ a \in A' => a \in A
        /\ a \in R' => a \in R \/ effects'[s] = effects[s] + 1
    BY Zenon DEF Answering, Recording
  <2> HIDE DEF A, R
  <2>5. A' \subseteq A
    BY <2>1, <2>2, <2>4
  <2>6. R' \subseteq R \/ (R' \subseteq R \cup {a} /\ effects'[s] = effects[s] + 1)
    <3>1. R' \subseteq R \cup {a}
      BY <2>1, <2>2, <2>4
    <3>2. a \notin R' \/ a \in R => R' \subseteq R
      BY <2>1, <2>2, <2>4
    <3> QED BY <2>4, <3>1, <3>2
  <2> QED BY <2>3, <2>5, <2>6 DEF A, R
<1>2. \/ MayStart' \subseteq MayStart
      \/ status = "RUNNING" /\ MayStart' \subseteq Workers
  <2>1. \A b \in Actors \ {a} : b \in MayStart' => b \in MayStart
    BY DEF MayStart, InStep
  <2>2. MayStart' \subseteq Actors /\ MayStart \subseteq Workers
    BY DEF MayStart, CountInv, StopsCover
  <2>3. MayStart' \subseteq MayStart \cup {a}
    BY <2>1, <2>2
  <2>4. CASE a \in MayStart' /\ a \notin MayStart
    BY <2>2, <2>3, <2>4
  <2>5. CASE a \notin MayStart' \/ a \in MayStart
    BY <2>3, <2>5
  <2> QED BY <2>4, <2>5
<1>3. TypeOK'
  BY DEF IInv
<1> QED
  BY <1>1, <1>2, <1>3, QuietCount DEF CountInv

\* An actor that turns to a transaction.
LEMMA BeginCount ==
    ASSUME CountInv, IInv', NEW a \in Actors, NEW k \in EventTypes,
           NEW s \in Steps \cup {NoStep}, NEW done \in SUBSET Steps, Begin(a, k, s, done),
           UNCHANGED <<status, history, escalations>>,
           \A t \in Steps : effects'[t] >= effects[t],
           k = "STEP_STARTED" => local[a].pc = "replay",
           k \in {"STEP_COMPLETED", "STEP_FAILED"} => local[a].pc = "exec" /\ local[a].step = s,
           k = "STEP_COMPLETED" /\ s \in Steps => effects'[s] = effects[s] + 1
    PROVE  CountInv'
<1>1. /\ local'[a].pc \in {"select", "update"} /\ local'[a].kind = k /\ local'[a].step = s
      /\ \A b \in Actors : b # a => local'[b] = local[b]
  BY BeginUpdate DEF CountInv, IInv
<1>2. \A t \in Steps : a \in Answering(t)' => a \in Answering(t)
  BY <1>1 DEF Answering, InStep
<1>3. \A t \in Steps : a \in Recording(t)' => effects'[t] = effects[t] + 1
  BY <1>1 DEF Recording
<1>4. a \in MayStart' => a \in MayStart
  BY <1>1 DEF MayStart
<1> QED
  BY <1>1, <1>2, <1>3, <1>4, ActorCount

\* An actor that is left with nothing to do.
LEMMA IdleCount ==
    ASSUME CountInv, IInv', NEW a \in Actors, local' = [local EXCEPT ![a] = Idle],
           UNCHANGED <<status, history, escalations, effects>>
    PROVE  CountInv'
<1>1. local'[a].pc = "idle" /\ \A b \in Actors : b # a => local'[b] = local[b]
  BY DEF CountInv, IInv, TypeOK, Idle
<1>2. \A s \in Steps : /\ a \notin Answering(s)' /\ a \notin Recording(s)' /\ a \notin MayStart'
                       /\ effects'[s] >= effects[s]
  BY <1>1 DEF Answering, Recording, MayStart, InStep, CountInv, IInv, TypeOK
<1>3. a \notin MayStart'
  BY <1>1 DEF MayStart, InStep
<1> QED
  BY <1>1, <1>2, <1>3, ActorCount

LEMMA ReadStatusCount ==
    ASSUME CountInv, IInv', NEW w \in Workers, ReadStatus(w)
    PROVE  CountInv'
<1>1. w \in Actors /\ UNCHANGED <<status, history, escalations, effects>>
  BY DEF ReadStatus, committed, Actors
<1>2. CASE local' = [local EXCEPT ![w] = Idle]
  BY <1>1, <1>2, IdleCount
<1>3. CASE Runnable /\ local' = [local EXCEPT ![w].pc = "replay"]
  <2>1. /\ local'[w].pc = "replay" /\ status = "RUNNING"
        /\ \A b \in Actors : b # w => local'[b] = local[b]
    BY <1>1, <1>3 DEF CountInv, IInv, TypeOK, Local, Runnable
  <2>2. \A s \in Steps : /\ w \notin Answering(s)' /\ w \notin Recording(s)'
                         /\ effects'[s] >= effects[s]
    BY <1>1, <2>1 DEF Answering, Recording, InStep, CountInv, IInv, TypeOK
  <2> QED
    BY <1>1, <2>1, <2>2, ActorCount
<1> QED
  BY <1>2, <1>3 DEF ReadStatus

LEMMA ReplayCount ==
    ASSUME CountInv, IInv', NEW w \in Workers, Replay(w)
    PROVE  CountInv'
<1> DEFINE done == Completed(history)
<1>1. done \in SUBSET Steps
  BY CompletedAreSteps DEF CountInv, IInv
<1>2. /\ w \in Actors /\ local[w].pc = "replay"
      /\ UNCHANGED <<status, history, escalations, effects>>
      /\ \A t \in Steps : effects'[t] >= effects[t]
  BY DEF Replay, committed, Actors, CountInv, IInv, TypeOK
<1> HIDE DEF done
<1>3. CASE local' = [local EXCEPT ![w] = Idle]
  BY <1>2, <1>3, IdleCount
<1>4. CASE Begin(w, "COMPLETED", NoStep, done)
  BY <1>1, <1>2, <1>4, BeginCount DEF EventTypes
<1>5. ASSUME NEW s \in Steps, Begin(w, "STEP_STARTED", s, done)
      PROVE  CountInv'
  BY <1>1, <1>2, <1>5, BeginCount DEF EventTypes, StepEvents
<1> QED
  BY <1>3, <1>4, <1>5 DEF Replay, done

LEMMA ExecuteStepCount ==
    ASSUME CountInv, IInv', NEW w \in Workers, NEW outcome \in {"STEP_COMPLETED", "STEP_FAILED"},
           NEW performed \in BOOLEAN, ExecuteStep(w, outcome, performed)
    PROVE  CountInv'
<1> DEFINE s == local[w].step
           done == local[w].seen
<1>1. /\ w \in Actors /\ local[w].pc = "exec" /\ s \in Steps /\ done \in SUBSET Steps
      /\ UNCHANGED <<status, history, escalations>>
  BY DEF CountInv, IInv, TypeOK, Local, ConclusionsHold, InStep, ExecuteStep, Actors, StepEvents, committed
<1>2. /\ \A t \in Steps : effects'[t] >= effects[t]
      /\ outcome = "STEP_COMPLETED" => effects'[s] = effects[s] + 1
  BY <1>1 DEF CountInv, IInv, TypeOK, ExecuteStep, MayEnd
<1>3. Begin(w, outcome, s, done)
  BY DEF ExecuteStep
<1> HIDE DEF done
<1> QED
  BY <1>1, <1>2, <1>3, BeginCount DEF EventTypes, StepEvents

LEMMA RequestCount ==
    ASSUME CountInv, IInv', NEW o \in Operators, NEW k \in OperatorEvents, Request(o, k)
    PROVE  CountInv'
<1>1. k \in EventTypes /\ k \notin StepEvents
  BY DEF OperatorEvents, EventTypes, StepEvents
<1>2. /\ o \in Actors /\ Begin(o, k, NoStep, {})
      /\ UNCHANGED <<status, history, escalations>>
      /\ \A t \in Steps : effects'[t] >= effects[t]
  BY DEF Request, Actors, committed, CountInv, IInv, TypeOK
<1> QED
  BY <1>1, <1>2, BeginCount DEF StepEvents

\* A statement moves its actor on within its transaction.
LEMMA StatementCount ==
    ASSUME CountInv, IInv', NEW a \in Actors, SelectMax(a) \/ InsertEvent(a) \/ UpdateRow(a)
    PROVE  CountInv'
<1>1. /\ local[a].pc \in {"select", "insert", "update"}
      /\ local'[a].pc \in {"insert", "update", "commit", "select"}
      /\ local'[a].kind = local[a].kind /\ local'[a].step = local[a].step
      /\ \A b \in Actors : b # a => local'[b] = local[b]
  BY DEF CountInv, IInv, TypeOK, Local, SelectMax, InsertEvent, UpdateRow, AfterInsert, AfterUpdate
<1>2. /\ UNCHANGED <<status, history, escalations, effects>>
      /\ \A t \in Steps : effects'[t] >= effects[t]
  BY DEF SelectMax, InsertEvent, UpdateRow, committed, CountInv, IInv, TypeOK
<1>3. \A t \in Steps : /\ a \in Answering(t)' => a \in Answering(t)
                       /\ a \in Recording(t)' => a \in Recording(t)
  BY <1>1 DEF Answering, Recording, InStep
<1>4. a \in MayStart' => a \in MayStart
  BY <1>1 DEF MayStart, InStep
<1> QED
  BY <1>1, <1>2, <1>3, <1>4, ActorCount

-----------------------------------------------------------------------------
(* Steps that commit a row. *)

\* A row that is not in the history yet is counted once more, in its place.
LEMMA RowsAppend ==
    ASSUME Numbered, NEW row, row \notin history, history' = history \cup {row},
           NEW type, NEW s
    PROVE  /\ Cardinality(RowsOf(type, s)) \in Nat
           /\ Cardinality(RowsOf(type, s)') =
                IF row.type = type /\ row.step = s THEN Cardinality(RowsOf(type, s)) + 1
                                                  ELSE Cardinality(RowsOf(type, s))
<1>1. IsFiniteSet(RowsOf(type, s)) /\ Cardinality(RowsOf(type, s)) \in Nat /\ row \notin RowsOf(type, s)
  BY RowsFinite DEF RowsOf
<1>2. RowsOf(type, s)' = IF row.type = type /\ row.step = s THEN RowsOf(type, s) \cup {row} ELSE RowsOf(type, s)
  BY DEF RowsOf
<1> QED
  BY <1>1, <1>2, FS_AddElement

\* What a commit does, given what is known of its actor.
LEMMA CommitFacts ==
    ASSUME IInv, NEW a \in Actors, Commit(a)
    PROVE  /\ local[a].pc = "commit" /\ local[a] \in Local /\ local[a].kind # "STARTED"
           /\ local[a].kind \in StepEvents =>
                 local[a].step \in Steps /\ 1..(local[a].step - 1) \subseteq Completed(history)
           /\ local[a].kind \notin StepEvents => local[a].step = NoStep
           /\ local[a].kind = "COMPLETED" => Steps \subseteq Completed(history)
           /\ /\ Event(a).seq = NextSequenceNo(history)
              /\ Event(a).type = local[a].kind /\ Event(a).step = local[a].step
           /\ history' = history \cup {Event(a)} /\ Event(a) \notin history
           /\ \A q \in history : q.seq < Event(a).seq
           /\ status' = StatusAfter(local[a].kind, status)
           /\ \A b \in Actors : b # a => local'[b] = local[b]
           /\ local[a].kind = "STEP_STARTED" =>
                 local'[a] = [local[a] EXCEPT !.pc = "exec"]
           /\ local[a].kind # "STEP_STARTED" => local'[a].pc \in {"idle", "loop"}
           /\ definition' = definition /\ effects' = effects
<1>1. /\ local[a].pc = "commit" /\ a \in pending /\ local[a] \in Local
      /\ local[a].seq = NextSequenceNo(history)
  BY DEF IInv, PendingRows, NumbersInFlight, Commit, TypeOK
<1>2. /\ Event(a).seq = NextSequenceNo(history)
      /\ Event(a).type = local[a].kind /\ Event(a).step = local[a].step
  BY <1>1 DEF Event
<1>3. history' = history \cup {Event(a)}
  <2>1. pending \cap {a} = {a}
    BY <1>1
  <2> QED BY <2>1 DEF Commit
<1>4. \A q \in history : q.seq < Event(a).seq
  BY <1>2, <1>3, AppendRow DEF IInv
<1>5. Event(a) \notin history
  BY <1>4, <1>2 DEF IInv, Numbered
<1>6. /\ local[a].kind # "STARTED"
      /\ local[a].kind \in StepEvents =>
            local[a].step \in Steps /\ 1..(local[a].step - 1) \subseteq Completed(history)
      /\ local[a].kind \notin StepEvents => local[a].step = NoStep
      /\ local[a].kind = "COMPLETED" => Steps \subseteq Completed(history)
  BY <1>1 DEF IInv, ConclusionsHold, InStep
<1>7. /\ \A b \in Actors : b # a => local'[b] = local[b]
      /\ local[a].kind = "STEP_STARTED" => local'[a] = [local[a] EXCEPT !.pc = "exec"]
      /\ local[a].kind # "STEP_STARTED" => local'[a].pc \in {"idle", "loop"}
  BY DEF IInv, TypeOK, Commit, AfterCommit, Loop, Idle
<1> QED
  BY <1>1, <1>2, <1>3, <1>4, <1>5, <1>6, <1>7 DEF Commit

LEMMA CommitCount ==
    ASSUME CountInv, IInv', NEW a \in Actors, Commit(a)
    PROVE  CountInv'
<1> DEFINE k == local[a].kind
           row == Event(a)
<1>0. IInv /\ Numbered
  BY DEF CountInv, IInv
<1>1. /\ local[a].pc = "commit" /\ k # "STARTED" /\ k \in EventTypes
      /\ k \in StepEvents => local[a].step \in Steps
      /\ k \notin StepEvents => local[a].step = NoStep
      /\ row.type = k /\ row.step = local[a].step
      /\ history' = history \cup {row} /\ row \notin history
      /\ \A q \in history : q.seq < row.seq
      /\ status' = StatusAfter(k, status)
      /\ \A b \in Actors : b # a => local'[b] = local[b]
      /\ effects' = effects
  BY <1>0, CommitFacts DEF Local
<1>2. /\ k = "STEP_STARTED" => local'[a].pc = "exec" /\ local'[a].kind = k /\ local'[a].step = local[a].step
      /\ k # "STEP_STARTED" => local'[a].pc \in {"idle", "loop"}
  BY <1>0, CommitFacts DEF Local
<1> HIDE DEF row
<1>3. ASSUME NEW type, NEW s
      PROVE  /\ Cardinality(RowsOf(type, s)) \in Nat
             /\ Cardinality(RowsOf(type, s)') =
                  IF k = type /\ local[a].step = s THEN Cardinality(RowsOf(type, s)) + 1
                                                  ELSE Cardinality(RowsOf(type, s))
  BY <1>0, <1>1, RowsAppend
<1>4. EffectsCover'
  <2> SUFFICES ASSUME NEW s \in Steps
               PROVE  /\ IsFiniteSet(Recording(s)')
                      /\ Cardinality(RowsOf("STEP_COMPLETED", s)') + Cardinality(Recording(s)') <= effects'[s]
    BY DEF EffectsCover
  <2> DEFINE R == Recording(s)
             S == Recording(s)'
             c == Cardinality(RowsOf("STEP_COMPLETED", s))
  <2>1. IsFiniteSet(R) /\ c + Cardinality(R) <= effects[s] /\ c \in Nat /\ effects[s] \in Nat
    BY <1>3 DEF CountInv, EffectsCover, IInv, TypeOK
  <2>2. S \subseteq R /\ a \notin S
    BY <1>1, <1>2 DEF Recording, InStep
  <2>3. k = "STEP_COMPLETED" /\ local[a].step = s => a \in R
    BY <1>1 DEF Recording, InStep
  <2>4. Cardinality(RowsOf("STEP_COMPLETED", s)') =
            IF k = "STEP_COMPLETED" /\ local[a].step = s THEN c + 1 ELSE c
    BY <1>3
  <2> HIDE DEF R, S, c
  <2>5. /\ IsFiniteSet(S) /\ Cardinality(S) \in Nat /\ Cardinality(R) \in Nat
        /\ Cardinality(S) <= Cardinality(R)
        /\ a \in R => Cardinality(S) <= Cardinality(R) - 1
    BY <2>1, <2>2, AtMostOneMore
  <2> QED BY <1>1, <2>1, <2>3, <2>4, <2>5 DEF S
<1>5. StartsCover'
  <2> SUFFICES ASSUME NEW s \in Steps
               PROVE  /\ IsFiniteSet(Answering(s)')
                      /\ Cardinality(RowsOf("STEP_COMPLETED", s)') + Cardinality(RowsOf("STEP_FAILED", s)')
                           + Cardinality(Answering(s)') <= Cardinality(RowsOf("STEP_STARTED", s)')
    BY DEF StartsCover
  <2> DEFINE A == Answering(s)
             B == Answering(s)'
             c == Cardinality(RowsOf("STEP_COMPLETED", s))
             f == Cardinality(RowsOf("STEP_FAILED", s))
             n == Cardinality(RowsOf("STEP_STARTED", s))
  <2>1. IsFiniteSet(A) /\ c + f + Cardinality(A) <= n /\ c \in Nat /\ f \in Nat /\ n \in Nat
    BY <1>3 DEF CountInv, StartsCover
  <2>2. /\ B \subseteq A \cup {a}
        /\ ~(k = "STEP_STARTED" /\ local[a].step = s) => a \notin B
    BY <1>1, <1>2 DEF Answering, InStep
  <2>3. k \in {"STEP_COMPLETED", "STEP_FAILED"} /\ local[a].step = s => a \in A
    BY <1>1 DEF Answering, InStep
  <2>4. /\ Cardinality(RowsOf("STEP_COMPLETED", s)') =
               IF k = "STEP_COMPLETED" /\ local[a].step = s THEN c + 1 ELSE c
        /\ Cardinality(RowsOf("STEP_FAILED", s)') =
               IF k = "STEP_FAILED" /\ local[a].step = s THEN f + 1 ELSE f
        /\ Cardinality(RowsOf("STEP_STARTED", s)') =
               IF k = "STEP_STARTED" /\ local[a].step = s THEN n + 1 ELSE n
    BY <1>3
  <2> HIDE DEF A, B, c, f, n
  <2>5. /\ IsFiniteSet(B) /\ Cardinality(B) \in Nat /\ Cardinality(A) \in Nat
        /\ Cardinality(B) <= Cardinality(A) + 1
        /\ a \notin B => Cardinality(B) <= Cardinality(A)
        /\ a \in A /\ a \notin B => Cardinality(B) <= Cardinality(A) - 1
    BY <2>1, <2>2, AtMostOneMore
  <2> HIDE DEF k
  <2>6. Cardinality(RowsOf("STEP_COMPLETED", s)') + Cardinality(RowsOf("STEP_FAILED", s)')
             + Cardinality(B) <= Cardinality(RowsOf("STEP_STARTED", s)')
    <3>1. CASE local[a].step = s /\ k = "STEP_STARTED"
      BY <2>1, <2>4, <2>5, <3>1
    <3>2. CASE local[a].step = s /\ k \in {"STEP_COMPLETED", "STEP_FAILED"}
      BY <2>1, <2>2, <2>3, <2>4, <2>5, <3>2
    <3>3. CASE local[a].step # s \/ k \notin {"STEP_STARTED", "STEP_COMPLETED", "STEP_FAILED"}
      BY <2>1, <2>2, <2>4, <2>5, <3>3
    <3> QED BY <3>1, <3>2, <3>3
  <2> QED BY <2>5, <2>6 DEF B
<1>6. StopsCover'
  <2>1. MayStart' \subseteq MayStart /\ a \notin MayStart'
    BY <1>1, <1>2 DEF MayStart, InStep
  <2>2. /\ MayStart \subseteq Workers
        /\ status # "RUNNING" => Cardinality(LateStarts) + Cardinality(MayStart) <= Cardinality(Workers)
    BY DEF CountInv, StopsCover
  <2>3. /\ IsFiniteSet(MayStart) /\ Cardinality(Workers) \in Nat
        /\ Cardinality(MayStart) \in Nat /\ Cardinality(MayStart) <= Cardinality(Workers)
    BY <2>2, WorkersAssumption, FS_Subset, FS_CardinalityType
  <2>4. /\ Cardinality(MayStart') \in Nat
        /\ Cardinality(MayStart') <= Cardinality(MayStart)
        /\ a \in MayStart => Cardinality(MayStart') <= Cardinality(MayStart) - 1
    BY <2>1, <2>3, AtMostOneMore
  <2>5. IsFiniteSet(LateStarts) /\ Cardinality(LateStarts) \in Nat
    BY <1>0, RowsFinite
  <2>6. CASE k \in StatusEvents
    \* The row is a status event after every start.
    <3>1. LateStarts' = {}
      BY <1>0, <1>1, <2>6 DEF LateStarts, StatusEvents, OperatorEvents, IInv, TypeOK, Rows
    <3>2. Cardinality(LateStarts') = 0
      BY <3>1, FS_EmptySet
    <3> QED BY <2>1, <2>2, <2>3, <2>4, <3>2 DEF StopsCover
  <2>7. CASE k \notin StatusEvents
    <3>1. status' = status
      BY <1>0, <1>1, <2>7, StatusAfterFacts DEF IInv, TypeOK
    <3>2. LateStarts' \subseteq LateStarts \cup {row} /\ (k # "STEP_STARTED" => row \notin LateStarts')
      BY <1>1 DEF LateStarts
    <3>3. /\ Cardinality(LateStarts') \in Nat
          /\ Cardinality(LateStarts') <= Cardinality(LateStarts) + 1
          /\ k # "STEP_STARTED" => Cardinality(LateStarts') <= Cardinality(LateStarts)
      BY <2>5, <3>2, AtMostOneMore
    <3>4. k = "STEP_STARTED" => a \in MayStart
      BY <1>1 DEF MayStart, InStep
    <3> QED BY <2>1, <2>2, <2>3, <2>4, <2>5, <3>1, <3>3, <3>4 DEF StopsCover
  <2> QED BY <2>6, <2>7
<1>7. (escalations = Cardinality(RowsOf("ESCALATED", NoStep)))'
  <2>1. escalations' = IF k = "ESCALATED" THEN escalations + 1 ELSE escalations
    BY DEF Commit
  <2>2. k = "ESCALATED" => local[a].step = NoStep
    BY <1>1 DEF StepEvents
  <2> QED BY <1>3, <2>1, <2>2 DEF CountInv
<1> QED
  BY <1>4, <1>5, <1>6, <1>7 DEF CountInv

\* The first row of a workflow counts for nothing.
LEMMA StartWorkflowCount ==
    ASSUME CountInv, IInv', NEW d \in {"api", "engine"}, StartWorkflow(d)
    PROVE  CountInv'
<1>1. /\ history = {} /\ status = "RUNNING" /\ \A b \in Actors : local[b].pc = "idle"
      /\ UNCHANGED <<status, escalations, local, effects>>
      /\ \A r \in history' : r.type = "STARTED"
  BY DEF CountInv, IInv, NotCreated, StartWorkflow
<1>2. RowsOf("ESCALATED", NoStep)' = RowsOf("ESCALATED", NoStep)
  BY <1>1 DEF RowsOf
<1>3. LateStarts' = {} /\ MayStart' = {}
  BY <1>1 DEF LateStarts, MayStart, InStep
<1>4. IsFiniteSet({}) /\ Cardinality({}) = 0
  BY FS_EmptySet
<1>5. EffectsCover'
  <2>1. ASSUME NEW s \in Steps
        PROVE  /\ IsFiniteSet(Recording(s)')
               /\ Cardinality(RowsOf("STEP_COMPLETED", s)') + Cardinality(Recording(s)') <= effects'[s]
    <3>1. Recording(s)' = {} /\ RowsOf("STEP_COMPLETED", s)' = {}
      BY <1>1 DEF Recording, InStep, RowsOf
    <3>2. effects'[s] \in Nat
      BY <1>1 DEF CountInv, IInv, TypeOK
    <3> QED BY <1>4, <3>1, <3>2
  <2> QED BY <2>1 DEF EffectsCover
<1>6. StartsCover'
  <2>1. ASSUME NEW s \in Steps
        PROVE  /\ IsFiniteSet(Answering(s)')
               /\ Cardinality(RowsOf("STEP_COMPLETED", s)') + Cardinality(RowsOf("STEP_FAILED", s)')
                    + Cardinality(Answering(s)') <= Cardinality(RowsOf("STEP_STARTED", s)')
    <3>1. /\ Answering(s)' = {} /\ RowsOf("STEP_COMPLETED", s)' = {}
          /\ RowsOf("STEP_FAILED", s)' = {} /\ RowsOf("STEP_STARTED", s)' = {}
      BY <1>1 DEF Answering, InStep, RowsOf
    <3> QED BY <1>4, <3>1
  <2> QED BY <2>1 DEF StartsCover
<1>7. StopsCover'
  BY <1>1, <1>3 DEF StopsCover
<1> QED
  BY <1>1, <1>2, <1>5, <1>6, <1>7 DEF CountInv

-----------------------------------------------------------------------------
(* The theorems that count. *)

LEMMA CountInit == Init => CountInv
<1> SUFFICES ASSUME Init
             PROVE  CountInv
  OBVIOUS
<1>1. IInv /\ history = {} /\ status = "RUNNING" /\ escalations = 0
      /\ \A a \in Actors : local[a].pc = "idle"
  BY InitStep DEF Init, Idle
<1>2. IsFiniteSet({}) /\ Cardinality({}) = 0
  BY FS_EmptySet
<1>3. \A type, s : RowsOf(type, s) = {}
  BY <1>1 DEF RowsOf
<1>4. MayStart = {} /\ \A s \in Steps : Recording(s) = {} /\ Answering(s) = {}
  BY <1>1 DEF MayStart, Recording, Answering, InStep
<1>5. EffectsCover /\ StartsCover
  <2>1. \A s \in Steps : effects[s] \in Nat /\ Cardinality(RowsOf("STEP_COMPLETED", s)) = 0
                       /\ Cardinality(RowsOf("STEP_FAILED", s)) = 0
                       /\ Cardinality(RowsOf("STEP_STARTED", s)) = 0
    BY <1>1, <1>2, <1>3 DEF IInv, TypeOK
  <2>2. \A s \in Steps : /\ IsFiniteSet(Recording(s)) /\ Cardinality(Recording(s)) = 0
                       /\ IsFiniteSet(Answering(s)) /\ Cardinality(Answering(s)) = 0
    BY <1>2, <1>4
  <2> QED BY <2>1, <2>2 DEF EffectsCover, StartsCover
<1>6. StopsCover
  BY <1>1, <1>4 DEF StopsCover
<1> QED
  BY <1>1, <1>2, <1>3, <1>5, <1>6 DEF CountInv

LEMMA CountNext == CountInv /\ [Next]_vars => CountInv'
<1> SUFFICES ASSUME CountInv, [Next]_vars
             PROVE  CountInv'
  OBVIOUS
<1>0. IInv'
  BY NextStep DEF CountInv
<1>1. ASSUME NEW d \in {"api", "engine"}, StartWorkflow(d) PROVE CountInv'
  BY <1>0, <1>1, StartWorkflowCount
<1>2. ASSUME NEW w \in Workers, Worker(w) PROVE CountInv'
  BY <1>0, <1>2, ReadStatusCount, ReplayCount, ExecuteStepCount DEF Worker
<1>3. ASSUME NEW o \in Operators, NEW k \in OperatorEvents, Request(o, k) PROVE CountInv'
  BY <1>0, <1>3, RequestCount
<1>4. ASSUME NEW a \in Actors, Rollback(a) PROVE CountInv'
  BY <1>0, <1>4, IdleCount DEF Rollback, committed
<1>5. ASSUME NEW a \in Actors, Statement(a) \/ Crash(a) PROVE CountInv'
  BY <1>0, <1>4, <1>5, StatementCount, CommitCount DEF Statement, UniqueViolation, DeadlockVictim, Crash
<1>6. CASE UNCHANGED vars
  BY <1>0, <1>6 DEF CountInv, vars, EffectsCover, StartsCover, StopsCover, RowsOf, LateStarts,
     MayStart, Recording, Answering, InStep
<1> QED
  BY <1>1, <1>2, <1>3, <1>5, <1>6 DEF Next

\* What is recorded and what is under way add up, whatever races and aborts.
THEOREM CountInvariance == Spec => []CountInv
BY CountInit, CountNext, PTL DEF Spec

\* Each recorded completion has an effect of its own, each recorded
\* escalation an approval request.
THEOREM RecordsAreBacked == Spec => []RecordsBacked
<1>1. CountInv => RecordsBacked
  <2> SUFFICES ASSUME CountInv, NEW s \in Steps
               PROVE  Cardinality(RowsOf("STEP_COMPLETED", s)) <= effects[s]
    BY DEF CountInv, RecordsBacked
  <2>1. Cardinality(RowsOf("STEP_COMPLETED", s)) \in Nat /\ effects[s] \in Nat
    BY RowsFinite DEF CountInv, IInv, TypeOK
  <2>2. /\ Cardinality(Recording(s)) \in Nat
        /\ Cardinality(RowsOf("STEP_COMPLETED", s)) + Cardinality(Recording(s)) <= effects[s]
    BY FS_CardinalityType DEF CountInv, EffectsCover
  <2> QED BY <2>1, <2>2
<1> QED
  BY <1>1, CountInvariance, PTL

\* A pause, cancel or failure is overtaken by at most one start per worker.
THEOREM StopsAreHeeded == Spec => []OneStartAfterStop
<1>1. CountInv => OneStartAfterStop
  <2> SUFFICES ASSUME CountInv, status # "RUNNING"
               PROVE  Cardinality(LateStarts) <= Cardinality(Workers)
    BY DEF OneStartAfterStop
  <2>1. /\ MayStart \subseteq Workers
        /\ Cardinality(LateStarts) + Cardinality(MayStart) <= Cardinality(Workers)
    BY DEF CountInv, StopsCover
  <2>2. Cardinality(LateStarts) \in Nat /\ Cardinality(MayStart) \in Nat /\ Cardinality(Workers) \in Nat
    BY <2>1, RowsFinite, WorkersAssumption, FS_Subset, FS_CardinalityType DEF CountInv, IInv
  <2> QED BY <2>1, <2>2
<1> QED
  BY <1>1, CountInvariance, PTL

-----------------------------------------------------------------------------
(* One worker. *)

\* A step that commits nothing: what its actor has replayed is current.
LEMMA QuietSingle ==
    ASSUME SingleInv, IInv', UNCHANGED <<cached, history>>, NEW a \in Actors,
           \A b \in Actors : b # a => local'[b] = local[b],
           local'[a].pc \in {"idle", "replay"}
             \/ (local'[a].kind \in StepEvents =>
                  /\ a \in Workers
                  /\ local'[a].seen = Completed(history)
                  /\ local'[a].step \notin Completed(history))
    PROVE  SingleInv'
<1>1. Completed(history)' = Completed(history)
  BY DEF Completed
<1>2. ReplayCurrent'
  BY <1>1 DEF SingleInv, ReplayCurrent, InStep
<1>3. CacheIsReplay'
  BY <1>1 DEF SingleInv, CacheIsReplay
<1> QED
  BY <1>2, <1>3 DEF SingleInv

LEMMA IdleSingle ==
    ASSUME SingleInv, IInv', NEW a \in Actors, local' = [local EXCEPT ![a] = Idle],
           UNCHANGED <<cached, history>>
    PROVE  SingleInv'
<1>1. local'[a].pc = "idle" /\ \A b \in Actors : b # a => local'[b] = local[b]
  BY DEF SingleInv, IInv, TypeOK, Idle
<1> QED
  BY <1>1, QuietSingle

LEMMA BeginSingle ==
    ASSUME SingleInv, IInv', NEW a \in Actors, NEW k \in EventTypes,
           NEW s \in Steps \cup {NoStep}, NEW done \in SUBSET Steps, Begin(a, k, s, done),
           UNCHANGED <<cached, history>>,
           k \in StepEvents => a \in Workers /\ done = Completed(history) /\ s \notin done
    PROVE  SingleInv'
<1>1. /\ local'[a].kind = k /\ local'[a].step = s
      /\ \A b \in Actors : b # a => local'[b] = local[b]
  BY BeginUpdate DEF SingleInv, IInv
<1>2. local'[a].seen = done
  BY DEF Begin, SingleInv, IInv, TypeOK
<1> QED
  BY <1>1, <1>2, QuietSingle

LEMMA WorkerSingle ==
    ASSUME SingleInv, IInv', NEW w \in Workers, Worker(w)
    PROVE  SingleInv'
<1> DEFINE done == Completed(history)
<1>1. done \in SUBSET Steps /\ w \in Actors
  BY CompletedAreSteps DEF SingleInv, IInv, Actors
<1>2. UNCHANGED <<cached, history>>
  BY DEF Worker, ReadStatus, Replay, ExecuteStep, committed
<1>3. CASE ReadStatus(w)
  <2>1. local'[w].pc \in {"idle", "replay"} /\ \A b \in Actors : b # w => local'[b] = local[b]
    BY <1>1, <1>3 DEF ReadStatus, SingleInv, IInv, TypeOK, Local, Idle
  <2> QED BY <1>1, <1>2, <2>1, QuietSingle
<1>4. CASE Replay(w)
  <2>1. CASE local' = [local EXCEPT ![w] = Idle]
    BY <1>1, <1>2, <2>1, IdleSingle
  <2>2. CASE Begin(w, "COMPLETED", NoStep, done)
    BY <1>1, <1>2, <2>2, BeginSingle DEF EventTypes, StepEvents
  <2>3. ASSUME NEW s \in Steps, IsNextStep(s, done), Begin(w, "STEP_STARTED", s, done)
        PROVE  SingleInv'
    <3>1. s \notin done
      BY <2>3 DEF IsNextStep
    <3> QED BY <1>1, <1>2, <2>3, <3>1, BeginSingle DEF EventTypes, StepEvents
  <2> QED BY <1>4, <2>1, <2>2, <2>3 DEF Replay
<1>5. ASSUME NEW outcome \in {"STEP_COMPLETED", "STEP_FAILED"}, NEW performed \in BOOLEAN,
             ExecuteStep(w, outcome, performed)
      PROVE  SingleInv'
  <2>1. local[w].kind = "STEP_STARTED" /\ InStep(w)
    BY <1>1, <1>5 DEF ExecuteStep, InStep, SingleInv, IInv, ConclusionsHold
  <2>2. local[w].seen = done /\ local[w].step \notin done /\ local[w].step \in Steps
    BY <1>1, <2>1 DEF SingleInv, ReplayCurrent, IInv, ConclusionsHold, StepEvents
  <2>3. Begin(w, outcome, local[w].step, local[w].seen)
    BY <1>5 DEF ExecuteStep
  <2> HIDE DEF done
  <2>4. outcome \in EventTypes
    BY DEF EventTypes, StepEvents
  <2> QED BY <1>1, <1>2, <2>2, <2>3, <2>4, BeginSingle DEF done
<1> QED
  BY <1>3, <1>4, <1>5 DEF Worker

LEMMA RequestSingle ==
    ASSUME SingleInv, IInv', NEW o \in Operators, NEW k \in OperatorEvents, Request(o, k)
    PROVE  SingleInv'
<1>1. k \in EventTypes /\ k \notin StepEvents
  BY DEF OperatorEvents, EventTypes, StepEvents
<1>2. o \in Actors /\ Begin(o, k, NoStep, {}) /\ UNCHANGED <<cached, history>>
  BY DEF Request, Actors, committed
<1> QED
  BY <1>1, <1>2, BeginSingle

LEMMA StatementSingle ==
    ASSUME SingleInv, IInv', NEW a \in Actors, SelectMax(a) \/ InsertEvent(a) \/ UpdateRow(a)
    PROVE  SingleInv'
<1>1. /\ InStep(a)
      /\ local'[a].kind = local[a].kind /\ local'[a].step = local[a].step /\ local'[a].seen = local[a].seen
      /\ \A b \in Actors : b # a => local'[b] = local[b]
      /\ UNCHANGED <<cached, history>>
  BY DEF SingleInv, IInv, TypeOK, Local, InStep, SelectMax, InsertEvent, UpdateRow, committed
<1> QED
  BY <1>1, QuietSingle DEF SingleInv, ReplayCurrent

\* The worker's own completion is the only one there can be.
LEMMA CommitSingle ==
    ASSUME OneWorker, SingleInv, IInv', NEW a \in Actors, Commit(a)
    PROVE  SingleInv'
<1> DEFINE me == local[a]
           row == Event(a)
<1>0. IInv
  BY DEF SingleInv
<1>1. /\ me.pc = "commit" /\ me \in Local
      /\ row.type = me.kind /\ row.step = me.step /\ history' = history \cup {row}
      /\ \A b \in Actors : b # a => local'[b] = local[b]
      /\ me.kind = "STEP_STARTED" =>
            local'[a].kind = me.kind /\ local'[a].step = me.step /\ local'[a].seen = me.seen
      /\ me.kind # "STEP_STARTED" => local'[a].pc \in {"idle", "loop"}
  BY <1>0, CommitFacts DEF Local
<1>2. me.kind \in StepEvents =>
          a \in Workers /\ me.seen = Completed(history) /\ me.step \notin Completed(history)
  BY <1>1 DEF SingleInv, ReplayCurrent, InStep
<1>3. cached' = IF me.kind = "STEP_COMPLETED" THEN me.seen \cup {me.step} ELSE cached
  BY DEF Commit, NewState
<1> HIDE DEF row
<1>4. CASE me.kind = "STEP_COMPLETED"
  <2>1. Completed(history)' = Completed(history) \cup {me.step}
    BY <1>1, <1>4 DEF Completed
  <2>2. CacheIsReplay'
    BY <1>2, <1>3, <1>4, <2>1 DEF CacheIsReplay, StepEvents
  <2>3. ASSUME NEW b \in Actors, InStep(b)', local'[b].kind \in StepEvents
        PROVE  FALSE
    <3>1. b # a /\ InStep(b) /\ local[b].kind \in StepEvents
      BY <1>1, <1>4, <2>3 DEF InStep
    <3>2. b \in Workers
      BY <3>1 DEF SingleInv, ReplayCurrent
    <3> QED BY <1>2, <1>4, <3>1, <3>2 DEF OneWorker, StepEvents
  <2>4. ReplayCurrent'
    BY <2>3 DEF ReplayCurrent
  <2> QED BY <2>2, <2>4 DEF SingleInv
<1>5. CASE me.kind # "STEP_COMPLETED"
  <2>1. Completed(history)' = Completed(history)
    BY <1>1, <1>5 DEF Completed
  <2>2. CacheIsReplay'
    BY <1>3, <1>5, <2>1 DEF CacheIsReplay, SingleInv
  <2>3. ReplayCurrent'
    BY <1>1, <1>2, <2>1 DEF SingleInv, ReplayCurrent, InStep
  <2> QED BY <2>2, <2>3 DEF SingleInv
<1> QED
  BY <1>4, <1>5

LEMMA StartWorkflowSingle ==
    ASSUME SingleInv, IInv', NEW d \in {"api", "engine"}, StartWorkflow(d)
    PROVE  SingleInv'
<1>1. /\ history = {} /\ \A b \in Actors : local[b].pc = "idle"
      /\ UNCHANGED <<local, cached>> /\ \A r \in history' : r.type = "STARTED"
  BY DEF SingleInv, IInv, NotCreated, StartWorkflow
<1>2. Completed(history)' = Completed(history)
  BY <1>1 DEF Completed
<1> QED
  BY <1>1, <1>2 DEF SingleInv, ReplayCurrent, CacheIsReplay, InStep

LEMMA SingleInit == Init => SingleInv
<1> SUFFICES ASSUME Init
             PROVE  SingleInv
  OBVIOUS
<1>1. IInv /\ cached = {} /\ history = {} /\ \A a \in Actors : local[a].pc = "idle"
  BY InitStep DEF Init, Idle
<1> QED
  BY <1>1 DEF SingleInv, ReplayCurrent, CacheIsReplay, InStep, Completed

LEMMA SingleNext ==
    ASSUME OneWorker, SingleInv, [Next]_vars
    PROVE  SingleInv'
<1>0. IInv'
  BY NextStep DEF SingleInv
<1>1. ASSUME NEW d \in {"api", "engine"}, StartWorkflow(d) PROVE SingleInv'
  BY <1>0, <1>1, StartWorkflowSingle
<1>2. ASSUME NEW w \in Workers, Worker(w) PROVE SingleInv'
  BY <1>0, <1>2, WorkerSingle
<1>3. ASSUME NEW o \in Operators, NEW k \in OperatorEvents, Request(o, k) PROVE SingleInv'
  BY <1>0, <1>3, RequestSingle
<1>4. ASSUME NEW a \in Actors, Rollback(a) PROVE SingleInv'
  BY <1>0, <1>4, IdleSingle DEF Rollback, committed
<1>5. ASSUME NEW a \in Actors, Statement(a) \/ Crash(a) PROVE SingleInv'
  BY <1>0, <1>4, <1>5, StatementSingle, CommitSingle DEF Statement, UniqueViolation, DeadlockVictim, Crash
<1>6. CASE UNCHANGED vars
  BY <1>0, <1>6 DEF SingleInv, vars, ReplayCurrent, CacheIsReplay, InStep, Completed
<1> QED
  BY <1>1, <1>2, <1>3, <1>5, <1>6 DEF Next

\* Driven by one worker, what the worker replayed is the history's own.
THEOREM SingleInvariance == OneWorker => (Spec => []SingleInv)
<1> SUFFICES ASSUME OneWorker
             PROVE  Spec => []SingleInv
  OBVIOUS
<1>1. SingleInv /\ [Next]_vars => SingleInv'
  BY SingleNext
<1> QED
  BY <1>1, SingleInit, PTL DEF Spec

\* Driven by one worker, the cached state is what a replay gives.
THEOREM CacheIsTheReplay == OneWorker => (Spec => []CacheIsReplay)
<1> SUFFICES ASSUME OneWorker
             PROVE  Spec => []CacheIsReplay
  OBVIOUS
<1>1. SingleInv => CacheIsReplay
  BY DEF SingleInv
<1>2. Spec => []SingleInv
  BY SingleInvariance
<1> QED
  BY <1>1, <1>2, PTL

\* Driven by one worker, a step recorded as completed never runs again.
THEOREM CompletedNeverReruns == OneWorker => (Spec => NoRerunOfCompleted)
<1> SUFFICES ASSUME OneWorker
             PROVE  Spec => NoRerunOfCompleted
  OBVIOUS
<1> DEFINE A == \A s \in Steps : effects'[s] # effects[s] => s \notin Completed(history)
<1>1. ASSUME SingleInv, [Next]_vars
      PROVE  [A]_vars
  <2>1. CASE effects' = effects
    BY <2>1
  <2>2. ASSUME NEW w \in Workers, NEW outcome \in {"STEP_COMPLETED", "STEP_FAILED"},
               NEW performed \in BOOLEAN, ExecuteStep(w, outcome, performed)
        PROVE  A
    <3>1. w \in Actors /\ InStep(w) /\ local[w].kind = "STEP_STARTED"
      BY <1>1, <2>2 DEF ExecuteStep, InStep, SingleInv, IInv, ConclusionsHold, Actors
    <3>2. local[w].step \notin Completed(history)
      BY <1>1, <3>1 DEF SingleInv, ReplayCurrent, StepEvents
    <3>3. \A s \in Steps : effects'[s] # effects[s] => s = local[w].step
      BY <1>1, <2>2 DEF ExecuteStep, SingleInv, IInv, TypeOK
    <3> QED BY <3>2, <3>3
  <2>3. ASSUME NEW a \in Actors, Statement(a) \/ Crash(a)
        PROVE  effects' = effects
    BY <2>3 DEF Statement, SelectMax, InsertEvent, UpdateRow, Commit, UniqueViolation,
       DeadlockVictim, Crash, Rollback
  <2>4. ASSUME NEW w \in Workers, ReadStatus(w) \/ Replay(w)
        PROVE  effects' = effects
    BY <2>4 DEF ReadStatus, Replay
  <2>5. ASSUME NEW o \in Operators, NEW k \in OperatorEvents, Request(o, k)
        PROVE  effects' = effects
    BY <2>5 DEF Request
  <2>6. ASSUME NEW d \in {"api", "engine"}, StartWorkflow(d)
        PROVE  effects' = effects
    BY <2>6 DEF StartWorkflow
  <2>7. CASE UNCHANGED vars
    BY <2>7
  <2> QED
    BY <1>1, <2>1, <2>2, <2>3, <2>4, <2>5, <2>6, <2>7 DEF Next, Worker
<1>2. Spec => []SingleInv
  BY SingleInvariance
<1> QED
  BY <1>1, <1>2, PTL DEF Spec, NoRerunOfCompleted

-----------------------------------------------------------------------------
(* The engine implements WorkflowLog. *)

Entries == [type : EventTypes, step : Steps \cup {NoStep}]
Entry(r) == [type |-> r.type, step |-> r.step]

\* The log has one entry for each row, at the place of its number.
LEMMA LogFacts ==
    ASSUME NEW rows \in SUBSET Rows, NEW m \in Nat, {r.seq : r \in rows} = 1..m,
           \A r, q \in rows : r.seq = q.seq => r = q
    PROVE  /\ LogOf(rows) \in Seq(Entries) /\ Len(LogOf(rows)) = m
           /\ DOMAIN LogOf(rows) = 1..m
           /\ \A r \in rows : r.seq \in 1..m /\ LogOf(rows)[r.seq] = Entry(r)
           /\ \A n \in 1..m : \E r \in rows : r.seq = n
<1> DEFINE At(n) == CHOOSE q \in rows : q.seq = n
<1>1. LogOf(rows) = [n \in 1..m |-> Entry(At(n))]
  BY NumberedFinite DEF LogOf, Entry
<1>2. \A r \in rows : r.seq \in 1..m /\ At(r.seq) = r
  OBVIOUS
<1>3. \A n \in 1..m : At(n) \in rows
  OBVIOUS
<1>4. \A r \in rows : Entry(r) \in Entries
  BY DEF Entry, Entries, Rows, StepEvents, EventTypes
<1> HIDE DEF At
<1>5. LogOf(rows) \in [1..m -> Entries]
  BY <1>1, <1>3, <1>4
<1>6. LogOf(rows) \in Seq(Entries) /\ Len(LogOf(rows)) = m
  BY <1>5
<1> QED
  BY <1>1, <1>2, <1>6

\* Appending a row appends its entry.
LEMMA LogAppend ==
    ASSUME Numbered, history \subseteq Rows, NEW row \in Rows, row.seq = NextSequenceNo(history),
           history' = history \cup {row}
    PROVE  LogOf(history)' = Append(LogOf(history), Entry(row))
<1> DEFINE m == NextSequenceNo(history) - 1
           old == LogOf(history)
           new == LogOf(history')
<1>1. /\ m \in Nat /\ row.seq = m + 1 /\ m + 1 \in Nat
      /\ {r.seq : r \in history} = 1..m /\ \A r, q \in history : r.seq = q.seq => r = q
  BY DEF Numbered
<1> HIDE DEF m
<1>2. /\ {r.seq : r \in history'} = 1..(m + 1)
      /\ \A r, q \in history' : r.seq = q.seq => r = q
  <2>1. Numbered' /\ NextSequenceNo(history)' = NextSequenceNo(history) + 1
    BY AppendRow
  <2>2. NextSequenceNo(history) = m + 1
    BY DEF m, Numbered
  <2>3. {r.seq : r \in history'} = 1..(NextSequenceNo(history)' - 1)
    BY <2>1 DEF Numbered
  <2>4. \A r, q \in history' : r.seq = q.seq => r = q
    BY <2>1 DEF Numbered
  <2>5. NextSequenceNo(history)' - 1 = m + 1
    BY <1>1, <2>1, <2>2
  <2> QED BY <2>3, <2>4, <2>5
<1>3. history' \in SUBSET Rows /\ history \in SUBSET Rows
  OBVIOUS
<1>4. /\ old \in Seq(Entries) /\ Len(old) = m
      /\ \A r \in history : r.seq \in 1..m /\ old[r.seq] = Entry(r)
      /\ \A n \in 1..m : \E r \in history : r.seq = n
  BY <1>1, <1>3, LogFacts
<1>5. /\ new \in Seq(Entries) /\ Len(new) = m + 1
      /\ \A r \in history' : new[r.seq] = Entry(r)
  <2> DEFINE rows == history'
             k == m + 1
  <2>1. /\ rows \in SUBSET Rows /\ k \in Nat /\ {r.seq : r \in rows} = 1..k
        /\ \A r, q \in rows : r.seq = q.seq => r = q
    BY <1>1, <1>2, <1>3
  <2> HIDE DEF rows, k
  <2>2. /\ LogOf(rows) \in Seq(Entries) /\ Len(LogOf(rows)) = k
        /\ \A r \in rows : LogOf(rows)[r.seq] = Entry(r)
    BY <2>1, LogFacts
  <2> QED BY <2>2 DEF rows, k
<1> HIDE DEF old, new
<1>6. \A n \in 1..m : new[n] = old[n]
  BY <1>4, <1>5
<1>7. new[m + 1] = Entry(row)
  BY <1>1, <1>5
<1>8. Entry(row) \in Entries
  BY DEF Entry, Entries, Rows, StepEvents, EventTypes
<1>9. new = Append(old, Entry(row))
  BY <1>1, <1>4, <1>5, <1>6, <1>7, <1>8
<1> QED
  BY <1>9 DEF new, old

\* The log counts what the history counts.
LEMMA LogCount ==
    ASSUME Numbered, history \subseteq Rows, NEW type, NEW s
    PROVE  Log!Count(type, s) = Cardinality(RowsOf(type, s))
<1> DEFINE L == LogOf(history)
           I == {i \in DOMAIN L : L[i].type = type /\ L[i].step = s}
           R == RowsOf(type, s)
           f == [r \in R |-> r.seq]
<1>1. Log!Count(type, s) = Cardinality(I)
  BY Zenon DEF Log!Count, Log!Cardinality, Cardinality
<1>2. /\ \A r \in history : r.seq \in DOMAIN L /\ L[r.seq] = Entry(r)
      /\ \A n \in DOMAIN L : \E r \in history : r.seq = n
  <2> DEFINE m == NextSequenceNo(history) - 1
  <2>1. m \in Nat /\ {r.seq : r \in history} = 1..m /\ \A r, q \in history : r.seq = q.seq => r = q
    BY DEF Numbered
  <2> HIDE DEF m
  <2> QED BY <2>1, LogFacts
<1>3. \A r, q \in history : r.seq = q.seq => r = q
  BY DEF Numbered
<1>4. \A r \in history : Entry(r).type = r.type /\ Entry(r).step = r.step
  BY DEF Entry
<1> HIDE DEF L
<1>5. \A r \in R : r \in history /\ r.type = type /\ r.step = s
  BY DEF RowsOf
<1>6. \A r \in history : r.type = type /\ r.step = s => r \in R
  BY DEF RowsOf
<1> HIDE DEF R
<1>7. \A r \in R : r.seq \in I
  BY <1>2, <1>4, <1>5
<1>8. \A i \in I : \E r \in R : r.seq = i
  BY <1>2, <1>4, <1>6
<1> HIDE DEF I
<1>9. f \in Bijection(R, I)
  BY <1>3, <1>5, <1>7, <1>8 DEF Bijection, Injection, IsInjective, Surjection
<1>10. ExistsBijection(R, I)
  BY <1>9 DEF ExistsBijection
<1>11. IsFiniteSet(R)
  BY RowsFinite DEF R
<1> QED
  BY <1>1, <1>10, <1>11, FS_Bijection DEF R

\* A step is done in the log when it is recorded as completed.
LEMMA LogDone ==
    ASSUME Numbered, history \subseteq Rows
    PROVE  Log!Done = Completed(history)
<1>1. Completed(history) \subseteq Steps /\ Log!Steps = Steps
  BY DEF Completed, Rows, StepEvents, Log!Steps, Steps
<1>2. ASSUME NEW s \in Steps
      PROVE  Log!Count("STEP_COMPLETED", s) > 0 <=> s \in Completed(history)
  <2> DEFINE R == RowsOf("STEP_COMPLETED", s)
  <2>1. Log!Count("STEP_COMPLETED", s) = Cardinality(R)
    BY LogCount
  <2>2. IsFiniteSet(R) /\ Cardinality(R) \in Nat
    BY RowsFinite
  <2>3. Cardinality(R) = 0 <=> R = {}
    BY <2>2, FS_EmptySet
  <2>4. R = {} <=> s \notin Completed(history)
    BY DEF RowsOf, Completed
  <2> HIDE DEF R
  <2> QED BY <2>1, <2>2, <2>3, <2>4
<1> QED
  BY <1>1, <1>2 DEF Log!Done

\* What the commit of an event does to the log and to the status.
LEMMA RecordStep ==
    ASSUME IInv, NEW a \in Actors, Commit(a)
    PROVE  Log!Record(local[a].kind, local[a].step)
<1> DEFINE k == local[a].kind
           row == Event(a)
<1>1. /\ row.seq = NextSequenceNo(history) /\ history' = history \cup {row}
      /\ row.type = k /\ row.step = local[a].step
      /\ status' = StatusAfter(k, status) /\ k \in EventTypes \ {"STARTED"}
  BY CommitFacts DEF Local
<1>2. Numbered /\ history \subseteq Rows /\ row \in Rows
  <2>1. history' \subseteq Rows
    BY NextStep DEF Next, Statement, IInv, TypeOK
  <2> QED BY <1>1, <2>1 DEF IInv, TypeOK
<1> HIDE DEF row
<1>3. LogOf(history)' = Append(LogOf(history), [type |-> k, step |-> local[a].step])
  BY <1>1, <1>2, LogAppend DEF Entry
<1>4. status' = IF k \in DOMAIN Log!NewStatus THEN Log!NewStatus[k] ELSE status
  BY <1>1 DEF Log!NewStatus, StatusAfter, EventTypes, OperatorEvents, StepEvents
<1> QED
  BY <1>3, <1>4 DEF Log!Record

\* A workflow that exists has a first row.
Begun == definition # "none" => history # {}

LEMMA BegunNext == Begun /\ [Next]_vars => Begun'
<1> SUFFICES ASSUME Begun, [Next]_vars
             PROVE  Begun'
  OBVIOUS
<1>1. CASE UNCHANGED <<definition, history>>
  BY <1>1 DEF Begun
<1>2. ASSUME NEW a \in Actors, Commit(a) PROVE Begun'
  BY <1>2 DEF Commit, Begun
<1>3. ASSUME NEW d \in {"api", "engine"}, StartWorkflow(d) PROVE Begun'
  BY <1>3 DEF StartWorkflow, Begun
<1>4. ASSUME NEW a \in Actors, Statement(a) \/ Crash(a), ~Commit(a)
      PROVE  UNCHANGED <<definition, history>>
  BY <1>4 DEF Statement, SelectMax, InsertEvent, UpdateRow, UniqueViolation, DeadlockVictim,
     Crash, Rollback, committed
<1>5. ASSUME NEW w \in Workers, Worker(w)
      PROVE  UNCHANGED <<definition, history>>
  BY <1>5 DEF Worker, ReadStatus, Replay, ExecuteStep, committed
<1>6. ASSUME NEW o \in Operators, NEW k \in OperatorEvents, Request(o, k)
      PROVE  UNCHANGED <<definition, history>>
  BY <1>6 DEF Request, committed
<1> QED
  BY <1>1, <1>2, <1>3, <1>4, <1>5, <1>6 DEF Next, vars

\* A commit is a step of the log, of the kind of its event.
LEMMA CommitImplements ==
    ASSUME CountInv, Begun, NEW a \in Actors, Commit(a)
    PROVE  Log!Next
<1> DEFINE k == local[a].kind
           s == local[a].step
<1>0. IInv /\ Numbered /\ history \subseteq Rows
  BY DEF CountInv, IInv, TypeOK
<1>1. /\ local[a].pc = "commit" /\ k \in EventTypes \ {"STARTED"}
      /\ k \in StepEvents => s \in Steps /\ 1..(s - 1) \subseteq Completed(history)
      /\ k \notin StepEvents => s = NoStep
      /\ k = "COMPLETED" => Steps \subseteq Completed(history)
  BY <1>0, CommitFacts DEF Local
<1>2. Log!Record(k, s)
  BY <1>0, RecordStep
<1>3. LogOf(history) # <<>>
  <2> DEFINE m == NextSequenceNo(history) - 1
  <2>1. /\ m \in Nat /\ {r.seq : r \in history} = 1..m
        /\ \A r, q \in history : r.seq = q.seq => r = q
    BY <1>0 DEF Numbered
  <2>2. \E r \in history : TRUE
    BY <1>0, <1>1 DEF Begun, IInv, NotCreated
  <2> HIDE DEF m
  <2>3. Len(LogOf(history)) = m /\ \A r \in history : r.seq \in 1..m
    BY <1>0, <2>1, LogFacts
  <2>4. Len(LogOf(history)) # 0
    BY <2>1, <2>2, <2>3
  <2> QED BY <2>4
<1>4. Log!Done = Completed(history) /\ Completed(history) \subseteq Steps /\ Log!Steps = Steps
  BY <1>0, LogDone, CompletedAreSteps DEF IInv, Log!Steps, Steps
<1> HIDE DEF k, s
<1>5. CASE k = "STEP_STARTED"
  <2>1. s \in Steps /\ Log!StartStep(s)
    BY <1>1, <1>2, <1>3, <1>4, <1>5 DEF Log!StartStep, StepEvents
  <2> QED BY <1>4, <2>1 DEF Log!Next
<1>6. CASE k \in {"STEP_COMPLETED", "STEP_FAILED"}
  <2>1. s \in Steps
    BY <1>1, <1>6 DEF StepEvents
  <2>2. a \in Answering(s)
    BY <1>1, <1>6 DEF Answering, InStep, k, s
  <2> DEFINE A == Answering(s)
             c == Cardinality(RowsOf("STEP_COMPLETED", s))
             f == Cardinality(RowsOf("STEP_FAILED", s))
             n == Cardinality(RowsOf("STEP_STARTED", s))
  <2>3. /\ Log!Count("STEP_COMPLETED", s) = c /\ Log!Count("STEP_FAILED", s) = f
        /\ Log!Count("STEP_STARTED", s) = n
    BY <1>0, LogCount
  <2>4. c \in Nat /\ f \in Nat /\ n \in Nat
    BY <1>0, RowsFinite
  <2>5. IsFiniteSet(A) /\ c + f + Cardinality(A) <= n
    BY <2>1 DEF CountInv, StartsCover
  <2> HIDE DEF A, c, f, n
  <2>6. Cardinality(A) \in Nat /\ Cardinality(A) # 0
    BY <2>2, <2>5, FS_CardinalityType, FS_EmptySet DEF A
  <2>7. Log!EndStep(s, k)
    BY <1>2, <2>3, <2>4, <2>5, <2>6 DEF Log!EndStep
  <2> QED BY <1>4, <1>6, <2>1, <2>7 DEF Log!Next
<1>7. CASE k = "COMPLETED"
  <2>1. s = 0 /\ Log!Done = Log!Steps
    BY <1>1, <1>4, <1>7 DEF StepEvents, NoStep
  <2>2. Log!Finish
    BY <1>2, <1>3, <1>7, <2>1 DEF Log!Finish
  <2> QED BY <2>2 DEF Log!Next
<1>8. CASE k \in OperatorEvents
  <2>1. s = 0
    BY <1>1, <1>8 DEF OperatorEvents, StepEvents, NoStep
  <2>2. Log!Transition(k)
    BY <1>2, <1>3, <2>1 DEF Log!Transition
  <2> QED BY <1>8, <2>2 DEF Log!Next, OperatorEvents
<1> QED
  BY <1>1, <1>5, <1>6, <1>7, <1>8 DEF EventTypes, StepEvents

LEMMA LogOfNothing == LogOf({}) = <<>>
<1>1. LogOf({}) \in Seq(Entries) /\ Len(LogOf({})) = 0
  BY LogFacts, 0 \in Nat, {r.seq : r \in {}} = 1..0
<1> QED
  BY <1>1

\* The first row is the first entry.
LEMMA StartImplements ==
    ASSUME CountInv, NEW d \in {"api", "engine"}, StartWorkflow(d)
    PROVE  Log!Next
<1> DEFINE row == [seq |-> 1, type |-> "STARTED", step |-> NoStep]
<1>1. NextSequenceNo({}) = 1
  BY NextNumber, 0 \in Nat, {r.seq : r \in {}} = 1..0
<1>2. history = {} /\ status = "RUNNING" /\ status' = status /\ history' = history \cup {row}
  BY <1>1 DEF CountInv, IInv, NotCreated, StartWorkflow
<1>3. row \in Rows /\ row.seq = NextSequenceNo(history) /\ Numbered /\ history \subseteq Rows
  BY <1>1, <1>2 DEF Rows, EventTypes, StepEvents, CountInv, IInv, TypeOK
<1>4. Entry(row) = [type |-> "STARTED", step |-> 0]
  BY DEF Entry, NoStep
<1> HIDE DEF row
<1>5. LogOf(history)' = Append(LogOf(history), [type |-> "STARTED", step |-> 0])
  BY <1>2, <1>3, <1>4, LogAppend
<1>6. Log!Record("STARTED", 0)
  BY <1>2, <1>5 DEF Log!Record, Log!NewStatus
<1>7. LogOf(history) = <<>>
  BY <1>2, LogOfNothing
<1> QED
  BY <1>6, <1>7 DEF Log!Start, Log!Next

LEMMA StepImplements ==
    ASSUME CountInv, Begun, [Next]_vars
    PROVE  [Log!Next]_<<LogOf(history), status>>
<1>1. ASSUME NEW a \in Actors, Commit(a) PROVE Log!Next
  BY <1>1, CommitImplements
<1>2. ASSUME NEW d \in {"api", "engine"}, StartWorkflow(d) PROVE Log!Next
  BY <1>2, StartImplements
<1>3. ASSUME NEW a \in Actors, Statement(a) \/ Crash(a), ~Commit(a)
      PROVE  UNCHANGED <<status, history>>
  BY <1>3 DEF Statement, SelectMax, InsertEvent, UpdateRow, UniqueViolation, DeadlockVictim,
     Crash, Rollback, committed
<1>4. ASSUME NEW w \in Workers, Worker(w)
      PROVE  UNCHANGED <<status, history>>
  BY <1>4 DEF Worker, ReadStatus, Replay, ExecuteStep, committed
<1>5. ASSUME NEW o \in Operators, NEW k \in OperatorEvents, Request(o, k)
      PROVE  UNCHANGED <<status, history>>
  BY <1>5 DEF Request, committed
<1>6. UNCHANGED <<status, history>> => UNCHANGED <<LogOf(history), status>>
  BY DEF LogOf
<1> QED
  BY <1>1, <1>2, <1>3, <1>4, <1>5, <1>6 DEF Next, vars

\* The engine and its requests, for any number of them, implement the
\* append-only log whose status is a function of it.
THEOREM Refinement == Spec => ImplementsLog
<1>1. Init => Log!Init /\ Begun
  BY LogOfNothing DEF Init, Log!Init, Begun
<1>2. CountInv /\ Begun /\ [Next]_vars => [Log!Next]_<<LogOf(history), status>>
  BY StepImplements
<1>3. Spec => []Begun
  BY <1>1, BegunNext, PTL DEF Spec
<1> QED
  BY <1>1, <1>2, <1>3, CountInvariance, PTL DEF Spec, ImplementsLog, Log!Spec
=============================================================================
