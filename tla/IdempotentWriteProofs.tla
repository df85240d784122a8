------------------------ MODULE IdempotentWriteProofs ------------------------
(***************************************************************************)
(* IInv is an inductive invariant of IdempotentWrite, for any attempts and *)
(* keys; the safety properties and the refinement of ExactlyOnce follow.   *)
(* RowInv is one of ApiResources, for any rows: names are taken once and   *)
(* no update is lost.  The rows only add to the write path, so its         *)
(* theorems hold of every RowSpec.                                         *)
(***************************************************************************)
EXTENDS ApiResources, TLAPS

\* The initial states satisfy the inductive invariant.
LEMMA InitInv == Init => IInv
BY NobodyAssumption, KeysAssumption
   DEF Init, IInv, TypeOK, KeyHeldAlone, SentHasKey, Unanswered, OnlySuccessCached,
       EffectHasKey, AnswersAgree, Cached, Running

\* A step that only moves one attempt to a state that claims nothing: its
\* key, the cache, the effects and the answers stay.
LEMMA MoveInv ==
    ASSUME IInv, NEW a \in Attempts, NEW p \in {"fn", "insert", "failed"},
           pc[a] # "unsent", pc[a] # "done",
           pc' = [pc EXCEPT ![a] = p],
           UNCHANGED <<keyOf, stored, effects, answered>>
    PROVE  IInv'
BY DEF IInv, TypeOK, KeyHeldAlone, SentHasKey, Unanswered, OnlySuccessCached,
       EffectHasKey, AnswersAgree, Cached, Running

\* Running a nested operation adds an effect that no other property counts.
LEMMA NestedInv ==
    ASSUME IInv, NEW a \in Attempts, NEW p \in {"insert", "failed"},
           pc[a] = "fn", keyOf[a] \in Nested,
           pc' = [pc EXCEPT ![a] = p], effects' = effects \cup {a},
           UNCHANGED <<keyOf, stored, answered>>
    PROVE  IInv'
BY DEF IInv, TypeOK, KeyHeldAlone, SentHasKey, Unanswered, OnlySuccessCached,
       EffectHasKey, AnswersAgree, Cached, Running

\* Every step preserves the inductive invariant.
LEMMA NextInv == IInv /\ [Next]_vars => IInv'
<1> SUFFICES ASSUME IInv, [Next]_vars PROVE IInv'
    OBVIOUS
<1>1. ASSUME NEW a \in Attempts, NEW k \in Keys, Receive(a, k) PROVE IInv'
    BY <1>1, NobodyAssumption, KeysAssumption
       DEF Receive, At, IInv, TypeOK, KeyHeldAlone, SentHasKey, Unanswered,
           OnlySuccessCached, EffectHasKey, AnswersAgree, Cached, Running
<1>2. ASSUME NEW a \in Attempts, Replay(a) PROVE IInv'
    BY <1>2, NobodyAssumption, KeysAssumption
       DEF Replay, At, IInv, TypeOK, KeyHeldAlone, SentHasKey, Unanswered,
           OnlySuccessCached, EffectHasKey, AnswersAgree, Cached, Running
<1>3. ASSUME NEW a \in Attempts, Miss(a) PROVE IInv'
    BY <1>3, MoveInv DEF Miss, At
<1>4. ASSUME NEW a \in Attempts, Run(a) \/ CreateTask(a) PROVE IInv'
    BY <1>4, MoveInv, NestedInv DEF Run, CreateTask, At, WritesOf
<1>5. ASSUME NEW a \in Attempts, Throw(a) PROVE IInv'
    BY <1>5, MoveInv, NestedInv DEF Throw, At, WritesOf
<1>6. ASSUME NEW a \in Attempts, InsertKey(a) PROVE IInv'
    BY <1>6, NobodyAssumption, KeysAssumption
       DEF InsertKey, KeyFree, At, IInv, TypeOK, KeyHeldAlone, SentHasKey, Unanswered,
           OnlySuccessCached, EffectHasKey, AnswersAgree, Cached, Running
<1>7. ASSUME NEW a \in Attempts, Conflict(a) PROVE IInv'
    BY <1>7, MoveInv DEF Conflict, At
<1>8. ASSUME NEW a \in Attempts, Commit(a) PROVE IInv'
    BY <1>8, NobodyAssumption, KeysAssumption
       DEF Commit, Remembered, Written, At, IInv, TypeOK, KeyHeldAlone, SentHasKey,
           Unanswered, OnlySuccessCached, EffectHasKey, AnswersAgree, Cached, Running
<1>9. ASSUME NEW a \in Attempts, Crash(a) PROVE IInv'
    BY <1>9, MoveInv DEF Crash, Running
<1>10. CASE UNCHANGED vars
    BY <1>10 DEF vars, IInv, TypeOK, KeyHeldAlone, SentHasKey, Unanswered,
                 OnlySuccessCached, EffectHasKey, AnswersAgree, Cached
<1> QED
    BY <1>1, <1>2, <1>3, <1>4, <1>5, <1>6, <1>7, <1>8, <1>9, <1>10 DEF Next, Step

\* The inductive invariant holds in every reachable state: in particular the
\* cache holds committed successes only, no effect is without its key, and
\* all answers under a key agree.
THEOREM Invariance == Spec => []IInv
BY InitInv, NextInv, PTL DEF Spec

\* Type correctness, for any attempts and keys.
THEOREM TypeCorrectness == Spec => []TypeOK
<1>1. IInv => TypeOK
    BY DEF IInv
<1> QED
    BY Invariance, <1>1, PTL

\* An operation that writes through its attempt's transaction takes effect
\* at most once per key, however many attempts race, fail, crash and retry.
THEOREM AtMostOnce == Spec => []ExecutedOnce
<1>1. IInv => ExecutedOnce
    BY DEF IInv, TypeOK, EffectHasKey, ExecutedOnce
<1> QED
    BY Invariance, <1>1, PTL

\* The API answers every attempt under one key with the cached result.
THEOREM AnsweredAlike == Spec => []AnswersAgree
<1>1. IInv => AnswersAgree
    BY DEF IInv
<1> QED
    BY Invariance, <1>1, PTL

\* A cached result is never replaced.
THEOREM CacheIsFinal == Spec => CacheWriteOnce
<1>1. IInv /\ [Next]_vars => [\A k \in Keys : Cached(k) => stored'[k] = stored[k]]_vars
  <2> SUFFICES ASSUME IInv, Next, NEW k \in Keys, Cached(k) PROVE stored'[k] = stored[k]
      BY DEF vars
  <2>1. ASSUME NEW a \in Attempts, Commit(a) PROVE stored'[k] = stored[k]
      BY <2>1 DEF Commit, Remembered, At, IInv, TypeOK, KeyHeldAlone, Cached
  <2> QED
      BY <2>1 DEF Next, Step, Receive, Replay, Miss, Run, CreateTask, Throw, InsertKey, Conflict, Crash, At
<1> QED
    BY Invariance, <1>1, PTL DEF Spec, CacheWriteOnce

-----------------------------------------------------------------------------
(* Refinement of ExactlyOnce, for the keys of plain operations and tasks.    *)

\* Attempts that only move change nothing ExactlyOnce sees; running an
\* operation counts only for a nested key.
LEMMA Unseen ==
    ASSUME IInv, NEW a \in Attempts, UNCHANGED <<keyOf, stored, answered>>,
           UNCHANGED effects \/ (effects' = effects \cup {a} /\ keyOf[a] \in Nested)
    PROVE  UNCHANGED Once!vars
<1>1. {b \in effects' : keyOf[b] \in Plain} = {b \in effects : keyOf[b] \in Plain}
    BY DEF Plain
<1> QED
    BY <1>1 DEF Once!vars

\* Every step of the API is a step of ExactlyOnce or leaves its variables
\* unchanged.
LEMMA StepRefines == ASSUME IInv, [Next]_vars PROVE [Once!Next]_(Once!vars)
<1> USE DEF Plain
<1>1. ASSUME NEW a \in Attempts, NEW k \in Keys, Receive(a, k) PROVE [Once!Next]_(Once!vars)
    <2>1. /\ keyOf[a] = NoKey /\ keyOf' = [keyOf EXCEPT ![a] = k]
          /\ UNCHANGED <<stored, effects, answered>>
          /\ a \notin effects /\ answered[a] = Nobody
        BY <1>1 DEF Receive, At, IInv, SentHasKey, Unanswered
    <2>2. {b \in effects : keyOf'[b] \in Plain} = {b \in effects : keyOf[b] \in Plain}
        BY <2>1 DEF IInv, TypeOK
    <2>3. [b \in Attempts |-> IF keyOf'[b] \in Plain THEN answered[b] ELSE Nobody]
          = [b \in Attempts |-> IF keyOf[b] \in Plain THEN answered[b] ELSE Nobody]
        BY <2>1, KeysAssumption DEF IInv, TypeOK
    <2>4. CASE k \in Nested
        <3>1. [b \in Attempts |-> IF keyOf'[b] \in Plain THEN keyOf'[b] ELSE NoKey]
              = [b \in Attempts |-> IF keyOf[b] \in Plain THEN keyOf[b] ELSE NoKey]
            BY <2>1, <2>4, KeysAssumption DEF IInv, TypeOK
        <3> QED
            BY <2>1, <2>2, <2>3, <3>1 DEF Once!vars
    <2>5. CASE k \notin Nested
        <3>1. k \in Plain
            BY <2>5
        <3>2. [b \in Attempts |-> IF keyOf'[b] \in Plain THEN keyOf'[b] ELSE NoKey]
              = [[b \in Attempts |-> IF keyOf[b] \in Plain THEN keyOf[b] ELSE NoKey]
                    EXCEPT ![a] = k]
            BY <2>1, <3>1 DEF IInv, TypeOK
        <3>3. Once!Send(a, k)
            BY <2>1, <2>2, <2>3, <3>1, <3>2, KeysAssumption DEF Once!Send
        <3> QED
            BY <3>1, <3>3 DEF Once!Next
    <2> QED
        BY <2>4, <2>5
<1>2. ASSUME NEW a \in Attempts, Replay(a) PROVE [Once!Next]_(Once!vars)
    <2>1. /\ answered' = [answered EXCEPT ![a] = stored[keyOf[a]]]
          /\ UNCHANGED <<keyOf, stored, effects>>
          /\ stored[keyOf[a]] # Nobody /\ answered[a] = Nobody /\ keyOf[a] \in Keys
        BY <1>2 DEF Replay, At, Cached, IInv, TypeOK, SentHasKey, Unanswered
    <2>2. CASE keyOf[a] \in Nested
        <3>1. [b \in Attempts |-> IF keyOf[b] \in Plain THEN answered'[b] ELSE Nobody]
              = [b \in Attempts |-> IF keyOf[b] \in Plain THEN answered[b] ELSE Nobody]
            BY <2>1, <2>2 DEF IInv, TypeOK
        <3> QED
            BY <2>1, <3>1 DEF Once!vars
    <2>3. CASE keyOf[a] \notin Nested
        <3>1. [b \in Attempts |-> IF keyOf[b] \in Plain THEN answered'[b] ELSE Nobody]
              = [[b \in Attempts |-> IF keyOf[b] \in Plain THEN answered[b] ELSE Nobody]
                    EXCEPT ![a] = stored[keyOf[a]]]
            BY <2>1, <2>3 DEF IInv, TypeOK
        <3>2. PICK k \in Plain : k = keyOf[a]
            BY <2>1, <2>3
        <3>3. Once!Answer(a, k)
            BY <2>1, <2>3, <3>1, <3>2 DEF Once!Answer
        <3> QED
            BY <3>2, <3>3 DEF Once!Next
    <2> QED
        BY <2>2, <2>3
<1>3. ASSUME NEW a \in Attempts, Commit(a) PROVE [Once!Next]_(Once!vars)
    <2>1. /\ stored' = [stored EXCEPT ![keyOf[a]] = a]
          /\ effects' = effects \cup {a}
          /\ answered' = [answered EXCEPT ![a] = a] /\ UNCHANGED keyOf
          /\ stored[keyOf[a]] = Nobody /\ answered[a] = Nobody /\ keyOf[a] \in Keys
        BY <1>3 DEF Commit, Remembered, Written, At, Cached, IInv, TypeOK, SentHasKey,
                    KeyHeldAlone, Unanswered
    <2>2. CASE keyOf[a] \in Nested
        <3>1. [b \in Attempts |-> IF keyOf[b] \in Plain THEN answered'[b] ELSE Nobody]
              = [b \in Attempts |-> IF keyOf[b] \in Plain THEN answered[b] ELSE Nobody]
            BY <2>1, <2>2 DEF IInv, TypeOK
        <3>2. [k \in Plain |-> stored'[k]] = [k \in Plain |-> stored[k]]
            BY <2>1, <2>2 DEF IInv, TypeOK
        <3>3. {b \in effects' : keyOf[b] \in Plain} = {b \in effects : keyOf[b] \in Plain}
            BY <2>1, <2>2
        <3> QED
            BY <2>1, <3>1, <3>2, <3>3 DEF Once!vars
    <2>3. CASE keyOf[a] \notin Nested
        <3>1. [b \in Attempts |-> IF keyOf[b] \in Plain THEN answered'[b] ELSE Nobody]
              = [[b \in Attempts |-> IF keyOf[b] \in Plain THEN answered[b] ELSE Nobody]
                    EXCEPT ![a] = a]
            BY <2>1, <2>3 DEF IInv, TypeOK
        <3>2. [k \in Plain |-> stored'[k]] = [[k \in Plain |-> stored[k]] EXCEPT ![keyOf[a]] = a]
            BY <2>1, <2>3 DEF IInv, TypeOK
        <3>3. {b \in effects' : keyOf[b] \in Plain}
              = {b \in effects : keyOf[b] \in Plain} \cup {a}
            BY <2>1, <2>3
        <3>4. PICK k \in Plain : k = keyOf[a]
            BY <2>1, <2>3
        <3>5. Once!Execute(a, k)
            BY <2>1, <2>3, <3>1, <3>2, <3>3, <3>4 DEF Once!Execute
        <3> QED
            BY <3>4, <3>5 DEF Once!Next
    <2> QED
        BY <2>2, <2>3
<1>4. ASSUME NEW a \in Attempts,
             \/ Miss(a) \/ Run(a) \/ CreateTask(a) \/ Throw(a)
             \/ InsertKey(a) \/ Conflict(a) \/ Crash(a)
      PROVE  UNCHANGED Once!vars
    <2>1. /\ UNCHANGED <<keyOf, stored, answered>>
          /\ UNCHANGED effects \/ (effects' = effects \cup {a} /\ keyOf[a] \in Nested)
        BY <1>4 DEF Miss, Run, CreateTask, Throw, WritesOf, InsertKey, Conflict, Crash
    <2> QED
        BY <2>1, Unseen
<1>5. CASE UNCHANGED vars
    BY <1>5 DEF vars, Once!vars
<1> QED
    BY <1>1, <1>2, <1>3, <1>4, <1>5 DEF Next, Step

\* Whatever nested operations do, the write path implements ExactlyOnce for
\* all other keys: every attempt under a key gets the result of the one
\* execution of that key.
THEOREM Refinement == Spec => ImplementsOnce
<1>1. Init => Once!Init
    BY KeysAssumption DEF Init, Once!Init, Plain
<1>2. IInv /\ [Next]_vars => [Once!Next]_(Once!vars)
    BY StepRefines
<1> QED
    BY Invariance, <1>1, <1>2, PTL DEF Spec, ImplementsOnce, Once!Spec

-----------------------------------------------------------------------------
(* The rows. *)

\* A step on the rows is a step of the write path.
LEMMA Underlying == [RowNext]_allVars => [Next]_vars
BY DEF RowNext, RowStep, Arrive, WriteRow, Attach, Refuse, CommitRow, Elsewhere, Abort, Die,
       Next, Step, allVars, vars

\* ApiResources executes nothing the write path does not allow.
THEOREM Superposed == RowSpec => Spec
<1>1. RowInit => Init
    BY DEF RowInit
<1> QED
    BY <1>1, Underlying, PTL DEF RowSpec, Spec

\* The initial states satisfy the inductive invariant.
LEMMA RowInitInv == RowInit => RowInv
<1> SUFFICES ASSUME RowInit PROVE RowInv
    OBVIOUS
<1>1. IInv /\ pc = [a \in Attempts |-> "unsent"] /\ effects = {}
    BY InitInv DEF RowInit, Init
<1>2. RowTypeOK
    BY ResourceAssumption DEF RowInit, RowTypeOK, Version, Blank
<1>3. HeldAlone /\ DraftCurrent /\ CreatedThere /\ NameTakenOnce
    BY <1>1 DEF HeldAlone, DraftCurrent, CreatedThere, NameTakenOnce, Holds
<1> QED
    BY <1>1, <1>2, <1>3 DEF RowInv

\* A step after which an attempt holds no row it did not hold, and nothing is
\* committed that made a row.
LEMMA RowMove ==
    ASSUME RowInv, IInv', RowTypeOK', NEW a \in Attempts,
           UNCHANGED <<there, column>>,
           \A b \in Attempts \ {a} : draft'[b] = draft[b],
           \A b \in Attempts, r \in Resources : Holds(b, r)' => Holds(b, r) /\ keyOf'[b] = keyOf[b],
           (\E r \in Resources : Holds(a, r)') => draft'[a] = draft[a],
           \A b \in effects : keyOf'[b] = keyOf[b],
           \A b \in effects' \ effects : keyOf'[b] \notin Creates
    PROVE  RowInv'
<1>1. HeldAlone'
    BY DEF RowInv, HeldAlone
<1>2. DraftCurrent'
    <2> SUFFICES ASSUME NEW b \in Attempts, NEW r \in Resources, Holds(b, r)'
                 PROVE  (/\ \A c \in Columns : draft[b][c] \in {b, column[r][c]}
                         /\ keyOf[b] \in Creates => r \notin there)'
        BY DEF DraftCurrent
    <2>1. Holds(b, r) /\ keyOf'[b] = keyOf[b] /\ draft'[b] = draft[b]
        OBVIOUS
    <2> QED
        BY <2>1 DEF RowInv, DraftCurrent
<1>3. CreatedThere' /\ NameTakenOnce'
    BY DEF RowInv, CreatedThere, NameTakenOnce
<1> QED
    BY <1>1, <1>2, <1>3 DEF RowInv

\* Every step preserves the inductive invariant.
LEMMA RowNextInv == RowInv /\ [RowNext]_allVars => RowInv'
<1> SUFFICES ASSUME RowInv, [RowNext]_allVars PROVE RowInv'
    OBVIOUS
<1>1. IInv /\ IInv'
    BY Underlying, NextInv DEF RowInv
<1>2. /\ pc \in [Attempts -> {"unsent", "done", "failed"} \cup Running]
      /\ keyOf \in [Attempts -> Keys \cup {NoKey}] /\ effects \subseteq Attempts
      /\ there \subseteq Resources /\ column \in [Resources -> Version] /\ draft \in [Attempts -> Version]
    BY <1>1 DEF IInv, TypeOK, RowInv, RowTypeOK
<1>3. Blank \in Version
    BY DEF Blank, Version
<1>4. ASSUME NEW a \in Attempts, NEW k \in Keys, Arrive(a, k) PROVE RowInv'
    <2>1. /\ pc[a] = "unsent" /\ pc' = [pc EXCEPT ![a] = "select"] /\ keyOf' = [keyOf EXCEPT ![a] = k]
          /\ effects' = effects /\ UNCHANGED rvars /\ a \notin effects
        BY <1>1, <1>4 DEF Arrive, Receive, At, IInv, Unanswered
    <2>2. \A b \in Attempts, r \in Resources : Holds(b, r)' => Holds(b, r) /\ keyOf'[b] = keyOf[b]
        BY <1>2, <2>1 DEF Holds
    <2> QED
        BY <1>1, <1>2, <2>1, <2>2, RowMove DEF rvars, RowTypeOK
<1>5. ASSUME NEW a \in Attempts, Attach(a) \/ Refuse(a) \/ Elsewhere(a) \/ Abort(a) \/ Die(a) PROVE RowInv'
    <2>1. /\ keyOf' = keyOf /\ UNCHANGED <<there, column>> /\ draft' \in [Attempts -> Version]
          /\ \A b \in Attempts \ {a} : draft'[b] = draft[b]
        BY <1>2, <1>3, <1>5 DEF Attach, Refuse, Elsewhere, Abort, Die, rvars, Run, Throw, Replay, Miss,
                               InsertKey, CreateTask, Commit, Conflict, Crash
    <2>2. effects' \subseteq effects \cup {a} /\ (effects' = effects \/ keyOf[a] \notin Creates)
        BY <1>5, RowedAssumption
           DEF Attach, Refuse, Elsewhere, Abort, Die, Run, Throw, WritesOf, Written, Replay, Miss, InsertKey,
               CreateTask, Commit, Conflict, Crash, Rowed
    <2>3. \/ \E p \in {"done", "failed", "fn"} : pc' = [pc EXCEPT ![a] = p]
          \/ pc' = [pc EXCEPT ![a] = "insert"] /\ keyOf[a] \notin Rowed /\ draft' = draft
          \/ pc' = [pc EXCEPT ![a] = "commit"] /\ pc[a] = "insert" /\ draft' = draft
        BY <1>5, RowedAssumption
           DEF Attach, Refuse, Elsewhere, Abort, Die, rvars, Run, Throw, Replay, Miss, InsertKey, CreateTask,
               Commit, Conflict, Crash, At, Rowed
    <2>4. \A b \in Attempts, r \in Resources : Holds(b, r)' => Holds(b, r) /\ (b = a => draft' = draft)
        BY <1>2, <2>1, <2>3 DEF Holds
    <2> QED
        BY <1>1, <1>2, <2>1, <2>2, <2>4, RowMove DEF RowTypeOK
<1>6. ASSUME NEW a \in Attempts, WriteRow(a) PROVE RowInv'
    <2> DEFINE k == keyOf[a]
               n == Named[k]
    <2>1. /\ k \in Rowed /\ Applies(k) /\ Free(a) /\ pc[a] = "fn" /\ pc' = [pc EXCEPT ![a] = "insert"]
          /\ UNCHANGED <<keyOf, effects, there, column>> /\ draft' = [draft EXCEPT ![a] = NewVersion(a)]
        BY <1>6, RowedAssumption DEF WriteRow, Run, At, WritesOf
    <2>2. n \in Resources
        BY <2>1, ResourceAssumption
    <2>3. NewVersion(a) \in Version /\ \A c \in Columns : NewVersion(a)[c] \in {a, column[n][c]}
        BY <1>2, <2>2 DEF NewVersion, Version
    <2>4. RowTypeOK'
        BY <1>2, <2>1, <2>3 DEF RowTypeOK
    <2>5. \A b \in Attempts, r \in Resources : Holds(b, r)' <=> (Holds(b, r) \/ (b = a /\ r = n))
        BY <1>2, <2>1 DEF Holds
    <2>6. HeldAlone'
        BY <2>1, <2>5 DEF RowInv, HeldAlone, Free, Holds
    <2>7. DraftCurrent'
        <3> SUFFICES ASSUME NEW b \in Attempts, NEW r \in Resources, Holds(b, r)'
                     PROVE  (/\ \A c \in Columns : draft[b][c] \in {b, column[r][c]}
                             /\ keyOf[b] \in Creates => r \notin there)'
            BY DEF DraftCurrent
        <3>1. CASE b = a
            <4>1. r = n /\ draft'[a] = NewVersion(a)
                BY <1>2, <2>1, <2>5, <3>1 DEF Holds
            <4> QED
                BY <2>1, <2>3, <3>1, <4>1, RowedAssumption
                   DEF Applies, CreateProject, CreateVersion, PutFlag, PatchProject, RotateSecret,
                       StoreArtifact, CreateWorkflow, SendMessage, Rowed, Creates, Updates, Attaches
        <3>2. CASE b # a
            BY <1>2, <2>1, <2>5, <3>2 DEF RowInv, DraftCurrent
        <3> QED
            BY <3>1, <3>2
    <2>8. CreatedThere' /\ NameTakenOnce'
        BY <2>1 DEF RowInv, CreatedThere, NameTakenOnce
    <2> QED
        BY <1>1, <2>4, <2>6, <2>7, <2>8 DEF RowInv
<1>7. ASSUME NEW a \in Attempts, CommitRow(a) PROVE RowInv'
    <2> DEFINE k == keyOf[a]
               n == Named[k]
    <2>1. /\ k \in Rowed /\ pc[a] = "commit" /\ pc' = [pc EXCEPT ![a] = "done"] /\ keyOf' = keyOf
          /\ effects' = effects \cup {a} /\ there' = there \cup {n}
          /\ column' = [column EXCEPT ![n] = draft[a]] /\ draft' = [draft EXCEPT ![a] = Blank]
        BY <1>7 DEF CommitRow, Commit, At, Written
    <2>2. n \in Resources /\ Holds(a, n)
        BY <2>1, ResourceAssumption DEF Holds
    <2>3. RowTypeOK'
        BY <1>2, <1>3, <2>1, <2>2 DEF RowTypeOK
    <2>4. \A b \in Attempts, r \in Resources : Holds(b, r)' => Holds(b, r) /\ b # a /\ r # n
        BY <1>2, <2>1, <2>2 DEF Holds, RowInv, HeldAlone
    <2>5. HeldAlone'
        BY <2>4 DEF RowInv, HeldAlone
    <2>6. DraftCurrent'
        <3> SUFFICES ASSUME NEW b \in Attempts, NEW r \in Resources, Holds(b, r)'
                     PROVE  (/\ \A c \in Columns : draft[b][c] \in {b, column[r][c]}
                             /\ keyOf[b] \in Creates => r \notin there)'
            BY DEF DraftCurrent
        <3>1. Holds(b, r) /\ b # a /\ r # n
            BY <2>4
        <3> QED
            BY <1>2, <2>1, <3>1 DEF RowInv, DraftCurrent
    <2>7. CreatedThere'
        BY <1>2, <2>1 DEF RowInv, CreatedThere
    <2>8. NameTakenOnce'
        <3>1. k \in Creates => n \notin there
            BY <2>2 DEF RowInv, DraftCurrent
        <3>2. \A b \in effects : k \in Creates /\ keyOf[b] \in Creates => Named[keyOf[b]] # n
            BY <3>1 DEF RowInv, CreatedThere
        <3> QED
            BY <2>1, <3>2 DEF RowInv, NameTakenOnce
    <2> QED
        BY <1>1, <2>3, <2>5, <2>6, <2>7, <2>8 DEF RowInv
<1>8. CASE UNCHANGED allVars
    BY <1>1, <1>8 DEF allVars, RowInv, RowTypeOK, HeldAlone, DraftCurrent, CreatedThere, NameTakenOnce, Holds
<1> QED
    BY <1>4, <1>5, <1>6, <1>7, <1>8 DEF RowNext, RowStep

\* The inductive invariant holds in every reachable state: an attempt writes
\* a row alone, on top of what is committed.
THEOREM RowInvariance == RowSpec => []RowInv
BY RowInitInv, RowNextInv, PTL DEF RowSpec

\* One of all requests that name a project or a version makes it, whatever
\* their keys.
THEOREM NamesUnique == RowSpec => []NameTakenOnce
<1>1. RowInv => NameTakenOnce
    BY DEF RowInv
<1> QED
    BY RowInvariance, <1>1, PTL

\* No committed value of a column is replaced but by the request that commits
\* and names the column.
THEOREM UpdatesKept == RowSpec => NoLostUpdate
<1>1. RowInv /\ [RowNext]_allVars =>
          [\A r \in Resources, c \in Columns : column'[r][c] # column[r][c] =>
              column'[r][c] \in effects' \ effects]_allVars
  <2> SUFFICES ASSUME RowInv, RowNext, NEW r \in Resources, NEW c \in Columns, column'[r][c] # column[r][c]
               PROVE  column'[r][c] \in effects' \ effects
      BY DEF allVars
  <2>1. PICK a \in Attempts : CommitRow(a)
      BY DEF RowNext, RowStep, Arrive, WriteRow, Attach, Refuse, Elsewhere, Abort, Die, rvars
  <2>2. /\ keyOf[a] \in Rowed /\ pc[a] = "commit" /\ effects' = effects \cup {a}
        /\ column' = [column EXCEPT ![Named[keyOf[a]]] = draft[a]]
      BY <2>1 DEF CommitRow, Commit, At, Written
  <2>3. Holds(a, Named[keyOf[a]]) /\ Named[keyOf[a]] \in Resources
      BY <2>2, ResourceAssumption DEF Holds
  <2>4. column \in [Resources -> Version]
      BY DEF RowInv, RowTypeOK
  <2>5. r = Named[keyOf[a]] /\ column'[r][c] = draft[a][c]
      BY <2>2, <2>3, <2>4
  <2>6. column'[r][c] = a
      BY <2>3, <2>5 DEF RowInv, DraftCurrent
  <2>7. a \notin effects
      <3>1. keyOf[a] \notin Nested /\ keyOf[a] \in Keys
          BY <2>2, RowedAssumption
      <3>2. stored[keyOf[a]] = Nobody
          BY <2>2, <3>1 DEF RowInv, IInv, KeyHeldAlone, Cached
      <3> QED
          BY <3>1, <3>2, NobodyAssumption DEF RowInv, IInv, EffectHasKey
  <2> QED
      BY <2>2, <2>6, <2>7
<1> QED
    BY RowInvariance, <1>1, PTL DEF RowSpec, NoLostUpdate

\* The write path's promises hold of the requests on rows.
THEOREM RowsExecutedOnce == RowSpec => ([]ExecutedOnce /\ ImplementsOnce)
BY Superposed, AtMostOnce, Refinement, PTL
=============================================================================
