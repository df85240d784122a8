--------------------------- MODULE GatewaysProofs ---------------------------
(***************************************************************************)
(* Theorems about Gateways for any calls, runs, suites and connections:    *)
(* the pool is never overdrawn, and the audit trail, the model runs and    *)
(* the usage events agree with what was really called.  The argument: a    *)
(* place is reached only by commits that were confirmed, so what is on     *)
(* record follows from the place (CallFits, RunFits), whatever is lost,    *)
(* in doubt, or cut off by a crash.                                        *)
(***************************************************************************)
EXTENDS Gateways, FiniteSetTheorems, TLAPS

-----------------------------------------------------------------------------
(* The pool. *)

\* A connection given to c is one more slot.
LEMMA Connected ==
    ASSUME held \in [Clients -> Nat], IsFiniteSet(Slots), NEW c \in Clients, Connect(c)
    PROVE  /\ held' \in [Clients -> Nat] /\ held'[c] = held[c] + 1
           /\ \A d \in Clients : d # c => held'[d] = held[d]
           /\ IsFiniteSet(Slots)' /\ InUse' <= PoolSize
<1> DEFINE new == <<c, held[c] + 1>>
<1>1. /\ held' \in [Clients -> Nat] /\ held'[c] = held[c] + 1
      /\ \A d \in Clients : d # c => held'[d] = held[d]
    BY DEF Connect
<1>2. 1..held'[c] = 1..held[c] \cup {held[c] + 1}
    BY <1>1
<1>3. Slots' = Slots \cup {new}
    BY <1>1, <1>2 DEF Slots
<1>4. Cardinality(Slots) \in Nat /\ Cardinality(Slots) < PoolSize /\ PoolSize \in Nat
    BY FS_CardinalityType, PoolAssumption DEF Connect, InUse
<1> HIDE DEF new
<1>5. /\ IsFiniteSet(Slots \cup {new})
      /\ Cardinality(Slots \cup {new}) \in {Cardinality(Slots), Cardinality(Slots) + 1}
    BY FS_AddElement
<1> QED
    BY <1>1, <1>3, <1>4, <1>5 DEF InUse

\* A connection given back is a slot less.
LEMMA Released ==
    ASSUME held \in [Clients -> Nat], IsFiniteSet(Slots), InUse <= PoolSize,
           NEW c \in Clients, held[c] > 0, NEW end, Release(c, end)
    PROVE  /\ held' \in [Clients -> Nat] /\ held'[c] = held[c] - 1
           /\ \A d \in Clients : d # c => held'[d] = held[d]
           /\ IsFiniteSet(Slots)' /\ InUse' <= PoolSize
<1>1. /\ held' \in [Clients -> Nat] /\ held'[c] = held[c] - 1
      /\ \A d \in Clients : d # c => held'[d] = held[d]
    BY DEF Release
<1>2. Slots' \in SUBSET Slots
    BY <1>1 DEF Slots
<1>3. Cardinality(Slots) \in Nat /\ Cardinality(Slots) <= PoolSize /\ PoolSize \in Nat
    BY FS_CardinalityType, PoolAssumption DEF InUse
<1>4. IsFiniteSet(Slots') /\ Cardinality(Slots') <= Cardinality(Slots) /\ Cardinality(Slots') \in Nat
    BY <1>2, FS_Subset, FS_CardinalityType
<1> QED
    BY <1>1, <1>3, <1>4 DEF InUse

\* No connection, no slot.
LEMMA Emptied ==
    ASSUME held' = [c \in Clients |-> 0]
    PROVE  held' \in [Clients -> Nat] /\ IsFiniteSet(Slots)' /\ InUse' <= PoolSize
<1>1. \A c \in Clients : held'[c] = 0
    OBVIOUS
<1>2. Slots' = {}
    BY <1>1 DEF Slots
<1> QED
    BY <1>2, FS_EmptySet, PoolAssumption DEF InUse

-----------------------------------------------------------------------------
(* The steps of one call and of one run. *)

\* What the pool is to each instance.
LEMMA SamePool ==
    ASSUME NEW c, NEW end
    PROVE  /\ Tools!Connect(c) <=> Connect(c)
           /\ Models!Connect(c) <=> Connect(c)
           /\ Tools!Release(c, end) <=> Release(c, end)
           /\ Models!Release(c, end) <=> Release(c, end)
BY DEF Tools!Connect, Models!Connect, Connect, Tools!Release, Models!Release, Release,
       Tools!InUse, Models!InUse, InUse, Tools!Slots, Models!Slots, Slots,
       Tools!Cardinality, Models!Cardinality, Cardinality, Zenon

\* What a call's step does to the pool.
LEMMA CallPool ==
    ASSUME IInv, NEW c \in Calls, ToolCalls(c)
    PROVE  /\ held' \in [Clients -> Nat] /\ IsFiniteSet(Slots)' /\ InUse' <= PoolSize
           /\ held'[c] <= IF call'[c] \in {"check", "blocked", "executed", "failed"} THEN 1 ELSE 0
           /\ \A d \in Clients : d # c => held'[d] = held[d]
<1>1. /\ c \in Clients /\ held \in [Clients -> Nat] /\ IsFiniteSet(Slots) /\ InUse <= PoolSize
      /\ call \in [Calls -> Tools!Places]
      /\ held[c] <= IF call[c] \in {"check", "blocked", "executed", "failed"} THEN 1 ELSE 0
    BY ClientsAssumption DEF IInv, TypeOK, ConnectionsMatch, Tools!ToolTypeOK
<1>2. CASE Tools!CallTool(c)
    BY <1>1, <1>2 DEF Tools!CallTool, Tools!Goto, InUse, Slots
<1>3. CASE Tools!BeginTool(c)
    BY <1>1, <1>3, SamePool, Connected DEF Tools!BeginTool, Tools!toolVars
<1>4. CASE UNCHANGED held /\ call[c] = "mcp"
    BY <1>1, <1>4 DEF InUse, Slots
<1>5. CASE \E end : Release(c, end) /\ held[c] = 1
    BY <1>1, <1>5, Released
<1> QED
    BY <1>2, <1>3, <1>4, <1>5, SamePool DEF ToolCalls, Tools!ToolStep, Tools!Refuse, Tools!Decide, Tools!CallMcp,
       Tools!AuditBlocked, Tools!AuditExecuted, Tools!AuditFailed, Tools!InTransaction, Tools!recordAudit

\* The same for a run.
LEMMA RunPool ==
    ASSUME IInv, NEW r \in Runs, ModelRuns(r)
    PROVE  /\ held' \in [Clients -> Nat] /\ IsFiniteSet(Slots)' /\ InUse' <= PoolSize
           /\ held'[r] \in Held(r, run'[r])
           /\ \A d \in Clients : d # r => held'[d] = held[d]
<1>1. /\ r \in Clients /\ held \in [Clients -> Nat] /\ IsFiniteSet(Slots) /\ InUse <= PoolSize
      /\ run \in [Runs -> Models!RunPlaces] /\ held[r] \in Held(r, run[r])
      /\ run[r] \in {"evaluate", "score"} => r \in Suites
    BY ClientsAssumption DEF IInv, TypeOK, ConnectionsMatch, Models!RunTypeOK, Models!RunFits
<1>2. CASE Models!StartRun(r)
    BY <1>1, <1>2 DEF Models!StartRun, Models!GotoRun, InUse, Slots, Held
<1>3. CASE Models!Evaluate(r)
    BY <1>1, <1>3, SamePool, Connected DEF Models!Evaluate, Models!GotoRun, Held
<1>4. CASE Models!BeginRun(r)
    BY <1>1, <1>4, SamePool, Connected DEF Models!BeginRun, Models!runVars, Models!Base, Held
<1>5. CASE \E serves, reply : Models!AskProvider(r, serves, reply)
    BY <1>1, <1>5 DEF Models!AskProvider, Models!GotoRun, InUse, Slots, Held
<1>6. ASSUME NEW end, Release(r, end), held[r] > 0, held[r] - 1 \in Held(r, run'[r])
      PROVE  /\ held' \in [Clients -> Nat] /\ IsFiniteSet(Slots)' /\ InUse' <= PoolSize
             /\ held'[r] \in Held(r, run'[r])
             /\ \A d \in Clients : d # r => held'[d] = held[d]
    BY <1>1, <1>6, Released
<1>7. CASE \E end : Models!UnknownModel(r) \/ Models!InsertRun(r, end) \/ Models!CompleteRun(r, end)
                    \/ Models!FailRun(r, end) \/ Models!Score(r, end) \/ Models!ResolveSecret(r, end)
    <2>1. \E end : Release(r, end)
        BY <1>7, SamePool DEF Models!UnknownModel, Models!InsertRun, Models!CompleteRun, Models!FailRun, Models!Score,
           Models!ResolveSecret
    <2>2. CASE Models!UnknownModel(r)
        <3>1. held[r] = 1 /\ run'[r] = "done"
            BY <1>1, <2>2 DEF Models!UnknownModel, Models!GotoRun, Models!Base
        <3>2. 0 \in Held(r, "done")
            BY DEF Held
        <3> QED
            BY <1>6, <2>1, <3>1, <3>2
    <2>3. CASE \E end : Models!InsertRun(r, end) \/ Models!ResolveSecret(r, end)
        <3>1. run[r] \in {"insert", "secret"} /\ held[r] = Models!Base(r) + 1
            BY <2>3 DEF Models!InsertRun, Models!ResolveSecret, Models!RunInTransaction
        <3>2. run'[r] \in {"secret", "ask", "fail", "done", "score"} /\ (run'[r] = "done" => r \notin Suites)
              /\ (run'[r] = "score" => r \in Suites)
            BY <1>1, <2>3 DEF Models!InsertRun, Models!ResolveSecret, Models!GotoRun, Models!Finish
        <3> QED
            BY <1>6, <2>1, <3>1, <3>2 DEF Models!Base, Held
    <2>4. CASE \E end : Models!CompleteRun(r, end) \/ Models!FailRun(r, end)
        <3>1. run[r] \in {"complete", "fail"} /\ held[r] = Models!Base(r) + 1
            BY <2>4 DEF Models!CompleteRun, Models!FailRun, Models!RunInTransaction
        <3>2. run'[r] = IF r \in Suites THEN "score" ELSE "done"
            BY <1>1, <2>4 DEF Models!CompleteRun, Models!FailRun, Models!GotoRun, Models!Finish
        <3> QED
            BY <1>6, <2>1, <3>1, <3>2 DEF Models!Base, Held
    <2>5. CASE \E end : Models!Score(r, end)
        BY <1>1, <1>6, <2>1, <2>5 DEF Models!Score, Models!GotoRun, Held
    <2> QED
        BY <1>7, <2>2, <2>3, <2>4, <2>5
<1> QED
    BY <1>2, <1>3, <1>4, <1>5, <1>7 DEF ModelRuns, Models!RunStep

-----------------------------------------------------------------------------
(* What is on record of a call. *)

\* What a call's own step does to its place and its records.
CallMoves(c) ==
    /\ call' \in [Calls -> Tools!Places] /\ told' \in [Calls -> Tools!Answers]
    /\ \A d \in Calls : d # c => call'[d] = call[d] /\ told'[d] = told[d]
    /\ recorded \subseteq recorded'
    /\ \A d \in Calls : \A v : d # c => (<<d, v>> \in recorded' <=> <<d, v>> \in recorded)
    /\ \A d \in Calls : d # c => (d \in performed' <=> d \in performed)
    /\ \A d \in Calls : \A e : d # c => (<<e, d>> \in audited' <=> <<e, d>> \in audited)
    /\ recorded' \subseteq Calls \X Decisions /\ performed' \subseteq Calls
    /\ audited' \subseteq Tools!Events \X Calls

\* A call changes its own records only, within their types.
LEMMA CallFrame == ASSUME IInv, NEW c \in Calls, ToolCalls(c) PROVE CallMoves(c)
<1>1. /\ call \in [Calls -> Tools!Places] /\ told \in [Calls -> Tools!Answers]
      /\ recorded \subseteq Calls \X Decisions /\ performed \subseteq Calls
      /\ audited \subseteq Tools!Events \X Calls
    BY DEF IInv, TypeOK, Tools!ToolTypeOK
<1> USE <1>1 DEF CallMoves, Tools!Places, Tools!Answers, Tools!Events, Tools!Goto, Tools!Tell
<1>2. CASE Tools!CallTool(c) \/ Tools!BeginTool(c) \/ Tools!Refuse(c)
    BY <1>2 DEF Tools!CallTool, Tools!BeginTool, Tools!Refuse, Tools!toolVars
<1>3. ASSUME NEW end, NEW decision \in Decisions, Tools!Decide(c, decision, end) PROVE CallMoves(c)
    BY <1>3 DEF Tools!Decide
<1>4. ASSUME NEW runs, NEW answers, Tools!CallMcp(c, runs, answers) PROVE CallMoves(c)
    BY <1>4 DEF Tools!CallMcp
<1>5. ASSUME NEW end, Tools!AuditBlocked(c, end) \/ Tools!AuditExecuted(c, end) \/ Tools!AuditFailed(c, end)
      PROVE  CallMoves(c)
    BY <1>5 DEF Tools!AuditBlocked, Tools!AuditExecuted, Tools!AuditFailed, Tools!recordAudit, Tools!AfterExecuted
<1> QED
    BY <1>2, <1>3, <1>4, <1>5 DEF ToolCalls, Tools!ToolStep

\* The invariant of one call.
CallInv(c) ==
    /\ told[c] # "nothing" => call[c] = "done"
    /\ call[c] \in {"new", "check", "blocked", "mcp"} => c \notin performed
    /\ call[c] \in {"mcp", "executed", "failed"} => <<c, "ALLOW">> \in recorded
    /\ call[c] = "executed" => c \in performed
    /\ <<"TOOL_CALL_BLOCKED", c>> \in audited => call[c] \in {"done", "crashed"}
    /\ told[c] = "result"  => <<"TOOL_CALL_EXECUTED", c>> \in audited
    /\ told[c] = "blocked" => <<"TOOL_CALL_BLOCKED", c>> \in audited
    /\ c \in performed => <<c, "ALLOW">> \in recorded
    /\ <<"TOOL_CALL_EXECUTED", c>> \in audited => c \in performed
    /\ <<"TOOL_CALL_BLOCKED", c>> \in audited \/ told[c] = "refused" => c \notin performed

\* The invariant, call by call.
LEMMA CallsInv == (Tools!CallFits /\ OutcomesAudited /\ TrailMatchesCalls) <=> \A c \in Calls : CallInv(c)
BY DEF Tools!CallFits, OutcomesAudited, Tools!OutcomesAudited, TrailMatchesCalls, Tools!TrailMatchesCalls, CallInv

\* Every step of a call keeps what is on record of all calls.
LEMMA CallInvKept == ASSUME IInv, NEW c \in Calls, ToolCalls(c), NEW d \in Calls PROVE CallInv(d)'
<1>1. CallInv(d) /\ CallInv(c) /\ CallMoves(c)
    BY CallsInv, CallFrame DEF IInv
<1>2. CASE d # c
    BY <1>1, <1>2 DEF CallInv, CallMoves
<1>3. /\ call \in [Calls -> Tools!Places] /\ told \in [Calls -> Tools!Answers]
    BY DEF IInv, TypeOK, Tools!ToolTypeOK
<1> USE <1>1, <1>3 DEF CallInv, Tools!Places, Tools!Answers, Tools!Goto, Tools!Tell
<1>4. CASE Tools!CallTool(c) \/ Tools!BeginTool(c) \/ Tools!Refuse(c)
    BY <1>4 DEF Tools!CallTool, Tools!BeginTool, Tools!Refuse, Tools!toolVars, Tools!InTransaction
<1>5. ASSUME NEW end, NEW decision \in Decisions, Tools!Decide(c, decision, end) PROVE CallInv(c)'
    BY <1>5 DEF Tools!Decide, Tools!InTransaction, Tools!MayCall, Tools!Wrote
<1>6. ASSUME NEW runs, NEW answers, Tools!CallMcp(c, runs, answers) PROVE CallInv(c)'
    BY <1>6 DEF Tools!CallMcp
<1>7. ASSUME NEW end, Tools!AuditBlocked(c, end) PROVE CallInv(c)'
    BY <1>7 DEF Tools!AuditBlocked, Tools!recordAudit, Tools!InTransaction, Tools!Wrote
<1>8. ASSUME NEW end, Tools!AuditExecuted(c, end) PROVE CallInv(c)'
    BY <1>8 DEF Tools!AuditExecuted, Tools!recordAudit, Tools!InTransaction, Tools!Wrote, Tools!AfterExecuted
<1>9. ASSUME NEW end, Tools!AuditFailed(c, end) PROVE CallInv(c)'
    BY <1>9 DEF Tools!AuditFailed, Tools!recordAudit, Tools!InTransaction, Tools!Wrote
<1> QED
    BY <1>2, <1>4, <1>5, <1>6, <1>7, <1>8, <1>9 DEF ToolCalls, Tools!ToolStep

-----------------------------------------------------------------------------
(* What is on record of a run. *)

\* What a run's own step leaves of the others.
RunMoves(r) ==
    /\ Models!RunTypeOK'
    /\ \A q \in Runs : q # r =>
          /\ run'[q] = run[q] /\ outcome'[q] = outcome[q] /\ tries'[q] = tries[q] /\ (q \in served' <=> q \in served)
          /\ status'[q] = status[q] /\ usage'[q] = usage[q] /\ scored'[q] = scored[q]

\* The invariant of one run.
RunInv(r) ==
    /\ run[r] \in {"evaluate", "score"} => r \in Suites
    /\ run[r] \in {"new", "evaluate", "insert"} => status[r] = "absent"
    /\ run[r] \in {"secret", "ask", "complete", "fail"} => status[r] = "RUNNING"
    /\ run[r] \in {"new", "evaluate", "insert", "secret"} => tries[r] = 0
    /\ run[r] = "ask" => tries[r] < maxAttempts
    /\ run[r] = "complete" => r \in served
    /\ outcome[r] # "nothing" => run[r] \in {"score", "done", "crashed"}
    /\ scored[r] # "absent" => run[r] = "done"
    /\ outcome[r] = "result" => status[r] = "COMPLETED"
    /\ outcome[r] = "failed" => status[r] = "FAILED"
    /\ usage[r] = IF status[r] = "COMPLETED" THEN 1 ELSE 0
    /\ usage[r] > 0 => r \in served
    /\ scored[r] = "success" => status[r] = "COMPLETED"

\* The invariant, run by run.
LEMMA RunsInv == (Models!RunFits /\ RunsOnRecord) <=> \A r \in Runs : RunInv(r)
BY DEF Models!RunFits, RunsOnRecord, Models!RunsOnRecord, RunInv

\* A run changes its own records only, within their types.
LEMMA RunFrame == ASSUME IInv, NEW r \in Runs, ModelRuns(r) PROVE RunMoves(r)
<1>1. Models!RunTypeOK /\ RunInv(r) /\ maxAttempts \in Nat \ {0}
    BY RunsInv, RetriesAssumption DEF IInv, TypeOK
<1> USE <1>1 DEF RunMoves, Models!RunTypeOK, Models!RunPlaces, Models!GotoRun, Models!Finish
<1>2. CASE Models!StartRun(r) \/ Models!Evaluate(r) \/ Models!BeginRun(r) \/ Models!UnknownModel(r)
    BY <1>2 DEF Models!StartRun, Models!Evaluate, Models!BeginRun, Models!UnknownModel, Models!runVars
<1>3. ASSUME NEW end, Models!InsertRun(r, end) \/ Models!FailRun(r, end) PROVE RunMoves(r)
    BY <1>3 DEF Models!InsertRun, Models!FailRun
<1>4. ASSUME NEW end, Models!CompleteRun(r, end) PROVE RunMoves(r)
    BY <1>4 DEF Models!CompleteRun, Models!RecordUsage
<1>5. ASSUME NEW end, Models!Score(r, end) \/ Models!ResolveSecret(r, end) PROVE RunMoves(r)
    BY <1>5 DEF Models!Score, Models!ResolveSecret
<1>6. ASSUME NEW serves, NEW reply, Models!AskProvider(r, serves, reply) PROVE RunMoves(r)
    <2>1. tries[r] + 1 \in 0..maxAttempts
        BY <1>6 DEF Models!AskProvider, RunInv
    <2> QED
        BY <1>6, <2>1 DEF Models!AskProvider, Models!Retries
<1> QED
    BY <1>2, <1>3, <1>4, <1>5, <1>6 DEF ModelRuns, Models!RunStep

\* Every step of a run keeps what is on record of all runs.
LEMMA RunInvKept == ASSUME IInv, NEW r \in Runs, ModelRuns(r), NEW q \in Runs PROVE RunInv(q)'
<1>1. RunInv(q) /\ RunInv(r) /\ RunMoves(r)
    BY RunsInv, RunFrame DEF IInv
<1>2. CASE q # r
    BY <1>1, <1>2 DEF RunInv, RunMoves
<1>3. Models!RunTypeOK /\ maxAttempts \in Nat \ {0}
    BY RetriesAssumption DEF IInv, TypeOK
<1> USE <1>1, <1>3 DEF RunInv, Models!RunTypeOK, Models!RunPlaces, Models!GotoRun, Models!Finish,
                       Models!RunInTransaction, Models!Wrote
<1>4. CASE Models!StartRun(r) \/ Models!Evaluate(r) \/ Models!BeginRun(r) \/ Models!UnknownModel(r)
    BY <1>4 DEF Models!StartRun, Models!Evaluate, Models!BeginRun, Models!UnknownModel, Models!runVars
<1>5. ASSUME NEW end, Models!InsertRun(r, end) \/ Models!FailRun(r, end) PROVE RunInv(r)'
    BY <1>5 DEF Models!InsertRun, Models!FailRun
<1>6. ASSUME NEW end, Models!CompleteRun(r, end) PROVE RunInv(r)'
    <2>1. run[r] = "complete" /\ status[r] = "RUNNING" /\ usage[r] = 0 /\ outcome[r] = "nothing" /\ scored[r] = "absent"
        BY <1>6 DEF Models!CompleteRun
    <2>2. /\ run'[r] \in {"score", "done"} /\ (run'[r] = "score" => r \in Suites)
          /\ outcome'[r] = IF end = "committed" THEN "result" ELSE "error"
          /\ tries' = tries /\ served' = served /\ scored' = scored
        BY <1>6 DEF Models!CompleteRun
    <2>3. CASE end = "rolled back"
        BY <1>6, <2>1, <2>2, <2>3 DEF Models!CompleteRun, Models!RecordUsage
    <2>4. CASE end # "rolled back"
        <3>1. status'[r] = "COMPLETED" /\ usage'[r] = 1
            <4>1. status' = [status EXCEPT ![r] = "COMPLETED"] /\ usage' = [usage EXCEPT ![r] = @ + 1]
                BY <1>6, <2>4 DEF Models!CompleteRun, Models!RecordUsage
            <4> QED
                BY <2>1, <4>1
        <3> QED
            BY <2>1, <2>2, <3>1
    <2> QED
        BY <2>3, <2>4
<1>7. ASSUME NEW end, Models!Score(r, end) PROVE RunInv(r)'
    BY <1>7 DEF Models!Score
<1>8. ASSUME NEW found \in BOOLEAN, Models!ResolveSecret(r, found) PROVE RunInv(r)'
    <2>1. run[r] = "secret" /\ run'[r] \in {"ask", "fail"} /\ UNCHANGED <<outcome, tries, served, status, usage, scored>>
        BY <1>8 DEF Models!ResolveSecret
    <2> QED
        BY <2>1
<1>9. ASSUME NEW serves, NEW reply, Models!AskProvider(r, serves, reply) PROVE RunInv(r)'
    BY <1>9 DEF Models!AskProvider, Models!Retries
<1> QED
    BY <1>2, <1>4, <1>5, <1>6, <1>7, <1>8, <1>9 DEF ModelRuns, Models!RunStep

-----------------------------------------------------------------------------
(* The theorems. *)

\* Nothing is held or on record in the beginning.
LEMMA InitInv == Init => IInv
<1> SUFFICES ASSUME Init PROVE IInv
    OBVIOUS
<1> USE DEF Init, Tools!ToolInit, Models!RunInit
<1>1. TypeOK
    BY RetriesAssumption DEF TypeOK, Tools!ToolTypeOK, Models!RunTypeOK, Tools!Places, Tools!Answers, Models!RunPlaces
<1>2. Slots = {}
    BY DEF Slots
<1>3. ConnectionsMatch
    BY <1>2, FS_EmptySet, PoolAssumption, ClientsAssumption DEF ConnectionsMatch, InUse, Held
<1>4. \A c \in Calls : CallInv(c)
    BY DEF CallInv
<1>5. \A r \in Runs : RunInv(r)
    BY DEF RunInv
<1> QED
    BY <1>1, <1>3, <1>4, <1>5, CallsInv, RunsInv DEF IInv

\* A crash keeps what is on record, and leaves nothing held.
LEMMA CrashKeeps == ASSUME IInv, Crash PROVE IInv'
<1>1. /\ TypeOK /\ held' = [c \in Clients |-> 0]
      /\ call' = [c \in Calls |-> IF call[c] \in {"new", "done"} THEN call[c] ELSE "crashed"]
      /\ run' = [r \in Runs |-> IF run[r] \in {"new", "done"} THEN run[r] ELSE "crashed"]
      /\ UNCHANGED <<told, recorded, performed, audited, outcome, tries, served, status, usage, scored>>
    BY DEF IInv, Crash, Tools!ToolsCrash, Models!RunsCrash
<1>2. TypeOK'
    BY <1>1 DEF TypeOK, Tools!ToolTypeOK, Models!RunTypeOK, Tools!Places, Models!RunPlaces
<1>3. IsFiniteSet(Slots)' /\ InUse' <= PoolSize
    BY <1>1, Emptied
<1>4. ConnectionsMatch'
    BY <1>1, <1>3, ClientsAssumption DEF ConnectionsMatch, Held
<1>5. ASSUME NEW c \in Calls PROVE CallInv(c)'
    <2>1. CallInv(c)
        BY CallsInv DEF IInv
    <2> QED
        BY <1>1, <2>1 DEF CallInv
<1>6. ASSUME NEW r \in Runs PROVE RunInv(r)'
    <2>1. RunInv(r)
        BY RunsInv DEF IInv
    <2> QED
        BY <1>1, <2>1 DEF RunInv
<1>7. (Tools!CallFits /\ OutcomesAudited /\ TrailMatchesCalls)' /\ (Models!RunFits /\ RunsOnRecord)'
    <2>1. (\A c \in Calls : CallInv(c))' /\ (\A r \in Runs : RunInv(r))'
        BY <1>5, <1>6
    <2> QED
        BY <2>1, CallsInv, RunsInv, PTL
<1> QED
    BY <1>2, <1>4, <1>7 DEF IInv

\* Calls and runs share nothing but the pool.
LEMMA NextInv == ASSUME IInv, [Next]_vars PROVE IInv'
<1>1. /\ Calls \subseteq Clients /\ Runs \subseteq Clients /\ Calls \cap Runs = {}
      /\ TypeOK /\ \A c \in Calls : held[c] <= IF call[c] \in {"check", "blocked", "executed", "failed"} THEN 1 ELSE 0
      /\ \A r \in Runs : held[r] \in Held(r, run[r])
    BY ClientsAssumption DEF IInv, ConnectionsMatch
<1>2. ASSUME NEW d \in Calls, ToolCalls(d) PROVE IInv'
    <2>1. UNCHANGED runVars
        BY <1>2 DEF ToolCalls
    <2>2. TypeOK'
        BY <1>1, <1>2, <2>1, CallPool, CallFrame DEF TypeOK, CallMoves, Tools!ToolTypeOK, Models!RunTypeOK, runVars
    <2>3. ConnectionsMatch'
        BY <1>1, <1>2, <2>1, CallPool, CallFrame DEF CallMoves, ConnectionsMatch, runVars
    <2>4. (Tools!CallFits /\ OutcomesAudited /\ TrailMatchesCalls)'
        <3>1. (\A c \in Calls : CallInv(c))'
            BY <1>2, CallInvKept
        <3> QED
            BY <3>1 DEF Tools!CallFits, OutcomesAudited, Tools!OutcomesAudited, TrailMatchesCalls, Tools!TrailMatchesCalls,
               CallInv
    <2>5. (Models!RunFits /\ RunsOnRecord)'
        BY <2>1 DEF IInv, runVars, Models!RunFits, RunsOnRecord, Models!RunsOnRecord
    <2> QED
        BY <2>2, <2>3, <2>4, <2>5 DEF IInv
<1>3. ASSUME NEW q \in Runs, ModelRuns(q) PROVE IInv'
    <2>1. UNCHANGED toolVars
        BY <1>3 DEF ModelRuns
    <2>2. TypeOK'
        BY <1>1, <1>3, <2>1, RunPool, RunFrame DEF TypeOK, RunMoves, Tools!ToolTypeOK, toolVars
    <2>3. ConnectionsMatch'
        BY <1>1, <1>3, <2>1, RunPool, RunFrame DEF RunMoves, ConnectionsMatch, toolVars
    <2>4. (Models!RunFits /\ RunsOnRecord)'
        <3>1. (\A r \in Runs : RunInv(r))'
            BY <1>3, RunInvKept
        <3> QED
            BY <3>1 DEF Models!RunFits, RunsOnRecord, Models!RunsOnRecord, RunInv
    <2>5. (Tools!CallFits /\ OutcomesAudited /\ TrailMatchesCalls)'
        BY <2>1 DEF IInv, toolVars, Tools!CallFits, OutcomesAudited, Tools!OutcomesAudited,
           TrailMatchesCalls, Tools!TrailMatchesCalls
    <2> QED
        BY <2>2, <2>3, <2>4, <2>5 DEF IInv
<1>4. CASE UNCHANGED vars
    BY <1>4 DEF IInv, vars, toolVars, runVars, TypeOK, Tools!ToolTypeOK, Models!RunTypeOK, ConnectionsMatch, InUse, Slots,
       Tools!CallFits, OutcomesAudited, Tools!OutcomesAudited, TrailMatchesCalls, Tools!TrailMatchesCalls,
       Models!RunFits, RunsOnRecord, Models!RunsOnRecord
<1> QED
    BY <1>2, <1>3, <1>4, CrashKeeps DEF Next

\* The pool is never overdrawn, and every record fits its invocation's place.
THEOREM Invariance == Spec => []IInv
BY InitInv, NextInv, PTL DEF Spec

\* A caller who is given a result, or told of a block, finds it in the trail.
THEOREM OutcomesInTrail == Spec => []OutcomesAudited
<1>1. IInv => OutcomesAudited
    BY DEF IInv
<1> QED
    BY <1>1, Invariance, PTL

\* A tool runs behind a durable ALLOW, a call audited as executed did run, and
\* one audited as blocked, or refused, did not.  (One that ran may be audited as
\* failed.)
THEOREM TrailIsTrue == Spec => []TrailMatchesCalls
<1>1. IInv => TrailMatchesCalls
    BY DEF IInv
<1> QED
    BY <1>1, Invariance, PTL

\* A run's row, its usage event, its bill and its score agree, however often it
\* was retried and whichever COMMIT was lost.
THEOREM RunsAreOnRecord == Spec => []RunsOnRecord
<1>1. IInv => RunsOnRecord
    BY DEF IInv
<1> QED
    BY <1>1, Invariance, PTL

\* Only evaluations wait with a connection in hand, one each, so they cannot
\* fill a pool that is larger than their number.
LEMMA WaitersLeaveRoom ==
    ASSUME IInv, Cardinality(Suites) < PoolSize, \A c \in Clients : held[c] > 0 => Waiting(c)
    PROVE  InUse < PoolSize
<1>1. /\ held \in [Clients -> Nat] /\ Clients = Calls \cup Runs /\ Calls \cap Runs = {}
      /\ IsFiniteSet(Suites) /\ Cardinality(Suites) \in Nat /\ PoolSize \in Nat
    BY PoolAssumption, ClientsAssumption, FS_Subset, FS_CardinalityType DEF IInv, TypeOK
<1>2. ASSUME NEW c \in Clients, held[c] > 0 PROVE c \in Suites /\ held[c] = 1
    <2>1. Waiting(c) /\ held[c] \in Nat
        BY <1>1, <1>2
    <2>2. c \in Runs /\ held[c] \in Held(c, run[c])
        BY <1>1, <1>2, <2>1 DEF Waiting, IInv, ConnectionsMatch
    <2>3. run[c] # "evaluate"
        BY <1>2, <2>2 DEF Held
    <2>4. held[c] = Models!Base(c)
        BY <1>1, <2>1, <2>2, <2>3 DEF Waiting
    <2> QED
        BY <1>2, <2>4 DEF Models!Base
<1>3. Slots \subseteq Suites \X {1}
    BY <1>1, <1>2 DEF Slots
<1> DEFINE f == [s \in Suites |-> <<s, 1>>]
<1>4. f \in Surjection(Suites, Suites \X {1})
    <2>1. f \in [Suites -> Suites \X {1}] /\ \A s \in Suites : f[s] = <<s, 1>>
        OBVIOUS
    <2>2. \A y \in Suites \X {1} : y[1] \in Suites /\ f[y[1]] = y
        OBVIOUS
    <2> QED
        BY <2>1, <2>2 DEF Surjection
<1>5. IsFiniteSet(Suites \X {1}) /\ Cardinality(Suites \X {1}) <= Cardinality(Suites)
    BY <1>1, <1>4, FS_Surjection
<1>6. Cardinality(Slots) <= Cardinality(Suites \X {1}) /\ Cardinality(Slots) \in Nat
      /\ Cardinality(Suites \X {1}) \in Nat
    BY <1>3, <1>5, FS_Subset, FS_CardinalityType
<1> QED
    BY <1>1, <1>5, <1>6 DEF InUse

\* Nobody waits for a connection that only waiters hold, unless evaluations
\* alone can fill the pool.
THEOREM PoolIsServed == Spec => []PoolServes
<1>1. IInv => PoolServes
    BY WaitersLeaveRoom DEF PoolServes
<1> QED
    BY <1>1, Invariance, PTL
=============================================================================
