------------------------------ MODULE Approvals ------------------------------
(***************************************************************************)
(* Approval requests and everything that settles them: the decision route  *)
(* and the sweep before GET /approvals (control-plane-api,                 *)
(* routes/approvals.ts), and the passes of the scheduler                   *)
(* (services/scheduler-worker), which may overlap because setInterval does *)
(* not wait for the previous pass.                                         *)
(*                                                                         *)
(* A settling transaction is one UPDATE ... WHERE decision IS NULL.  Under *)
(* READ COMMITTED it selects its rows from a snapshot, locks them one by   *)
(* one, waits where another transaction holds a lock, and tests the WHERE  *)
(* clause again on the committed row once it has the lock.  now() is the   *)
(* time the transaction started.                                           *)
(***************************************************************************)
EXTENDS Naturals, FiniteSets

CONSTANTS
    Requests, Tenants,
    TenantOf,      \* the tenant of each request
    Deciders,      \* POST /approvals/{id}/decision in flight: one slot each
    Listers,       \* GET /approvals in flight
    Passes,        \* sweep passes of the scheduler in flight
    Broken,        \* tenants whose sweep fails whenever it has work to do
    NoActor,
    MaxFailures    \* bound: transactions that fail for another reason

Actors == Deciders \cup Listers \cup Passes

ASSUME ActorsAssumption ==
    /\ Deciders \cap Listers = {} /\ Deciders \cap Passes = {} /\ Listers \cap Passes = {}
    /\ NoActor \notin Actors
ASSUME TenantsAssumption == TenantOf \in [Requests -> Tenants] /\ Broken \subseteq Tenants
ASSUME BoundAssumption   == MaxFailures \in Nat

VARIABLES
    decision,  \* approval_requests.decision, committed
    overdue,   \* requests whose expires_at has passed
    session,   \* what each actor is doing, see Session
    lock,      \* the actor whose transaction holds a request's row
    accepted,  \* decisions that were answered 200
    stopped,   \* SchedulerHandle.stop() was called
    failures

vars == <<decision, overdue, session, lock, accepted, stopped, failures>>

Verdicts == {"APPROVED", "DENIED", "EXPIRED"}

\* pc "pass": between two tenants; "update": inside the UPDATE; "list": before
\* the SELECT of GET /approvals.  sees holds the requests that were overdue
\* when the transaction began, todo the rows the UPDATE has yet to lock.
Session == [pc : {"idle", "pass", "update", "list"}, tenants : SUBSET Tenants,
            verdict : Verdicts, sees : SUBSET Requests,
            todo : SUBSET Requests, marked : SUBSET Requests]

Idle == [pc |-> "idle", tenants |-> {}, verdict |-> "EXPIRED",
         sees |-> {}, todo |-> {}, marked |-> {}]

TypeOK ==
    /\ decision \in [Requests -> {"absent", "NULL"} \cup Verdicts]
    /\ overdue \subseteq Requests
    /\ session \in [Actors -> Session]
    /\ lock \in [Requests -> Actors \cup {NoActor}]
    /\ accepted \subseteq Requests \X Deciders \X Verdicts
    /\ stopped \in BOOLEAN
    /\ failures \in Nat

Init ==
    /\ decision = [r \in Requests |-> "absent"]
    /\ overdue = {}
    /\ session = [a \in Actors |-> Idle]
    /\ lock = [r \in Requests |-> NoActor]
    /\ accepted = {}
    /\ stopped = FALSE
    /\ failures = 0

\* POST /approvals.
CreateApproval(r) ==
    /\ decision[r] = "absent"
    /\ decision' = [decision EXCEPT ![r] = "NULL"]
    /\ UNCHANGED <<overdue, session, lock, accepted, stopped, failures>>

\* expires_at, seven days after the creation, passes.
Elapse(r) ==
    /\ decision[r] # "absent" /\ r \notin overdue
    /\ overdue' = overdue \cup {r}
    /\ UNCHANGED <<decision, session, lock, accepted, stopped, failures>>

-----------------------------------------------------------------------------
(* The transactions. *)

\* POST /approvals/{id}/decision: the UPDATE names one row.
Decide(a, r, v) ==
    /\ session[a].pc = "idle" /\ decision[r] = "NULL"
    /\ session' = [session EXCEPT ![a] =
          [Idle EXCEPT !.pc = "update", !.verdict = v, !.sees = overdue \cap {r}, !.todo = {r}]]
    /\ UNCHANGED <<decision, overdue, lock, accepted, stopped, failures>>

\* GET /approvals sweeps the tenant of the request first.
ListApprovals(a, t) ==
    /\ session[a].pc = "idle"
    /\ session' = [session EXCEPT ![a] = [Idle EXCEPT !.pc = "pass", !.tenants = {t}]]
    /\ UNCHANGED <<decision, overdue, lock, accepted, stopped, failures>>

\* A tick of the scheduler: runSweepOnce lists the tenants.
Tick(a) ==
    /\ session[a].pc = "idle" /\ ~stopped
    /\ session' = [session EXCEPT ![a] = [Idle EXCEPT !.pc = "pass", !.tenants = Tenants]]
    /\ UNCHANGED <<decision, overdue, lock, accepted, stopped, failures>>

\* expires_at IS NOT NULL AND expires_at <= now()
Expired(t) == {r \in overdue : TenantOf[r] = t}

\* expirePendingApprovals for one tenant: BEGIN and the rows of the UPDATE.
Sweep(a, t) ==
    /\ session[a].pc = "pass" /\ t \in session[a].tenants
    /\ session' = [session EXCEPT ![a] =
          [pc |-> "update", tenants |-> session[a].tenants \ {t}, verdict |-> "EXPIRED",
           sees |-> Expired(t), todo |-> {r \in Expired(t) : decision[r] = "NULL"},
           marked |-> {}]]
    /\ UNCHANGED <<decision, overdue, lock, accepted, stopped, failures>>

\* The WHERE clause, tested again on the locked row.
FaultNotAgain(r) == TRUE
Undecided(r) == decision[r] = "NULL"

\* The UPDATE locks one more of its rows, or finds that it no longer qualifies.
LockRow(a, r) ==
    /\ session[a].pc = "update" /\ r \in session[a].todo
    /\ lock[r] = NoActor
    /\ IF Undecided(r)
       THEN /\ lock' = [lock EXCEPT ![r] = a]
            /\ session' = [session EXCEPT ![a].todo = @ \ {r}, ![a].marked = @ \cup {r}]
       ELSE /\ session' = [session EXCEPT ![a].todo = @ \ {r}]
            /\ UNCHANGED lock
    /\ UNCHANGED <<decision, overdue, accepted, stopped, failures>>

\* Where an actor is after its transaction ended with ok: a request for one
\* decision is answered, a list is built unless the sweep failed, and a pass goes
\* on with the next tenant whatever happened to this one.
FaultPassAborts(a, ok) ==
    IF a \in Listers /\ ok THEN [session[a] EXCEPT !.pc = "list", !.todo = {}, !.marked = {}]
    ELSE IF a \in Passes /\ ok /\ session[a].tenants # {}
         THEN [Idle EXCEPT !.pc = "pass", !.tenants = session[a].tenants]
    ELSE Idle
FaultListsAnyway(a, ok) ==
    IF a \in Listers THEN [session[a] EXCEPT !.pc = "list", !.todo = {}, !.marked = {}]
    ELSE IF a \in Passes /\ session[a].tenants # {}
         THEN [Idle EXCEPT !.pc = "pass", !.tenants = session[a].tenants]
    ELSE Idle
Afterwards(a, ok) ==
    IF a \in Listers /\ ok THEN [session[a] EXCEPT !.pc = "list", !.todo = {}, !.marked = {}]
    ELSE IF a \in Passes /\ session[a].tenants # {}
         THEN [Idle EXCEPT !.pc = "pass", !.tenants = session[a].tenants]
    ELSE Idle

Unlocked(a) == [r \in Requests |-> IF lock[r] = a THEN NoActor ELSE lock[r]]

\* The sweep of a broken tenant has rows to expire.
Doomed(a) == \E t \in Broken : a \notin Deciders /\ \E r \in session[a].sees : TenantOf[r] = t

\* A decision that updated a row is answered 200, one that did not 404.
Answer(a) == {<<r, a, session[a].verdict>> : r \in session[a].marked}

Commit(a) ==
    /\ session[a].pc = "update" /\ session[a].todo = {} /\ ~Doomed(a)
    /\ decision' = [r \in Requests |-> IF r \in session[a].marked THEN session[a].verdict
                                                                  ELSE decision[r]]
    /\ lock' = Unlocked(a)
    /\ accepted' = IF a \in Deciders THEN accepted \cup Answer(a) ELSE accepted
    /\ session' = [session EXCEPT ![a] = Afterwards(a, TRUE)]
    /\ UNCHANGED <<overdue, stopped, failures>>

Rollback(a) ==
    /\ lock' = Unlocked(a)
    /\ session' = [session EXCEPT ![a] = Afterwards(a, FALSE)]
    /\ UNCHANGED <<decision, overdue, accepted, stopped>>

\* A transaction throws: the connection is lost, a decision loses the race for
\* its idempotency key, or, beyond the bound, the sweep is a broken tenant's.
\* A pass logs the error and goes on.
Fail(a) ==
    /\ session[a].pc = "update" /\ (failures < MaxFailures \/ Doomed(a))
    /\ failures' = IF Doomed(a) THEN failures ELSE failures + 1
    /\ Rollback(a)

\* The database aborts one of several UPDATEs that wait for each other's rows
\* in a circle, because they lock them in different orders.
WaitsFor(a, b) == \E r \in session[a].todo : session[a].pc = "update" /\ lock[r] = b
Circle(S) == \A a \in S : (\E b \in S : WaitsFor(a, b)) /\ (\E b \in S : WaitsFor(b, a))

DeadlockVictim(a) ==
    /\ \E S \in SUBSET Actors : a \in S /\ Circle(S)
    /\ Rollback(a)
    /\ UNCHANGED failures

\* The SELECT of GET /approvals and its answer.
List(a) ==
    /\ session[a].pc = "list"
    /\ session' = [session EXCEPT ![a] = Idle]
    /\ UNCHANGED <<decision, overdue, lock, accepted, stopped, failures>>

\* stop(): no tick starts any more; the process may exit under a pass.
Stop ==
    /\ ~stopped
    /\ stopped' = TRUE
    /\ UNCHANGED <<decision, overdue, session, lock, accepted, failures>>

Exit(a) ==
    /\ stopped /\ session[a].pc # "idle"
    /\ session' = [session EXCEPT ![a] = Idle]
    /\ lock' = Unlocked(a)
    /\ UNCHANGED <<decision, overdue, accepted, stopped, failures>>

-----------------------------------------------------------------------------
\* What clients ask for, and time.
Requested ==
    \/ \E r \in Requests : CreateApproval(r) \/ Elapse(r)
    \/ \E a \in Deciders, r \in Requests, v \in {"APPROVED", "DENIED"} : Decide(a, r, v)
    \/ \E a \in Listers, t \in Tenants : ListApprovals(a, t)

Fails(a) == DeadlockVictim(a) \/ Fail(a)
Proceeds(a) == Commit(a) \/ List(a) \/ \E r \in Requests : LockRow(a, r)

Next ==
    \/ Requested \/ Stop
    \/ \E a \in Passes : Tick(a) \/ Exit(a)
    \/ \E a \in Actors : Fails(a) \/ Proceeds(a) \/ \E t \in Tenants : Sweep(a, t)

Spec == Init /\ [][Next]_vars

-----------------------------------------------------------------------------
(* Safety. *)

\* Concurrent decisions of one request, and a sweep between them: a decision
\* that was answered 200 is the one the row holds for good, and there is
\* at most one.
AcceptedStands == \A x \in accepted : decision[x[1]] = x[3]
OneAccepted == \A x, y \in accepted : x[1] = y[1] => x = y

\* A request that was not overdue when the sweep started never expires, even
\* when the sweep waited a long time for its row.
ExpiredWasOverdue == \A r \in Requests : decision[r] = "EXPIRED" => r \in overdue

\* GET /approvals (routes/approvals.ts: "flipped to EXPIRED before this list
\* is built") shows no request that was overdue when its sweep began, even one
\* that another transaction was about to settle and then did not.
NothingOverdueListed ==
    \A a \in Listers : session[a].pc = "list" =>
        \A r \in session[a].sees : decision[r] # "NULL"

-----------------------------------------------------------------------------
(* The inductive invariant. *)

\* A transaction holds the locks of the rows it marked, and a locked row is
\* undecided.
LocksMatch ==
    \A r \in Requests, a \in Actors :
        lock[r] = a <=> session[a].pc = "update" /\ r \in session[a].marked
LockedUndecided == \A r \in Requests : lock[r] # NoActor => decision[r] = "NULL"

\* An UPDATE selects rows that exist, and only an existing row is overdue.
OverdueExist == \A r \in overdue : decision[r] # "absent"
RowsExist == \A a \in Actors : \A r \in session[a].todo : decision[r] # "absent"

\* What an actor saw overdue is overdue, and only sweeps expire.
SweepsSee ==
    \A a \in Actors :
        /\ a \in Deciders => session[a].pc \in {"idle", "update"}
        /\ session[a].sees \subseteq overdue
        /\ session[a].pc = "update" /\ session[a].verdict = "EXPIRED" =>
              session[a].todo \cup session[a].marked \subseteq session[a].sees

\* Each overdue request a sweep saw is settled, locked by it, or still to do.
SweepsCover ==
    \A a \in Actors \ Deciders, r \in Requests :
        r \in session[a].sees /\ session[a].pc \in {"update", "list"} =>
            \/ decision[r] \in Verdicts
            \/ session[a].pc = "update" /\ r \in session[a].todo \cup session[a].marked

IInv ==
    /\ TypeOK /\ LocksMatch /\ LockedUndecided /\ RowsExist /\ OverdueExist /\ SweepsSee /\ SweepsCover
    /\ AcceptedStands /\ OneAccepted /\ ExpiredWasOverdue /\ NothingOverdueListed

\* Whatever row it tries next, another transaction has it.
Blocked(a) ==
    /\ session[a].pc = "update" /\ session[a].todo # {}
    /\ \A r \in session[a].todo : lock[r] # NoActor

\* No transactions wait for each other for ever: of those that are blocked, one
\* waits for another that is under way, or the detector finds a victim.
NobodyStuck ==
    \A S \in SUBSET Actors : S # {} /\ (\A a \in S : Blocked(a)) =>
        \/ \E a \in S, b \in Actors \ S : WaitsFor(a, b) /\ session[b].pc = "update"
        \/ \E T \in SUBSET S : T # {} /\ Circle(T)

(* Action and temporal properties. *)

\* A decision, human or by expiry, is final.
DecisionFinal ==
    [][\A r \in Requests : decision[r] \in Verdicts => decision'[r] = decision[r]]_vars

\* ADR 0006 section 6: "correctness never depends on the sweep having run
\* recently": a decision that begins when its request is past its expires_at
\* does not approve it.
OverdueNotApproved ==
    [][\A a \in Deciders, r \in Requests :
          r \in session[a].sees \cap session[a].marked /\ session[a].verdict = "APPROVED"
              => decision'[r] # "APPROVED"]_vars

\* sweeps.ts: "One tenant's sweep failing doesn't stop the others'": while
\* the scheduler runs, every overdue request of a sound tenant is settled.
OverdueSettled ==
    \A r \in Requests :
        r \in overdue /\ decision[r] = "NULL" ~>
            decision[r] \in Verdicts \/ stopped \/ TenantOf[r] \in Broken

-----------------------------------------------------------------------------
\* The record other components rely on.
Record == INSTANCE ApprovalRecord

\* Racing decisions, sweeps and failures implement a record that is decided
\* once.
ImplementsRecord == Record!Spec
=============================================================================
