------------------------------ MODULE Scheduler ------------------------------
(***************************************************************************)
(* A pass of the scheduler (services/scheduler-worker, sweeps.ts) settles  *)
(* a tenant's overdue approvals (Approvals) and then purges its expired    *)
(* working memory (WorkingMemory): two transactions, each with its own     *)
(* try block, so the purge runs whatever became of the sweep.              *)
(***************************************************************************)
EXTENDS Approvals

CONSTANTS
    Entries, OwnerOf,            \* see WorkingMemory
    NoTenant

ASSUME MemoryAssumption == OwnerOf \in [Entries -> Tenants] /\ NoTenant \notin Tenants

VARIABLES
    cache, purging, aged,   \* see WorkingMemory
    owes                    \* the tenant each pass has swept and not yet purged

Memory == INSTANCE WorkingMemory WITH Purgers <- Passes

memory  == <<cache, purging, aged>>
allVars == <<vars, memory, owes>>

SchedulerTypeOK ==
    /\ TypeOK /\ Memory!MemoryTypeOK
    /\ owes \in [Passes -> Tenants \cup {NoTenant}]

SchedulerInit ==
    /\ Init /\ Memory!MemoryInit
    /\ owes = [p \in Passes |-> NoTenant]

-----------------------------------------------------------------------------
(* The approvals of a tenant. *)

StartPass(p) == Tick(p) /\ owes[p] = NoTenant /\ UNCHANGED <<memory, owes>>

\* The sweep of GET /approvals has no purge behind it.
StartSweep(a, t) ==
    /\ Sweep(a, t)
    /\ IF a \in Passes THEN owes[a] = NoTenant /\ owes' = [owes EXCEPT ![a] = t]
                       ELSE UNCHANGED owes
    /\ UNCHANGED memory

\* What a pass owes after its sweep threw.
FaultOneTryBlock(a) == [p \in Passes |-> IF p = a THEN NoTenant ELSE owes[p]]
AfterFailure(a) == owes

AsOwed == UNCHANGED <<memory, owes>>
AsOwedAfter(a) == owes' = AfterFailure(a) /\ UNCHANGED memory

-----------------------------------------------------------------------------
(* Its working memory. *)

StartPurge(p) ==
    /\ owes[p] # NoTenant /\ session[p].pc # "update"
    /\ Memory!BeginPurge(p, owes[p])
    /\ UNCHANGED <<vars, owes>>

\* The purge of a tenant is over; its failure is logged too.
Purged(p) == owes' = [owes EXCEPT ![p] = NoTenant] /\ UNCHANGED vars

PurgeDone(p) == Memory!CommitPurge(p) /\ Purged(p)
PurgeFails(p) == Memory!AbortPurge(p) /\ Purged(p)

\* The entries themselves: agents set them, and time passes.
Set(e) == Memory!SetEntry(e) /\ UNCHANGED <<vars, owes>>
Age(e) == Memory!ExpireEntry(e) /\ UNCHANGED <<vars, owes>>

\* The process exits under a pass, in its sweep, in its purge or in between.
ExitPass(p) ==
    /\ \/ Exit(p)
       \/ session[p].pc = "idle" /\ owes[p] # NoTenant /\ stopped /\ UNCHANGED vars
    /\ Memory!EndPurge(p) /\ UNCHANGED cache
    /\ owes' = [owes EXCEPT ![p] = NoTenant]

-----------------------------------------------------------------------------
SchedulerNext ==
    \/ (Requested \/ Stop) /\ AsOwed
    \/ \E a \in Actors :
          (Proceeds(a) /\ AsOwed) \/ (Fails(a) /\ AsOwedAfter(a)) \/ \E t \in Tenants : StartSweep(a, t)
    \/ \E p \in Passes :
          \/ StartPass(p) \/ StartPurge(p) \/ PurgeDone(p) \/ PurgeFails(p)
          \/ ExitPass(p)
    \/ \E e \in Entries : Age(e) \/ Set(e)

SchedulerSpec == SchedulerInit /\ [][SchedulerNext]_allVars

\* The timer keeps firing; the database ends every transaction, grants a
\* contended lock eventually and does not fail every purge of a tenant for
\* ever.  Nobody has to decide, list, set or stop.
FairSpec ==
    /\ SchedulerSpec
    /\ \A p \in Passes :
          /\ WF_allVars(StartPass(p)) /\ WF_allVars(StartPurge(p))
          /\ \A t \in Tenants : SF_allVars(owes[p] = t /\ PurgeDone(p))
    /\ \A a \in Actors :
          /\ WF_allVars((Commit(a) /\ AsOwed) \/ (Doomed(a) /\ Fail(a) /\ AsOwedAfter(a)))
          /\ WF_allVars(DeadlockVictim(a) /\ AsOwedAfter(a))
          /\ \A r \in Requests : SF_allVars(LockRow(a, r) /\ AsOwed)
          /\ \A t \in Tenants : WF_allVars(StartSweep(a, t))

-----------------------------------------------------------------------------
\* The invariant of the working memory (see WorkingMemory), and of the pass: a
\* pass that sweeps a tenant owes it a purge, and purges when the sweep is over.
PassInv ==
    /\ SchedulerTypeOK /\ Memory!AgedExpired
    /\ \A p \in Passes :
          /\ session[p].pc = "update" => owes[p] # NoTenant /\ p \notin purging
          /\ p \in purging => owes[p] # NoTenant
          /\ \A e \in aged[p] : OwnerOf[e] = owes[p]

\* sweeps.ts, working-memory.ts: a purge never deletes an entry that is live,
\* even when it waited for a row that an agent refreshed meanwhile.
PurgeOnlyExpired == [][Memory!OnlyExpiredPurged]_allVars

\* Every expired entry is purged or refreshed while the scheduler runs, also
\* those of a tenant whose approval sweep fails on every pass.
ExpiredPurged == \A e \in Entries : cache[e] = "expired" ~> cache[e] # "expired" \/ stopped
=============================================================================
