# TLA+ verification of AI Digital Office OS

This directory models the parts of the control plane where several actors touch
the same database rows: the durable workflow engine, the idempotent write path
and the rows the routes write through it, approvals and the scheduler that
expires them and purges working memory, deployments and their rollback, the life
of an agent behind the policy engine, and the gateways to tools and models. The
models are checked with TLC on small instances; the invariants that matter most
are proved with TLAPS for every instance.

Paths below are relative to the repository root (`src/` in `PROJECT.json`).

## 1. The system

A multi-tenant HTTP API (`services/control-plane-api`) and eight services called
as libraries in the same or other processes. All state that outlives a request
is in PostgreSQL. Every access goes through `withTenantTransaction`
(`packages/db/src/client.ts`): one pooled connection, `BEGIN`, the tenant
setting, the caller's statements, `COMMIT` or `ROLLBACK`. Transactions run at
the default isolation level, READ COMMITTED, and no statement says `FOR UPDATE`.
So the only things that order two actors are row locks taken by `UPDATE`, unique
constraints met by `INSERT`, and `WHERE` clauses that are tested again once a
lock is obtained. That is the level of detail of the models: **an action is a
database statement, a transaction, or a step outside any transaction**,
whichever another actor can get in between.

### Inventory

| Component | State | Operations | What is hard | What makes it correct |
|---|---|---|---|---|
| Workflow engine (`services/workflow-engine`, `routes/workflows.ts`) | `workflow_registry` (mutable status and cached state), `workflow_history` (append-only, numbered) | start, `runNextStep`, `runToCompletion`; pause, resume, rollback, retry, escalate | workers and requests race statement by statement; reads are stale; opposite lock orders; a crash between an effect and its record | the history is a gap-free log that explains the status; steps complete in order; COMPLETED means all steps; every request ends, and a call can always bring the workflow to an end |
| Idempotent write path (`idempotency.ts`, `routes/tasks.ts`) | `api_idempotency_keys` | one read, one operation, one insert | retries overlap the first attempt; failures between effect and key | one execution per key, one answer |
| Transactions (`packages/db/src/client.ts`) | connection pool of ten | connect, begin, commit, rollback, release | nested use of the pool; no connect timeout | atomicity; no waiting for ever |
| Approvals (`routes/approvals.ts`, `policy-engine-service/src/approvals.ts`) | `approval_requests` | create, decide, list (which sweeps first), expire | two decisions, a decision and a sweep; `now()` is the transaction's start | decided once; expired only when overdue; no stale list |
| Scheduler worker (`services/scheduler-worker`) | timer, stop flag | tick; for each tenant a sweep, then a purge; stop | passes overlap; one tenant fails on every pass | everything overdue is settled, everything expired is purged |
| Rows behind the write path (`routes/projects.ts`, `artifacts.ts`, `feature-flags.ts`, `secrets.ts`, `agents.ts`, `workflows.ts`) | one table each | create, upsert, patch, rotate, attach | requests under *different* keys meet in one row | a name is taken once; no update is lost |
| Deployments (`routes/deployments.ts`, `services/deployment-orchestrator`) | `deployment_registry`, `audit_events` | create, health check, two kinds of rollback | the check runs after the commit, in other transactions; retries; death anywhere; checks race rollbacks | production is approved; one verdict; ROLLED_BACK means replaced; outcomes audited |
| Policy engine (`packages/policy-engine`) | none | `evaluatePolicy`, `parsePolicyRules`, `recordPolicyDecision` | precedence between two rule sets | the most specific rule decides |
| Policy registry (`services/policy-engine-service/src/policies.ts`) | `policy_registry` | upsert | changes under a running pipeline | only valid rules are stored |
| Agents and the factory (`routes/agents.ts`, `services/agent-factory`) | `agent_registry`, `agent_versions`, `policy_decision_records` | create, version, four pipeline steps, activate | each step reads, checks and writes without a lock | no state without its checks; nothing active without approval |
| Tool gateway (`services/tool-gateway-mcp`) | `audit_events`, `policy_decision_records` | `callTool` | the call is outside any transaction; its audit may fail | the trail agrees with the calls |
| Model router (`services/model-router-gateway`) | `model_runs`, `usage_events` | `executeModelRun`, `runBenchmarkSuite` | a crash after the provider was paid; retries | costs and runs agree |
| Cost and usage (`services/cost-usage-service`) | `budget_tiers` | upsert, sum, compare | thresholds | the status follows the sum |
| Memory (`services/memory-service`) | `working_memory_cache`, `memory_facts`, `memory_embeddings` | upsert, read with TTL, purge | a purge waits for a row that is refreshed meanwhile | nothing live is purged |
| Other routes (decisions, tenants, tools, MCP, providers, costs, usage) | | reads | | |
| Auth, observability, domain-model, migrations, CI | none at run time | | | |

### Interactions

* Thirteen state-changing routes run inside the **idempotent write path**; the
  operation of the route is its `fn`. Deployments and model evaluation start
  transactions of their own from inside `fn`. `POST /tasks` looks its key up
  itself. The rest demand an `Idempotency-Key` and never look at it:
  `POST /agents`, `/agents/{id}/activate`, `/models/route`, `/memory/query` and the
  five transitions of a workflow.
* **Deployments** and **agents** read an approval's decision and act on it later
  in the same transaction: they rely on *a decision being final*. This is the
  contract `ApprovalRecord`, which `Approvals` is proved to implement and which
  `Deployments` and `AgentLifecycle` use as their environment.
* **Agent factory** and **tool gateway** ask the **policy engine**.
* The **workflow engine** opens approval requests when it escalates, and its
  steps call the model router and the tool gateway.
* The **scheduler** and `GET /approvals` run the same sweep; the scheduler goes
  on to purge **working memory**, whatever became of the sweep.

## 2. The modules

| Module | Models | Used by |
|---|---|---|
| `WorkflowEngine` | one workflow, any number of workers and requests, statement by statement | |
| `WorkflowLog` | abstract: what a workflow's history may look like | refined by `WorkflowEngine` |
| `IdempotentWrite` | attempts under keys through `withIdempotentWrite` and `POST /tasks` | extended by `ApiResources` |
| `ApiResources` | what the routes write through it: rows, their columns and locks | |
| `ExactlyOnce` | abstract: one execution and one answer per key | refined by `IdempotentWrite` |
| `Approvals` | decisions, lists, sweeps and scheduler passes, row lock by row lock | extended by `Scheduler` |
| `WorkingMemory` | set, expiry and purge of cache entries | instantiated by `Scheduler` |
| `Scheduler` | whole passes: sweep, then purge, per tenant | |
| `ApprovalRecord` | abstract: a request is decided once | refined by `Approvals`; environment of `Deployments`, `AgentLifecycle` |
| `Deployments` | creation, check and rollback of deployments | |
| `PolicyEngine` | rule choice, as operators | extended by `AgentLifecycle` |
| `AgentLifecycle` | versions, pipeline runs, activations, policies | |
| `ConnectionPool` | the shared pool, and how a transaction may end | extended by the next three |
| `ToolGateway`, `ModelRouter` | one `callTool`, one `executeModelRun` or evaluation | composed in `Gateways` |
| `Gateways` | tool calls and model runs of one process, its pool and its crashes | |
| `MC...` | instances for TLC, one module per component | |
| `...Proofs` | theorems, checked by TLAPS | |

How state and actions correspond to the code is listed, definition by
definition, under `map` in `PROJECT.json`. In short:

**WorkflowEngine.** `status` and `cached` are the row, `history` the committed
rows, `local[a]` what an actor knows and which statement is its next, `pending`
the uncommitted inserts, `rowLock` the lock of the row. `runNextStep` is
`ReadStatus; Replay; (STEP_STARTED transaction); ExecuteStep; (outcome
transaction)`; `runToCompletion` is that again from the place `loop`, which a
completed step leads to, until it is `idle`, which every other end of a call leads
to. A transition of the API is `Request` and a transaction. A
transaction is `SelectMax; InsertEvent` and `UpdateRow` in the order the code
has them (`FirstStatement`, `AfterInsert`, `AfterUpdate`), then `Commit`. An
insert waits for an uncommitted row of the same number and fails when it
commits (`UniqueViolation`); a cycle of row lock and insert costs one
transaction (`DeadlockVictim`); a process may die (`Crash`). Steps are
numbered; payloads and results are left out.

**IdempotentWrite.** One attempt is `Receive; Replay` or `Receive; Miss; Run;
InsertKey; Commit`. `WritesOf` says when the operation's writes are committed:
with the attempt, or at once for operations in `Nested`. `CreateTask` is
`POST /tasks`, whose row carries the key itself. `Throw`, `Conflict` and `Crash`
end an attempt at any point.

**ApiResources.** `there` and `column` are the committed rows, a column holding
the attempt that wrote it; `draft[a]` is the version attempt `a` has written and
not committed, and `Holds` its row lock. The superposition is literal: each
action conjoins one of `IdempotentWrite` with its effect on the rows, and
`Superposed` proves that nothing else happens to the write path. `Applies` is
whether a route's statements succeed on the rows committed by then, one operator
per route. `SendMessage` never does: `agents.ts:142` inserts `generateId("msg")`
into a UUID column.

**Approvals.** A settling transaction is one `UPDATE`: it takes its rows from a
snapshot, locks them in any order (`LockRow`), tests `decision IS NULL` again on each
(`Undecided`), and commits; of those that wait in a circle one is aborted. `sees`
keeps what was overdue at the transaction's start, as `now()` does. `Tick` starts a
pass whether or not the previous one has ended; `Broken` tenants fail whenever there
is work.

**WorkingMemory, Scheduler.** A purge is `BeginPurge` (the snapshot and `now()` of
its transaction: `aged`) and `CommitPurge` or `AbortPurge`; a set is one action. Both
are one statement in a transaction of its own, so only the commit shows, and two
purges that lock rows in opposite orders end in an abort. A refreshed version is
taken out of `aged`: the `WHERE` is tested again on it and compares with a time
before the refresh, provided the set's transaction is shorter than its ttl.
`Scheduler` superposes the purge on `Approvals`: `owes[p]` is the tenant that pass
`p` has begun to sweep and has not purged, and `AfterFailure` says that a sweep that
throws leaves the purge owed.

**Deployments.** A key stands for a request body, a row for the attempt that
inserted it. `Create; CommitCreate; Check; Record; Audit` and `Rollback;
Replace; Check; Record; Audit; CommitRollback`, or `Rollback; CommitRollback`
without a URL. The answer of the health check is arbitrary. Nothing in the
program writes `rollback_target` for created deployments (tests do so with
SQL), so `SetRollbackTarget` is the operators' action and external.

**AgentLifecycle.** A pipeline step is a read (`Vet`, `ReadAgent`) and a write
(`Sandbox`, `WriteAgent`), since nothing holds the row in between; `StopRun` is
every way a run ends early. `PolicyEngine` keeps the loop of `evaluatePolicy`
as a recursive function.

**ToolGateway, ModelRouter, Gateways.** A place (`call[c]`, `run[r]`) is the
next transaction or request of an invocation. A transaction begins when the pool
has a connection (`Connect`) and ends in one of three ways: committed, rolled
back, or *in doubt*, committed with its reply lost. The MCP server and the
provider keep what they really did in `performed` and `served`, whatever they
answered. An evaluation (`Suites`) holds a connection of its own around its run.
`Crash` ends every invocation of the process and empties the pool.

Definitions called `Fault...` are not part of the models: each is the definition
after it with a plausible bug, and is there to show that a property notices.

## 3. The runs

Deadlock checking is off in every run: attempts, agents, requests and events
are finite in number, so every behaviour may come to rest. Where coming to rest
early would be a fault, a liveness property says so.

| Run | Question | Instance |
|---|---|---|
| `engine_race` | Does the history stay a log that explains the status when two workers and a request race? | 2 workers, 1 request slot, 2 steps, no call begins at 5 events |
| `engine_single` | With one worker: is a completed step ever run again, is the cache right, does every request end; does the workflow, if it is called again? | 1 worker, 1 request slot, 2 steps, 1 crash; requests begin below 5 events, worker calls below 16 |
| `engine_resume` | *violation*: may an ESCALATED workflow be resumed? | 1 worker, 2 requests |
| `write_once` | Does each key execute at most once; is a name taken once and no update lost between keys? | 3 attempts, 13 keys: two creates, two patches, two flags of one row each, one of every other kind; any failure |
| `write_nested` | *violation*: is a retried request never executed again? | 2 attempts, 1 nested key |
| `approvals_race` | Is a request decided once, and are lists fresh? | 2 requests, 2 decisions, 1 list, 1 pass, 1 failure |
| `approvals_settled` | Is everything overdue settled, and everything expired purged, although a tenant fails? | 2 tenants, one broken; 2 requests, 1 cache entry of the broken tenant, 2 passes |
| `approvals_overdue` | *violation*: is an overdue request never approved? | 1 request |
| `deployments_rollout` | Is production approved, is there one verdict, what does ROLLED_BACK mean? | 3 attempts, 2 creates (one in production), 2 rollbacks, 2 deaths |
| `agents_pipeline` | Are states vetted and activations approved when runs overlap? | 1 agent, 2 versions, 2 runs, 1 activation, 3 specifications, changing policy |
| `gateway_calls` | Do audit trail, model runs and usage agree with the calls made, and does everyone get through the pool? | 1 tool call, 1 run, 1 evaluation, 2 connections, 2 attempts |
| `agents_precedence` | *violation*: does a tenant's rule precede the defaults? | 1 run |

### Bounds, and why they are enough

* `engine_race`: the races are between two appenders, and between an appender and
  an updater. Two workers and one request meet in each of them; five events let
  both steps start, complete and be overtaken. `MaxEvents` and `MaxRequests`
  bound when a call *begins*; a call under way is never cut short.
* `engine_single`: sixteen events are more than five requests, two steps and
  their retries can produce, so the bound never stops the worker. It could not make
  `WorkflowFinishes` hold either: a worker stopped by it would leave the workflow
  RUNNING.
* `write_once`: one attempt holds the key or the row, one races it, one comes
  late. Keys meet only in the row they name, which the pairs of creates, patches
  and flags do; two columns tell what an update names from what it does not.
* `approvals_settled`: a request of each kind of tenant, and an entry where the
  sweep always fails; two passes sweep and purge the same tenant at once.
* `approvals_race`: two rows are the fewest with two lock orders, hence a
  deadlock; two decisions and a sweep are the three ways to settle a row.
* `deployments_rollout`: one attempt creates, one retries or creates the target,
  one rolls back; every pair of actors that meets in a row is among three.
* `agents_pipeline`: two runs and an activation overtake each other on one agent;
  agents do not interact.

* `gateway_calls`: one invocation of each kind; two connections are the fewest with
  which an evaluation can end, and three clients the fewest that fill them.
  Invocations share nothing but the pool.

Symmetry is used for attempts, workers, runs and versions in runs that check
safety and refinement only.

### Fairness

Only `engine_single`, `write_once`, `approvals_settled` and `gateway_calls`
assume any.

* A worker inside `runToCompletion` goes on (weak fairness of `Driving`) until the
  loop ends: the workflow is not RUNNING, a step failed, or a lost sequence number,
  a deadlock or a crash threw it out. A call out of nothing (`pc` = idle) is nobody's
  obligation: no code calls `runToCompletion` again, and ADR 0005:69-71 leaves a
  `resumeStuckWorkflows` sweep to the future. `WorkflowFinishes` therefore states
  the caller it needs as its premise, `CalledAgain`.
* Statements end, and the database grants contended locks in order and detects
  deadlocks (strong fairness of `UpdateRow`, `InsertEvent`, `LockRow`; weak of the
  rest). PostgreSQL queues lock waiters and checks for cycles after
  `deadlock_timeout`.
* An attempt's statements are executed (weak fairness), but no client has to
  send one, and none has to retry.
* The pool serves waiting clients in order (strong fairness of `BeginTool`,
  `Evaluate`, `BeginRun`): `pg` keeps a queue. Requests to MCP servers and
  providers end: the clients abort them after 30 s, except that `mcp-client.ts:65-69`
  clears its timer before it reads the body, which then only `fetch`'s own body timeout
  ends. No connection of the pool is held meanwhile.
* The scheduler's timer fires while it is not stopped, and the database does not
  fail every purge of a tenant for ever (strong fairness of `PurgeDone`); the
  sweep of a broken tenant may fail for ever.
* No fairness for users: nobody has to decide, resume, roll back or stop.

### Properties worth a second look

* `StatusMatchesHistory` — two transactions that write status and history in
  *opposite* orders still leave the status of the last event. It holds because
  the uniqueness of the number serialises the appends and the row lock is held
  across them.
* `OneStartAfterStop` — a pause is not immediate: one more step may start for
  each worker that was past its status query, and no more. ADR 0005 speaks of
  "the very next call".
* `RecordsBacked` — the deadlock victim may be the transaction that records a
  performed effect; then the effect happens again, so effects are *at least* once
  per completion, never fewer. An escalation and its approval request are
  recorded together or not at all.
* `WorkflowFinishes` — conditional: a workflow whose loop was ended by an error, a
  crash, or a pause that was resumed stays RUNNING for good unless somebody calls
  `runToCompletion` again, which nothing in the repository does. The property says
  that a call is all it takes: whatever aborted where, no lock, row or log entry is
  left behind that the next call cannot get past. Without the premise TLC finds the
  workflow abandoned after one crash.
* `NoLostUpdate` — a PATCH assigns the columns of its body and nothing else, to
  the row version it locked: overlapping patches of different columns both
  survive, although nobody reads the row `FOR UPDATE`.
* `NameTakenOnce` — the idempotency keys say nothing about two requests that
  create one project; the primary key does, and only one of them is answered 201.
* `NothingOverdueListed` — the sweep waits for a row another transaction then
  leaves undecided; the retested `WHERE` makes it expire after all.
* `ExpiredPurged` — also for a tenant whose approval sweep throws on every pass,
  since the purge has a `try` of its own. `PurgeOnlyExpired` is the other half: a
  purge that waited for a refreshed row leaves it alone.
* `ProductionApproved` — speaks of every production row, a rollback's replacement
  included: its release came to production under an approval.
* `RolledBackReplaced` — including replacements that are themselves rolled back.
* `OneVerdict` — a replayed create does not check again; and an `advance` that a
  rollback overtook may overwrite ROLLED_BACK, but never so that row and trail
  contradict each other.
* `MovesForward` — an APPROVED or ACTIVE agent *can* fall back to SANDBOX; only
  because an overtaken run writes what it decided earlier, which the property lets
  pass. `VettedStates` shows
  that even then the state was earned.
* `TrailMatchesCalls` — in one direction only: an executed tool call may be
  audited as failed, or not at all, when its audit fails; and a COMMIT in doubt
  can leave both events. What does not happen is TOOL_CALL_EXECUTED for a call that
  never ran, or TOOL_CALL_BLOCKED for one that did.
* `CallsEnd` — conditional: ten evaluations or health-checked rollbacks at once
  hold all ten connections and wait for an eleventh for ever. The property says
  that this is the only way to get stuck.

### Disagreements the runs show

| Run | The code | What is said |
|---|---|---|
| `engine_resume` | `transition` updates by id after a plain read, so a resume that read PAUSED undoes an escalation that committed since | `golden-path.test.ts:283` |
| `write_nested` | operations that commit on other connections are executed again by a retry | `idempotency.ts:35` |
| `approvals_overdue` | the decision route never looks at `expires_at` | ADR 0006:95, `routes/approvals.ts:56` |
| `agents_precedence` | specificity alone decides between tenant rules and defaults | `evaluator.ts:14-16` |

Seen while modelling, without a run: a workflow is left RUNNING when `runToCompletion`
throws, with nothing to drive it on (`engine.ts:119`); COMPLETED and FAILED overwrite
a pause, cancellation or escalation that committed while the step ran (`engine.ts:69`,
`engine.ts:89`), event and all, and a health check that ends late overwrites ROLLED_BACK
(`orchestrator.ts:71`); an unchecked rollback deploys the *rolled
back* deployment's own release, not its target's (`deployments.ts:180`, OpenAPI
line 968); a rollback inserts a production deployment without an approval
(contract rule 9 leaves open whether it needs one); a death between a verdict and its
audit event leaves the verdict unaudited (`orchestrator.ts:76`), and one before the
verdict leaves the deployment IN_PROGRESS, which is why
`OutcomeAudited` speaks of attempts that ended; a cached answer is found by tenant
and key alone, so a key used again for another route is answered with the first
one's result (`idempotency.ts:45`; the stored method and path are never
compared); `POST /agents` repeats itself on a retry where OpenAPI line 47 promises the
original result; and no agent message can be stored, whose generated id is not
the UUID its column wants (`agents.ts:142`).

## 4. The proofs

Checked by TLAPS, for all values of the constants under the named assumptions
of each module (`ActorsAssumption`, `StepsAssumption`, ...: actor kinds are
disjoint, "nobody" is nobody, bounds are naturals, policies are validated rules, and,
where workers are counted, there are finitely many: `WorkersAssumption`).
Every safety property, action property and refinement of section 3 is a theorem.

**WorkflowEngineProofs.** `IInv` is inductive. The safety properties alone are
not: that numbers have no gap needs what is known of numbers *not yet
committed* (`NumbersInFlight`: an uncommitted event holds exactly the next
number, so there is at most one), and that steps complete in order needs what
workers concluded from old reads (`ConclusionsHold`: it stays true because
history only grows). From it: `GapFree`, `StatusIsReplayed`, `StepsInOrder`,
`CompletionIsTotal`, `HistoryAppendOnly`, for any number of workers and steps. The
last part is about waiting: one transaction has the row (`LockFits`) and one the next
number, so of three that wait for each other in a row the last two wait for each
other, and `DeadlockVictim` sees them: `WaitingEnds`.

**WorkflowCountsProofs.** What counts rows. `RecordsBacked` and `OneStartAfterStop`
are not inductive: an effect is performed, and a step chosen, several statements
before the row that records it. `CountInv` counts the actors that are under way
together with the rows they have yet to write (`EffectsCover`, `StartsCover`,
`StopsCover`); the history is finite because it is numbered, so cardinalities mean
what they say. From it: `RecordsAreBacked` and `StopsAreHeeded`, for any number of
workers. With `OneWorker`, and only then, what the worker replayed is still the
history's own when it writes, whatever requests, aborts and crashes come between
(`SingleInv`, which `ReplayCurrent` makes inductive): `CacheIsTheReplay` and
`CompletedNeverReruns`. `Refinement`: the engine implements `WorkflowLog`. The
mapping lists the numbered rows by number (`LogOf`); `Commit` of an event is
`Append`, all else stutters.

**IdempotentWriteProofs.** `IInv` relates an attempt's place to what is stored
under its key. From it: `AtMostOnce`, `AnsweredAlike`, `CacheIsFinal`, and
`Refinement`: for keys that are not nested the write path implements
`ExactlyOnce`. The mapping hides nested keys; `Commit` is `Execute`, `Replay` is
`Answer`, everything else but `Receive` stutters. The second half of the module is
about `ApiResources`. `Superposed`: every behaviour of the rows is one of the
write path, so `ExecutedOnce` and `ImplementsOnce` hold of the composition
(`RowsExecutedOnce`). `RowInv` says that a row's lock has one holder (`HeldAlone`),
that a draft is still based on the committed version (`DraftCurrent`) and that a row
is there once its creator has committed (`CreatedThere`). From it: `NamesUnique` and
`UpdatesKept`.

**ApprovalsProofs.** `IInv` says that locks and marked rows agree, that locked rows
are undecided, and that a sweep's rows are settled, locked or to do. From it:
`AcceptedDecisionStands`, `ListsAreFresh`, `DecisionsAreFinal`, and `Refinement`:
`Approvals` implements `ApprovalRecord`; `Commit` is `Settle`. This justifies the
environment of `Deployments` and `AgentLifecycle`. `WaitingEnds`: UPDATEs lock their
rows in any order, so circles of any length may arise; but locks belong to
transactions under way, and of finitely many that wait only for each other a smallest
group is such a circle (`CircleAmong`), whose victim is `DeadlockVictim`. The last
part is about `Scheduler`. `ApprovalsImplemented`: a behaviour of whole passes is one
of `Approvals`, so all that is proved of approvals holds under the purge as well.
`PassInv` relates what a pass has seen to the cache, and gives `OnlyExpiredArePurged`.

**DeploymentsProofs.** `IInv` is inductive: an attempt has no row but its own
(`OwnRow`), what it knows matches its place (`SessionFits`), an answer kept under a
key is the deployment made under it (`ResultFits`), rows carry their request's body
(`BodyKept`), targets exist (`TargetsExist`), and a create past its gate has an
approved approval (`GatePassed`). The last is kept only because decisions are
final, the contract `ApprovalRecord`. From it: `ProductionIsApproved`, which follows
a chain of rollbacks' replacements to a create, and `CreatedOnce`.

**DeploymentVerdictsProofs.** What a step leaves of any attempt (`SessionFrame`)
and of any row (`RowFrame`) carries the rest. `RolledBackReplaced` is not inductive,
because a replacement may be marked ROLLED_BACK itself, even while its own check
is under way; `Confirmed` adds that its verdict has been recorded and can no longer
be lost. From `VerdictInv`: `VerdictsAreFinal` and `RolledBackIsReplaced`.
`OutcomesAreAudited` also needs what is owed between the verdict and its event
(`CheckPending`, `CommitAudited`).

**AgentLifecycleProofs.** First the policy engine. The loop of `evaluatePolicy` is a
recursive function; that it exists (`BestExists`), does what its body says
(`BestLoop`) and ends with the preferred rule (`BestRule`) are inductions over the
candidates, done over sets of naturals with the library's well-foundedness of `<`
(`Induction`). So for policies of any length every answer is a decision
(`DecisionTyped`), and it is that of the most specific applicable rule, the first of
equals: `PolicyPrecedence`. Then the agents: `IInv` says that a run between its read
and its write still knows of its agent what it checked (`RunVetted`), and that an
activation under way has an approval (`ActivationsApproved`), which the finality of
decisions keeps true. From it: `ActiveIsApproved`, `StatesAreVetted`,
`VerdictsAreRecorded`, and `OvertakenMovesBack`: an agent moves back only through a
run that read it before.

**GatewaysProofs.** A place of a call or run is reached only by commits that were
*confirmed*, so what is on record follows from the place (`CallFits`, `RunFits`),
whatever is in doubt, lost or cut off by a crash. The pool is the set of its slots,
one for each connection a client holds, and is never larger than `PoolSize`
(`ConnectionsMatch`). Tool calls and model runs have disjoint records, and meet in
the pool only. From it: `OutcomesInTrail`, `TrailIsTrue`, `RunsAreOnRecord`, and
`PoolIsServed`: only evaluations wait with a connection in hand, so a pool larger
than their number is never held by waiters alone.

Only model-checked: the liveness properties (`WorkflowFinishes`, `RequestsAnswered`,
`RequestsEnd`, `OverdueSettled`, `ExpiredPurged`, `CallsEnd`), since TLAPS has no
ENABLED, and the four violations of section 3. What keeps the system moving is proved
as far as it is a matter of states: the two theorems `WaitingEnds`, and
`PoolIsServed`; that somebody who can go on does is the fairness of the runs.
`CountInv` is an invariant of `engine_race`. What `SingleInv` adds to it, and
`LockFits`, `WaitsEnd`, `NobodyStuck` and `PoolServes`, are properties of no run of
section 3: they were checked on the instances of `engine_single`, `engine_race`,
`approvals_race` and `gateway_calls` before they were proved.

## 5. The plan

1. Done: all modules of section 2 with their runs, and a theorem for every safety
   property, action property and refinement they check.
2. Suites of several prompts, the rollback's own use of the pool, and the composition
   of `WorkflowEngine` with `Gateways`: what a re-run step may have done already.

## 6. Not modelled

* Formats: JSON bodies, SQL text, identifiers, schemas' contents, prompts,
  provider adapters, embeddings and vector search.
* Authentication, row-level security and tenancy: no component shares state
  across tenants except the scheduler, where tenants are modelled.
* Reads without consequence: `GET` routes other than `/approvals`, and
  `POST /models/route` and `/memory/query`, which read and insert one record of it.
* Facts and semantic memory: one insert or one search each, so nothing can come
  between.
* Budgets and the cost summary: sums compared with two thresholds, on which nothing
  acts; their SELECTs see different snapshots under READ COMMITTED, so a summary
  may mix two moments.
* Code that does not run in production: type generation, seeds, CI, the domain model's
  generated tables.
* Clocks: `expires_at` passes at some moment (`Elapse`), intervals are arbitrary.

## 7. Running

    tlc -config MCWorkflowEngine_race.cfg MCWorkflowEngine
    tlapm WorkflowEngineProofs.tla

Each cfg is named after its module and run; `PROJECT.json` lists them with the
properties they check and, for each, a bug the property notices.
