--------------------------- MODULE IdempotentWrite ---------------------------
(***************************************************************************)
(* The write path of the control-plane API: attempts of clients at         *)
(* state-changing requests, each under a key, through withIdempotentWrite  *)
(* (services/control-plane-api/src/idempotency.ts).  A client whose        *)
(* attempt failed, or who never saw the answer, sends another attempt with *)
(* the same key, possibly while the first is still running.                *)
(*                                                                         *)
(* An attempt is one transaction: SELECT the key; when it is there, answer *)
(* with the cached result; otherwise run fn, INSERT the key and COMMIT.    *)
(* fn is the operation of the route.  Most operations write through the    *)
(* attempt's own transaction.  Two do not: a health-checked rollback       *)
(* (routes/deployments.ts) and a model evaluation (routes/models.ts) run   *)
(* transactions of their own on other connections, which commit whatever   *)
(* becomes of the attempt.  POST /tasks follows the same steps without the *)
(* helper: the row of task_registry is at once the effect and the key.     *)
(*                                                                         *)
(* The result of an execution is named by the attempt that executed.       *)
(***************************************************************************)
CONSTANTS
    Attempts,    \* HTTP requests, retries included
    Keys,        \* (tenant_id, idempotency_key) pairs
    Nested,      \* keys clients use for operations with transactions of their own
    Tasks,       \* keys of POST /tasks: UNIQUE (tenant_id, idempotency_key) of its table
    Nobody,      \* no attempt
    NoKey

ASSUME NobodyAssumption == Nobody \notin Attempts
ASSUME KeysAssumption   ==
    NoKey \notin Keys /\ Nested \subseteq Keys /\ Tasks \subseteq Keys \ Nested

VARIABLES
    keyOf,      \* the Idempotency-Key an attempt carries, NoKey before it is sent
    pc,         \* the next statement of an attempt
    stored,     \* api_idempotency_keys: whose response_body is cached for a key
    effects,    \* attempts whose writes to the database are committed
    answered    \* whose result the attempt was answered with

vars == <<keyOf, pc, stored, effects, answered>>

Running == {"select", "fn", "insert", "commit"}

TypeOK ==
    /\ keyOf \in [Attempts -> Keys \cup {NoKey}]
    /\ pc \in [Attempts -> {"unsent", "done", "failed"} \cup Running]
    /\ stored \in [Keys -> Attempts \cup {Nobody}]
    /\ effects \subseteq Attempts
    /\ answered \in [Attempts -> Attempts \cup {Nobody}]

Init ==
    /\ keyOf = [a \in Attempts |-> NoKey]
    /\ pc = [a \in Attempts |-> "unsent"]
    /\ stored = [k \in Keys |-> Nobody]
    /\ effects = {}
    /\ answered = [a \in Attempts |-> Nobody]

At(a, here, next) == pc[a] = here /\ pc' = [pc EXCEPT ![a] = next]

\* requireIdempotencyKey lets only requests with a key through.
Receive(a, k) ==
    /\ At(a, "unsent", "select")
    /\ keyOf' = [keyOf EXCEPT ![a] = k]
    /\ UNCHANGED <<stored, effects, answered>>

Cached(k) == stored[k] # Nobody

\* The SELECT finds the key: the cached status and body are the answer.
Replay(a) ==
    /\ At(a, "select", "done")
    /\ Cached(keyOf[a])
    /\ answered' = [answered EXCEPT ![a] = stored[keyOf[a]]]
    /\ UNCHANGED <<keyOf, stored, effects>>

\* The SELECT finds nothing.
Miss(a) ==
    /\ At(a, "select", "fn")
    /\ ~Cached(keyOf[a])
    /\ UNCHANGED <<keyOf, stored, effects, answered>>

\* fn: writes on the attempt's connection wait for its COMMIT, those of a
\* nested operation are committed by the time fn returns.
FaultOwnConnection(a) == effects' = effects \cup {a}
WritesOf(a) == effects' = IF keyOf[a] \in Nested THEN effects \cup {a} ELSE effects

Run(a) ==
    /\ At(a, "fn", "insert")
    /\ keyOf[a] \notin Tasks
    /\ WritesOf(a)
    /\ UNCHANGED <<keyOf, stored, answered>>

\* A task has nothing to run: the INSERT of its row is what follows the SELECT.
CreateTask(a) ==
    /\ At(a, "fn", "insert")
    /\ keyOf[a] \in Tasks
    /\ UNCHANGED <<keyOf, stored, effects, answered>>

\* fn throws (an ApiError, a constraint, a failed call): ROLLBACK.  A nested
\* operation may have committed something before.
Throw(a) ==
    /\ At(a, "fn", "failed")
    /\ effects' = effects \/ WritesOf(a)
    /\ UNCHANGED <<keyOf, stored, answered>>

\* The INSERT of the key waits for an uncommitted row with the same key.
FaultNoPrimaryKey(a) == TRUE
FaultNoRollback(a) ==
    /\ ~Cached(keyOf[a])
    /\ \A b \in Attempts \ {a} : pc[b] \in {"commit", "failed"} => keyOf[b] # keyOf[a]
KeyFree(a) ==
    /\ ~Cached(keyOf[a])
    /\ \A b \in Attempts : pc[b] = "commit" => keyOf[b] # keyOf[a]

InsertKey(a) ==
    /\ At(a, "insert", "commit")
    /\ KeyFree(a)
    /\ UNCHANGED <<keyOf, stored, effects, answered>>

\* Another attempt committed the key first: the primary key aborts this one,
\* and the client is answered 500, retryable.
Conflict(a) ==
    /\ At(a, "insert", "failed")
    /\ Cached(keyOf[a])
    /\ UNCHANGED <<keyOf, stored, effects, answered>>

\* COMMIT makes the operation's writes and the key visible together.
Remembered(a) == [stored EXCEPT ![keyOf[a]] = a]
Written(a) == effects \cup {a}

Commit(a) ==
    /\ At(a, "commit", "done")
    /\ stored' = Remembered(a)
    /\ effects' = Written(a)
    /\ answered' = [answered EXCEPT ![a] = a]
    /\ UNCHANGED keyOf

\* The process or the connection dies: the server rolls back.  Where it dies
\* after the COMMIT, only the client does not know.
Crash(a) ==
    /\ pc[a] \in Running
    /\ pc' = [pc EXCEPT ![a] = "failed"]
    /\ UNCHANGED <<keyOf, stored, effects, answered>>

Step(a) == \/ Replay(a) \/ Miss(a) \/ Run(a) \/ CreateTask(a) \/ Throw(a)
           \/ InsertKey(a) \/ Conflict(a) \/ Commit(a)

Next == \E a \in Attempts : (\E k \in Keys : Receive(a, k)) \/ Step(a) \/ Crash(a)

Spec == Init /\ [][Next]_vars

-----------------------------------------------------------------------------
(* Safety. *)

\* However attempts with one key overlap, fail and are retried, an operation
\* that writes through the attempt's transaction takes effect at most once.
ExecutedOnce ==
    \A a, b \in effects :
        keyOf[a] = keyOf[b] /\ keyOf[a] \notin Nested => a = b

\* idempotency.ts: "a failed operation never poisons the idempotency store -
\* only a committed success is cached": a cached body is the result of an
\* execution that took effect under that very key.
OnlySuccessCached ==
    \A k \in Keys : Cached(k) =>
        /\ stored[k] \in effects
        /\ keyOf[stored[k]] = k
        /\ pc[stored[k]] = "done"

\* No operation takes effect without its key, so no retry can repeat it.
EffectHasKey ==
    \A a \in effects : keyOf[a] \notin Nested => stored[keyOf[a]] = a

\* All attempts answered under one key are answered alike, even those that
\* ran at the same time, and the answer is the result that is cached.
AnswersAgree ==
    \A a \in Attempts : answered[a] # Nobody => answered[a] = stored[keyOf[a]]

\* The migration and the comment of withIdempotentWrite: a retried request
\* "returns the original result instead of re-executing".  Of operations with
\* transactions of their own as well.
NeverReexecuted == \A a, b \in effects : keyOf[a] = keyOf[b] => a = b

-----------------------------------------------------------------------------
(* The inductive invariant: an attempt that is about to commit holds its key *)
(* alone, and nothing is known of an attempt that was not sent.              *)

KeyHeldAlone ==
    \A a \in Attempts : pc[a] = "commit" =>
        /\ ~Cached(keyOf[a])
        /\ \A b \in Attempts : pc[b] = "commit" /\ keyOf[b] = keyOf[a] => a = b

SentHasKey == \A a \in Attempts : keyOf[a] = NoKey <=> pc[a] = "unsent"

Unanswered ==
    \A a \in Attempts :
        /\ pc[a] # "done" => answered[a] = Nobody
        /\ pc[a] \in {"unsent", "select"} => a \notin effects

IInv ==
    /\ TypeOK
    /\ KeyHeldAlone
    /\ SentHasKey
    /\ Unanswered
    /\ OnlySuccessCached
    /\ EffectHasKey
    /\ AnswersAgree

(* Action and temporal properties. *)

\* A cached result is never replaced, whatever is sent under the key later.
CacheWriteOnce ==
    [][\A k \in Keys : Cached(k) => stored'[k] = stored[k]]_vars

\* Attempts that wait for each other's keys and rows are not left waiting: each
\* request that was received is answered or fails, and no other is received
\* once all attempts are made.
RequestsEnd == <>[](\A a \in Attempts : pc[a] \notin Running)

-----------------------------------------------------------------------------
(* The promise the write path implements for plain operations and tasks: an  *)
(* attempt has executed once its own writes are committed.                   *)

Plain == Keys \ Nested

Once == INSTANCE ExactlyOnce WITH
            Keys     <- Plain,
            keyOf    <- [a \in Attempts |-> IF keyOf[a] \in Plain THEN keyOf[a] ELSE NoKey],
            executed <- {a \in effects : keyOf[a] \in Plain},
            result   <- [k \in Plain |-> stored[k]],
            answers  <- [a \in Attempts |-> IF keyOf[a] \in Plain THEN answered[a] ELSE Nobody]

\* Apart from operations that commit on other connections, the write path of
\* the API implements the exactly-once promise of its comment.
ImplementsOnce == Once!Spec
=============================================================================
