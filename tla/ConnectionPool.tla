--------------------------- MODULE ConnectionPool ---------------------------
(***************************************************************************)
(* The pg pool that every request of a process shares (packages/db), and   *)
(* how the transactions of withTenantTransaction may end.                  *)
(***************************************************************************)
EXTENDS Naturals, FiniteSets

CONSTANTS
    Clients,   \* calls in flight that use the pool
    PoolSize

ASSUME PoolAssumption == IsFiniteSet(Clients) /\ PoolSize \in Nat \ {0}

VARIABLE held   \* how many connections each client holds

\* The connections in use: the first, second, ... of each client.
Slots == UNION {{c} \X (1..held[c]) : c \in Clients}
InUse == Cardinality(Slots)

\* pool.connect() waits, without a timeout, until a connection is free.
Connect(c) == InUse < PoolSize /\ held' = [held EXCEPT ![c] = @ + 1]

\* finally: client.release(), however the transaction ended.
FaultKeepsFailed(c, end) == held' = IF end = "rolled back" THEN held ELSE [held EXCEPT ![c] = @ - 1]
Release(c, end) == held' = [held EXCEPT ![c] = @ - 1]

\* COMMIT may succeed and its reply be lost: the caller sees an error.
Ends == {"committed", "rolled back", "in doubt"}
Wrote(end) == end # "rolled back"
=============================================================================
