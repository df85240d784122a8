---------------------------- MODULE WorkingMemory ----------------------------
(***************************************************************************)
(* Tier 1 of the memory service (services/memory-service,                  *)
(* working-memory.ts): cache entries with an expiry.  setWorkingMemory     *)
(* inserts an entry or refreshes it; purgeExpiredWorkingMemory deletes the *)
(* expired entries of a tenant.  Each is one statement in a transaction of *)
(* its own, and takes effect at its COMMIT: the rows it has locked by then *)
(* change for nobody else.  The DELETE picks its rows from a snapshot, and *)
(* tests expires_at <= now() again on each row it locks, now() being the   *)
(* start of its transaction.                                               *)
(***************************************************************************)
CONSTANTS
    Entries,    \* cache keys
    Tenants,
    OwnerOf,    \* the tenant of each entry
    Purgers     \* purgeExpiredWorkingMemory in flight

VARIABLES
    cache,      \* working_memory_cache
    purging,    \* the purges whose transaction is open
    aged        \* the rows of each that had expired when it began, in this version

memoryVars == <<cache, purging, aged>>

MemoryTypeOK ==
    /\ cache \in [Entries -> {"absent", "live", "expired"}]
    /\ purging \subseteq Purgers
    /\ aged \in [Purgers -> SUBSET Entries]

MemoryInit ==
    /\ cache = [e \in Entries |-> "absent"]
    /\ purging = {}
    /\ aged = [p \in Purgers |-> {}]

\* expires_at passes.
ExpireEntry(e) ==
    /\ cache[e] = "live"
    /\ cache' = [cache EXCEPT ![e] = "expired"]
    /\ UNCHANGED <<purging, aged>>

\* As if the DELETE named the keys a SELECT had found.
FaultByKey(e) ==
    /\ cache' = [cache EXCEPT ![e] = "live"]
    /\ UNCHANGED <<purging, aged>>
\* INSERT ... ON CONFLICT DO UPDATE.  The new version expires after the start
\* of every purge that is running, as long as the set takes less than its ttl.
SetEntry(e) ==
    /\ cache' = [cache EXCEPT ![e] = "live"]
    /\ aged' = [p \in Purgers |-> aged[p] \ {e}]
    /\ UNCHANGED purging

\* BEGIN, and the rows of the DELETE.
BeginPurge(p, t) ==
    /\ p \notin purging
    /\ purging' = purging \cup {p}
    /\ aged' = [aged EXCEPT ![p] = {e \in Entries : OwnerOf[e] = t /\ cache[e] = "expired"}]
    /\ UNCHANGED cache

\* The WHERE clause, tested again on the locked version: the rows that were
\* neither refreshed since, nor deleted by another purge.
Qualify(p) == {e \in aged[p] : cache[e] # "absent"}

EndPurge(p) == purging' = purging \ {p} /\ aged' = [aged EXCEPT ![p] = {}]

CommitPurge(p) ==
    /\ p \in purging
    /\ cache' = [e \in Entries |-> IF e \in Qualify(p) THEN "absent" ELSE cache[e]]
    /\ EndPurge(p)

\* The connection is lost, or two purges lock two rows in opposite orders.
AbortPurge(p) == p \in purging /\ EndPurge(p) /\ UNCHANGED cache

-----------------------------------------------------------------------------
\* A purge deletes nothing that is still live, however long it waited for a
\* row that was refreshed meanwhile.
OnlyExpiredPurged == \A e \in Entries : cache[e] = "live" => cache'[e] # "absent"

\* The versions a purge saw expired have not become live.
AgedExpired ==
    \A p \in Purgers :
        /\ \A e \in aged[p] : cache[e] # "live"
        /\ p \notin purging => aged[p] = {}
=============================================================================
