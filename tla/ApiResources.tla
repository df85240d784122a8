----------------------------- MODULE ApiResources -----------------------------
(***************************************************************************)
(* The rows the routes of the control-plane API write through the          *)
(* idempotent write path: projects, agent versions, feature flags, secret  *)
(* references, artifacts, workflows and agent messages.  IdempotentWrite   *)
(* decides which attempts execute; this module adds what they execute.     *)
(* Different keys may name one row, so the rows have to be kept whole by   *)
(* the statements of the routes and the row locks of the database: an      *)
(* uncommitted row makes other inserts and updates of it wait.             *)
(*                                                                         *)
(* A key stands for the request sent under it.  A column holds the attempt *)
(* that wrote it.                                                          *)
(***************************************************************************)
EXTENDS IdempotentWrite

CONSTANTS
    Resources,  \* projects by id, versions by agent and number, flags by key and environment, agents, secrets
    Columns,
    Projects, Versions, Flags,     \* keys by route: POST /projects, /agents/{id}/versions, /feature-flags,
    Patches, Rotations,            \* PATCH /projects/{id}, POST /secrets/{id}/rotate,
    Artifacts, Workflows, Messages,  \* POST /artifacts, /workflows, /agents/{id}/messages
    Named,      \* the row a request of the first five names
    Parent,     \* the agent of a version, the project of an artifact or workflow
    Given,      \* the columns an update sets
    Override,   \* the columns POST /feature-flags sets of a flag that is there
    Seeded      \* agents and secrets, which no route here inserts

Creates == Projects \cup Versions
Updates == Patches \cup Rotations
Rowed == Creates \cup Flags \cup Updates
Attaches == Artifacts \cup Workflows

ASSUME RowedAssumption ==
    /\ Rowed \cup Attaches \cup Messages \subseteq Keys \ (Nested \cup Tasks)
    /\ Creates \cap (Flags \cup Updates) = {} /\ Flags \cap Updates = {}
    /\ Rowed \cap (Attaches \cup Messages) = {} /\ Attaches \cap Messages = {}
ASSUME ResourceAssumption ==
    /\ Named \in [Rowed -> Resources] /\ Parent \in [Versions \cup Attaches -> Resources]
    /\ Given \in [Updates -> SUBSET Columns] /\ Override \subseteq Columns /\ Seeded \subseteq Resources

VARIABLES
    there,   \* the rows that are committed
    column,  \* who wrote each of their columns
    draft    \* the version of its row an attempt has written and not committed

rvars == <<there, column, draft>>
allVars == <<keyOf, pc, stored, effects, answered, there, column, draft>>

Version == [Columns -> Attempts \cup {Nobody}]
Blank == [c \in Columns |-> Nobody]

RowTypeOK ==
    /\ there \subseteq Resources
    /\ column \in [Resources -> Version]
    /\ draft \in [Attempts -> Version]

RowInit ==
    /\ Init
    /\ there = Seeded
    /\ column = [r \in Resources |-> Blank]
    /\ draft = [a \in Attempts |-> Blank]

-----------------------------------------------------------------------------
(* The statements of fn. *)

\* b has written the row r and not committed it.
Holds(b, r) == pc[b] \in {"insert", "commit"} /\ keyOf[b] \in Rowed /\ Named[keyOf[b]] = r

\* No other attempt holds the row; otherwise the statement waits for it.
FaultNoLock(a) == TRUE
Free(a) == \A b \in Attempts \ {a} : ~Holds(b, Named[keyOf[a]])

\* Whether the statements of a route succeed, on the rows committed by then:
\* the name is free (PRIMARY KEY, UNIQUE), the row to update is there, and so
\* is the row referred to (a SELECT of fn, a foreign key).
FaultNoPrimary(k) == k \in Projects
CreateProject(k)  == k \in Projects /\ Named[k] \notin there
CreateVersion(k)  == k \in Versions /\ Named[k] \notin there /\ Parent[k] \in there
PutFlag(k)        == k \in Flags
PatchProject(k)   == k \in Patches /\ Named[k] \in there
RotateSecret(k)   == k \in Rotations /\ Named[k] \in there
StoreArtifact(k)  == k \in Artifacts /\ Parent[k] \in there
CreateWorkflow(k) == k \in Workflows /\ Parent[k] \in there
\* The message_id it generates is not a UUID: no INSERT succeeds.
SendMessage(k)    == FALSE

Applies(k) ==
    \/ CreateProject(k) \/ CreateVersion(k) \/ PutFlag(k) \/ PatchProject(k) \/ RotateSecret(k)
    \/ StoreArtifact(k) \/ CreateWorkflow(k) \/ SendMessage(k)

\* The columns the statement assigns: all of an inserted row, those in the
\* body of an update, the override of a flag that is already there.
Assigned(k) ==
    IF k \in Updates THEN Given[k]
    ELSE IF k \in Flags /\ Named[k] \in there THEN Override
    ELSE Columns

NewVersion(a) == [c \in Columns |-> IF c \in Assigned(keyOf[a]) THEN a ELSE column[Named[keyOf[a]]][c]]

\* INSERT, INSERT ... ON CONFLICT DO UPDATE, or UPDATE.
WriteRow(a) ==
    /\ keyOf[a] \in Rowed /\ Applies(keyOf[a]) /\ Free(a)
    /\ Run(a)
    /\ draft' = [draft EXCEPT ![a] = NewVersion(a)]
    /\ UNCHANGED <<there, column>>

\* An artifact, or a workflow with its STARTED event, under a generated id.
Attach(a) ==
    /\ keyOf[a] \in Attaches /\ Applies(keyOf[a])
    /\ Run(a)
    /\ UNCHANGED rvars

\* A constraint or a lookup fails.
Refuse(a) ==
    /\ keyOf[a] \in Rowed \cup Attaches \cup Messages /\ ~Applies(keyOf[a])
    /\ Throw(a)
    /\ UNCHANGED rvars

\* The COMMIT makes the row visible with the key.
CommitRow(a) ==
    /\ keyOf[a] \in Rowed
    /\ Commit(a)
    /\ there' = there \cup {Named[keyOf[a]]}
    /\ column' = [column EXCEPT ![Named[keyOf[a]]] = draft[a]]
    /\ draft' = [draft EXCEPT ![a] = Blank]

\* What never touches a row: the write path around fn, and other operations.
Elsewhere(a) ==
    /\ \/ Replay(a) \/ Miss(a) \/ InsertKey(a) \/ CreateTask(a)
       \/ keyOf[a] \notin Rowed /\ Commit(a)
       \/ keyOf[a] \notin Rowed \cup Attaches \cup Messages /\ (Run(a) \/ Throw(a))
    /\ UNCHANGED rvars

\* An attempt that fails loses what it has written.
Abort(a) ==
    /\ Conflict(a)
    /\ draft' = [draft EXCEPT ![a] = Blank]
    /\ UNCHANGED <<there, column>>

Die(a) ==
    /\ Crash(a)
    /\ draft' = [draft EXCEPT ![a] = Blank]
    /\ UNCHANGED <<there, column>>

Arrive(a, k) == Receive(a, k) /\ UNCHANGED rvars

RowStep(a) == WriteRow(a) \/ Attach(a) \/ Refuse(a) \/ CommitRow(a) \/ Elsewhere(a) \/ Abort(a)

RowNext == \E a \in Attempts : (\E k \in Keys : Arrive(a, k)) \/ RowStep(a) \/ Die(a)

RowSpec == RowInit /\ [][RowNext]_allVars

\* The server works on every request it received.
FairRowSpec == RowSpec /\ \A a \in Attempts : WF_allVars(RowStep(a))

-----------------------------------------------------------------------------
(* Properties. *)

\* Requests under different keys that name one project, or one version of an
\* agent, make it once: however they overlap, one of them takes effect.
NameTakenOnce ==
    \A a, b \in effects :
        keyOf[a] \in Creates /\ keyOf[b] \in Creates /\ Named[keyOf[a]] = Named[keyOf[b]] => a = b

\* No lost update: a column changes only to what the request committing now
\* wrote.  A PATCH or a flag's override never brings back an older value of a
\* column it does not name, whoever changed it meanwhile.
NoLostUpdate ==
    [][\A r \in Resources, c \in Columns : column'[r][c] # column[r][c] =>
          column'[r][c] \in effects' \ effects]_allVars

-----------------------------------------------------------------------------
(* The inductive invariant: that of the write path, and of the rows. *)

HeldAlone == \A a, b \in Attempts, r \in Resources : Holds(a, r) /\ Holds(b, r) => a = b

\* What an attempt is about to commit is the committed row with columns of its own.
DraftCurrent ==
    \A a \in Attempts, r \in Resources : Holds(a, r) =>
        /\ \A c \in Columns : draft[a][c] \in {a, column[r][c]}
        /\ keyOf[a] \in Creates => r \notin there

CreatedThere == \A a \in effects : keyOf[a] \in Creates => Named[keyOf[a]] \in there

RowInv == IInv /\ RowTypeOK /\ HeldAlone /\ DraftCurrent /\ CreatedThere /\ NameTakenOnce
=============================================================================
