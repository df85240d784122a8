--------------------------- MODULE ApprovalsProofs ---------------------------
(***************************************************************************)
(* IInv is an inductive invariant of Approvals, for any requests, tenants  *)
(* and actors; finality of decisions and the refinement of ApprovalRecord  *)
(* follow.  A scheduler with any requests, tenants, entries and passes     *)
(* does to approvals only what Approvals describes, so all of this holds   *)
(* behind it; each purge belongs to the pass that runs it, and deletes     *)
(* nothing that is live.                                                   *)
(***************************************************************************)
EXTENDS Scheduler, Integers, FiniteSetTheorems, WellFoundedInduction, TLAPS

\* The initial states satisfy the inductive invariant.
LEMMA InitInv == Init => IInv
<1> SUFFICES ASSUME Init PROVE IInv
    OBVIOUS
<1>1. /\ Idle \in Session /\ Idle.pc = "idle" /\ Idle.sees = {} /\ Idle.todo = {} /\ Idle.marked = {}
    BY DEF Session, Idle, Verdicts
<1>2. TypeOK
    BY <1>1 DEF Init, TypeOK
<1>3. LocksMatch /\ LockedUndecided /\ RowsExist /\ OverdueExist
    BY <1>1, ActorsAssumption DEF Init, LocksMatch, LockedUndecided, RowsExist, OverdueExist
<1>4. SweepsSee /\ SweepsCover
    BY <1>1 DEF Init, SweepsSee, SweepsCover, Actors
<1>5. AcceptedStands /\ OneAccepted /\ ExpiredWasOverdue /\ NothingOverdueListed
    BY <1>1 DEF Init, AcceptedStands, OneAccepted, ExpiredWasOverdue, NothingOverdueListed, Actors
<1> QED
    BY <1>2, <1>3, <1>4, <1>5 DEF IInv

\* After its transaction an actor holds nothing and claims nothing, except
\* that a successful list keeps what its sweep saw.
LEMMA AfterwardsFits ==
    ASSUME IInv, NEW a \in Actors, NEW ok \in BOOLEAN
    PROVE  /\ Afterwards(a, ok) \in Session
           /\ Afterwards(a, ok).pc # "update"
           /\ a \in Deciders => Afterwards(a, ok).pc = "idle"
           /\ Afterwards(a, ok).sees \subseteq overdue
           /\ Afterwards(a, ok).todo = {}
           /\ Afterwards(a, ok).pc = "list" =>
                 ok /\ a \in Listers /\ Afterwards(a, ok).sees = session[a].sees
<1> DEFINE old == session[a]
           listing == [old EXCEPT !.pc = "list", !.todo = {}, !.marked = {}]
           next == [Idle EXCEPT !.pc = "pass", !.tenants = old.tenants]
<1>1. old \in Session /\ old.sees \subseteq overdue
    BY DEF IInv, TypeOK, SweepsSee
<1>2. /\ listing \in Session /\ listing.pc = "list" /\ listing.todo = {}
      /\ listing.sees = old.sees
    BY <1>1 DEF Session
<1>3. next \in Session /\ next.pc = "pass" /\ next.todo = {} /\ next.sees = {}
    BY <1>1 DEF Session, Idle, Verdicts
<1>4. Idle \in Session /\ Idle.pc = "idle" /\ Idle.todo = {} /\ Idle.sees = {}
    BY DEF Session, Idle, Verdicts
<1>5. Afterwards(a, ok) = IF a \in Listers /\ ok THEN listing
                          ELSE IF a \in Passes /\ old.tenants # {} THEN next ELSE Idle
    BY DEF Afterwards
<1> HIDE DEF old, listing, next
<1>6. CASE a \in Listers /\ ok
    BY <1>1, <1>2, <1>5, <1>6, ActorsAssumption DEF old
<1>7. CASE ~(a \in Listers /\ ok)
    BY <1>3, <1>4, <1>5, <1>7, ActorsAssumption
<1> QED
    BY <1>6, <1>7

\* The end of a transaction without effect keeps the inductive invariant.
LEMMA RollbackInv ==
    ASSUME IInv, NEW a \in Actors, Rollback(a), failures' \in Nat PROVE IInv'
<1> DEFINE s == Afterwards(a, FALSE)
<1>1. /\ s \in Session /\ s.pc # "update" /\ s.pc # "list"
      /\ a \in Deciders => s.pc = "idle"
      /\ s.sees \subseteq overdue /\ s.todo = {}
    BY AfterwardsFits
<1>2. /\ session' = [session EXCEPT ![a] = s] /\ lock' = Unlocked(a)
      /\ UNCHANGED <<decision, overdue, accepted, stopped>>
    BY DEF Rollback
<1> HIDE DEF s
<1>3. TypeOK'
    BY <1>1, <1>2 DEF IInv, TypeOK, Unlocked
<1>4. LocksMatch' /\ LockedUndecided' /\ RowsExist' /\ OverdueExist'
    BY <1>1, <1>2, ActorsAssumption
       DEF IInv, TypeOK, LocksMatch, LockedUndecided, RowsExist, OverdueExist, Unlocked
<1>5. SweepsSee'
    BY <1>1, <1>2 DEF IInv, TypeOK, SweepsSee
<1>6. SweepsCover'
    BY <1>1, <1>2 DEF IInv, TypeOK, SweepsCover
<1>7. AcceptedStands' /\ OneAccepted' /\ ExpiredWasOverdue'
    BY <1>2 DEF IInv, AcceptedStands, OneAccepted, ExpiredWasOverdue
<1>8. NothingOverdueListed'
    BY <1>1, <1>2 DEF IInv, TypeOK, NothingOverdueListed
<1> QED
    BY <1>3, <1>4, <1>5, <1>6, <1>7, <1>8 DEF IInv

\* COMMIT settles exactly the rows the transaction has locked, all of them
\* undecided until then.
LEMMA CommitInv == ASSUME IInv, NEW a \in Actors, Commit(a) PROVE IInv'
<1> DEFINE s == Afterwards(a, TRUE)
           M == session[a].marked
           v == session[a].verdict
<1>1. /\ s \in Session /\ s.pc # "update"
      /\ a \in Deciders => s.pc = "idle"
      /\ s.sees \subseteq overdue /\ s.todo = {}
      /\ s.pc = "list" => a \in Listers /\ s.sees = session[a].sees
    BY AfterwardsFits
<1>2. /\ session' = [session EXCEPT ![a] = s] /\ lock' = Unlocked(a)
      /\ UNCHANGED <<overdue, stopped, failures>>
      /\ decision' = [r \in Requests |-> IF r \in M THEN v ELSE decision[r]]
      /\ session[a].pc = "update" /\ session[a].todo = {}
    BY DEF Commit
<1>3. accepted' = IF a \in Deciders THEN accepted \cup {<<r, a, v>> : r \in M} ELSE accepted
    BY DEF Commit, Answer
<1>4. v \in Verdicts /\ M \subseteq Requests
    BY DEF IInv, TypeOK, Session
<1>5. \A r \in M : lock[r] = a /\ decision[r] = "NULL"
    BY <1>2, <1>4, ActorsAssumption DEF IInv, LocksMatch, LockedUndecided
<1>6. v = "EXPIRED" => M \subseteq overdue
    BY <1>2 DEF IInv, SweepsSee
<1> HIDE DEF s, M, v
<1>7. TypeOK'
    <2>1. decision' \in [Requests -> {"absent", "NULL"} \cup Verdicts]
        BY <1>2, <1>4 DEF IInv, TypeOK
    <2>2. session' \in [Actors -> Session]
        BY <1>1, <1>2 DEF IInv, TypeOK
    <2>3. lock' \in [Requests -> Actors \cup {NoActor}]
        BY <1>2 DEF IInv, TypeOK, Unlocked
    <2>4. accepted' \subseteq Requests \X Deciders \X Verdicts
        BY <1>3, <1>4 DEF IInv, TypeOK
    <2> QED
        BY <1>2, <2>1, <2>2, <2>3, <2>4 DEF IInv, TypeOK
<1>8. LocksMatch'
    BY <1>1, <1>2, ActorsAssumption DEF IInv, TypeOK, LocksMatch, Unlocked
<1>16. RowsExist' /\ OverdueExist'
    BY <1>1, <1>2, <1>4 DEF IInv, TypeOK, Session, RowsExist, OverdueExist, Verdicts
<1>9. LockedUndecided'
    BY <1>2, ActorsAssumption DEF IInv, TypeOK, LocksMatch, LockedUndecided, Unlocked, M
<1>10. SweepsSee'
    BY <1>1, <1>2 DEF IInv, TypeOK, SweepsSee
<1>11. SweepsCover'
    <2> SUFFICES ASSUME NEW b \in Actors \ Deciders, NEW r \in Requests,
                        r \in session'[b].sees, session'[b].pc \in {"update", "list"}
                 PROVE  \/ decision'[r] \in Verdicts
                        \/ /\ session'[b].pc = "update"
                           /\ r \in session'[b].todo \cup session'[b].marked
        BY DEF SweepsCover
    <2>1. CASE b = a
        <3>1. r \in session[a].sees /\ session[a].pc = "update"
            BY <1>1, <1>2, <2>1 DEF IInv, TypeOK
        <3>2. decision[r] \in Verdicts \/ r \in M
            BY <1>2, <2>1, <3>1 DEF IInv, SweepsCover, M
        <3> QED
            BY <1>2, <1>4, <3>2
    <2>2. CASE b # a
        <3>1. session'[b] = session[b]
            BY <1>2, <2>2 DEF IInv, TypeOK
        <3> QED
            BY <1>2, <1>4, <3>1 DEF IInv, SweepsCover
    <2> QED
        BY <2>1, <2>2
<1>12. AcceptedStands'
    BY <1>2, <1>3, <1>4, <1>5 DEF IInv, TypeOK, AcceptedStands, Verdicts
<1>13. OneAccepted'
    <2>1. \A x \in accepted : x[1] \notin M
        BY <1>5 DEF IInv, TypeOK, AcceptedStands, Verdicts
    <2> QED
        BY <1>3, <2>1 DEF IInv, OneAccepted
<1>14. ExpiredWasOverdue'
    BY <1>2, <1>6 DEF IInv, ExpiredWasOverdue
<1>15. NothingOverdueListed'
    <2> SUFFICES ASSUME NEW b \in Listers, session'[b].pc = "list", NEW r \in session'[b].sees
                 PROVE  decision'[r] # "NULL"
        BY DEF NothingOverdueListed
    <2>1. b \in Actors \ Deciders /\ r \in Requests
        <3>1. b \in Actors \ Deciders
            BY ActorsAssumption DEF Actors
        <3> QED
            BY <1>7, <3>1 DEF TypeOK, Session
    <2> QED
        BY <1>11, <2>1 DEF SweepsCover, Verdicts
<1> QED
    BY <1>7, <1>8, <1>9, <1>10, <1>11, <1>12, <1>13, <1>14, <1>15, <1>16 DEF IInv

\* Locking a row that still qualifies marks it; one that no longer does is
\* decided already.
LEMMA LockRowInv ==
    ASSUME IInv, NEW a \in Actors, NEW r \in Requests, LockRow(a, r) PROVE IInv'
<1> DEFINE s == session[a]
           t == session'[a]
<1>1. /\ s.pc = "update" /\ r \in s.todo /\ lock[r] = NoActor
      /\ UNCHANGED <<decision, overdue, accepted, stopped, failures>>
    BY DEF LockRow
<1>2. /\ t = [s EXCEPT !.todo = s.todo \ {r},
                       !.marked = IF Undecided(r) THEN s.marked \cup {r} ELSE s.marked]
      /\ session' = [session EXCEPT ![a] = t]
      /\ lock' = IF Undecided(r) THEN [lock EXCEPT ![r] = a] ELSE lock
    <2>1. s \in Session /\ session \in [Actors -> Session]
        BY DEF IInv, TypeOK
    <2>2. CASE Undecided(r)
        <3>1. session' = [session EXCEPT ![a].todo = @ \ {r}, ![a].marked = @ \cup {r}]
            BY <2>2 DEF LockRow
        <3> QED
            BY <2>1, <2>2, <3>1 DEF LockRow, Session
    <2>3. CASE ~Undecided(r)
        <3>1. session' = [session EXCEPT ![a].todo = @ \ {r}]
            BY <2>3 DEF LockRow
        <3> QED
            BY <2>1, <2>3, <3>1 DEF LockRow, Session
    <2> QED
        BY <2>2, <2>3
<1>3. s \in Session /\ t \in Session
    <2>1. s \in Session
        BY DEF IInv, TypeOK
    <2> HIDE DEF s, t
    <2> QED
        BY <1>2, <2>1 DEF Session
<1>4. /\ t.pc = "update" /\ t.verdict = s.verdict /\ t.sees = s.sees
      /\ t.todo = s.todo \ {r}
      /\ t.marked = IF Undecided(r) THEN s.marked \cup {r} ELSE s.marked
    BY <1>1, <1>2, <1>3 DEF Session
<1>5. \A b \in Actors : b # a => session'[b] = session[b]
    BY <1>2 DEF IInv, TypeOK
<1> HIDE DEF t
<1>6. TypeOK'
    BY <1>1, <1>2, <1>3 DEF IInv, TypeOK
<1>7. LocksMatch'
    <2> SUFFICES ASSUME NEW q \in Requests, NEW b \in Actors
                 PROVE  lock'[q] = b <=> session'[b].pc = "update" /\ q \in session'[b].marked
        BY DEF LocksMatch
    <2>1. lock[q] = b <=> session[b].pc = "update" /\ q \in session[b].marked
        BY DEF IInv, LocksMatch
    <2>2. lock' = IF Undecided(r) THEN [lock EXCEPT ![r] = a] ELSE lock
        BY <1>2
    <2>3. lock \in [Requests -> Actors \cup {NoActor}]
        BY DEF IInv, TypeOK
    <2>4. CASE b = a
        BY <1>1, <1>4, <2>1, <2>2, <2>3, <2>4, ActorsAssumption DEF t
    <2>5. CASE b # a
        <3>1. lock[r] # b
            BY <1>1, ActorsAssumption
        <3> QED
            BY <1>1, <1>5, <2>1, <2>2, <2>3, <2>5, <3>1
    <2> QED
        BY <2>4, <2>5
<1>8. LockedUndecided'
    BY <1>1, <1>2 DEF IInv, TypeOK, LockedUndecided, Undecided
<1>13. RowsExist' /\ OverdueExist'
    BY <1>1, <1>4, <1>5 DEF IInv, RowsExist, OverdueExist, t
<1>9. SweepsSee'
    BY <1>1, <1>4, <1>5 DEF IInv, SweepsSee, t
<1>10. SweepsCover'
    <2> SUFFICES ASSUME NEW b \in Actors \ Deciders, NEW q \in Requests,
                        q \in session'[b].sees, session'[b].pc \in {"update", "list"}
                 PROVE  \/ decision'[q] \in Verdicts
                        \/ /\ session'[b].pc = "update"
                           /\ q \in session'[b].todo \cup session'[b].marked
        BY DEF SweepsCover
    <2>1. CASE b = a /\ q = r
        <3>1. CASE Undecided(r)
            BY <1>4, <2>1, <3>1 DEF t
        <3>2. CASE ~Undecided(r)
            <4>1. decision[r] \in {"absent"} \cup Verdicts
                BY <3>2 DEF Undecided, IInv, TypeOK
            <4>2. decision[r] # "absent"
                BY <1>1, <1>3, <2>1 DEF IInv, RowsExist
            <4> QED
                BY <1>1, <2>1, <4>1, <4>2
        <3> QED
            BY <3>1, <3>2
    <2>2. CASE b = a /\ q # r
        BY <1>1, <1>4, <2>2 DEF IInv, SweepsCover, t
    <2>3. CASE b # a
        BY <1>1, <1>5, <2>3 DEF IInv, SweepsCover
    <2> QED
        BY <2>1, <2>2, <2>3
<1>11. AcceptedStands' /\ OneAccepted' /\ ExpiredWasOverdue'
    BY <1>1 DEF IInv, AcceptedStands, OneAccepted, ExpiredWasOverdue
<1>12. NothingOverdueListed'
    BY <1>1, <1>4, <1>5, ActorsAssumption DEF IInv, NothingOverdueListed, Actors, t
<1> QED
    BY <1>6, <1>7, <1>8, <1>9, <1>10, <1>11, <1>12, <1>13 DEF IInv

\* An actor turns to something else without touching a row: to a state in
\* which it has locked nothing and still has to do all its rows.
LEMMA TurnInv ==
    ASSUME IInv, NEW a \in Actors, NEW s \in Session,
           session[a].pc # "update", session' = [session EXCEPT ![a] = s],
           s.marked = {}, s.sees \subseteq overdue, s.pc # "list",
           \A r \in s.todo : decision[r] = "NULL",
           s.verdict = "EXPIRED" => s.todo \subseteq s.sees,
           a \in Deciders => s.pc \in {"idle", "update"},
           a \notin Deciders /\ s.pc = "update" =>
               \A r \in s.sees : decision[r] \in Verdicts \/ r \in s.todo,
           UNCHANGED <<decision, overdue, lock, accepted, failures>>, stopped' \in BOOLEAN
    PROVE  IInv'
<1>1. TypeOK'
    BY DEF IInv, TypeOK
<1>2. LocksMatch' /\ LockedUndecided' /\ RowsExist' /\ OverdueExist'
    BY ActorsAssumption DEF IInv, TypeOK, LocksMatch, LockedUndecided, RowsExist, OverdueExist
<1>3. SweepsSee' /\ SweepsCover'
    BY DEF IInv, TypeOK, SweepsSee, SweepsCover
<1>4. AcceptedStands' /\ OneAccepted' /\ ExpiredWasOverdue' /\ NothingOverdueListed'
    BY DEF IInv, TypeOK, AcceptedStands, OneAccepted, ExpiredWasOverdue, NothingOverdueListed
<1> QED
    BY <1>1, <1>2, <1>3, <1>4 DEF IInv

\* Every step preserves the inductive invariant.
LEMMA NextInv == IInv /\ [Next]_vars => IInv'
<1> SUFFICES ASSUME IInv, [Next]_vars PROVE IInv'
    OBVIOUS
<1> USE ActorsAssumption DEF Actors
<1>1. ASSUME NEW r \in Requests, CreateApproval(r) PROVE IInv'
    BY <1>1 DEF CreateApproval, IInv, TypeOK, LocksMatch, LockedUndecided, RowsExist, OverdueExist, SweepsSee,
                SweepsCover, AcceptedStands, OneAccepted, ExpiredWasOverdue,
                NothingOverdueListed, Verdicts
<1>2. ASSUME NEW r \in Requests, Elapse(r) PROVE IInv'
    BY <1>2 DEF Elapse, IInv, TypeOK, LocksMatch, LockedUndecided, RowsExist, OverdueExist, SweepsSee,
                SweepsCover, AcceptedStands, OneAccepted, ExpiredWasOverdue, NothingOverdueListed
<1>3. ASSUME NEW a \in Deciders, NEW r \in Requests, NEW v \in {"APPROVED", "DENIED"},
             Decide(a, r, v)
      PROVE  IInv'
    <2> DEFINE s == [Idle EXCEPT !.pc = "update", !.verdict = v,
                                 !.sees = overdue \cap {r}, !.todo = {r}]
    <2>1. /\ s \in Session /\ s.marked = {} /\ s.sees \subseteq overdue /\ s.pc = "update"
          /\ s.todo = {r} /\ s.verdict # "EXPIRED"
        BY DEF Session, Idle, Verdicts, IInv, TypeOK
    <2> QED
        BY <1>3, <2>1, TurnInv DEF Decide, IInv, TypeOK
<1>4. ASSUME NEW a \in Listers, NEW t \in Tenants, ListApprovals(a, t) PROVE IInv'
    <2> DEFINE s == [Idle EXCEPT !.pc = "pass", !.tenants = {t}]
    <2>1. s \in Session /\ s.marked = {} /\ s.sees = {} /\ s.pc = "pass" /\ s.todo = {}
        BY DEF Session, Idle, Verdicts
    <2> QED
        BY <1>4, <2>1, TurnInv DEF ListApprovals, IInv, TypeOK
<1>5. ASSUME NEW a \in Passes, Tick(a) PROVE IInv'
    <2> DEFINE s == [Idle EXCEPT !.pc = "pass", !.tenants = Tenants]
    <2>1. s \in Session /\ s.marked = {} /\ s.sees = {} /\ s.pc = "pass" /\ s.todo = {}
        BY DEF Session, Idle, Verdicts
    <2> QED
        BY <1>5, <2>1, TurnInv DEF Tick, IInv, TypeOK
<1>6. ASSUME NEW a \in Actors, NEW t \in Tenants, Sweep(a, t) PROVE IInv'
    <2> DEFINE s == [pc |-> "update", tenants |-> session[a].tenants \ {t},
                     verdict |-> "EXPIRED", sees |-> Expired(t),
                     todo |-> {r \in Expired(t) : decision[r] = "NULL"}, marked |-> {}]
    <2>1. Expired(t) \subseteq overdue /\ Expired(t) \subseteq Requests
        BY DEF Expired, IInv, TypeOK
    <2>2. /\ s \in Session /\ s.marked = {} /\ s.sees = Expired(t) /\ s.pc = "update"
          /\ s.todo = {r \in Expired(t) : decision[r] = "NULL"}
        BY <2>1 DEF Session, Verdicts, IInv, TypeOK
    <2>3. \A r \in overdue : decision[r] # "absent"
        BY DEF IInv, OverdueExist
    <2>4. \A r \in s.sees : decision[r] \in Verdicts \/ r \in s.todo
        BY <2>1, <2>2, <2>3 DEF IInv, TypeOK
    <2>5. a \notin Deciders
        BY <1>6 DEF Sweep, IInv, SweepsSee
    <2>6. session[a].pc # "update" /\ session' = [session EXCEPT ![a] = s]
          /\ UNCHANGED <<decision, overdue, lock, accepted, stopped, failures>>
        BY <1>6 DEF Sweep
    <2> HIDE DEF s
    <2> QED
        BY <2>1, <2>2, <2>4, <2>5, <2>6, TurnInv DEF IInv, TypeOK
<1>7. ASSUME NEW a \in Actors, NEW r \in Requests, LockRow(a, r) PROVE IInv'
    BY <1>7, LockRowInv
<1>8. ASSUME NEW a \in Actors, Commit(a) PROVE IInv'
    BY <1>8, CommitInv
<1>9. ASSUME NEW a \in Actors, DeadlockVictim(a) \/ Fail(a) PROVE IInv'
    <2>1. Rollback(a) /\ failures' \in Nat
        BY <1>9 DEF DeadlockVictim, Fail, IInv, TypeOK
    <2> QED
        BY <2>1, RollbackInv
<1>10. ASSUME NEW a \in Actors, List(a) PROVE IInv'
    <2>1. Idle \in Session /\ Idle.marked = {} /\ Idle.sees = {} /\ Idle.pc = "idle" /\ Idle.todo = {}
        BY DEF Session, Idle, Verdicts
    <2> QED
        BY <1>10, <2>1, TurnInv DEF List, IInv, TypeOK
<1>11. ASSUME Stop PROVE IInv'
    BY <1>11 DEF Stop, IInv, TypeOK, LocksMatch, LockedUndecided, RowsExist, OverdueExist, SweepsSee,
                 SweepsCover, AcceptedStands, OneAccepted, ExpiredWasOverdue, NothingOverdueListed
<1>12. ASSUME NEW a \in Passes, Exit(a) PROVE IInv'
    <2>1. Idle \in Session /\ Idle.pc = "idle" /\ Idle.todo = {} /\ Idle.sees = {}
        BY DEF Session, Idle, Verdicts
    <2>2. /\ session' = [session EXCEPT ![a] = Idle] /\ lock' = Unlocked(a)
          /\ UNCHANGED <<decision, overdue, accepted, stopped, failures>>
        BY <1>12 DEF Exit
    <2>3. TypeOK'
        BY <2>1, <2>2 DEF IInv, TypeOK, Unlocked
    <2>4. LocksMatch' /\ LockedUndecided' /\ RowsExist' /\ OverdueExist'
        BY <2>1, <2>2 DEF IInv, TypeOK, LocksMatch, LockedUndecided, RowsExist, OverdueExist, Unlocked
    <2>5. SweepsSee' /\ SweepsCover'
        BY <2>1, <2>2 DEF IInv, TypeOK, SweepsSee, SweepsCover
    <2>6. AcceptedStands' /\ OneAccepted' /\ ExpiredWasOverdue' /\ NothingOverdueListed'
        BY <2>1, <2>2
           DEF IInv, TypeOK, AcceptedStands, OneAccepted, ExpiredWasOverdue, NothingOverdueListed
    <2> QED
        BY <2>3, <2>4, <2>5, <2>6 DEF IInv
<1>13. CASE UNCHANGED vars
    BY <1>13 DEF vars, IInv, TypeOK, LocksMatch, LockedUndecided, RowsExist, OverdueExist, SweepsSee,
                 SweepsCover, AcceptedStands, OneAccepted, ExpiredWasOverdue, NothingOverdueListed
<1> QED
    BY <1>1, <1>2, <1>3, <1>4, <1>5, <1>6, <1>7, <1>8, <1>9, <1>10, <1>11, <1>12, <1>13
       DEF Next, Requested, Fails, Proceeds

\* The inductive invariant holds in every reachable state: an accepted
\* decision stands and is the only one, only overdue requests expire, and
\* no list shows what its sweep should have settled.
THEOREM Invariance == Spec => []IInv
BY InitInv, NextInv, PTL DEF Spec

\* Type correctness, for any requests, tenants and actors.
THEOREM TypeCorrectness == Spec => []TypeOK
<1>1. IInv => TypeOK
    BY DEF IInv
<1> QED
    BY Invariance, <1>1, PTL

\* A decision that was answered 200 is the row's decision for good, whatever
\* decisions and sweeps race with it.
THEOREM AcceptedDecisionStands == Spec => []AcceptedStands
<1>1. IInv => AcceptedStands
    BY DEF IInv
<1> QED
    BY Invariance, <1>1, PTL

\* GET /approvals lists nothing that was overdue when its sweep began.
THEOREM ListsAreFresh == Spec => []NothingOverdueListed
<1>1. IInv => NothingOverdueListed
    BY DEF IInv
<1> QED
    BY Invariance, <1>1, PTL

-----------------------------------------------------------------------------
(* Waiting. *)

\* Finitely many that all wait for one among them: a smallest group of them that
\* still does has nobody to spare, and is a circle.
LEMMA CircleAmong ==
    ASSUME NEW S \in SUBSET Actors, IsFiniteSet(S), S # {},
           \A a \in S : \E b \in S : WaitsFor(a, b)
    PROVE  \E T \in SUBSET S : T # {} /\ Circle(T)
<1> DEFINE Closed(T) == T # {} /\ \A a \in T : \E b \in T : WaitsFor(a, b)
           Sizes == {n \in Nat : \E T \in SUBSET S : Closed(T) /\ Cardinality(T) = n}
           less == {mn \in Nat \X Nat : mn[1] < mn[2]}
<1>1. IsWellFoundedOn(less, Nat)
    BY NatLessThanWellFounded DEF OpToRel
<1>2. Cardinality(S) \in Sizes
    BY FS_CardinalityType
<1>3. PICK n \in Sizes : \A m \in Sizes : <<m, n>> \notin less
    BY <1>1, <1>2, WFMin
<1>4. PICK T \in SUBSET S : Closed(T) /\ Cardinality(T) = n
    OBVIOUS
<1>5. ASSUME NEW a \in T, \A b \in T : ~WaitsFor(b, a) PROVE FALSE
    <2>1. Closed(T \ {a})
        BY <1>4, <1>5
    <2>2. IsFiniteSet(T) /\ Cardinality(T \ {a}) = n - 1 /\ Cardinality(T \ {a}) \in Nat
        BY <1>4, FS_Subset, FS_RemoveElement, FS_CardinalityType
    <2>3. n - 1 \in Sizes
        BY <1>4, <2>1, <2>2
    <2>4. <<n - 1, n>> \in less
        BY <2>3
    <2> QED
        BY <1>3, <2>3, <2>4
<1> QED
    BY <1>4, <1>5 DEF Circle

\* Locks belong to transactions under way, so who is blocked waits for one.
LEMMA BlockedWait ==
    ASSUME IInv, NEW a \in Actors, Blocked(a)
    PROVE  \E b \in Actors : WaitsFor(a, b) /\ session[b].pc = "update"
<1>1. PICK r \in session[a].todo : lock[r] # NoActor
    BY DEF Blocked
<1>2. r \in Requests /\ lock[r] \in Actors
    BY <1>1 DEF IInv, TypeOK, Session
<1> QED
    BY <1>1, <1>2 DEF Blocked, WaitsFor, IInv, LocksMatch

\* With finitely many actors, every UPDATE that waits for a row waits for one
\* that can end, or stands in a circle, of any length, that is broken.
THEOREM WaitingEnds == IsFiniteSet(Actors) => (Spec => []NobodyStuck)
<1> SUFFICES ASSUME IsFiniteSet(Actors) PROVE Spec => []NobodyStuck
    OBVIOUS
<1>1. ASSUME IInv, NEW S \in SUBSET Actors, S # {}, \A a \in S : Blocked(a)
      PROVE  \/ \E a \in S, b \in Actors \ S : WaitsFor(a, b) /\ session[b].pc = "update"
             \/ \E T \in SUBSET S : T # {} /\ Circle(T)
    <2>1. CASE \A a \in S : \E b \in S : WaitsFor(a, b)
        BY <1>1, <2>1, CircleAmong, FS_Subset
    <2>2. ASSUME NEW a \in S, \A b \in S : ~WaitsFor(a, b)
          PROVE  \E b \in Actors \ S : WaitsFor(a, b) /\ session[b].pc = "update"
        BY <1>1, <2>2, BlockedWait
    <2> QED
        BY <2>1, <2>2
<1>2. IInv => NobodyStuck
    BY <1>1 DEF NobodyStuck
<1> QED
    BY Invariance, <1>2, PTL

-----------------------------------------------------------------------------
(* Refinement. *)

\* A commit settles undecided requests, and overdue ones only if it expires
\* them.
LEMMA CommitSettles ==
    ASSUME IInv, NEW a \in Actors, Commit(a)
    PROVE  /\ Record!Settle(session[a].marked, session[a].verdict)
           /\ session[a].marked \in SUBSET Requests
           /\ session[a].verdict \in Verdicts
<1>1. session[a].pc = "update" /\ session[a].marked \subseteq Requests /\ session[a].verdict \in Verdicts
    BY DEF Commit, IInv, TypeOK, Session
<1>2. \A r \in session[a].marked : decision[r] = "NULL"
    BY <1>1, ActorsAssumption DEF IInv, LocksMatch, LockedUndecided
<1>3. session[a].verdict = "EXPIRED" => session[a].marked \subseteq overdue
    BY <1>1 DEF IInv, SweepsSee
<1> QED
    BY <1>1, <1>2, <1>3 DEF Commit, Record!Settle

\* Every step is a step of ApprovalRecord or leaves its variables unchanged.
LEMMA StepRefines == ASSUME IInv, [Next]_vars PROVE [Record!Next]_(Record!vars)
<1>1. ASSUME NEW r \in Requests, CreateApproval(r) PROVE Record!Create(r)
    BY <1>1 DEF CreateApproval, Record!Create
<1>2. ASSUME NEW r \in Requests, Elapse(r) PROVE Record!Elapse(r)
    BY <1>2 DEF Elapse, Record!Elapse
<1>3. ASSUME NEW a \in Actors, Commit(a) PROVE Record!Next
    BY <1>3, CommitSettles DEF Record!Next, Verdicts, Record!Verdicts
<1>4. CASE UNCHANGED <<decision, overdue>>
    BY <1>4 DEF Record!vars
<1> QED
    BY <1>1, <1>2, <1>3, <1>4
       DEF Next, Requested, Fails, Proceeds, Decide, ListApprovals, Tick, Sweep, LockRow, Fail, Rollback,
           DeadlockVictim, List, Stop, Exit, vars, Record!Next

\* Racing decisions, overlapping sweeps, failures and deadlocks implement a
\* record that is decided once.
THEOREM Refinement == Spec => ImplementsRecord
<1>1. Init => Record!Init
    BY DEF Init, Record!Init
<1>2. IInv /\ [Next]_vars => [Record!Next]_(Record!vars)
    BY StepRefines
<1> QED
    BY Invariance, <1>1, <1>2, PTL DEF Spec, ImplementsRecord, Record!Spec

\* A decision never changes once it is made.
THEOREM DecisionsAreFinal == Spec => DecisionFinal
<1>1. IInv /\ [Next]_vars =>
          [\A r \in Requests : decision[r] \in Verdicts => decision'[r] = decision[r]]_vars
  <2> SUFFICES ASSUME IInv, [Next]_vars, NEW r \in Requests, decision[r] \in Verdicts
               PROVE  decision'[r] = decision[r]
      OBVIOUS
  <2>1. [Record!Next]_(Record!vars)
      BY StepRefines
  <2>2. decision[r] # "NULL" /\ decision[r] # "absent"
      BY DEF Verdicts
  <2> QED
      BY <2>1, <2>2 DEF Record!Next, Record!vars, Record!Create, Record!Elapse, Record!Settle, IInv, TypeOK
<1> QED
    BY Invariance, <1>1, PTL DEF Spec, DecisionFinal

-----------------------------------------------------------------------------
(* The scheduler. *)

\* Whatever the scheduler does, approvals see a step of their own, or none.
LEMMA ApprovalsStep == [SchedulerNext]_allVars => [Next]_vars
BY DEF SchedulerNext, allVars, Next, StartPass, StartSweep, StartPurge, Purged, PurgeDone,
       PurgeFails, Set, Age, ExitPass

\* Sweeps, failures, purges and exits of the scheduler implement Approvals.
THEOREM ApprovalsImplemented == SchedulerSpec => Spec
<1>1. SchedulerInit => Init
    BY DEF SchedulerInit
<1> QED
    BY <1>1, ApprovalsStep, PTL DEF SchedulerSpec, Spec

-----------------------------------------------------------------------------
\* The initial states satisfy the invariant of the passes.
LEMMA PassInit == SchedulerInit => PassInv
<1> SUFFICES ASSUME SchedulerInit PROVE PassInv
    OBVIOUS
<1>1. TypeOK
    BY InitInv DEF SchedulerInit, IInv
<1>2. \A p \in Passes : session[p].pc = "idle"
    BY DEF SchedulerInit, Init, Idle, Actors
<1> QED
    BY <1>1, <1>2 DEF SchedulerInit, PassInv, SchedulerTypeOK, Memory!MemoryInit, Memory!MemoryTypeOK,
                Memory!AgedExpired

\* What a transaction of one actor does to the sessions.
LEMMA OwnSession ==
    ASSUME TypeOK, NEW a \in Actors, Proceeds(a) \/ Fails(a)
    PROVE  /\ \A b \in Actors \ {a} : session'[b] = session[b]
           /\ session[a].pc \in {"update", "list"}
           /\ session'[a].pc = "update" => session[a].pc = "update"
<1> DEFINE s == [session[a] EXCEPT !.pc = "list", !.todo = {}, !.marked = {}]
           n == [Idle EXCEPT !.pc = "pass", !.tenants = session[a].tenants]
<1>1. session[a] \in Session /\ s.pc = "list" /\ n.pc = "pass" /\ Idle.pc = "idle"
    BY DEF TypeOK, Session, Idle
<1>2. \A ok \in BOOLEAN : Afterwards(a, ok) \in {s, n, Idle}
    BY DEF Afterwards
<1> HIDE DEF s, n
<1>3. CASE Proceeds(a)
    BY <1>1, <1>2, <1>3 DEF TypeOK, Proceeds, Commit, List, LockRow
<1>4. CASE Fails(a)
    BY <1>1, <1>2, <1>4 DEF TypeOK, Fails, DeadlockVictim, Circle, WaitsFor, Fail, Rollback
<1> QED
    BY <1>3, <1>4

\* A step that leaves the memory alone keeps the invariant when nobody who
\* purges is disturbed, and who sweeps owes a purge.
LEMMA MemoryUntouched ==
    ASSUME PassInv, TypeOK', UNCHANGED memory,
           owes' \in [Passes -> Tenants \cup {NoTenant}],
           \A p \in purging : owes'[p] = owes[p],
           \A p \in Passes : session'[p].pc = "update" => owes'[p] # NoTenant /\ p \notin purging
    PROVE  PassInv'
BY DEF memory, PassInv, SchedulerTypeOK, Memory!MemoryTypeOK, Memory!AgedExpired

\* Every step keeps the invariant of the passes.
LEMMA PassNext == IInv /\ PassInv /\ [SchedulerNext]_allVars => PassInv'
<1> SUFFICES ASSUME IInv, PassInv, [SchedulerNext]_allVars PROVE PassInv'
    OBVIOUS
<1>0. TypeOK /\ TypeOK'
    BY ApprovalsStep, NextInv DEF IInv
<1> USE ActorsAssumption, MemoryAssumption
<1>1. CASE (Requested \/ Stop) /\ AsOwed
    <2>1. \A p \in Passes : session'[p] = session[p]
        BY <1>0, <1>1 DEF Requested, Stop, CreateApproval, Elapse, Decide, ListApprovals, Actors, TypeOK
    <2> QED
        BY <1>0, <1>1, <2>1, MemoryUntouched DEF AsOwed, PassInv, SchedulerTypeOK
<1>2. ASSUME NEW a \in Actors, (Proceeds(a) /\ AsOwed) \/ (Fails(a) /\ AsOwedAfter(a)) PROVE PassInv'
    <2>1. UNCHANGED <<memory, owes>>
        BY <1>2 DEF AsOwed, AsOwedAfter, AfterFailure
    <2>2. \A p \in Passes : session'[p].pc = "update" => session[p].pc = "update"
        BY <1>0, <1>2, OwnSession DEF Actors
    <2> QED
        BY <1>0, <2>1, <2>2, MemoryUntouched DEF PassInv, SchedulerTypeOK
<1>3. ASSUME NEW a \in Actors, NEW t \in Tenants, StartSweep(a, t) PROVE PassInv'
    <2>1. UNCHANGED memory /\ session[a].pc = "pass"
          /\ \A b \in Actors \ {a} : session'[b] = session[b]
        BY <1>0, <1>3 DEF StartSweep, Sweep, TypeOK
    <2>2. CASE a \in Passes
        <3>1. owes[a] = NoTenant /\ owes' = [owes EXCEPT ![a] = t]
            BY <1>3, <2>2 DEF StartSweep
        <3>2. a \notin purging /\ t # NoTenant
            BY <2>2, <3>1 DEF PassInv
        <3> QED
            BY <1>0, <2>1, <2>2, <3>1, <3>2, MemoryUntouched DEF PassInv, SchedulerTypeOK, Actors
    <2>3. CASE a \notin Passes
        <3>1. UNCHANGED owes
            BY <1>3, <2>3 DEF StartSweep
        <3> QED
            BY <1>0, <2>1, <2>3, <3>1, MemoryUntouched DEF PassInv, SchedulerTypeOK, Actors
    <2> QED
        BY <2>2, <2>3
<1>4. ASSUME NEW p \in Passes, StartPass(p) PROVE PassInv'
    <2>1. /\ UNCHANGED <<memory, owes>> /\ session'[p].pc = "pass"
          /\ \A b \in Actors \ {p} : session'[b] = session[b]
        BY <1>0, <1>4 DEF StartPass, Tick, TypeOK, Idle, Actors
    <2> QED
        BY <1>0, <2>1, MemoryUntouched DEF PassInv, SchedulerTypeOK, Actors
<1>5. ASSUME NEW p \in Passes, StartPurge(p) PROVE PassInv'
    BY <1>0, <1>5 DEF StartPurge, Memory!BeginPurge, vars, PassInv, SchedulerTypeOK, Memory!MemoryTypeOK,
                      Memory!AgedExpired
<1>6. ASSUME NEW p \in Passes, PurgeDone(p) PROVE PassInv'
    <2>1. session[p].pc # "update"
        BY <1>6 DEF PurgeDone, Memory!CommitPurge, PassInv
    <2> QED
        BY <1>0, <1>6, <2>1
           DEF PurgeDone, Purged, Memory!CommitPurge, Memory!EndPurge, vars, PassInv, SchedulerTypeOK,
               Memory!MemoryTypeOK, Memory!AgedExpired
<1>7. ASSUME NEW p \in Passes, PurgeFails(p) PROVE PassInv'
    <2>1. session[p].pc # "update"
        BY <1>7 DEF PurgeFails, Memory!AbortPurge, PassInv
    <2> QED
        BY <1>0, <1>7, <2>1
           DEF PurgeFails, Purged, Memory!AbortPurge, Memory!EndPurge, vars, PassInv, SchedulerTypeOK,
               Memory!MemoryTypeOK, Memory!AgedExpired
<1>8. ASSUME NEW p \in Passes, ExitPass(p) PROVE PassInv'
    <2>1. /\ session'[p].pc = "idle"
          /\ \A b \in Actors \ {p} : session'[b] = session[b]
        BY <1>0, <1>8 DEF ExitPass, Exit, vars, TypeOK, Idle, Actors
    <2> QED
        BY <1>0, <1>8, <2>1
           DEF ExitPass, Memory!EndPurge, PassInv, SchedulerTypeOK, Memory!MemoryTypeOK,
               Memory!AgedExpired, Actors
<1>9. ASSUME NEW e \in Entries, Age(e) \/ Set(e) PROVE PassInv'
    BY <1>0, <1>9 DEF Age, Set, Memory!ExpireEntry, Memory!SetEntry, vars, PassInv, SchedulerTypeOK,
                      Memory!MemoryTypeOK, Memory!AgedExpired
<1>10. CASE UNCHANGED allVars
    BY <1>0, <1>10 DEF allVars, vars, memory, PassInv, SchedulerTypeOK, Memory!MemoryTypeOK,
                       Memory!AgedExpired
<1> QED
    BY <1>1, <1>2, <1>3, <1>4, <1>5, <1>6, <1>7, <1>8, <1>9, <1>10 DEF SchedulerNext

\* The approvals keep their invariant behind the scheduler, and every purge
\* belongs to a pass that owes it, and has seen only expired versions.
THEOREM PassInvariance == SchedulerSpec => [](IInv /\ PassInv)
<1>1. SchedulerInit => IInv /\ PassInv
    BY PassInit, InitInv DEF SchedulerInit
<1>2. IInv /\ PassInv /\ [SchedulerNext]_allVars => (IInv /\ PassInv)'
    BY ApprovalsStep, NextInv, PassNext
<1> QED
    BY <1>1, <1>2, PTL DEF SchedulerSpec

\* No purge deletes an entry that is live when it commits.
THEOREM OnlyExpiredArePurged == SchedulerSpec => PurgeOnlyExpired
<1>1. PassInv /\ [SchedulerNext]_allVars => [Memory!OnlyExpiredPurged]_allVars
    <2> SUFFICES ASSUME PassInv, SchedulerNext, NEW e \in Entries, cache[e] = "live", cache'[e] = "absent"
                 PROVE  FALSE
        BY DEF Memory!OnlyExpiredPurged
    <2>1. PICK p \in Passes : PurgeDone(p)
        BY DEF SchedulerNext, AsOwed, AsOwedAfter, memory, StartPass, StartSweep, StartPurge,
               Memory!BeginPurge, PurgeFails, Memory!AbortPurge, ExitPass, Age, Set,
               Memory!ExpireEntry, Memory!SetEntry, PassInv, SchedulerTypeOK, Memory!MemoryTypeOK
    <2>2. e \in aged[p]
        BY <2>1 DEF PurgeDone, Memory!CommitPurge, Memory!Qualify
    <2> QED
        BY <2>2 DEF PassInv, Memory!AgedExpired
<1> QED
    BY <1>1, PassInvariance, PTL DEF SchedulerSpec, PurgeOnlyExpired
=============================================================================
