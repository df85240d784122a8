---------------------- MODULE DeploymentVerdictsProofs ----------------------
(***************************************************************************)
(* Verdicts, rollbacks and the audit trail of Deployments, for any         *)
(* attempts, keys and releases.  The invariants proved here do not disturb *)
(* those of DeploymentsProofs: they say what is on record of an attempt    *)
(* that has come to a given place.  Two frame lemmas carry them: what a    *)
(* step leaves of any attempt (SessionFrame) and of any row (RowFrame).    *)
(***************************************************************************)
EXTENDS DeploymentsProofs

-----------------------------------------------------------------------------
(* The invariant. *)

\* What a health check concluded.
Verdict(a) == IF session[a].healthy THEN "HEALTHY" ELSE "FAILED"

\* The verdict of an attempt's check is in the registry.
Judged(a) == session[a].row = a /\ session[a].pc \in {"audit", "commit", "done", "crashed"}

\* A replacement of d that cannot change its verdict any more.
Confirmed(d) ==
    \E b \in Attempts :
        /\ session[b].of = d /\ Judged(b) /\ row[b].status \in {"HEALTHY", "ROLLED_BACK"}
        /\ row[b].release = row[row[d].target].release
        /\ row[b].environment = row[row[d].target].environment

\* The trail and the statuses, as far as single attempts have come.
VerdictKept == \A a \in Attempts : At(a, "audit") => row[a].status \in {Verdict(a), "ROLLED_BACK"}
TrailFits ==
    \A d \in Attempts :
        /\ <<"DEPLOYMENT_HEALTHY", d>> \in audited \/ <<"DEPLOYMENT_FAILED", d>> \in audited =>
              At(d, "done") /\ session[d].row = d
        /\ <<"DEPLOYMENT_ROLLED_BACK", d>> \in audited => row[d].status # "absent"
ReplacementFits ==
    \A a \in Attempts : IsRollback(a) /\ session[a].row = a =>
        /\ row[a].release = row[session[a].target].release
        /\ row[a].environment = row[session[a].target].environment
UncheckedFits ==
    \A a \in Attempts : At(a, "commit") /\ IsRollback(a) /\ session[a].row = None => ~row[session[a].of].url
RolledBackConfirmed ==
    \A d \in Attempts : row[d].url =>
        (row[d].status = "ROLLED_BACK" \/ <<"DEPLOYMENT_ROLLED_BACK", d>> \in audited => Confirmed(d))

VerdictInv == VerdictKept /\ TrailFits /\ OneVerdict /\ ReplacementFits /\ UncheckedFits /\ RolledBackConfirmed

-----------------------------------------------------------------------------
(* The frames. *)

\* An attempt that has its row keeps it, with what it rolls back; once its
\* verdict is recorded it stays so, and when it is done it stays as it is.
SessionKept(d) ==
    /\ session[d].row = d =>
          /\ session'[d].row = d /\ session'[d].of = session[d].of /\ session'[d].target = session[d].target
          /\ Judged(d) => Judged(d)' /\ session'[d].healthy = session[d].healthy
    /\ At(d, "done") => session'[d] = session[d]
    /\ session'[d].pc = "audit" => Record(d) \/ session'[d] = session[d]
    /\ session'[d].pc = "commit" => session'[d] = session[d] \/ Create(d) \/ Rollback(d) \/ Audit(d)

\* What a step leaves of an attempt.
LEMMA SessionFrame == ASSUME IInv, [Next]_vars, NEW d \in Attempts PROVE SessionKept(d)
<1>1. /\ session \in [Attempts -> Session]
      /\ session[d].pc \in {"unsent", "begin", "replace"} => session[d].row # d
      /\ session[d].pc \in {"check", "record", "audit"} => session[d].row = d
    BY NoneAssumption DEF IInv, TypeOK, OwnRow
<1>2. ASSUME NEW a \in Attempts, NEW k \in Keys, Receive(a, k) \/ Replay(a, k)
      PROVE  /\ session[a].pc = "unsent" /\ session' = [session EXCEPT ![a] = session'[a]]
             /\ session'[a].pc \in {"begin", "done"}
    BY <1>2, <1>1 DEF Receive, Replay, At, Session
<1>3. ASSUME NEW a \in Attempts, Step(a) \/ Crash(a)
      PROVE  session' = [session EXCEPT ![a] = session'[a]]
    BY <1>3, <1>1 DEF Step, Create, CommitCreate, Rollback, Replace, CommitRollback, Conflict, Record, Audit, Check,
                      Crash, At, Goto, Session
<1>4. ASSUME NEW a \in Attempts, Conflict(a) \/ Audit(a) \/ Crash(a) \/ CommitRollback(a)
      PROVE  /\ session[a].pc # "done"
             /\ session'[a].row = session[a].row /\ session'[a].of = session[a].of
             /\ session'[a].target = session[a].target /\ session'[a].healthy = session[a].healthy
             /\ session'[a].pc \in {"commit", "done", "crashed"}
             /\ session'[a].pc = "commit" => Audit(a)
    BY <1>4, <1>1 DEF Audit, Conflict, Crash, CommitRollback, At, Goto, Session
<1>5. ASSUME NEW a \in Attempts, Create(a) \/ Rollback(a) \/ Replace(a)
      PROVE  /\ session[a].pc \in {"begin", "replace"} /\ session'[a].pc \in {"commit", "done", "replace", "check"}
             /\ session'[a].pc = "commit" => Create(a) \/ Rollback(a)
    <2>1. CASE Create(a)
        BY <2>1, <1>1 DEF Create, At, Goto, Session
    <2>2. CASE Rollback(a)
        BY <2>2, <1>1 DEF Rollback, At, Goto, Session
    <2>3. CASE Replace(a)
        BY <2>3, <1>1 DEF Replace, At, Session
    <2> QED
        BY <1>5, <2>1, <2>2, <2>3
<1>6. ASSUME NEW a \in Attempts, CommitCreate(a)
      PROVE  session[a].pc = "commit" /\ session[a].row = None /\ session'[a].pc \in {"check", "done"}
    BY <1>6, <1>1 DEF CommitCreate, AfterCreate, At, Session, IInv, SessionFits
<1>7. ASSUME NEW a \in Attempts, Record(a)
      PROVE  /\ session[a].pc = "record" /\ session'[a] = [session[a] EXCEPT !.pc = "audit"]
    BY <1>7, <1>1 DEF Record, At, Goto, Session
<1>8. ASSUME NEW a \in Attempts, NEW healthy \in BOOLEAN, Check(a, healthy)
      PROVE  /\ session[a].pc = "check" /\ session'[a].pc \in {"record", "done"}
             /\ session'[a].row = session[a].row /\ session'[a].of = session[a].of
             /\ session'[a].target = session[a].target
    BY <1>8, <1>1 DEF Check, At, Goto, Session
<1>10. ASSUME NEW a \in Attempts, NEW k \in Keys, Receive(a, k) \/ Replay(a, k) PROVE SessionKept(d)
    BY <1>1, <1>2, <1>10 DEF SessionKept, At, Judged
<1>11. ASSUME NEW a \in Attempts, Step(a) \/ Crash(a), a # d PROVE SessionKept(d)
    BY <1>1, <1>3, <1>11 DEF SessionKept, At, Judged
<1>12. ASSUME Step(d) \/ Crash(d) PROVE SessionKept(d)
    <2>1. CASE Conflict(d) \/ Audit(d) \/ Crash(d) \/ CommitRollback(d)
        BY <1>1, <1>4, <2>1 DEF SessionKept, At, Judged
    <2>2. CASE Create(d) \/ Rollback(d) \/ Replace(d)
        BY <1>1, <1>5, <2>2 DEF SessionKept, At, Judged
    <2>3. CASE CommitCreate(d)
        BY <1>1, <1>6, <2>3, NoneAssumption DEF SessionKept, At, Judged
    <2>4. CASE Record(d)
        BY <1>1, <1>7, <2>4 DEF SessionKept, At, Judged, Session
    <2>5. CASE \E healthy \in BOOLEAN : Check(d, healthy)
        BY <1>1, <1>8, <2>5 DEF SessionKept, At, Judged
    <2> QED
        BY <1>12, <2>1, <2>2, <2>3, <2>4, <2>5 DEF Step
<1>13. CASE session' = session
    BY <1>13 DEF SessionKept, At, Judged
<1> QED
    BY <1>10, <1>11, <1>12, <1>13 DEF Next, SetRollbackTarget, Approving, vars

\* A row that is there keeps what it deploys; a recorded verdict is only
\* overwritten by ROLLED_BACK, and with a health_check_url only once a
\* replacement is confirmed.
RowKept(d) ==
    /\ row[d].status # "absent" =>
          /\ row'[d].status # "absent" /\ row'[d].url = row[d].url
          /\ row'[d].release = row[d].release /\ row'[d].environment = row[d].environment
          /\ row[d].target # None => row'[d].target = row[d].target
    /\ row[d].status = "absent" => row'[d].status \in {"absent", "IN_PROGRESS"}
    /\ Judged(d) => row'[d].status \in {row[d].status, "ROLLED_BACK"}
    /\ row[d].url /\ row'[d].status = "ROLLED_BACK" =>
          row[d].status = "ROLLED_BACK" \/ \E a \in Attempts : session[a].of = d /\ session[a].healthy /\ Record(a)

\* What a step leaves of a row.
LEMMA RowFrame == ASSUME IInv, UncheckedFits, [Next]_vars, NEW d \in Attempts PROVE RowKept(d)
<1>1. row \in [Attempts -> Row] /\ session \in [Attempts -> Session]
    BY DEF IInv, TypeOK
<1>2. Absent.status = "absent" /\ ~Absent.url
    BY DEF Absent
<1>3. CASE row' = row
    BY <1>3 DEF RowKept
<1>4. ASSUME NEW a \in Attempts, CommitCreate(a) \/ Replace(a) PROVE RowKept(d)
    <2>1. row[a] = Absent /\ session[a].row = None
        BY <1>4 DEF CommitCreate, Replace, At, IInv, OwnRow, SessionFits
    <2>2. row'[a].status = "IN_PROGRESS" /\ \A b \in Attempts \ {a} : row'[b] = row[b]
        <3>1. CASE CommitCreate(a)
            BY <1>1, <3>1 DEF CommitCreate, NewRow
        <3>2. CASE Replace(a)
            <4>1. Replacement(a).status = "IN_PROGRESS"
                BY DEF Replacement, Absent
            <4> QED
                BY <1>1, <3>2, <4>1 DEF Replace
        <3> QED
            BY <1>4, <3>1, <3>2
    <2> QED
        BY <1>2, <2>1, <2>2, NoneAssumption DEF RowKept, Judged
<1>5. ASSUME NEW a \in Attempts, CommitRollback(a), row' # row PROVE RowKept(d)
    <2> DEFINE o == session[a].of
               copy == [row[o] EXCEPT !.status = "IN_PROGRESS", !.approval = None, !.target = o]
    <2>1. /\ session[a].row = None /\ At(a, "commit") /\ IsRollback(a)
          /\ row' = [row EXCEPT ![a] = copy, ![o].status = "ROLLED_BACK"]
        BY <1>5 DEF CommitRollback, IInv, SessionFits
    <2>2. /\ row[a] = Absent /\ o \in Attempts /\ o # a /\ row[o].status # "absent" /\ ~row[o].url
        BY <1>1, <2>1 DEF IInv, OwnRow, SessionFits, UncheckedFits, IsRollback, Session
    <2>3. copy \in Row /\ copy.status = "IN_PROGRESS"
        <3>1. row[o] \in Row /\ o \in Attempts
            BY <1>1, <2>2
        <3> HIDE DEF o
        <3> QED
            BY <3>1 DEF Row
    <2> HIDE DEF copy
    <2>4. [row EXCEPT ![a] = copy] \in [Attempts -> Row]
        BY <1>1, <2>3
    <2>5. /\ row'[a].status = "IN_PROGRESS" /\ \A b \in Attempts \ {a, o} : row'[b] = row[b]
        BY <1>1, <2>1, <2>2, <2>3
    <2>6. /\ row'[o].status = "ROLLED_BACK" /\ row'[o].url = row[o].url /\ row'[o].release = row[o].release
          /\ row'[o].environment = row[o].environment /\ row'[o].target = row[o].target
        BY <2>1, <2>2, <2>4, StatusSet
    <2> HIDE DEF o
    <2> QED
        BY <1>2, <2>1, <2>2, <2>5, <2>6, NoneAssumption DEF RowKept, Judged
<1>6. ASSUME NEW a \in Attempts, Record(a) PROVE RowKept(d)
    <2> DEFINE o == session[a].of
               checked == [row EXCEPT ![a].status = Verdict(a)]
    <2>1. /\ session[a].pc = "record" /\ row[a].status # "absent" /\ session[a].row = a
          /\ o # None => o \in Attempts /\ o # a /\ row[o].status # "absent"
        BY <1>1, <1>6 DEF Record, At, IInv, OwnRow, SessionFits, IsRollback, Session
    <2>2. row' = IF MarksOriginal(a) THEN [checked EXCEPT ![o].status = "ROLLED_BACK"] ELSE checked
        BY <1>6, <2>1 DEF Record, Verdict
    <2>3. Verdict(a) \in {"HEALTHY", "FAILED"}
        BY DEF Verdict
    <2>4. checked = [row EXCEPT ![a].status = Verdict(a)]
        OBVIOUS
    <2> HIDE DEF checked
    <2>5. /\ checked \in [Attempts -> Row] /\ \A b \in Attempts \ {a} : checked[b] = row[b]
          /\ checked[a].status = Verdict(a) /\ checked[a].url = row[a].url /\ checked[a].release = row[a].release
          /\ checked[a].environment = row[a].environment /\ checked[a].target = row[a].target
        BY <1>1, <2>3, <2>4, StatusSet
    <2>6. CASE ~MarksOriginal(a)
        BY <2>1, <2>2, <2>3, <2>5, <2>6 DEF RowKept, Judged
    <2>7. CASE MarksOriginal(a)
        <3>1. o \in Attempts /\ o # a /\ row[o].status # "absent" /\ session[a].healthy
            BY <2>1, <2>7 DEF MarksOriginal, IsRollback
        <3>2. /\ \A b \in Attempts \ {o} : row'[b] = checked[b]
              /\ row'[o].status = "ROLLED_BACK" /\ row'[o].url = row[o].url /\ row'[o].release = row[o].release
              /\ row'[o].environment = row[o].environment /\ row'[o].target = row[o].target
            BY <2>2, <2>5, <2>7, <3>1, StatusSet
        <3> QED
            BY <1>6, <2>1, <2>3, <2>5, <3>1, <3>2 DEF RowKept, Judged
    <2> QED
        BY <2>6, <2>7
<1>7. ASSUME NEW b \in Attempts, NEW t \in Attempts, SetRollbackTarget(b, t) PROVE RowKept(d)
    <2>1. /\ row[b].target = None /\ row' = [row EXCEPT ![b].target = t]
        BY <1>7 DEF SetRollbackTarget
    <2> QED
        BY <1>1, <2>1 DEF RowKept, Row
<1>8. ASSUME NEW a \in Attempts, NEW k \in Keys, Receive(a, k) \/ Replay(a, k) PROVE row' = row
    BY <1>8 DEF Receive, Replay
<1>9. ASSUME NEW a \in Attempts, Step(a) \/ Crash(a) PROVE RowKept(d)
    BY <1>3, <1>4, <1>5, <1>6, <1>9
       DEF Step, Crash, Create, Rollback, Conflict, Check, Audit
<1> QED
    BY <1>3, <1>7, <1>8, <1>9 DEF Next, Approving, vars

\* What a check concludes is what the registry says of the attempt's row.
LEMMA RecordOwn ==
    ASSUME IInv, NEW a \in Attempts, Record(a)
    PROVE  /\ row'[a].status = Verdict(a) /\ session[a].row = a
           /\ session' = [session EXCEPT ![a].pc = "audit"] /\ audited' = audited
<1> DEFINE o == session[a].of
           checked == [row EXCEPT ![a].status = Verdict(a)]
<1>1. row \in [Attempts -> Row] /\ session \in [Attempts -> Session]
    BY DEF IInv, TypeOK
<1>2. /\ session[a].row = a /\ o # a
      /\ session' = [session EXCEPT ![a].pc = "audit"] /\ audited' = audited
      /\ row' = IF MarksOriginal(a) THEN [checked EXCEPT ![o].status = "ROLLED_BACK"] ELSE checked
    <2>1. session[a].pc = "record" /\ session[a].row = a /\ o # a
        BY <1>1, NoneAssumption DEF Record, At, IInv, OwnRow, SessionFits, IsRollback
    <2> QED
        BY <2>1 DEF Record, Verdict, Goto
<1>3. checked[a].status = Verdict(a)
    BY <1>1 DEF Row
<1> HIDE DEF checked
<1> QED
    BY <1>1, <1>2, <1>3

\* An audit event is about the check that ends with it.
LEMMA AuditFrame ==
    ASSUME IInv, [Next]_vars
    PROVE  \/ audited' = audited
           \/ \E a \in Attempts :
                 /\ At(a, "audit") /\ audited' = audited \cup {Event(a)} /\ row' = row
                 /\ session[a].row = a /\ session'[a].row = a
                 /\ ~IsRollback(a) => session'[a].pc = "done"
                 /\ IsRollback(a) => session[a].of \in Attempts /\ row[session[a].of].status # "absent"
<1>1. session \in [Attempts -> Session]
    BY DEF IInv, TypeOK
<1>2. ASSUME NEW a \in Attempts, Audit(a)
      PROVE  /\ At(a, "audit") /\ audited' = audited \cup {Event(a)} /\ row' = row
             /\ session[a].row = a /\ session'[a].row = a
             /\ ~IsRollback(a) => session'[a].pc = "done"
             /\ IsRollback(a) => session[a].of \in Attempts /\ row[session[a].of].status # "absent"
    BY <1>1, <1>2 DEF Audit, At, Goto, IInv, OwnRow, SessionFits, IsRollback, Session
<1> QED
    BY <1>2 DEF Next, Step, Receive, Replay, Create, CommitCreate, Rollback, Replace, CommitRollback, Conflict,
                Record, Check, Crash, SetRollbackTarget, Approving, vars

\* A replacement has the release its target has.
LEMMA NewRows ==
    ASSUME IInv, [Next]_vars, NEW a \in Attempts, session[a].row # a, session'[a].row = a, IsRollback(a)'
    PROVE  /\ row' = [row EXCEPT ![a] = Replacement(a)] /\ session'[a].target = session[a].target
           /\ row[a] = Absent /\ session[a].target \in Attempts /\ row[session[a].target].status # "absent"
<1>1. session \in [Attempts -> Session]
    BY DEF IInv, TypeOK
<1>2. ~CommitCreate(a)
    BY <1>1, KeysAssumption DEF CommitCreate, At, IInv, SessionFits, IsRollback, Session
<1>3. Replace(a)
    <2>1. ASSUME NEW b \in Attempts, Step(b) \/ Crash(b), ~CommitCreate(a), ~Replace(a)
          PROVE  session'[a].row = session[a].row
        <3>1. CASE Create(b) \/ CommitRollback(b) \/ Conflict(b) \/ Record(b) \/ Audit(b) \/ Crash(b)
            BY <1>1, <3>1 DEF Create, CommitRollback, Conflict, Record, Audit, Crash, Goto, Session
        <3>2. CASE Rollback(b)
            BY <1>1, <3>2 DEF Rollback, Goto, Session
        <3>4. CASE \E healthy \in BOOLEAN : Check(b, healthy)
            BY <1>1, <3>4 DEF Check, Goto, Session
        <3>3. CASE b # a /\ (CommitCreate(b) \/ Replace(b))
            BY <1>1, <3>3 DEF CommitCreate, Replace, Session
        <3> QED
            BY <2>1, <3>1, <3>2, <3>3, <3>4 DEF Step
    <2>2. ASSUME NEW b \in Attempts, NEW k \in Keys, Receive(b, k) \/ Replay(b, k)
          PROVE  session'[a].row = session[a].row
        BY <1>1, <2>2 DEF Receive, Replay, Session
    <2>3. CASE session' = session
        BY <2>3
    <2> QED
        BY <1>2, <2>1, <2>2, <2>3 DEF Next, SetRollbackTarget, Approving, vars
<1> QED
    BY <1>1, <1>3, NoneAssumption DEF Replace, At, IInv, OwnRow, SessionFits, IsRollback, Session

\* A confirmed replacement stays one.
LEMMA ConfirmedStays ==
    ASSUME IInv, UncheckedFits, [Next]_vars, NEW d \in Attempts, Confirmed(d) PROVE Confirmed(d)'
<1>1. session \in [Attempts -> Session] /\ row \in [Attempts -> Row]
    BY DEF IInv, TypeOK
<1>2. PICK b \in Attempts :
        /\ session[b].of = d /\ Judged(b) /\ row[b].status \in {"HEALTHY", "ROLLED_BACK"}
        /\ row[b].release = row[row[d].target].release
        /\ row[b].environment = row[row[d].target].environment
    BY DEF Confirmed
<1>3. /\ row[d].status # "absent" /\ row[d].target \in Attempts /\ row[d].target # None
      /\ row[row[d].target].status # "absent"
    BY <1>1, <1>2, NoneAssumption DEF IInv, SessionFits, IsRollback, Row
<1>4. SessionKept(b) /\ RowKept(b) /\ RowKept(d) /\ RowKept(row[d].target)
    BY <1>3, SessionFrame, RowFrame
<1>5. row'[d].target = row[d].target
    BY <1>3, <1>4 DEF RowKept
<1>6. /\ session'[b].of = d /\ Judged(b)' /\ row'[b].status \in {"HEALTHY", "ROLLED_BACK"}
      /\ row'[b].release = row[b].release /\ row'[b].environment = row[b].environment
    BY <1>2, <1>4 DEF SessionKept, RowKept, Judged
<1>7. /\ row'[row[d].target].release = row[row[d].target].release
      /\ row'[row[d].target].environment = row[row[d].target].environment
    BY <1>3, <1>4 DEF RowKept
<1> QED
    BY <1>2, <1>5, <1>6, <1>7 DEF Confirmed

\* A healthy replacement is as its target.
LEMMA Matches ==
    ASSUME IInv, ReplacementFits, NEW a \in Attempts, NEW d \in Attempts, session[a].of = d, session[a].row = a
    PROVE  /\ row[a].release = row[row[d].target].release
           /\ row[a].environment = row[row[d].target].environment
BY NoneAssumption DEF ReplacementFits, IsRollback, IInv, SessionFits

-----------------------------------------------------------------------------
(* Verdicts and rollbacks. *)

\* Nothing is judged in the beginning.
LEMMA VerdictInit == Init => VerdictInv
BY NoneAssumption DEF Init, VerdictInv, VerdictKept, TrailFits, OneVerdict, ReplacementFits, UncheckedFits,
                      RolledBackConfirmed, Absent, Unsent, At, IsRollback

\* Every step preserves it.
LEMMA VerdictNext == ASSUME IInv, VerdictInv, [Next]_vars PROVE VerdictInv'
<1>1. session \in [Attempts -> Session] /\ row \in [Attempts -> Row]
    BY DEF IInv, TypeOK
<1>2. \A a \in Attempts : SessionKept(a) /\ RowKept(a)
    BY SessionFrame, RowFrame DEF VerdictInv
<1>3. VerdictKept'
    <2> SUFFICES ASSUME NEW a \in Attempts, session'[a].pc = "audit"
                 PROVE  row'[a].status \in {Verdict(a)', "ROLLED_BACK"}
        BY DEF VerdictKept, At
    <2>1. CASE Record(a)
        <3>1. row'[a].status = Verdict(a) /\ session'[a].healthy = session[a].healthy
            BY <1>1, <2>1, RecordOwn DEF Session
        <3> QED
            BY <3>1 DEF Verdict
    <2>2. CASE session'[a] = session[a]
        <3>1. At(a, "audit") /\ Judged(a) /\ Verdict(a)' = Verdict(a)
            BY <2>2 DEF At, Judged, Verdict, IInv, OwnRow
        <3> QED
            BY <1>2, <3>1 DEF RowKept, VerdictInv, VerdictKept
    <2> QED
        BY <1>2, <2>1, <2>2 DEF SessionKept
<1>4. TrailFits'
    <2>1. ASSUME NEW d \in Attempts, At(d, "done"), session[d].row = d PROVE (At(d, "done") /\ session[d].row = d)'
        BY <1>2, <2>1 DEF SessionKept, At
    <2>2. ASSUME NEW d \in Attempts, row[d].status # "absent" PROVE row'[d].status # "absent"
        BY <1>2, <2>2 DEF RowKept
    <2>3. CASE audited' = audited
        BY <2>1, <2>2, <2>3 DEF VerdictInv, TrailFits
    <2>4. ASSUME NEW a \in Attempts, audited' = audited \cup {Event(a)}, row' = row, session'[a].row = a,
                 session[a].row = a, ~IsRollback(a) => session'[a].pc = "done",
                 IsRollback(a) => session[a].of \in Attempts /\ row[session[a].of].status # "absent"
          PROVE  TrailFits'
        BY <2>1, <2>2, <2>4 DEF VerdictInv, TrailFits, Event, At
    <2> QED
        BY <2>3, <2>4, AuditFrame
<1>5. OneVerdict'
    <2>1. ASSUME NEW d \in Attempts, At(d, "done"), session[d].row = d
          PROVE  row'[d].status \in {row[d].status, "ROLLED_BACK"}
        BY <1>2, <2>1 DEF RowKept, Judged, At
    <2>2. CASE audited' = audited
        BY <2>1, <2>2 DEF VerdictInv, TrailFits, OneVerdict
    <2>3. ASSUME NEW a \in Attempts, At(a, "audit"), audited' = audited \cup {Event(a)}, row' = row,
                 session[a].row = a
          PROVE  OneVerdict'
        BY <2>3 DEF VerdictInv, VerdictKept, TrailFits, OneVerdict, Event, Verdict, At
    <2> QED
        BY <2>2, <2>3, AuditFrame
<1>6. ReplacementFits'
    <2> SUFFICES ASSUME NEW a \in Attempts, IsRollback(a)', session'[a].row = a
                 PROVE  /\ row'[a].release = row'[session'[a].target].release
                        /\ row'[a].environment = row'[session'[a].target].environment
        BY DEF ReplacementFits
    <2>1. CASE session[a].row = a
        <3>1. session'[a].target = session[a].target /\ IsRollback(a)
            BY <1>2, <2>1 DEF SessionKept, IsRollback
        <3>2. /\ row[a].status # "absent" /\ session[a].target \in Attempts
              /\ row[session[a].target].status # "absent"
            BY <1>1, <2>1, <3>1, NoneAssumption DEF IInv, OwnRow, SessionFits, Session
        <3> QED
            BY <1>2, <2>1, <3>1, <3>2 DEF VerdictInv, ReplacementFits, RowKept
    <2>2. CASE session[a].row # a
        <3>1. /\ row' = [row EXCEPT ![a] = Replacement(a)] /\ session'[a].target = session[a].target
              /\ row[a] = Absent /\ session[a].target \in Attempts /\ row[session[a].target].status # "absent"
            BY <2>2, NewRows
        <3>2. /\ Replacement(a).release = row[session[a].target].release
              /\ Replacement(a).environment = row[session[a].target].environment
            BY DEF Replacement, Absent
        <3>3. session[a].target # a
            BY <3>1 DEF Absent
        <3> QED
            BY <1>1, <3>1, <3>2, <3>3
    <2> QED
        BY <2>1, <2>2
<1>7. UncheckedFits'
    <2> SUFFICES ASSUME NEW a \in Attempts, session'[a].pc = "commit", IsRollback(a)', session'[a].row = None
                 PROVE  ~row'[session'[a].of].url
        BY DEF UncheckedFits, At
    <2>1. CASE session'[a] = session[a]
        <3>1. session[a].of \in Attempts /\ row[session[a].of].status # "absent" /\ ~row[session[a].of].url
            BY <1>1, <2>1 DEF VerdictInv, UncheckedFits, At, IInv, SessionFits, IsRollback, Session
        <3> QED
            BY <1>2, <2>1, <3>1 DEF RowKept
    <2>2. ~Create(a)
        BY <1>1 DEF Create, Goto, At, IInv, SessionFits, IsRollback, Session
    <2>3. CASE Rollback(a)
        BY <1>1, <2>3 DEF Rollback, Goto, At, Session
    <2>4. ~Audit(a)
        BY <1>1, NoneAssumption DEF Audit, Goto, At, IInv, OwnRow, Session
    <2> QED
        BY <1>2, <2>1, <2>2, <2>3, <2>4 DEF SessionKept
<1>8. RolledBackConfirmed'
    <2> SUFFICES ASSUME NEW d \in Attempts, row'[d].url,
                        row'[d].status = "ROLLED_BACK" \/ <<"DEPLOYMENT_ROLLED_BACK", d>> \in audited'
                 PROVE  Confirmed(d)'
        BY DEF RolledBackConfirmed
    <2>1. ASSUME NEW a \in Attempts, session[a].of = d, session[a].row = a, At(a, "audit"), session[a].healthy
          PROVE  Confirmed(d)
        <3>1. row[a].status \in {"HEALTHY", "ROLLED_BACK"}
            BY <2>1 DEF VerdictInv, VerdictKept, Verdict
        <3>2. /\ row[a].release = row[row[d].target].release
              /\ row[a].environment = row[row[d].target].environment
            BY <2>1, Matches DEF VerdictInv
        <3> QED
            BY <2>1, <3>1, <3>2 DEF Confirmed, Judged, At
    <2>2. CASE <<"DEPLOYMENT_ROLLED_BACK", d>> \in audited' \ audited
        <3>1. PICK a \in Attempts : At(a, "audit") /\ audited' = audited \cup {Event(a)} /\ session[a].row = a
            BY <2>2, AuditFrame
        <3>2. session[a].of = d /\ session[a].healthy
            BY <2>2, <3>1 DEF Event
        <3> QED
            BY <2>1, <3>1, <3>2, ConfirmedStays DEF VerdictInv
    <2>3. CASE <<"DEPLOYMENT_ROLLED_BACK", d>> \in audited
        <3>1. row[d].status # "absent"
            BY <2>3 DEF VerdictInv, TrailFits
        <3>2. row[d].url
            BY <1>2, <3>1 DEF RowKept
        <3> QED
            BY <2>3, <3>2, ConfirmedStays DEF VerdictInv, RolledBackConfirmed
    <2>4. CASE row'[d].status = "ROLLED_BACK"
        <3>1. row[d].status # "absent" /\ row[d].url
            BY <1>2, <2>4 DEF RowKept
        <3>2. CASE row[d].status = "ROLLED_BACK"
            BY <3>1, <3>2, ConfirmedStays DEF VerdictInv, RolledBackConfirmed
        <3>3. ASSUME NEW a \in Attempts, session[a].of = d, session[a].healthy, Record(a) PROVE Confirmed(d)'
            <4>1. /\ row'[a].status = "HEALTHY" /\ session[a].row = a
                  /\ session' = [session EXCEPT ![a].pc = "audit"]
                BY <3>3, RecordOwn DEF Verdict
            <4>2. session'[a].of = d /\ Judged(a)'
                BY <1>1, <3>3, <4>1 DEF Judged, Session
            <4>3. /\ row[a].release = row[row[d].target].release
                  /\ row[a].environment = row[row[d].target].environment
                BY <3>3, <4>1, Matches DEF VerdictInv
            <4>4. /\ row[a].status # "absent" /\ row[d].target \in Attempts /\ row[d].target # None
                  /\ row[row[d].target].status # "absent"
                BY <1>1, <3>3, <4>1, NoneAssumption DEF IInv, OwnRow, SessionFits, IsRollback, Row
            <4>5. /\ row'[a].release = row[a].release /\ row'[a].environment = row[a].environment
                  /\ row'[d].target = row[d].target
                  /\ row'[row[d].target].release = row[row[d].target].release
                  /\ row'[row[d].target].environment = row[row[d].target].environment
                BY <1>2, <3>1, <4>4 DEF RowKept
            <4> QED
                BY <4>1, <4>2, <4>3, <4>5 DEF Confirmed
        <3> QED
            BY <1>2, <2>4, <3>1, <3>2, <3>3 DEF RowKept
    <2> QED
        BY <2>2, <2>3, <2>4
<1> QED
    BY <1>3, <1>4, <1>5, <1>6, <1>7, <1>8 DEF VerdictInv

\* It holds in every reachable state.
LEMMA VerdictInvariance == Spec => []VerdictInv
<1>1. IInv /\ VerdictInv /\ [Next]_vars => VerdictInv'
    BY VerdictNext
<1> QED
    BY <1>1, VerdictInit, Invariance, PTL DEF Spec

\* The audit trail never contradicts itself or the registry: a deployment has
\* one verdict and keeps it until it is rolled back, however checks, rollbacks
\* and retries overtake each other.
THEOREM VerdictsAreFinal == Spec => []OneVerdict
<1>1. VerdictInv => OneVerdict
    BY DEF VerdictInv
<1> QED
    BY VerdictInvariance, <1>1, PTL

\* A checked deployment is ROLLED_BACK, in the registry or the trail, only
\* behind a confirmed replacement with its target's release.
THEOREM RolledBackIsReplaced == Spec => []RolledBackReplaced
<1>1. VerdictInv /\ IInv => RolledBackReplaced
    BY DEF VerdictInv, RolledBackConfirmed, Confirmed, Judged, RolledBackReplaced, Replaced
<1> QED
    BY VerdictInvariance, Invariance, <1>1, PTL

-----------------------------------------------------------------------------
(* Every outcome is audited. *)

\* A row to be checked has no verdict yet, and a verdict is in the trail before
\* the attempt goes on.
CheckPending == \A a \in Attempts : session[a].pc \in {"check", "record"} =>
    row[a].status \in {"IN_PROGRESS", "ROLLED_BACK"}
Outcome(a) == row[a].status # "IN_PROGRESS" /\ Event(a) \in audited
CommitAudited == \A a \in Attempts : At(a, "commit") /\ session[a].row = a => Outcome(a)

OutcomeInv == CheckPending /\ CommitAudited /\ OutcomeAudited

\* What brings an attempt before or behind its check.
LEMMA CheckFrame ==
    ASSUME IInv, [Next]_vars, NEW a \in Attempts
    PROVE  /\ session'[a].pc \in {"check", "record"} =>
                 session[a].pc \in {"check", "record"} \/ row'[a].status = "IN_PROGRESS"
           /\ session'[a].pc = "done" /\ HealthChecked(a)' =>
                 \/ session'[a] = session[a] \/ Audit(a)
                 \/ At(a, "commit") /\ session[a].row = a
                 \/ At(a, "check") /\ row' = row /\ row[a].status # "IN_PROGRESS"
<1>1. session \in [Attempts -> Session] /\ row \in [Attempts -> Row]
    BY DEF IInv, TypeOK
<1>2. CASE session'[a] = session[a]
    BY <1>2
<1>3. ASSUME NEW k \in Keys, Receive(a, k) \/ Replay(a, k)
      PROVE  session'[a].pc \in {"begin", "done"} /\ session'[a].row # a
    BY <1>1, <1>3, NoneAssumption DEF Receive, Replay, At, IInv, OwnRow, Session
<1>4. ASSUME Create(a) \/ Rollback(a)
      PROVE  session'[a].pc \in {"commit", "done", "replace"} /\ session'[a].row # a
    <2>1. session[a].row # a
        BY <1>4, NoneAssumption DEF Create, Rollback, At, IInv, OwnRow
    <2>2. CASE Create(a)
        BY <1>1, <2>1, <2>2 DEF Create, Goto, Session
    <2>3. CASE Rollback(a)
        BY <1>1, <2>1, <2>3 DEF Rollback, Goto, Session
    <2> QED
        BY <1>4, <2>2, <2>3
<1>5. ASSUME CommitCreate(a)
      PROVE  row'[a].status = "IN_PROGRESS" /\ (session'[a].pc = "done" => ~HealthChecked(a)')
    <2>1. ~IsRollback(a)' /\ session'[a].pc = AfterCreate(session[a].key)
        BY <1>1, <1>5, KeysAssumption DEF CommitCreate, At, IInv, SessionFits, IsRollback, Session
    <2>2. row'[a] = NewRow(session[a].key)
        BY <1>1, <1>5 DEF CommitCreate
    <2> QED
        BY <2>1, <2>2 DEF NewRow, AfterCreate, HealthChecked
<1>6. ASSUME Replace(a) PROVE session'[a].pc = "check" /\ row'[a].status = "IN_PROGRESS"
    <2>1. Replacement(a).status = "IN_PROGRESS"
        BY DEF Replacement, Absent
    <2> QED
        BY <1>1, <1>6, <2>1 DEF Replace, Session
<1>7. ASSUME CommitRollback(a) \/ Conflict(a)
      PROVE  At(a, "commit") /\ session'[a].pc = "done" /\ session'[a].row = session[a].row
    BY <1>1, <1>7 DEF CommitRollback, Conflict, Goto, At, Session
<1>8. ASSUME Record(a) \/ Audit(a) \/ Crash(a) PROVE session'[a].pc \in {"audit", "commit", "done", "crashed"}
                                                     /\ (session'[a].pc = "done" => Audit(a))
    BY <1>1, <1>8 DEF Record, Audit, Crash, Goto, Session
<1>9. ASSUME NEW healthy \in BOOLEAN, Check(a, healthy)
      PROVE  /\ At(a, "check")
             /\ session'[a].pc = "done" => row' = row /\ row[a].status # "IN_PROGRESS"
    BY <1>1, <1>9 DEF Check, Goto, At, IInv, OwnRow, Session
<1>10. ASSUME Step(a) \/ Crash(a), session'[a].pc = "done", HealthChecked(a)'
       PROVE  \/ Audit(a)
              \/ At(a, "commit") /\ session[a].row = a
              \/ At(a, "check") /\ row' = row /\ row[a].status # "IN_PROGRESS"
    <2>1. session'[a].row = a
        BY <1>10 DEF HealthChecked
    <2>2. CASE \E healthy \in BOOLEAN : Check(a, healthy)
        BY <1>9, <1>10, <2>2
    <2>3. CASE CommitRollback(a) \/ Conflict(a)
        BY <1>7, <2>1, <2>3
    <2>4. ~Create(a) /\ ~Rollback(a)
        BY <1>4, <2>1
    <2>5. ~CommitCreate(a) /\ ~Replace(a)
        BY <1>5, <1>6, <1>10
    <2>6. CASE Record(a) \/ Audit(a) \/ Crash(a)
        BY <1>8, <1>10, <2>6
    <2> QED
        BY <1>10, <2>2, <2>3, <2>4, <2>5, <2>6 DEF Step
<1>11. ASSUME Step(a) \/ Crash(a), session'[a].pc \in {"check", "record"}
       PROVE  session[a].pc \in {"check", "record"} \/ row'[a].status = "IN_PROGRESS"
    BY <1>4, <1>5, <1>6, <1>7, <1>8, <1>9, <1>11 DEF Step, At
<1>12. ASSUME NEW b \in Attempts, b # a, Step(b) \/ Crash(b) \/ \E k \in Keys : Receive(b, k) \/ Replay(b, k)
       PROVE  session'[a] = session[a]
    <2>1. CASE Create(b) \/ CommitRollback(b) \/ Conflict(b) \/ Record(b) \/ Audit(b) \/ Crash(b)
        BY <1>1, <1>12, <2>1 DEF Create, CommitRollback, Conflict, Record, Audit, Crash, Goto
    <2>2. CASE Rollback(b) \/ CommitCreate(b) \/ Replace(b)
        BY <1>1, <1>12, <2>2 DEF Rollback, CommitCreate, Replace, Goto
    <2>3. CASE \E healthy \in BOOLEAN : Check(b, healthy)
        BY <1>1, <1>12, <2>3 DEF Check, Goto
    <2>4. CASE \E k \in Keys : Receive(b, k) \/ Replay(b, k)
        BY <1>1, <1>12, <2>4 DEF Receive, Replay
    <2> QED
        BY <1>12, <2>1, <2>2, <2>3, <2>4 DEF Step
<1>13. CASE session' = session
    BY <1>13
<1> QED
    BY <1>2, <1>3, <1>10, <1>11, <1>12, <1>13 DEF Next, SetRollbackTarget, Approving, vars, HealthChecked

\* Until its check is recorded, a row is only overwritten by ROLLED_BACK.
LEMMA PendingFrame ==
    ASSUME IInv, [Next]_vars, NEW d \in Attempts, session[d].pc \in {"check", "record"}, ~Record(d)
    PROVE  row'[d].status \in {row[d].status, "ROLLED_BACK"}
<1>1. row \in [Attempts -> Row] /\ session \in [Attempts -> Session]
    BY DEF IInv, TypeOK
<1>2. ASSUME NEW a \in Attempts, CommitCreate(a) \/ Replace(a) PROVE row'[d] = row[d]
    BY <1>1, <1>2 DEF CommitCreate, Replace, At
<1>3. ASSUME NEW a \in Attempts, CommitRollback(a), row' # row PROVE row'[d].status \in {row[d].status, "ROLLED_BACK"}
    <2>1. a # d /\ session[a].of # a /\ session[a].of \in Attempts
        BY <1>1, <1>3 DEF CommitRollback, At, IInv, SessionFits, IsRollback, Session
    <2> DEFINE copy == [row[session[a].of] EXCEPT !.status = "IN_PROGRESS", !.approval = None, !.target = session[a].of]
    <2>2. row' = [row EXCEPT ![a] = copy, ![session[a].of].status = "ROLLED_BACK"]
        BY <1>3 DEF CommitRollback
    <2> HIDE DEF copy
    <2> QED
        BY <1>1, <2>1, <2>2
<1>4. ASSUME NEW a \in Attempts, a # d, Record(a) PROVE row'[d].status \in {row[d].status, "ROLLED_BACK"}
    <2>1. session[a].row = a
        BY <1>4 DEF Record, At, IInv, OwnRow
    <2>2. CASE MarksOriginal(a)
        BY <1>1, <1>4, <2>1, <2>2 DEF Record
    <2>3. CASE ~MarksOriginal(a)
        BY <1>1, <1>4, <2>1, <2>3 DEF Record
    <2> QED
        BY <2>2, <2>3
<1>5. ASSUME NEW b \in Attempts, NEW t \in Attempts, SetRollbackTarget(b, t) PROVE row'[d].status = row[d].status
    BY <1>1, <1>5 DEF SetRollbackTarget
<1>6. ASSUME NEW a \in Attempts, NEW k \in Keys, Receive(a, k) \/ Replay(a, k) PROVE row' = row
    BY <1>6 DEF Receive, Replay
<1>7. ASSUME NEW a \in Attempts, Step(a) \/ Crash(a) PROVE row'[d].status \in {row[d].status, "ROLLED_BACK"}
    BY <1>2, <1>3, <1>4, <1>7 DEF Step, Crash, Create, Rollback, Conflict, Check, Audit
<1> QED
    BY <1>5, <1>6, <1>7 DEF Next, Approving, vars

\* Nothing is checked in the beginning.
LEMMA OutcomeInit == Init => OutcomeInv
BY NoneAssumption DEF Init, OutcomeInv, CheckPending, CommitAudited, OutcomeAudited, Unsent, At, HealthChecked

\* Every step preserves it.
LEMMA OutcomeNext == ASSUME IInv, VerdictInv, OutcomeInv, [Next]_vars PROVE OutcomeInv'
<1>1. session \in [Attempts -> Session] /\ row \in [Attempts -> Row]
    BY DEF IInv, TypeOK
<1>2. \A a \in Attempts : SessionKept(a) /\ RowKept(a)
    BY SessionFrame, RowFrame DEF VerdictInv
<1>3. audited \subseteq audited'
    BY AuditFrame
<1>4. CheckPending'
    <2> SUFFICES ASSUME NEW a \in Attempts, session'[a].pc \in {"check", "record"}
                 PROVE  row'[a].status \in {"IN_PROGRESS", "ROLLED_BACK"}
        BY DEF CheckPending
    <2>1. CASE session[a].pc \in {"check", "record"} /\ ~Record(a)
        BY <1>2, <2>1, PendingFrame DEF OutcomeInv, CheckPending
    <2>2. ~Record(a)
        <3>1. ASSUME Record(a) PROVE session'[a].pc = "audit"
            BY <1>1, <3>1 DEF Record, Goto, Session
        <3> QED
            BY <3>1
    <2> QED
        BY <2>1, <2>2, CheckFrame
<1>5. ASSUME NEW a \in Attempts, Audit(a) PROVE Outcome(a)'
    <2>1. /\ At(a, "audit") /\ row' = row /\ Event(a) \in audited'
          /\ session'[a].row = session[a].row /\ session'[a].of = session[a].of
          /\ session'[a].healthy = session[a].healthy
        BY <1>1, <1>5 DEF Audit, Goto, At, Session
    <2>2. Event(a)' = Event(a)
        BY <2>1 DEF Event, IsRollback
    <2>3. row[a].status # "IN_PROGRESS"
        BY <2>1 DEF VerdictInv, VerdictKept, Verdict
    <2> QED
        BY <2>1, <2>2, <2>3 DEF Outcome
<1>6. ASSUME NEW a \in Attempts, Outcome(a), Judged(a) PROVE Outcome(a)'
    <2>1. Event(a)' = Event(a)
        BY <1>2, <1>6 DEF SessionKept, Judged, Event, IsRollback
    <2> QED
        BY <1>2, <1>3, <1>6, <2>1 DEF Outcome, RowKept
<1>7. CommitAudited'
    <2> SUFFICES ASSUME NEW a \in Attempts, session'[a].pc = "commit", session'[a].row = a PROVE Outcome(a)'
        BY DEF CommitAudited, At
    <2>1. CASE session'[a] = session[a]
        BY <1>6, <2>1 DEF OutcomeInv, CommitAudited, At, Judged
    <2>2. ~Create(a) /\ ~Rollback(a)
        <3>1. ASSUME At(a, "begin") PROVE session[a].row = None /\ session[a].row # a
            BY <3>1, NoneAssumption DEF At, IInv, OwnRow
        <3>2. ASSUME Create(a) PROVE FALSE
            BY <1>1, <3>1, <3>2 DEF Create, Goto, Session
        <3>3. ASSUME Rollback(a) PROVE FALSE
            BY <1>1, <3>1, <3>3 DEF Rollback, Goto, Session
        <3> QED
            BY <3>2, <3>3
    <2> QED
        BY <1>2, <1>5, <2>1, <2>2 DEF SessionKept
<1>8. OutcomeAudited'
    <2> SUFFICES ASSUME NEW a \in Attempts, session'[a].pc = "done", HealthChecked(a)'
                 PROVE  Outcome(a)' \/ row'[a].status = "ROLLED_BACK"
        BY DEF OutcomeAudited, At, Outcome
    <2>1. CASE session'[a] = session[a]
        <3>1. At(a, "done") /\ session[a].row = a /\ Judged(a) /\ row[a].status # "absent"
            BY <2>1 DEF At, HealthChecked, Judged, IInv, OwnRow
        <3>2. HealthChecked(a)
            BY <1>2, <2>1, <3>1 DEF HealthChecked, IsRollback, RowKept
        <3>3. Outcome(a) \/ row[a].status = "ROLLED_BACK"
            BY <3>1, <3>2 DEF OutcomeInv, OutcomeAudited, Outcome
        <3> QED
            BY <1>2, <1>6, <3>1, <3>3 DEF RowKept
    <2>2. CASE At(a, "commit") /\ session[a].row = a
        BY <1>6, <2>2 DEF OutcomeInv, CommitAudited, Judged, At
    <2>3. CASE At(a, "check") /\ row' = row /\ row[a].status # "IN_PROGRESS"
        BY <2>3 DEF OutcomeInv, CheckPending, At
    <2> QED
        BY <1>5, <2>1, <2>2, <2>3, CheckFrame
<1> QED
    BY <1>4, <1>7, <1>8 DEF OutcomeInv

\* An attempt that ended without dying leaves its verdict in the trail, unless
\* a rollback overtook the check.
THEOREM OutcomesAreAudited == Spec => []OutcomeAudited
<1>1. IInv /\ VerdictInv /\ OutcomeInv /\ [Next]_vars => OutcomeInv'
    BY OutcomeNext
<1>2. OutcomeInv => OutcomeAudited
    BY DEF OutcomeInv
<1> QED
    BY <1>1, <1>2, OutcomeInit, VerdictInvariance, Invariance, PTL DEF Spec
=============================================================================
