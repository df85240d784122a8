-------------------------- MODULE DeploymentsProofs --------------------------
(***************************************************************************)
(* IInv is an inductive invariant of Deployments, for any attempts, keys,  *)
(* requests and releases; the approval of production follows.              *)
(***************************************************************************)
EXTENDS Deployments, TLAPS

\* The initial states satisfy the inductive invariant.
LEMMA InitInv == Init => IInv
<1> SUFFICES ASSUME Init PROVE IInv
    OBVIOUS
<1>1. Absent \in Row /\ Absent.status = "absent" /\ Unsent \in Session
    BY DEF Absent, Row, Unsent, Session
<1>2. TypeOK
    BY <1>1 DEF Init, TypeOK, Approval!TypeOK, Approval!Init
<1>3. OwnRow /\ SessionFits /\ GatePassed
    BY NoneAssumption DEF Init, OwnRow, SessionFits, GatePassed, At, IsRollback, Unsent
<1>4. ResultFits /\ BodyKept /\ ProductionApproved /\ OneDeploymentPerKey
    BY <1>1 DEF Init, ResultFits, BodyKept, ProductionApproved, OneDeploymentPerKey, Created
<1>5. TargetsExist
    BY DEF Init, TargetsExist, Absent
<1> QED
    BY <1>2, <1>3, <1>4, <1>5 DEF IInv

\* An attempt moves on: its row exists as before, and what it has learnt
\* fits its key.
LEMMA MoveInv ==
    ASSUME IInv, NEW a \in Attempts, NEW s \in Session,
           session' = [session EXCEPT ![a] = s],
           UNCHANGED <<approvals, row, result>>, audited' \subseteq Events \X Attempts,
           s.key = session[a].key \/ (session[a].key = None /\ row[a] = Absent),
           OwnRow', SessionFits', GatePassed'
    PROVE  IInv'
<1>1. TypeOK'
    BY DEF IInv, TypeOK, approvals, Approval!TypeOK
<1>2. \A d \in Attempts : Created(d)' = Created(d)
    BY NoneAssumption, KeysAssumption DEF IInv, TypeOK, Created, Absent, Keys, BodyKept, Row
<1>3. \A d \in Attempts : row[d].status # "absent" => session'[d].key = session[d].key
    BY DEF IInv, TypeOK, Absent
<1>4. ResultFits'
    BY <1>3, NoneAssumption DEF IInv, TypeOK, ResultFits
<1>5. BodyKept' /\ OneDeploymentPerKey'
    BY <1>2, <1>3 DEF IInv, BodyKept, OneDeploymentPerKey, Created
<1>6. ProductionApproved'
    BY <1>2 DEF IInv, ProductionApproved, approvals
<1> QED
    BY <1>1, <1>4, <1>5, <1>6 DEF IInv, TargetsExist

\* Steps that only move an attempt.
LEMMA SessionSteps ==
    ASSUME IInv, NEW a \in Attempts,
           \/ \E k \in Keys : Receive(a, k) \/ Replay(a, k)
           \/ Conflict(a) \/ Create(a) \/ Rollback(a) \/ Audit(a) \/ Crash(a)
           \/ \E healthy \in BOOLEAN : Check(a, healthy)
    PROVE  IInv'
<1> DEFINE s == session'[a]
<1>1. /\ session \in [Attempts -> Session] /\ row \in [Attempts -> Row]
      /\ result \in [Keys -> Attempts \cup {None}] /\ audited \subseteq Events \X Attempts
    BY DEF IInv, TypeOK
<1>2. ASSUME NEW k \in Keys, Receive(a, k) \/ Replay(a, k) PROVE IInv'
    <2>1. /\ s \in Session /\ session' = [session EXCEPT ![a] = s]
          /\ s.key = k /\ s.pc \in {"begin", "done"} /\ s.row = session[a].row /\ s.of = session[a].of
          /\ session[a].pc = "unsent"
          /\ UNCHANGED <<approvals, row, result, audited>>
        BY <1>1, <1>2 DEF Receive, Replay, At, Session
    <2>2. /\ row[a] = Absent /\ s.row = None /\ s.of = None /\ session[a].key = None
        BY <2>1, <1>1 DEF IInv, OwnRow, SessionFits, At
    <2>3. OwnRow'
        BY <2>1, <2>2, <1>1, NoneAssumption DEF IInv, OwnRow, At
    <2>4. SessionFits'
        BY <2>1, <2>2, <1>1, NoneAssumption DEF IInv, SessionFits, At, IsRollback
    <2>5. GatePassed'
        BY <2>1, <2>2, <1>1, NoneAssumption DEF IInv, GatePassed, At, approvals
    <2> QED
        BY <2>1, <2>2, <2>3, <2>4, <2>5, <1>1, MoveInv
<1>3. ASSUME Conflict(a) \/ Create(a) \/ Audit(a) \/ Crash(a) \/ (\E healthy \in BOOLEAN : Check(a, healthy))
      PROVE  IInv'
    <2>1. /\ s \in Session /\ session' = [session EXCEPT ![a] = s]
          /\ s.key = session[a].key /\ s.row = session[a].row
          /\ s.of = session[a].of /\ s.target = session[a].target
          /\ session[a].pc \notin {"unsent", "done", "crashed"}
          /\ UNCHANGED <<approvals, row, result>> /\ audited' \subseteq Events \X Attempts
        <3>1. CASE Audit(a)
            <4>1. Event(a) \in Events \X Attempts
                BY <3>1, <1>1, NoneAssumption DEF Audit, Event, Events, IsRollback, Session, IInv, OwnRow, At
            <4> QED
                BY <4>1, <3>1, <1>1 DEF Audit, Goto, At, Session
        <3>2. CASE ~Audit(a)
            BY <3>2, <1>1, <1>3 DEF Conflict, Create, Crash, Check, Goto, At, Session
        <3> QED
            BY <3>1, <3>2
    <2>2. \/ s.pc \in {"done", "crashed"}
          \/ Create(a) /\ s.pc = "commit" /\ Admitted(session[a].key)
          \/ Audit(a) /\ s.pc = "commit" /\ IsRollback(a)
          \/ s.pc = "record" /\ session[a].pc = "check"
        BY <1>1, <1>3 DEF Conflict, Create, Crash, Check, Audit, Goto, At, Session
    <2>3. OwnRow'
        BY <2>1, <2>2, <1>1, NoneAssumption DEF IInv, OwnRow, At, Create, Audit
    <2>4. SessionFits'
        BY <2>1, <2>2, <1>1, NoneAssumption, KeysAssumption
           DEF IInv, SessionFits, OwnRow, At, IsRollback, Create, Audit, Keys
    <2>5. GatePassed'
        BY <2>1, <2>2, <1>1, NoneAssumption, KeysAssumption
           DEF IInv, GatePassed, SessionFits, At, approvals, Create, Audit, Admitted, Approved, IsRollback
    <2> QED
        BY <2>1, <2>3, <2>4, <2>5, <1>1, MoveInv
<1>4. ASSUME Rollback(a) PROVE IInv'
    <2>1. /\ session[a].pc = "begin" /\ session[a].key \in Rollbacks
          /\ UNCHANGED <<approvals, row, result, audited>>
        BY <1>4 DEF Rollback, At
    <2> DEFINE d == result[DeploymentOf[session[a].key]]
    <2>2. /\ s \in Session /\ session' = [session EXCEPT ![a] = s]
          /\ s.key = session[a].key /\ s.row = session[a].row
          /\ \/ s.pc = "done" /\ s.of = session[a].of
             \/ /\ s.pc \in {"replace", "commit"} /\ d # None
                /\ s.of = d /\ row[d].target # None /\ s.target = row[d].target
        <3>1. d \in Attempts \cup {None} /\ (d # None => row[d].target \in Attempts \cup {None})
            BY <1>1, <2>1, KeysAssumption DEF Row
        <3>2. CASE d = None \/ row[d].target = None
            <4>1. session' = [session EXCEPT ![a].pc = "done"]
                BY <1>4, <3>1, <3>2 DEF Rollback, Goto
            <4> QED
                BY <1>1, <4>1 DEF Session
        <3>3. CASE d # None /\ row[d].target # None
            <4>1. PICK pc \in {"replace", "commit"} :
                      session' = [session EXCEPT ![a].pc = pc, ![a].of = d, ![a].target = row[d].target]
                BY <1>4, <3>1, <3>3 DEF Rollback
            <4> DEFINE t == row[d].target
            <4> HIDE DEF d
            <4> HIDE DEF t
            <4>2. d \in Attempts \cup {None} /\ t \in Attempts \cup {None}
                BY <3>1, <3>3 DEF t
            <4>3. session' = [session EXCEPT ![a].pc = pc, ![a].of = d, ![a].target = t]
                BY <4>1 DEF t
            <4>4. s = [session[a] EXCEPT !.pc = pc, !.of = d, !.target = t]
                BY <1>1, <4>3
            <4>5. session' = [session EXCEPT ![a] = s]
                BY <1>1, <4>3
            <4>6. s \in Session /\ s.key = session[a].key /\ s.row = session[a].row
                  /\ s.pc = pc /\ s.of = d /\ s.target = t
                <5> HIDE DEF s
                <5> QED BY <1>1, <4>2, <4>4 DEF Session
            <4> QED
                BY <3>3, <4>5, <4>6 DEF t
        <3> QED
            BY <3>2, <3>3
    <2>3. /\ row[a] = Absent /\ s.row = None /\ session[a].of = None
        BY <2>1, <2>2 DEF IInv, OwnRow, SessionFits, At
    <2>4. ASSUME d # None
          PROVE  d \in Attempts /\ d # a /\ row[d].status # "absent"
        BY <2>1, <2>3, <2>4, <1>1, KeysAssumption, NoneAssumption DEF IInv, ResultFits, Absent, Keys
    <2>5. ASSUME d # None, row[d].target # None PROVE row[row[d].target].status # "absent"
        BY <2>4, <2>5 DEF IInv, TargetsExist
    <2>6. OwnRow'
        BY <2>1, <2>2, <2>3, <1>1, NoneAssumption DEF IInv, OwnRow, At
    <2>7. SessionFits'
        BY <2>1, <2>2, <2>3, <2>4, <2>5, <1>1, NoneAssumption, KeysAssumption
           DEF IInv, SessionFits, At, IsRollback
    <2>8. GatePassed'
        BY <2>1, <2>2, <1>1, NoneAssumption, KeysAssumption DEF IInv, GatePassed, At, approvals
    <2> QED
        BY <2>1, <2>2, <2>6, <2>7, <2>8, <1>1, MoveInv
<1> QED
    BY <1>2, <1>3, <1>4

\* Rows of d as another attempt's step leaves them.
Kept(d) ==
    /\ row'[d].status = "absent" <=> row[d].status = "absent"
    /\ row'[d].release = row[d].release /\ row'[d].environment = row[d].environment
    /\ row'[d].approval = row[d].approval /\ row'[d].url = row[d].url
    /\ row[d].target # None => row'[d].target = row[d].target
    /\ row'[d].target # None => row'[row'[d].target].status # "absent"
    /\ row[d] = Absent => row'[d] = Absent

\* A row holds the body of a create.
Holds(r, k) == r.environment = EnvironmentOf[k] /\ r.approval = ApprovalOf[k] /\ r.url = HasUrl[k]

\* An attempt inserts its row: under a create's key the body that passed the
\* gate, and under a rollback's the release and environment of a row there is.
LEMMA InsertInv ==
    ASSUME IInv, NEW a \in Attempts, NEW s \in Session, s.key = session[a].key, s.key # None,
           session' = [session EXCEPT ![a] = s], UNCHANGED <<approvals, audited>>,
           row[a] = Absent, row' \in [Attempts -> Row], row'[a].status # "absent",
           \A d \in Attempts \ {a} : Kept(d),
           row'[a].target # None => row'[row'[a].target].status # "absent",
           \/ result' = [result EXCEPT ![s.key] = a] /\ result[s.key] = None
           \/ UNCHANGED result /\ s.key \in Rollbacks,
           s.key \in Creates =>
               /\ result'[s.key] = a
               /\ Holds(row'[a], s.key)
               /\ row'[a].environment = "production" =>
                     row'[a].approval \in ProductionRequests /\ decision[row'[a].approval] = "APPROVED",
           s.key \in Rollbacks => \E t \in Attempts :
               /\ row[t].status # "absent"
               /\ row'[a].release = row[t].release /\ row'[a].environment = row[t].environment,
           OwnRow', SessionFits', GatePassed'
    PROVE  IInv'
<1>1. /\ session \in [Attempts -> Session] /\ row \in [Attempts -> Row]
      /\ result \in [Keys -> Attempts \cup {None}] /\ s.key \in Keys /\ Absent.status = "absent"
      /\ Absent.target = None
    BY DEF IInv, TypeOK, Session, Absent
<1>2. TypeOK'
    BY <1>1 DEF IInv, TypeOK, approvals, Approval!TypeOK
<1>3. \A d \in Attempts \ {a} : Created(d)' = Created(d) /\ session'[d] = session[d]
    BY <1>1 DEF Created, Kept
<1>4. Created(a)' = (s.key \in Creates) /\ session'[a].key = s.key
    BY <1>1 DEF Created
<1>5. ResultFits'
    <2> SUFFICES ASSUME NEW k \in Keys, result'[k] # None
                 PROVE  session'[result'[k]].key = k /\ row'[result'[k]].status # "absent"
        BY DEF ResultFits
    <2>1. CASE result'[k] = a
        BY <2>1, <1>1, <1>4 DEF IInv, ResultFits
    <2>2. CASE result'[k] # a
        BY <2>2, <1>1, <1>3 DEF IInv, ResultFits, Kept
    <2> QED
        BY <2>1, <2>2
<1>6. BodyKept'
    <2> SUFFICES ASSUME NEW d \in Attempts, Created(d)'
                 PROVE  (result[session[d].key] = d
                         /\ row[d].environment = EnvironmentOf[session[d].key]
                         /\ row[d].approval = ApprovalOf[session[d].key]
                         /\ row[d].url = HasUrl[session[d].key])'
        BY DEF BodyKept
    <2>1. CASE d = a
        BY <2>1, <1>1, <1>4 DEF Holds
    <2>2. CASE d # a
        <3>1. Created(d) /\ session'[d] = session[d] /\ Kept(d)
            BY <2>2, <1>3
        <3>2. result[session[d].key] = d /\ session[d].key \in Keys
            BY <3>1 DEF IInv, BodyKept, Created, Keys
        <3>3. result'[session[d].key] = d
            BY <3>1, <3>2, <2>2, <1>1, KeysAssumption, NoneAssumption DEF Created
        <3> QED
            BY <3>1, <3>3 DEF IInv, BodyKept, Kept
    <2> QED
        BY <2>1, <2>2
<1>7. TargetsExist'
    BY <1>1 DEF TargetsExist, Kept
<1>8. OneDeploymentPerKey'
    BY <1>6 DEF BodyKept, OneDeploymentPerKey
<1>9. ProductionApproved'
    <2> SUFFICES ASSUME NEW d \in Attempts, row'[d].status # "absent", row'[d].environment = "production"
                 PROVE  \E c \in Attempts : (/\ Created(c) /\ (Created(d) => c = d)
                             /\ row[c].release = row[d].release /\ row[c].environment = "production"
                             /\ row[c].approval \in ProductionRequests
                             /\ decision[row[c].approval] = "APPROVED")'
        BY DEF ProductionApproved
    <2> DEFINE Origin(c, r) ==
                   /\ Created(c) /\ row[c].release = r /\ row[c].environment = "production"
                   /\ row[c].approval \in ProductionRequests /\ decision[row[c].approval] = "APPROVED"
    <2>1. \A t \in Attempts : row[t].status # "absent" /\ row[t].environment = "production" =>
              \E c \in Attempts : (Created(t) => c = t) /\ Origin(c, row[t].release)
        BY DEF IInv, ProductionApproved
    <2>2. ASSUME NEW c \in Attempts, NEW r, Origin(c, r) PROVE c # a /\ Origin(c, r)'
        <3>1. c # a
            BY <2>2, <1>1 DEF Created
        <3> QED
            BY <2>2, <3>1, <1>3 DEF Kept, approvals
    <2>3. CASE d # a
        <3>1. row[d].status # "absent" /\ row[d].environment = "production" /\ row'[d].release = row[d].release
            BY <2>3 DEF Kept
        <3> QED
            BY <2>1, <2>2, <2>3, <3>1, <1>3
    <2>4. CASE d = a /\ s.key \in Creates
        BY <2>4, <1>4 DEF approvals
    <2>5. CASE d = a /\ s.key \in Rollbacks
        <3>1. PICK t \in Attempts : /\ row[t].status # "absent"
                                    /\ row'[a].release = row[t].release /\ row'[a].environment = row[t].environment
            BY <2>5
        <3>2. ~Created(a)'
            BY <2>5, <1>4, KeysAssumption
        <3> QED
            BY <2>1, <2>2, <2>5, <3>1, <3>2
    <2> QED
        BY <2>3, <2>4, <2>5, <1>1 DEF Keys
<1> QED
    BY <1>2, <1>5, <1>6, <1>7, <1>8, <1>9 DEF IInv

\* A step on rows that are there: statuses and rollback_targets.
LEMMA UpdateInv ==
    ASSUME IInv, NEW a \in Attempts, NEW s \in Session, s.key = session[a].key,
           session' = [session EXCEPT ![a] = s], UNCHANGED <<approvals, audited>>,
           row' \in [Attempts -> Row], \A d \in Attempts : Kept(d),
           UNCHANGED result \/ (result[s.key] = None /\ result' = [result EXCEPT ![s.key] = a]
                                /\ row[a].status # "absent" /\ s.key \in Rollbacks),
           OwnRow', SessionFits', GatePassed'
    PROVE  IInv'
<1>1. /\ session \in [Attempts -> Session] /\ row \in [Attempts -> Row]
      /\ result \in [Keys -> Attempts \cup {None}]
    BY DEF IInv, TypeOK
<1>2. TypeOK'
    BY <1>1 DEF IInv, TypeOK, approvals, Approval!TypeOK
<1>3. \A d \in Attempts : Created(d)' = Created(d) /\ session'[d].key = session[d].key
    BY <1>1 DEF Created, Kept
<1>4. ResultFits'
    BY <1>1, <1>3, NoneAssumption DEF IInv, ResultFits, Kept, Keys
<1>5. BodyKept' /\ OneDeploymentPerKey'
    <2>1. ASSUME NEW d \in Attempts, Created(d)
          PROVE  result'[session[d].key] = result[session[d].key]
        BY <1>1, <2>1, KeysAssumption DEF Created, Keys
    <2> QED
        BY <1>3, <2>1 DEF IInv, BodyKept, OneDeploymentPerKey, Kept
<1>6. TargetsExist'
    BY DEF TargetsExist, Kept
<1>7. ProductionApproved'
    BY <1>3 DEF IInv, ProductionApproved, Kept, approvals
<1> QED
    BY <1>2, <1>4, <1>5, <1>6, <1>7 DEF IInv

\* POST /deployments commits.
LEMMA CommitCreateInv == ASSUME IInv, NEW a \in Attempts, CommitCreate(a) PROVE IInv'
<1> DEFINE s == [session[a] EXCEPT !.pc = AfterCreate(session[a].key), !.row = a]
           k == session[a].key
<1>1. /\ session \in [Attempts -> Session] /\ row \in [Attempts -> Row]
      /\ result \in [Keys -> Attempts \cup {None}]
    BY DEF IInv, TypeOK
<1>2. /\ session[a].pc = "commit" /\ k \in Creates /\ k \notin Rollbacks /\ k # None /\ result[k] = None
      /\ result' = [result EXCEPT ![k] = a] /\ row' = [row EXCEPT ![a] = NewRow(k)]
      /\ UNCHANGED <<approvals, audited>>
    BY KeysAssumption, NoneAssumption DEF CommitCreate, KeyFree, Remembered, At, Keys
<1>3. /\ session' = [session EXCEPT ![a] = s] /\ s \in Session /\ s.key = k /\ s.row = a
      /\ s.pc \in {"check", "done"} /\ s.of = session[a].of /\ s.target = session[a].target
    BY <1>1 DEF CommitCreate, AfterCreate, Session
<1>4. /\ row[a] = Absent /\ session[a].row = None /\ session[a].of = None
    BY <1>2 DEF IInv, OwnRow, SessionFits, At, IsRollback
<1>5. /\ NewRow(k) \in Row /\ NewRow(k).status = "IN_PROGRESS" /\ NewRow(k).target = None
      /\ NewRow(k).release = ReleaseOf[k] /\ NewRow(k).environment = EnvironmentOf[k]
      /\ NewRow(k).approval = ApprovalOf[k] /\ NewRow(k).url = HasUrl[k]
    BY <1>2, KeysAssumption DEF NewRow, Row
<1>6. Absent.status = "absent" /\ Absent.target = None
    BY DEF Absent
<1>7. /\ row' \in [Attempts -> Row] /\ row'[a] = NewRow(k)
      /\ \A d \in Attempts \ {a} : Kept(d)
    <2>1. row' \in [Attempts -> Row] /\ row'[a] = NewRow(k) /\ \A d \in Attempts \ {a} : row'[d] = row[d]
        BY <1>1, <1>2, <1>5
    <2>2. ASSUME NEW d \in Attempts \ {a}, row[d].target # None PROVE row'[row[d].target].status # "absent"
        BY <1>4, <1>6, <2>1, <2>2, <1>1 DEF IInv, TargetsExist, Row
    <2> QED
        BY <2>1, <2>2 DEF Kept
<1>8. EnvironmentOf[k] = "production" =>
          ApprovalOf[k] \in ProductionRequests /\ decision[ApprovalOf[k]] = "APPROVED"
    BY <1>2 DEF IInv, GatePassed, At
<1> HIDE DEF s
<1>9. OwnRow'
    BY <1>1, <1>2, <1>3, <1>5, <1>7, NoneAssumption DEF IInv, OwnRow, At
<1>10. SessionFits'
    BY <1>1, <1>2, <1>3, <1>4, <1>5, <1>6, <1>7, NoneAssumption DEF IInv, SessionFits, At, IsRollback, Row
<1>11. GatePassed'
    BY <1>1, <1>2, <1>3, NoneAssumption DEF IInv, GatePassed, At, approvals
<1>12. /\ s.key = session[a].key /\ s.key # None /\ UNCHANGED <<approvals, audited>>
       /\ row'[a].status # "absent" /\ (row'[a].target # None => row'[row'[a].target].status # "absent")
       /\ result' = [result EXCEPT ![s.key] = a] /\ result[s.key] = None
       /\ s.key \notin Rollbacks
    BY <1>2, <1>3, <1>5, <1>7
<1>13. /\ result'[s.key] = a
       /\ Holds(row'[a], s.key)
       /\ row'[a].environment = "production" =>
             row'[a].approval \in ProductionRequests /\ decision[row'[a].approval] = "APPROVED"
    BY <1>1, <1>2, <1>3, <1>5, <1>7, <1>8 DEF Keys, Holds
<1> HIDE DEF k
<1>14. s.key \in Rollbacks => \E t \in Attempts :
          /\ row[t].status # "absent"
          /\ row'[a].release = row[t].release /\ row'[a].environment = row[t].environment
    BY <1>12
<1>15. session' = [session EXCEPT ![a] = s] /\ s \in Session
    BY <1>3
<1>16. row[a] = Absent
    BY <1>4
<1>17. row' \in [Attempts -> Row] /\ \A d \in Attempts \ {a} : Kept(d)
    BY <1>7
<1> QED
    BY <1>9, <1>10, <1>11, <1>12, <1>13, <1>14, <1>15, <1>16, <1>17, InsertInv

\* rollbackDeployment inserts the replacement.
LEMMA ReplaceInv == ASSUME IInv, NEW a \in Attempts, Replace(a) PROVE IInv'
<1> DEFINE s == [session[a] EXCEPT !.pc = "check", !.row = a]
           t == session[a].target
<1>1. /\ session \in [Attempts -> Session] /\ row \in [Attempts -> Row]
    BY DEF IInv, TypeOK
<1>2. /\ session[a].pc = "replace" /\ row' = [row EXCEPT ![a] = Replacement(a)]
      /\ UNCHANGED <<approvals, result, audited>>
    BY DEF Replace, At
<1>3. /\ session' = [session EXCEPT ![a] = s] /\ s \in Session /\ s.key = session[a].key /\ s.row = a
      /\ s.pc = "check" /\ s.of = session[a].of /\ s.target = session[a].target
    BY <1>1 DEF Replace, Session
<1>4. /\ row[a] = Absent /\ session[a].of # None /\ s.key \in Rollbacks /\ s.key \notin Creates /\ s.key # None
      /\ t \in Attempts /\ row[t].status # "absent"
    BY <1>1, <1>2, <1>3, KeysAssumption, NoneAssumption DEF IInv, OwnRow, SessionFits, At, IsRollback, Session, Keys
<1>5. /\ Replacement(a) \in Row /\ Replacement(a).status = "IN_PROGRESS" /\ Replacement(a).target = None
      /\ Replacement(a).release = row[t].release /\ Replacement(a).environment = row[t].environment
    BY <1>1, <1>4 DEF Replacement, Absent, Row
<1>6. Absent.status = "absent" /\ Absent.target = None
    BY DEF Absent
<1>7. /\ row' \in [Attempts -> Row] /\ row'[a] = Replacement(a)
      /\ \A d \in Attempts \ {a} : Kept(d)
    <2>1. row' \in [Attempts -> Row] /\ row'[a] = Replacement(a) /\ \A d \in Attempts \ {a} : row'[d] = row[d]
        BY <1>1, <1>2, <1>5
    <2>2. ASSUME NEW d \in Attempts \ {a}, row[d].target # None PROVE row'[row[d].target].status # "absent"
        BY <1>4, <1>6, <2>1, <2>2, <1>1 DEF IInv, TargetsExist, Row
    <2> QED
        BY <2>1, <2>2 DEF Kept
<1> HIDE DEF s
<1>8. OwnRow'
    BY <1>1, <1>2, <1>3, <1>5, <1>7, NoneAssumption DEF IInv, OwnRow, At
<1>9. SessionFits'
    BY <1>1, <1>2, <1>3, <1>4, <1>5, <1>6, <1>7, NoneAssumption DEF IInv, SessionFits, At, IsRollback, Row, Kept
<1>10. GatePassed'
    BY <1>1, <1>2, <1>3, <1>4, NoneAssumption DEF IInv, GatePassed, At, approvals
<1>11. /\ UNCHANGED <<approvals, audited>> /\ UNCHANGED result
       /\ row'[a].status # "absent" /\ (row'[a].target # None => row'[row'[a].target].status # "absent")
       /\ row'[a].release = row[t].release /\ row'[a].environment = row[t].environment
    BY <1>2, <1>5, <1>7
<1> HIDE DEF t
<1> QED
    BY <1>3, <1>4, <1>7, <1>8, <1>9, <1>10, <1>11, InsertInv

\* POST /deployments/{id}/rollback commits: the key alone for a rollback whose
\* transactions are done, and otherwise the copy and the mark as well.
LEMMA CommitRollbackInv == ASSUME IInv, NEW a \in Attempts, CommitRollback(a) PROVE IInv'
<1> DEFINE s == [session[a] EXCEPT !.pc = "done"]
           k == session[a].key
           o == session[a].of
           copy == [row[o] EXCEPT !.status = "IN_PROGRESS", !.approval = None, !.target = o]
           marked == [row[o] EXCEPT !.status = "ROLLED_BACK"]
<1>1. /\ session \in [Attempts -> Session] /\ row \in [Attempts -> Row]
      /\ result \in [Keys -> Attempts \cup {None}]
    BY DEF IInv, TypeOK
<1>2. /\ session[a].pc = "commit" /\ k \in Rollbacks /\ k \notin Creates /\ k # None /\ result[k] = None
      /\ result' = [result EXCEPT ![k] = a] /\ UNCHANGED <<approvals, audited>>
    BY KeysAssumption, NoneAssumption DEF CommitRollback, KeyFree, Remembered, At, Keys
<1>3. /\ session' = [session EXCEPT ![a] = s] /\ s \in Session /\ s.key = k /\ s.row = session[a].row
      /\ s.pc = "done" /\ s.of = o /\ s.target = session[a].target
    BY <1>1 DEF CommitRollback, Goto, Session
<1>4. /\ o \in Attempts /\ o # a /\ row[o].status # "absent" /\ row[o].target # None
      /\ row[row[o].target].status # "absent"
      /\ session[a].row \in {None, a}
    BY <1>1, <1>2 DEF IInv, OwnRow, SessionFits, At, IsRollback, Session
<1>5. GatePassed'
    BY <1>1, <1>2, <1>3, NoneAssumption DEF IInv, GatePassed, At, approvals
<1>6. CASE session[a].row # None
    <2>1. UNCHANGED row /\ row[a].status # "absent"
        BY <1>4, <1>6 DEF CommitRollback, IInv, OwnRow
    <2>2. OwnRow'
        BY <1>1, <1>2, <1>3, <1>6, <2>1, NoneAssumption DEF IInv, OwnRow, At
    <2>3. SessionFits'
        BY <1>1, <1>2, <1>3, <2>1, NoneAssumption DEF IInv, SessionFits, At, IsRollback
    <2>4. \A d \in Attempts : Kept(d)
        BY <2>1 DEF Kept, IInv, TargetsExist
    <2> HIDE DEF s
    <2> QED
        BY <1>1, <1>2, <1>3, <1>5, <2>1, <2>2, <2>3, <2>4, UpdateInv
<1>7. CASE session[a].row = None
    <2>1. row' = [row EXCEPT ![a] = copy, ![o].status = "ROLLED_BACK"]
        BY <1>7 DEF CommitRollback
    <2>2. row[a] = Absent
        BY <1>2, <1>7 DEF IInv, OwnRow, At
    <2>3. /\ copy \in Row /\ copy.status = "IN_PROGRESS" /\ copy.target = o
          /\ copy.release = row[o].release /\ copy.environment = row[o].environment
        BY <1>1, <1>4 DEF Row
    <2>4. /\ marked \in Row /\ marked.status = "ROLLED_BACK" /\ marked.target = row[o].target
          /\ marked.release = row[o].release /\ marked.environment = row[o].environment
          /\ marked.approval = row[o].approval /\ marked.url = row[o].url
        BY <1>1, <1>4 DEF Row
    <2>5. row' = [row EXCEPT ![a] = copy, ![o] = marked]
        BY <1>1, <1>4, <2>1
    <2>6. Absent.status = "absent" /\ Absent.target = None
        BY DEF Absent
    <2> HIDE DEF s, copy, marked
    <2>7. /\ row' \in [Attempts -> Row] /\ row'[a] = copy /\ row'[o] = marked
          /\ \A d \in Attempts \ {a, o} : row'[d] = row[d]
        BY <1>1, <1>4, <2>3, <2>4, <2>5
    <2>8. \A d \in Attempts : row'[d].status = "absent" => row[d].status = "absent"
        BY <2>3, <2>4, <2>7
    <2>9. \A d \in Attempts \ {a} : Kept(d)
        <3>1. ASSUME NEW d \in Attempts, row[d].target # None PROVE row'[row[d].target].status # "absent"
            BY <2>8, <3>1, <1>1 DEF IInv, TargetsExist, Row
        <3> QED
            BY <3>1, <1>4, <2>4, <2>6, <2>7 DEF Kept
    <2>10. OwnRow'
        BY <1>1, <1>2, <1>3, <1>7, <2>9, NoneAssumption DEF IInv, OwnRow, At, Kept
    <2>11. SessionFits'
        <3>1. ASSUME NEW b \in Attempts, b # a, IsRollback(b)
              PROVE  /\ row'[session[b].of].status # "absent" /\ row'[session[b].of].target = session[b].target
                     /\ row'[session[b].target].status # "absent"
            <4>1. /\ session[b].of \in Attempts /\ row[session[b].of].status # "absent"
                  /\ session[b].target \in Attempts /\ row[session[b].of].target = session[b].target
                  /\ row[session[b].target].status # "absent"
                BY <1>1, <3>1 DEF IInv, SessionFits, IsRollback, Session
            <4> QED
                BY <4>1, <2>2, <2>6, <2>8, <2>9, NoneAssumption DEF Kept
        <3>2. /\ row'[o].status # "absent" /\ row'[o].target = session[a].target
              /\ row'[session[a].target].status # "absent" /\ session[a].target # None
            BY <1>1, <1>4, <2>8, <2>9, NoneAssumption DEF IInv, SessionFits, IsRollback, Session, Kept
        <3> QED
            BY <1>1, <1>2, <1>3, <1>4, <3>1, <3>2, NoneAssumption DEF IInv, SessionFits, At, IsRollback
    <2>12. /\ row'[a].status # "absent" /\ (row'[a].target # None => row'[row'[a].target].status # "absent")
           /\ row'[a].release = row[o].release /\ row'[a].environment = row[o].environment
        BY <1>4, <2>3, <2>4, <2>7
    <2>13. /\ s.key = session[a].key /\ s.key # None /\ s.key \in Rollbacks /\ s.key \notin Creates
           /\ result' = [result EXCEPT ![s.key] = a] /\ result[s.key] = None /\ UNCHANGED <<approvals, audited>>
        BY <1>2, <1>3
    <2> HIDE DEF k, o
    <2> QED
        BY <1>3, <1>4, <1>5, <2>2, <2>7, <2>9, <2>10, <2>11, <2>12, <2>13, InsertInv
<1> QED
    BY <1>6, <1>7

\* Setting the status of a row leaves the rest of the table as it was.
LEMMA StatusSet ==
    ASSUME NEW f \in [Attempts -> Row], NEW d \in Attempts, NEW v \in {"HEALTHY", "FAILED", "ROLLED_BACK"},
           NEW g, g = [f EXCEPT ![d].status = v]
    PROVE  /\ g \in [Attempts -> Row] /\ \A b \in Attempts \ {d} : g[b] = f[b]
           /\ g[d].status = v /\ g[d].release = f[d].release /\ g[d].environment = f[d].environment
           /\ g[d].approval = f[d].approval /\ g[d].url = f[d].url /\ g[d].target = f[d].target
<1> DEFINE u == [f[d] EXCEPT !.status = v]
<1>1. /\ u \in Row /\ u.status = v /\ u.release = f[d].release /\ u.environment = f[d].environment
      /\ u.approval = f[d].approval /\ u.url = f[d].url /\ u.target = f[d].target
    BY DEF Row
<1>2. g = [f EXCEPT ![d] = u]
    OBVIOUS
<1> HIDE DEF u
<1>3. g \in [Attempts -> Row] /\ g[d] = u /\ \A b \in Attempts \ {d} : g[b] = f[b]
    BY <1>1, <1>2
<1> QED
    BY <1>1, <1>3

\* A verdict is recorded, and a confirmed replacement's original marked.
LEMMA RecordInv == ASSUME IInv, NEW a \in Attempts, Record(a) PROVE IInv'
<1> DEFINE s == [session[a] EXCEPT !.pc = "audit"]
           o == session[a].of
<1>1. /\ session \in [Attempts -> Session] /\ row \in [Attempts -> Row]
    BY DEF IInv, TypeOK
<1>2. /\ session[a].pc = "record" /\ session[a].row = a /\ row[a].status # "absent"
      /\ UNCHANGED <<approvals, result, audited>>
      /\ o = None \/ (o \in Attempts /\ row[o].status # "absent")
    BY <1>1 DEF Record, At, IInv, OwnRow, SessionFits, IsRollback, Session
<1>3. /\ session' = [session EXCEPT ![a] = s] /\ s \in Session /\ s.key = session[a].key /\ s.row = a
      /\ s.pc = "audit" /\ s.of = o /\ s.target = session[a].target
    BY <1>1, <1>2 DEF Record, Goto, Session
<1>4. \E v \in {"HEALTHY", "FAILED"} :
          LET checked == [row EXCEPT ![a].status = v]
          IN row' = IF MarksOriginal(a) THEN [checked EXCEPT ![o].status = "ROLLED_BACK"] ELSE checked
    <2>1. CASE session[a].healthy
        BY <1>2, <2>1 DEF Record
    <2>2. CASE ~session[a].healthy
        BY <1>2, <2>2 DEF Record
    <2> QED
        BY <2>1, <2>2
<1>5. Absent.status = "absent"
    BY DEF Absent
<1>8. /\ row' \in [Attempts -> Row]
      /\ \A d \in Attempts :
            /\ row'[d].release = row[d].release /\ row'[d].environment = row[d].environment
            /\ row'[d].approval = row[d].approval /\ row'[d].url = row[d].url /\ row'[d].target = row[d].target
            /\ row'[d].status = "absent" <=> row[d].status = "absent"
            /\ row[d].status = "absent" => row'[d] = row[d]
    <2>1. PICK v \in {"HEALTHY", "FAILED"} :
              LET checked == [row EXCEPT ![a].status = v]
              IN row' = IF MarksOriginal(a) THEN [checked EXCEPT ![o].status = "ROLLED_BACK"] ELSE checked
        BY <1>4
    <2> DEFINE checked == [row EXCEPT ![a].status = v]
               marked == [checked EXCEPT ![o].status = "ROLLED_BACK"]
    <2>2. /\ checked \in [Attempts -> Row] /\ \A b \in Attempts \ {a} : checked[b] = row[b]
          /\ checked[a].status = v /\ checked[a].release = row[a].release /\ checked[a].environment = row[a].environment
          /\ checked[a].approval = row[a].approval /\ checked[a].url = row[a].url
          /\ checked[a].target = row[a].target
        <3>1. checked = [row EXCEPT ![a].status = v]
            OBVIOUS
        <3> HIDE DEF checked
        <3> QED
            BY <1>1, <3>1, StatusSet
    <2>3. CASE ~MarksOriginal(a)
        <3>1. row' = checked
            BY <2>1, <2>3
        <3> HIDE DEF checked
        <3> QED
            BY <1>2, <2>2, <3>1
    <2>4. CASE MarksOriginal(a)
        <3>1. row' = marked /\ o \in Attempts /\ row[o].status # "absent"
            BY <1>2, <2>1, <2>4 DEF MarksOriginal, IsRollback
        <3> HIDE DEF checked
        <3>2. /\ marked \in [Attempts -> Row] /\ \A b \in Attempts \ {o} : marked[b] = checked[b]
              /\ marked[o].status = "ROLLED_BACK" /\ marked[o].release = checked[o].release
              /\ marked[o].environment = checked[o].environment
              /\ marked[o].approval = checked[o].approval /\ marked[o].url = checked[o].url
              /\ marked[o].target = checked[o].target
            BY <2>2, StatusSet, <3>1
        <3> HIDE DEF marked
        <3> QED
            BY <1>2, <2>2, <3>1, <3>2
    <2> QED
        BY <2>3, <2>4
<1>9. \A d \in Attempts : Kept(d)
    BY <1>1, <1>5, <1>8 DEF Kept, IInv, TargetsExist, Row
<1> HIDE DEF s
<1>10. OwnRow'
    BY <1>1, <1>2, <1>3, <1>5, <1>8, NoneAssumption DEF IInv, OwnRow, At
<1>11. SessionFits'
    BY <1>1, <1>2, <1>3, <1>8, NoneAssumption DEF IInv, SessionFits, At, IsRollback, Session
<1>12. GatePassed'
    BY <1>1, <1>2, <1>3, NoneAssumption DEF IInv, GatePassed, At, approvals
<1> QED
    BY <1>2, <1>3, <1>8, <1>9, <1>10, <1>11, <1>12, UpdateInv

\* A rollback_target is recorded.
LEMMA TargetInv ==
    ASSUME IInv, NEW d \in Attempts, NEW t \in Attempts, SetRollbackTarget(d, t) PROVE IInv'
<1> DEFINE u == [row[d] EXCEPT !.target = t]
<1>1. /\ session \in [Attempts -> Session] /\ row \in [Attempts -> Row]
    BY DEF IInv, TypeOK
<1>2. /\ row[d].status # "absent" /\ row[t].status # "absent" /\ row[d].target = None
      /\ row' = [row EXCEPT ![d] = u] /\ UNCHANGED <<approvals, result, session, audited>>
    BY DEF SetRollbackTarget
<1>3. /\ u \in Row /\ u.target = t /\ u.status = row[d].status /\ u.release = row[d].release
      /\ u.environment = row[d].environment /\ u.approval = row[d].approval /\ u.url = row[d].url
    BY <1>1 DEF Row
<1> HIDE DEF u
<1>4. /\ row' \in [Attempts -> Row] /\ row'[d] = u /\ \A b \in Attempts \ {d} : row'[b] = row[b]
    BY <1>1, <1>2, <1>3
<1>5. Absent.status = "absent"
    BY DEF Absent
<1>6. \A b \in Attempts : Kept(b)
    BY <1>1, <1>2, <1>3, <1>4, <1>5, NoneAssumption DEF Kept, IInv, TargetsExist, Row
<1>7. session' = [session EXCEPT ![d] = session[d]] /\ session[d] \in Session
    BY <1>1, <1>2
<1>8. OwnRow'
    BY <1>1, <1>2, <1>6 DEF IInv, OwnRow, At, Kept
<1>9. SessionFits'
    BY <1>1, <1>2, <1>6, NoneAssumption DEF IInv, SessionFits, At, IsRollback, Kept, Session
<1>10. GatePassed'
    BY <1>2 DEF IInv, GatePassed, At, approvals
<1> QED
    BY <1>2, <1>4, <1>6, <1>7, <1>8, <1>9, <1>10, UpdateInv

\* The approval requests move: an approval stays APPROVED.
LEMMA ApprovingInv == ASSUME IInv, Approving PROVE IInv'
<1>1. Approval!TypeOK /\ UNCHANGED <<row, result, session, audited>>
    BY DEF Approving, IInv, TypeOK
<1>2. Approval!TypeOK'
    BY <1>1 DEF Approving, Approval!Next, Approval!TypeOK, Approval!Create, Approval!Elapse,
               Approval!Settle, Approval!Verdicts
<1>3. \A r \in Requests : decision[r] = "APPROVED" => decision'[r] = "APPROVED"
    BY <1>1 DEF Approving, Approval!Next, Approval!TypeOK, Approval!Create, Approval!Elapse, Approval!Settle
<1>4. TypeOK' /\ OwnRow' /\ SessionFits' /\ ResultFits' /\ BodyKept' /\ TargetsExist' /\ OneDeploymentPerKey'
    BY <1>1, <1>2 DEF IInv, TypeOK, OwnRow, SessionFits, ResultFits, BodyKept, TargetsExist,
                      OneDeploymentPerKey, Created, At, IsRollback
<1>5. GatePassed'
    BY <1>1, <1>3, KeysAssumption DEF IInv, GatePassed, At
<1>6. ProductionApproved'
    BY <1>1, <1>3, KeysAssumption DEF IInv, ProductionApproved, Created
<1> QED
    BY <1>4, <1>5, <1>6 DEF IInv

\* Every step preserves the inductive invariant.
LEMMA NextInv == IInv /\ [Next]_vars => IInv'
<1> SUFFICES ASSUME IInv, [Next]_vars PROVE IInv'
    OBVIOUS
<1>1. CASE \E a \in Attempts, k \in Keys : Receive(a, k) \/ Replay(a, k)
    BY <1>1, SessionSteps
<1>2. ASSUME NEW a \in Attempts, Step(a) \/ Crash(a) PROVE IInv'
    BY <1>2, SessionSteps, CommitCreateInv, ReplaceInv, CommitRollbackInv, RecordInv DEF Step
<1>3. CASE \E d, t \in Attempts : SetRollbackTarget(d, t)
    BY <1>3, TargetInv
<1>4. CASE Approving
    BY <1>4, ApprovingInv
<1>5. CASE UNCHANGED vars
    BY <1>5 DEF vars, approvals, IInv, TypeOK, Approval!TypeOK, OwnRow, SessionFits, ResultFits, BodyKept,
                TargetsExist, GatePassed, ProductionApproved, OneDeploymentPerKey, Created, At, IsRollback
<1> QED
    BY <1>1, <1>2, <1>3, <1>4, <1>5 DEF Next

\* The inductive invariant holds in every reachable state: in particular an
\* attempt inserts and checks no row but its own, and a committed create holds
\* the body sent under its key.
THEOREM Invariance == Spec => []IInv
BY InitInv, NextInv, PTL DEF Spec

\* Type correctness, for any attempts, keys and requests.
THEOREM TypeCorrectness == Spec => []TypeOK
<1>1. IInv => TypeOK
    BY DEF IInv
<1> QED
    BY Invariance, <1>1, PTL

\* Every deployment in production goes back to a create with an APPROVED
\* request for production, through any chain of rollbacks.
THEOREM ProductionIsApproved == Spec => []ProductionApproved
<1>1. IInv => ProductionApproved
    BY DEF IInv
<1> QED
    BY Invariance, <1>1, PTL

\* Retries of one create leave one deployment.
THEOREM CreatedOnce == Spec => []OneDeploymentPerKey
<1>1. IInv => OneDeploymentPerKey
    BY DEF IInv
<1> QED
    BY Invariance, <1>1, PTL
=============================================================================
