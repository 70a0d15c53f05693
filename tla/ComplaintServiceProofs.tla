------------------------ MODULE ComplaintServiceProofs ------------------------
(***************************************************************************)
(* What ComplaintService guarantees for every set of requests and of       *)
(* complaint ids.                                                          *)
(***************************************************************************)
EXTENDS ComplaintService, TLAPS

\* Which statements a kind of request executes, and when it has answered.
Control ==
  \A r \in Req :
    /\ pc[r] \in {"triage", "insert"} => op[r].kind = "create"
    /\ pc[r] \in {"select", "check"} => op[r].kind = "change"
    /\ pc[r] = "read" => op[r].kind = "get"
    /\ pc[r] \in {"commit", "invalidate"} => op[r].kind # "get"
    /\ resp[r] # 0 => pc[r] = "done"
    /\ r \in committed => pc[r] \in {"invalidate", "done", "crashed"}
    /\ op[r].kind = "create" => seen[r] = Absent
    /\ resp[r] = 409 => op[r].kind = "change"
    /\ resp[r] = 200 /\ op[r].kind = "get" => seen[r] # Absent
    /\ pc[r] = "invalidate" => r \in committed

\* What a request that committed, and one that answered, knows.
Ledger ==
  /\ FreshIds(op)
  /\ \A r \in Req :
       /\ op[r].kind = "create" => op[r].target = "open"
       /\ op[r].kind = "create" /\ r \notin committed => row[op[r].id] = Absent
       /\ r \in committed => op[r].kind # "get" /\ row[op[r].id] \in Reachable(op[r].target)
       /\ r \in committed /\ op[r].kind = "change" =>
            seen[r] \in Status /\ can_transition(seen[r], op[r].target)
       /\ resp[r] \in {404, 409} => r \notin committed
       /\ resp[r] \in {200, 201} /\ op[r].kind # "get" => r \in invalidated
  /\ invalidated \subseteq committed

IInv == TypeOK /\ LockDiscipline /\ Control /\ Ledger /\ OneWinnerPerStatus

----------------------------------------------------------------------------
\* The life cycle has no cycle: a status, once left, is not reached again, and a
\* further move stays within what was reachable (domain.py:36-41).
LEMMA Acyclic ==
  ASSUME NEW s \in Status, NEW t \in TRANSITIONS[s]
  PROVE  t \in Status /\ s \notin Reachable(t)
BY DEF Status, TRANSITIONS, Reachable

LEMMA ReachableStep ==
  ASSUME NEW s \in Status, NEW t \in Reachable(s), NEW u \in TRANSITIONS[t]
  PROVE  t \in Status /\ u \in Reachable(s)
BY DEF Status, TRANSITIONS, Reachable

LEMMA ReachableSelf ==
  ASSUME NEW s \in Status
  PROVE  s \in Reachable(s) /\ s # Absent /\ Reachable(s) \subseteq Status
BY DEF Status, TRANSITIONS, Reachable, Absent

\* The statements of one request, without the stutter of Terminated.
Act(r) == Step(r) \/ CommitReplyLost(r) \/ Fail(r) \/ Crash(r) \/ AbortOrphan(r)

LEMMA NextIsAct == ASSUME Next PROVE (\E r \in Req : Act(r)) \/ UNCHANGED vars
BY DEF Next, Act, Terminated

LEMMA InitEstablishes == Init => IInv
<1> SUFFICES ASSUME Init PROVE IInv
  OBVIOUS
<1> USE DEF Init
<1>1. TypeOK
  BY DEF TypeOK, PC, Live, Code
<1>2. LockDiscipline
  BY <1>1 DEF LockDiscipline, Holding, At, TypeOK
<1>3. Control
  BY <1>1 DEF Control, TypeOK
<1>4. Ledger
  BY <1>1 DEF Ledger, TypeOK
<1>5. OneWinnerPerStatus
  BY DEF OneWinnerPerStatus
<1> QED BY <1>1, <1>2, <1>3, <1>4, <1>5 DEF IInv

LEMMA TypeStep == ASSUME TypeOK, NEW r \in Req, Act(r) PROVE TypeOK'
<1> USE DEF TypeOK, Op, Goto, Answer, At, Release, PC, Live, Code, db
<1>1. CASE Begin(r)      BY <1>1 DEF Begin, First
<1>2. CASE Triage(r)     BY <1>2 DEF Triage
<1>3. CASE Insert(r)     BY <1>3 DEF Insert
<1>4. CASE SelectForUpdate(r)
  <2>1. CASE row[op[r].id] = Absent
    BY <1>4, <2>1 DEF SelectForUpdate
  <2>2. CASE row[op[r].id] # Absent
    BY <1>4, <2>2 DEF SelectForUpdate
  <2> QED BY <2>1, <2>2
<1>5. CASE SetStatus(r)  BY <1>5 DEF SetStatus
<1>6. CASE RefuseMove(r) BY <1>6 DEF RefuseMove
<1>7. CASE Commit(r)     BY <1>7 DEF Commit, Commits
<1>8. CASE CommitReplyLost(r) BY <1>8 DEF CommitReplyLost, Commits
<1>9. CASE Invalidate(r) BY <1>9 DEF Invalidate
<1>10. CASE Get(r)       BY <1>10 DEF Get
<1>11. CASE Fail(r)      BY <1>11 DEF Fail
<1>12. CASE Crash(r)     BY <1>12 DEF Crash
<1>13. CASE AbortOrphan(r) BY <1>13 DEF AbortOrphan
<1> QED
  BY <1>1, <1>2, <1>3, <1>4, <1>5, <1>6, <1>7, <1>8, <1>9, <1>10, <1>11, <1>12, <1>13
  DEF Act, Step

LEMMA ControlStep == ASSUME TypeOK, Control, NEW r \in Req, Act(r) PROVE Control'
<1> USE DEF TypeOK, Op, Control, Goto, Answer, At, db
<1>1. CASE Begin(r)      BY <1>1 DEF Begin, First
<1>2. CASE Triage(r)     BY <1>2 DEF Triage
<1>3. CASE Insert(r)     BY <1>3 DEF Insert
<1>4. CASE SelectForUpdate(r)
  <2>1. CASE row[op[r].id] = Absent
    BY <1>4, <2>1 DEF SelectForUpdate
  <2>2. CASE row[op[r].id] # Absent
    BY <1>4, <2>2 DEF SelectForUpdate
  <2> QED BY <2>1, <2>2
<1>5. CASE SetStatus(r)  BY <1>5 DEF SetStatus
<1>6. CASE RefuseMove(r) BY <1>6 DEF RefuseMove
<1>7. CASE Commit(r)     BY <1>7 DEF Commit, Commits
<1>8. CASE CommitReplyLost(r) BY <1>8 DEF CommitReplyLost, Commits
<1>9. CASE Invalidate(r) BY <1>9 DEF Invalidate
<1>10. CASE Get(r)       BY <1>10 DEF Get
<1>11. CASE Fail(r)      BY <1>11 DEF Fail
<1>12. CASE Crash(r)     BY <1>12 DEF Crash, Live
<1>13. CASE AbortOrphan(r) BY <1>13 DEF AbortOrphan
<1> QED
  BY <1>1, <1>2, <1>3, <1>4, <1>5, <1>6, <1>7, <1>8, <1>9, <1>10, <1>11, <1>12, <1>13
  DEF Act, Step

\* Only a request that holds the row's lock, or creates the row, writes it.
LEMMA CommitsOwnRow ==
  ASSUME IInv, NEW r \in Req, Commits(r)
  PROVE  \/ /\ op[r].kind = "create" /\ row[op[r].id] = Absent
            /\ op[r].target = "open" /\ lock[op[r].id] = None
         \/ /\ op[r].kind = "change" /\ lock[op[r].id] = r
            /\ row[op[r].id] = seen[r] /\ seen[r] \in Status
            /\ op[r].target \in TRANSITIONS[seen[r]]
<1> USE DEF IInv, TypeOK, Op, Commits
<1>1. op[r].id \in Id /\ op[r].kind \in {"create", "change"} /\ r \notin committed
  BY DEF Control
<1>2. CASE op[r].kind = "create"
  BY <1>1, <1>2 DEF Ledger, LockDiscipline
<1>3. CASE op[r].kind = "change"
  BY <1>1, <1>3, NoneAssumption DEF LockDiscipline, Holding, At, can_transition
<1> QED BY <1>1, <1>2, <1>3

LEMMA LockStep == ASSUME IInv, NEW r \in Req, Act(r) PROVE LockDiscipline'
<1> USE NoneAssumption DEF TypeOK, Op, Goto, Answer, At, Holding, Release, LockDiscipline, db
<1>0. TypeOK /\ Control /\ LockDiscipline
  BY DEF IInv
<1>1. CASE Begin(r)      BY <1>0, <1>1 DEF Begin, First
<1>2. CASE Triage(r)     BY <1>0, <1>2 DEF Triage
<1>3. CASE Insert(r)     BY <1>0, <1>3 DEF Insert
<1>4. CASE SelectForUpdate(r)
  <2>1. CASE row[op[r].id] = Absent
    BY <1>0, <1>4, <2>1 DEF SelectForUpdate
  <2>2. CASE row[op[r].id] # Absent
    BY <1>0, <1>4, <2>2 DEF SelectForUpdate
  <2> QED BY <2>1, <2>2
<1>5. CASE SetStatus(r)  BY <1>0, <1>5 DEF SetStatus
<1>6. CASE RefuseMove(r) BY <1>0, <1>6 DEF RefuseMove
<1>7. ASSUME Commits(r), NEW next \in {"invalidate", "done"}, pc' = [pc EXCEPT ![r] = next]
      PROVE  LockDiscipline'
  <2>1. /\ op' = op /\ seen' = seen /\ op[r].id \in Id
        /\ row' = [row EXCEPT ![op[r].id] = op[r].target]
        /\ lock' = [i \in Id |-> IF lock[i] = r THEN None ELSE lock[i]]
    BY <1>0, <1>7 DEF Commits
  <2>2. \A i \in Id : lock'[i] # None => lock'[i] = lock[i] /\ lock[i] # r /\ i # op[r].id
    BY <1>0, <1>7, <2>1, CommitsOwnRow
  <2>3. ASSUME NEW q \in Req, Holding(q)' PROVE lock'[op'[q].id] = q
    <3>1. q # r /\ Holding(q)
      BY <1>0, <1>7, <2>1, <2>3
    <3> QED BY <1>0, <2>1, <3>1
  <2>4. ASSUME NEW i \in Id, lock'[i] # None, NEW q \in Req, q = lock'[i]
        PROVE  /\ op'[q].kind = "change" /\ op'[q].id = i
               /\ pc'[q] = "crashed" \/ Holding(q)'
               /\ row'[i] = seen'[q] /\ row'[i] # Absent
               /\ pc'[q] = "commit" => can_transition(seen'[q], op'[q].target)
    <3>1. q = lock[i] /\ q # r /\ i # op[r].id
      BY <2>2, <2>4
    <3>2. row[i] = seen[q] /\ row[i] # Absent /\ op[q].kind = "change" /\ op[q].id = i
      BY <1>0, <2>4, <3>1
    <3>3. pc[q] = "crashed" \/ Holding(q)
      BY <1>0, <2>4, <3>1
    <3>4. pc[q] = "commit" => can_transition(seen[q], op[q].target)
      BY <1>0, <2>4, <3>1
    <3>5. pc'[q] = pc[q] /\ row'[i] = row[i] /\ seen'[q] = seen[q] /\ op'[q] = op[q]
      BY <1>0, <1>7, <2>1, <3>1
    <3> QED BY <3>2, <3>3, <3>4, <3>5
  <2>5. \A i \in Id : lock'[i] # None => lock'[i] \in Req
    BY <1>0, <2>2
  <2> QED BY <2>3, <2>4, <2>5
<1>8. CASE Commit(r) \/ CommitReplyLost(r)
  BY <1>7, <1>8 DEF Commit, CommitReplyLost
<1>9. CASE Invalidate(r) BY <1>0, <1>9 DEF Invalidate
<1>10. CASE Get(r)       BY <1>0, <1>10 DEF Get
<1>11. CASE Fail(r)      BY <1>0, <1>11 DEF Fail
<1>12. CASE Crash(r)     BY <1>0, <1>12 DEF Crash, Live
<1>13. CASE AbortOrphan(r) BY <1>0, <1>13 DEF AbortOrphan
<1> QED
  BY <1>1, <1>2, <1>3, <1>4, <1>5, <1>6, <1>8, <1>9, <1>10, <1>11, <1>12, <1>13
  DEF Act, Step

\* A step other than a commit writes no row and commits nothing.
LEMMA OnlyCommitsWrite ==
  ASSUME NEW r \in Req, Act(r)
  PROVE  /\ op' = op
         /\ Commits(r) \/ (row' = row /\ committed' = committed)
BY DEF Act, Step, Begin, Triage, Insert, SelectForUpdate, SetStatus, RefuseMove, Commit,
  CommitReplyLost, Commits, Invalidate, Get, Fail, Crash, AbortOrphan, db

\* seen changes only at the SELECT of a request that has not committed.
LEMMA SeenIsSettled ==
  ASSUME IInv, NEW r \in Req, Act(r), NEW q \in Req, pc[q] \in {"check", "commit", "invalidate", "done", "crashed"}
  PROVE  seen'[q] = seen[q]
BY DEF IInv, TypeOK, Act, Step, Begin, Triage, Insert, SelectForUpdate, SetStatus, RefuseMove, Commit,
  CommitReplyLost, Commits, Invalidate, Get, Fail, Crash, AbortOrphan, At, db

LEMMA LedgerStep == ASSUME IInv, NEW r \in Req, Act(r) PROVE Ledger'
<1>0. TypeOK /\ Control /\ Ledger /\ TypeOK' /\ op' = op
  BY TypeStep, OnlyCommitsWrite DEF IInv
<1>1. FreshIds(op)' /\ \A q \in Req : op'[q].kind = "create" => op'[q].target = "open"
  BY <1>0 DEF Ledger, FreshIds
<1>2. ASSUME NEW q \in Req
      PROVE  op'[q].kind = "create" /\ q \notin committed' => row'[op'[q].id] = Absent
  <2>1. CASE Commits(r)
    <3> SUFFICES ASSUME op[q].kind = "create", q \notin committed', q # r
                 PROVE  row'[op[q].id] = Absent
      BY <1>0, <2>1 DEF Commits
    <3>1. row[op[q].id] = Absent
      BY <1>0, <2>1 DEF Ledger, Commits
    <3>2. op[q].id # op[r].id
      BY <1>0, <2>1, <3>1, CommitsOwnRow DEF Ledger, FreshIds, Status, Absent
    <3> QED BY <1>0, <2>1, <3>1, <3>2 DEF Commits, TypeOK, Op
  <2>2. CASE row' = row /\ committed' = committed
    BY <1>0, <2>2 DEF Ledger
  <2> QED BY <2>1, <2>2, OnlyCommitsWrite
<1>3. ASSUME NEW q \in Req, q \in committed'
      PROVE  op'[q].kind # "get" /\ row'[op'[q].id] \in Reachable(op'[q].target)
  <2>1. CASE Commits(r)
    <3>1. op[q].id \in Id /\ op[q].target \in Status /\ op[r].id \in Id /\ op[r].target \in Status
      BY <1>0 DEF TypeOK, Op
    <3>2. CASE q = r
      BY <1>0, <2>1, <3>1, <3>2, ReachableSelf, CommitsOwnRow DEF Commits, TypeOK
    <3>3. CASE q # r
      <4>1. q \in committed /\ op[q].kind # "get" /\ row[op[q].id] \in Reachable(op[q].target)
        BY <1>0, <1>3, <2>1, <3>3 DEF Ledger, Commits
      <4>2. CASE op[q].id # op[r].id
        BY <1>0, <2>1, <3>1, <4>1, <4>2 DEF Commits, TypeOK
      <4>3. CASE op[q].id = op[r].id
        <5>1. row[op[r].id] # Absent
          BY <3>1, <4>1, <4>3, ReachableSelf DEF Status, Absent
        <5>2. op[r].target \in TRANSITIONS[row[op[r].id]]
          BY <2>1, <5>1, CommitsOwnRow
        <5>3. op[r].target \in Reachable(op[q].target)
          BY <3>1, <4>1, <4>3, <5>2, ReachableStep
        <5> QED BY <1>0, <2>1, <3>1, <4>1, <4>3, <5>3 DEF Commits, TypeOK
      <4> QED BY <4>2, <4>3
    <3> QED BY <3>2, <3>3
  <2>2. CASE row' = row /\ committed' = committed
    BY <1>0, <1>3, <2>2 DEF Ledger
  <2> QED BY <2>1, <2>2, OnlyCommitsWrite
<1>4. ASSUME NEW q \in Req, q \in committed', op'[q].kind = "change"
      PROVE  seen'[q] \in Status /\ can_transition(seen'[q], op'[q].target)
  <2>1. CASE q \in committed
    <3>1. seen'[q] = seen[q]
      BY <1>0, <2>1, SeenIsSettled DEF Control
    <3> QED BY <1>0, <1>4, <2>1, <3>1 DEF Ledger
  <2>2. CASE q \notin committed
    <3>1. Commits(r) /\ q = r
      BY <1>4, <2>2, OnlyCommitsWrite DEF Commits
    <3> QED BY <1>0, <1>4, <3>1, CommitsOwnRow DEF Commits, can_transition
  <2> QED BY <2>1, <2>2
<1>5. \A q \in Req :
        /\ resp'[q] \in {404, 409} => q \notin committed'
        /\ resp'[q] \in {200, 201} /\ op'[q].kind # "get" => q \in invalidated'
  <2> USE <1>0 DEF TypeOK, Op, Control, Ledger, Goto, Answer, At, db
  <2>1. CASE Begin(r)      BY <2>1 DEF Begin
  <2>2. CASE Triage(r)     BY <2>2 DEF Triage
  <2>3. CASE Insert(r)     BY <2>3 DEF Insert
  <2>4. CASE SelectForUpdate(r)
    <3>1. CASE row[op[r].id] = Absent
      BY <2>4, <3>1 DEF SelectForUpdate
    <3>2. CASE row[op[r].id] # Absent
      BY <2>4, <3>2 DEF SelectForUpdate
    <3> QED BY <3>1, <3>2
  <2>5. CASE SetStatus(r)  BY <2>5 DEF SetStatus
  <2>6. CASE RefuseMove(r) BY <2>6 DEF RefuseMove
  <2>7. CASE Commit(r)     BY <2>7 DEF Commit, Commits
  <2>8. CASE CommitReplyLost(r) BY <2>8 DEF CommitReplyLost, Commits
  <2>9. CASE Invalidate(r) BY <2>9 DEF Invalidate
  <2>10. CASE Get(r)       BY <2>10 DEF Get
  <2>11. CASE Fail(r)      BY <2>11 DEF Fail
  <2>12. CASE Crash(r)     BY <2>12 DEF Crash
  <2>13. CASE AbortOrphan(r) BY <2>13 DEF AbortOrphan
  <2> QED
    BY <2>1, <2>2, <2>3, <2>4, <2>5, <2>6, <2>7, <2>8, <2>9, <2>10, <2>11, <2>12, <2>13
    DEF Act, Step
<1>6. (invalidated \subseteq committed)'
  BY <1>0 DEF Act, Step, Begin, Triage, Insert, SelectForUpdate, SetStatus, RefuseMove, Commit,
    CommitReplyLost, Commits, Invalidate, Get, Fail, Crash, AbortOrphan, Control, Ledger, db
<1> QED BY <1>1, <1>2, <1>3, <1>4, <1>5, <1>6 DEF Ledger

LEMMA WinnerStep == ASSUME IInv, NEW r \in Req, Act(r) PROVE OneWinnerPerStatus'
<1>0. TypeOK /\ Control /\ Ledger /\ OneWinnerPerStatus /\ op' = op
  BY OnlyCommitsWrite DEF IInv
<1>1. ASSUME NEW q \in committed PROVE q \in Req /\ seen'[q] = seen[q]
  BY <1>0, SeenIsSettled DEF Control, TypeOK
<1>2. CASE committed' = committed
  BY <1>0, <1>1, <1>2 DEF OneWinnerPerStatus
<1>3. CASE Commits(r)
  \* A change that committed left that status behind, and r found it there.
  <2>1. ASSUME NEW q \in committed, op[r].kind = "change", op[q].kind = "change", op[q].id = op[r].id
        PROVE  seen[q] # seen[r]
    <3>1. seen[q] \in Status /\ op[q].target \in TRANSITIONS[seen[q]]
      BY <1>0, <1>1, <2>1 DEF Ledger, can_transition
    <3>2. seen[r] \in Reachable(op[q].target)
      BY <1>0, <1>1, <1>3, <2>1, CommitsOwnRow DEF Ledger
    <3> QED BY <3>1, <3>2, Acyclic
  <2>2. seen' = seen /\ committed' = committed \cup {r}
    BY <1>3 DEF Commits
  <2> QED BY <1>0, <2>1, <2>2 DEF OneWinnerPerStatus
<1> QED BY <1>2, <1>3, OnlyCommitsWrite

\* The strengthened invariant holds in every reachable state.
THEOREM Invariance == Spec => []IInv
<1>1. IInv /\ [Next]_vars => IInv'
  <2> SUFFICES ASSUME IInv, [Next]_vars PROVE IInv'
    OBVIOUS
  <2>1. CASE UNCHANGED vars
    BY <2>1 DEF IInv, TypeOK, LockDiscipline, Holding, At, Control, Ledger, FreshIds,
      OneWinnerPerStatus, vars
  <2>2. ASSUME NEW r \in Req, Act(r) PROVE IInv'
    BY <2>2, TypeStep, LockStep, ControlStep, LedgerStep, WinnerStep DEF IInv
  <2> QED BY <2>1, <2>2, NextIsAct
<1> QED BY <1>1, InitEstablishes, PTL DEF Spec

\* TypeOK for every Req and Id.
THEOREM TypeCorrect == Spec => []TypeOK
BY Invariance, PTL DEF IInv

\* The row lock excludes every other change of the row between the check of a
\* move and its commit.
THEOREM Locking == Spec => []LockDiscipline
BY Invariance, PTL DEF IInv

\* Two operators never both advance a complaint out of the same status.
THEOREM OneWinner == Spec => []OneWinnerPerStatus
BY Invariance, PTL DEF IInv

\* What a client was told about its write is so, and stays so.
THEOREM AnswersTrue == Spec => []AnswersAreTrue
<1>1. IInv => AnswersAreTrue
  <2> SUFFICES ASSUME IInv, NEW r \in Req, op[r].kind # "get"
               PROVE  /\ resp[r] \in {200, 201} => r \in committed
                      /\ resp[r] \in {404, 409} => r \notin committed
                      /\ r \in committed => row[op[r].id] \in Reachable(op[r].target)
    BY DEF AnswersAreTrue
  <2> QED BY DEF IInv, Ledger
<1> QED BY <1>1, Invariance, PTL

\* stats:v1 is deleted only after the commit, and before success is answered.
THEOREM InvalidationOrder == Spec => []InvalidatedAfterCommit
<1>1. IInv => InvalidatedAfterCommit
  BY DEF IInv, Ledger, InvalidatedAfterCommit
<1> QED BY <1>1, Invariance, PTL

\* Every committed step of a complaint is an edge of the transition table.
THEOREM TableFollowed == Spec => StatusFollowsTable
<1> DEFINE Edge == \A i \in Id : row'[i] # row[i] =>
                     \/ row[i] = Absent /\ row'[i] = "open"
                     \/ row[i] # Absent /\ row'[i] \in TRANSITIONS[row[i]]
<1>1. IInv /\ [Next]_vars => [Edge]_vars
  <2> SUFFICES ASSUME IInv, NEW r \in Req, Act(r) PROVE Edge
    BY NextIsAct DEF vars
  <2>1. CASE Commits(r)
    <3>1. row' = [row EXCEPT ![op[r].id] = op[r].target] /\ op[r].id \in Id /\ row \in [Id -> Status \cup {Absent}]
      BY <2>1 DEF Commits, IInv, TypeOK, Op
    <3>2. CASE op[r].kind = "create"
      BY <2>1, <3>1, <3>2, CommitsOwnRow
    <3>3. CASE op[r].kind = "change"
      BY <2>1, <3>1, <3>3, CommitsOwnRow DEF Status, Absent
    <3> QED BY <2>1, <3>2, <3>3, CommitsOwnRow
  <2>2. CASE row' = row
    BY <2>2
  <2> QED BY <2>1, <2>2, OnlyCommitsWrite
<1> QED BY <1>1, Invariance, PTL DEF Spec, StatusFollowsTable

----------------------------------------------------------------------------
\* Refinement. A step of request r leaves the effect of every other request as
\* it was.
LEMMA OthersKeepTheirEffect ==
  ASSUME IInv, NEW r \in Req, Act(r), NEW q \in Req, q # r
  PROVE  EffectOf(q)' = EffectOf(q)
<1>1. /\ op' = op /\ seen'[q] = seen[q] /\ resp'[q] = resp[q]
      /\ q \in committed' <=> q \in committed
  BY DEF IInv, TypeOK, Act, Step, Begin, Triage, Insert, SelectForUpdate, SetStatus, RefuseMove,
    Commit, CommitReplyLost, Commits, Invalidate, Get, Fail, Crash, AbortOrphan, At, Goto, Answer, db
<1> QED BY <1>1 DEF EffectOf

LEMMA EffectMoves ==
  ASSUME IInv, NEW r \in Req, Act(r), NEW e, EffectOf(r)' = e
  PROVE  effectBar' = [effectBar EXCEPT ![r] = e]
BY OthersKeepTheirEffect DEF effectBar

\* A step with which r has no effect is a stutter of the abstract machine.
LEMMA NoEffect ==
  ASSUME IInv, NEW r \in Req, Act(r), EffectOf(r)' = EffectOf(r), row' = row
  PROVE  UNCHANGED SM!vars
BY OthersKeepTheirEffect DEF effectBar, SM!vars

LEMMA CommitsRefines == ASSUME IInv, NEW r \in Req, Act(r), Commits(r) PROVE SM!Next
<1> DEFINE i == op[r].id
<1>1. /\ i \in Id /\ r \notin committed /\ r \in committed' /\ op' = op /\ seen' = seen
      /\ resp[r] = 0 /\ row \in [Id -> Status \cup {Absent}] /\ op[r].target \in Status
      /\ row' = [row EXCEPT ![i] = op[r].target]
      /\ op[r].kind = "create" => seen[r] = Absent
  BY DEF IInv, TypeOK, Op, Control, Commits
<1>2. effectBar[r] = None
  BY <1>1 DEF effectBar, EffectOf
<1>3. effectBar' = [effectBar EXCEPT ![r] = Effect(op[r].kind, i, seen[r], op[r].target)]
  BY <1>1, EffectMoves DEF EffectOf
<1>4. CASE op[r].kind = "create"
  <2>1. SM!File(r, i)
    BY <1>1, <1>2, <1>3, <1>4, CommitsOwnRow DEF SM!File, SM!Acts, Effect, SM!Absent, Absent, Status
  <2> QED BY <1>1, <2>1 DEF SM!Next
<1>5. CASE op[r].kind = "change"
  <2>1. seen[r] \in Status /\ SM!Move(r, i, seen[r], op[r].target)
    BY <1>1, <1>2, <1>3, <1>5, CommitsOwnRow
    DEF SM!Move, SM!Acts, Effect, SM!can_transition, SM!TRANSITIONS, TRANSITIONS, Status
  <2> QED BY <1>1, <2>1 DEF SM!Next, SM!Status, Status
<1> QED BY <1>4, <1>5, CommitsOwnRow

LEMMA RefuseRefines == ASSUME IInv, NEW r \in Req, RefuseMove(r) PROVE SM!Next
<1> DEFINE i == op[r].id
<1>0. Act(r)
  BY DEF Act, Step
<1>1. /\ i \in Id /\ r \notin committed /\ committed' = committed /\ op' = op /\ seen' = seen
      /\ resp[r] = 0 /\ resp'[r] = 409 /\ row' = row /\ op[r].target \in Status
      /\ row[i] = seen[r] /\ seen[r] \in Status /\ ~can_transition(seen[r], op[r].target)
  BY NoneAssumption DEF IInv, TypeOK, Op, Control, RefuseMove, Answer, At, LockDiscipline, Holding
<1>2. effectBar[r] = None
  BY <1>1 DEF effectBar, EffectOf
<1>3. effectBar' = [effectBar EXCEPT ![r] = Effect("refuse", i, seen[r], op[r].target)]
  BY <1>0, <1>1, EffectMoves DEF EffectOf
<1>4. SM!Refuse(r, i, seen[r], op[r].target)
  BY <1>1, <1>2, <1>3
  DEF SM!Refuse, SM!Acts, Effect, SM!can_transition, can_transition, SM!TRANSITIONS, TRANSITIONS
<1> QED BY <1>1, <1>4 DEF SM!Next, SM!Status, Status

\* A 404, of a change or of a read.
LEMMA MissRefines ==
  ASSUME IInv, NEW r \in Req, SelectForUpdate(r) \/ Get(r), row[op[r].id] = Absent
  PROVE  SM!Next
<1> DEFINE i == op[r].id
<1>0. Act(r)
  BY DEF Act, Step
<1>1. /\ i \in Id /\ r \notin committed /\ committed' = committed /\ op' = op
      /\ resp[r] = 0 /\ resp'[r] = 404 /\ row' = row
  BY DEF IInv, TypeOK, Op, Control, SelectForUpdate, Get, Answer, At, db
<1>2. effectBar[r] = None
  BY <1>1 DEF effectBar, EffectOf
<1>3. effectBar' = [effectBar EXCEPT ![r] = Effect("miss", i, Absent, Absent)]
  BY <1>0, <1>1, EffectMoves DEF EffectOf
<1>4. SM!Miss(r, i)
  BY <1>1, <1>2, <1>3 DEF SM!Miss, SM!Acts, Effect, SM!Absent, Absent
<1> QED BY <1>1, <1>4 DEF SM!Next

LEMMA GetRefines ==
  ASSUME IInv, NEW r \in Req, Get(r), row[op[r].id] # Absent
  PROVE  SM!Next
<1> DEFINE i == op[r].id
<1>0. Act(r)
  BY DEF Act, Step
<1>1. /\ i \in Id /\ r \notin committed /\ committed' = committed /\ op' = op
      /\ resp[r] = 0 /\ resp'[r] = 200 /\ row' = row
      /\ seen'[r] = row[i] /\ row[i] \in Status
  BY DEF IInv, TypeOK, Op, Control, Get, Answer, At, db
<1>2. effectBar[r] = None
  BY <1>1 DEF effectBar, EffectOf
<1>3. effectBar' = [effectBar EXCEPT ![r] = Effect("get", i, row[i], row[i])]
  BY <1>0, <1>1, EffectMoves DEF EffectOf
<1>4. SM!Read(r, i, row[i])
  BY <1>1, <1>2, <1>3 DEF SM!Read, SM!Acts, Effect
<1> QED BY <1>1, <1>4 DEF SM!Next, SM!Status, Status

LEMMA StepRefines == ASSUME IInv, NEW r \in Req, Act(r) PROVE [SM!Next]_SM!vars
<1> USE DEF IInv, TypeOK, Op, Control, Goto, Answer, At, db
<1>1. CASE Commits(r)
  BY <1>1, CommitsRefines
<1>2. CASE RefuseMove(r)
  BY <1>2, RefuseRefines
<1>3. CASE (SelectForUpdate(r) \/ Get(r)) /\ row[op[r].id] = Absent
  BY <1>3, MissRefines
<1>4. CASE Get(r) /\ row[op[r].id] # Absent
  BY <1>4, GetRefines
\* Every other step answers nothing, or an error or the success of what has
\* already committed.
<1>5. CASE \/ Begin(r) \/ Triage(r) \/ Insert(r) \/ SetStatus(r) \/ Crash(r) \/ AbortOrphan(r)
           \/ SelectForUpdate(r) /\ row[op[r].id] # Absent
  <2>1. /\ op' = op /\ row' = row /\ committed' = committed /\ resp'[r] = resp[r]
        /\ resp[r] = 0 \/ seen'[r] = seen[r]
        /\ r \in committed => seen'[r] = seen[r]
    BY <1>5 DEF Begin, Triage, Insert, SetStatus, Crash, AbortOrphan, SelectForUpdate
  <2>2. EffectOf(r)' = EffectOf(r)
    BY <2>1 DEF EffectOf
  <2> QED BY <2>1, <2>2, NoEffect
<1>6. CASE Invalidate(r)
  <2>1. /\ op' = op /\ row' = row /\ committed' = committed /\ seen' = seen /\ r \in committed
    BY <1>6 DEF Invalidate
  <2>2. EffectOf(r)' = EffectOf(r)
    BY <2>1 DEF EffectOf
  <2> QED BY <2>1, <2>2, NoEffect
<1>7. CASE Fail(r)
  <2>1. /\ op' = op /\ row' = row /\ committed' = committed /\ seen' = seen
        /\ resp[r] = 0 /\ resp'[r] = 500 /\ r \notin committed
    BY <1>7 DEF Fail
  <2>2. EffectOf(r)' = EffectOf(r)
    BY <2>1 DEF EffectOf
  <2> QED BY <2>1, <2>2, NoEffect
<1> QED
  BY <1>1, <1>2, <1>3, <1>4, <1>5, <1>6, <1>7 DEF Act, Step, Commit, CommitReplyLost

\* Seen from outside, the interleaved handlers are the sequential status
\* machine, for every number of requests and complaints.
THEOREM Refinement == Spec => ImplementsStatusMachine
<1>1. Init => SM!Init
  <2> SUFFICES ASSUME Init PROVE SM!Init
    OBVIOUS
  <2>1. effectBar = [r \in Req |-> None]
    BY DEF effectBar, EffectOf, Init
  <2> QED BY <2>1 DEF Init, SM!Init, SM!Status, SM!Absent, Status, Absent
<1>2. IInv /\ [Next]_vars => [SM!Next]_SM!vars
  <2> SUFFICES ASSUME IInv, [Next]_vars PROVE [SM!Next]_SM!vars
    OBVIOUS
  <2>1. CASE UNCHANGED vars
    BY <2>1 DEF vars, SM!vars, effectBar, EffectOf
  <2> QED BY <2>1, NextIsAct, StepRefines
<1> QED BY <1>1, <1>2, Invariance, PTL DEF Spec, SM!Spec, ImplementsStatusMachine

\* However many operators act on a complaint, over however many replicas and with
\* whatever failures, at most two changes of it ever commit: its life is at most
\* open, in_progress and one of the ends (domain.py:36-41).
AtMostTwoMoves ==
  \A q, r, s \in committed :
    /\ op[q].kind = "change" /\ op[r].kind = "change" /\ op[s].kind = "change"
    /\ op[q].id = op[r].id /\ op[r].id = op[s].id
    => q = r \/ r = s \/ q = s

\* At most two changes of a complaint ever commit (domain.py:36-41): each won in a
\* status of its own, and only two statuses can be left.
THEOREM LifeIsShort == Spec => []AtMostTwoMoves
<1>1. IInv => AtMostTwoMoves
  <2> SUFFICES ASSUME IInv, NEW q \in committed, NEW r \in committed, NEW s \in committed,
                      op[q].kind = "change", op[r].kind = "change", op[s].kind = "change",
                      op[q].id = op[r].id, op[r].id = op[s].id
               PROVE  q = r \/ r = s \/ q = s
    BY DEF AtMostTwoMoves
  <2>1. \A x \in {q, r, s} : seen[x] \in Status /\ can_transition(seen[x], op[x].target)
    BY DEF IInv, Ledger, TypeOK
  <2>2. \A x \in {q, r, s} : seen[x] \in {"open", "in_progress"}
    BY <2>1 DEF can_transition, TRANSITIONS, Status
  <2>3. \A x, y \in {q, r, s} : seen[x] = seen[y] => x = y
    BY DEF IInv, OneWinnerPerStatus
  <2> QED BY <2>2, <2>3
<1> QED BY <1>1, Invariance, PTL
=============================================================================
