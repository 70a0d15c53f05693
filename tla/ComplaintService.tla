--------------------------- MODULE ComplaintService ---------------------------
(***************************************************************************)
(* The complaint endpoints as they run: every request is a handler in a    *)
(* worker thread of some backend replica, with a database session of its   *)
(* own (container.py), driving ComplaintService through the repository.    *)
(* Handlers interleave between any two statements they send.               *)
(*                                                                         *)
(* Postgres is modelled as this code uses it, under READ COMMITTED: a row   *)
(* written in a transaction is seen by the others once it commits, and a    *)
(* SELECT ... FOR UPDATE waits for the row's lock and then sees the latest  *)
(* committed row.                                                           *)
(***************************************************************************)
EXTENDS Domain, FiniteSets

CONSTANTS
  Req,    \* requests; each is handled once, so their number is the bound
  Id,     \* complaint ids
  None    \* no holder of a row lock

ASSUME NoneAssumption == None \notin Req

VARIABLES
  row,          \* row[i]: committed status of complaint i, or Absent
  lock,         \* lock[i]: the request whose transaction holds i's row lock, or None
  op,           \* op[r]: what request r asks for
  pc,           \* pc[r]: the statement the handler of r executes next
  seen,         \* seen[r]: the status its SELECT returned
  resp,         \* resp[r]: the status code it answered with, 0 before that
  committed,    \* requests whose transaction committed
  invalidated   \* requests that have sent DEL stats:v1

vars == <<row, lock, op, pc, seen, resp, committed, invalidated>>
db == <<row, lock, committed>>

----------------------------------------------------------------------------

Op == [kind : {"create", "change", "get"}, id : Id, target : Status]

\* uuid.uuid4(): the id of a new complaint is nobody else's.
FreshIds(o) ==
  \A r, q \in Req :
    o[r].kind = "create" /\ o[q].kind = "create" /\ o[r].id = o[q].id => r = q

Live == {"idle", "triage", "insert", "select", "check", "commit", "invalidate", "read"}
PC == Live \cup {"done", "crashed"}
Code == {0, 200, 201, 404, 409, 500}

TypeOK ==
  /\ row \in [Id -> Status \cup {Absent}]
  /\ lock \in [Id -> Req \cup {None}]
  /\ op \in [Req -> Op]
  /\ pc \in [Req -> PC]
  /\ seen \in [Req -> Status \cup {Absent}]
  /\ resp \in [Req -> Code]
  /\ committed \in SUBSET Req
  /\ invalidated \in SUBSET Req

Init ==
  /\ row \in [Id -> Status \cup {Absent}]
  /\ op \in {o \in [Req -> Op] :
               /\ FreshIds(o)
               /\ \A r \in Req : o[r].kind = "create" =>
                    o[r].target = "open" /\ row[o[r].id] = Absent
               /\ \A r \in Req : o[r].kind = "get" => o[r].target = "open"}
  /\ lock = [i \in Id |-> None]
  /\ pc = [r \in Req |-> "idle"]
  /\ seen = [r \in Req |-> Absent]
  /\ resp = [r \in Req |-> 0]
  /\ committed = {}
  /\ invalidated = {}

----------------------------------------------------------------------------
\* Control: the handler goes on to the statement `next`, or answers with `code`.

Goto(r, next) == pc' = [pc EXCEPT ![r] = next] /\ UNCHANGED resp

Answer(r, code) ==
  /\ pc' = [pc EXCEPT ![r] = "done"]
  /\ resp' = [resp EXCEPT ![r] = code]

At(r, kind, label) == op[r].kind = kind /\ pc[r] = label

\* The end of a transaction releases the row locks it holds.
Release(r) == lock' = [i \in Id |-> IF lock[i] = r THEN None ELSE lock[i]]

\* The first statement of a handler.
First == [create |-> "triage", change |-> "select", get |-> "read"]

Begin(r) ==
  /\ pc[r] = "idle"
  /\ Goto(r, First[op[r].kind])
  /\ UNCHANGED <<db, op, seen, invalidated>>

\* create: triage, before any database work.
Triage(r) ==
  /\ At(r, "create", "triage")
  /\ Goto(r, "insert")
  /\ UNCHANGED <<db, op, seen, invalidated>>

\* Mutant: invalidate() before the transaction commits.
Insert_Invalidates(r) ==
  /\ At(r, "create", "insert")
  /\ Goto(r, "commit")
  /\ invalidated' = invalidated \cup {r}
  /\ UNCHANGED <<db, op, seen>>

\* create: add() flushes the INSERT; nobody else sees the row yet.
Insert(r) ==
  /\ At(r, "create", "insert")
  /\ Goto(r, "commit")
  /\ UNCHANGED <<db, op, seen, invalidated>>

\* Mutant: the SELECT without FOR UPDATE.
SelectForUpdate_NoLock(r) ==
  LET i == op[r].id IN
  /\ At(r, "change", "select")
  /\ seen' = [seen EXCEPT ![r] = row[i]]
  /\ IF row[i] = Absent THEN Answer(r, 404) ELSE Goto(r, "check")
  /\ UNCHANGED <<db, op, invalidated>>

\* change_status: get(for_update=True) waits until the row is not locked.
SelectForUpdate(r) ==
  LET i == op[r].id IN
  /\ At(r, "change", "select")
  /\ lock[i] = None
  /\ seen' = [seen EXCEPT ![r] = row[i]]
  /\ IF row[i] = Absent
       THEN Answer(r, 404) /\ UNCHANGED lock
       ELSE Goto(r, "check") /\ lock' = [lock EXCEPT ![i] = r]
  /\ UNCHANGED <<row, op, committed, invalidated>>

\* change_status: the move is in the table; set_status() flushes the UPDATE.
SetStatus(r) ==
  /\ At(r, "change", "check")
  /\ can_transition(seen[r], op[r].target)
  /\ Goto(r, "commit")
  /\ UNCHANGED <<db, op, seen, invalidated>>

\* change_status: the move is not in the table; rollback, then 409.
RefuseMove(r) ==
  /\ At(r, "change", "check")
  /\ ~can_transition(seen[r], op[r].target)
  /\ Release(r)
  /\ Answer(r, 409)
  /\ UNCHANGED <<row, op, seen, committed, invalidated>>

\* The database executes COMMIT: the write becomes visible, the lock is free.
Commits(r) ==
  /\ pc[r] = "commit"
  /\ row' = [row EXCEPT ![op[r].id] = op[r].target]
  /\ committed' = committed \cup {r}
  /\ Release(r)
  /\ UNCHANGED <<op, seen, invalidated>>

\* Mutant: the transaction is flushed, and never committed.
Commit_Forgotten(r) ==
  /\ pc[r] = "commit"
  /\ Goto(r, "invalidate")
  /\ UNCHANGED <<db, op, seen, invalidated>>

Commit(r) == Commits(r) /\ Goto(r, "invalidate")

\* COMMIT was executed but its reply was lost: the session raises, 500.
CommitReplyLost(r) == Commits(r) /\ Answer(r, 500)

\* stats.invalidate() and the answer; a failing DEL is swallowed by JsonCache.
Invalidate(r) ==
  /\ pc[r] = "invalidate"
  /\ invalidated' = invalidated \cup {r}
  /\ Answer(r, IF op[r].kind = "create" THEN 201 ELSE 200)
  /\ UNCHANGED <<db, op, seen>>

\* get: one SELECT, no lock.
Get(r) ==
  /\ At(r, "get", "read")
  /\ seen' = [seen EXCEPT ![r] = row[op[r].id]]
  /\ Answer(r, IF row[op[r].id] = Absent THEN 404 ELSE 200)
  /\ UNCHANGED <<db, op, invalidated>>

\* Mutant: the error path leaves the transaction open.
Fail_NoRollback(r) ==
  /\ pc[r] \in {"triage", "insert", "select", "check", "commit", "read"}
  /\ Answer(r, 500)
  /\ UNCHANGED <<db, op, seen, invalidated>>

\* A statement (or triage) raises: Container.repository() rolls back, 500.
Fail(r) ==
  /\ pc[r] \in {"triage", "insert", "select", "check", "commit", "read"}
  /\ Release(r)
  /\ Answer(r, 500)
  /\ UNCHANGED <<row, op, seen, committed, invalidated>>

\* The replica dies under the request. Its connection is still open at the
\* server, so a row lock it holds stays where it is.
Crash(r) ==
  /\ pc[r] \in Live \ {"idle"}
  /\ Goto(r, "crashed")
  /\ UNCHANGED <<db, op, seen, invalidated>>

\* The database notices the dead connection and aborts its transaction.
AbortOrphan(r) ==
  /\ pc[r] = "crashed"
  /\ \E i \in Id : lock[i] = r
  /\ Release(r)
  /\ UNCHANGED <<row, op, pc, seen, resp, committed, invalidated>>

\* What the handler does when nothing fails.
Step(r) ==
  \/ Begin(r) \/ Triage(r) \/ Insert(r)
  \/ SelectForUpdate(r) \/ SetStatus(r) \/ RefuseMove(r)
  \/ Commit(r) \/ Invalidate(r) \/ Get(r)

\* Every request has been handled and no lock is left behind.
Terminated ==
  /\ \A r \in Req : pc[r] \in {"done", "crashed"}
  /\ \A i \in Id : lock[i] = None
  /\ UNCHANGED vars

Next ==
  \/ \E r \in Req : Step(r) \/ CommitReplyLost(r) \/ Fail(r) \/ Crash(r) \/ AbortOrphan(r)
  \/ Terminated

Spec == Init /\ [][Next]_vars

\* Threads keep running and the database keeps answering and reaping dead
\* connections. No fairness on errors or crashes.
Fairness == \A r \in Req : WF_vars(Step(r)) /\ WF_vars(AbortOrphan(r))

FairSpec == Spec /\ Fairness

----------------------------------------------------------------------------
\* The row lock is held exactly by a change between its SELECT ... FOR UPDATE
\* and the end of its transaction (a crashed one until it is aborted), and as
\* long as it is held the row still is what that SELECT returned: no other
\* operator changes it under the check (complaint_service.py:53).
Holding(r) == At(r, "change", "check") \/ At(r, "change", "commit")

LockDiscipline ==
  /\ \A r \in Req : Holding(r) => lock[op[r].id] = r
  /\ \A i \in Id : lock[i] # None =>
       LET r == lock[i] IN
       /\ op[r].kind = "change" /\ op[r].id = i
       /\ pc[r] = "crashed" \/ Holding(r)
       /\ row[i] = seen[r] /\ row[i] # Absent
       /\ pc[r] = "commit" => can_transition(seen[r], op[r].target)

\* Whatever the interleaving, each commit moves the row along an edge of
\* TRANSITIONS, from the status that very request checked, or files a new
\* complaint as open (domain.py:35 "Anything not listed here is a 409").
StatusFollowsTable ==
  [][\A i \in Id : row'[i] # row[i] =>
       \/ row[i] = Absent /\ row'[i] = "open"
       \/ row[i] # Absent /\ row'[i] \in TRANSITIONS[row[i]]]_vars

\* Two operators cannot both advance a complaint out of the same status
\* (complaint_service.py:53): of the changes that saw it in one status at
\* most one commits.
OneWinnerPerStatus ==
  \A r, q \in committed :
    /\ op[r].kind = "change" /\ op[q].kind = "change"
    /\ op[r].id = op[q].id /\ seen[r] = seen[q]
    => r = q

\* A request that answered 200 or 201 to a write is durable: the complaint is
\* in the status written or one later in the life cycle. A 404 or a 409 left
\* nothing behind (a 500 may have committed).
AnswersAreTrue ==
  \A r \in Req : op[r].kind # "get" =>
    /\ resp[r] \in {200, 201} => r \in committed
    /\ resp[r] \in {404, 409} => r \notin committed
    /\ r \in committed => row[op[r].id] \in Reachable(op[r].target)

\* The stats cache is invalidated only for a transaction that has committed,
\* and a write answered with success has invalidated it
\* (complaint_service.py:40 "after commit").
InvalidatedAfterCommit ==
  /\ invalidated \subseteq committed
  /\ \A r \in Req : op[r].kind # "get" /\ resp[r] \in {200, 201} => r \in invalidated

\* Every request that starts ends, whatever fails or crashes around it: no
\* handler waits for ever on a row lock that an error, a 409 or a dead replica
\* left behind.
EveryRequestEnds ==
  \A r \in Req : pc[r] # "idle" ~> pc[r] \in {"done", "crashed"}

----------------------------------------------------------------------------
\* Refinement: a write takes effect when it commits, a refusal when it is
\* checked, a read when it is executed.
Effect(act, i, from, to) == [act |-> act, id |-> i, from |-> from, to |-> to]

EffectOf(r) ==
  LET i == op[r].id IN
  IF r \in committed THEN Effect(op[r].kind, i, seen[r], op[r].target)
  ELSE IF resp[r] = 409 THEN Effect("refuse", i, seen[r], op[r].target)
  ELSE IF resp[r] = 404 THEN Effect("miss", i, Absent, Absent)
  ELSE IF resp[r] = 200 THEN Effect("get", i, seen[r], seen[r])
  ELSE None

effectBar == [r \in Req |-> EffectOf(r)]

SM == INSTANCE StatusMachine WITH status <- row, effect <- effectBar

\* Seen from outside, the interleaved handlers are the sequential status
\* machine: every request takes effect at one instant, at most once.
ImplementsStatusMachine == SM!Spec
=============================================================================
