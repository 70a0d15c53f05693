------------------------------- MODULE Startup -------------------------------
(***************************************************************************)
(* The init containers of the backend pods: scripts/migrate.sh runs          *)
(* `alembic upgrade head` and then, unless SEED_DEMO_DATA is off, the         *)
(* idempotent seed. Pods of a rollout do it at the same time, any of them     *)
(* may die at any point and be started again, and meanwhile the pods that     *)
(* serve already change the status of what the seed has written.             *)
(*                                                                         *)
(* Two advisory locks keep them apart: the migration's belongs to the session *)
(* and outlives the COMMIT that follows it, the seed's to the transaction.    *)
(* What a transaction writes is seen by the others once it commits.           *)
(***************************************************************************)
EXTENDS Domain, Naturals, Sequences, FiniteSets

CONSTANTS
  Pod,
  Nobody, Dead,  \* no holder of a lock; a session that died and is not reaped yet
  MaxCrashes,    \* bound: init containers that die
  MaxMoves       \* bound: status changes by operators

ASSUME StartupAssumption ==
  Nobody \notin Pod /\ Dead \notin Pod /\ Nobody # Dead /\ MaxCrashes \in Nat /\ MaxMoves \in Nat

R == INSTANCE Rules

VARIABLES
  seeding,   \* SEED_DEMO_DATA, the same for all pods
  pc,        \* pc[p]: where the init container of p is; "serving" when it is through
  lock,      \* lock[l]: the pod whose session holds the advisory lock, Nobody or Dead
  schema,    \* the migration is committed: types, table, indexes and its version
  status,    \* status[i]: of the row of the i-th seed, or Absent
  next,      \* next[p]: the seed its loop looks at
  added,     \* added[p]: seeds its transaction has inserted
  collided,  \* ghost: pods that ran into what another one created
  crashes, moves  \* bounds: how many so far

vars == <<seeding, pc, lock, schema, status, next, added, collided, crashes, moves>>
db == <<schema, status>>
bounds == <<crashes, moves>>

----------------------------------------------------------------------------
\* SEEDS: of each text how many keywords of which category it has and whether it
\* has words of high or low priority, and the status it is inserted with.
Seed(score, words, st) ==
  [text |-> [score |-> score, high |-> words = "high", low |-> words = "low", length |-> 140,
            oneLine |-> TRUE],
   status |-> st]

SEEDS == <<
  Seed(<<3, 0, 0, 0, 0>>, "high", "open"), Seed(<<2, 0, 0, 0, 0>>, "high", "in_progress"),
  Seed(<<0, 3, 0, 0, 0>>, "high", "open"), Seed(<<0, 0, 3, 0, 0>>, "high", "open"),
  Seed(<<0, 0, 0, 2, 0>>, "none", "in_progress"), Seed(<<0, 0, 0, 0, 1>>, "none", "resolved"),
  Seed(<<0, 0, 3, 0, 0>>, "none", "open"), Seed(<<0, 1, 0, 0, 0>>, "none", "open"),
  Seed(<<3, 0, 0, 1, 0>>, "none", "resolved"), Seed(<<0, 0, 0, 1, 0>>, "high", "in_progress"),
  Seed(<<0, 1, 0, 0, 2>>, "high", "open"), Seed(<<1, 0, 1, 0, 0>>, "none", "open"),
  Seed(<<0, 0, 0, 2, 0>>, "none", "rejected"), Seed(<<0, 1, 0, 0, 0>>, "none", "open"),
  Seed(<<0, 0, 3, 0, 0>>, "high", "in_progress"), Seed(<<2, 0, 1, 0, 0>>, "high", "open"),
  Seed(<<0, 0, 0, 0, 0>>, "low", "open"), Seed(<<0, 0, 0, 1, 0>>, "low", "resolved"),
  Seed(<<0, 0, 0, 0, 1>>, "none", "open"), Seed(<<0, 2, 0, 0, 0>>, "none", "in_progress"),
  Seed(<<1, 0, 2, 0, 0>>, "none", "open"), Seed(<<4, 0, 0, 1, 0>>, "high", "open"),
  Seed(<<1, 0, 0, 2, 0>>, "none", "in_progress"), Seed(<<0, 1, 0, 1, 0>>, "high", "open"),
  Seed(<<0, 0, 0, 0, 0>>, "low", "open"), Seed(<<0, 0, 1, 0, 0>>, "none", "rejected"),
  Seed(<<2, 0, 0, 0, 0>>, "high", "in_progress"), Seed(<<1, 1, 0, 0, 0>>, "none", "open"),
  Seed(<<1, 0, 0, 1, 0>>, "high", "open"), Seed(<<0, 0, 0, 0, 1>>, "none", "resolved"),
  Seed(<<0, 0, 0, 0, 0>>, "high", "open"), Seed(<<0, 0, 0, 0, 0>>, "none", "open"),
  Seed(<<1, 0, 1, 0, 0>>, "none", "in_progress"), Seed(<<0, 0, 0, 1, 0>>, "none", "open") >>

\* seed_id: the id of a seed is a function of its text, here its index.
SeedId == 1..Len(SEEDS)

\* build_seed_complaints: the row inserted for a seed.
Triaged(i) == R!triage(SEEDS[i].text)

MigratePC == {"init", "locked", "upgrade", "ddl", "commitDdl", "close"}
SeedPC == {"seedLock", "seed", "seeded"}
PC == MigratePC \cup SeedPC \cup {"serving"}

TypeOK ==
  /\ seeding \in BOOLEAN
  /\ pc \in [Pod -> PC]
  /\ lock \in [{"migrate", "seed"} -> Pod \cup {Nobody, Dead}]
  /\ schema \in BOOLEAN
  /\ status \in [SeedId -> Status \cup {Absent}]
  /\ next \in [Pod -> 1..Len(SEEDS) + 1]
  /\ added \in [Pod -> SUBSET SeedId]
  /\ collided \in SUBSET Pod
  /\ crashes \in 0..MaxCrashes /\ moves \in 0..MaxMoves

Init ==
  /\ seeding \in BOOLEAN
  /\ pc = [p \in Pod |-> "init"]
  /\ lock = [l \in {"migrate", "seed"} |-> Nobody]
  /\ schema = FALSE
  /\ status = [i \in SeedId |-> Absent]
  /\ next = [p \in Pod |-> 1]
  /\ added = [p \in Pod |-> {}]
  /\ collided = {}
  /\ crashes = 0 /\ moves = 0

At(p, label) == pc[p] = label
Goto(p, label) == pc' = [pc EXCEPT ![p] = label]

Acquire(l, p) == lock[l] = Nobody /\ lock' = [lock EXCEPT ![l] = p]
Release(l, p) == lock' = [lock EXCEPT ![l] = IF @ = p THEN Nobody ELSE @]

----------------------------------------------------------------------------
\* alembic upgrade head

\* SELECT pg_advisory_lock(727274001) waits until no session has it.
MigrateLock(p) ==
  /\ At(p, "init") /\ Goto(p, "locked")
  /\ Acquire("migrate", p)
  /\ UNCHANGED <<seeding, db, next, added, collided, bounds>>

\* Mutant: a lock of the transaction goes with its COMMIT.
CommitLock_Releases(p) ==
  /\ At(p, "locked") /\ Goto(p, "upgrade")
  /\ Release("migrate", p)
  /\ UNCHANGED <<seeding, db, next, added, collided, bounds>>

\* connection.commit(), so that Alembic begins a transaction of its own.
CommitLock(p) ==
  /\ At(p, "locked") /\ Goto(p, "upgrade")
  /\ UNCHANGED <<seeding, lock, db, next, added, collided, bounds>>

\* Alembic reads the version: at head there is nothing to do.
ReadVersion(p) ==
  /\ At(p, "upgrade")
  /\ Goto(p, IF schema THEN "close" ELSE "ddl")
  /\ UNCHANGED <<seeding, lock, db, next, added, collided, bounds>>

\* upgrade(): the enums, the table and the indexes, in the transaction.
Upgrade(p) ==
  /\ At(p, "ddl") /\ Goto(p, "commitDdl")
  /\ UNCHANGED <<seeding, lock, db, next, added, collided, bounds>>

\* Mutant: run in the transaction of the lock, which nobody commits.
CommitUpgrade_Not(p) ==
  /\ At(p, "commitDdl") /\ Goto(p, "close")
  /\ UNCHANGED <<seeding, lock, db, next, added, collided, bounds>>

\* The transaction commits: everything with the new version. (Had another pod
\* created the types meanwhile, it would fail, and with it the container.)
CommitUpgrade(p) ==
  /\ At(p, "commitDdl")
  /\ IF schema
       THEN Goto(p, "init") /\ collided' = collided \cup {p} /\ Release("migrate", p)
       ELSE Goto(p, "close") /\ UNCHANGED <<lock, collided>>
  /\ schema' = TRUE
  /\ UNCHANGED <<seeding, status, next, added, bounds>>

\* Mutant: a pool keeps the session, and with it the lock.
CloseConnection_Pooled(p) ==
  /\ At(p, "close")
  /\ Goto(p, IF seeding THEN "seedLock" ELSE "serving")
  /\ UNCHANGED <<seeding, lock, db, next, added, collided, bounds>>

\* The end of `with connectable.connect()` (NullPool) ends the session.
CloseConnection(p) ==
  /\ At(p, "close")
  /\ Goto(p, IF seeding THEN "seedLock" ELSE "serving")
  /\ Release("migrate", p)
  /\ UNCHANGED <<seeding, db, next, added, collided, bounds>>

----------------------------------------------------------------------------
\* python -m app.seed

\* Mutant: the loop begins one too early.
SeedLock_FromZero(p) ==
  /\ At(p, "seedLock") /\ Goto(p, "seed")
  /\ Acquire("seed", p)
  /\ next' = [next EXCEPT ![p] = 0]
  /\ UNCHANGED <<seeding, db, added, collided, bounds>>

\* lock_for_seed(): waits until no transaction has the lock.
SeedLock(p) ==
  /\ At(p, "seedLock") /\ Goto(p, "seed")
  /\ Acquire("seed", p)
  /\ next' = [next EXCEPT ![p] = 1]
  /\ UNCHANGED <<seeding, db, added, collided, bounds>>

\* Mutant: merge() instead of add_if_absent().
AddIfAbsent_Merges(p) ==
  /\ At(p, "seed") /\ next[p] <= Len(SEEDS)
  /\ added' = [added EXCEPT ![p] = @ \cup {next[p]}]
  /\ next' = [next EXCEPT ![p] = @ + 1]
  /\ UNCHANGED <<seeding, pc, lock, db, collided, bounds>>

\* add_if_absent(): get, and insert what is not there.
AddIfAbsent(p) ==
  LET i == next[p] IN
  /\ At(p, "seed") /\ i <= Len(SEEDS)
  /\ added' = IF status[i] = Absent THEN [added EXCEPT ![p] = @ \cup {i}] ELSE added
  /\ next' = [next EXCEPT ![p] = @ + 1]
  /\ UNCHANGED <<seeding, pc, lock, db, collided, bounds>>

\* run_seed() commits: the rows are there, the lock is free.
CommitSeed(p) ==
  /\ At(p, "seed") /\ next[p] > Len(SEEDS)
  /\ Goto(p, "seeded")
  /\ status' = [i \in SeedId |-> IF i \in added[p] THEN SEEDS[i].status ELSE status[i]]
  /\ added' = [added EXCEPT ![p] = {}]
  /\ Release("seed", p)
  /\ UNCHANGED <<seeding, schema, next, collided, bounds>>

\* The init container is through; the pod serves.
Serve(p) ==
  /\ At(p, "seeded") /\ Goto(p, "serving")
  /\ UNCHANGED <<seeding, lock, db, next, added, collided, bounds>>

----------------------------------------------------------------------------
\* The init container dies, or a statement of it fails (`set -e`), and it is
\* started again. Its transaction is void; a lock of its session is there until
\* the database notices.
Crash(p) ==
  /\ pc[p] # "serving" /\ crashes < MaxCrashes
  /\ Goto(p, "init")
  /\ crashes' = crashes + 1
  /\ lock' = [l \in DOMAIN lock |-> IF lock[l] = p THEN Dead ELSE lock[l]]
  /\ added' = [added EXCEPT ![p] = {}]
  /\ UNCHANGED <<seeding, db, next, collided, moves>>

Reap ==
  /\ \E l \in DOMAIN lock : lock[l] = Dead
  /\ lock' = [l \in DOMAIN lock |-> IF lock[l] = Dead THEN Nobody ELSE lock[l]]
  /\ UNCHANGED <<seeding, pc, db, next, added, collided, bounds>>

\* An operator moves a seeded complaint, by way of a pod that serves.
Move(i, t) ==
  /\ moves < MaxMoves /\ \E p \in Pod : pc[p] = "serving"
  /\ status[i] # Absent /\ can_transition(status[i], t)
  /\ status' = [status EXCEPT ![i] = t]
  /\ moves' = moves + 1
  /\ UNCHANGED <<seeding, pc, lock, schema, next, added, collided, crashes>>

Step(p) ==
  \/ MigrateLock(p) \/ CommitLock(p) \/ ReadVersion(p) \/ Upgrade(p)
  \/ CommitUpgrade(p) \/ CloseConnection(p)
  \/ SeedLock(p) \/ AddIfAbsent(p) \/ CommitSeed(p) \/ Serve(p)

Next ==
  \/ \E p \in Pod : Step(p) \/ Crash(p)
  \/ \E i \in SeedId, t \in Status : Move(i, t)
  \/ Reap

Spec == Init /\ [][Next]_vars

\* Containers run and are restarted, the database reaps dead sessions. A lock is
\* granted to those that wait for it in turn, so strong fairness for its taking.
Fairness ==
  /\ WF_vars(Reap)
  /\ \A p \in Pod : WF_vars(Step(p)) /\ SF_vars(MigrateLock(p) \/ SeedLock(p))

FairSpec == Spec /\ Fairness

----------------------------------------------------------------------------
\* However many pods start at once and die on the way, the migration is executed
\* once: nobody runs into what another one has created, and there is at most one
\* between reading the version and committing it (env.py:31-34).
MigratedOnce ==
  /\ collided = {}
  /\ \A p, q \in Pod :
       /\ pc[p] \in {"upgrade", "ddl", "commitDdl"} /\ pc[q] \in {"upgrade", "ddl", "commitDdl"}
       => p = q

\* A pod that seeds or serves has the schema at head under it, and a pod that
\* serves all of the demo data it was to seed, whoever wrote it (migrate.sh:4-8).
ServesMigratedAndSeeded ==
  \A p \in Pod :
    /\ pc[p] \in SeedPC \cup {"serving"} => schema
    /\ pc[p] = "serving" /\ seeding => \A i \in SeedId : status[i] # Absent

\* Seeding again, by however many pods, takes no work of an operator back: once
\* a seed is in the table its status follows TRANSITIONS, like every complaint's
\* (seed.py:3-4 "running the seed twice inserts nothing the second time").
SeedIsIdempotent ==
  [][\A i \in SeedId : status'[i] # status[i] =>
       \/ status[i] = Absent /\ status'[i] = SEEDS[i].status
       \/ status[i] # Absent /\ can_transition(status[i], status'[i])]_vars

\* The demo data is classified as the rules are documented: nothing scores higher,
\* ties go to the category declared first (rules.py:120-121), and whoever serves
\* it shows five categories at least (test_seed_and_logging.py:19).
DemoDataIsVaried ==
  /\ \A i \in SeedId : status[i] # Absent =>
       LET score == SEEDS[i].text.score
           cat == Triaged(i).category
       IN  \/ cat = "other" /\ \A k \in R!Keyworded : score[k] = 0
           \/ \E k \in R!Keyworded :
                /\ cat = R!Declared[k] /\ score[k] > 0
                /\ \A j \in R!Keyworded : score[j] <= score[k] /\ (j < k => score[j] < score[k])
  /\ seeding /\ (\E p \in Pod : pc[p] = "serving") =>
       Cardinality({Triaged(i).category : i \in {j \in SeedId : status[j] # Absent}}) >= 5

\* Every pod comes to serve, whoever dies holding a lock.
EveryPodServes == \A p \in Pod : <>(pc[p] = "serving")
=============================================================================
