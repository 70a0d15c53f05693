--------------------------- MODULE StartupProofs ---------------------------
(***************************************************************************)
(* What the start of the backend guarantees for every set of pods and any    *)
(* number of crashes.                                                       *)
(***************************************************************************)
EXTENDS Startup, FiniteSetTheorems, TLAPS

\* Who is past the taking of a lock holds it.
Locked ==
  /\ \A p \in Pod : pc[p] \in {"locked", "upgrade", "ddl", "commitDdl", "close"} => lock["migrate"] = p
  /\ \A p \in Pod : pc[p] = "seed" => lock["seed"] = p

\* The migration is under way only while it is not committed, and behind it the
\* schema is at head.
Migrating ==
  /\ collided = {}
  /\ \A p \in Pod :
       /\ pc[p] \in {"ddl", "commitDdl"} => ~schema
       /\ pc[p] \in {"close", "serving"} \cup SeedPC => schema

\* What a transaction has inserted is not in the table yet, and what its loop has
\* passed is in the one or the other; behind it everything is in the table.
Seeding ==
  \A p \in Pod :
    /\ added[p] # {} => pc[p] = "seed"
    /\ \A i \in added[p] : status[i] = Absent
    /\ pc[p] = "seed" => \A i \in SeedId : i < next[p] => status[i] # Absent \/ i \in added[p]
    /\ pc[p] = "seeded" \/ (pc[p] = "serving" /\ seeding) => \A i \in SeedId : status[i] # Absent

IInv == TypeOK /\ Locked /\ Migrating /\ Seeding

----------------------------------------------------------------------------
LEMMA SeedFacts ==
  /\ Len(SEEDS) \in Nat
  /\ \A i \in SeedId : SEEDS[i].status \in Status
BY SMTT(60) DEF SEEDS, SeedId, Seed, Status

LEMMA Consts == Absent \notin Status /\ Nobody \notin Pod /\ Dead \notin Pod /\ Nobody # Dead
BY StartupAssumption DEF Absent, Status

\* What one step of a pod does to its lock.
LEMMA Locks ==
  ASSUME TypeOK, NEW l \in {"migrate", "seed"}, NEW p \in Pod, Acquire(l, p) \/ Release(l, p)
  PROVE  /\ lock' \in [{"migrate", "seed"} -> Pod \cup {Nobody, Dead}]
         /\ \A m \in {"migrate", "seed"} : m # l => lock'[m] = lock[m]
         /\ \A q \in Pod : q # p /\ lock[l] = q => lock'[l] = q
         /\ Acquire(l, p) => lock'[l] = p
BY Consts DEF TypeOK, Acquire, Release

LEMMA TypeStep == ASSUME TypeOK, Next PROVE TypeOK'
<1> USE SeedFacts, StartupAssumption DEF TypeOK
<1>1. ASSUME NEW p \in Pod, Step(p) PROVE TypeOK'
  <2>1. CASE MigrateLock(p)
    BY <2>1, Locks DEF MigrateLock, At, Goto, db, bounds, PC, MigratePC
  <2>2. CASE CommitLock(p)
    BY <2>2 DEF CommitLock, At, Goto, db, bounds, PC, MigratePC
  <2>3. CASE ReadVersion(p)
    BY <2>3 DEF ReadVersion, At, Goto, db, bounds, PC, MigratePC
  <2>4. CASE Upgrade(p)
    BY <2>4 DEF Upgrade, At, Goto, db, bounds, PC, MigratePC
  <2>5. CASE CommitUpgrade(p)
    <3>1. pc' \in [Pod -> PC] /\ collided' \in SUBSET Pod /\ schema' = TRUE
      BY <2>5 DEF CommitUpgrade, Goto, PC, MigratePC
    <3>2. lock' \in [{"migrate", "seed"} -> Pod \cup {Nobody, Dead}]
      BY <2>5, Locks DEF CommitUpgrade
    <3> QED BY <2>5, <3>1, <3>2 DEF CommitUpgrade, bounds
  <2>6. CASE CloseConnection(p)
    BY <2>6, Locks DEF CloseConnection, At, Goto, db, bounds, PC, SeedPC
  <2>7. CASE SeedLock(p)
    BY <2>7, Locks DEF SeedLock, At, Goto, db, bounds, PC, SeedPC
  <2>8. CASE AddIfAbsent(p)
    <3>1. next[p] \in SeedId /\ next[p] + 1 \in 1..Len(SEEDS) + 1
      BY <2>8 DEF AddIfAbsent, SeedId
    <3> QED BY <2>8, <3>1 DEF AddIfAbsent, At, db, bounds
  <2>9. CASE CommitSeed(p)
    BY <2>9, Locks DEF CommitSeed, At, Goto, bounds, PC, SeedPC
  <2>10. CASE Serve(p)
    BY <2>10 DEF Serve, At, Goto, db, bounds, PC
  <2> QED BY <1>1, <2>1, <2>2, <2>3, <2>4, <2>5, <2>6, <2>7, <2>8, <2>9, <2>10 DEF Step
<1>2. ASSUME NEW p \in Pod, Crash(p) PROVE TypeOK'
  BY <1>2 DEF Crash, Goto, db, PC, MigratePC
<1>3. ASSUME NEW i \in SeedId, NEW t \in Status, Move(i, t) PROVE TypeOK'
  BY <1>3 DEF Move
<1>4. ASSUME Reap PROVE TypeOK'
  BY <1>4 DEF Reap, db, bounds
<1> QED BY <1>1, <1>2, <1>3, <1>4 DEF Next

LEMMA LockStep == ASSUME TypeOK, Locked, Next PROVE Locked'
<1> USE Consts DEF TypeOK, Locked
<1>1. ASSUME NEW p \in Pod, Step(p) PROVE Locked'
  <2>1. CASE MigrateLock(p)
    BY <2>1, Locks DEF MigrateLock, At, Goto, Acquire
  <2>2. CASE CommitLock(p) \/ ReadVersion(p) \/ Upgrade(p) \/ AddIfAbsent(p) \/ Serve(p)
    BY <2>2 DEF CommitLock, ReadVersion, Upgrade, AddIfAbsent, Serve, At, Goto
  <2>3. CASE CommitUpgrade(p)
    BY <2>3, Locks DEF CommitUpgrade, At, Goto
  <2>4. CASE CloseConnection(p)
    BY <2>4, Locks DEF CloseConnection, At, Goto
  <2>5. CASE SeedLock(p)
    BY <2>5, Locks DEF SeedLock, At, Goto, Acquire
  <2>6. CASE CommitSeed(p)
    BY <2>6, Locks DEF CommitSeed, At, Goto
  <2> QED BY <1>1, <2>1, <2>2, <2>3, <2>4, <2>5, <2>6 DEF Step
<1>2. ASSUME NEW p \in Pod, Crash(p) PROVE Locked'
  BY <1>2 DEF Crash, Goto
<1>3. ASSUME NEW i \in SeedId, NEW t \in Status, Move(i, t) PROVE Locked'
  BY <1>3 DEF Move
<1>4. ASSUME Reap PROVE Locked'
  BY <1>4 DEF Reap
<1> QED BY <1>1, <1>2, <1>3, <1>4 DEF Next

LEMMA MigrateStep == ASSUME TypeOK, Locked, Migrating, Next PROVE Migrating'
<1> USE DEF TypeOK, Migrating
<1>1. ASSUME NEW p \in Pod, Step(p) PROVE Migrating'
  <2>1. CASE MigrateLock(p) \/ CommitLock(p) \/ ReadVersion(p) \/ Upgrade(p)
    BY <2>1 DEF MigrateLock, CommitLock, ReadVersion, Upgrade, At, Goto, db, SeedPC
  <2>2. CASE CommitUpgrade(p)
    <3>1. ~schema /\ collided' = {} /\ schema' = TRUE /\ pc' = [pc EXCEPT ![p] = "close"]
      BY <2>2 DEF CommitUpgrade, At, Goto
    <3>2. \A q \in Pod : q # p => pc[q] \notin {"ddl", "commitDdl"}
      BY <2>2 DEF CommitUpgrade, At, Locked
    <3> QED BY <3>1, <3>2
  <2>3. CASE CloseConnection(p) \/ SeedLock(p) \/ AddIfAbsent(p) \/ CommitSeed(p) \/ Serve(p)
    BY <2>3 DEF CloseConnection, SeedLock, AddIfAbsent, CommitSeed, Serve, At, Goto, db, SeedPC
  <2> QED BY <1>1, <2>1, <2>2, <2>3 DEF Step
<1>2. ASSUME NEW p \in Pod, Crash(p) PROVE Migrating'
  BY <1>2 DEF Crash, Goto, db, SeedPC
<1>3. ASSUME NEW i \in SeedId, NEW t \in Status, Move(i, t) PROVE Migrating'
  BY <1>3 DEF Move
<1>4. ASSUME Reap PROVE Migrating'
  BY <1>4 DEF Reap, db
<1> QED BY <1>1, <1>2, <1>3, <1>4 DEF Next

LEMMA SeedStep == ASSUME TypeOK, Locked, Seeding, Next PROVE Seeding'
<1> USE SeedFacts, Consts DEF TypeOK, Seeding
<1>1. ASSUME NEW p \in Pod, Step(p) PROVE Seeding'
  <2>1. CASE MigrateLock(p) \/ CommitLock(p) \/ ReadVersion(p) \/ Upgrade(p) \/ CommitUpgrade(p)
    BY <2>1 DEF MigrateLock, CommitLock, ReadVersion, Upgrade, CommitUpgrade, At, Goto, db
  <2>2. CASE CloseConnection(p)
    BY <2>2 DEF CloseConnection, At, Goto, db
  <2>3. CASE SeedLock(p)
    BY <2>3 DEF SeedLock, At, Goto, db, SeedId
  <2>4. CASE AddIfAbsent(p)
    <3>1. next[p] \in SeedId /\ pc' = pc /\ status' = status /\ seeding' = seeding /\ pc[p] = "seed"
      BY <2>4 DEF AddIfAbsent, SeedId, At, db
    <3>2. \A q \in Pod : q # p => added'[q] = added[q] /\ next'[q] = next[q]
      BY <2>4 DEF AddIfAbsent
    <3>3. added'[p] = IF status[next[p]] = Absent THEN added[p] \cup {next[p]} ELSE added[p]
      BY <2>4 DEF AddIfAbsent
    <3>4. next'[p] = next[p] + 1
      BY <2>4 DEF AddIfAbsent
    <3>5. \A i \in SeedId : i < next'[p] => i < next[p] \/ i = next[p]
      BY <3>1, <3>4 DEF SeedId
    <3> QED BY <3>1, <3>2, <3>3, <3>5
  <2>5. CASE CommitSeed(p)
    <3>1. pc[p] = "seed" /\ pc' = [pc EXCEPT ![p] = "seeded"] /\ seeding' = seeding /\ next' = next
      BY <2>5 DEF CommitSeed, At, Goto
    <3>2. \A q \in Pod : q # p => pc[q] # "seed" /\ added[q] = {}
      BY <3>1 DEF Locked
    <3>3. added' = [added EXCEPT ![p] = {}]
      BY <2>5 DEF CommitSeed
    <3>4. \A i \in SeedId : status'[i] = IF i \in added[p] THEN SEEDS[i].status ELSE status[i]
      BY <2>5 DEF CommitSeed
    <3>5. ASSUME NEW i \in SeedId PROVE status'[i] # Absent
      <4>1. i < next[p]
        BY <2>5 DEF CommitSeed, SeedId
      <4>2. status[i] # Absent \/ i \in added[p]
        BY <3>1, <4>1
      <4> QED BY <3>4, <4>2
    <3> QED BY <3>1, <3>2, <3>3, <3>5
  <2>6. CASE Serve(p)
    BY <2>6 DEF Serve, At, Goto, db
  <2> QED BY <1>1, <2>1, <2>2, <2>3, <2>4, <2>5, <2>6 DEF Step
<1>2. ASSUME NEW p \in Pod, Crash(p) PROVE Seeding'
  BY <1>2 DEF Crash, Goto, db
<1>3. ASSUME NEW i \in SeedId, NEW t \in Status, Move(i, t) PROVE Seeding'
  <2>1. status[i] # Absent /\ status' = [status EXCEPT ![i] = t] /\ t # Absent
    BY <1>3 DEF Move
  <2>2. UNCHANGED <<seeding, pc, next, added>>
    BY <1>3 DEF Move
  <2> QED BY <2>1, <2>2
<1>4. ASSUME Reap PROVE Seeding'
  BY <1>4 DEF Reap, db
<1> QED BY <1>1, <1>2, <1>3, <1>4 DEF Next

----------------------------------------------------------------------------
\* The strengthened invariant holds in every reachable state.
THEOREM Invariance == Spec => []IInv
<1>1. Init => IInv
  <2>1. ASSUME Init PROVE TypeOK
    <3>1. seeding \in BOOLEAN /\ schema \in BOOLEAN
      BY <2>1 DEF Init
    <3>2. next \in [Pod -> 1..Len(SEEDS) + 1] /\ crashes \in 0..MaxCrashes /\ moves \in 0..MaxMoves
      BY <2>1, StartupAssumption, SeedFacts DEF Init
    <3>3. status \in [SeedId -> Status \cup {Absent}] /\ pc \in [Pod -> PC]
      BY <2>1 DEF Init, PC, MigratePC
    <3> QED BY <2>1, <3>1, <3>2, <3>3 DEF Init, TypeOK
  <2>2. ASSUME Init PROVE Locked /\ Migrating /\ Seeding
    BY <2>2, SeedFacts DEF Init, Locked, Migrating, Seeding, SeedPC, SeedId
  <2> QED BY <2>1, <2>2 DEF IInv
<1>2. IInv /\ [Next]_vars => IInv'
  <2>1. ASSUME IInv, Next PROVE IInv'
    BY <2>1, TypeStep, LockStep, MigrateStep, SeedStep DEF IInv
  <2>2. ASSUME IInv, UNCHANGED vars PROVE IInv'
    BY <2>2 DEF IInv, TypeOK, Locked, Migrating, Seeding, vars
  <2> QED BY <2>1, <2>2
<1> QED BY <1>1, <1>2, PTL DEF Spec

\* Every variable keeps its type (env.py:25-37, seed.py:298-316).
THEOREM TypeCorrect == Spec => []TypeOK
<1>1. IInv => TypeOK
  BY DEF IInv
<1> QED BY <1>1, Invariance, PTL

\* The migration is executed by one pod at a time and never twice, whoever
\* crashes holding the lock (env.py:31-34).
THEOREM OneMigration == Spec => []MigratedOnce
<1>1. IInv => MigratedOnce
  BY DEF IInv, Migrating, Locked, MigratedOnce
<1> QED BY <1>1, Invariance, PTL

\* Whoever serves does so over the schema at head and all of the demo data
\* (migrate.sh:4-8).
THEOREM ServingIsReady == Spec => []ServesMigratedAndSeeded
<1>1. IInv => ServesMigratedAndSeeded
  BY DEF IInv, Migrating, Seeding, ServesMigratedAndSeeded
<1> QED BY <1>1, Invariance, PTL

\* No seeding takes an operator's work back (seed.py:3-4).
THEOREM SeedingRepeats == Spec => SeedIsIdempotent
<1> DEFINE A == \A i \in SeedId : status'[i] # status[i] =>
       \/ status[i] = Absent /\ status'[i] = SEEDS[i].status
       \/ status[i] # Absent /\ can_transition(status[i], status'[i])
<1>1. IInv /\ [Next]_vars => [A]_vars
  <2> SUFFICES ASSUME IInv, Next PROVE A
    OBVIOUS
  <2>1. ASSUME NEW p \in Pod, CommitSeed(p) PROVE A
    BY <2>1 DEF CommitSeed, IInv, Seeding, TypeOK
  <2>2. ASSUME NEW i \in SeedId, NEW t \in Status, Move(i, t) PROVE A
    BY <2>2 DEF Move, IInv, TypeOK
  <2>3. ASSUME status' = status PROVE A
    BY <2>3
  <2>4. ASSUME NEW p \in Pod, Step(p), ~CommitSeed(p) PROVE status' = status
    BY <2>4 DEF Step, MigrateLock, CommitLock, ReadVersion, Upgrade, CommitUpgrade, CloseConnection,
      SeedLock, AddIfAbsent, Serve, db
  <2>5. ASSUME NEW p \in Pod, Crash(p) PROVE status' = status
    BY <2>5 DEF Crash, db
  <2>6. Reap => status' = status
    BY DEF Reap, db
  <2> QED BY <2>1, <2>2, <2>3, <2>4, <2>5, <2>6 DEF Next
<1> QED BY <1>1, Invariance, PTL DEF Spec, SeedIsIdempotent

\* Whoever holds one of the locks is at work under it: past its taking, and not in
\* front of the other one.
HoldersWork ==
  \A p \in Pod :
    /\ lock["migrate"] = p => pc[p] \in {"locked", "upgrade", "ddl", "commitDdl", "close"}
    /\ lock["seed"] = p => pc[p] = "seed"

LEMMA HoldersStep == ASSUME TypeOK, HoldersWork, Next PROVE HoldersWork'
<1> USE Consts DEF TypeOK, HoldersWork
<1>1. ASSUME NEW p \in Pod, Step(p) PROVE HoldersWork'
  <2>1. CASE MigrateLock(p) \/ SeedLock(p)
    <3>1. PICK l \in {"migrate", "seed"}, to \in {"locked", "seed"} :
            /\ pc[p] \in {"init", "seedLock"} /\ pc' = [pc EXCEPT ![p] = to] /\ lock' = [lock EXCEPT ![l] = p]
            /\ to = IF l = "migrate" THEN "locked" ELSE "seed"
      BY <2>1 DEF MigrateLock, SeedLock, At, Goto, Acquire
    <3>2. lock["migrate"] # p /\ lock["seed"] # p
      BY <3>1
    <3> QED BY <3>1, <3>2
  <2>2. CASE CommitLock(p) \/ ReadVersion(p) \/ Upgrade(p) \/ AddIfAbsent(p) \/ Serve(p)
    BY <2>2 DEF CommitLock, ReadVersion, Upgrade, AddIfAbsent, Serve, At, Goto
  <2>3. CASE CommitUpgrade(p)
    BY <2>3 DEF CommitUpgrade, At, Goto, Release
  <2>4. CASE CloseConnection(p) \/ CommitSeed(p)
    BY <2>4 DEF CloseConnection, CommitSeed, At, Goto, Release
  <2> QED BY <1>1, <2>1, <2>2, <2>3, <2>4 DEF Step
<1>2. ASSUME NEW p \in Pod, Crash(p) PROVE HoldersWork'
  BY <1>2 DEF Crash, Goto
<1>3. ASSUME NEW i \in SeedId, NEW t \in Status, Move(i, t) PROVE HoldersWork'
  BY <1>3 DEF Move
<1>4. ASSUME Reap PROVE HoldersWork'
  BY <1>4 DEF Reap
<1> QED BY <1>1, <1>2, <1>3, <1>4 DEF Next

\* A pod that waits for an advisory lock holds none, and a lock is never left behind
\* by a pod that goes on without it: so the two locks cannot make pods wait in a
\* circle, whoever crashes (env.py:31-36, complaint_repository.py:106-109).
THEOREM NoCircleOfLocks == Spec => []HoldersWork
<1>1. Init => HoldersWork
  BY Consts DEF Init, HoldersWork
<1>2. IInv /\ HoldersWork /\ [Next]_vars => HoldersWork'
  <2>1. ASSUME HoldersWork, UNCHANGED vars PROVE HoldersWork'
    BY <2>1 DEF HoldersWork, vars
  <2> QED BY <2>1, HoldersStep DEF IInv
<1> QED BY <1>1, <1>2, Invariance, PTL DEF Spec

----------------------------------------------------------------------------
\* The rules, by which the demo data is classified and every triage that fails.

\* Five scores have a first maximum.
LEMMA FirstMaximum ==
  ASSUME NEW score \in [R!Keyworded -> Nat]
  PROVE  \E i \in R!Keyworded :
           /\ \A j \in R!Keyworded : score[j] <= score[i]
           /\ \A j \in R!Keyworded : j < i => score[j] < score[i]
<1> DEFINE First(i) == /\ \A j \in R!Keyworded : score[j] <= score[i]
                       /\ \A j \in R!Keyworded : j < i => score[j] < score[i]
<1>1. R!Keyworded = {1, 2, 3, 4, 5}
  BY DEF R!Keyworded
<1>2. score[1] \in Nat /\ score[2] \in Nat /\ score[3] \in Nat /\ score[4] \in Nat /\ score[5] \in Nat
  BY <1>1
<1>3. First(1) \/ First(2) \/ First(3) \/ First(4) \/ First(5)
  BY <1>1, <1>2
<1> QED BY <1>1, <1>3

\* Best, which is given by a CHOOSE, is the maximum it is said to be.
LEMMA FirstOfTheBest ==
  ASSUME NEW score \in [R!Keyworded -> Nat]
  PROVE  /\ R!Best(score) \in R!Keyworded
         /\ \A j \in R!Keyworded : score[j] <= score[R!Best(score)]
         /\ \A j \in R!Keyworded : j < R!Best(score) => score[j] < score[R!Best(score)]
BY FirstMaximum DEF R!Best

\* For every text the rules answer what the schema accepts exactly when the
\* summary is one line: the fallback of a triage fails for no other reason
\* (rules.py:118-140, schemas.py:39-47).
THEOREM RulesAreTotal ==
  ASSUME NEW t \in R!Text
  PROVE  R!triage(t) \in R!TriageResult <=> t.oneLine
<1>1. t.score \in [R!Keyworded -> Nat] /\ t.length \in Nat \ {0} /\ t.oneLine \in BOOLEAN
  BY DEF R!Text
<1>2. R!Best(t.score) \in R!Keyworded /\ t.score[R!Best(t.score)] \in Nat
  BY <1>1, FirstOfTheBest
<1>3. R!CategoryOf(t) \in R!Category
  BY <1>2 DEF R!CategoryOf, R!Category
<1>4. R!PriorityOf(t) \in R!Priority
  BY DEF R!PriorityOf, R!Priority
<1>5. R!ConfidenceOf(t) \in 0..10
  BY <1>2 DEF R!ConfidenceOf
<1>6. (IF t.length > R!SUMMARY_MAX THEN R!SUMMARY_MAX ELSE t.length) \in 1..R!SUMMARY_MAX
  BY <1>1 DEF R!SUMMARY_MAX
<1>7. t.oneLine \in {TRUE} <=> t.oneLine
  BY <1>1, Zenon
<1>8. R!triage(t).summary.oneLine = t.oneLine
  BY DEF R!triage
<1>9. R!triage(t) \in R!TriageResult => t.oneLine
  <2>1. R!triage(t) \in R!TriageResult => R!triage(t).summary.oneLine \in {TRUE}
    BY DEF R!TriageResult
  <2> QED BY <2>1, <1>7, <1>8, Zenon
<1>10. ASSUME t.oneLine \in {TRUE} PROVE R!triage(t) \in R!TriageResult
  BY <1>10, <1>3, <1>4, <1>5, <1>6 DEF R!triage, R!TriageResult
<1> QED BY <1>7, <1>9, <1>10, Zenon

----------------------------------------------------------------------------
\* The demo data, classified by the rules.

\* Every seed is made from five numbers of keywords and a status of a complaint.
LEMMA SeedsMade ==
  ASSUME NEW S,
         \A a, b, c, d, e \in Nat : \A words : \A st \in Status : Seed(<<a, b, c, d, e>>, words, st) \in S
  PROVE  \A i \in SeedId : SEEDS[i] \in S
<1>1. SEEDS \in Seq(S)
  BY SMTT(30) DEF SEEDS, Status
<1> QED BY <1>1 DEF SeedId

LEMMA SeedScores ==
  \A i \in SeedId : SEEDS[i].text.score \in [R!Keyworded -> Nat]
<1> DEFINE Scores == [R!Keyworded -> Nat]
           S == [text : [score : Scores, high : BOOLEAN, low : BOOLEAN, length : {140}, oneLine : {TRUE}],
                 status : Status]
<1>1. ASSUME NEW a \in Nat, NEW b \in Nat, NEW c \in Nat, NEW d \in Nat, NEW e \in Nat
      PROVE  <<a, b, c, d, e>> \in Scores
  BY DEF R!Keyworded
<1> HIDE DEF Scores
<1>2. \A t \in Scores : \A words : \A st \in Status : Seed(t, words, st) \in S
  BY DEF Seed
<1>3. \A s \in S : s.text.score \in Scores
  OBVIOUS
<1> HIDE DEF S
<1>4. \A i \in SeedId : SEEDS[i] \in S
  BY <1>1, <1>2, SeedsMade
<1> QED BY <1>3, <1>4 DEF Scores

\* A seed with keywords of one category only is of that category.
LEMMA OnlyCategory ==
  ASSUME NEW i \in SeedId, NEW k \in R!Keyworded,
         SEEDS[i].text.score[k] > 0,
         \A j \in R!Keyworded : j # k => SEEDS[i].text.score[j] = 0
  PROVE  Triaged(i).category = R!Declared[k]
<1> DEFINE score == SEEDS[i].text.score
<1>1. score \in [R!Keyworded -> Nat]
  BY SeedScores
<1>2. R!Best(score) \in R!Keyworded /\ score[k] <= score[R!Best(score)]
  BY <1>1, FirstOfTheBest
<1>3. R!Best(score) = k
  BY <1>1, <1>2
<1> QED BY <1>3 DEF Triaged, R!triage, R!CategoryOf

\* Five of the seeds, of five categories.
LEMMA FiveSeeds ==
  /\ {1, 3, 4, 5, 6} \subseteq SeedId
  /\ Triaged(1).category = "water"
  /\ Triaged(3).category = "electricity"
  /\ Triaged(4).category = "sanitation"
  /\ Triaged(5).category = "roads"
  /\ Triaged(6).category = "streetlights"
<1>1. {1, 3, 4, 5, 6} \subseteq SeedId
  BY DEF SEEDS, SeedId
<1>2. /\ SEEDS[1].text.score = <<3, 0, 0, 0, 0>>
      /\ SEEDS[3].text.score = <<0, 3, 0, 0, 0>>
      /\ SEEDS[4].text.score = <<0, 0, 3, 0, 0>>
      /\ SEEDS[5].text.score = <<0, 0, 0, 2, 0>>
      /\ SEEDS[6].text.score = <<0, 0, 0, 0, 1>>
  BY SMTT(60) DEF SEEDS, Seed
<1> DEFINE Only(i, k) ==
             /\ i \in SeedId /\ k \in R!Keyworded /\ SEEDS[i].text.score[k] > 0
             /\ \A j \in R!Keyworded : j # k => SEEDS[i].text.score[j] = 0
<1>3. Only(1, 1) /\ Only(3, 2) /\ Only(4, 3) /\ Only(5, 4) /\ Only(6, 5)
  BY <1>1, <1>2 DEF R!Keyworded
<1>4. \A i, k : Only(i, k) => Triaged(i).category = R!Declared[k]
  BY OnlyCategory
<1> HIDE DEF Only
<1>5. /\ Triaged(1).category = R!Declared[1] /\ Triaged(3).category = R!Declared[2]
      /\ Triaged(4).category = R!Declared[3] /\ Triaged(5).category = R!Declared[4]
      /\ Triaged(6).category = R!Declared[5]
  BY <1>3, <1>4
<1> QED BY <1>1, <1>5 DEF R!Declared

LEMMA OneMore ==
  ASSUME NEW S, NEW T, NEW x, IsFiniteSet(S), x \notin S, T = S \cup {x}
  PROVE  IsFiniteSet(T) /\ Cardinality(T) = Cardinality(S) + 1
BY FS_AddElement

\* In every reachable state the demo data is classified as the rules are
\* documented, and whoever serves it shows at least five categories, whatever
\* crashed on the way (rules.py:120-121, test_seed_and_logging.py:19).
THEOREM DemoDataStaysVaried == Spec => []DemoDataIsVaried
<1>1. ASSUME NEW i \in SeedId
      PROVE  LET score == SEEDS[i].text.score
                 cat == Triaged(i).category
             IN  \/ cat = "other" /\ \A k \in R!Keyworded : score[k] = 0
                 \/ \E k \in R!Keyworded :
                      /\ cat = R!Declared[k] /\ score[k] > 0
                      /\ \A j \in R!Keyworded : score[j] <= score[k] /\ (j < k => score[j] < score[k])
  <2> DEFINE score == SEEDS[i].text.score
             best == R!Best(score)
  <2>1. score \in [R!Keyworded -> Nat]
    BY SeedScores
  <2>2. /\ best \in R!Keyworded
        /\ \A j \in R!Keyworded : score[j] <= score[best] /\ (j < best => score[j] < score[best])
    BY <2>1, FirstOfTheBest
  <2>3. Triaged(i).category = IF score[best] > 0 THEN R!Declared[best] ELSE "other"
    BY DEF Triaged, R!triage, R!CategoryOf
  <2>4. CASE score[best] > 0
    BY <2>2, <2>3, <2>4
  <2>5. CASE ~(score[best] > 0)
    <3>1. \A k \in R!Keyworded : score[k] = 0
      BY <2>1, <2>2, <2>5
    <3> QED BY <2>3, <2>5, <3>1
  <2> QED BY <2>4, <2>5
<1>2. ASSUME IInv, seeding, NEW p \in Pod, pc[p] = "serving"
      PROVE  Cardinality({Triaged(i).category : i \in {j \in SeedId : status[j] # Absent}}) >= 5
  <2> DEFINE Shown == {Triaged(i).category : i \in {j \in SeedId : status[j] # Absent}}
             Five == {"water", "electricity", "sanitation", "roads", "streetlights"}
  <2>1. \A i \in SeedId : status[i] # Absent
    BY <1>2 DEF IInv, Seeding
  <2>2. Five \subseteq Shown
    BY <2>1, FiveSeeds
  <2>3. IsFiniteSet(Five) /\ Cardinality(Five) = 5
    <3> DEFINE Two == {"water", "electricity"}
               Three == {"water", "electricity", "sanitation"}
               Four == {"water", "electricity", "sanitation", "roads"}
    <3>1. IsFiniteSet({"water"}) /\ Cardinality({"water"}) = 1
      BY FS_Singleton
    <3>2. IsFiniteSet(Two) /\ Cardinality(Two) = 2
      <4>1. Two = {"water"} \cup {"electricity"} /\ "electricity" \notin {"water"}
        OBVIOUS
      <4> QED BY <3>1, <4>1, OneMore
    <3>3. IsFiniteSet(Three) /\ Cardinality(Three) = 3
      <4>1. Three = Two \cup {"sanitation"} /\ "sanitation" \notin Two
        OBVIOUS
      <4> HIDE DEF Two, Three
      <4> QED BY <3>2, <4>1, OneMore
    <3>4. IsFiniteSet(Four) /\ Cardinality(Four) = 4
      <4>1. Four = Three \cup {"roads"} /\ "roads" \notin Three
        OBVIOUS
      <4> HIDE DEF Three, Four
      <4> QED BY <3>3, <4>1, OneMore
    <3>5. Five = Four \cup {"streetlights"} /\ "streetlights" \notin Four
      OBVIOUS
    <3> HIDE DEF Four, Five
    <3> QED BY <3>4, <3>5, OneMore
  <2>4. IsFiniteSet(Shown)
    <3>1. Shown \subseteq Five \cup {"other"}
      BY <1>1 DEF R!Declared, R!Keyworded
    <3>2. IsFiniteSet(Five \cup {"other"})
      BY <2>3, FS_AddElement
    <3> QED BY <3>1, <3>2, FS_Subset
  <2> HIDE DEF Shown, Five
  <2>5. Cardinality(Five) <= Cardinality(Shown) /\ Cardinality(Shown) \in Nat
    BY <2>2, <2>4, FS_Subset, FS_CardinalityType
  <2> QED BY <2>3, <2>5 DEF Shown
<1>3. IInv => DemoDataIsVaried
  BY <1>1, <1>2 DEF DemoDataIsVaried
<1> QED BY <1>3, Invariance, PTL
=============================================================================
