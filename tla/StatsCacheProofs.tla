--------------------------- MODULE StatsCacheProofs ---------------------------
(***************************************************************************)
(* What the stats cache guarantees for every number of readers, writers and *)
(* SELECTs, every TTL and every lag.                                        *)
(***************************************************************************)
EXTENDS StatsCache, TLAPS

\* How many SELECTs the reader's view holds.
Taken(r) == IF rpc[r] = "set" THEN Selects ELSE next[r] - 1

\* Of each fill under way, of the entry, and of the entry a restart would bring
\* back: what it misses, it misses for a reason.
Overtaking ==
  /\ diskDeleted \subseteq deleted
  /\ deleted \subseteq Done
  /\ \A w \in deleted : Stale(cache, w) => w \in cache.over
  /\ \A w \in diskDeleted : Stale(disk, w) => w \in disk.over
  /\ \A r \in Reader : Filling(r) =>
       \A k \in 1..Taken(r), w \in deleted : w \in view[r][k] \/ w \in overtaken[r]

Ages ==
  /\ \A w \in Writer : wpc[w] = "commit" => age[w] = 0
  /\ \A w \in Writer, e \in {cache, disk} : Stale(e, w) => age[w] + e.left <= Cap
  /\ \A r \in Reader : Filling(r) =>
       \A k \in 1..Taken(r), w \in Done : w \in view[r][k] \/ age[w] <= busy[r]

Forward ==
  /\ \A r \in Reader :
       /\ rpc[r] = "idle" => next[r] = 1
       /\ \A k \in Select : view[r][k] \subseteq Done
       /\ Filling(r) => LaterSelectsSeeMore(view[r], Taken(r))
       /\ rpc[r] = "answer" => LaterSelectsSeeMore(view[r], Selects)
  /\ \A e \in {cache, disk} :
       /\ \A k \in Select : e.shows[k] \subseteq Done
       /\ LaterSelectsSeeMore(e.shows, Selects)

IInv == TypeOK /\ Overtaking /\ Ages /\ Forward

----------------------------------------------------------------------------
\* What a step may do to the state, named once for all the cases.
Act ==
  \/ \E r \in Reader :
       Hit(r) \/ Miss(r) \/ Aggregate(r) \/ Store(r) \/ StoreReplyLost(r) \/ StoreFails(r) \/ End(r)
  \/ \E w \in Writer : Commit(w) \/ Delete(w) \/ NoDelete(w)
  \/ Fsync \/ RestartRedis \/ Tick

LEMMA NextIsAct == Next <=> Act
BY DEF Next, Act, Proceed

LEMMA BlankIsView == Blank \in View /\ Nothing \in Entry /\ Nothing.left = 0
BY CacheAssumption DEF Blank, View, Nothing, Entry

LEMMA DecayedEntry ==
  ASSUME NEW e \in Entry
  PROVE  /\ Decay(e) \in Entry
         /\ Decay(e).left > 0 => /\ Decay(e).left = e.left - 1 /\ e.left > 0
                                 /\ Decay(e).shows = e.shows /\ Decay(e).over = e.over
BY BlankIsView, CacheAssumption DEF Decay, Entry

LEMMA DoneGrows == ASSUME TypeOK, Act PROVE Done \subseteq Done'
BY DEF TypeOK, Act, Done, Hit, Miss, Aggregate, Store, StoreReplyLost, Stores, StoreFails, End,
  Commit, Delete, NoDelete, Fsync, RestartRedis, Tick, readers, writers, redis

LEMMA TypeStep == ASSUME TypeOK, Act PROVE TypeOK'
<1> USE CacheAssumption, BlankIsView DEF TypeOK, readers, writers, redis
<1>1. ASSUME NEW r \in Reader, Hit(r) PROVE TypeOK'
  BY <1>1 DEF Hit, Entry
<1>2. ASSUME NEW r \in Reader, Miss(r) PROVE TypeOK'
  BY <1>2 DEF Miss
<1>3. ASSUME NEW r \in Reader, Aggregate(r) PROVE TypeOK'
  <2>1. Done \in SUBSET Writer
    BY DEF Done
  <2>2. [view[r] EXCEPT ![next[r]] = Done] \in View
    BY <2>1 DEF View
  <2>3. view' \in [Reader -> View]
    BY <1>3, <2>2 DEF Aggregate
  <2>4. next' \in [Reader -> Select] /\ rpc' \in [Reader -> {"idle", "select", "set", "answer"}]
    BY <1>3 DEF Aggregate, Select
  <2> QED BY <1>3, <2>3, <2>4 DEF Aggregate
<1>4. ASSUME NEW r \in Reader, Store(r) \/ StoreReplyLost(r) PROVE TypeOK'
  <2>1. cache' \in Entry
    BY <1>4 DEF Store, StoreReplyLost, Stores, Entry
  <2> QED BY <1>4, <2>1 DEF Store, StoreReplyLost, Stores
<1>5. ASSUME NEW r \in Reader, StoreFails(r) PROVE TypeOK'
  BY <1>5 DEF StoreFails
<1>6. ASSUME NEW r \in Reader, End(r) PROVE TypeOK'
  BY <1>6 DEF End, Select
<1>7. ASSUME NEW w \in Writer, Commit(w) \/ NoDelete(w) PROVE TypeOK'
  BY <1>7 DEF Commit, NoDelete
<1>8. ASSUME NEW w \in Writer, Delete(w) PROVE TypeOK'
  BY <1>8 DEF Delete
<1>9. CASE Fsync \/ RestartRedis
  BY <1>9 DEF Fsync, RestartRedis
<1>10. CASE Tick
  <2>1. cache' \in Entry /\ disk' \in Entry
    BY <1>10, DecayedEntry DEF Tick
  <2>2. age' \in [Writer -> 0..Cap]
    BY <1>10 DEF Tick, Cap
  <2>3. busy' \in [Reader -> 0..MaxLag]
    BY <1>10 DEF Tick
  <2> QED BY <1>10, <2>1, <2>2, <2>3 DEF Tick
<1> QED
  BY <1>1, <1>2, <1>3, <1>4, <1>5, <1>6, <1>7, <1>8, <1>9, <1>10 DEF Act

LEMMA OvertakingStep == ASSUME IInv, Act PROVE Overtaking'
<1>0. TypeOK /\ Overtaking /\ Forward /\ Done \subseteq Done'
  BY DoneGrows DEF IInv
<1> USE <1>0, CacheAssumption
    DEF TypeOK, Overtaking, Stale, Filling, Taken, readers, writers, redis
<1>1. ASSUME NEW r \in Reader, Hit(r) \/ Miss(r) \/ StoreFails(r) \/ End(r) PROVE Overtaking'
  <2>1. /\ UNCHANGED <<wpc, cache, disk, deleted, diskDeleted>>
        /\ \A q \in Reader : Filling(q)' =>
             \/ q = r /\ Miss(r)
             \/ Filling(q) /\ UNCHANGED <<rpc[q], next[q], view[q], overtaken[q]>>
    BY <1>1 DEF Hit, Miss, StoreFails, End
  <2>2. Miss(r) => Taken(r)' = 0
    BY DEF Miss, Forward, Select
  <2> QED BY <2>1, <2>2 DEF Done
<1>2. ASSUME NEW r \in Reader, Aggregate(r) PROVE Overtaking'
  <2>1. /\ UNCHANGED <<wpc, cache, disk, deleted, diskDeleted, overtaken>>
        /\ \A q \in Reader \ {r} : UNCHANGED <<rpc[q], next[q], view[q]>>
        /\ view'[r] = [view[r] EXCEPT ![next[r]] = Done]
        /\ Taken(r)' = Taken(r) + 1 /\ Taken(r)' = next[r] /\ Filling(r)
    BY <1>2 DEF Aggregate, Select
  <2>2. ASSUME NEW k \in 1..Taken(r)', NEW w \in deleted PROVE w \in view'[r][k] \/ w \in overtaken[r]
    <3>1. k \in Select /\ next[r] \in Select /\ view[r] \in View
      BY <2>1, <2>2 DEF Select
    <3>2. CASE k = next[r]
      BY <2>1, <3>1, <3>2 DEF View
    <3>3. CASE k # next[r]
      <4>1. k \in 1..Taken(r) /\ view'[r][k] = view[r][k]
        BY <2>1, <2>2, <3>1, <3>3 DEF View, Select
      <4> QED BY <2>1, <2>2, <4>1
    <3> QED BY <3>2, <3>3
  <2> QED BY <2>1, <2>2 DEF Done
<1>3. ASSUME NEW r \in Reader, Stores(r), rpc' = rpc \/ rpc' = [rpc EXCEPT ![r] = "answer"]
      PROVE  Overtaking'
  <2>1. \A w \in deleted, k \in Select : w \in view[r][k] \/ w \in overtaken[r]
    BY <1>3 DEF Stores, Select
  <2> QED BY <1>3, <2>1 DEF Stores, Done
<1>4. ASSUME NEW w \in Writer, Commit(w) \/ NoDelete(w) PROVE Overtaking'
  <2>1. UNCHANGED <<cache, disk, deleted, diskDeleted, rpc, next, view, overtaken>>
    BY <1>4 DEF Commit, NoDelete
  <2>2. \A v \in deleted : v \in Done
    OBVIOUS
  <2> QED BY <2>1, <2>2
<1>5. ASSUME NEW w \in Writer, Delete(w) PROVE Overtaking'
  <2>1. w \in Done'
    BY <1>5 DEF Delete, Done
  <2>2. \A q \in Reader : Filling(q) => overtaken'[q] = overtaken[q] \cup {w}
    BY <1>5 DEF Delete
  <2> QED BY <1>5, <2>1, <2>2, BlankIsView DEF Delete, Nothing
<1>6. CASE Fsync \/ RestartRedis
  BY <1>6 DEF Fsync, RestartRedis, Done
<1>7. CASE Tick
  BY <1>7, DecayedEntry DEF Tick, Done
<1> QED
  BY <1>1, <1>2, <1>3, <1>4, <1>5, <1>6, <1>7 DEF Act, Store, StoreReplyLost

LEMMA AgesStep == ASSUME IInv, Act PROVE Ages'
<1>0. TypeOK /\ Ages /\ Forward /\ Done \subseteq Done'
  BY DoneGrows DEF IInv
<1> USE <1>0, CacheAssumption DEF TypeOK, Ages, Stale, Filling, Taken, Done, readers, writers, redis
<1>1. ASSUME NEW r \in Reader, Hit(r) \/ Miss(r) \/ StoreFails(r) \/ End(r) PROVE Ages'
  <2>1. /\ UNCHANGED <<wpc, age, cache, disk>>
        /\ \A q \in Reader : Filling(q)' =>
             \/ q = r /\ Miss(r)
             \/ Filling(q) /\ UNCHANGED <<rpc[q], next[q], view[q], busy[q]>>
    BY <1>1 DEF Hit, Miss, StoreFails, End
  <2>2. Miss(r) => Taken(r)' = 0
    BY DEF Miss, Forward, Select
  <2> QED BY <2>1, <2>2
<1>2. ASSUME NEW r \in Reader, Aggregate(r) PROVE Ages'
  <2>1. /\ UNCHANGED <<wpc, age, cache, disk, busy>>
        /\ \A q \in Reader \ {r} : UNCHANGED <<rpc[q], next[q], view[q]>>
        /\ view'[r] = [view[r] EXCEPT ![next[r]] = Done]
        /\ Taken(r)' = Taken(r) + 1 /\ Taken(r)' = next[r] /\ Filling(r)
    BY <1>2 DEF Aggregate, Select
  <2>2. ASSUME NEW k \in 1..Taken(r)', NEW w \in Done PROVE w \in view'[r][k] \/ age[w] <= busy[r]
    <3>1. k \in Select /\ next[r] \in Select /\ view[r] \in View
      BY <2>1, <2>2 DEF Select
    <3>2. CASE k = next[r]
      BY <2>1, <2>2, <3>1, <3>2 DEF View
    <3>3. CASE k # next[r]
      <4>1. k \in 1..Taken(r) /\ view'[r][k] = view[r][k]
        BY <2>1, <2>2, <3>1, <3>3 DEF View, Select
      <4> QED BY <2>1, <2>2, <4>1
    <3> QED BY <3>2, <3>3
  <2> QED BY <2>1, <2>2
<1>3. ASSUME NEW r \in Reader, Stores(r), rpc' = rpc \/ rpc' = [rpc EXCEPT ![r] = "answer"]
      PROVE  Ages'
  <2>1. \A w \in Done, k \in Select : w \in view[r][k] \/ age[w] <= busy[r]
    BY <1>3 DEF Stores, Select
  <2>2. \A w \in Writer : Stale(cache, w)' => age'[w] + cache'.left <= Cap
    BY <1>3, <2>1 DEF Stores, Cap
  <2> QED BY <1>3, <2>2 DEF Stores
<1>4. ASSUME NEW w \in Writer, Commit(w) PROVE Ages'
  <2>1. /\ UNCHANGED <<age, cache, disk, rpc, next, view, busy>>
        /\ age[w] = 0 /\ Done' = Done \cup {w}
    BY <1>4 DEF Commit
  <2>2. \A e \in {cache, disk} : e.left \in 0..TTL
    BY DEF Entry
  <2> QED BY <1>4, <2>1, <2>2 DEF Commit, Cap
<1>5. ASSUME NEW w \in Writer, NoDelete(w) PROVE Ages'
  BY <1>5 DEF NoDelete
<1>6. ASSUME NEW w \in Writer, Delete(w) PROVE Ages'
  BY <1>6, BlankIsView DEF Delete
<1>7. CASE Fsync \/ RestartRedis
  BY <1>7 DEF Fsync, RestartRedis
<1>8. CASE Tick
  <2>1. UNCHANGED <<wpc, rpc, next, view>>
    BY <1>8 DEF Tick
  <2>2. \A w \in Writer : age'[w] <= age[w] + 1 /\ (wpc[w] = "commit" => age'[w] = age[w])
    BY <1>8 DEF Tick, Cap
  <2>3. \A r \in Reader : Filling(r) => busy'[r] = busy[r] + 1
    BY <1>8 DEF Tick
  <2>4. ASSUME NEW w \in Writer, NEW e \in {cache, disk}, Stale(Decay(e), w)'
        PROVE  age'[w] + Decay(e).left <= Cap
    <3>1. e \in Entry
      OBVIOUS
    <3>2. Decay(e).left = e.left - 1 /\ e.left > 0 /\ Decay(e).shows = e.shows
      BY <2>4, <3>1, DecayedEntry
    <3>3. age[w] + e.left <= Cap
      BY <2>1, <2>4, <3>2
    <3>4. age[w] \in Nat /\ age'[w] \in Nat /\ e.left \in Nat /\ Cap \in Nat
      BY <3>1, TypeStep DEF Entry, Cap
    <3> QED BY <2>2, <3>2, <3>3, <3>4
  <2>5. ASSUME NEW w \in Writer, NEW e \in {cache, disk}', Stale(e, w)'
        PROVE  age'[w] + e.left <= Cap
    BY <1>8, <2>4, <2>5 DEF Tick
  <2>6. ASSUME NEW r \in Reader, Filling(r)', NEW k \in 1..Taken(r)', NEW w \in Done'
        PROVE  w \in view'[r][k] \/ age'[w] <= busy'[r]
    <3>1. Filling(r) /\ k \in 1..Taken(r) /\ w \in Done /\ view'[r] = view[r]
      BY <2>1, <2>6
    <3>2. age[w] \in Nat /\ age'[w] \in Nat /\ busy[r] \in Nat
      BY <2>6, TypeStep DEF Cap
    <3> QED BY <2>2, <2>3, <3>1, <3>2
  <2> QED BY <2>1, <2>2, <2>5, <2>6
<1> QED
  BY <1>1, <1>2, <1>3, <1>4, <1>5, <1>6, <1>7, <1>8 DEF Act, Store, StoreReplyLost

LEMMA ForwardStep == ASSUME IInv, Act PROVE Forward'
<1>0. TypeOK /\ Forward /\ Done \subseteq Done'
  BY DoneGrows DEF IInv
<1> USE <1>0, CacheAssumption
    DEF TypeOK, Forward, Filling, Taken, LaterSelectsSeeMore, readers, writers, redis
<1>1. ASSUME NEW r \in Reader, Hit(r) PROVE Forward'
  <2>1. \A k \in Select : cache.shows[k] \subseteq Done
    OBVIOUS
  <2> QED BY <1>1, <2>1 DEF Hit, Select
<1>2. ASSUME NEW r \in Reader, Miss(r) PROVE Forward'
  <2>1. Taken(r)' = 0
    BY <1>2 DEF Miss, Select
  <2> QED BY <1>2, <2>1 DEF Miss
<1>3. ASSUME NEW r \in Reader, Aggregate(r) PROVE Forward'
  <2>0. rpc[r] = "select" /\ next[r] \in Select /\ Selects \in Nat \ {0} /\ rpc \in [Reader -> {"idle", "select", "set", "answer"}]
    BY <1>3 DEF Aggregate
  <2>1. /\ UNCHANGED <<wpc, cache, disk>> /\ rpc'[r] \in {"select", "set"}
        /\ \A q \in Reader \ {r} : UNCHANGED <<rpc[q], next[q], view[q]>>
        /\ view'[r] = [view[r] EXCEPT ![next[r]] = Done]
        /\ Taken(r)' = Taken(r) + 1 /\ Taken(r)' = next[r] /\ Filling(r)
    <3>1. UNCHANGED <<wpc, cache, disk>> /\ view' = [view EXCEPT ![r] = [@ EXCEPT ![next[r]] = Done]]
      BY <1>3 DEF Aggregate
    <3>2. CASE next[r] < Selects
      <4>1. next' = [next EXCEPT ![r] = @ + 1] /\ rpc' = rpc
        BY <1>3, <3>2 DEF Aggregate
      <4> HIDE DEF Forward
      <4> QED BY <2>0, <3>1, <4>1 DEF Select
    <3>3. CASE ~(next[r] < Selects)
      <4> HIDE DEF Forward, LaterSelectsSeeMore
      <4>1. next' = next /\ rpc' = [rpc EXCEPT ![r] = "set"]
        BY <1>3, <3>3 DEF Aggregate
      <4>2. next[r] = Selects
        BY <2>0, <3>3 DEF Select
      <4> QED BY <2>0, <3>1, <4>1, <4>2 DEF Select
    <3> QED BY <3>2, <3>3
  <2>2. view[r] \in View /\ next[r] \in Select
    OBVIOUS
  <2>3. ASSUME NEW k \in Select PROVE view'[r][k] \subseteq Done
    BY <2>1, <2>2 DEF View
  <2>4. ASSUME NEW j \in 1..Taken(r)', NEW k \in 1..Taken(r)', j <= k
        PROVE  view'[r][j] \subseteq view'[r][k]
    <3>1. j \in Select /\ k \in Select
      BY <2>1, <2>2 DEF Select
    <3>2. CASE k = next[r]
      BY <2>1, <2>2, <2>3, <3>1, <3>2 DEF View
    <3>3. CASE k # next[r]
      <4>1. j \in 1..Taken(r) /\ k \in 1..Taken(r)
        <5>1. next[r] \in Nat /\ Taken(r) = next[r] - 1 /\ Taken(r)' = next[r]
          BY <2>1, <2>2 DEF Select
        <5> HIDE DEF Taken
        <5> QED BY <2>4, <3>3, <5>1
      <4>2. view'[r][j] = view[r][j] /\ view'[r][k] = view[r][k]
        BY <2>1, <2>2, <3>1, <4>1 DEF View, Select
      <4> QED BY <2>1, <2>4, <4>1, <4>2
    <3> QED BY <3>2, <3>3
  <2>5. Done' = Done
    BY <2>1 DEF Done
  <2>6. \A q \in Reader \ {r} : Taken(q)' = Taken(q) /\ view'[q] = view[q] /\ Filling(q)' = Filling(q)
    BY <2>1
  <2>7. \A q \in Reader : \A k \in Select : view'[q][k] \subseteq Done
    BY <2>3, <2>6
  <2>8. \A q \in Reader : Filling(q)' => LaterSelectsSeeMore(view[q], Taken(q))'
    BY <2>4, <2>6
  <2>9. \A q \in Reader :
          /\ rpc'[q] = "idle" => next'[q] = 1
          /\ rpc'[q] = "answer" => LaterSelectsSeeMore(view'[q], Selects)
    BY <2>1
  <2>10. \A e \in {cache, disk}' :
          /\ \A k \in Select : e.shows[k] \subseteq Done
          /\ LaterSelectsSeeMore(e.shows, Selects)
    BY <2>1
  <2> HIDE DEF LaterSelectsSeeMore, Filling, Taken
  <2> QED BY <2>5, <2>7, <2>8, <2>9, <2>10
<1>4. ASSUME NEW r \in Reader, Stores(r), rpc' = rpc \/ rpc' = [rpc EXCEPT ![r] = "answer"]
      PROVE  Forward'
  <2>1. LaterSelectsSeeMore(view[r], Selects) /\ \A k \in Select : view[r][k] \subseteq Done
    BY <1>4 DEF Stores
  <2>2. /\ UNCHANGED <<wpc, next, view, disk>>
        /\ cache'.shows = view[r]
        /\ \A q \in Reader : rpc'[q] = rpc[q] \/ (q = r /\ rpc'[q] = "answer")
    BY <1>4 DEF Stores
  <2>3. Done' = Done
    BY <2>2 DEF Done
  <2>4. \A e \in {cache, disk}' :
          /\ \A k \in Select : e.shows[k] \subseteq Done
          /\ LaterSelectsSeeMore(e.shows, Selects)
    BY <2>1, <2>2
  <2>5. \A q \in Reader :
          /\ rpc'[q] = "idle" => next'[q] = 1
          /\ Filling(q)' => Taken(q)' = Taken(q) /\ LaterSelectsSeeMore(view[q], Taken(q))
          /\ rpc'[q] = "answer" => LaterSelectsSeeMore(view[q], Selects)
    BY <2>1, <2>2
  <2> QED BY <2>2, <2>3, <2>4, <2>5
<1>5. ASSUME NEW r \in Reader, StoreFails(r) PROVE Forward'
  BY <1>5 DEF StoreFails
<1>6. ASSUME NEW r \in Reader, End(r) PROVE Forward'
  BY <1>6 DEF End, Blank
<1>7. ASSUME NEW w \in Writer, Commit(w) \/ NoDelete(w) PROVE Forward'
  BY <1>7 DEF Commit, NoDelete
<1>8. ASSUME NEW w \in Writer, Delete(w) PROVE Forward'
  <2>1. UNCHANGED <<rpc, next, view, disk>> /\ cache'.shows = Blank /\ cache' = Nothing
    BY <1>8 DEF Delete, Nothing
  <2>2. \A e \in {cache, disk}' :
          /\ \A k \in Select : e.shows[k] \subseteq Done
          /\ LaterSelectsSeeMore(e.shows, Selects)
    BY <2>1 DEF Blank, Select
  <2> QED BY <2>1, <2>2
<1>9. CASE Fsync \/ RestartRedis
  BY <1>9 DEF Fsync, RestartRedis
<1>10. CASE Tick
  <2>1. \A e \in {cache, disk} : Decay(e).shows \in {e.shows, Blank}
    BY DEF Decay, Nothing, Entry
  <2> QED BY <1>10, <2>1 DEF Tick, Blank, Select
<1> QED
  BY <1>1, <1>2, <1>3, <1>4, <1>5, <1>6, <1>7, <1>8, <1>9, <1>10
  DEF Act, Store, StoreReplyLost

LEMMA InitEstablishes == Init => IInv
<1> SUFFICES ASSUME Init PROVE IInv
  OBVIOUS
<1> USE BlankIsView, CacheAssumption DEF Init
<1>1. TypeOK
  BY DEF TypeOK, Select, Cap
<1>2. Overtaking
  BY DEF Overtaking, Filling
<1>3. Ages
  BY DEF Ages, Filling, Stale
<1>4. Forward
  BY DEF Forward, Filling, LaterSelectsSeeMore, Blank, Nothing, Select
<1> QED BY <1>1, <1>2, <1>3, <1>4 DEF IInv

\* The strengthened invariant holds in every reachable state.
THEOREM Invariance == Spec => []IInv
<1>1. IInv /\ [Next]_vars => IInv'
  <2> SUFFICES ASSUME IInv, [Next]_vars PROVE IInv'
    OBVIOUS
  <2>1. CASE UNCHANGED vars
    BY <2>1 DEF IInv, TypeOK, Overtaking, Ages, Forward, Stale, Filling, Taken, Done,
      LaterSelectsSeeMore, vars
  <2>2. CASE Act
    BY <2>2, TypeStep, OvertakingStep, AgesStep, ForwardStep DEF IInv
  <2> QED BY <2>1, <2>2, NextIsAct
<1> QED BY <1>1, InitEstablishes, PTL DEF Spec

\* Invalidation is exact but for the readers it overtakes, also over Redis errors,
\* crashes, retried SETs and restarts.
THEOREM InvalidationExact == Spec => []StaleOnlyIfOvertaken
<1>1. IInv => StaleOnlyIfOvertaken
  BY DEF IInv, Overtaking, StaleOnlyIfOvertaken
<1> QED BY <1>1, Invariance, PTL

\* No stale entry lives longer than the TTL and the lag of the reader behind it.
THEOREM StalenessBound == Spec => []StalenessWithinTTLAndLag
<1>1. IInv => StalenessWithinTTLAndLag
  BY DEF IInv, Ages, StalenessWithinTTLAndLag, Cap
<1> QED BY <1>1, Invariance, PTL

\* No answer and no entry shows a total above the sum of a breakdown.
THEOREM TotalsNeverAhead == Spec => []AnswersRunForward
<1>1. IInv => AnswersRunForward
  BY DEF IInv, Forward, AnswersRunForward
<1> QED BY <1>1, Invariance, PTL

\* TypeOK, for all constants.
THEOREM TypeCorrect == Spec => []TypeOK
BY Invariance, PTL DEF IInv
=============================================================================
