------------------------------ MODULE StatsCache ------------------------------
(***************************************************************************)
(* GET /api/stats behind its Redis read-through cache, concurrent with the  *)
(* transactions that invalidate it. A reader (StatsService.get) asks Redis,  *)
(* on a miss runs the SELECTs of aggregates() one by one (READ COMMITTED:    *)
(* each sees what is committed when it runs) and stores the result with a    *)
(* TTL; a writer commits and then deletes the key. The statistics are        *)
(* abstracted to the set of writes each SELECT saw.                          *)
(*                                                                         *)
(* Redis may refuse a call (JsonCache swallows the error), execute a SET      *)
(* whose reply is lost (the client retries), or restart from its append-only *)
(* file, without the commands of the last moments.                           *)
(***************************************************************************)
EXTENDS Naturals

CONSTANTS
  Writer,    \* transactions that write a complaint, each commits once
  Reader,    \* threads that serve GET /api/stats, again and again
  Selects,   \* SELECTs in aggregates(): 5 in the code
  TTL,       \* stats_cache_ttl_seconds, in ticks
  MaxLag     \* most ticks a reader takes from its miss to its SET. Nothing in the
             \* code enforces one: it is an assumption about the environment

ASSUME CacheAssumption ==
  /\ Selects \in Nat \ {0}
  /\ TTL \in Nat \ {0}
  /\ MaxLag \in Nat

VARIABLES
  wpc,         \* wpc[w]: "commit", then "del", then "done"
  age,         \* age[w]: ticks since w committed, up to Cap
  rpc,         \* rpc[r]: "idle", "select", "set", "answer"
  next,        \* next[r]: the SELECT reader r runs next
  view,        \* view[r][k]: the writes its k-th SELECT saw
  busy,        \* busy[r]: ticks since its miss
  overtaken,   \* overtaken[r]: writers whose DEL was executed since its miss
  cache,       \* the entry under stats:v1
  disk,        \* the entry the append-only file holds
  deleted,     \* writers whose DEL Redis has executed (and not forgotten)
  diskDeleted  \* those of them that are in the append-only file

readers == <<rpc, next, view, busy, overtaken>>
writers == <<wpc, age>>
redis == <<cache, disk, deleted, diskDeleted>>
vars == <<wpc, age, rpc, next, view, busy, overtaken, cache, disk, deleted, diskDeleted>>

----------------------------------------------------------------------------

Select == 1..Selects
View == [Select -> SUBSET Writer]
Blank == [k \in Select |-> {}]

\* An entry keeps, beside what it shows, the ghost of its reader's overtakers.
Entry == [left : 0..TTL, shows : View, over : SUBSET Writer]
Nothing == [left |-> 0, shows |-> Blank, over |-> {}]

Cap == TTL + MaxLag
Done == {w \in Writer : wpc[w] # "commit"}
Filling(r) == rpc[r] \in {"select", "set"}

TypeOK ==
  /\ wpc \in [Writer -> {"commit", "del", "done"}]
  /\ age \in [Writer -> 0..Cap]
  /\ rpc \in [Reader -> {"idle", "select", "set", "answer"}]
  /\ next \in [Reader -> Select]
  /\ view \in [Reader -> View]
  /\ busy \in [Reader -> 0..MaxLag]
  /\ overtaken \in [Reader -> SUBSET Writer]
  /\ cache \in Entry /\ disk \in Entry
  /\ deleted \in SUBSET Writer /\ diskDeleted \in SUBSET Writer

Init ==
  /\ wpc = [w \in Writer |-> "commit"]
  /\ age = [w \in Writer |-> 0]
  /\ rpc = [r \in Reader |-> "idle"]
  /\ next = [r \in Reader |-> 1]
  /\ view = [r \in Reader |-> Blank]
  /\ busy = [r \in Reader |-> 0]
  /\ overtaken = [r \in Reader |-> {}]
  /\ cache = Nothing /\ disk = Nothing
  /\ deleted = {} /\ diskDeleted = {}

----------------------------------------------------------------------------
\* Readers.

\* Mutant: a hit renews the TTL.
Hit_Renews(r) ==
  /\ rpc[r] = "idle"
  /\ cache.left > 0
  /\ rpc' = [rpc EXCEPT ![r] = "answer"]
  /\ view' = [view EXCEPT ![r] = cache.shows]
  /\ cache' = [cache EXCEPT !.left = TTL]
  /\ UNCHANGED <<next, busy, overtaken, writers, disk, deleted, diskDeleted>>

\* The key is there: it is the answer.
Hit(r) ==
  /\ rpc[r] = "idle"
  /\ cache.left > 0
  /\ rpc' = [rpc EXCEPT ![r] = "answer"]
  /\ view' = [view EXCEPT ![r] = cache.shows]
  /\ UNCHANGED <<next, busy, overtaken, writers, redis>>

\* The key is not there, or Redis did not answer and JsonCache.get() says so.
Miss(r) ==
  /\ rpc[r] = "idle"
  /\ rpc' = [rpc EXCEPT ![r] = "select"]
  /\ UNCHANGED <<next, view, busy, overtaken, writers, redis>>

\* Mutant: the total is read last.
Aggregate_TotalLast(r) ==
  /\ rpc[r] = "select"
  /\ view' = [view EXCEPT ![r] = [@ EXCEPT ![Selects + 1 - next[r]] = Done]]
  /\ IF next[r] < Selects
       THEN next' = [next EXCEPT ![r] = @ + 1] /\ UNCHANGED rpc
       ELSE rpc' = [rpc EXCEPT ![r] = "set"] /\ UNCHANGED next
  /\ UNCHANGED <<busy, overtaken, writers, redis>>

\* The next SELECT of aggregates().
Aggregate(r) ==
  /\ rpc[r] = "select"
  /\ view' = [view EXCEPT ![r] = [@ EXCEPT ![next[r]] = Done]]
  /\ IF next[r] < Selects
       THEN next' = [next EXCEPT ![r] = @ + 1] /\ UNCHANGED rpc
       ELSE rpc' = [rpc EXCEPT ![r] = "set"] /\ UNCHANGED next
  /\ UNCHANGED <<busy, overtaken, writers, redis>>

\* Redis executes SET stats:v1 ... EX TTL.
Stores(r) ==
  /\ rpc[r] = "set"
  /\ cache' = [left |-> TTL, shows |-> view[r], over |-> overtaken[r]]
  /\ UNCHANGED <<next, view, busy, overtaken, writers, disk, deleted, diskDeleted>>

Store(r) == Stores(r) /\ rpc' = [rpc EXCEPT ![r] = "answer"]

\* The reply is lost: the client will send the SET again.
StoreReplyLost(r) == Stores(r) /\ UNCHANGED rpc

\* Redis refuses; the answer is given uncached.
StoreFails(r) ==
  /\ rpc[r] = "set"
  /\ rpc' = [rpc EXCEPT ![r] = "answer"]
  /\ UNCHANGED <<next, view, busy, overtaken, writers, redis>>

\* The request ends, with its answer or because of an error or a crash.
End(r) ==
  /\ rpc[r] # "idle"
  /\ rpc' = [rpc EXCEPT ![r] = "idle"]
  /\ next' = [next EXCEPT ![r] = 1]
  /\ view' = [view EXCEPT ![r] = Blank]
  /\ busy' = [busy EXCEPT ![r] = 0]
  /\ overtaken' = [overtaken EXCEPT ![r] = {}]
  /\ UNCHANGED <<writers, redis>>

\* Writers.

Commit(w) ==
  /\ wpc[w] = "commit"
  /\ wpc' = [wpc EXCEPT ![w] = "del"]
  /\ UNCHANGED <<age, readers, redis>>

\* Mutant: another key is deleted.
Delete_OtherKey(w) ==
  /\ wpc[w] = "del"
  /\ wpc' = [wpc EXCEPT ![w] = "done"]
  /\ deleted' = deleted \cup {w}
  /\ overtaken' = [r \in Reader |-> overtaken[r] \cup IF Filling(r) THEN {w} ELSE {}]
  /\ UNCHANGED <<age, rpc, next, view, busy, cache, disk, diskDeleted>>

\* Redis executes DEL stats:v1.
Delete(w) ==
  /\ wpc[w] = "del"
  /\ wpc' = [wpc EXCEPT ![w] = "done"]
  /\ cache' = Nothing
  /\ deleted' = deleted \cup {w}
  /\ overtaken' = [r \in Reader |-> overtaken[r] \cup IF Filling(r) THEN {w} ELSE {}]
  /\ UNCHANGED <<age, rpc, next, view, busy, disk, diskDeleted>>

\* No DEL: Redis refuses it, the replica dies after its commit, or the write
\* never came through this service.
NoDelete(w) ==
  /\ wpc[w] = "del"
  /\ wpc' = [wpc EXCEPT ![w] = "done"]
  /\ UNCHANGED <<age, readers, redis>>

\* Redis and time.

Fsync ==
  /\ <<disk, diskDeleted>> # <<cache, deleted>>
  /\ disk' = cache
  /\ diskDeleted' = deleted
  /\ UNCHANGED <<cache, deleted, writers, readers>>

RestartRedis ==
  /\ <<disk, diskDeleted>> # <<cache, deleted>>
  /\ cache' = disk
  /\ deleted' = diskDeleted
  /\ UNCHANGED <<disk, diskDeleted, writers, readers>>

\* Mutant: SET without EX.
Decay_Never(e) == e

\* An expiry is an absolute time, in memory and in the file.
Decay(e) == IF e.left <= 1 THEN Nothing ELSE [e EXCEPT !.left = @ - 1]

Tick ==
  /\ \A r \in Reader : Filling(r) => busy[r] < MaxLag
  /\ cache' = Decay(cache)
  /\ disk' = Decay(disk)
  /\ age' = [w \in Writer |-> IF w \in Done /\ age[w] < Cap THEN age[w] + 1 ELSE age[w]]
  /\ busy' = [r \in Reader |-> IF Filling(r) THEN busy[r] + 1 ELSE busy[r]]
  /\ UNCHANGED <<wpc, rpc, next, view, overtaken, deleted, diskDeleted>>

\* A request that has started goes on.
Proceed(r) ==
  \/ Aggregate(r) \/ Store(r) \/ StoreFails(r)
  \/ (rpc[r] = "answer" /\ End(r))

Next ==
  \/ \E r \in Reader : Hit(r) \/ Miss(r) \/ Proceed(r) \/ StoreReplyLost(r) \/ End(r)
  \/ \E w \in Writer : Commit(w) \/ Delete(w) \/ NoDelete(w)
  \/ Fsync \/ RestartRedis \/ Tick

Spec == Init /\ [][Next]_vars

\* Time passes, and a request that has started goes on to its end. Nobody has to
\* ask for the statistics, to write, or to restart Redis.
Fairness ==
  /\ WF_vars(Tick)
  /\ \A r \in Reader : WF_vars(Proceed(r))

FairSpec == Spec /\ Fairness

----------------------------------------------------------------------------
\* Writer w is committed and the entry does not show it.
Stale(e, w) == e.left > 0 /\ w \in Done /\ \E k \in Select : w \notin e.shows[k]

\* A write whose DEL was executed is missing from the cache only if the entry
\* was filled by a reader that this DEL overtook: between its miss and its SET.
\* In every other interleaving invalidation is exact
\* (complaint_service.py:40, stats_service.py:4).
StaleOnlyIfOvertaken ==
  \A w \in deleted : Stale(cache, w) => w \in cache.over

\* However an entry came to be stale - a lost DEL, a crash between commit and
\* delete, a write behind the service's back, the race above, a Redis restart -
\* it is gone TTL ticks, and the lag of the reader that stored it, after the
\* commit (the safety net of stats_service.py:5-7).
StalenessWithinTTLAndLag ==
  \A w \in Writer : Stale(cache, w) => age[w] + cache.left <= TTL + MaxLag

\* What is shown may mix several instants, but only forwards: a SELECT sees every
\* write an earlier SELECT of the same answer saw. So the total, read first, is
\* never above the sum of a breakdown (complaint_repository.py:96-103).
LaterSelectsSeeMore(v, upto) == \A j, k \in 1..upto : j <= k => v[j] \subseteq v[k]

AnswersRunForward ==
  /\ LaterSelectsSeeMore(cache.shows, Selects)
  /\ \A r \in Reader : rpc[r] = "answer" => LaterSelectsSeeMore(view[r], Selects)

\* With no more writes the cache converges: from some time on it shows every
\* committed write, or nothing.
Converges == <>[](\A w \in Writer : ~Stale(cache, w))

----------------------------------------------------------------------------
\* What the comments say, and the code does not do.

\* complaint_service.py:40: invalidating after the commit means that "a
\* concurrent reader can't re-cache stale numbers".
InvalidationSticks == \A w \in deleted : ~Stale(cache, w)
=============================================================================
