# A formal model of CivicPulse

CivicPulse lets citizens report problems of their city. A complaint is triaged
(category, priority, a one-line summary) by an LLM behind an HTTP API, or by
built-in rules when that fails; it is stored in Postgres, moved through a status
state machine by operators, and counted in statistics. Several replicas of a
FastAPI backend share one Postgres and one Redis; a React frontend talks to them.

This directory holds TLA+ models of the parts of that system in which something
happens concurrently or may fail half-way, TLC configurations that check them on
small instances, and proofs, checked by TLAPS, of the properties that hold for
every instance. Paths below are relative to the repository.

## 1. Inventory

### What the system consists of

| Part | Source | State it keeps | Operations |
|---|---|---|---|
| Status state machine | `backend/app/domain.py` | none (a table) | `can_transition`, `allowed_transitions` |
| Complaint service and repository | `services/complaint_service.py`, `repositories/complaint_repository.py`, `routes/complaints.py`, `container.py` | rows in Postgres, one session per request | create, get, list, change_status |
| Statistics | `services/stats_service.py`, `complaint_repository.py` (aggregates) | the key `stats:v1` in Redis | get, invalidate |
| Rate limiter | `providers/cache.py` (RateLimiter), `deps.py` | one counter per client and window in Redis | hit |
| Triage service | `services/triage_service.py`, `providers/cache.py` (JsonCache) | `triage:v1:<hash>`, two counters, the list of recent outcomes, all in Redis | triage, recent, cache_counts |
| Triage providers | `providers/triage/*.py` | none between calls | one call with a retry; the rules; choice of a provider at start-up |
| Threads, pool, probes | `db.py`, `container.py`, `services/health_service.py`, `routes/health.py` | the worker threads, the connection pool | checkout, return, `/health`, `/ready` |
| Process lifecycle | `server.py`, `main.py`, `middleware.py`, `k8s/base/backend.yaml`, `compose.prod.yaml` | `draining`, the requests in flight, the counter of requests | preStop, SIGTERM, drain, cancel, exit |
| Migration and seed | `scripts/migrate.sh`, `alembic/env.py`, `alembic/versions/`, `seed.py` | the schema, the seeded rows, two advisory locks | migrate, seed |
| Listing and dashboard | `complaint_repository.py` (list), `frontend/src/pages/DashboardPage.tsx`, `api/client.ts` | filter, page, the rows shown, the flags of the buttons | load, filter, page, refresh, move a status |
| Submit page, statistics page, shell | `frontend/src/` | the last answer shown | submit, load |
| Delivery | `.github/workflows`, `k8s/`, `scripts/` | image digests, the running revision | build, sign, deploy, smoke-test, roll back |

### How the parts interact

* A handler runs in a worker thread from beginning to end: triage (Redis,
  provider, Redis), one database transaction, DEL of `stats:v1` (Redis). Its
  dependencies (the rate limit among them) and the validation of its answer take a
  thread each of their own. Nothing is passed between threads but what they leave
  in Postgres and Redis; what they compete for are threads, connections, row locks.
* Every call to Redis goes through `JsonCache` or `RateLimiter`, which swallow
  `RedisError`: a failure never raises, it turns into a miss, a lost write or an
  allowed request. The client library may send a command again whose reply was
  lost, so a command may be executed more than once.
* A database session rolls back on any exception (`container.py`, `repository()`)
  and otherwise ends with the request. An exception that nobody maps is a 500.
* Redis keeps an append-only file flushed once a second and evicts entries that
  have a TTL (`k8s/base/redis.yaml`): it may forget its last commands, and it may
  lose an entry at any time.

### What is hard about it, and what makes each part correct

`PROJECT.json` lists each hazard at its line with the properties that would catch
it. In short:

* **Complaints.** Handlers interleave between any two statements; each may fail,
  or its replica may die, at each. Correct: a complaint moves only along the
  table; of several operators who act on one status one wins; an answer is true;
  nobody waits for ever on a row lock; seen from outside, every request takes
  effect at one instant.
* **Statistics.** A reader may be overtaken by a write and its invalidation, the
  DEL may be lost, Redis may come back with an entry it had deleted. Correct:
  stale only for a known reason, and for a known time; what an answer mixes, it
  mixes forwards; once writing ends, the cache becomes right.
* **Rate limiter.** Replicas read their own clocks and reach Redis later, perhaps
  twice, perhaps after they have given up. Correct: while a hit keeps its key, no
  window lets more through than the limit (plus what Redis lost); a refusal has a
  counter above the limit behind it; `Retry-After` is enough, to the millisecond.
* **Triage.** Lookup, inference and store are separate, the entry found may be
  poisoned, every call may fail. Correct: only real answers are cached; an
  inference once stored is shared; the recent list is the newest outcomes, and the
  counters are off by the failed calls at most; every triage ends with an outcome.
* **Threads and pool.** A handler waits for a thread, then for a connection, and a
  reader keeps its connection while its answer waits for a thread again. Correct:
  every connection comes back; nobody waits for ever; a liveness probe depends on
  nothing outside.
* **Shutdown.** Removal from the Service, SIGTERM, the drain and the grace period run
  side by side with the requests. Correct: nobody is refused or lost, nobody is cut
  off before its time, and the metrics tell.
* **Start-up.** Several init containers migrate and seed at once and die anywhere.
  Correct: one migration, every seed once, no operator's work taken back, and every
  pod comes to serve.
* **Dashboard.** Answers come in any order or not at all, while others file and move
  complaints. Correct: the table shows what is selected, and what was true, and only an
  overtaken answer spoils that; paging misses no more than was left uncounted; the
  buttons come back.

## 2. The modules

| Module | What it is |
|---|---|
| `Domain` | statuses and the transition table |
| `StatusMachine` | abstract: what the complaint endpoints promise, without threads and locks |
| `ComplaintService` | create, change_status and get as interleaved transactions; implements `StatusMachine` |
| `StatsCache` | the read-through cache of the statistics |
| `RateLimiter` | the shared fixed-window limiter |
| `TriageService` | triage with its cache, provider, retry, fallback, counters and recent list |
| `Rules` | the rule-based triage as a function of what it finds in a text |
| `RequestPool` | worker threads, connection pool and probes of one process |
| `Drain` | the end of a pod, from its deletion to its exit |
| `Startup` | init containers: migration and seed under their locks; uses `Rules` |
| `Dashboard` | the listing endpoint and the page that shows it |
| `MC...` | instances for TLC: symmetry, and an initial condition where one is needed |
| `...Proofs` | theorems and proofs about the module of that name (those of `Rules` are in `StartupProofs`) |

### ComplaintService

`row` is the table as others see it (Absent before an INSERT commits), `lock` the
row locks of Postgres. Of each request, `op` is what it asks for, `pc` the
statement its handler executes next, `seen` what its SELECT returned, `resp` its
status code. `committed` and `invalidated` record who got as far as the COMMIT
and the DEL.

| Action | Code |
|---|---|
| Begin | `get_complaint_service` (deps.py): a session, then the service |
| Triage | `create`: `triage.triage()`, before any database work |
| Insert | `ComplaintRepository.add` (flush) |
| SelectForUpdate | `get(for_update=True)`, and the 404 |
| SetStatus / RefuseMove | the two branches of `can_transition`; the second rolls back and answers 409 |
| Commit, CommitReplyLost | `commit()`; in the second the server executed it and the session raised |
| Invalidate | `stats.invalidate()` and the answer |
| Get | one SELECT without a lock, 200 or 404 |
| Fail | an exception in any statement: `Container.repository()` rolls back, 500 |
| Crash, AbortOrphan | the replica dies; later Postgres notices the dead connection and aborts |

Row locks are those of READ COMMITTED: a SELECT ... FOR UPDATE waits for the lock
and then sees the latest committed row. A failing DEL is not a failure here,
because JsonCache swallows it; what it does to the statistics is in `StatsCache`.

`StatusMachine` is the promise: each request acts once, on the status it finds at
that instant. The refinement maps `row` to `status` and reads the effect of a
request off its state: a write has its effect when it commits (also when the
reply is lost and the client sees a 500), a refusal when it is checked, a read
when it is executed.

### StatsCache

Statistics are abstracted to the set of writes each SELECT of `aggregates()` saw,
so "stale" and "inconsistent" can be told without counting. An entry keeps its
remaining life `left`, what it `shows`, and, as a ghost, the writers whose DEL
came between its reader's miss and its SET. Time is a tick; an expiry is an
absolute time, so it passes in memory and in the append-only file alike.

`NoDelete` stands for a refused DEL, a replica that dies after its commit, and a
write behind the service's back. `Fsync` and `RestartRedis` are the append-only
file. `MaxLag` bounds how long a reader takes from its miss to its SET: nothing in
the code does, so it is an assumption, and it enters the bound that is proved.

### RateLimiter

One client address, since the key contains the address. `hit()` is two steps:
ReadClock (a replica's clock is off Redis's by one of `Offsets`) and the MULTI, which
Redis executes at any later time: nothing in the code bounds the time between them
(the client has two timeouts of 2 s, `container.py:57`, retries, and lives in a process
that may be paused). The counter is modelled as the log of the hits Redis holds, with
the expiry each has set, so that a restart which loses the last hits also restores
the expiry they had replaced.

| Action | Code |
|---|---|
| ReadClock | `now = time.time()`, which names the window |
| Hit | the MULTI is executed and its reply decides: 429 above the limit |
| HitUnread | it is executed and nobody reads the reply: sent again, or given up, before or after the request has its answer |
| FailOpen | the `RedisError` branch: let through |
| RestartRedis | the append-only file, without the last hits |
| Tick | time passes |

`ran` (when the MULTI that was answered was executed) and `lost` are histories.

What the limiter can promise follows from the one number it gives Redis: each hit keeps
its key for `Life`, the window and a second (`cache.py:103`). Within a stretch of that
length in Redis, no counter that holds a hit of the stretch can expire, and the limit
holds. A MULTI that comes so late that the hits of its window have expired finds
no counter and begins again at one: over longer stretches a window has no limit, and
`WindowLimit` and `AtMostTwiceTheLimit` say so by naming the stretch. No margin is
assumed of clocks or calls. The comment of the class says that the "first hit sets the
expiry" (`cache.py:89`); every hit does, and the properties rest on that.

### TriageService

A result is abstracted to the request whose inference produced it; `outcome[r]`
is `TriageOutcome` with its two flags. One action per call to Redis (Drop,
CountMiss, CountHit, Store, Record), each of which may be executed (`Call`),
executed with the reply lost (`CallReplyLost`, it will be sent again) or refused
(`CallFails`); what follows is the same in any case, as `JsonCache` swallows the
error. The provider's loop (`llm.py`) is one action per HTTP call. The fallback
can raise: the rules copy the location into their summary, and the schema wants
the summary on one line.

The two counters and the list are shared by all threads, as in Redis. Histories:
`trouble` counts the calls that failed or were repeated and the entries lost; `pushed`
is what was put on the list, in order; `stored` are the contents with an answer in the
cache that nobody is about to delete, `late` who looked them up after that. A location
with a line break has the same hash as its one-line twin, since
`content_hash()` turns white space into blanks; so `ask[r].oneLine` is
independent of the content.

### Rules

A text is abstracted to what the rules look at: how many keywords of each category
occur in it, whether a word of high or of low priority does, how long its summary
would be and whether that would be one line. `Best` is Python's `max()` over the
dictionary: the first maximum, in the order of declaration.

### RequestPool

One process. `pc[r]` says where a request is; in "deps", "handler" and "answer" it
waits in `queue` for a thread, in "triage", "checkout" and "sql" it has one. `conn`
are the connections that are out.

| Action | Code |
|---|---|
| Arrive | the route's dependencies (`deps.py`); `/health` has none |
| TakeThread | the library's thread pool, first come first served |
| Triage | the provider's calls, before any statement (`complaint_service.py`) |
| Checkout, CheckoutTimesOut | the first statement of a session; `pool_timeout` |
| Answered, Raised | the statements are executed; `ready()` closes its session, a commit gives the connection back, a reader keeps it |
| Close | the exit of `_repository()` |
| Tick | time, which passes only while nothing in the process can go on |

`Work` says what each handler needs first. `crowded` is a ghost: the probes that have
met all threads busy. A handler that waits for a row lock is, to the pool, a
statement that takes its time.

### Drain

A request has a thread from the moment it is accepted until its handler is done,
whatever its client has been told. `slow` are the requests that may take longer than
`MaxWork`, or for ever: statements have no timeout, and httpx bounds the phases of a
call. Deletion, removal from the Service (`Unroute`, at most `Propagate` ticks
later) and the preStop sleep run side by side; then `Sigterm`, `StopListening`, and
either `Drained` or `Cancel`, which closes the clients' connections and leaves the
threads running; `Exit` waits for them, as the interpreter does. `Kill` ends the
grace period. `counted` is `http_requests_total` by status, an answer of any kind
being a 200.

### Startup

The init container of each pod is the sequence of `migrate.sh`. What a transaction
has written is kept apart (`added`, and the label "commitDdl" for the DDL) until it
commits. A container that dies leaves its session's lock with `Dead`, until Postgres
notices. `SEEDS` is the list of the code, each text as `Rules` sees it, with
its status. `Move` are operators at work through the pods that serve already.

### Dashboard

`history[c]` are the statuses a complaint has had; a row shown carries its version, so
that "true once" and "older than" can be told. A request in `out` is a load, served in
two steps (`Count`, `Fetch`: two statements, two snapshots), or a change; answers are
delivered in any order, or fail. `SetFilter`, `Previous`, `NextPage`, `Refresh`
and `Move` are what the page lets its user do, under the conditions of its buttons,
and the load its effect sends is part of the action. `Listings` are the orders in
which the rows may come: one, because `ORDER BY created_at DESC, id` is total.
Complaints need not be committed in the order of `created_at`.

Ghosts: the number `n` of the load the table came with, and `latest`, the newest one
shown; `mine` (what this page was told of its own changes, over which load, and how many
requests it had sent by then); `walk` (pages shown one after the other, each asked for
after the one before was shown: `since` is the number of requests sent by then, `size`
how many rows there were when the last page was selected). With them the properties
name the one answer that may spoil what they say, and exclude all others: in
`TableAnswersTheQuery` that of a load overtaken by a newer one's, in
`OwnChangesAreShown` that of a load sent before the page was told of its change.
`WalkMissesOnlyTheUncounted` bounds what two statements that disagree can cost: as
many complaints as were filed between them.

## 3. What TLC checks

| Run | Instance | Shows |
|---|---|---|
| `complaint` | 3 requests, 1 complaint, absent or under way | lock discipline, one winner, true answers, invalidation after commit; implements `StatusMachine`; every request ends |
| `stats` | 2 writers, 1 reader, 3 SELECTs, TTL 2, lag 1 | when an entry can be stale and for how long, that answers run forward, and that the cache converges |
| `stats_recached` | 1 writer, 1 reader, 5 SELECTs | *violated:* invalidation does not stick |
| `limiter` | 3 requests, limit 1, window of 2 s, a tick of a quarter of a millisecond, clocks right or 2001 ticks late, each MULTI executed up to twice, 4 moments over 3 s, 1 count lost | limit per window while a hit keeps its key, justified refusals, twice the limit at most, `Retry-After` |
| `triage` | 2 requests, 2 hashes, recent list of 2, 2 failures of Redis | cache, sharing, the newest outcomes on the list, counters; every one-line complaint is triaged |
| `triage_multiline` | 2 requests, 1 hash | *violated:* triage can raise |
| `pool` | 3 requests of any kinds and a probe, 2 threads, 1 connection, timeout of 1 tick | connections come back; a probe waits for threads only, and is answered; no deadlock of threads and connections |
| `pool_probe` | the same without triage, `pool_timeout` 2 ticks, probe 1 | *violated:* a slow database fails the probe |
| `drain` | 2 requests, either of which may hang; sleep 4, propagation 3, drain 8, grace 18, work 9 ticks of 2.5 s | nobody refused, cut off early, lost or miscounted |
| `drain_cut` | 2 requests, no preStop, drain 8, grace 12, work 9 (Compose) | *violated:* requests in flight are cut off |
| `startup` | 2 pods, the 34 seeds of the code, 1 crash, 1 move | one migration, everything there before serving, idempotent seed, varied data; every pod serves |
| `dashboard` | 3 complaints, two of the same `created_at`, pages of 1, 2 filters, 3 requests, 1 change | the table answers the selection but for overtaken loads, is true and keeps own changes; paging misses the uncounted at most; buttons come back |

### The bounds, and why they are enough

* *Complaints.* Three requests are a winner, a loser and one more that comes while
  the lock is being freed, or a create and two changes of what it filed; a
  complaint has at most two moves in its life. A request touches one complaint and
  no lock but its own, and the proofs cover any number of both. The run has no
  symmetry (liveness) and starts where the requests have something to fight over.
* *Statistics.* With two writers one can be shown and the other missed by the same
  entry, and the DEL of one can come between the SELECTs that see the other; TTL 2
  and lag 1 keep the two terms of the bound apart. Two readers that store over
  each other are in the proofs.
* *Limiter.* With limit 1, three requests exceed the limit of a window, and twice
  the limit of two. Time takes four values: the start, the last tick of the
  first second (where adding 0.999 falls short of rounding up), the turn of the window,
  and 3 s, when what was hit at the start has just expired; each is where a comparison
  changes. A clock 2001 ticks late still names the old window at the turn. Each MULTI may
  run twice and at any of these times, so a counter does begin again in the run; the
  proofs cover any clocks, times and tries.
* *Triage.* Two threads race to look up, drop and store. A list of 2 is overrun by the
  third push, which takes a repeated one: hence two failures or losses of Redis anywhere
  in a behaviour. They also let one call be executed and then fail, and two calls
  fail in different counters; the proofs cover any number, and any length of the list.
* *Pool.* One connection and two threads are the smallest process with fewer
  connections than threads, as 10 and 40 are; three requests take the connection, the
  other thread and a place in the queue before the probe's.
* *Drain.* The numbers are those of `backend.yaml` and `compose.prod.yaml` in units of
  2.5 s, with a triage of 22.5 s. Requests do not act on each other; two are one that
  ends in time and one that does not. `MaxAge` caps ages past all they are
  compared with.
* *Startup.* Two pods are one that holds a lock and one that waits; one crash puts a
  dead holder in front of it, at any statement. The list of seeds is the whole one.
* *Dashboard.* Three complaints on pages of one are enough for a page before and after
  the one on the screen; three requests for two to overlap and a third to look at the
  result. A walk over all pages with something filed meanwhile fits in, between its
  statements too; so do the answers that the properties allow to spoil the table, an
  overtaken load's and one that takes back the page's own change.

### Fairness

Every liveness property is stated of a specification whose fairness is on progress
only:

* `ComplaintService`: `WF(Step(r))`, a thread that can go on does, and the database
  answers; `WF(AbortOrphan(r))`, Postgres notices a dead connection in the end
  (TCP keep-alive of the server; the code sets no shorter limit). A thread waiting
  for a row lock is not enabled, so it is owed nothing until the lock is free:
  that locks become free is what `EveryRequestEnds` shows. After that one weak
  fairness suffices because no lock is ever taken twice by a request.
* `StatsCache`: time passes, and a request that has started goes on. Nobody
  has to ask, to write or to restart Redis.
* `TriageService`: `WF(Step(r))`, threads run, and provider and Redis answer or
  time out (`llm.py` and the Redis client both have timeouts).
* `RequestPool`: `WF(Process)`, the process runs (triage is part of it, for its
  calls have timeouts), and `WF(Tick)`, time passes. Nothing is assumed of the
  database: `ProbeAnswered` holds though it never answers, and `EveryRequestEnds` has
  as a premise that every statement ends.
* `Startup`: `WF(Step(p))`, `WF(Reap)` (a dead session is noticed), and
  strong fairness for taking a lock, because Postgres queues those who wait for it.
  A crashed container is started again by its kubelet: its first step is one of
  `Step(p)`. Crashes are bounded, as back-off makes them rare.

Nothing is assumed about failures: they may happen, and need not.

### Where the code does not do what its documents say

Each of these is a run in which TLC finds the quoted sentence violated.

1. `stats_recached` - `complaint_service.py:40` says that invalidation comes "after
   commit, so a concurrent reader can't re-cache stale numbers". A reader that
   read before the commit and stores after the DEL does. What holds is
   `StaleOnlyIfOvertaken`.
2. `triage_multiline` - `docs/TRIAGE.md:69` says "always gets a 201, never a 500".
   When the provider fails and the location contains a line break, the fallback's
   own result does not pass the schema, and it is called outside any `try`. What
   holds is `EveryComplaintIsTriaged`, for locations of one line; theorem
   `RulesAreTotal` says that this is the only case.
3. `pool_probe` - `health.py:4` says of the liveness probe that "a slow database must
   never fail it", and `backend.yaml:70` that it "MUST NOT depend on the database".
   `health()` is a plain function and needs one of the worker threads, which all
   may be waiting up to 5 s for a connection while the probe waits 2 s. What holds
   is `ProbeWaitsForThreadsOnly` and `ProbeAnswered`.
4. `drain_cut` - `compose.prod.yaml:78`, a grace period longer than the drain "so
   in-flight requests drain". What cuts them off is the drain's own 20 s, which are
   shorter than two provider timeouts and the sleep between them. What
   holds is `CutOnlyAfterItsTime`.

Three more sentences are only true with a wider bound, and the runs check that one:
staleness "bounded to 30 s" (`stats_service.py:5-7`) is TTL plus the time between a
reader's SELECTs and its SET (`StalenessWithinTTLAndLag`); "11 fast POSTs -> the 11th
is 429" (`docs/RUNBOOK.md:98`) does not hold across the turn of a fixed window
(`AtMostTwiceTheLimit`); "one inference, not nine" (`docs/TRIAGE.md:82`) holds for
those who come after the first answer is stored (`SharedOnceStored`).

## 4. What is proved

All theorems are of `Spec` (no fairness), for every value of the constants that
satisfies the named assumptions of the module. Every safety property that a passing
run checks is the statement of one; those that no run checks (the second rows of the
table) were put to TLC on the same instances before they were proved.

| Module | Theorem | States |
|---|---|---|
| `ComplaintServiceProofs` | Locking, OneWinner, AnswersTrue, InvalidationOrder | the invariants of `complaint` |
| | TypeCorrect, TableFollowed, LifeIsShort | types; every step of a row is an edge of the table; at most two changes of a complaint ever commit |
| | Refinement | `Spec => SM!Spec` |
| `StatsCacheProofs` | TypeCorrect, InvalidationExact, StalenessBound, TotalsNeverAhead | the invariants of `stats` |
| `RateLimiterProofs` | LimitHolds, RefusalsJustified, TwiceTheLimit, WaitingIsAlmostEnough | the invariants of `limiter` |
| | TypeCorrect | types |
| `TriageServiceProofs` | TypeCorrect, OnlyRealAnswersCached, OneInferenceOnceStored, RecentListIsTrue, CountersAreTrue | the invariants of `triage` |
| | TallyInvariance | the counters and the list at every moment |
| `RequestPoolProofs` | TypeCorrect, ConnectionsAreReturned, ProbesWaitForThreads | the invariants of `pool` |
| | ThreadsOutlastTheDatabase | never do all the threads wait for the database |
| `DrainProofs` | TypeCorrect, NobodyIsRefused, CutsAreLate, LosesNobody, AllAreCounted | all of `drain` |
| `StartupProofs` | TypeCorrect, OneMigration, ServingIsReady, SeedingRepeats, DemoDataStaysVaried | all of `startup` but `EveryPodServes` |
| | NoCircleOfLocks | whoever waits for a lock holds none |
| | RulesAreTotal | the rules, for every text |
| `DashboardProofs` | TypeCorrect, SelectionIsShown, RowsAreTrue, ChangesAreShown, ButtonsDoComeBack, WalksMissOnlyTheUncounted | all of `dashboard` |
| | WalkInvariance | what a walk has missed is beyond its pages |

Each module has one inductive invariant `IInv`, a conjunction of named parts, and
a theorem `Invariance == Spec => []IInv` from which the others follow; a later
theorem may add an invariant that is inductive beside it (`Asked` and `Counted` of
the triage service, `HoldersWork`, `StatementsConnected`, `WalkInv`).

* **Complaints.** Assumption: `None` is no request. `LockDiscipline` alone is not
  inductive: which statement a request can be at depends on what it asks for
  (`Control`), and that a committed write is still there needs what each request
  knows when it commits (`Ledger`). `OneWinnerPerStatus` rests on the table having
  no cycle (lemma `Acyclic`): a status that was left is not reachable again, so two
  commits out of it would need a lock held by both. LifeIsShort is its corollary: only
  two statuses can be left, and each has one winner.
  The refinement shows that each action is a step of `StatusMachine` or stutters
  on it; the row found at the commit is the row seen at the SELECT because
  of `LockDiscipline`.
* **Statistics.** `Overtaking` extends the property from the entry to its sources:
  to every fill under way, for the SELECTs it has done, and to the entry in the
  append-only file, for the DELs in that file. `Ages` does the same with time: what
  a reader has missed is no older than the reader has been busy. `Forward` says
  the same of the order of the SELECTs.
* **Limiter.** Assumption: finitely many requests (they are counted), and that the
  constants are numbers; nothing of the clocks, nor of the time a MULTI takes. `Expiries`
  says that the expiries a key's hits have set never fall, and that none is further off
  than `Life`. `Counting` is the heart: take any stretch of length `Life` that is not over,
  and drop from a key's log the hits executed before it; then the requests allowed in the
  stretch are at most the hits left, and what was lost. It is inductive because a
  counter begins again only when its last expiry has passed, and then no hit it held can be
  of a stretch that still lasts; and because an allowed hit finds a counter below the
  limit. `Justified` bounds a counter by the executions on its key. TwiceTheLimit follows
  from LimitHolds, since a window's length meets two windows. `Retry-After` is rounded up
  by adding 0.999 (`cache.py:108`), a ceiling only for clocks read in milliseconds; Python's
  is finer, so a client may be told up to a millisecond too little, and that is
  what WaitingIsAlmostEnough bounds.
* **Triage.** Assumption: finitely many requests (they are counted), distinct names.
  `AttemptsLeft` says the provider is asked only with attempts left (and
  with TypeCorrect, at most `MaxAttempts` times). `Answers` ties each outcome to the
  place its thread has reached; `Sharing` says that an answer stored stays while
  Redis loses nothing, and that no thread is about to delete it. `Told` is the list: the
  newest of what was pushed, backwards, each outcome as it was answered. `CountersTell`
  speaks of threads that are done; what is inductive is `Counted`, which says of every
  moment whose lookup should be counted by now (`HitSet`, `MissSet`) and whose outcome be
  on the list (`Recorded`): a step moves one of these sets by one thread and the matching
  variable by one, or only one of the two, and then `trouble` moves too.
  `Asked` ties the misses to the provider: nobody gets past it without an answer from
  the cache and without having asked.
* **Pool.** Assumption: finitely many requests, more threads than connections.
  `QueueInv` says that the queue has exactly those who wait for a thread, each once;
  so a probe that waits while time passes is behind somebody, and as time passes only
  when no thread can be taken, all are busy: `CrowdInv` makes that a fact of the
  state. The bound on connections is the guard of `Checkout` and the finiteness of `conn`.
  ThreadsOutlastTheDatabase adds that every statement has a connection
  (`StatementsConnected`): as there are more threads than connections, some busy thread
  is not in a statement. It is the safety half of `ProbeAnswered`.
* **Drain.** Assumption: the lengths are numbers; how they compare is a premise of
  each property that needs it. `Clocks` says how far the clock can be in each phase, and that
  routing has ended by `Propagate`; `Ages` that a request is at least as old as the
  part of the shutdown it has been through, and one that does not hang at most
  `MaxWork`; `Stuck` that a pod which closes for longer than that has a thread that
  hangs, whose client was told.
* **Startup.** Assumption: the names are distinct. `Locked` says who holds which lock,
  `Migrating` that the schema is missing for whoever is about to create it, and
  `Seeding` that what a transaction has inserted is in no committed row, and what its
  loop has passed is in one or the other. SeedingRepeats follows: a commit touches
  only rows that are absent. NoCircleOfLocks is the converse of `Locked`, and the safety
  half of `EveryPodServes`. For DemoDataStaysVaried the rules are applied to the
  scores of all seeds by `FirstOfTheBest`, and five seeds of five categories are named;
  that they are in the table of whoever serves is `Seeding`.
* **Dashboard.** Assumption: `None` is no complaint, no status and no table.
  `SelectedInv` says of the newest load that it is of the current selection and has
  failed, or is under way, or has been shown, in which case only older ones are under way;
  it needs the loads to be numbered apart (`NumberInv`). `TrueInv` and `MineInv` extend
  "was true" and "not older than mine" from the table to the answers under way: a load
  selects its rows after it was sent, so one sent after the page was told has the change.
  Both rest on a complaint's history only growing. For paging, the `Rank` of a complaint is the number of
  those listed before it. The list is a sequence without repetition in a strict order, so
  a complaint of rank k is at place k + 1 (`PlaceOf`, a bijection between the places and
  what is listed before), and a page holds exactly the ranks of its places
  (`PageIsWhole`). As nothing is ever taken out of the list, ranks only grow
  (`RankGrows`). `WalkInv` puts it together: what a walk has missed has a rank beyond the
  pages shown, in the table and in every answer asked for since the last of them, so that
  the pages shown and what is missed fit into the rows there were (`size`); with Next
  disabled the pages hold all that was counted (`PagesHold`), and what is missed is within
  the rows that were not. The words "asked for since" are needed: without
  them the invariant is not inductive, because an answer may come that was fetched before
  the first page of the walk, and TLC shows with four requests that the property itself
  then fails. So each page of a walk is one asked for after the page before it was shown
  (`since`): the late answer to a Next clicked before the walk began, which a change of the
  filter and back can bring, does not continue it.

### Only model-checked

Liveness (`EveryRequestEnds` of both modules, `Converges`, `EveryComplaintIsTriaged`,
`ProbeAnswered`, `EveryPodServes`) is out of the prover's reach, as is everything about
ENABLED; the deadlock check of the runs has no theorem either. That something is
violated in the four runs that expect it is shown by TLC's counterexamples.

## 5. What is not modelled, and why

* Data: texts, locations, JSON, prompt texts. No property here depends on them but by
  what `Rules` keeps of a text.
* Request validation has no state; `TriageResult` is the exception that matters.
  Logs and request ids influence nothing; of the metrics, the counter of requests is in
  `Drain`.
* Which address a request counts for (`client_ip`) is data to the limiter.
* What lies beyond a stretch of `Life` in the limiter: the model has it, a counter that
  begins again under a late MULTI, and no property can bound it.
* An entry of the cache that is not JSON, or not an object: the key is this program's own,
  and nothing it has written under it is such an entry.
* How long the rate limit and the cache hold a worker thread while Redis does not answer
  (up to the client's timeouts and retries): in `RequestPool` a dependency gives its
  thread back at once. Such a call ends by itself, like a call of the provider; no verdict
  on `pool` or `pool_probe` depends on it.
* The way of a cancellation through the application: when the drain is over, the exit of
  `repository()` (`container.py:42`) closes the session under the thread that is still
  running, and the server tries a 500. `Drain` has of both the closed connection and
  the 500 that is counted; whose side a commit falls on is not told apart.
* The submit page sends one form at a time. That a citizen submits again after a lost
  answer is listed as a hazard; no line of the code promises one complaint per report.
* The statistics page and the shell render one answer. The filters of the dashboard
  for category and priority select by what never changes.
* The delivery pipeline: what can go wrong there (cancelled and overlapping runs, the
  registry, `rollout undo`) is decided by services outside this repository.
  `scripts/check_submission.py` checks the repository's own files, once, in order.
* Manifests, `nginx.conf` and the load test are configuration; their numbers are the
  constants of `RequestPool` and `Drain`.
* Postgres, Redis, the ASGI server and its thread pool are modelled as this code
  uses them; their definitions are marked external in `PROJECT.json`.

## 6. The plan

Done: the four concurrent cores, the process around them (threads, pool, start, end),
the rules, and the dashboard; and a theorem for each safety property. Next:

1. The composition of `ComplaintService` with `StatsCache`: a complaint that was
   answered with 201 shows in the statistics within TTL and lag. Each half is proved;
   `InvalidatedAfterCommit` is the interface between them.
2. A bound on what a liveness probe waits: ThreadsOutlastTheDatabase says that some
   thread comes free, `TypeCorrect` after how long at most; what is missed is how many
   may be ahead in the queue.

## 7. Running it

    tlc -workers 2 -config complaint.cfg MCComplaintService.tla
    tlapm ComplaintServiceProofs.tla

The configurations belong to the `MC` module of the component they are named
after; each run ends within three minutes on two cores.
