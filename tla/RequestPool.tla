----------------------------- MODULE RequestPool -----------------------------
(***************************************************************************)
(* One backend process under load. The routes, their dependencies and the    *)
(* validation of their answers are plain functions: each takes a worker      *)
(* thread, first come first served, for as long as it runs. A handler that   *)
(* touches the database also needs one of the pool's connections, waits at   *)
(* most pool_timeout for it, and a reader keeps it to the end of its request.*)
(* /health and /ready go the same way as everybody else.                     *)
(*                                                                         *)
(* Time moves in ticks, and only while every thread of the process waits for *)
(* the database, the triage provider or a connection: the process itself     *)
(* takes no time. How long the database takes is anybody's guess.            *)
(***************************************************************************)
EXTENDS Naturals, Sequences, FiniteSets

CONSTANTS
  Req,           \* requests; each is sent once, so their number is the bound
  Threads,       \* worker threads of the process (40 in the library)
  Connections,   \* pool_size and max_overflow: twice db_pool_size
  pool_timeout,  \* ticks a handler waits for a connection (5 s)
  ProbeTimeout   \* ticks the kubelet waits for /health (2 s)

ASSUME PoolAssumption ==
  /\ IsFiniteSet(Req)
  /\ Connections \in Nat \ {0} /\ pool_timeout \in Nat \ {0} /\ ProbeTimeout \in Nat
  /\ Threads \in Nat /\ Threads > Connections

VARIABLES
  kind,     \* kind[r]: what r asks for
  pc,       \* pc[r]: where r is
  queue,    \* requests waiting for a worker thread, oldest first
  conn,     \* requests that hold a database connection
  waited,   \* waited[r]: ticks r has waited for a connection
  age,      \* age[r]: ticks since the probe r was sent, capped past ProbeTimeout
  crowded   \* ghost: probes that have met all worker threads busy

vars == <<kind, pc, queue, conn, waited, age, crowded>>

----------------------------------------------------------------------------
Kind == {"health", "ready", "read", "create", "change"}

\* A request waits for a thread in "deps", "handler" and "answer"; it has one
\* in "triage", "checkout" and "sql".
Queued == {"deps", "handler", "answer"}
Running == {"triage", "checkout", "sql"}
PC == {"new", "close", "done"} \cup Queued \cup Running

TypeOK ==
  /\ kind \in [Req -> Kind]
  /\ pc \in [Req -> PC]
  /\ queue \in Seq(Req)
  /\ conn \in SUBSET Req
  /\ waited \in [Req -> 0..pool_timeout]
  /\ age \in [Req -> 0..ProbeTimeout + 1]
  /\ crowded \in SUBSET Req

Init ==
  /\ kind \in [Req -> Kind]
  /\ pc = [r \in Req |-> "new"]
  /\ queue = <<>>
  /\ conn = {}
  /\ waited = [r \in Req |-> 0]
  /\ age = [r \in Req |-> 0]
  /\ crowded = {}

Busy == {r \in Req : pc[r] \in Running}
AllBusy == Cardinality(Busy) >= Threads
Free == Cardinality(conn) < Connections

Goto(r, next) == pc' = [pc EXCEPT ![r] = next]

\* The probes out there while all the threads are busy.
Crowded == crowded' =
  IF Cardinality(Busy') >= Threads
    THEN crowded \cup {r \in Req : kind[r] = "health" /\ pc'[r] \in Queued}
    ELSE crowded

----------------------------------------------------------------------------
\* health() has no dependencies; everybody else has some, in threads too.
Arrive(r) ==
  /\ pc[r] = "new"
  /\ Goto(r, IF kind[r] = "health" THEN "handler" ELSE "deps")
  /\ queue' = Append(queue, r)
  /\ Crowded
  /\ UNCHANGED <<kind, conn, waited, age>>

\* Mutant: /health pings the database like /ready.
Work_HealthPings(r) == IF kind[r] = "create" THEN "triage" ELSE "checkout"

\* What a handler needs first: triage comes before any statement, and health()
\* touches nothing external.
Work(r) ==
  CASE kind[r] = "health" -> "answer"
    [] kind[r] = "create" -> "triage"
    [] OTHER -> "checkout"

\* A thread is free for the one that has waited longest. The dependencies and
\* the validation of an answer give it back at once. Left out is how long a call to
\* Redis holds the thread (enforce_rate_limit() among the dependencies, the cache in
\* handlers): up to the client's timeouts and retries, after which it ends by itself.
TakeThread ==
  /\ queue # <<>> /\ ~AllBusy
  /\ LET r == Head(queue)
         next == CASE pc[r] = "deps" -> "handler"
                   [] pc[r] = "handler" -> Work(r)
                   [] pc[r] = "answer" -> "close"
     IN  /\ Goto(r, next)
         /\ queue' = IF next \in Queued THEN Append(Tail(queue), r) ELSE Tail(queue)
  /\ Crowded
  /\ UNCHANGED <<kind, conn, waited, age>>

\* Triage ends, with the provider's answer or the rules'.
Triage(r) ==
  /\ pc[r] = "triage"
  /\ Goto(r, "checkout")
  /\ Crowded
  /\ UNCHANGED <<kind, queue, conn, waited, age>>

\* Mutant: an unbounded pool.
Checkout_Unbounded(r) ==
  /\ pc[r] = "checkout"
  /\ conn' = conn \cup {r}
  /\ Goto(r, "sql")
  /\ Crowded
  /\ UNCHANGED <<kind, queue, waited, age>>

\* The first statement of a session checks a connection out.
Checkout(r) ==
  /\ pc[r] = "checkout" /\ Free
  /\ conn' = conn \cup {r}
  /\ Goto(r, "sql")
  /\ Crowded
  /\ UNCHANGED <<kind, queue, waited, age>>

\* Mutant: the pool waits without a timeout.
Expired_Never(r) == FALSE

Expired(r) == waited[r] = pool_timeout

\* None came within pool_timeout: the statement raises, and the error is answered
\* as it is (ready() makes it a 503, everybody else a 500).
CheckoutTimesOut(r) ==
  /\ pc[r] = "checkout" /\ ~Free /\ Expired(r)
  /\ Goto(r, "close")
  /\ Crowded
  /\ UNCHANGED <<kind, queue, conn, waited, age>>

\* The session is closed inside ready(), and a commit gives the connection back
\* as well. A reader keeps its connection while its answer is validated.
Returns(r) == kind[r] # "read"

\* The statements are executed. ready() answers with a JSONResponse as it is.
Answered(r) ==
  /\ pc[r] = "sql"
  /\ conn' = IF Returns(r) THEN conn \ {r} ELSE conn
  /\ IF kind[r] = "ready"
       THEN Goto(r, "close") /\ UNCHANGED queue
       ELSE Goto(r, "answer") /\ queue' = Append(queue, r)
  /\ Crowded
  /\ UNCHANGED <<kind, waited, age>>

\* A statement raises: 404, 409, or the database is gone. ready() closes its
\* session on the way, the others at the end of the request.
Raised(r) ==
  /\ pc[r] = "sql"
  /\ conn' = IF kind[r] = "ready" THEN conn \ {r} ELSE conn
  /\ Goto(r, "close")
  /\ Crowded
  /\ UNCHANGED <<kind, queue, waited, age>>

\* Mutant: the session of a request is not closed.
Close_Forgotten(r) ==
  /\ pc[r] = "close"
  /\ Goto(r, "done")
  /\ Crowded
  /\ UNCHANGED <<kind, queue, conn, waited, age>>

\* The exit of _repository() rolls back and closes, in a thread of its own.
Close(r) ==
  /\ pc[r] = "close"
  /\ conn' = conn \ {r}
  /\ Goto(r, "done")
  /\ Crowded
  /\ UNCHANGED <<kind, queue, waited, age>>

\* Something in the process can go on without waiting.
CanGoOn ==
  \/ queue # <<>> /\ ~AllBusy
  \/ \E r \in Req :
       \/ pc[r] = "close"
       \/ pc[r] = "checkout" /\ (Free \/ Expired(r))

UnderWay(r) == pc[r] \notin {"new", "done"}
Probing(r) == kind[r] = "health" /\ UnderWay(r)

\* Time passes for those who wait for a connection and for the probes.
Tick ==
  /\ ~CanGoOn
  /\ waited' = [r \in Req |-> IF pc[r] = "checkout" /\ waited[r] <= pool_timeout THEN waited[r] + 1 ELSE waited[r]]
  /\ age' = [r \in Req |-> IF Probing(r) /\ age[r] <= ProbeTimeout THEN age[r] + 1 ELSE age[r]]
  /\ UNCHANGED <<kind, pc, queue, conn, crowded>>

\* What the process does by itself; triage ends because its calls have timeouts.
Process == TakeThread \/ \E r \in Req : Triage(r) \/ Checkout(r) \/ CheckoutTimesOut(r) \/ Close(r)

Next ==
  \/ Process \/ Tick
  \/ \E r \in Req : Arrive(r) \/ Answered(r) \/ Raised(r)

Spec == Init /\ [][Next]_vars

\* The threads run and time passes. Nothing is assumed of the database.
Fairness == WF_vars(Process) /\ WF_vars(Tick)

FairSpec == Spec /\ Fairness

----------------------------------------------------------------------------
\* At most Connections are out, each held by a request that is
\* under way and has executed a statement; a request that waits for one holds
\* none, and nothing is held once it is over (container.py:33-42, db.py:12).
ConnectionsReturned ==
  /\ Cardinality(conn) <= Connections
  /\ \A r \in conn :
       pc[r] \in {"sql", "close"} \/ (pc[r] = "answer" /\ kind[r] = "read")

\* A probe waits only for a worker thread: one that has waited at all has met the
\* process with every thread busy, whatever the database does (health.py:3
\* "Touches NOTHING external").
ProbeWaitsForThreadsOnly ==
  \A r \in Req : kind[r] = "health" /\ age[r] > 0 => r \in crowded

\* Every probe is answered in the end, though the database may never answer
\* anybody again: it cannot take all the threads, since there are fewer
\* connections than threads and nobody waits longer than pool_timeout for one.
ProbeAnswered == (\E r \in Req : Probing(r)) ~> (\A r \in Req : ~Probing(r))

\* If the database answers what it is asked, every request ends: readers that
\* hold their connections while they queue for a thread, and handlers that hold
\* their threads while they wait for a connection, do not wait on each other for
\* ever (db.py:12 pool_timeout=5).
EveryRequestEnds ==
  (\A r \in Req : []<>(pc[r] # "sql")) =>
    ((\E r \in Req : UnderWay(r)) ~> (\A r \in Req : ~UnderWay(r)))

----------------------------------------------------------------------------
\* What the documentation says, and the code does not do.

\* health.py:4 "a slow database must never fail it": a probe is answered before
\* the kubelet gives up on it.
ProbeInTime == \A r \in Req : kind[r] = "health" => age[r] <= ProbeTimeout
=============================================================================
