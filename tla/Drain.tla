-------------------------------- MODULE Drain --------------------------------
(***************************************************************************)
(* The end of a backend pod: it is deleted (or its container stopped), keeps *)
(* serving through the preStop sleep, gets SIGTERM, stops listening, waits   *)
(* for the requests in flight, cancels those that take longer, closes its    *)
(* pools and exits once its worker threads are done; whatever is left when   *)
(* the grace period is over is killed.                                       *)
(*                                                                         *)
(* A request is in one worker thread from the moment it is accepted, as a    *)
(* rule for at most MaxWork ticks (two calls to the provider, the sleep      *)
(* between them and the database); but statements have no timeout, and the   *)
(* timeout of a call to the provider bounds its phases and not the call, so  *)
(* some take longer or for ever. Cancelling a request closes the connection  *)
(* to its client; the thread goes on.                                        *)
(***************************************************************************)
EXTENDS Naturals

CONSTANTS
  Req,        \* requests; each is sent once
  PreStop,    \* ticks of the preStop sleep
  Propagate,  \* ticks until the last node has stopped sending new requests
  Graceful,   \* GRACEFUL_SHUTDOWN_SECONDS
  Grace,      \* the grace period, counted from the deletion
  MaxWork     \* ticks a request takes as a rule

ASSUME DrainAssumption ==
  /\ PreStop \in Nat /\ Propagate \in Nat /\ Graceful \in Nat /\ MaxWork \in Nat
  /\ Grace \in Nat

VARIABLES
  slow,      \* requests that may take longer
  phase,     \* of the pod
  clock,     \* ticks since it was deleted
  since,     \* ticks since it stopped listening
  draining,  \* Container.draining: /ready answers 503
  routed,    \* new requests are still sent to this pod
  st,        \* st[r]: what the client of r knows
  age,       \* age[r]: ticks r has been in its thread, counted up to MaxAge
  threads,   \* requests whose worker thread is running
  counted    \* counted[r]: its status in http_requests_total, 0 if it is not there

vars == <<slow, phase, clock, since, draining, routed, st, age, threads, counted>>

----------------------------------------------------------------------------
Phase == {"serving", "preStop", "signalled", "waiting", "closing", "exited", "killed"}
Listening == {"serving", "preStop", "signalled"}
Over == {"exited", "killed"}

TypeOK ==
  /\ slow \in SUBSET Req
  /\ phase \in Phase
  /\ clock \in 0..Grace /\ since \in 0..Graceful
  /\ draining \in BOOLEAN /\ routed \in BOOLEAN
  /\ st \in [Req -> {"unsent", "refused", "waiting", "answered", "cut", "lost"}]
  /\ age \in [Req -> Nat]
  /\ threads \in SUBSET Req
  /\ counted \in [Req -> {0, 200, 500}]

Init ==
  /\ slow \in SUBSET Req
  /\ phase = "serving" /\ clock = 0 /\ since = 0
  /\ draining = FALSE /\ routed = TRUE
  /\ st = [r \in Req |-> "unsent"]
  /\ age = [r \in Req |-> 0]
  /\ threads = {}
  /\ counted = [r \in Req |-> 0]

\* Bound: longer than any time the properties compare with.
MaxAge == PreStop + Graceful + MaxWork + 1

Waiting == {r \in Req : st[r] = "waiting"}

----------------------------------------------------------------------------
\* The request context middleware counts a request when the application returns
\* or raises, as a 500 unless an answer had been started.
Count(r, status) == counted' = [counted EXCEPT ![r] = status]

\* A client's request reaches the pod, or is refused.
Send(r) ==
  /\ routed /\ st[r] = "unsent"
  /\ IF phase \in Listening
       THEN st' = [st EXCEPT ![r] = "waiting"] /\ threads' = threads \cup {r}
       ELSE st' = [st EXCEPT ![r] = "refused"] /\ UNCHANGED threads
  /\ UNCHANGED <<slow, phase, clock, since, draining, routed, age, counted>>

\* Its handler is done. The client has the answer, unless it was cut off.
Finish(r) ==
  /\ r \in threads
  /\ threads' = threads \ {r}
  /\ IF st[r] = "waiting"
       THEN st' = [st EXCEPT ![r] = "answered"] /\ Count(r, 200)
       ELSE UNCHANGED <<st, counted>>
  /\ UNCHANGED <<slow, phase, clock, since, draining, routed, age>>

\* The pod is deleted: a rollout, a scale-down, `docker compose stop`.
Delete ==
  /\ phase = "serving"
  /\ phase' = "preStop"
  /\ UNCHANGED <<slow, clock, since, draining, routed, st, age, threads, counted>>

\* It is taken out of the Service; a /ready that answers 503 does it as well.
Unroute ==
  /\ routed /\ (phase # "serving" \/ draining)
  /\ routed' = FALSE
  /\ UNCHANGED <<slow, phase, clock, since, draining, st, age, threads, counted>>

\* Mutant: no preStop hook.
Sigterm_AtOnce ==
  /\ phase = "preStop"
  /\ phase' = "signalled" /\ draining' = TRUE
  /\ UNCHANGED <<slow, clock, since, routed, st, age, threads, counted>>

\* handle_exit() after the preStop sleep.
Sigterm ==
  /\ phase = "preStop" /\ clock >= PreStop
  /\ phase' = "signalled" /\ draining' = TRUE
  /\ UNCHANGED <<slow, clock, since, routed, st, age, threads, counted>>

\* The server sees should_exit in its next turn and closes its sockets.
StopListening ==
  /\ phase = "signalled"
  /\ phase' = "waiting"
  /\ UNCHANGED <<slow, clock, since, draining, routed, st, age, threads, counted>>

\* No request is in flight any more.
Drained ==
  /\ phase = "waiting" /\ Waiting = {}
  /\ phase' = "closing"
  /\ UNCHANGED <<slow, clock, since, draining, routed, st, age, threads, counted>>

\* Mutants: the time counts from the deletion; there is no timeout.
TimedOut_FromDeletion == clock >= Graceful
TimedOut_Never == FALSE

TimedOut == since = Graceful

\* Mutant: requests that are cut off are not counted.
Cancel_Uncounted ==
  /\ phase = "waiting" /\ TimedOut /\ Waiting # {}
  /\ phase' = "closing"
  /\ st' = [r \in Req |-> IF r \in Waiting THEN "cut" ELSE st[r]]
  /\ UNCHANGED <<slow, clock, since, draining, routed, age, threads, counted>>

\* timeout_graceful_shutdown: the tasks left are cancelled, their connections
\* closed; they are counted as 500. What the cancellation does on the way is not told
\* apart: the exit of repository() closes the session that the thread, still running,
\* may be using, and a client that is still connected may get a 500 first.
Cancel ==
  /\ phase = "waiting" /\ TimedOut /\ Waiting # {}
  /\ phase' = "closing"
  /\ st' = [r \in Req |-> IF r \in Waiting THEN "cut" ELSE st[r]]
  /\ counted' = [r \in Req |-> IF r \in Waiting THEN 500 ELSE counted[r]]
  /\ UNCHANGED <<slow, clock, since, draining, routed, age, threads>>

\* The lifespan has closed the pools; the interpreter waits for its threads.
Exit ==
  /\ phase = "closing" /\ threads = {}
  /\ phase' = "exited"
  /\ UNCHANGED <<slow, clock, since, draining, routed, st, age, threads, counted>>

\* SIGKILL at the end of the grace period.
Kill ==
  /\ phase \notin Over \cup {"serving"} /\ clock = Grace
  /\ phase' = "killed"
  /\ st' = [r \in Req |-> IF r \in Waiting THEN "lost" ELSE st[r]]
  /\ threads' = {}
  /\ UNCHANGED <<slow, clock, since, draining, routed, age, counted>>

\* Time does not pass over what is due.
Due ==
  \/ \E r \in threads \ slow : age[r] >= MaxWork
  \/ phase # "serving" /\ routed /\ clock >= Propagate
  \/ phase = "preStop" /\ clock >= PreStop
  \/ phase = "signalled"
  \/ phase = "waiting" /\ (Waiting = {} \/ TimedOut)
  \/ phase = "closing" /\ threads = {}
  \/ phase \notin Over \cup {"serving"} /\ clock = Grace

Tick ==
  /\ ~Due
  /\ age' = [r \in Req |-> IF r \in threads /\ age[r] < MaxAge THEN age[r] + 1 ELSE age[r]]
  /\ clock' = IF phase \in Over \cup {"serving"} THEN clock ELSE clock + 1
  /\ since' = IF phase = "waiting" THEN since + 1 ELSE since
  /\ UNCHANGED <<slow, phase, draining, routed, st, threads, counted>>

Pod == Sigterm \/ StopListening \/ Drained \/ Cancel \/ Exit

Next ==
  \/ \E r \in Req : Send(r) \/ Finish(r)
  \/ Delete \/ Unroute \/ Pod \/ Kill \/ Tick

Spec == Init /\ [][Next]_vars

----------------------------------------------------------------------------
\* How long a request has had when it can first be cut off: the drain, and what
\* is left of the preStop sleep when the last request was let in.
Allowance == Graceful + IF Propagate < PreStop THEN PreStop - Propagate ELSE 0

\* Zero downtime (backend.yaml:83-84): when the endpoint is gone everywhere before
\* the preStop sleep is over, nobody is ever sent to a pod that refuses.
NobodyRefused ==
  Propagate < PreStop /\ Propagate < Grace => \A r \in Req : st[r] # "refused"

\* A request in flight is cut off only when it has had its time
\* (server.py:5-6, backend.yaml:24).
CutOnlyAfterItsTime ==
  \A r \in Req : st[r] = "cut" => age[r] >= Allowance

\* A pod whose grace period covers the preStop sleep and the longer of drain and
\* work loses nobody, and exits by itself with every thread done, so that also
\* what a client was cut off from is committed or rolled back (server.py:7). Only
\* a thread that hangs gets it killed, and its client has been told by then.
KilledOnlyIfStuck ==
  PreStop + Graceful < Grace /\ PreStop + MaxWork < Grace =>
    /\ \A r \in Req : st[r] # "lost"
    /\ phase = "killed" => \E r \in slow : st[r] = "cut"

\* http_requests_total has every request that is over, once, and those that were
\* cut off as errors (middleware.py:42-58).
EveryoneIsCounted ==
  \A r \in Req :
    /\ st[r] = "answered" <=> counted[r] = 200
    /\ st[r] = "cut" <=> counted[r] = 500

----------------------------------------------------------------------------
\* What the documentation says, and the code does not do.

\* compose.prod.yaml:78: the grace period is longer than the drain "so in-flight
\* requests drain". (Even when none takes longer than it may.)
InFlightRequestsDrain == slow = {} => \A r \in Req : st[r] \notin {"cut", "lost"}
=============================================================================
