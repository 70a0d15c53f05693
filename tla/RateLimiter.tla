----------------------------- MODULE RateLimiter -----------------------------
(***************************************************************************)
(* The fixed-window limiter every replica shares through Redis, for one     *)
(* client address (the key contains the address, so clients never meet).     *)
(* hit() reads the replica's own clock, and later Redis executes             *)
(* INCR + EXPIRE as one MULTI on the key of the window that clock named.     *)
(* Between the two lie a network, retries, a pause of the process, with      *)
(* nothing that bounds them; and the clocks of two replicas do not agree.   *)
(***************************************************************************)
EXTENDS Integers, Sequences, FiniteSets

CONSTANTS
  Req,        \* POST requests of one client
  Limit,      \* rate_limit_requests
  Second,     \* ticks per second
  Window,     \* rate_limit_window_seconds, in ticks
  Times,      \* bound: the moments of Redis's time at which something happens
  Offsets,    \* by how much a replica's clock may be ahead of Redis's, or behind
  MaxTries,   \* times the client sends one MULTI (redis-py retries a lost reply)
  MaxTime,    \* bound: the last moment, and the latest a clock may show
  MaxLost     \* bound: hits on one key that restarts of Redis lose

ASSUME LimiterAssumption ==
  /\ IsFiniteSet(Req)
  /\ Limit \in Nat \ {0} /\ Second \in Nat \ {0} /\ Window \in Nat \ {0}
  /\ MaxTries \in Nat \ {0} /\ MaxTime \in Nat /\ MaxLost \in Nat
  /\ Times \in SUBSET (0..MaxTime) /\ 0 \in Times
  /\ Offsets \in SUBSET Int /\ 0 \in Offsets

VARIABLES
  now,      \* time in Redis
  pc,       \* pc[r]: "idle", "multi", "done"
  clock,    \* clock[r]: the time its replica's clock showed
  tries,    \* tries[r]: how often Redis has executed its MULTI
  answer,   \* answer[r]: "none", "allowed", "refused" (429) or "open" (Redis unavailable)
  log,      \* log[k]: the hits on the key of window k that Redis holds, in order: of
            \* each the expiry it set. The counter is the length of the log
  ran,      \* history: ran[r], when Redis executed the MULTI that was answered
  lost      \* history: executions on window k that a restart of Redis lost

vars == <<now, pc, clock, tries, answer, log, ran, lost>>

----------------------------------------------------------------------------

Key == 0..(MaxTime \div Window)

\* int(now // window): the window a request falls in, by its replica's clock.
KeyOf(r) == clock[r] \div Window

\* window_start, the tick it begins at.
Start(k) == k * Window

TypeOK ==
  /\ now \in Times
  /\ pc \in [Req -> {"idle", "multi", "done"}]
  /\ clock \in [Req -> 0..MaxTime]
  /\ tries \in [Req -> 0..MaxTries]
  /\ answer \in [Req -> {"none", "allowed", "refused", "open"}]
  /\ log \in [Key -> Seq(Nat)]
  /\ ran \in [Req -> Times]
  /\ lost \in [Key -> Nat]

Init ==
  /\ now = 0
  /\ pc = [r \in Req |-> "idle"]
  /\ clock = [r \in Req |-> 0]
  /\ tries = [r \in Req |-> 0]
  /\ answer = [r \in Req |-> "none"]
  /\ log = [k \in Key |-> <<>>]
  /\ ran = [r \in Req |-> 0]
  /\ lost = [k \in Key |-> 0]

\* now = time.time(), on a replica whose clock is off by d.
ReadClock(r) ==
  /\ pc[r] = "idle"
  /\ \E d \in Offsets : now + d \in 0..MaxTime /\ clock' = [clock EXCEPT ![r] = now + d]
  /\ pc' = [pc EXCEPT ![r] = "multi"]
  /\ UNCHANGED <<now, tries, answer, log, ran, lost>>

\* The key disappears at the expiry its last hit set.
Alive(k) == log[k] # <<>> /\ now < log[k][Len(log[k])]

\* The counter INCR finds.
Found(k) == IF Alive(k) THEN Len(log[k]) ELSE 0

\* How long a hit keeps the key: pipe.expire(key, self.window + 1), on every hit.
Life == Window + Second

\* Mutant: the key expires with its window.
Expiry_NoMargin == now + Window

Expiry == now + Life

\* Redis executes MULTI INCR EXPIRE EXEC.
Multi(r) ==
  /\ tries[r] < MaxTries
  /\ tries' = [tries EXCEPT ![r] = @ + 1]
  /\ log' = [log EXCEPT ![KeyOf(r)] = Append(IF Alive(KeyOf(r)) THEN @ ELSE <<>>, Expiry)]
  /\ UNCHANGED <<now, clock, lost>>

Finish(r, a) ==
  /\ pc[r] = "multi"
  /\ pc' = [pc EXCEPT ![r] = "done"]
  /\ answer' = [answer EXCEPT ![r] = a]

\* Mutants: one request too many, and one too few.
Hit_OneTooMany(r) ==
  /\ Multi(r)
  /\ Finish(r, IF Found(KeyOf(r)) > Limit THEN "refused" ELSE "allowed")
  /\ ran' = [ran EXCEPT ![r] = now]

Hit_OneTooFew(r) ==
  /\ Multi(r)
  /\ Finish(r, IF Found(KeyOf(r)) + 1 >= Limit THEN "refused" ELSE "allowed")
  /\ ran' = [ran EXCEPT ![r] = now]

\* The MULTI is executed, and its reply decides.
Hit(r) ==
  /\ Multi(r)
  /\ Finish(r, IF Found(KeyOf(r)) + 1 > Limit THEN "refused" ELSE "allowed")
  /\ ran' = [ran EXCEPT ![r] = now]

\* The MULTI is executed with nobody reading the reply: it is lost and the Redis
\* client sends the MULTI again or gives up, or the client had given up on this
\* execution before (after its timeout) and gone on.
HitUnread(r) ==
  /\ pc[r] # "idle"
  /\ Multi(r)
  /\ UNCHANGED <<pc, answer, ran>>

\* A RedisError: the request is let through, whatever has been counted.
FailOpen(r) ==
  /\ Finish(r, "open")
  /\ UNCHANGED <<now, clock, tries, log, ran, lost>>

\* Redis restarts from its append-only file, without the last hits on a key:
\* back come the count and the expiry of the last hit it kept.
RestartRedis ==
  /\ \E k \in Key : Alive(k) /\ \E n \in 1..Len(log[k]) :
       /\ lost[k] + n <= MaxLost
       /\ log' = [log EXCEPT ![k] = SubSeq(@, 1, Len(@) - n)]
       /\ lost' = [lost EXCEPT ![k] = @ + n]
  /\ UNCHANGED <<now, pc, clock, tries, answer, ran>>

\* Time passes, however long a MULTI is under way.
Tick ==
  /\ \E t \in Times : now < t /\ now' = t
  /\ UNCHANGED <<pc, clock, tries, answer, log, ran, lost>>

Terminated ==
  /\ \A t \in Times : t <= now
  /\ \A r \in Req : pc[r] = "done"
  /\ UNCHANGED vars

Next ==
  \/ \E r \in Req : ReadClock(r) \/ Hit(r) \/ HitUnread(r) \/ FailOpen(r)
  \/ RestartRedis \/ Tick \/ Terminated

Spec == Init /\ [][Next]_vars

----------------------------------------------------------------------------
\* The requests of window k let through by a MULTI that Redis executed in the
\* stretch of its time that begins at t and is as long as a hit keeps the key.
AllowedIn(k, t) ==
  {r \in Req : KeyOf(r) = k /\ answer[r] = "allowed" /\ ran[r] \in t..(t + Life - 1)}

\* Whatever the clocks and however slow the calls, all replicas together let at most
\* Limit requests of a window through in any stretch of Window + Second in Redis, one
\* more for each count that a restart of Redis lost: a counter that expires within
\* the stretch held no hit of it (cache.py:88-111; open answers are outside the limit
\* by design). Over more than such a stretch, which takes a MULTI more than a second
\* late, a window has no limit: its counter expires and begins again.
WindowLimit == \A k \in Key, t \in Times : Cardinality(AllowedIn(k, t)) <= Limit + lost[k]

\* The executions that counted in window k, and the requests they are of.
Executions(k) == {x \in Req \X (1..MaxTries) : KeyOf(x[1]) = k /\ x[2] <= tries[x[1]]}
Reached(k) == {r \in Req : KeyOf(r) = k /\ tries[r] > 0}

\* A request is refused only in a window in which Redis executed more than Limit
\* MULTIs. A MULTI sent again counts again, so that fewer than Limit requests may be
\* enough for a 429, but never fewer than Limit \div MaxTries (cache.py:100-109).
RefusedOnlyOverLimit ==
  \A r \in Req : answer[r] = "refused" =>
    /\ Limit < Cardinality(Executions(KeyOf(r)))
    /\ Limit < MaxTries * Cardinality(Reached(KeyOf(r)))

\* The limit of the fixed window, seen through a sliding one. Of the requests whose
\* clocks show times at most one window apart, and whose MULTIs ran in one stretch of
\* Window + Second, at most twice the limit are allowed, one more for each count lost
\* (cache.py:97-99).
AllowedAround(t, u) ==
  {r \in Req : /\ answer[r] = "allowed"
               /\ clock[r] \in t..(t + Window - 1) /\ ran[r] \in u..(u + Life - 1)}

LostIn(k) == IF k \in Key THEN lost[k] ELSE 0

AtMostTwiceTheLimit ==
  \A t \in {clock[r] : r \in Req}, u \in Times :
    Cardinality(AllowedAround(t, u)) <= 2 * Limit + LostIn(t \div Window) + LostIn(t \div Window + 1)

\* Mutant: the remaining time is truncated, not rounded up.
RetryAfter_Truncated(r) ==
  LET s == (Start(KeyOf(r)) + Window - clock[r]) \div Second
  IN  IF s < 1 THEN 1 ELSE s

\* Retry-After, in seconds: max(1, int(window_start + window - now + 0.999)).
RetryAfter(r) ==
  LET s == (Start(KeyOf(r)) + Window - clock[r] + (999 * Second) \div 1000) \div Second
  IN  IF s < 1 THEN 1 ELSE s

\* A millisecond in ticks, rounded up.
Millisecond == (Second + 999) \div 1000

\* The 0.999 falls short of rounding up by less than a millisecond, which time.time()
\* resolves. A client that waits a millisecond longer than its 429 says comes back in
\* a later window, and is never told to wait a whole second too long (cache.py:108).
AlmostEnough ==
  \A r \in Req : answer[r] = "refused" =>
    /\ (clock[r] + Second * RetryAfter(r) + Millisecond) \div Window > KeyOf(r)
    /\ RetryAfter(r) * Second < Window + Second
=============================================================================
