---------------------------- MODULE TriageService ----------------------------
(***************************************************************************)
(* TriageService.triage() in many threads of many replicas at once: look the *)
(* content hash up in Redis, ask the HTTP provider (with its retry), store a *)
(* real answer, fall back to the rules, put the outcome on the list of       *)
(* recent ones. The threads share Redis and nothing else.                    *)
(*                                                                         *)
(* A result is abstracted to the request whose inference (or whose rules)    *)
(* produced it. Redis may refuse a call (JsonCache swallows the error),      *)
(* execute one whose reply is lost (the client sends it again), expire or    *)
(* evict an entry; MaxTrouble bounds how often.                              *)
(***************************************************************************)
EXTENDS Naturals, Sequences, FiniteSets

CONSTANTS
  Req,          \* complaints being triaged
  Content,      \* content hashes
  MaxAttempts,  \* max_attempts: 2 in the code
  RECENT_CAP,   \* length of triage:recent
  MaxTrouble,   \* bound: failures and losses of Redis in a behaviour
  None,         \* no entry
  Poison        \* an entry TriageResult does not accept (another version's)

ASSUME TriageAssumption ==
  /\ IsFiniteSet(Req)
  /\ MaxAttempts \in Nat \ {0} /\ RECENT_CAP \in Nat \ {0} /\ MaxTrouble \in Nat
  /\ None \notin Req /\ Poison \notin Req /\ None # Poison

VARIABLES
  ask,       \* ask[r]: its content, and whether the location is one line (the hash
             \* does not tell: content_hash() makes every white space one blank)
  pc,        \* pc[r]: the next step of its thread
  attempt,   \* attempt[r]: calls to the provider so far
  outcome,   \* outcome[r]: the TriageOutcome
  entry,     \* entry[c]: the request whose result the cache holds, None or Poison
  hits, misses,  \* the counters triage:cache:hits and :misses
  recent,    \* triage:recent, newest first
  trouble,   \* history: failures and losses of Redis so far
  stored,    \* history: contents whose result has been stored, with nobody about to
             \* drop a poisoned entry of theirs
  late,      \* history: requests that looked their content up after that
  pushed     \* history: the requests put on triage:recent, in the order Redis did it

redis == <<entry, hits, misses, recent>>
histories == <<stored, late, pushed>>
vars == <<ask, pc, attempt, outcome, entry, hits, misses, recent, trouble, stored, late, pushed>>

----------------------------------------------------------------------------

Outcome == [from : Req, fallback : BOOLEAN, cached : BOOLEAN]
Blank(r) == [from |-> r, fallback |-> FALSE, cached |-> FALSE]

\* Mutant: a dropped entry is not counted as a miss.
After_DropUncounted ==
  [drop |-> "call", miss |-> "call", hit |-> "record", set |-> "record", record |-> "done"]

\* What the thread does after a call to Redis, whatever came of it.
After == [drop |-> "miss", miss |-> "call", hit |-> "record", set |-> "record", record |-> "done"]

PC == {"get", "drop", "miss", "call", "hit", "set", "fallback", "record", "done", "raised"}

Goto(r, next) == pc' = [pc EXCEPT ![r] = next]

TypeOK ==
  /\ ask \in [Req -> [content : Content, oneLine : BOOLEAN]]
  /\ pc \in [Req -> PC]
  /\ attempt \in [Req -> 0..MaxAttempts]
  /\ outcome \in [Req -> Outcome]
  /\ entry \in [Content -> Req \cup {None, Poison}]
  /\ hits \in Nat /\ misses \in Nat
  /\ recent \in Seq([req : Req, told : Outcome])
  /\ trouble \in 0..MaxTrouble
  /\ stored \in SUBSET Content /\ late \in SUBSET Req
  /\ pushed \in Seq(Req)

Init ==
  /\ ask \in [Req -> [content : Content, oneLine : BOOLEAN]]
  /\ pc = [r \in Req |-> "get"]
  /\ attempt = [r \in Req |-> 0]
  /\ outcome = [r \in Req |-> Blank(r)]
  /\ entry \in [Content -> {None, Poison}]
  /\ hits = 0 /\ misses = 0
  /\ recent = <<>>
  /\ trouble = 0
  /\ stored = {} /\ late = {} /\ pushed = <<>>

Key(r) == ask[r].content

----------------------------------------------------------------------------
\* The lookup. The entry found is validated; a poisoned one is dropped.
LookUp(r) ==
  LET e == entry[Key(r)] IN
  /\ pc[r] = "get"
  /\ late' = IF Key(r) \in stored THEN late \cup {r} ELSE late
  /\ \/ e \in Req /\ Goto(r, "hit")
        /\ outcome' = [outcome EXCEPT ![r] = [from |-> e, fallback |-> FALSE, cached |-> TRUE]]
     \/ e = Poison /\ Goto(r, "drop") /\ UNCHANGED outcome
     \/ e = None /\ Goto(r, "miss") /\ UNCHANGED outcome
  /\ UNCHANGED <<ask, attempt, redis, trouble, stored, pushed>>

Trouble == trouble < MaxTrouble /\ trouble' = trouble + 1

\* Redis refuses the GET: a miss.
LookUpFails(r) ==
  /\ pc[r] = "get"
  /\ Trouble
  /\ Goto(r, "miss")
  /\ UNCHANGED <<ask, attempt, outcome, redis, histories>>

----------------------------------------------------------------------------
\* What Redis executes for a thread.

Drop(r) ==
  /\ pc[r] = "drop"
  /\ entry' = [entry EXCEPT ![Key(r)] = None]
  /\ UNCHANGED <<hits, misses, recent, stored, pushed>>

CountMiss(r) ==
  /\ pc[r] = "miss"
  /\ misses' = misses + 1
  /\ UNCHANGED <<entry, hits, recent, stored, pushed>>

CountHit(r) ==
  /\ pc[r] = "hit"
  /\ hits' = hits + 1
  /\ UNCHANGED <<entry, misses, recent, stored, pushed>>

\* Somebody has read a poisoned entry of r's hash, and will delete what is there.
Dropping(r) == \E q \in Req : pc[q] = "drop" /\ Key(q) = Key(r)

\* Mutant: the result is stored under another key than it is looked up.
Store_OtherKey(r) ==
  /\ pc[r] = "set"
  /\ stored' = IF Dropping(r) THEN stored ELSE stored \cup {Key(r)}
  /\ UNCHANGED <<entry, hits, misses, recent, pushed>>

\* SET triage:v1:<hash> ... EX 24 h.
Store(r) ==
  /\ pc[r] = "set"
  /\ entry' = [entry EXCEPT ![Key(r)] = r]
  /\ stored' = IF Dropping(r) THEN stored ELSE stored \cup {Key(r)}
  /\ UNCHANGED <<hits, misses, recent, pushed>>

\* Mutant: RPUSH, so that LTRIM keeps the oldest.
Push_AtTheEnd(s, x) == SubSeq(s \o <<x>>, 1, IF Len(s) < RECENT_CAP THEN Len(s) + 1 ELSE RECENT_CAP)

Push(s, x) == SubSeq(<<x>> \o s, 1, IF Len(s) < RECENT_CAP THEN Len(s) + 1 ELSE RECENT_CAP)

\* MULTI LPUSH LTRIM EXEC on triage:recent.
Record(r) ==
  /\ pc[r] = "record"
  /\ recent' = Push(recent, [req |-> r, told |-> outcome[r]])
  /\ pushed' = Append(pushed, r)
  /\ UNCHANGED <<entry, hits, misses, stored>>

Executes(r) ==
  /\ Drop(r) \/ CountMiss(r) \/ CountHit(r) \/ Store(r) \/ Record(r)
  /\ UNCHANGED <<ask, attempt, outcome, late>>

Call(r) == Executes(r) /\ Goto(r, After[pc[r]]) /\ UNCHANGED trouble

CallReplyLost(r) == Executes(r) /\ Trouble /\ UNCHANGED pc

CallFails(r) ==
  /\ pc[r] \in DOMAIN After
  /\ Trouble
  /\ Goto(r, After[pc[r]])
  /\ UNCHANGED <<ask, attempt, outcome, redis, histories>>

\* A TTL runs out, or volatile-lru evicts the entry.
Expire(c) ==
  /\ entry[c] # None
  /\ Trouble
  /\ entry' = [entry EXCEPT ![c] = None]
  /\ UNCHANGED <<ask, pc, attempt, outcome, hits, misses, recent, histories>>

----------------------------------------------------------------------------
\* The provider (llm.py), one step per HTTP call.

Asks(r) == pc[r] = "call" /\ attempt' = [attempt EXCEPT ![r] = @ + 1]

ProviderAnswers(r) ==
  /\ Asks(r)
  /\ outcome' = [outcome EXCEPT ![r] = Blank(r)]
  /\ Goto(r, "set")
  /\ UNCHANGED <<ask, redis, trouble, histories>>

\* Mutants: one retry too many, and a count that starts again.
ProviderUnavailable_OneMore(r) ==
  /\ Asks(r)
  /\ Goto(r, IF attempt[r] < MaxAttempts THEN "call" ELSE "fallback")
  /\ UNCHANGED <<ask, outcome, redis, trouble, histories>>

ProviderUnavailable_Forever(r) ==
  /\ pc[r] = "call"
  /\ attempt' = [attempt EXCEPT ![r] = IF @ < MaxAttempts THEN @ + 1 ELSE 1]
  /\ UNCHANGED <<ask, pc, outcome, redis, trouble, histories>>

\* Timeout, 429, 5xx or transport error: once more, after a jittered sleep.
ProviderUnavailable(r) ==
  /\ Asks(r)
  /\ Goto(r, IF attempt'[r] < MaxAttempts THEN "call" ELSE "fallback")
  /\ UNCHANGED <<ask, outcome, redis, trouble, histories>>

\* A 4xx, or an answer the schema rejects: never again.
ProviderRefuses(r) ==
  /\ Asks(r)
  /\ Goto(r, "fallback")
  /\ UNCHANGED <<ask, outcome, redis, trouble, histories>>

\* Mutant: the fallback is cached like a real answer.
Fallback_Cached(r) ==
  /\ pc[r] = "fallback"
  /\ IF ask[r].oneLine
       THEN /\ outcome' = [outcome EXCEPT ![r] = [from |-> r, fallback |-> TRUE, cached |-> FALSE]]
            /\ Goto(r, "set")
       ELSE Goto(r, "raised") /\ UNCHANGED outcome
  /\ UNCHANGED <<ask, attempt, redis, trouble, histories>>

\* RuleBasedTriage. It puts the location as it is into its summary, and
\* TriageResult refuses a summary of more than one line.
Fallback(r) ==
  /\ pc[r] = "fallback"
  /\ IF ask[r].oneLine
       THEN /\ outcome' = [outcome EXCEPT ![r] = [from |-> r, fallback |-> TRUE, cached |-> FALSE]]
            /\ Goto(r, "record")
       ELSE Goto(r, "raised") /\ UNCHANGED outcome
  /\ UNCHANGED <<ask, attempt, redis, trouble, histories>>

Provider(r) == ProviderAnswers(r) \/ ProviderUnavailable(r) \/ ProviderRefuses(r)

Step(r) == LookUp(r) \/ Call(r) \/ Provider(r) \/ Fallback(r)

Terminated ==
  /\ \A r \in Req : pc[r] \in {"done", "raised"}
  /\ UNCHANGED vars

Next ==
  \/ \E r \in Req : Step(r) \/ LookUpFails(r) \/ CallReplyLost(r) \/ CallFails(r)
  \/ \E c \in Content : Expire(c)
  \/ Terminated

Spec == Init /\ [][Next]_vars

\* Threads keep running; provider and Redis answer or time out.
Fairness == \A r \in Req : WF_vars(Step(r))

FairSpec == Spec /\ Fairness

----------------------------------------------------------------------------
\* The provider itself answered r.
Inferred(r) ==
  pc[r] \in {"set", "record", "done"} /\ attempt[r] > 0 /\ outcome[r] = Blank(r)

\* However threads, failures and retries interleave, what is cached under a hash
\* is a real answer of the provider for that hash, never the rules' and never an
\* answer that itself came from the cache; and so is what a hit hands out
\* (triage_service.py:79 "Only cache real answers").
CacheHoldsRealAnswers ==
  /\ \A c \in Content : entry[c] \in Req => Inferred(entry[c]) /\ Key(entry[c]) = c
  /\ \A r \in Req : outcome[r].cached =>
       Inferred(outcome[r].from) /\ Key(outcome[r].from) = Key(r) /\ attempt[r] = 0

\* While Redis loses nothing, a complaint looked up after a real answer for its hash
\* was stored costs no inference (triage_service.py:41 "share one inference"). The
\* one store this is not true of is one that a thread with a poisoned entry in hand
\* is about to delete (line 72): then it is true from the next store on.
SharedOnceStored == trouble = 0 => \A r \in late : attempt[r] = 0

\* Whatever fails, triage:recent is the last RECENT_CAP outcomes that were pushed,
\* newest first, each as it was answered; and while Redis loses nothing every
\* outcome is pushed, once (TRIAGE.md:91 "the last 20 real triage outcomes").
RecentIsTrue ==
  LET n == Len(pushed) IN
  /\ Len(recent) = IF n < RECENT_CAP THEN n ELSE RECENT_CAP
  /\ \A k \in 1..Len(recent) :
       LET r == pushed[n + 1 - k]
       IN  recent[k] = [req |-> r, told |-> outcome[r]] /\ pc[r] \in {"record", "done"}
  /\ trouble = 0 =>
       /\ {pushed[k] : k \in 1..n} = {r \in Req : pc[r] = "done"}
       /\ \A j, k \in 1..n : pushed[j] = pushed[k] => j = k

Off(a, b) == IF a < b THEN b - a ELSE a - b

\* Once the threads are done the counters tell what the lookups cost: a hit for
\* every answer from the cache, a miss for every triage that went to the provider,
\* an outcome on the list for every triage that ended. A call that Redis refused, or
\* executed twice, puts one of the three off by one, and nothing else does
\* (routes/meta.py:18-26, cache.py:55-67).
CountersTell ==
  (\A r \in Req : pc[r] \in {"get", "done", "raised"}) =>
      Off(hits, Cardinality({r \in Req : outcome[r].cached}))
    + Off(misses, Cardinality({r \in Req : attempt[r] > 0}))
    + Off(Len(pushed), Cardinality({r \in Req : pc[r] = "done"})) <= trouble

\* Whatever provider and Redis do, the triage of a complaint whose location is one
\* line ends with an outcome (triage_service.py:3 "never sees a 500").
EveryComplaintIsTriaged == \A r \in Req : ask[r].oneLine ~> pc[r] = "done"

----------------------------------------------------------------------------
\* What the documents say, and the code does not do.

\* TRIAGE.md:69: the citizen always gets a 201, never a 500, whatever the
\* provider does. (An exception out of triage() is a 500.)
AlwaysA201 == \A r \in Req : pc[r] # "raised"
=============================================================================
