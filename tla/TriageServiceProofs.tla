------------------------- MODULE TriageServiceProofs -------------------------
(***************************************************************************)
(* What triage guarantees for every set of requests and hashes, any number   *)
(* of attempts, any length of the recent list, and any number of failures.   *)
(***************************************************************************)
EXTENDS TriageService, FiniteSetTheorems, TLAPS

\* The provider is asked only by a thread that has attempts left.
AttemptsLeft ==
  \A r \in Req :
    /\ pc[r] \in {"get", "drop", "miss"} => attempt[r] = 0
    /\ pc[r] = "call" => attempt[r] < MaxAttempts

\* Where an outcome comes from, by the place its thread has reached.
Answers ==
  /\ \A r \in Req :
       /\ pc[r] \in {"get", "drop", "miss", "call", "fallback"} => outcome[r] = Blank(r)
       /\ pc[r] = "set" => Inferred(r)
       /\ outcome[r].cached => pc[r] \in {"hit", "record", "done"}
       /\ pc[r] = "hit" => outcome[r].cached
  /\ CacheHoldsRealAnswers

\* While Redis loses nothing, an answer once stored stays, and nobody is about to drop
\* it; so whoever looks it up later has a hit.
Sharing ==
  trouble = 0 =>
    /\ \A c \in stored : entry[c] \in Req /\ \A q \in Req : pc[q] = "drop" => Key(q) # c
    /\ \A r \in late : outcome[r].cached

\* What the list shows of thread r, and that it shows the newest outcomes pushed.
Shown(r) == [req |-> r, told |-> outcome[r]]
Told ==
  /\ Len(recent) = IF Len(pushed) < RECENT_CAP THEN Len(pushed) ELSE RECENT_CAP
  /\ \A k \in 1..Len(recent) : recent[k] = Shown(pushed[Len(pushed) + 1 - k])
  /\ \A k \in 1..Len(pushed) : pc[pushed[k]] \in {"record", "done"}

IInv == TypeOK /\ AttemptsLeft /\ Answers /\ Sharing /\ Told

----------------------------------------------------------------------------
LEMMA Afterwards ==
  /\ DOMAIN After = {"drop", "miss", "hit", "set", "record"}
  /\ After["drop"] = "miss" /\ After["miss"] = "call" /\ After["hit"] = "record"
  /\ After["set"] = "record" /\ After["record"] = "done"
BY DEF After

\* A call to Redis, answered or not: what it does to the thread.
Calls(r) ==
  \/ Executes(r) /\ pc' = pc /\ trouble' = trouble + 1
  \/ /\ \/ Executes(r) /\ trouble' = trouble
        \/ UNCHANGED <<redis, histories, ask, attempt, outcome>> /\ trouble' = trouble + 1
     /\ pc[r] \in DOMAIN After /\ pc' = [pc EXCEPT ![r] = After[pc[r]]]

LEMMA CallCases ==
  ASSUME NEW r \in Req, Call(r) \/ CallReplyLost(r) \/ CallFails(r)
  PROVE  Calls(r) /\ trouble' \in {trouble, trouble + 1} /\ (trouble' = trouble \/ trouble < MaxTrouble)
BY Afterwards DEF Call, CallReplyLost, CallFails, Calls, Executes, Trouble, Goto,
  Drop, CountMiss, CountHit, Store, Record

LEMMA PushIsSeq ==
  ASSUME NEW S, NEW s \in Seq(S), NEW x \in S
  PROVE  /\ Push(s, x) \in Seq(S)
         /\ Len(Push(s, x)) >= 1
         /\ Len(Push(s, x)) = IF Len(s) < RECENT_CAP THEN Len(s) + 1 ELSE RECENT_CAP
         /\ Push(s, x)[1] = x
         /\ \A k \in 2..Len(Push(s, x)) : k - 1 \in 1..Len(s) /\ Push(s, x)[k] = s[k - 1]
<1> DEFINE n == IF Len(s) < RECENT_CAP THEN Len(s) + 1 ELSE RECENT_CAP
           t == <<x>> \o s
<1>1. n \in Nat /\ n >= 1 /\ n <= Len(s) + 1
  BY TriageAssumption
<1>2. t \in Seq(S) /\ Len(t) = Len(s) + 1 /\ t[1] = x /\ \A k \in 2..Len(t) : t[k] = s[k - 1]
  OBVIOUS
<1> HIDE DEF n, t
<1>3. Push(s, x) = SubSeq(t, 1, n)
  BY DEF Push, n, t
<1>4. SubSeq(t, 1, n) \in Seq(S) /\ Len(SubSeq(t, 1, n)) = n /\ \A k \in 1..n : SubSeq(t, 1, n)[k] = t[k]
  BY <1>1, <1>2
<1>5. Len(Push(s, x)) = n
  BY <1>3, <1>4
<1> QED BY <1>1, <1>2, <1>3, <1>4, <1>5 DEF n

LEMMA TypeStep == ASSUME TypeOK, AttemptsLeft, Next PROVE TypeOK' /\ AttemptsLeft'
<1> USE TriageAssumption DEF TypeOK, AttemptsLeft
<1>1. ASSUME NEW r \in Req, LookUp(r) PROVE TypeOK' /\ AttemptsLeft'
  <2>1. Key(r) \in Content
    BY DEF Key
  <2>2. PICK next \in {"hit", "drop", "miss"} : pc[r] = "get" /\ pc' = [pc EXCEPT ![r] = next]
    BY <1>1 DEF LookUp, Goto
  <2> DEFINE x == [from |-> entry[Key(r)], fallback |-> FALSE, cached |-> TRUE]
  <2>3. entry[Key(r)] \in Req => x \in Outcome
    BY DEF Outcome
  <2>4. UNCHANGED outcome \/ (entry[Key(r)] \in Req /\ outcome' = [outcome EXCEPT ![r] = x])
    BY <1>1 DEF LookUp
  <2> HIDE DEF x
  <2>5. outcome' \in [Req -> Outcome]
    BY <2>3, <2>4
  <2>6. /\ UNCHANGED <<ask, attempt, redis, trouble, stored>>
        /\ late' \in SUBSET Req /\ pushed' = pushed
    BY <1>1, <2>1 DEF LookUp
  <2> QED BY <2>2, <2>5, <2>6 DEF PC, redis
<1>2. ASSUME NEW r \in Req, LookUpFails(r) PROVE TypeOK' /\ AttemptsLeft'
  BY <1>2 DEF LookUpFails, Trouble, Goto, PC, redis, histories
<1>3. ASSUME NEW r \in Req, Call(r) \/ CallReplyLost(r) \/ CallFails(r) PROVE TypeOK' /\ AttemptsLeft'
  <2>1. pc' \in [Req -> PC] /\ AttemptsLeft'
    <3>1. attempt' = attempt
      BY <1>3, CallCases DEF Calls, Executes
    <3>2. pc' = pc \/ (pc[r] \in DOMAIN After /\ pc' = [pc EXCEPT ![r] = After[pc[r]]])
      BY <1>3, CallCases DEF Calls
    <3>3. CASE pc' = pc
      BY <3>1, <3>3
    <3>4. CASE pc[r] = "drop" /\ pc' = [pc EXCEPT ![r] = "miss"]
      BY <3>1, <3>4 DEF PC
    <3>5. CASE pc[r] = "miss" /\ pc' = [pc EXCEPT ![r] = "call"]
      BY <3>1, <3>5 DEF PC
    <3>6. CASE pc' = [pc EXCEPT ![r] = "record"]
      BY <3>1, <3>6 DEF PC
    <3>7. CASE pc' = [pc EXCEPT ![r] = "done"]
      BY <3>1, <3>7 DEF PC
    <3> QED BY <3>2, <3>3, <3>4, <3>5, <3>6, <3>7, Afterwards
  <2>2. trouble' \in 0..MaxTrouble
    <3>1. trouble' \in {trouble, trouble + 1} /\ (trouble' = trouble \/ trouble < MaxTrouble)
      BY <1>3, CallCases
    <3> QED BY <3>1
  <2>3. ASSUME Executes(r) PROVE recent' \in Seq([req : Req, told : Outcome])
    <3>1. [req |-> r, told |-> outcome[r]] \in [req : Req, told : Outcome]
      OBVIOUS
    <3>2. Push(recent, [req |-> r, told |-> outcome[r]]) \in Seq([req : Req, told : Outcome])
      BY <3>1, PushIsSeq
    <3> QED BY <2>3, <3>2 DEF Executes, Drop, CountMiss, CountHit, Store, Record
  <2>4. ASSUME Executes(r)
        PROVE  /\ UNCHANGED <<ask, attempt, outcome, late>> /\ pushed' \in Seq(Req)
               /\ entry' \in [Content -> Req \cup {None, Poison}]
               /\ hits' \in Nat /\ misses' \in Nat /\ stored' \in SUBSET Content
    <3>1. Key(r) \in Content
      BY DEF Key
    <3>2. UNCHANGED <<ask, attempt, outcome, late>> /\ pushed' \in Seq(Req)
      <4>1. pushed' = pushed \/ pushed' = Append(pushed, r)
        BY <2>4 DEF Executes, Drop, CountMiss, CountHit, Store, Record
      <4>2. UNCHANGED <<ask, attempt, outcome, late>>
        BY <2>4 DEF Executes
      <4>3. pushed \in Seq(Req) /\ Append(pushed, r) \in Seq(Req)
        OBVIOUS
      <4> QED BY <4>1, <4>2, <4>3
    <3>3. hits' \in Nat /\ misses' \in Nat
      BY <2>4 DEF Executes, Drop, CountMiss, CountHit, Store, Record
    <3>4. entry' \in [Content -> Req \cup {None, Poison}]
      <4>1. entry' = entry \/ entry' = [entry EXCEPT ![Key(r)] = None] \/ entry' = [entry EXCEPT ![Key(r)] = r]
        BY <2>4 DEF Executes, Drop, CountMiss, CountHit, Store, Record
      <4> QED BY <3>1, <4>1
    <3>5. stored' \in SUBSET Content
      <4>1. stored' = stored \/ stored' = stored \cup {Key(r)}
        BY <2>4 DEF Executes, Drop, CountMiss, CountHit, Store, Record
      <4> QED BY <3>1, <4>1
    <3> QED BY <3>2, <3>3, <3>4, <3>5
  <2>5. Executes(r) \/ UNCHANGED <<redis, histories, ask, attempt, outcome>>
    BY <1>3, CallCases DEF Calls
  <2> QED BY <2>1, <2>2, <2>3, <2>4, <2>5 DEF redis, histories
<1>4. ASSUME NEW c \in Content, Expire(c) PROVE TypeOK' /\ AttemptsLeft'
  BY <1>4 DEF Expire, Trouble, histories
<1>5. ASSUME NEW r \in Req, Provider(r) PROVE TypeOK' /\ AttemptsLeft'
  <2>1. UNCHANGED <<ask, redis, trouble, histories>>
    BY <1>5 DEF Provider, ProviderAnswers, ProviderUnavailable, ProviderRefuses
  <2>2. pc[r] = "call" /\ attempt' = [attempt EXCEPT ![r] = @ + 1]
    BY <1>5 DEF Provider, ProviderAnswers, ProviderUnavailable, ProviderRefuses, Asks
  <2>3. attempt' \in [Req -> 0..MaxAttempts]
    BY <2>2
  <2>4. PICK next \in {"set", "call", "fallback"} :
          pc' = [pc EXCEPT ![r] = next] /\ (next = "call" => attempt'[r] < MaxAttempts)
    BY <1>5 DEF Provider, ProviderAnswers, ProviderUnavailable, ProviderRefuses, Goto
  <2>5. pc' \in [Req -> PC] /\ AttemptsLeft'
    BY <2>2, <2>3, <2>4 DEF PC
  <2>6. outcome' \in [Req -> Outcome]
    <3>1. Blank(r) \in Outcome
      BY DEF Blank, Outcome
    <3>2. UNCHANGED outcome \/ outcome' = [outcome EXCEPT ![r] = Blank(r)]
      BY <1>5 DEF Provider, ProviderAnswers, ProviderUnavailable, ProviderRefuses
    <3> QED BY <3>1, <3>2
  <2> QED BY <2>1, <2>3, <2>5, <2>6 DEF redis, histories
<1>6. ASSUME NEW r \in Req, Fallback(r) PROVE TypeOK' /\ AttemptsLeft'
  <2>1. UNCHANGED <<ask, attempt, redis, trouble, histories>> /\ pc[r] = "fallback"
    BY <1>6 DEF Fallback
  <2>2. PICK next \in {"record", "raised"} : pc' = [pc EXCEPT ![r] = next]
    BY <1>6 DEF Fallback, Goto
  <2>3. outcome' \in [Req -> Outcome]
    <3>1. [from |-> r, fallback |-> TRUE, cached |-> FALSE] \in Outcome
      BY DEF Outcome
    <3>2. \/ UNCHANGED outcome
          \/ outcome' = [outcome EXCEPT ![r] = [from |-> r, fallback |-> TRUE, cached |-> FALSE]]
      BY <1>6 DEF Fallback
    <3> QED BY <3>1, <3>2
  <2> QED BY <2>1, <2>2, <2>3 DEF PC, redis, histories
<1>7. CASE Terminated
  BY <1>7 DEF Terminated, vars
<1> QED BY <1>1, <1>2, <1>3, <1>4, <1>5, <1>6, <1>7 DEF Next, Step

\* Where a call to Redis leaves its thread.
LEMMA CallMoves ==
  ASSUME TypeOK, NEW r \in Req, Calls(r)
  PROVE  /\ UNCHANGED <<ask, attempt, outcome, late>>
         /\ \A q \in Req \ {r} : pc'[q] = pc[q]
         /\ \/ pc' = pc /\ pc[r] \in {"drop", "miss", "hit", "set", "record"}
            \/ pc[r] = "drop" /\ pc'[r] = "miss"
            \/ pc[r] = "miss" /\ pc'[r] = "call"
            \/ pc[r] \in {"hit", "set"} /\ pc'[r] = "record"
            \/ pc[r] = "record" /\ pc'[r] = "done"
<1>1. UNCHANGED <<ask, attempt, outcome, late>>
  BY DEF Calls, Executes, histories
<1>2. Executes(r) => pc[r] \in {"drop", "miss", "hit", "set", "record"}
  BY DEF Executes, Drop, CountMiss, CountHit, Store, Record
<1>3. \/ pc' = pc /\ Executes(r)
      \/ pc[r] \in DOMAIN After /\ pc' = [pc EXCEPT ![r] = After[pc[r]]]
  BY DEF Calls
<1> QED BY <1>1, <1>2, <1>3, Afterwards DEF TypeOK

\* The steps that do not call Redis change nothing of the other threads either.
Others(r) ==
  \A q \in Req \ {r} : UNCHANGED <<pc[q], attempt[q], outcome[q]>>

LEMMA OthersUnchanged ==
  ASSUME TypeOK, NEW r \in Req, LookUp(r) \/ LookUpFails(r) \/ Provider(r) \/ Fallback(r)
  PROVE  Others(r) /\ ask' = ask
<1>1. CASE LookUp(r)
  BY <1>1 DEF LookUp, Goto, Others, TypeOK
<1>2. CASE LookUpFails(r)
  BY <1>2 DEF LookUpFails, Goto, Others, TypeOK
<1>3. CASE Provider(r)
  BY <1>3 DEF Provider, ProviderAnswers, ProviderUnavailable, ProviderRefuses, Asks, Goto, Others, TypeOK
<1>4. CASE Fallback(r)
  BY <1>4 DEF Fallback, Goto, Others, TypeOK
<1> QED BY <1>1, <1>2, <1>3, <1>4

LEMMA InferredStays ==
  ASSUME TypeOK, Next, NEW q \in Req, Inferred(q)
  PROVE  Inferred(q)' /\ ask' = ask
<1>1. ASSUME NEW r \in Req, LookUp(r) \/ LookUpFails(r) \/ Provider(r) \/ Fallback(r)
      PROVE  Inferred(q)' /\ ask' = ask
  <2>1. pc[r] \in {"get", "call", "fallback"}
    BY <1>1 DEF LookUp, LookUpFails, Provider, ProviderAnswers, ProviderUnavailable, ProviderRefuses, Asks, Fallback
  <2>2. q # r
    BY <2>1 DEF Inferred
  <2> QED BY <1>1, <2>2, OthersUnchanged DEF Inferred, Others, Blank
<1>2. ASSUME NEW r \in Req, Call(r) \/ CallReplyLost(r) \/ CallFails(r)
      PROVE  Inferred(q)' /\ ask' = ask
  BY <1>2, CallCases, CallMoves DEF Inferred, Blank
<1>3. ASSUME NEW c \in Content, Expire(c) PROVE Inferred(q)' /\ ask' = ask
  BY <1>3 DEF Expire, Inferred, Blank
<1>4. CASE Terminated
  BY <1>4 DEF Terminated, vars, Inferred, Blank
<1> QED BY <1>1, <1>2, <1>3, <1>4 DEF Next, Step

LEMMA AnswersStep ==
  ASSUME TypeOK, AttemptsLeft, Answers, Next
  PROVE  Answers'
<1>1. \A q \in Req : Inferred(q) => Inferred(q)' /\ ask' = ask
  BY InferredStays
<1> DEFINE Entries == \A c \in Content, q \in Req : entry[c] = q => Inferred(q) /\ Key(q) = c
           Cached(r) == outcome[r].cached => attempt[r] = 0 /\ \A q \in Req :
             outcome[r].from = q => Inferred(q) /\ Key(q) = Key(r)
           Placed(r) ==
             /\ pc[r] \in {"get", "drop", "miss", "call", "fallback"} => outcome[r] = Blank(r)
             /\ pc[r] = "set" => Inferred(r)
             /\ outcome[r].cached => pc[r] \in {"hit", "record", "done"}
             /\ pc[r] = "hit" => outcome[r].cached
<1>2. Answers <=> Entries /\ \A r \in Req : Cached(r) /\ Placed(r)
  BY DEF Answers, CacheHoldsRealAnswers, TypeOK, Outcome
<1>3. TypeOK'
  BY TypeStep
<1>4. Answers' <=> (Entries /\ \A r \in Req : Cached(r) /\ Placed(r))'
  BY <1>3 DEF Answers, CacheHoldsRealAnswers, TypeOK, Outcome
<1>5. ASSUME NEW r \in Req, LookUp(r) \/ LookUpFails(r) \/ Provider(r) \/ Fallback(r)
      PROVE  Entries' /\ \A q \in Req : Cached(q)' /\ Placed(q)'
  <2>1. UNCHANGED <<ask, entry>> /\ Others(r)
    BY <1>5, OthersUnchanged DEF LookUp, LookUpFails, Provider, ProviderAnswers, ProviderUnavailable, ProviderRefuses,
      Asks, Fallback, redis
  <2>2. Entries'
    BY <1>1, <1>2, <2>1 DEF Key, TypeOK
  <2>3. ASSUME NEW q \in Req \ {r} PROVE Cached(q)' /\ Placed(q)'
    BY <1>1, <1>2, <2>1, <2>3 DEF Key, Others, Blank, Inferred
  <2>4. Cached(r)' /\ Placed(r)'
    <3>1. CASE LookUp(r)
      <4> DEFINE x == [from |-> entry[Key(r)], fallback |-> FALSE, cached |-> TRUE]
      <4>1. pc[r] = "get" /\ attempt[r] = 0 /\ attempt' = attempt /\ Key(r) \in Content /\ Key(r)' = Key(r)
        BY <3>1, <2>1 DEF LookUp, AttemptsLeft, Key, TypeOK
      <4>2. CASE entry[Key(r)] \in Req /\ pc'[r] = "hit" /\ outcome'[r] = x
        <5>1. PICK q \in Req : q = entry[Key(r)]
          BY <4>2
        <5>2. Inferred(q)' /\ Key(q)' = Key(r)'
          BY <1>1, <1>2, <2>1, <4>1, <5>1 DEF Key
        <5>3. outcome'[r].from = q /\ outcome'[r].cached
          BY <4>2, <5>1
        <5>4. Cached(r)'
          BY <4>1, <5>2, <5>3
        <5>5. Placed(r)'
          BY <4>2, <5>3
        <5> QED BY <5>4, <5>5
      <4>3. CASE pc'[r] \in {"drop", "miss"} /\ outcome' = outcome
        BY <1>2, <4>1, <4>3 DEF Blank
      <4> QED BY <3>1, <4>2, <4>3 DEF LookUp, Goto, TypeOK
    <3>2. CASE LookUpFails(r)
      BY <1>2, <3>2 DEF LookUpFails, Goto, Blank, TypeOK
    <3>3. CASE Provider(r)
      <4>1. pc[r] = "call" /\ attempt'[r] > 0
        BY <3>3 DEF Provider, ProviderAnswers, ProviderUnavailable, ProviderRefuses, Asks, TypeOK
      <4>2. outcome[r] = Blank(r) /\ ~Blank(r).cached
        BY <1>2, <4>1 DEF Blank
      <4>3. outcome'[r] = Blank(r)
        BY <3>3, <4>2 DEF Provider, ProviderAnswers, ProviderUnavailable, ProviderRefuses, TypeOK
      <4>4. pc'[r] \in {"set", "call", "fallback"}
        BY <3>3 DEF Provider, ProviderAnswers, ProviderUnavailable, ProviderRefuses, Asks, Goto, TypeOK
      <4> QED BY <4>1, <4>2, <4>3, <4>4 DEF Inferred, Blank
    <3>4. CASE Fallback(r)
      <4>1. pc[r] = "fallback" /\ outcome[r] = Blank(r)
        BY <1>2, <3>4 DEF Fallback
      <4>2. ~outcome'[r].cached /\ pc'[r] \in {"record", "raised"}
        BY <3>4, <4>1 DEF Fallback, Goto, Blank, TypeOK
      <4> QED BY <4>2
    <3> QED BY <1>5, <3>1, <3>2, <3>3, <3>4
  <2> QED BY <2>2, <2>3, <2>4
<1>6. ASSUME NEW r \in Req, Call(r) \/ CallReplyLost(r) \/ CallFails(r)
      PROVE  Entries' /\ \A q \in Req : Cached(q)' /\ Placed(q)'
  <2>1. Calls(r)
    BY <1>6, CallCases
  <2>2. UNCHANGED <<ask, attempt, outcome>>
    BY <2>1, CallMoves
  <2>3. entry' = entry \/ entry' = [entry EXCEPT ![Key(r)] = None]
        \/ (Inferred(r) /\ entry' = [entry EXCEPT ![Key(r)] = r])
    BY <1>2, <2>1 DEF Calls, Executes, Drop, CountMiss, CountHit, Store, Record, redis
  <2>4. Entries'
    <3>1. entry \in [Content -> Req \cup {None, Poison}] /\ Key(r) \in Content
      BY DEF Key, TypeOK
    <3>2. \A q \in Req : Key(q)' = Key(q) /\ (Inferred(q) => Inferred(q)')
      BY <1>1, <2>2 DEF Key
    <3>3. \A c \in Content : entry'[c] = entry[c] \/ entry'[c] = None
            \/ (entry'[c] = r /\ c = Key(r) /\ Inferred(r))
      BY <2>3, <3>1
    <3> QED BY <1>2, <3>2, <3>3, TriageAssumption
  <2>5. ASSUME NEW q \in Req PROVE Cached(q)' /\ Placed(q)'
    <3>1. Cached(q)'
      BY <1>1, <1>2, <2>2 DEF Key
    <3>2. pc[q] = "set" => Inferred(q)'
      BY <1>1, <1>2
    <3>3. Placed(q)'
      BY <1>2, <2>1, <2>2, <3>2, CallMoves DEF Blank
    <3> QED BY <3>1, <3>3
  <2> QED BY <2>4, <2>5
<1>7. ASSUME NEW c \in Content, Expire(c)
      PROVE  Entries' /\ \A q \in Req : Cached(q)' /\ Placed(q)'
  <2>1. UNCHANGED <<ask, pc, attempt, outcome>> /\ entry' = [entry EXCEPT ![c] = None]
    BY <1>7 DEF Expire
  <2>2. Entries'
    BY <1>1, <1>2, <2>1, TriageAssumption DEF Key, TypeOK
  <2>3. \A q \in Req : Cached(q)' /\ Placed(q)'
    BY <1>1, <1>2, <2>1 DEF Key, Blank
  <2> QED BY <2>2, <2>3
<1>8. ASSUME Terminated PROVE Entries' /\ \A q \in Req : Cached(q)' /\ Placed(q)'
  <2>1. UNCHANGED <<ask, pc, attempt, outcome, entry>>
    BY <1>8 DEF Terminated, vars
  <2> QED BY <1>2, <2>1 DEF Key, Inferred, Blank
<1> QED
  <2>1. Entries' /\ \A q \in Req : Cached(q)' /\ Placed(q)'
    BY <1>5, <1>6, <1>7, <1>8 DEF Next, Step
  <2> QED BY <1>4, <2>1

LEMMA SharingStep ==
  ASSUME TypeOK, Answers, Sharing, Next
  PROVE  Sharing'
<1> USE DEF Sharing
<1>0. /\ TypeOK
      /\ \A r \in Req : outcome[r].cached => pc[r] \in {"hit", "record", "done"}
      /\ \A r \in Req : pc[r] \in {"get", "drop", "miss", "call", "fallback"} => ~outcome[r].cached
  BY DEF Answers
<1>1. ASSUME NEW r \in Req, LookUp(r) PROVE Sharing'
  <2>1. /\ pc[r] = "get" /\ Key(r) \in Content /\ UNCHANGED <<ask, entry, trouble, stored>>
        /\ late' = IF Key(r) \in stored THEN late \cup {r} ELSE late
        /\ \A q \in Req \ {r} : pc'[q] = pc[q] /\ outcome'[q] = outcome[q]
    BY <1>1 DEF LookUp, Goto, Key, TypeOK, redis
  <2>2. \/ entry[Key(r)] \in Req /\ pc'[r] = "hit" /\ outcome'[r].cached
        \/ entry[Key(r)] = Poison /\ pc'[r] = "drop"
        \/ entry[Key(r)] = None /\ pc'[r] = "miss"
    BY <1>1 DEF LookUp, Goto, TypeOK
  <2>3. \A q \in Req : Key(q)' = Key(q)
    BY <2>1 DEF Key
  <2>4. r \notin late \/ trouble # 0
    BY <1>0, <2>1
  <2>5. ASSUME trouble = 0, NEW c \in stored
        PROVE  entry[c] \in Req /\ \A q \in Req : pc'[q] = "drop" => Key(q) # c
    <3>1. entry[c] \in Req /\ \A q \in Req : pc[q] = "drop" => Key(q) # c
      BY <2>5
    <3>2. pc'[r] = "drop" => Key(r) # c
      BY <2>2, <3>1, TriageAssumption
    <3> QED BY <2>1, <3>1, <3>2
  <2>6. ASSUME trouble = 0, NEW q \in late' PROVE outcome'[q].cached
    <3>1. CASE q = r
      <4>1. Key(r) \in stored
        BY <2>1, <2>4, <2>6, <3>1
      <4>2. entry[Key(r)] \in Req
        BY <2>6, <4>1
      <4> QED BY <2>2, <3>1, <4>2, TriageAssumption
    <3>2. CASE q # r
      BY <2>1, <2>6, <3>2 DEF TypeOK
    <3> QED BY <3>1, <3>2
  <2> QED BY <2>1, <2>3, <2>5, <2>6
<1>2. ASSUME NEW r \in Req, LookUpFails(r) PROVE Sharing'
  BY <1>2 DEF LookUpFails, Trouble, TypeOK
<1>3. ASSUME NEW r \in Req, Call(r) \/ CallReplyLost(r) \/ CallFails(r) PROVE Sharing'
  <2>1. Calls(r) /\ trouble' \in {trouble, trouble + 1}
    BY <1>3, CallCases
  <2>2. UNCHANGED <<ask, outcome, late>> /\ \A q \in Req : pc'[q] = "drop" => pc[q] = "drop"
    BY <2>1, CallMoves
  <2>3. SUFFICES ASSUME trouble' = 0 PROVE Sharing'
    OBVIOUS
  <2>4. trouble = 0 /\ Executes(r)
    <3>1. trouble' = trouble
      BY <2>1, <2>3 DEF TypeOK
    <3>2. trouble' # trouble + 1
      BY <3>1 DEF TypeOK
    <3> QED BY <2>1, <2>3, <3>1, <3>2 DEF Calls
  <2>5. Key(r) \in Content /\ \A q \in Req : Key(q)' = Key(q)
    BY <2>2 DEF Key, TypeOK
  <2>6. ASSUME NEW c \in stored' PROVE entry'[c] \in Req /\ \A q \in Req : pc[q] = "drop" => Key(q) # c
    <3>1. CASE Drop(r)
      <4>1. pc[r] = "drop" /\ stored' = stored /\ entry' = [entry EXCEPT ![Key(r)] = None]
        BY <3>1 DEF Drop
      <4>2. entry[c] \in Req /\ \A q \in Req : pc[q] = "drop" => Key(q) # c
        BY <2>4, <2>6, <4>1
      <4> QED BY <4>1, <4>2 DEF TypeOK
    <3>2. CASE Store(r)
      <4>1. entry' = [entry EXCEPT ![Key(r)] = r]
            /\ stored' = IF Dropping(r) THEN stored ELSE stored \cup {Key(r)}
        BY <3>2 DEF Store
      <4>2. CASE c \in stored
        BY <2>4, <2>5, <4>1, <4>2 DEF TypeOK
      <4>3. CASE c \notin stored
        <5>1. c = Key(r) /\ ~Dropping(r)
          BY <2>6, <4>1, <4>3
        <5> QED BY <2>5, <4>1, <5>1 DEF Dropping, TypeOK
      <4> QED BY <4>2, <4>3
    <3>3. CASE CountMiss(r) \/ CountHit(r) \/ Record(r)
      <4>1. stored' = stored /\ entry' = entry
        BY <3>3 DEF CountMiss, CountHit, Record
      <4> QED BY <2>4, <2>6, <4>1
    <3> QED BY <2>4, <3>1, <3>2, <3>3 DEF Executes
  <2> QED BY <2>2, <2>4, <2>5, <2>6
<1>4. ASSUME NEW c \in Content, Expire(c) PROVE Sharing'
  BY <1>4 DEF Expire, Trouble, TypeOK
<1>5. ASSUME NEW r \in Req, Provider(r) \/ Fallback(r) PROVE Sharing'
  <2>1. UNCHANGED <<ask, entry, trouble, stored, late>> /\ pc[r] \in {"call", "fallback"} /\ pc'[r] # "drop"
    BY <1>5 DEF Provider, ProviderAnswers, ProviderUnavailable, ProviderRefuses, Asks, Fallback, Goto,
      redis, histories, TypeOK
  <2>2. \A q \in Req \ {r} : pc'[q] = pc[q] /\ outcome'[q] = outcome[q]
    BY <1>5, OthersUnchanged DEF Others
  <2>3. ~outcome[r].cached
    BY <1>0, <2>1
  <2> QED BY <2>1, <2>2, <2>3 DEF Key, TypeOK
<1>6. CASE Terminated
  BY <1>6 DEF Terminated, vars, Key
<1> QED BY <1>1, <1>2, <1>3, <1>4, <1>5, <1>6 DEF Next, Step

LEMMA ToldStep ==
  ASSUME TypeOK, Told, Next
  PROVE  Told'
<1> DEFINE Settled(q) == pc[q] \in {"record", "done"}
           n == Len(pushed)
<1>0. /\ pushed \in Seq(Req) /\ n \in Nat /\ Len(recent) \in Nat /\ Len(recent) <= n
      /\ \A k \in 1..n : pushed[k] \in Req
      /\ \A k \in 1..Len(recent) : n + 1 - k \in 1..n
  <2>1. pushed \in Seq(Req) /\ n \in Nat /\ Len(recent) \in Nat
    BY DEF TypeOK
  <2>2. Len(recent) <= n
    BY <2>1, TriageAssumption DEF Told
  <2> QED BY <2>1, <2>2
<1>1. ASSUME UNCHANGED <<recent, pushed>>,
             \A q \in Req : Settled(q) => Settled(q)' /\ outcome'[q] = outcome[q]
      PROVE  Told'
  <2>1. \A k \in 1..n : Settled(pushed[k])' /\ outcome'[pushed[k]] = outcome[pushed[k]]
    BY <1>0, <1>1 DEF Told
  <2>2. \A k \in 1..n : Shown(pushed[k])' = Shown(pushed[k])
    BY <1>1, <2>1 DEF Shown
  <2>3. \A k \in 1..Len(recent) : recent'[k] = Shown(pushed[n + 1 - k])'
    BY <1>0, <1>1, <2>2 DEF Told
  <2> QED BY <1>1, <2>1, <2>3 DEF Told
<1>2. ASSUME NEW r \in Req, LookUp(r) \/ LookUpFails(r) \/ Provider(r) \/ Fallback(r) PROVE Told'
  <2>1. UNCHANGED <<recent, pushed>> /\ ~Settled(r) /\ Others(r)
    BY <1>2, OthersUnchanged DEF LookUp, LookUpFails, Provider, ProviderAnswers, ProviderUnavailable,
      ProviderRefuses, Asks, Fallback, redis, histories
  <2> QED BY <1>1, <2>1 DEF Others
<1>3. ASSUME NEW r \in Req, Call(r) \/ CallReplyLost(r) \/ CallFails(r) PROVE Told'
  <2>1. Calls(r)
    BY <1>3, CallCases
  <2>2. outcome' = outcome /\ \A q \in Req : Settled(q) => Settled(q)'
    BY <2>1, CallMoves
  <2>3. UNCHANGED <<recent, pushed>> \/ Record(r)
    BY <2>1 DEF Calls, Executes, Drop, CountMiss, CountHit, Store, redis, histories
  <2>4. CASE Record(r)
    <3> DEFINE x == Shown(r)
               S == [req : Req, told : Outcome]
    <3>1. x \in S /\ recent \in Seq(S)
      BY DEF TypeOK, Shown
    <3>2. recent' = Push(recent, x) /\ pushed' = Append(pushed, r) /\ Settled(r)
      BY <2>4 DEF Record, Shown
    <3> HIDE DEF x, S
    <3> DEFINE t == Push(recent, x)
    <3>3. t \in Seq(S) /\ t[1] = x
      BY <3>1, PushIsSeq
    <3>4. Len(t) = IF Len(recent) < RECENT_CAP THEN Len(recent) + 1 ELSE RECENT_CAP
      BY <3>1, PushIsSeq
    <3>5. \A k \in 2..Len(t) : k - 1 \in 1..Len(recent) /\ t[k] = recent[k - 1]
      BY <3>1, PushIsSeq
    <3> HIDE DEF t
    <3>6. /\ Len(pushed') = n + 1 /\ pushed'[n + 1] = r /\ \A k \in 1..n : pushed'[k] = pushed[k]
      BY <1>0, <3>2
    <3> HIDE DEF n
    <3>7. Len(t) \in Nat /\ Len(t) = IF n + 1 < RECENT_CAP THEN n + 1 ELSE RECENT_CAP
      <4>1. Len(recent) = IF n < RECENT_CAP THEN n ELSE RECENT_CAP
        BY DEF Told, n
      <4> QED BY <1>0, <3>4, <4>1, TriageAssumption
    <3>8. ASSUME NEW k \in 1..Len(t) PROVE t[k] = Shown(pushed'[(n + 1) + 1 - k])
      <4>1. CASE k = 1
        <5>1. (n + 1) + 1 - k = n + 1
          BY <1>0, <4>1
        <5> QED BY <3>3, <3>6, <4>1, <5>1 DEF x
      <4>2. CASE k # 1
        <5>1. k - 1 \in 1..Len(recent) /\ t[k] = recent[k - 1]
          BY <3>5, <3>7, <4>2
        <5>2. recent[k - 1] = Shown(pushed[n + 1 - (k - 1)]) /\ n + 1 - (k - 1) \in 1..n
          BY <1>0, <5>1 DEF Told, n
        <5>3. n + 1 - (k - 1) = (n + 1) + 1 - k
          BY <1>0, <3>7
        <5> QED BY <3>6, <5>1, <5>2, <5>3
      <4> QED BY <4>1, <4>2
    <3>9. \A k \in 1..Len(pushed') : pc'[pushed'[k]] \in {"record", "done"}
      <4>1. \A k \in 1..n : pc'[pushed[k]] \in {"record", "done"}
        BY <1>0, <2>2 DEF Told, n
      <4>2. pc'[r] \in {"record", "done"}
        BY <2>2, <3>2
      <4>3. ASSUME NEW k \in 1..(n + 1) PROVE pc'[pushed'[k]] \in {"record", "done"}
        <5>1. CASE k \in 1..n
          BY <3>6, <4>1, <5>1
        <5>2. CASE k = n + 1
          BY <3>6, <4>2, <5>2
        <5> QED BY <1>0, <5>1, <5>2
      <4> QED BY <3>6, <4>3
    <3>10. \A k \in 1..Len(recent') : recent'[k] = Shown(pushed'[Len(pushed') + 1 - k])
      <4>1. recent' = t
        BY <3>2 DEF t
      <4> QED BY <3>6, <3>8, <4>1
    <3>11. Len(recent') = IF Len(pushed') < RECENT_CAP THEN Len(pushed') ELSE RECENT_CAP
      BY <3>2, <3>6, <3>7 DEF t
    <3>12. \A k \in 1..Len(recent') : recent'[k] = Shown(pushed[Len(pushed) + 1 - k])'
      BY <2>2, <3>10 DEF Shown
    <3> QED BY <3>9, <3>11, <3>12 DEF Told
  <2> QED BY <1>1, <2>2, <2>3, <2>4
<1>4. ASSUME NEW c \in Content, Expire(c) PROVE Told'
  <2>1. UNCHANGED <<recent, pushed, pc, outcome>>
    BY <1>4 DEF Expire, histories
  <2> QED BY <1>1, <2>1
<1>5. CASE Terminated
  BY <1>1, <1>5 DEF Terminated, vars
<1> QED BY <1>2, <1>3, <1>4, <1>5 DEF Next, Step

----------------------------------------------------------------------------
\* The strengthened invariant holds in every reachable state.
THEOREM Invariance == Spec => []IInv
<1>1. Init => IInv
  <2>1. ASSUME Init PROVE TypeOK
    <3>1. \A r \in Req : Blank(r) \in Outcome
      BY DEF Blank, Outcome
    <3> QED BY <2>1, <3>1, TriageAssumption DEF Init, TypeOK, PC
  <2>2. ASSUME Init PROVE AttemptsLeft /\ Answers /\ Sharing /\ Told
    BY <2>2, TriageAssumption
    DEF Init, AttemptsLeft, Answers, CacheHoldsRealAnswers, Inferred, Sharing, Told, Blank, Key
  <2> QED BY <2>1, <2>2 DEF IInv
<1>2. IInv /\ [Next]_vars => IInv'
  <2>1. ASSUME IInv, Next PROVE IInv'
    BY <2>1, TypeStep, AnswersStep, SharingStep, ToldStep DEF IInv
  <2>2. ASSUME IInv, UNCHANGED vars PROVE IInv'
    BY <2>2 DEF IInv, TypeOK, AttemptsLeft, Answers, CacheHoldsRealAnswers, Inferred, Sharing, Told, Shown, Key, Blank, vars
  <2> QED BY <2>1, <2>2
<1> QED BY <1>1, <1>2, PTL DEF Spec

\* Every variable keeps its type: among others, no thread asks the provider more
\* than MaxAttempts times (llm.py:84-95).
THEOREM TypeCorrect == Spec => []TypeOK
<1>1. IInv => TypeOK
  BY DEF IInv
<1> QED BY <1>1, Invariance, PTL

\* Nothing but real answers of the provider is ever cached, or handed out as
\* cached, whatever fails (triage_service.py:79).
THEOREM OnlyRealAnswersCached == Spec => []CacheHoldsRealAnswers
<1>1. IInv => CacheHoldsRealAnswers
  BY DEF IInv, Answers
<1> QED BY <1>1, Invariance, PTL

\* While Redis loses nothing, whoever looks up a stored hash asks no provider
\* (triage_service.py:41).
THEOREM OneInferenceOnceStored == Spec => []SharedOnceStored
<1>1. IInv => SharedOnceStored
  BY DEF IInv, TypeOK, Answers, CacheHoldsRealAnswers, Sharing, SharedOnceStored
<1> QED BY <1>1, Invariance, PTL

----------------------------------------------------------------------------
\* What the counters and the list should account for by now: the lookups past their
\* count as a hit, those past their count as a miss, the outcomes past the list.
HitCounted(r) == outcome[r].cached /\ pc[r] # "hit"
MissCounted(r) ==
  \/ pc[r] \in {"call", "fallback", "set", "raised"}
  \/ pc[r] \in {"record", "done"} /\ ~outcome[r].cached

HitSet == {r \in Req : HitCounted(r)}
MissSet == {r \in Req : MissCounted(r)}
Recorded == {r \in Req : pc[r] = "done"}

\* Who has got past the provider without an answer from the cache has asked it.
Asked ==
  \A r \in Req :
    pc[r] \in {"fallback", "set", "raised"} \/ (pc[r] \in {"record", "done"} /\ ~outcome[r].cached)
      => attempt[r] > 0

HitsOff == Off(hits, Cardinality(HitSet))
MissesOff == Off(misses, Cardinality(MissSet))
PushesOff == Off(Len(pushed), Cardinality(Recorded))

\* Every incident puts at most one of them off by one.
Counted ==
  /\ HitsOff + MissesOff + PushesOff <= trouble
  /\ trouble = 0 =>
       /\ {pushed[k] : k \in 1..Len(pushed)} = Recorded
       /\ \A j, k \in 1..Len(pushed) : pushed[j] = pushed[k] => j = k

\* Sets of requests are finite.
LEMMA Sizes ==
  /\ IsFiniteSet(HitSet) /\ IsFiniteSet(MissSet) /\ IsFiniteSet(Recorded)
  /\ Cardinality(HitSet) \in Nat /\ Cardinality(MissSet) \in Nat /\ Cardinality(Recorded) \in Nat
<1>1. HitSet \in SUBSET Req /\ MissSet \in SUBSET Req /\ Recorded \in SUBSET Req
  BY DEF HitSet, MissSet, Recorded
<1> QED BY <1>1, TriageAssumption, FS_Subset, FS_CardinalityType

\* A tally and what it should be: both move, or neither, or one of the two.
LEMMA OffMoves ==
  ASSUME NEW a \in Nat, NEW b \in Nat
  PROVE  /\ Off(a, b) \in Nat /\ Off(a + 1, b) \in Nat /\ Off(a, b + 1) \in Nat
         /\ Off(a + 1, b + 1) = Off(a, b)
         /\ Off(a + 1, b) <= Off(a, b) + 1 /\ Off(a, b + 1) <= Off(a, b) + 1
         /\ a + 1 # a /\ b + 1 # b
BY DEF Off

\* A set of requests that thread r may join.
LEMMA Joined ==
  ASSUME NEW S, IsFiniteSet(S), NEW T, NEW r, T = S \/ (r \notin S /\ T = S \cup {r})
  PROVE  Cardinality(T) = IF T = S THEN Cardinality(S) ELSE Cardinality(S) + 1
BY FS_AddElement

\* A step without trouble is a step of one thread, or the end.
LEMMA NoTrouble ==
  ASSUME TypeOK, Next, trouble' = 0
  PROVE  trouble = 0 /\ ((\E r \in Req : Step(r)) \/ UNCHANGED vars)
<1>1. trouble \in Nat /\ ~Trouble
  BY TriageAssumption DEF TypeOK, Trouble
<1>2. \A r \in Req : ~LookUpFails(r) /\ ~CallReplyLost(r) /\ ~CallFails(r)
  BY <1>1 DEF LookUpFails, CallReplyLost, CallFails
<1>3. \A c \in Content : ~Expire(c)
  BY <1>1 DEF Expire
<1>4. (\E r \in Req : Step(r)) \/ UNCHANGED vars
  BY <1>2, <1>3 DEF Next, Terminated
<1>5. ASSUME NEW r \in Req, Step(r) PROVE trouble' = trouble
  BY <1>5 DEF Step, LookUp, Call, Provider, ProviderAnswers, ProviderUnavailable, ProviderRefuses, Fallback
<1>6. trouble' = trouble
  BY <1>4, <1>5 DEF vars
<1> QED BY <1>4, <1>6

\* What a step of thread r does to the tallies.
LEMMA TallyStep ==
  ASSUME TypeOK, AttemptsLeft, Answers, Asked, NEW r \in Req, Step(r)
  PROVE  /\ \A q \in Req \ {r} : UNCHANGED <<pc[q], outcome[q], attempt[q]>>
         /\ attempt'[r] >= attempt[r]
         /\ pc'[r] \in {"fallback", "set", "raised"} \/ (pc'[r] \in {"record", "done"} /\ ~outcome'[r].cached)
              => attempt'[r] > 0
         /\ HitCounted(r)' <=> HitCounted(r) \/ CountHit(r)
         /\ MissCounted(r)' <=> MissCounted(r) \/ CountMiss(r)
         /\ CountHit(r) => ~HitCounted(r)
         /\ CountMiss(r) => ~MissCounted(r)
         /\ pc[r] # "done" /\ (pc'[r] = "done" <=> Record(r))
         /\ IF CountHit(r) THEN hits' = hits + 1 ELSE hits' = hits
         /\ IF CountMiss(r) THEN misses' = misses + 1 ELSE misses' = misses
         /\ pushed' = IF Record(r) THEN Append(pushed, r) ELSE pushed
<1> USE DEF HitCounted, MissCounted
<1>0. /\ pc[r] \in {"get", "drop", "miss", "call", "fallback", "set"} => ~outcome[r].cached
      /\ pc[r] = "hit" => outcome[r].cached
      /\ pc[r] \in {"get", "drop", "miss"} => attempt[r] = 0
      /\ attempt[r] \in Nat
  BY TriageAssumption DEF Answers, Inferred, Blank, AttemptsLeft, TypeOK
<1>1. CASE LookUp(r)
  <2>1. /\ pc[r] = "get" /\ UNCHANGED <<hits, misses, pushed, attempt>> /\ Others(r)
        /\ ~CountHit(r) /\ ~CountMiss(r) /\ ~Record(r)
    BY <1>1, OthersUnchanged DEF LookUp, redis, CountHit, CountMiss, Record
  <2>2. \/ pc'[r] = "hit"
        \/ pc'[r] \in {"drop", "miss"} /\ outcome' = outcome
    BY <1>1 DEF LookUp, Goto, TypeOK
  <2> QED BY <1>0, <2>1, <2>2 DEF Others
<1>2. CASE Call(r)
  <2>1. Calls(r) /\ Executes(r) /\ pc[r] \in DOMAIN After /\ pc'[r] = After[pc[r]]
    BY <1>2, CallCases, Afterwards DEF Call, Goto, TypeOK, Executes, Drop, CountMiss, CountHit, Store, Record
  <2>2. UNCHANGED <<attempt, outcome>> /\ \A q \in Req \ {r} : pc'[q] = pc[q]
    BY <2>1, CallMoves
  <2>3. CASE Drop(r) \/ Store(r)
    <3>1. /\ UNCHANGED <<hits, misses, pushed>> /\ pc[r] \in {"drop", "set"}
          /\ ~CountHit(r) /\ ~CountMiss(r) /\ ~Record(r)
      BY <2>3 DEF Drop, Store, CountHit, CountMiss, Record
    <3>2. pc[r] = "set" => attempt[r] > 0
      BY DEF Asked
    <3> QED BY <1>0, <2>1, <2>2, <3>1, <3>2, Afterwards
  <2>4. CASE CountMiss(r)
    <3>1. pc[r] = "miss" /\ UNCHANGED <<hits, pushed>> /\ misses' = misses + 1 /\ ~CountHit(r) /\ ~Record(r)
      BY <2>4 DEF CountMiss, CountHit, Record
    <3> QED BY <1>0, <2>1, <2>2, <2>4, <3>1, Afterwards
  <2>5. CASE CountHit(r)
    <3>1. pc[r] = "hit" /\ UNCHANGED <<misses, pushed>> /\ hits' = hits + 1 /\ ~CountMiss(r) /\ ~Record(r)
      BY <2>5 DEF CountMiss, CountHit, Record
    <3> QED BY <1>0, <2>1, <2>2, <2>5, <3>1, Afterwards
  <2>6. CASE Record(r)
    <3>1. pc[r] = "record" /\ UNCHANGED <<hits, misses>> /\ pushed' = Append(pushed, r) /\ ~CountMiss(r) /\ ~CountHit(r)
      BY <2>6 DEF CountMiss, CountHit, Record
    <3>2. ~outcome[r].cached => attempt[r] > 0
      BY <3>1 DEF Asked
    <3> QED BY <1>0, <2>1, <2>2, <2>6, <3>1, <3>2, Afterwards
  <2> QED BY <2>1, <2>3, <2>4, <2>5, <2>6 DEF Executes
<1>3. CASE Provider(r)
  <2>1. /\ pc[r] = "call" /\ UNCHANGED <<hits, misses, pushed>> /\ Others(r)
        /\ ~CountHit(r) /\ ~CountMiss(r) /\ ~Record(r) /\ attempt'[r] = attempt[r] + 1
    BY <1>3, OthersUnchanged DEF Provider, ProviderAnswers, ProviderUnavailable, ProviderRefuses, Asks, redis,
      histories, CountHit, CountMiss, Record, TypeOK
  <2>2. pc'[r] \in {"set", "call", "fallback"} /\ (outcome' = outcome \/ outcome'[r] = Blank(r))
    BY <1>3 DEF Provider, ProviderAnswers, ProviderUnavailable, ProviderRefuses, Goto, TypeOK
  <2>3. ~outcome'[r].cached
    BY <1>0, <2>1, <2>2 DEF Blank
  <2> QED BY <1>0, <2>1, <2>2, <2>3 DEF Others
<1>4. CASE Fallback(r)
  <2>1. /\ pc[r] = "fallback" /\ UNCHANGED <<hits, misses, pushed, attempt>> /\ Others(r)
        /\ ~CountHit(r) /\ ~CountMiss(r) /\ ~Record(r)
    BY <1>4, OthersUnchanged DEF Fallback, redis, histories, CountHit, CountMiss, Record
  <2>2. pc'[r] \in {"record", "raised"} /\ ~outcome'[r].cached
    BY <1>0, <1>4, <2>1 DEF Fallback, Goto, TypeOK
  <2>3. attempt[r] > 0
    BY <2>1 DEF Asked
  <2> QED BY <1>0, <2>1, <2>2, <2>3 DEF Others
<1> QED BY <1>1, <1>2, <1>3, <1>4 DEF Step

LEMMA AskedStep ==
  ASSUME TypeOK, AttemptsLeft, Answers, Asked, Next
  PROVE  Asked'
<1>1. ASSUME NEW r \in Req, Step(r) PROVE Asked'
  <2>1. \A q \in Req \ {r} : UNCHANGED <<pc[q], outcome[q], attempt[q]>>
    BY <1>1, TallyStep
  <2>2. pc'[r] \in {"fallback", "set", "raised"} \/ (pc'[r] \in {"record", "done"} /\ ~outcome'[r].cached)
          => attempt'[r] > 0
    BY <1>1, TallyStep
  <2> QED BY <2>1, <2>2 DEF Asked
<1>2. ASSUME NEW r \in Req, LookUpFails(r) PROVE Asked'
  <2>1. Others(r)
    BY <1>2, OthersUnchanged
  <2>2. pc'[r] = "miss"
    BY <1>2 DEF LookUpFails, Goto, TypeOK
  <2> QED BY <2>1, <2>2 DEF Asked, Others
<1>3. ASSUME NEW r \in Req, CallReplyLost(r) \/ CallFails(r) PROVE Asked'
  <2>1. Calls(r)
    BY <1>3, CallCases
  <2>2. pc[r] = "hit" => outcome[r].cached
    BY DEF Answers
  <2> QED BY <2>1, <2>2, CallMoves DEF Asked
<1>4. ASSUME NEW c \in Content, Expire(c) PROVE Asked'
  BY <1>4 DEF Expire, Asked
<1>5. CASE Terminated
  BY <1>5 DEF Terminated, vars, Asked
<1> QED BY <1>1, <1>2, <1>3, <1>4, <1>5 DEF Next

\* What every step of a thread does to the counters and to what they should be: sets
\* that the thread joins, or not.
LEMMA Tallies ==
  ASSUME TypeOK, AttemptsLeft, Answers, Asked, NEW r \in Req,
         Step(r) \/ LookUpFails(r) \/ CallReplyLost(r) \/ CallFails(r)
  PROVE  /\ HitSet' = HitSet \/ (r \notin HitSet /\ HitSet' = HitSet \cup {r})
         /\ MissSet' = MissSet \/ (r \notin MissSet /\ MissSet' = MissSet \cup {r})
         /\ Recorded' = Recorded \/ (r \notin Recorded /\ Recorded' = Recorded \cup {r})
         /\ hits' \in {hits, hits + 1} /\ misses' \in {misses, misses + 1}
         /\ pushed' = pushed \/ pushed' = Append(pushed, r)
         /\ \/ /\ trouble' = trouble
               /\ (hits' = hits) <=> (HitSet' = HitSet)
               /\ (misses' = misses) <=> (MissSet' = MissSet)
               /\ (pushed' = pushed) <=> (Recorded' = Recorded)
            \/ /\ trouble' = trouble + 1
               /\ \/ hits' = hits /\ HitSet' = HitSet /\ misses' = misses /\ MissSet' = MissSet
                  \/ hits' = hits /\ HitSet' = HitSet /\ pushed' = pushed /\ Recorded' = Recorded
                  \/ misses' = misses /\ MissSet' = MissSet /\ pushed' = pushed /\ Recorded' = Recorded
<1>0. /\ pushed \in Seq(Req) /\ Append(pushed, r) # pushed
      /\ hits \in Nat /\ misses \in Nat /\ hits + 1 # hits /\ misses + 1 # misses
      /\ trouble \in Nat
  BY DEF TypeOK
<1>1. CASE Step(r)
  <2>1. \A q \in Req \ {r} : UNCHANGED <<pc[q], outcome[q], attempt[q]>>
    BY <1>1, TallyStep
  <2>2. IF CountHit(r) THEN hits' = hits + 1 /\ HitSet' = HitSet \cup {r} /\ r \notin HitSet
                       ELSE hits' = hits /\ HitSet' = HitSet
    <3>1. /\ HitCounted(r)' <=> HitCounted(r) \/ CountHit(r)
          /\ CountHit(r) => ~HitCounted(r)
          /\ IF CountHit(r) THEN hits' = hits + 1 ELSE hits' = hits
      BY <1>1, TallyStep
    <3>2. \A q \in Req \ {r} : HitCounted(q)' <=> HitCounted(q)
      BY <2>1 DEF HitCounted
    <3> QED BY <3>1, <3>2 DEF HitSet
  <2>3. IF CountMiss(r) THEN misses' = misses + 1 /\ MissSet' = MissSet \cup {r} /\ r \notin MissSet
                        ELSE misses' = misses /\ MissSet' = MissSet
    <3>1. /\ MissCounted(r)' <=> MissCounted(r) \/ CountMiss(r)
          /\ CountMiss(r) => ~MissCounted(r)
          /\ IF CountMiss(r) THEN misses' = misses + 1 ELSE misses' = misses
      BY <1>1, TallyStep
    <3>2. \A q \in Req \ {r} : MissCounted(q)' <=> MissCounted(q)
      BY <2>1 DEF MissCounted
    <3> QED BY <3>1, <3>2 DEF MissSet
  <2>4. IF Record(r) THEN pushed' = Append(pushed, r) /\ Recorded' = Recorded \cup {r} /\ r \notin Recorded
                     ELSE pushed' = pushed /\ Recorded' = Recorded
    <3>1. /\ pc[r] # "done" /\ (pc'[r] = "done" <=> Record(r))
          /\ pushed' = IF Record(r) THEN Append(pushed, r) ELSE pushed
      BY <1>1, TallyStep
    <3> QED BY <2>1, <3>1 DEF Recorded
  <2>5. trouble' = trouble
    BY <1>1 DEF Step, LookUp, Call, Provider, ProviderAnswers, ProviderUnavailable, ProviderRefuses, Fallback
  <2>6. /\ r \notin HitSet => HitSet \cup {r} # HitSet
        /\ r \notin MissSet => MissSet \cup {r} # MissSet
        /\ r \notin Recorded => Recorded \cup {r} # Recorded
    OBVIOUS
  <2> QED BY <1>0, <2>2, <2>3, <2>4, <2>5, <2>6
<1>2. CASE LookUpFails(r)
  <2>1. /\ UNCHANGED <<hits, misses, pushed, outcome>> /\ trouble' = trouble + 1
        /\ pc[r] = "get" /\ pc' = [pc EXCEPT ![r] = "miss"]
    BY <1>2 DEF LookUpFails, Trouble, Goto, redis, histories
  <2>2. ~outcome[r].cached
    BY <2>1 DEF Answers, Blank
  <2>3. HitSet' = HitSet /\ MissSet' = MissSet /\ Recorded' = Recorded
    BY <2>1, <2>2 DEF HitSet, MissSet, Recorded, HitCounted, MissCounted, TypeOK
  <2> QED BY <2>1, <2>3
<1>3. CASE CallReplyLost(r)
  <2>1. Executes(r) /\ trouble' = trouble + 1 /\ UNCHANGED <<pc, outcome>>
    BY <1>3 DEF CallReplyLost, Trouble, Executes
  <2>2. HitSet' = HitSet /\ MissSet' = MissSet /\ Recorded' = Recorded
    BY <2>1 DEF HitSet, MissSet, Recorded, HitCounted, MissCounted
  <2>3. \/ UNCHANGED <<hits, misses, pushed>>
        \/ UNCHANGED <<hits, misses>> /\ pushed' = Append(pushed, r)
        \/ UNCHANGED <<hits, pushed>> /\ misses' = misses + 1
        \/ UNCHANGED <<misses, pushed>> /\ hits' = hits + 1
    BY <2>1 DEF Executes, Drop, CountMiss, CountHit, Store, Record
  <2> QED BY <2>1, <2>2, <2>3
<1>4. CASE CallFails(r)
  <2>1. UNCHANGED <<hits, misses, pushed, outcome>> /\ trouble' = trouble + 1
        /\ pc[r] \in DOMAIN After /\ pc' = [pc EXCEPT ![r] = After[pc[r]]]
    BY <1>4 DEF CallFails, Trouble, Goto, redis, histories
  <2>2. /\ pc[r] \in {"drop", "miss", "set"} => ~outcome[r].cached
        /\ pc[r] = "hit" => outcome[r].cached
    BY DEF Answers, Inferred, Blank
  <2>3. \A q \in Req \ {r} : pc'[q] = pc[q]
    BY <2>1 DEF TypeOK
  <2>4. CASE pc[r] \in {"drop", "set"}
    <3>1. pc'[r] = IF pc[r] = "drop" THEN "miss" ELSE "record"
      BY <2>1, <2>4, Afterwards DEF TypeOK
    <3>2. HitSet' = HitSet /\ MissSet' = MissSet /\ Recorded' = Recorded
      BY <2>1, <2>2, <2>3, <2>4, <3>1 DEF HitSet, MissSet, Recorded, HitCounted, MissCounted
    <3> QED BY <2>1, <3>2
  <2>5. CASE pc[r] = "miss"
    <3>1. pc'[r] = "call"
      BY <2>1, <2>5, Afterwards DEF TypeOK
    <3>2. HitSet' = HitSet /\ Recorded' = Recorded /\ MissSet' = MissSet \cup {r} /\ r \notin MissSet
      BY <2>1, <2>2, <2>3, <2>5, <3>1 DEF HitSet, MissSet, Recorded, HitCounted, MissCounted
    <3> QED BY <2>1, <3>2
  <2>6. CASE pc[r] = "hit"
    <3>1. pc'[r] = "record"
      BY <2>1, <2>6, Afterwards DEF TypeOK
    <3>2. MissSet' = MissSet /\ Recorded' = Recorded /\ HitSet' = HitSet \cup {r} /\ r \notin HitSet
      BY <2>1, <2>2, <2>3, <2>6, <3>1 DEF HitSet, MissSet, Recorded, HitCounted, MissCounted
    <3> QED BY <2>1, <3>2
  <2>7. CASE pc[r] = "record"
    <3>1. pc'[r] = "done"
      BY <2>1, <2>7, Afterwards DEF TypeOK
    <3>2. MissSet' = MissSet /\ HitSet' = HitSet /\ Recorded' = Recorded \cup {r} /\ r \notin Recorded
      BY <2>1, <2>3, <2>7, <3>1 DEF HitSet, MissSet, Recorded, HitCounted, MissCounted
    <3> QED BY <2>1, <3>2
  <2> QED BY <2>1, <2>4, <2>5, <2>6, <2>7, Afterwards
<1> QED BY <1>1, <1>2, <1>3, <1>4

LEMMA CountedStep ==
  ASSUME TypeOK, AttemptsLeft, Answers, Asked, Counted, Next
  PROVE  Counted'
<1>0. /\ hits \in Nat /\ misses \in Nat /\ Len(pushed) \in Nat /\ trouble \in Nat
      /\ pushed \in Seq(Req)
  BY DEF TypeOK
<1>1. ASSUME NEW r \in Req, Step(r) \/ LookUpFails(r) \/ CallReplyLost(r) \/ CallFails(r)
      PROVE  HitsOff' + MissesOff' + PushesOff' <= trouble'
  <2> DEFINE h == Cardinality(HitSet)
             m == Cardinality(MissSet)
             d == Cardinality(Recorded)
             n == Len(pushed)
  <2>1. /\ HitSet' = HitSet \/ (r \notin HitSet /\ HitSet' = HitSet \cup {r})
        /\ MissSet' = MissSet \/ (r \notin MissSet /\ MissSet' = MissSet \cup {r})
        /\ Recorded' = Recorded \/ (r \notin Recorded /\ Recorded' = Recorded \cup {r})
    BY <1>1, Tallies
  <2>2. /\ h \in Nat /\ m \in Nat /\ d \in Nat /\ n \in Nat
        /\ h' = IF HitSet' = HitSet THEN h ELSE h + 1
        /\ m' = IF MissSet' = MissSet THEN m ELSE m + 1
        /\ d' = IF Recorded' = Recorded THEN d ELSE d + 1
    BY <1>0, <2>1, Sizes, Joined
  <2>3. hits' \in {hits, hits + 1} /\ misses' \in {misses, misses + 1}
        /\ (pushed' = pushed \/ pushed' = Append(pushed, r))
    BY <1>1, Tallies
  <2>4. n' = IF pushed' = pushed THEN n ELSE n + 1
    BY <1>0, <2>3
  <2>5. \/ /\ trouble' = trouble
           /\ (hits' = hits) <=> (HitSet' = HitSet)
           /\ (misses' = misses) <=> (MissSet' = MissSet)
           /\ (pushed' = pushed) <=> (Recorded' = Recorded)
        \/ /\ trouble' = trouble + 1
           /\ \/ hits' = hits /\ HitSet' = HitSet /\ misses' = misses /\ MissSet' = MissSet
              \/ hits' = hits /\ HitSet' = HitSet /\ pushed' = pushed /\ Recorded' = Recorded
              \/ misses' = misses /\ MissSet' = MissSet /\ pushed' = pushed /\ Recorded' = Recorded
    BY <1>1, Tallies
  <2> HIDE DEF h, m, d, n
  <2>6. /\ h' \in {h, h + 1} /\ m' \in {m, m + 1} /\ d' \in {d, d + 1} /\ n' \in {n, n + 1}
    BY <2>2, <2>4
  <2>7. \/ /\ trouble' = trouble
           /\ (hits' = hits) <=> (h' = h)
           /\ (misses' = misses) <=> (m' = m)
           /\ (n' = n) <=> (d' = d)
        \/ /\ trouble' = trouble + 1
           /\ \/ hits' = hits /\ h' = h /\ misses' = misses /\ m' = m
              \/ hits' = hits /\ h' = h /\ n' = n /\ d' = d
              \/ misses' = misses /\ m' = m /\ n' = n /\ d' = d
    BY <2>2, <2>4, <2>5
  <2> DEFINE A == Off(hits, h)
             B == Off(misses, m)
             C == Off(n, d)
  <2> HIDE DEF A, B, C
  <2>8. /\ A \in Nat /\ A' \in Nat /\ A' <= A + 1
        /\ (hits' = hits <=> h' = h) => A' = A
    <3>1. hits \in Nat /\ h \in Nat /\ (hits' = hits \/ hits' = hits + 1) /\ (h' = h \/ h' = h + 1)
      BY <1>0, <2>2, <2>3, <2>6
    <3>2. CASE hits' = hits /\ h' = h
      BY <3>1, <3>2, OffMoves DEF A
    <3>3. CASE hits' = hits + 1 /\ h' = h
      BY <3>1, <3>3, OffMoves DEF A
    <3>4. CASE hits' = hits /\ h' = h + 1
      BY <3>1, <3>4, OffMoves DEF A
    <3>5. CASE hits' = hits + 1 /\ h' = h + 1
      BY <3>1, <3>5, OffMoves DEF A
    <3> QED BY <3>1, <3>2, <3>3, <3>4, <3>5
  <2>9. /\ B \in Nat /\ B' \in Nat /\ B' <= B + 1
        /\ (misses' = misses <=> m' = m) => B' = B
    <3>1. misses \in Nat /\ m \in Nat /\ (misses' = misses \/ misses' = misses + 1) /\ (m' = m \/ m' = m + 1)
      BY <1>0, <2>2, <2>3, <2>6
    <3>2. CASE misses' = misses /\ m' = m
      BY <3>1, <3>2, OffMoves DEF B
    <3>3. CASE misses' = misses + 1 /\ m' = m
      BY <3>1, <3>3, OffMoves DEF B
    <3>4. CASE misses' = misses /\ m' = m + 1
      BY <3>1, <3>4, OffMoves DEF B
    <3>5. CASE misses' = misses + 1 /\ m' = m + 1
      BY <3>1, <3>5, OffMoves DEF B
    <3> QED BY <3>1, <3>2, <3>3, <3>4, <3>5
  <2>10. /\ C \in Nat /\ C' \in Nat /\ C' <= C + 1
         /\ (n' = n <=> d' = d) => C' = C
    <3>1. n \in Nat /\ d \in Nat /\ (n' = n \/ n' = n + 1) /\ (d' = d \/ d' = d + 1)
      BY <1>0, <2>2, <2>3, <2>6
    <3>2. CASE n' = n /\ d' = d
      BY <3>1, <3>2, OffMoves DEF C
    <3>3. CASE n' = n + 1 /\ d' = d
      BY <3>1, <3>3, OffMoves DEF C
    <3>4. CASE n' = n /\ d' = d + 1
      BY <3>1, <3>4, OffMoves DEF C
    <3>5. CASE n' = n + 1 /\ d' = d + 1
      BY <3>1, <3>5, OffMoves DEF C
    <3> QED BY <3>1, <3>2, <3>3, <3>4, <3>5
  <2>11. A + B + C <= trouble
    BY DEF A, B, C, Counted, HitsOff, MissesOff, PushesOff, h, m, d, n
  <2>12. HitsOff' = A' /\ MissesOff' = B' /\ PushesOff' = C'
    BY DEF A, B, C, HitsOff, MissesOff, PushesOff, h, m, d, n, Off
  <2>13. \/ trouble' = trouble /\ A' = A /\ B' = B /\ C' = C
         \/ trouble' = trouble + 1 /\ A' = A /\ B' = B
         \/ trouble' = trouble + 1 /\ A' = A /\ C' = C
         \/ trouble' = trouble + 1 /\ B' = B /\ C' = C
    <3> DEFINE hh == hits' = hits <=> h' = h
               mm == misses' = misses <=> m' = m
               nn == n' = n <=> d' = d
    <3>1. (hh => A' = A) /\ (mm => B' = B) /\ (nn => C' = C)
      <4>1. hh => A' = A
        BY <2>8, Zenon
      <4>2. mm => B' = B
        BY <2>9, Zenon
      <4>3. nn => C' = C
        BY <2>10, Zenon
      <4> QED BY <4>1, <4>2, <4>3, Zenon
    <3>2. \/ trouble' = trouble /\ hh /\ mm /\ nn
          \/ trouble' = trouble + 1 /\ ((hh /\ mm) \/ (hh /\ nn) \/ (mm /\ nn))
      BY <2>7, Zenon
    <3> HIDE DEF hh, mm, nn
    <3> QED BY <3>1, <3>2, Zenon
  <2>14. A' + B' + C' <= trouble'
    <3>1. A \in Nat /\ A' \in Nat /\ A' <= A + 1
      BY <2>8, Zenon
    <3>2. B \in Nat /\ B' \in Nat /\ B' <= B + 1
      BY <2>9, Zenon
    <3>3. C \in Nat /\ C' \in Nat /\ C' <= C + 1
      BY <2>10, Zenon
    <3> QED BY <1>0, <2>11, <2>13, <3>1, <3>2, <3>3
  <2> QED BY <2>12, <2>14
<1>2. ASSUME NEW c \in Content, Expire(c) PROVE HitsOff' + MissesOff' + PushesOff' <= trouble'
  <2>1. UNCHANGED <<pc, outcome, hits, misses, pushed>> /\ trouble' = trouble + 1
    BY <1>2 DEF Expire, Trouble, histories
  <2>2. HitSet' = HitSet /\ MissSet' = MissSet /\ Recorded' = Recorded
    BY <2>1 DEF HitSet, MissSet, Recorded, HitCounted, MissCounted
  <2>3. HitsOff' = HitsOff /\ MissesOff' = MissesOff /\ PushesOff' = PushesOff
    BY <2>1, <2>2 DEF HitsOff, MissesOff, PushesOff, Off
  <2>4. HitsOff + MissesOff + PushesOff <= trouble
    BY DEF Counted
  <2>5. HitsOff \in Nat /\ MissesOff \in Nat /\ PushesOff \in Nat
    BY <1>0, Sizes, OffMoves DEF HitsOff, MissesOff, PushesOff
  <2> QED BY <1>0, <2>1, <2>3, <2>4, <2>5
<1>3. CASE UNCHANGED vars
  BY <1>3 DEF Counted, vars, HitSet, MissSet, HitCounted, MissCounted, Recorded,
    HitsOff, MissesOff, PushesOff, Off
<1>4. ASSUME trouble' = 0
      PROVE  /\ {pushed'[k] : k \in 1..Len(pushed')} = Recorded'
             /\ \A j, k \in 1..Len(pushed') : pushed'[j] = pushed'[k] => j = k
  <2>1. trouble = 0 /\ ((\E r \in Req : Step(r)) \/ UNCHANGED vars)
    BY <1>4, NoTrouble
  <2>2. /\ {pushed[k] : k \in 1..Len(pushed)} = Recorded
        /\ \A j, k \in 1..Len(pushed) : pushed[j] = pushed[k] => j = k
    BY <2>1 DEF Counted
  <2>3. CASE UNCHANGED vars
    BY <2>2, <2>3 DEF vars, Recorded
  <2>4. ASSUME NEW r \in Req, Step(r)
        PROVE  /\ {pushed'[k] : k \in 1..Len(pushed')} = Recorded'
               /\ \A j, k \in 1..Len(pushed') : pushed'[j] = pushed'[k] => j = k
    <3>1. /\ \A q \in Req \ {r} : pc'[q] = pc[q]
          /\ pc[r] # "done" /\ (pc'[r] = "done" <=> Record(r))
          /\ pushed' = IF Record(r) THEN Append(pushed, r) ELSE pushed
      BY <2>4, TallyStep
    <3>2. CASE ~Record(r)
      BY <2>2, <3>1, <3>2 DEF Recorded
    <3>3. CASE Record(r)
      <4>1. Recorded' = Recorded \cup {r} /\ r \notin Recorded
        BY <3>1, <3>3 DEF Recorded
      <4>2. /\ Len(pushed') = Len(pushed) + 1 /\ pushed'[Len(pushed) + 1] = r
            /\ \A k \in 1..Len(pushed) : pushed'[k] = pushed[k]
        BY <1>0, <3>1, <3>3
      <4>3. \A k \in 1..Len(pushed') : k \in 1..Len(pushed) \/ k = Len(pushed) + 1
        BY <1>0, <4>2
      <4>4. \A k \in 1..Len(pushed) : pushed[k] # r /\ k \in 1..Len(pushed')
        BY <1>0, <2>2, <4>1, <4>2
      <4>5. Len(pushed) + 1 \in 1..Len(pushed')
        BY <1>0, <4>2
      <4>6. {pushed'[k] : k \in 1..Len(pushed')} = Recorded'
        BY <2>2, <4>1, <4>2, <4>3, <4>4, <4>5
      <4>7. ASSUME NEW j \in 1..Len(pushed'), NEW k \in 1..Len(pushed'), pushed'[j] = pushed'[k]
            PROVE  j = k
        BY <2>2, <4>2, <4>3, <4>4, <4>7
      <4> QED BY <4>6, <4>7
    <3> QED BY <3>2, <3>3
  <2> QED BY <2>1, <2>3, <2>4
<1>5. HitsOff' + MissesOff' + PushesOff' <= trouble'
  <2>1. CASE UNCHANGED vars
    BY <1>3, <2>1 DEF Counted
  <2>2. CASE ~UNCHANGED vars
    BY <1>1, <1>2, <2>2 DEF Next, Terminated
  <2> QED BY <2>1, <2>2
<1> QED BY <1>4, <1>5 DEF Counted

----------------------------------------------------------------------------
\* At every moment, and not only once the threads are done, the counters and the list
\* account for every step taken so far but as many as Redis refused or repeated: each
\* lookup counted once, each outcome pushed once (triage_service.py:58-93).
THEOREM TallyInvariance == Spec => [](Asked /\ Counted)
<1>1. Init => Asked /\ Counted
  <2> SUFFICES ASSUME Init PROVE Asked /\ Counted
    OBVIOUS
  <2>1. HitSet = {} /\ MissSet = {} /\ Recorded = {}
    BY DEF Init, HitSet, MissSet, Recorded, HitCounted, MissCounted, Blank
  <2>2. Cardinality({}) = 0
    BY FS_EmptySet
  <2>3. HitsOff = 0 /\ MissesOff = 0 /\ PushesOff = 0
    BY <2>1, <2>2 DEF Init, HitsOff, MissesOff, PushesOff, Off
  <2>4. Len(pushed) = 0 /\ trouble = 0
    BY DEF Init
  <2>5. Asked
    BY DEF Init, Asked
  <2> QED BY <2>1, <2>3, <2>4, <2>5 DEF Counted
<1>2. IInv /\ (Asked /\ Counted) /\ [Next]_vars => (Asked /\ Counted)'
  <2>1. ASSUME IInv, Asked, Counted, Next PROVE (Asked /\ Counted)'
    BY <2>1, AskedStep, CountedStep DEF IInv
  <2>2. ASSUME Asked, Counted, UNCHANGED vars PROVE (Asked /\ Counted)'
    BY <2>2 DEF Asked, Counted, vars, HitSet, MissSet, HitCounted, MissCounted, Recorded,
      HitsOff, MissesOff, PushesOff, Off
  <2> QED BY <2>1, <2>2
<1> QED BY <1>1, <1>2, Invariance, PTL DEF Spec

\* Whatever fails, and however many threads push at the same time, the list is the
\* newest RECENT_CAP of the outcomes pushed, newest first, each as it was answered;
\* and while Redis loses nothing every outcome is pushed, once (triage_service.py:84-93,
\* cache.py:62-63, TRIAGE.md:91).
THEOREM RecentListIsTrue == Spec => []RecentIsTrue
<1>1. IInv /\ Asked /\ Counted => RecentIsTrue
  <2> SUFFICES ASSUME IInv, Counted PROVE RecentIsTrue
    OBVIOUS
  <2>1. /\ Len(recent) = IF Len(pushed) < RECENT_CAP THEN Len(pushed) ELSE RECENT_CAP
        /\ \A k \in 1..Len(recent) : recent[k] = Shown(pushed[Len(pushed) + 1 - k])
        /\ \A k \in 1..Len(pushed) : pc[pushed[k]] \in {"record", "done"}
    BY DEF IInv, Told
  <2>2. \A k \in 1..Len(recent) : Len(pushed) + 1 - k \in 1..Len(pushed)
    <3>1. Len(pushed) \in Nat /\ Len(recent) \in Nat /\ Len(recent) <= Len(pushed)
      BY <2>1, TriageAssumption DEF IInv, TypeOK
    <3> QED BY <3>1
  <2>3. trouble = 0 =>
          /\ {pushed[k] : k \in 1..Len(pushed)} = {r \in Req : pc[r] = "done"}
          /\ \A j, k \in 1..Len(pushed) : pushed[j] = pushed[k] => j = k
    BY DEF Counted, Recorded
  <2> QED BY <2>1, <2>2, <2>3 DEF RecentIsTrue, Shown
<1> QED BY <1>1, Invariance, TallyInvariance, PTL

\* Once the threads are done, the counters and the list are off what the lookups cost
\* and what was answered by no more than the number of calls to Redis that failed or
\* were executed twice (routes/meta.py:18-26).
THEOREM CountersAreTrue == Spec => []CountersTell
<1>1. IInv /\ Asked /\ Counted => CountersTell
  <2> SUFFICES ASSUME IInv, Asked, Counted, \A r \in Req : pc[r] \in {"get", "done", "raised"}
               PROVE  Off(hits, Cardinality({r \in Req : outcome[r].cached}))
                    + Off(misses, Cardinality({r \in Req : attempt[r] > 0}))
                    + Off(Len(pushed), Cardinality({r \in Req : pc[r] = "done"})) <= trouble
    BY DEF CountersTell
  <2>1. HitSet = {r \in Req : outcome[r].cached}
    BY DEF HitSet, HitCounted
  <2>2. MissSet = {r \in Req : attempt[r] > 0}
    <3>1. ASSUME NEW r \in Req PROVE MissCounted(r) <=> attempt[r] > 0
      <4>1. MissCounted(r) => attempt[r] > 0
        BY DEF MissCounted, Asked
      <4>2. outcome[r].cached => attempt[r] = 0
        BY DEF IInv, Answers, CacheHoldsRealAnswers
      <4>3. pc[r] = "get" => attempt[r] = 0
        BY DEF IInv, AttemptsLeft
      <4> QED BY <4>1, <4>2, <4>3 DEF MissCounted
    <3> QED BY <3>1 DEF MissSet
  <2>3. HitsOff + MissesOff + PushesOff <= trouble
    BY DEF Counted
  <2> QED BY <2>1, <2>2, <2>3 DEF HitsOff, MissesOff, PushesOff, Recorded
<1> QED BY <1>1, Invariance, TallyInvariance, PTL
=============================================================================
