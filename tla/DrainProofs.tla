----------------------------- MODULE DrainProofs -----------------------------
(***************************************************************************)
(* What the end of a pod guarantees for every set of requests, and whatever  *)
(* the preStop sleep, the drain, the grace period and the work take.         *)
(***************************************************************************)
EXTENDS Drain, TLAPS

\* How far the clock can be in each phase, and that the last node to route does it
\* in time.
Clocks ==
  /\ phase = "serving" => clock = 0
  /\ phase \in {"serving", "preStop"} => since = 0
  /\ phase \in Listening => clock <= PreStop /\ since = 0
  /\ phase = "signalled" => clock = PreStop
  /\ phase = "waiting" => clock = PreStop + since
  /\ phase \notin {"serving"} /\ routed => clock <= Propagate
  /\ phase \in {"closing", "exited"} => clock >= PreStop
  /\ phase = "killed" => clock = Grace

\* A client that waits has a thread, and nobody waits once the pools are closed.
Threads ==
  /\ Waiting \subseteq threads
  /\ phase \in {"closing"} \cup Over => Waiting = {}
  /\ \A r \in threads : st[r] \in {"waiting", "cut"}

\* What is left of the preStop sleep when the last request is let in.
Rest == IF Propagate < PreStop THEN PreStop - Propagate ELSE 0

\* A request in flight is older than the stretch of time it has been through.
Ages ==
  /\ \A r \in Waiting :
       /\ phase \in {"preStop", "signalled"} => age[r] >= MaxAge \/ age[r] + Propagate >= clock
       /\ phase = "waiting" => age[r] >= MaxAge \/ age[r] >= since + Rest
  /\ \A r \in threads \ slow :
       age[r] <= MaxWork /\ (phase \in Phase \ Over => clock <= PreStop + age[r])
  /\ \A r \in Req : st[r] = "unsent" => age[r] = 0
  /\ CutOnlyAfterItsTime

\* When more time has passed than the drain and the work take, it is because of a
\* thread that hangs, and its client has been told.
Stuck ==
  phase = "closing" /\ clock > PreStop + Graceful /\ clock > PreStop + MaxWork =>
    \E r \in slow : st[r] = "cut"

\* Everybody who has an end is counted, nobody else.
Counted ==
  /\ EveryoneIsCounted
  /\ \A r \in Req : counted[r] = 0 \/ st[r] \in {"answered", "cut"}

IInv == TypeOK /\ Clocks /\ Threads /\ Ages /\ Stuck /\ Counted /\ NobodyRefused /\ KilledOnlyIfStuck

----------------------------------------------------------------------------
LEMMA Constants ==
  /\ PreStop \in Nat /\ Propagate \in Nat /\ Graceful \in Nat /\ MaxWork \in Nat /\ Grace \in Nat
  /\ Rest \in Nat /\ Rest <= PreStop /\ PreStop - Propagate <= Rest
  /\ Allowance = Graceful + Rest
  /\ MaxAge \in Nat /\ MaxAge > MaxWork /\ MaxAge >= Allowance /\ MaxAge > PreStop
BY DrainAssumption DEF Rest, Allowance, MaxAge

LEMMA TypeStep == ASSUME TypeOK, Clocks, Next PROVE TypeOK'
<1> USE Constants DEF TypeOK, Phase, Over
<1>1. ASSUME NEW r \in Req, Send(r) PROVE TypeOK'
  BY <1>1 DEF Send
<1>2. ASSUME NEW r \in Req, Finish(r) PROVE TypeOK'
  BY <1>2 DEF Finish, Count
<1>3. ASSUME Delete \/ Unroute \/ Sigterm \/ StopListening \/ Drained \/ Exit PROVE TypeOK'
  <2>1. phase' \in Phase
    BY <1>3 DEF Delete, Unroute, Sigterm, StopListening, Drained, Exit
  <2>2. draining' \in BOOLEAN /\ routed' \in BOOLEAN
    BY <1>3 DEF Delete, Unroute, Sigterm, StopListening, Drained, Exit
  <2>3. UNCHANGED <<slow, clock, since, st, age, threads, counted>>
    BY <1>3 DEF Delete, Unroute, Sigterm, StopListening, Drained, Exit
  <2> QED BY <2>1, <2>2, <2>3
<1>4. ASSUME Cancel PROVE TypeOK'
  BY <1>4 DEF Cancel
<1>5. ASSUME Kill PROVE TypeOK'
  BY <1>5 DEF Kill
<1>6. ASSUME Tick PROVE TypeOK'
  <2>1. phase \notin Over \cup {"serving"} => clock # Grace
    BY <1>6 DEF Tick, Due
  <2>2. phase = "waiting" => since # Graceful
    BY <1>6 DEF Tick, Due, TimedOut
  <2>3. clock' \in 0..Grace /\ since' \in 0..Graceful
    BY <1>6, <2>1, <2>2 DEF Tick
  <2>4. age' \in [Req -> Nat]
    BY <1>6 DEF Tick
  <2> QED BY <1>6, <2>3, <2>4 DEF Tick
<1> QED BY <1>1, <1>2, <1>3, <1>4, <1>5, <1>6 DEF Next, Pod

LEMMA ClockStep == ASSUME TypeOK, Clocks, Next PROVE Clocks'
<1> USE Constants DEF TypeOK, Phase, Over, Listening, Clocks
<1>1. ASSUME NEW r \in Req, Send(r) \/ Finish(r) PROVE Clocks'
  BY <1>1 DEF Send, Finish
<1>2. ASSUME Delete \/ Unroute PROVE Clocks'
  BY <1>2 DEF Delete, Unroute
<1>3. ASSUME Sigterm \/ StopListening PROVE Clocks'
  BY <1>3 DEF Sigterm, StopListening
<1>4. ASSUME Drained \/ Cancel \/ Exit \/ Kill PROVE Clocks'
  BY <1>4 DEF Drained, Cancel, Exit, Kill
<1>5. ASSUME Tick PROVE Clocks'
  <2>1. phase' = phase /\ routed' = routed /\ phase # "signalled"
    BY <1>5 DEF Tick, Due
  <2>2. phase = "preStop" => clock < PreStop
    BY <1>5 DEF Tick, Due
  <2>3. phase # "serving" /\ routed => clock < Propagate
    BY <1>5 DEF Tick, Due
  <2>4. clock' = IF phase \in Over \cup {"serving"} THEN clock ELSE clock + 1
    BY <1>5 DEF Tick
  <2>5. since' = IF phase = "waiting" THEN since + 1 ELSE since
    BY <1>5 DEF Tick
  <2> QED BY <2>1, <2>2, <2>3, <2>4, <2>5
<1> QED BY <1>1, <1>2, <1>3, <1>4, <1>5 DEF Next, Pod

LEMMA ThreadStep == ASSUME TypeOK, Threads, Next PROVE Threads'
<1> USE DEF TypeOK, Phase, Over, Threads, Waiting
<1>1. ASSUME NEW r \in Req, Send(r) PROVE Threads'
  BY <1>1 DEF Send, Listening
<1>2. ASSUME NEW r \in Req, Finish(r) PROVE Threads'
  BY <1>2 DEF Finish
<1>3. ASSUME Delete \/ Unroute \/ Sigterm \/ StopListening \/ Drained \/ Exit \/ Tick PROVE Threads'
  BY <1>3 DEF Delete, Unroute, Sigterm, StopListening, Drained, Exit, Tick
<1>4. ASSUME Cancel PROVE Threads'
  BY <1>4 DEF Cancel
<1>5. ASSUME Kill PROVE Threads'
  BY <1>5 DEF Kill
<1> QED BY <1>1, <1>2, <1>3, <1>4, <1>5 DEF Next, Pod

\* The ages of those who are through with a step the clock takes no part in.
LEMMA AgeStep == ASSUME TypeOK, Clocks, Threads, Ages, Next PROVE Ages'
<1> USE Constants DEF TypeOK, Ages
<1>1. ASSUME NEW r \in Req, Send(r) PROVE Ages'
  <2>1. routed /\ st[r] = "unsent" /\ UNCHANGED <<slow, phase, clock, since, age>>
    BY <1>1 DEF Send
  <2>2. \/ phase \in Listening /\ st' = [st EXCEPT ![r] = "waiting"] /\ threads' = threads \cup {r}
        \/ st' = [st EXCEPT ![r] = "refused"] /\ threads' = threads
    BY <1>1 DEF Send
  <2>3. phase \in Listening => clock <= PreStop /\ phase # "waiting"
    BY DEF Clocks, Listening
  <2>4. phase \in {"preStop", "signalled"} => clock <= Propagate
    BY <2>1 DEF Clocks
  <2>5. age[r] = 0
    BY <2>1
  <2> QED BY <2>1, <2>2, <2>3, <2>4, <2>5 DEF CutOnlyAfterItsTime, Waiting
<1>2. ASSUME NEW r \in Req, Finish(r) PROVE Ages'
  BY <1>2 DEF Finish, CutOnlyAfterItsTime, Waiting
<1>3. ASSUME Delete \/ Unroute \/ Sigterm \/ Drained \/ Exit PROVE Ages'
  BY <1>3 DEF Delete, Unroute, Sigterm, Drained, Exit, Clocks, CutOnlyAfterItsTime, Waiting, Over, Phase
<1>4. ASSUME StopListening PROVE Ages'
  <2>1. phase = "signalled" /\ phase' = "waiting" /\ clock = PreStop /\ since = 0
    BY <1>4 DEF StopListening, Clocks, Listening
  <2>2. UNCHANGED <<slow, clock, since, st, age, threads>>
    BY <1>4 DEF StopListening
  <2>3. \A r \in Waiting : r \in Req /\ (age[r] >= MaxAge \/ age[r] >= Rest)
    BY <2>1 DEF Waiting, Rest
  <2> QED BY <2>1, <2>2, <2>3 DEF CutOnlyAfterItsTime, Waiting, Over, Phase
<1>5. ASSUME Cancel PROVE Ages'
  <2>1. \A r \in Waiting : age[r] >= Allowance
    BY <1>5 DEF Cancel, TimedOut, Waiting
  <2> QED BY <1>5, <2>1 DEF Cancel, CutOnlyAfterItsTime, Waiting, Over, Phase
<1>6. ASSUME Kill PROVE Ages'
  BY <1>6 DEF Kill, CutOnlyAfterItsTime, Waiting, Over
<1>7. ASSUME Tick PROVE Ages'
  <2>1. UNCHANGED <<slow, phase, st, threads>>
    BY <1>7 DEF Tick
  <2>2. clock' \in {clock, clock + 1} /\ since' \in {since, since + 1}
    BY <1>7 DEF Tick
  <2>3. \A r \in Req : age'[r] = IF r \in threads /\ age[r] < MaxAge THEN age[r] + 1 ELSE age[r]
    BY <1>7 DEF Tick
  <2>4. \A r \in threads \ slow : age[r] < MaxWork
    BY <1>7 DEF Tick, Due
  <2>5. Waiting \subseteq threads /\ Waiting' = Waiting
    BY <2>1 DEF Threads, Waiting
  <2>6. ASSUME NEW r \in Waiting
        PROVE  /\ phase \in {"preStop", "signalled"} => age'[r] >= MaxAge \/ age'[r] + Propagate >= clock'
               /\ phase = "waiting" => age'[r] >= MaxAge \/ age'[r] >= since' + Rest
    <3>1. r \in threads /\ r \in Req
      BY <2>5 DEF Waiting
    <3> QED BY <2>2, <2>3, <3>1
  <2>7. ASSUME NEW r \in threads \ slow
        PROVE  age'[r] <= MaxWork /\ (phase \in Phase \ Over => clock' <= PreStop + age'[r])
    BY <2>2, <2>3, <2>4
  <2>8. CutOnlyAfterItsTime'
    BY <2>1, <2>3 DEF CutOnlyAfterItsTime
  <2>9. \A r \in Req : st'[r] = "unsent" => age'[r] = 0
    BY <2>1, <2>3 DEF Threads
  <2> QED BY <2>1, <2>5, <2>6, <2>7, <2>8, <2>9
<1> QED BY <1>1, <1>2, <1>3, <1>4, <1>5, <1>6, <1>7 DEF Next, Pod

LEMMA StuckStep == ASSUME TypeOK, Clocks, Threads, Ages, Stuck, Next PROVE Stuck'
<1> USE Constants DEF TypeOK, Stuck
<1>1. ASSUME NEW r \in Req, Send(r) \/ Finish(r) PROVE Stuck'
  <2>1. UNCHANGED <<slow, phase, clock>>
    BY <1>1 DEF Send, Finish
  <2>2. \A q \in Req : st[q] = "cut" => st'[q] = "cut"
    BY <1>1 DEF Send, Finish
  <2> QED BY <2>1, <2>2
<1>2. ASSUME Drained \/ Cancel PROVE Stuck'
  <2>1. clock = PreStop + since /\ clock' = clock /\ since <= Graceful
    BY <1>2 DEF Drained, Cancel, Clocks
  <2> QED BY <2>1
<1>3. ASSUME Delete \/ Unroute \/ Sigterm \/ StopListening \/ Exit \/ Kill PROVE Stuck'
  BY <1>3 DEF Delete, Unroute, Sigterm, StopListening, Exit, Kill
<1>4. ASSUME Tick PROVE Stuck'
  <2>1. UNCHANGED <<slow, phase, st, threads>>
    BY <1>4 DEF Tick
  <2> SUFFICES ASSUME phase = "closing", clock' > PreStop + Graceful, clock' > PreStop + MaxWork
               PROVE  \E r \in slow : st[r] = "cut"
    BY <2>1
  <2>2. clock' = clock + 1
    BY <1>4 DEF Tick, Over
  <2>3. PICK r \in threads : TRUE
    BY <1>4 DEF Tick, Due
  <2>4. st[r] = "cut"
    BY <2>3 DEF Threads, Waiting
  <2>5. r \in slow
    <3> SUFFICES ASSUME r \notin slow PROVE FALSE
      OBVIOUS
    <3>1. age[r] < MaxWork /\ age[r] \in Nat
      BY <1>4, <2>3 DEF Tick, Due
    <3>2. clock <= PreStop + age[r]
      BY <2>3 DEF Ages, Phase, Over
    <3> QED BY <2>2, <3>1, <3>2
  <2> QED BY <2>4, <2>5
<1> QED BY <1>1, <1>2, <1>3, <1>4 DEF Next, Pod

LEMMA CountStep == ASSUME TypeOK, Threads, Counted, Next PROVE Counted'
<1> USE DEF TypeOK, Counted, EveryoneIsCounted
<1>1. ASSUME NEW r \in Req, Send(r) PROVE Counted'
  BY <1>1 DEF Send
<1>2. ASSUME NEW r \in Req, Finish(r) PROVE Counted'
  BY <1>2 DEF Finish, Count
<1>3. ASSUME Delete \/ Unroute \/ Sigterm \/ StopListening \/ Drained \/ Exit \/ Tick PROVE Counted'
  BY <1>3 DEF Delete, Unroute, Sigterm, StopListening, Drained, Exit, Tick
<1>4. ASSUME Cancel PROVE Counted'
  BY <1>4 DEF Cancel, Waiting
<1>5. ASSUME Kill PROVE Counted'
  BY <1>5 DEF Kill, Waiting
<1> QED BY <1>1, <1>2, <1>3, <1>4, <1>5 DEF Next, Pod

\* When the pod has stopped listening nobody routes to it any more.
LEMMA RefusedStep == ASSUME TypeOK, Clocks, NobodyRefused, Next PROVE NobodyRefused'
<1> USE Constants DEF TypeOK, NobodyRefused
<1>1. ASSUME NEW r \in Req, Send(r) PROVE NobodyRefused'
  <2> SUFFICES ASSUME Propagate < PreStop, Propagate < Grace PROVE phase \in Listening
    BY <1>1 DEF Send
  <2>1. phase # "serving" => clock <= Propagate
    BY <1>1 DEF Send, Clocks
  <2>2. /\ phase = "waiting" => clock >= PreStop
        /\ phase \in {"closing", "exited"} => clock >= PreStop
        /\ phase = "killed" => clock = Grace
    BY DEF Clocks
  <2> QED BY <2>1, <2>2 DEF Phase, Listening
<1>2. ASSUME NEW r \in Req, Finish(r) PROVE NobodyRefused'
  BY <1>2 DEF Finish
<1>3. ASSUME Delete \/ Unroute \/ Sigterm \/ StopListening \/ Drained \/ Exit \/ Tick PROVE NobodyRefused'
  BY <1>3 DEF Delete, Unroute, Sigterm, StopListening, Drained, Exit, Tick
<1>4. ASSUME Cancel \/ Kill PROVE NobodyRefused'
  BY <1>4 DEF Cancel, Kill
<1> QED BY <1>1, <1>2, <1>3, <1>4 DEF Next, Pod

\* The grace period is over only for a pod that is closing its pools: it has had
\* both the drain and the work of whoever was in flight.
LEMMA KilledStep ==
  ASSUME TypeOK, Clocks, Threads, Stuck, KilledOnlyIfStuck, Next
  PROVE  KilledOnlyIfStuck'
<1> USE Constants DEF TypeOK
<1> SUFFICES ASSUME PreStop + Graceful < Grace, PreStop + MaxWork < Grace
             PROVE  /\ \A r \in Req : st'[r] # "lost"
                    /\ phase' = "killed" => \E r \in slow' : st'[r] = "cut"
  BY DEF KilledOnlyIfStuck
<1>a. /\ \A r \in Req : st[r] # "lost"
      /\ phase = "killed" => \E r \in slow : st[r] = "cut"
  BY DEF KilledOnlyIfStuck
<1>b. ASSUME UNCHANGED <<slow, phase>>, \A r \in Req : st[r] = "cut" => st'[r] = "cut",
             \A r \in Req : st'[r] # "lost"
      PROVE  /\ \A r \in Req : st'[r] # "lost"
             /\ phase' = "killed" => \E r \in slow' : st'[r] = "cut"
  BY <1>a, <1>b
<1>1. CASE \E r \in Req : Send(r) \/ Finish(r)
  <2>1. UNCHANGED <<slow, phase>>
    BY <1>1 DEF Send, Finish
  <2>2. \A r \in Req : (st[r] = "cut" => st'[r] = "cut") /\ st'[r] # "lost"
    BY <1>1, <1>a DEF Send, Finish
  <2> QED BY <2>1, <2>2, <1>b
<1>2. CASE Unroute \/ Tick
  BY <1>2, <1>a DEF Unroute, Tick
<1>3. CASE Delete \/ Sigterm \/ StopListening \/ Drained \/ Exit
  <2>1. st' = st /\ phase' # "killed"
    BY <1>3 DEF Delete, Sigterm, StopListening, Drained, Exit
  <2> QED BY <2>1, <1>a
<1>4. CASE Cancel
  <2>1. phase' # "killed" /\ \A r \in Req : st'[r] # "lost"
    BY <1>4, <1>a DEF Cancel
  <2> QED BY <2>1
<1>5. CASE Kill
  <2>1. phase = "closing"
    BY <1>5 DEF Kill, Clocks, Phase, Over, Listening
  <2>2. Waiting = {}
    BY <2>1 DEF Threads
  <2>3. st' = st
    BY <1>5, <2>2 DEF Kill
  <2>4. \E r \in slow : st[r] = "cut"
    BY <1>5, <2>1 DEF Kill, Stuck
  <2> QED BY <1>5, <1>a, <2>3, <2>4 DEF Kill
<1> QED BY <1>1, <1>2, <1>3, <1>4, <1>5 DEF Next, Pod

----------------------------------------------------------------------------
LEMMA InvInit == Init => IInv
<1> SUFFICES ASSUME Init PROVE IInv
  OBVIOUS
<1> USE Constants DEF Init
<1>1. TypeOK
  <2>1. draining \in BOOLEAN /\ routed \in BOOLEAN
    BY Zenon
  <2>2. clock \in 0..Grace /\ since \in 0..Graceful
    OBVIOUS
  <2> QED BY <2>1, <2>2 DEF TypeOK, Phase
<1>2. Clocks
  BY DEF Clocks, Listening
<1>3. Threads
  BY DEF Threads, Waiting, Over
<1>4. Ages
  BY DEF Ages, Waiting, CutOnlyAfterItsTime
<1>5. Stuck /\ Counted
  BY DEF Stuck, Counted, EveryoneIsCounted
<1>6. NobodyRefused /\ KilledOnlyIfStuck
  BY DEF NobodyRefused, KilledOnlyIfStuck
<1> QED BY <1>1, <1>2, <1>3, <1>4, <1>5, <1>6 DEF IInv

LEMMA InvStep == IInv /\ [Next]_vars => IInv'
<1> SUFFICES ASSUME IInv, [Next]_vars PROVE IInv'
  OBVIOUS
<1>1. CASE Next
  BY <1>1, TypeStep, ClockStep, ThreadStep, AgeStep, StuckStep, CountStep, RefusedStep,
     KilledStep DEF IInv
<1>2. CASE UNCHANGED vars
  <2> USE <1>2 DEF vars
  <2>1. TypeOK' /\ Clocks' /\ Threads'
    BY DEF IInv, TypeOK, Clocks, Threads, Waiting
  <2>2. Ages' /\ Stuck' /\ Counted'
    BY DEF IInv, Ages, Waiting, CutOnlyAfterItsTime, Stuck, Counted, EveryoneIsCounted
  <2>3. NobodyRefused' /\ KilledOnlyIfStuck'
    BY DEF IInv, NobodyRefused, KilledOnlyIfStuck
  <2> QED BY <2>1, <2>2, <2>3 DEF IInv
<1> QED BY <1>1, <1>2

\* The inductive invariant: the clocks of the phases, who has a thread, how old
\* the requests in flight are, and who is left when the time is over.
THEOREM Invariance == Spec => []IInv
<1> QED BY InvInit, InvStep, PTL DEF Spec

\* Types and bounds: neither clock runs past its timeout (server.py:43,
\* backend.yaml:24).
THEOREM TypeCorrect == Spec => []TypeOK
<1>1. IInv => TypeOK
  BY DEF IInv
<1> QED BY <1>1, Invariance, PTL

\* With a preStop sleep longer than it takes to take the pod out of the Service
\* nobody is refused, however long the rest of the drain is (backend.yaml:83-86).
THEOREM NobodyIsRefused == Spec => []NobodyRefused
<1>1. IInv => NobodyRefused
  BY DEF IInv
<1> QED BY <1>1, Invariance, PTL

\* Whoever is cut off has had the whole drain, and what was left of the preStop
\* sleep when the last request was let in (server.py:43).
THEOREM CutsAreLate == Spec => []CutOnlyAfterItsTime
<1>1. IInv => CutOnlyAfterItsTime
  BY DEF IInv, Ages
<1> QED BY <1>1, Invariance, PTL

\* A grace period longer than preStop sleep and drain, and than preStop sleep and
\* work, kills only a pod with a thread that hangs (server.py:5-7).
THEOREM LosesNobody == Spec => []KilledOnlyIfStuck
<1>1. IInv => KilledOnlyIfStuck
  BY DEF IInv
<1> QED BY <1>1, Invariance, PTL

\* Whatever the order of answers and cut-offs, the metrics tell them apart
\* (middleware.py:42-58).
THEOREM AllAreCounted == Spec => []EveryoneIsCounted
<1>1. IInv => EveryoneIsCounted
  BY DEF IInv, Counted
<1> QED BY <1>1, Invariance, PTL
=============================================================================
