-------------------------- MODULE RequestPoolProofs --------------------------
(***************************************************************************)
(* What the worker threads and the connection pool guarantee for every       *)
(* number of requests, threads, connections and ticks.                       *)
(***************************************************************************)
EXTENDS RequestPool, FiniteSetTheorems, SequenceTheorems, TLAPS

\* The queue has the requests that wait for a thread, each once.
QueueInv ==
  /\ \A i \in 1..Len(queue) : pc[queue[i]] \in Queued
  /\ \A i, j \in 1..Len(queue) : i # j => queue[i] # queue[j]
  /\ \A r \in Req : pc[r] \in Queued => \E i \in 1..Len(queue) : queue[i] = r

\* A probe needs a thread for its handler and one for its answer, nothing else.
HealthInv ==
  \A r \in Req : kind[r] = "health" => pc[r] \in {"new", "handler", "answer", "close", "done"}

\* Whoever waits for a thread while they are all busy has been noticed.
CrowdInv ==
  AllBusy => \A r \in Req : kind[r] = "health" /\ pc[r] \in Queued => r \in crowded

IInv == TypeOK /\ QueueInv /\ HealthInv /\ CrowdInv /\ ConnectionsReturned /\ ProbeWaitsForThreadsOnly

----------------------------------------------------------------------------
LEMMA ConnFinite == ASSUME TypeOK PROVE IsFiniteSet(conn) /\ Cardinality(conn) \in Nat
<1>1. IsFiniteSet(conn)
  BY FS_Subset, PoolAssumption DEF TypeOK
<1> QED BY <1>1, FS_CardinalityType

\* What happens to a request that has left the queue for good.
LEMMA QueueStays ==
  ASSUME QueueInv, TypeOK, NEW r \in Req, NEW next \in PC \ Queued,
         pc[r] \notin Queued, Goto(r, next), queue' = queue
  PROVE  QueueInv'
<1>1. \A i \in 1..Len(queue) : queue[i] \in Req /\ queue[i] # r
  BY ElementOfSeq DEF QueueInv, TypeOK
<1>2. \A q \in Req : pc'[q] = IF q = r THEN next ELSE pc[q]
  BY DEF Goto, TypeOK
<1> QED BY <1>1, <1>2 DEF QueueInv

LEMMA QueueGrows ==
  ASSUME QueueInv, TypeOK, NEW r \in Req, NEW next \in Queued,
         pc[r] \notin Queued, Goto(r, next), queue' = Append(queue, r)
  PROVE  QueueInv'
<1>1. \A i \in 1..Len(queue) : queue[i] \in Req /\ queue[i] # r
  BY ElementOfSeq DEF QueueInv, TypeOK
<1>2. \A q \in Req : pc'[q] = IF q = r THEN next ELSE pc[q]
  BY DEF Goto, TypeOK
<1>3. /\ Len(queue) \in Nat /\ Len(queue') = Len(queue) + 1
      /\ \A i \in 1..Len(queue) : queue'[i] = queue[i]
      /\ queue'[Len(queue) + 1] = r
  BY DEF TypeOK
<1>4. \A i \in 1..Len(queue') : i \in 1..Len(queue) \/ i = Len(queue) + 1
  BY <1>3
<1>5. \A i \in 1..Len(queue) : i \in 1..Len(queue')
  BY <1>3
<1>6. Len(queue) + 1 \in 1..Len(queue')
  BY <1>3
<1>7. \A i \in 1..Len(queue') : pc'[queue'[i]] \in Queued
  BY <1>1, <1>2, <1>3, <1>4 DEF QueueInv
<1>8. \A i, j \in 1..Len(queue') : i # j => queue'[i] # queue'[j]
  BY <1>1, <1>3, <1>4 DEF QueueInv
<1>9. ASSUME NEW q \in Req, pc'[q] \in Queued PROVE \E i \in 1..Len(queue') : queue'[i] = q
  <2>1. CASE q = r
    BY <2>1, <1>3, <1>6
  <2>2. CASE q # r
    <3>1. PICK i \in 1..Len(queue) : queue[i] = q
      BY <2>2, <1>2, <1>9 DEF QueueInv
    <3> QED BY <3>1, <1>3, <1>5
  <2> QED BY <2>1, <2>2
<1> QED BY <1>7, <1>8, <1>9 DEF QueueInv

\* The step of a thread: its request leaves the queue, or joins it again at the
\* end with its handler to come.
LEMMA QueueMoves ==
  ASSUME QueueInv, TypeOK, queue # <<>>,
         NEW r, r = Head(queue), NEW next \in PC, Goto(r, next),
         queue' = IF next \in Queued THEN Append(Tail(queue), r) ELSE Tail(queue)
  PROVE  QueueInv'
<1> DEFINE n == Len(queue)
           t == Tail(queue)
<1>1. /\ n \in Nat \ {0} /\ r = queue[1] /\ r \in Req
      /\ t \in Seq(Req) /\ Len(t) = n - 1
      /\ \A i \in 1..(n - 1) : t[i] = queue[i + 1]
  BY HeadTailProperties, EmptySeq DEF TypeOK
<1>2. \A q \in Req : pc'[q] = IF q = r THEN next ELSE pc[q]
  BY <1>1 DEF Goto, TypeOK
<1>3. \A i \in 1..(n - 1) : t[i] \in Req /\ t[i] # r /\ pc[t[i]] \in Queued
  <2> SUFFICES ASSUME NEW i \in 1..(n - 1) PROVE t[i] \in Req /\ t[i] # r /\ pc[t[i]] \in Queued
    OBVIOUS
  <2>1. i + 1 \in 1..n /\ 1 \in 1..n /\ i + 1 # 1 /\ t[i] = queue[i + 1]
    BY <1>1
  <2>2. queue[i + 1] \in Req
    BY <2>1, ElementOfSeq DEF TypeOK
  <2> QED BY <1>1, <2>1, <2>2 DEF QueueInv
<1>4. \A i, j \in 1..(n - 1) : i # j => t[i] # t[j]
  <2> SUFFICES ASSUME NEW i \in 1..(n - 1), NEW j \in 1..(n - 1), i # j PROVE t[i] # t[j]
    OBVIOUS
  <2>1. i + 1 \in 1..n /\ j + 1 \in 1..n /\ i + 1 # j + 1
    BY <1>1
  <2> QED BY <1>1, <2>1 DEF QueueInv
<1>5. ASSUME NEW q \in Req, q # r, pc[q] \in Queued PROVE \E i \in 1..(n - 1) : t[i] = q
  <2>1. PICK k \in 1..n : queue[k] = q
    BY <1>5 DEF QueueInv
  <2>2. k # 1
    BY <2>1, <1>1, <1>5
  <2>3. k - 1 \in 1..(n - 1) /\ t[k - 1] = queue[k]
    BY <2>1, <2>2, <1>1
  <2> QED BY <2>1, <2>3
<1>6. CASE next \notin Queued
  <2>1. queue' = t /\ Len(queue') = n - 1
    BY <1>6, <1>1
  <2>2. \A i \in 1..Len(queue') : pc'[queue'[i]] \in Queued
    BY <2>1, <1>2, <1>3
  <2>3. \A i, j \in 1..Len(queue') : i # j => queue'[i] # queue'[j]
    BY <2>1, <1>4
  <2>4. \A q \in Req : pc'[q] \in Queued => \E i \in 1..Len(queue') : queue'[i] = q
    BY <2>1, <1>2, <1>5, <1>6
  <2> QED BY <2>2, <2>3, <2>4 DEF QueueInv
<1>7. CASE next \in Queued
  <2>1. /\ queue' = Append(t, r) /\ Len(queue') = n
        /\ \A i \in 1..(n - 1) : queue'[i] = t[i]
        /\ queue'[n] = r
    BY <1>7, <1>1
  <2>a. n \in Nat \ {0} /\ Len(queue') = n
    BY <2>1, <1>1
  <2> HIDE DEF n, t
  <2>2. \A i \in 1..Len(queue') : i \in 1..(n - 1) \/ i = n
    BY <2>a
  <2>3. \A i \in 1..(n - 1) : i \in 1..Len(queue')
    BY <2>a
  <2>4. n \in 1..Len(queue')
    BY <2>a
  <2>5. \A i \in 1..Len(queue') : pc'[queue'[i]] \in Queued
    <3>1. ASSUME NEW i \in 1..(n - 1) PROVE pc'[queue'[i]] \in Queued
      <4>1. queue'[i] = t[i]
        BY <2>1
      <4>2. t[i] \in Req /\ t[i] # r /\ pc[t[i]] \in Queued
        BY <1>3
      <4>3. pc'[t[i]] = pc[t[i]]
        BY <4>2, <1>2
      <4> QED BY <4>1, <4>2, <4>3
    <3>2. pc'[queue'[n]] \in Queued
      BY <2>1, <1>1, <1>2, <1>7
    <3> QED BY <2>2, <3>1, <3>2
  <2>6. \A i, j \in 1..Len(queue') : i # j => queue'[i] # queue'[j]
    BY <2>1, <2>2, <1>3, <1>4
  <2>7. ASSUME NEW q \in Req, pc'[q] \in Queued PROVE \E i \in 1..Len(queue') : queue'[i] = q
    <3>1. CASE q = r
      BY <3>1, <2>1, <2>4
    <3>2. CASE q # r
      <4>1. PICK i \in 1..(n - 1) : t[i] = q
        BY <3>2, <2>7, <1>2, <1>5
      <4> QED BY <4>1, <2>1, <2>3
    <3> QED BY <3>1, <3>2
  <2> QED BY <2>5, <2>6, <2>7 DEF QueueInv
<1> QED BY <1>6, <1>7

----------------------------------------------------------------------------
LEMMA InvInit == Init => IInv
<1> SUFFICES ASSUME Init PROVE IInv
  OBVIOUS
<1> USE PoolAssumption DEF Init
<1>1. TypeOK
  BY EmptySeq DEF TypeOK, PC
<1>2. QueueInv
  BY EmptySeq DEF QueueInv, Queued
<1>3. HealthInv /\ ProbeWaitsForThreadsOnly
  BY DEF HealthInv, ProbeWaitsForThreadsOnly
<1>4. CrowdInv
  <2>1. \A r \in Req : pc[r] \notin Queued
    BY DEF Queued
  <2> QED BY <2>1 DEF CrowdInv
<1>5. ConnectionsReturned
  BY FS_EmptySet DEF ConnectionsReturned
<1> QED BY <1>1, <1>2, <1>3, <1>4, <1>5 DEF IInv

\* The thread pool hands a thread to the one at the head of the queue.
LEMMA TakeThreadStep == ASSUME IInv, TakeThread PROVE IInv'
<1> USE DEF IInv
<1>1. queue # <<>> /\ Head(queue) \in Req /\ Tail(queue) \in Seq(Req)
  BY HeadTailProperties DEF TakeThread, TypeOK
<1> DEFINE r == Head(queue)
           next == CASE pc[r] = "deps" -> "handler"
                     [] pc[r] = "handler" -> Work(r)
                     [] pc[r] = "answer" -> "close"
<1>2. /\ Goto(r, next)
      /\ queue' = IF next \in Queued THEN Append(Tail(queue), r) ELSE Tail(queue)
      /\ Crowded /\ UNCHANGED <<kind, conn, waited, age>>
  BY DEF TakeThread
<1>3. pc[r] \in Queued
  <2>1. 1 \in 1..Len(queue) /\ r = queue[1]
    BY <1>1, EmptySeq DEF TypeOK
  <2> QED BY <2>1 DEF QueueInv
<1>4. /\ next \in PC
      /\ kind[r] = "health" => next \in {"answer", "close"}
      /\ pc[r] = "answer" => next = "close"
  <2>1. pc[r] = "deps" => next = "handler"
    OBVIOUS
  <2>2. pc[r] = "handler" => next = Work(r)
    OBVIOUS
  <2>3. pc[r] = "answer" => next = "close"
    OBVIOUS
  <2>4. kind[r] = "health" => pc[r] # "deps"
    BY <1>1 DEF HealthInv
  <2>5. Work(r) \in {"answer", "triage", "checkout"} /\ (kind[r] = "health" => Work(r) = "answer")
    BY <1>1 DEF Work, TypeOK, Kind
  <2> QED BY <1>3, <2>1, <2>2, <2>3, <2>4, <2>5 DEF Queued, Running, PC
<1> HIDE DEF next
<1>5. pc' = [pc EXCEPT ![r] = next] /\ pc' \in [Req -> PC]
  BY <1>1, <1>2, <1>4 DEF Goto, TypeOK
<1>6. crowded' \in SUBSET Req
  BY <1>2 DEF Crowded, TypeOK
<1>7. TypeOK'
  BY <1>1, <1>2, <1>5, <1>6 DEF TypeOK
<1>8. QueueInv'
  BY <1>1, <1>2, <1>4, QueueMoves
<1>9. HealthInv'
  BY <1>1, <1>2, <1>4, <1>5 DEF HealthInv, TypeOK
<1>10. CrowdInv'
  BY <1>2 DEF Crowded, CrowdInv, AllBusy
<1>11. ConnectionsReturned'
  BY <1>1, <1>2, <1>3, <1>4, <1>5 DEF ConnectionsReturned, TypeOK, Queued
<1>12. ProbeWaitsForThreadsOnly'
  BY <1>2 DEF Crowded, ProbeWaitsForThreadsOnly
<1> QED BY <1>7, <1>8, <1>9, <1>10, <1>11, <1>12

\* What the steps of one request have in common.
LEMMA RequestStep ==
  ASSUME IInv, NEW r \in Req, NEW next \in PC, Goto(r, next), Crowded,
         UNCHANGED <<kind, waited, age>>,
         pc[r] \notin Queued,
         IF next \in Queued THEN queue' = Append(queue, r) ELSE queue' = queue,
         kind[r] = "health" => next \in {"new", "handler", "answer", "close", "done"},
         ConnectionsReturned', conn' \in SUBSET Req
  PROVE  IInv'
<1> USE DEF IInv
<1>1. pc' = [pc EXCEPT ![r] = next] /\ pc' \in [Req -> PC]
  BY DEF Goto, TypeOK
<1>2. crowded' \in SUBSET Req
  BY DEF Crowded, TypeOK
<1>3. queue' \in Seq(Req)
  <2>1. queue \in Seq(Req)
    BY DEF TypeOK
  <2>2. CASE next \in Queued
    <3>1. queue' = Append(queue, r)
      BY <2>2
    <3> QED BY <2>1, <3>1
  <2>3. CASE next \notin Queued
    BY <2>1, <2>3
  <2> QED BY <2>2, <2>3
<1>4. TypeOK'
  BY <1>1, <1>2, <1>3 DEF TypeOK
<1>5. QueueInv'
  BY QueueStays, QueueGrows
<1>6. HealthInv'
  BY <1>1 DEF HealthInv, TypeOK
<1>7. CrowdInv'
  BY DEF Crowded, CrowdInv, AllBusy
<1>8. ProbeWaitsForThreadsOnly'
  BY DEF Crowded, ProbeWaitsForThreadsOnly
<1> QED BY <1>4, <1>5, <1>6, <1>7, <1>8

\* The only step that takes a connection finds one free.
LEMMA CheckoutStep == ASSUME IInv, NEW r \in Req, Checkout(r) PROVE IInv'
<1> USE DEF IInv
<1>1. /\ pc[r] = "checkout" /\ Goto(r, "sql") /\ Crowded /\ UNCHANGED <<kind, queue, waited, age>>
      /\ conn' = conn \cup {r} /\ Cardinality(conn) < Connections
  BY DEF Checkout, Free
<1>2. kind[r] # "health"
  BY <1>1 DEF HealthInv
<1>3. pc' = [pc EXCEPT ![r] = "sql"]
  BY <1>1 DEF Goto
<1>4. Cardinality(conn') <= Connections
  <2>1. IsFiniteSet(conn) /\ Cardinality(conn) \in Nat
    BY ConnFinite
  <2>2. Cardinality(conn \cup {r}) \in {Cardinality(conn), Cardinality(conn) + 1}
    BY <2>1, FS_AddElement
  <2> QED BY <1>1, <2>1, <2>2, PoolAssumption
<1>5. ConnectionsReturned'
  BY <1>1, <1>3, <1>4 DEF ConnectionsReturned, TypeOK
<1>6. conn' \in SUBSET Req
  BY <1>1 DEF TypeOK
<1> QED BY <1>1, <1>2, <1>5, <1>6, RequestStep DEF PC, Running, Queued

\* Every other step of a request keeps its connection or returns it.
LEMMA ReturnStep ==
  ASSUME IInv, NEW r \in Req, NEW next \in PC, Goto(r, next), UNCHANGED kind,
         conn' \in {conn, conn \ {r}},
         r \in conn' => next \in {"sql", "close"} \/ (next = "answer" /\ kind[r] = "read")
  PROVE  ConnectionsReturned' /\ conn' \in SUBSET Req
<1> USE DEF IInv
<1>1. pc' = [pc EXCEPT ![r] = next]
  BY DEF Goto
<1>2. Cardinality(conn') <= Connections
  <2>1. IsFiniteSet(conn) /\ Cardinality(conn) \in Nat /\ Cardinality(conn) <= Connections
    BY ConnFinite DEF ConnectionsReturned
  <2>2. Cardinality(conn \ {r}) \in {Cardinality(conn), Cardinality(conn) - 1}
    BY <2>1, FS_RemoveElement
  <2> QED BY <2>1, <2>2, PoolAssumption
<1> QED BY <1>1, <1>2 DEF ConnectionsReturned, TypeOK

\* Time passes only when nobody can go on: then whoever waits for a thread waits
\* because none is free.
LEMMA TickStep == ASSUME IInv, Tick PROVE IInv'
<1> USE PoolAssumption DEF IInv
<1>1. UNCHANGED <<kind, pc, queue, conn, crowded>> /\ ~CanGoOn
  BY DEF Tick
<1>2. waited' \in [Req -> 0..pool_timeout]
  <2>1. ASSUME NEW q \in Req, pc[q] = "checkout" PROVE waited[q] < pool_timeout
    BY <1>1, <2>1 DEF CanGoOn, Expired, TypeOK
  <2> QED BY <2>1 DEF Tick, TypeOK
<1>3. age' \in [Req -> 0..ProbeTimeout + 1]
  BY DEF Tick, TypeOK
<1>4. TypeOK'
  BY <1>1, <1>2, <1>3 DEF TypeOK
<1>5. QueueInv' /\ HealthInv' /\ ConnectionsReturned'
  BY <1>1 DEF QueueInv, HealthInv, ConnectionsReturned
<1>6. CrowdInv'
  BY <1>1 DEF CrowdInv, AllBusy, Busy
<1>7. ASSUME NEW q \in Req, kind'[q] = "health", age'[q] > 0 PROVE q \in crowded'
  <2>1. CASE age[q] > 0
    BY <1>1, <1>7, <2>1 DEF ProbeWaitsForThreadsOnly
  <2>2. CASE ~(age[q] > 0)
    <3>1. Probing(q)
      BY <1>7, <2>2 DEF Tick, TypeOK
    <3>2. pc[q] \in Queued
      BY <1>1, <3>1 DEF Probing, UnderWay, HealthInv, CanGoOn, Queued
    <3>3. PICK i \in 1..Len(queue) : queue[i] = q
      BY <3>2 DEF QueueInv
    <3>4. queue # <<>>
      BY <3>3, EmptySeq
    <3>5. AllBusy
      BY <1>1, <3>4 DEF CanGoOn
    <3> QED BY <1>1, <1>7, <3>2, <3>5 DEF CrowdInv
  <2> QED BY <2>1, <2>2
<1>8. ProbeWaitsForThreadsOnly'
  BY <1>7 DEF ProbeWaitsForThreadsOnly
<1> QED BY <1>4, <1>5, <1>6, <1>8

LEMMA InvStep == IInv /\ [Next]_vars => IInv'
<1> SUFFICES ASSUME IInv, [Next]_vars PROVE IInv'
  OBVIOUS
<1> USE DEF PC, Queued, Running
<1>a. \A q \in Req : q \in conn => pc[q] \in {"sql", "close", "answer"}
  BY DEF IInv, ConnectionsReturned
<1>b. \A q \in Req : kind[q] = "health" => pc[q] \notin {"triage", "checkout", "sql"}
  BY DEF IInv, HealthInv
<1>1. CASE \E r \in Req : Arrive(r)
  <2>1. PICK r \in Req : Arrive(r)
    BY <1>1
  <2>2. r \notin conn
    BY <2>1, <1>a DEF Arrive
  <2> DEFINE next == IF kind[r] = "health" THEN "handler" ELSE "deps"
  <2>3. Goto(r, next) /\ next \in Queued /\ (kind[r] = "health" => next = "handler")
    BY <2>1 DEF Arrive
  <2>4. ConnectionsReturned' /\ conn' \in SUBSET Req
    BY <2>1, <2>2, <2>3, ReturnStep DEF Arrive
  <2> HIDE DEF next
  <2> QED BY <2>1, <2>3, <2>4, RequestStep DEF Arrive
<1>2. CASE TakeThread
  BY <1>2, TakeThreadStep
<1>3. CASE \E r \in Req : Triage(r) \/ CheckoutTimesOut(r)
  <2>1. PICK r \in Req : Triage(r) \/ CheckoutTimesOut(r)
    BY <1>3
  <2>2. PICK next \in {"checkout", "close"} : Goto(r, next)
    BY <2>1 DEF Triage, CheckoutTimesOut
  <2>3. /\ pc[r] \in {"triage", "checkout"} /\ Crowded
        /\ UNCHANGED <<kind, queue, conn, waited, age>>
    BY <2>1 DEF Triage, CheckoutTimesOut
  <2>4. r \notin conn /\ kind[r] # "health"
    BY <2>3, <1>a, <1>b
  <2>5. ConnectionsReturned' /\ conn' \in SUBSET Req
    BY <2>2, <2>3, <2>4, ReturnStep
  <2> QED BY <2>2, <2>3, <2>4, <2>5, RequestStep
<1>4. CASE \E r \in Req : Checkout(r)
  BY <1>4, CheckoutStep
<1>5. CASE \E r \in Req : Answered(r)
  <2>1. PICK r \in Req : Answered(r)
    BY <1>5
  <2>2. pc[r] = "sql" /\ kind[r] # "health"
    BY <2>1, <1>b DEF Answered
  <2>3. CASE kind[r] = "ready"
    <3>1. /\ Goto(r, "close") /\ UNCHANGED queue /\ conn' = conn \ {r} /\ Crowded
          /\ UNCHANGED <<kind, waited, age>>
      BY <2>1, <2>3 DEF Answered, Returns
    <3>2. ConnectionsReturned' /\ conn' \in SUBSET Req
      BY <3>1, ReturnStep
    <3> QED BY <2>2, <3>1, <3>2, RequestStep
  <2>4. CASE kind[r] # "ready"
    <3>1. /\ Goto(r, "answer") /\ queue' = Append(queue, r) /\ Crowded
          /\ UNCHANGED <<kind, waited, age>>
          /\ conn' = IF kind[r] # "read" THEN conn \ {r} ELSE conn
      BY <2>1, <2>4 DEF Answered, Returns
    <3>2. conn' \in {conn, conn \ {r}} /\ (r \in conn' => kind[r] = "read")
      BY <3>1
    <3>3. ConnectionsReturned' /\ conn' \in SUBSET Req
      BY <3>1, <3>2, ReturnStep
    <3> QED BY <2>2, <3>1, <3>3, RequestStep
  <2> QED BY <2>3, <2>4
<1>6. CASE \E r \in Req : Raised(r)
  <2>1. PICK r \in Req : Raised(r)
    BY <1>6
  <2>2. /\ pc[r] = "sql" /\ Goto(r, "close") /\ Crowded /\ UNCHANGED <<kind, queue, waited, age>>
        /\ conn' \in {conn, conn \ {r}}
    BY <2>1 DEF Raised
  <2>3. ConnectionsReturned' /\ conn' \in SUBSET Req
    BY <2>2, ReturnStep
  <2> QED BY <2>2, <2>3, <1>b, RequestStep
<1>7. CASE \E r \in Req : Close(r)
  <2>1. PICK r \in Req : Close(r)
    BY <1>7
  <2>2. /\ pc[r] = "close" /\ Goto(r, "done") /\ Crowded /\ UNCHANGED <<kind, queue, waited, age>>
        /\ conn' = conn \ {r}
    BY <2>1 DEF Close
  <2>3. ConnectionsReturned' /\ conn' \in SUBSET Req
    BY <2>2, ReturnStep
  <2> QED BY <2>2, <2>3, RequestStep
<1>8. CASE Tick
  BY <1>8, TickStep
<1>9. CASE UNCHANGED vars
  <2> USE <1>9 DEF vars
  <2>1. TypeOK' /\ QueueInv' /\ HealthInv'
    BY DEF IInv, TypeOK, QueueInv, HealthInv
  <2>2. CrowdInv' /\ ConnectionsReturned' /\ ProbeWaitsForThreadsOnly'
    BY DEF IInv, CrowdInv, AllBusy, Busy, ConnectionsReturned, ProbeWaitsForThreadsOnly
  <2> QED BY <2>1, <2>2 DEF IInv
<1> QED BY <1>1, <1>2, <1>3, <1>4, <1>5, <1>6, <1>7, <1>8, <1>9 DEF Next, Process

\* The inductive invariant: what the queue holds, what a probe can be waiting for
\* and who holds a connection.
THEOREM Invariance == Spec => []IInv
<1> QED BY InvInit, InvStep, PTL DEF Spec

\* Nobody waits longer than pool_timeout for a connection (db.py:12).
THEOREM TypeCorrect == Spec => []TypeOK
<1>1. IInv => TypeOK
  BY DEF IInv
<1> QED BY <1>1, Invariance, PTL

\* The connections are bounded, and each is held by a request that is under way
\* and not waiting for another (container.py:33-42).
THEOREM ConnectionsAreReturned == Spec => []ConnectionsReturned
<1>1. IInv => ConnectionsReturned
  BY DEF IInv
<1> QED BY <1>1, Invariance, PTL

\* A probe that has waited has met all the threads busy (health.py:22-24).
THEOREM ProbesWaitForThreads == Spec => []ProbeWaitsForThreadsOnly
<1>1. IInv => ProbeWaitsForThreadsOnly
  BY DEF IInv
<1> QED BY <1>1, Invariance, PTL

----------------------------------------------------------------------------
\* A statement under way has a connection.
StatementsConnected == \A r \in Req : pc[r] = "sql" => r \in conn

\* When all the threads are busy, one of them is in triage, which ends by its
\* timeouts, or waits for a connection, which ends by pool_timeout: a database that
\* answers nobody does not take the last thread (db.py:12).
SomeThreadGoesOn == AllBusy => \E r \in Req : pc[r] \in {"triage", "checkout"}

LEMMA ConnectedStep ==
  ASSUME IInv, StatementsConnected, Next
  PROVE  StatementsConnected'
<1> USE DEF IInv, TypeOK, StatementsConnected
<1>1. CASE TakeThread
  <2> DEFINE r == Head(queue)
  <2>1. r \in Req /\ pc[r] \in Queued
    <3>1. 1 \in 1..Len(queue) /\ r = queue[1] /\ r \in Req
      BY <1>1, HeadTailProperties, EmptySeq DEF TakeThread
    <3> QED BY <3>1 DEF QueueInv
  <2>2. conn' = conn /\ \A q \in Req \ {r} : pc'[q] = pc[q]
    BY <1>1, <2>1 DEF TakeThread, Goto
  <2>3. pc'[r] # "sql"
    BY <1>1, <2>1 DEF TakeThread, Goto, Queued, Work, Kind
  <2> QED BY <2>2, <2>3
<1>2. ASSUME NEW r \in Req, Checkout(r) PROVE StatementsConnected'
  BY <1>2 DEF Checkout, Goto
<1>3. ASSUME NEW r \in Req, Arrive(r) \/ Triage(r) \/ CheckoutTimesOut(r) \/ Answered(r) \/ Raised(r) \/ Close(r)
      PROVE  StatementsConnected'
  <2>1. (conn' = conn \/ conn' = conn \ {r}) /\ pc'[r] # "sql" /\ \A q \in Req \ {r} : pc'[q] = pc[q]
    BY <1>3 DEF Arrive, Triage, CheckoutTimesOut, Answered, Raised, Close, Goto
  <2> QED BY <2>1
<1>4. CASE Tick
  BY <1>4 DEF Tick
<1> QED BY <1>1, <1>2, <1>3, <1>4 DEF Next, Process

\* Never do all the threads wait for the database, for every number of threads that
\* exceeds that of the connections (db.py:12): it is what keeps a database that
\* has stopped from stopping the process, its probes among the rest.
THEOREM ThreadsOutlastTheDatabase == Spec => []SomeThreadGoesOn
<1>1. Init => StatementsConnected
  BY DEF Init, StatementsConnected
<1>2. IInv /\ StatementsConnected /\ [Next]_vars => StatementsConnected'
  <2>1. ASSUME StatementsConnected, UNCHANGED vars PROVE StatementsConnected'
    BY <2>1 DEF StatementsConnected, vars
  <2> QED BY <2>1, ConnectedStep
<1>3. IInv /\ StatementsConnected => SomeThreadGoesOn
  <2> SUFFICES ASSUME IInv, StatementsConnected, AllBusy, \A r \in Req : pc[r] \notin {"triage", "checkout"}
               PROVE  FALSE
    BY DEF SomeThreadGoesOn
  <2>1. Busy \in SUBSET conn
    BY DEF Busy, Running, StatementsConnected
  <2>2. IsFiniteSet(conn) /\ Cardinality(conn) \in Nat /\ Cardinality(conn) <= Connections
    BY ConnFinite DEF IInv, ConnectionsReturned
  <2>3. IsFiniteSet(Busy) /\ Cardinality(Busy) <= Cardinality(conn)
    BY <2>1, <2>2, FS_Subset
  <2>4. Cardinality(Busy) \in Nat
    BY <2>3, FS_CardinalityType
  <2> QED BY <2>2, <2>3, <2>4, PoolAssumption DEF AllBusy
<1> QED BY <1>1, <1>2, <1>3, Invariance, PTL DEF Spec
=============================================================================
