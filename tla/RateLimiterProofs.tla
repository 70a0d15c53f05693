--------------------------- MODULE RateLimiterProofs ---------------------------
(***************************************************************************)
(* What the shared limiter guarantees for every limit, window, number of     *)
(* requests, retries and restarts, however far the clocks of the replicas    *)
(* are from Redis's and however long a call is under way.                    *)
(***************************************************************************)
EXTENDS RateLimiter, FiniteSetTheorems, TLAPS

\* Nothing has been executed in the future, nor for a request that is still idle.
Past ==
  /\ \A r \in Req : ran[r] <= now
  /\ \A r \in Req : pc[r] = "idle" => tries[r] = 0
  /\ \A r \in Req : pc[r] # "done" => answer[r] = "none"

\* The last hit on a key has set the latest expiry, and none is further off than Life.
Expiries ==
  \A k \in Key : \A m, n \in 1..Len(log[k]) :
    log[k][n] <= now + Life /\ (m <= n => log[k][m] <= log[k][n])

\* The first j hits that Redis holds on k were executed before t.
Before(k, t, j) == \A i \in 1..j : log[k][i] < t + Life

\* While the stretch that begins at t lasts, the counter holds every hit of it, but
\* those lost: at most the hits after the first j are of the stretch.
Counting ==
  \A k \in Key, t \in Times :
    /\ Cardinality(AllowedIn(k, t)) <= Limit + lost[k]
    /\ now < t + Life =>
         \A j \in 0..Len(log[k]) :
           Before(k, t, j) => Cardinality(AllowedIn(k, t)) <= (Len(log[k]) - j) + lost[k]

Justified ==
  /\ \A k \in Key : Len(log[k]) <= Cardinality(Executions(k))
  /\ \A r \in Req : answer[r] = "refused" =>
       tries[r] > 0 /\ Limit < Cardinality(Executions(KeyOf(r)))

IInv == TypeOK /\ Past /\ Expiries /\ Counting /\ Justified

----------------------------------------------------------------------------
LEMMA Division ==
  ASSUME NEW x \in Nat, NEW w \in Nat \ {0}
  PROVE  x \div w \in Nat /\ (x \div w) * w <= x /\ x < (x \div w) * w + w
OBVIOUS

LEMMA DivisionMonotone ==
  ASSUME NEW x \in Nat, NEW y \in Nat, x <= y, NEW w \in Nat \ {0}
  PROVE  x \div w <= y \div w
BY Division

\* The window a clock names is a key, and the clock shows a time in it.
LEMMA KeyOfClock ==
  ASSUME NEW c \in 0..MaxTime
  PROVE  /\ c \div Window \in Key
         /\ Start(c \div Window) \in Nat
         /\ Start(c \div Window) <= c /\ c < Start(c \div Window) + Window
<1>1. c \in Nat /\ MaxTime \in Nat /\ c <= MaxTime /\ Window \in Nat \ {0}
  BY LimiterAssumption
<1>2. c \div Window \in Nat /\ (c \div Window) * Window <= c /\ c < (c \div Window) * Window + Window
  BY <1>1, Division
<1>3. c \div Window <= MaxTime \div Window /\ MaxTime \div Window \in Nat
  BY <1>1, Division, DivisionMonotone
<1>4. (c \div Window) * Window \in Nat
  BY <1>1, <1>2
<1> QED BY <1>2, <1>3, <1>4 DEF Key, Start

LEMMA KeyIsKey == ASSUME TypeOK, NEW r \in Req PROVE KeyOf(r) \in Key
BY KeyOfClock DEF KeyOf, TypeOK

LEMMA Moments == Times \in SUBSET Nat /\ Life \in Nat \ {0} /\ Limit \in Nat \ {0}
BY LimiterAssumption DEF Life

LEMMA AllowedIsFinite ==
  \A k, t : IsFiniteSet(AllowedIn(k, t)) /\ Cardinality(AllowedIn(k, t)) \in Nat
<1> TAKE k, t
<1>1. AllowedIn(k, t) \in SUBSET Req
  BY DEF AllowedIn
<1> QED BY <1>1, LimiterAssumption, FS_Subset, FS_CardinalityType

LEMMA ExecutionsAreFinite ==
  \A k : IsFiniteSet(Executions(k)) /\ Cardinality(Executions(k)) \in Nat
<1> TAKE k
<1>1. IsFiniteSet(1..MaxTries)
  BY LimiterAssumption, FS_Interval
<1>2. IsFiniteSet(Req \X (1..MaxTries))
  BY <1>1, LimiterAssumption, FS_Product
<1>3. Executions(k) \in SUBSET (Req \X (1..MaxTries))
  BY DEF Executions
<1> QED BY <1>2, <1>3, FS_Subset, FS_CardinalityType

\* What an execution of the MULTI does to the key: a hit more, or a counter begun
\* again, when nothing on the key lives.
LEMMA MultiLog ==
  ASSUME IInv, NEW r \in Req, Multi(r), NEW h, h = KeyOf(r)
  PROVE  /\ h \in Key /\ Expiry = now + Life /\ Expiry \in Nat /\ now \in Nat
         /\ log' \in [Key -> Seq(Nat)] /\ log[h] \in Seq(Nat) /\ Len(log[h]) \in Nat
         /\ \A k \in Key \ {h} : log'[k] = log[k]
         /\ \/ log'[h] = Append(log[h], Expiry) /\ Found(h) = Len(log[h])
            \/ /\ log'[h] = <<Expiry>> /\ Found(h) = 0
               /\ \A i \in 1..Len(log[h]) : log[h][i] <= now
<1>1. h \in Key /\ TypeOK /\ Expiries
  BY KeyIsKey DEF IInv
<1>2. Expiry = now + Life /\ Expiry \in Nat /\ now \in Nat /\ log[h] \in Seq(Nat) /\ Len(log[h]) \in Nat
  BY <1>1, Moments DEF TypeOK, Expiry
<1> DEFINE base == IF Alive(h) THEN log[h] ELSE <<>>
<1>3. base \in Seq(Nat) /\ Append(base, Expiry) \in Seq(Nat)
  BY <1>2
<1>4. log' = [log EXCEPT ![h] = Append(base, Expiry)]
  BY <1>1 DEF Multi, TypeOK
<1> HIDE DEF base
<1>5. log' \in [Key -> Seq(Nat)] /\ log'[h] = Append(base, Expiry)
      /\ \A k \in Key \ {h} : log'[k] = log[k]
  BY <1>1, <1>3, <1>4 DEF TypeOK
<1>6. CASE Alive(h)
  BY <1>1, <1>2, <1>5, <1>6 DEF base, Found
<1>7. CASE ~Alive(h)
  <2>1. log'[h] = <<Expiry>> /\ Found(h) = 0
    BY <1>5, <1>7 DEF base, Found
  <2>2. ASSUME NEW i \in 1..Len(log[h]) PROVE log[h][i] <= now
    <3>1. log[h] # <<>> /\ Len(log[h]) \in 1..Len(log[h]) /\ i <= Len(log[h])
      BY <1>2, <2>2
    <3>2. ~(now < log[h][Len(log[h])])
      BY <1>7, <3>1 DEF Alive
    <3>3. log[h][i] <= log[h][Len(log[h])] /\ log[h][i] \in Nat /\ log[h][Len(log[h])] \in Nat
      BY <1>1, <1>2, <2>2, <3>1 DEF Expiries
    <3> QED BY <1>2, <3>2, <3>3
  <2> QED BY <1>1, <1>2, <1>5, <2>1, <2>2
<1> QED BY <1>6, <1>7

LEMMA MultiExpiries == ASSUME IInv, NEW r \in Req, Multi(r) PROVE Expiries'
<1> DEFINE h == KeyOf(r)
<1>1. /\ h \in Key /\ Expiry = now + Life /\ Expiry \in Nat /\ now \in Nat
      /\ log[h] \in Seq(Nat) /\ Len(log[h]) \in Nat
      /\ \A k \in Key \ {h} : log'[k] = log[k]
      /\ log'[h] = Append(log[h], Expiry) \/ log'[h] = <<Expiry>>
  BY MultiLog
<1>2. Expiries /\ now' = now /\ Life \in Nat
  BY Moments DEF IInv, Multi
<1> HIDE DEF h
<1> SUFFICES ASSUME NEW k \in Key, NEW m \in 1..Len(log'[k]), NEW n \in 1..Len(log'[k])
             PROVE  log'[k][n] <= now + Life /\ (m <= n => log'[k][m] <= log'[k][n])
  BY <1>2 DEF Expiries, Life
<1>3. CASE k # h
  BY <1>1, <1>2, <1>3 DEF Expiries
<1>4. CASE k = h /\ log'[h] = <<Expiry>>
  BY <1>1, <1>4
<1>5. CASE k = h /\ log'[h] = Append(log[h], Expiry)
  <2>1. \A i \in 1..Len(log'[h]) :
          \/ i \in 1..Len(log[h]) /\ log'[h][i] = log[h][i] /\ log[h][i] \in Nat
          \/ i = Len(log[h]) + 1 /\ log'[h][i] = Expiry
    BY <1>1, <1>5
  <2>2. \A i, j \in 1..Len(log[h]) :
          log[h][j] <= now + Life /\ (i <= j => log[h][i] <= log[h][j])
    BY <1>1, <1>2 DEF Expiries
  <2>3. \/ m \in 1..Len(log[h]) /\ log'[h][m] = log[h][m] /\ log[h][m] \in Nat
        \/ m = Len(log[h]) + 1 /\ log'[h][m] = Expiry
    BY <1>5, <2>1
  <2>4. \/ n \in 1..Len(log[h]) /\ log'[h][n] = log[h][n] /\ log[h][n] \in Nat
        \/ n = Len(log[h]) + 1 /\ log'[h][n] = Expiry
    BY <1>5, <2>1
  <2> QED BY <1>1, <1>2, <1>5, <2>2, <2>3, <2>4
<1> QED BY <1>1, <1>3, <1>4, <1>5

\* The executions of the window become one more, the others' stay.
LEMMA MultiExecutes ==
  ASSUME IInv, NEW r \in Req, Multi(r)
  PROVE  /\ tries' \in [Req -> 0..MaxTries] /\ tries'[r] > 0
         /\ \A q \in Req : tries[q] <= tries'[q]
         /\ \A k : k = KeyOf(r) => Cardinality(Executions(k)') = Cardinality(Executions(k)) + 1
         /\ \A k : k # KeyOf(r) => Executions(k)' = Executions(k)
<1> DEFINE x == <<r, tries[r] + 1>>
<1>1. TypeOK /\ clock' = clock /\ tries[r] < MaxTries /\ tries' = [tries EXCEPT ![r] = @ + 1]
  BY DEF IInv, Multi
<1>2. tries[r] \in Nat /\ tries[r] + 1 \in 1..MaxTries
  BY <1>1, LimiterAssumption DEF TypeOK
<1>3. tries' \in [Req -> 0..MaxTries] /\ tries'[r] = tries[r] + 1
      /\ \A q \in Req \ {r} : tries'[q] = tries[q]
  BY <1>1, <1>2 DEF TypeOK
<1>4. \A q \in Req : KeyOf(q)' = KeyOf(q) /\ tries[q] \in Nat /\ tries'[q] \in Nat
  BY <1>1, <1>3, LimiterAssumption DEF KeyOf, TypeOK
<1>5. \A q \in Req, i \in 1..MaxTries : i <= tries'[q] <=> (i <= tries[q] \/ <<q, i>> = x)
  <2> SUFFICES ASSUME NEW q \in Req, NEW i \in 1..MaxTries
               PROVE  i <= tries'[q] <=> (i <= tries[q] \/ (q = r /\ i = tries[r] + 1))
    OBVIOUS
  <2>1. CASE q = r
    BY <1>2, <1>3, <1>4, <2>1, LimiterAssumption
  <2>2. CASE q # r
    BY <1>3, <2>2
  <2> QED BY <2>1, <2>2
<1>6. ASSUME NEW k, k = KeyOf(r)
      PROVE  Executions(k)' = Executions(k) \cup {x} /\ x \notin Executions(k)
  BY <1>2, <1>4, <1>5, <1>6 DEF Executions
<1>7. ASSUME NEW k, k # KeyOf(r) PROVE Executions(k)' = Executions(k)
  BY <1>4, <1>5, <1>7 DEF Executions
<1>8. tries'[r] > 0 /\ \A q \in Req : tries[q] <= tries'[q]
  BY <1>2, <1>3, <1>4
<1> HIDE DEF x
<1>9. ASSUME NEW k, k = KeyOf(r) PROVE Cardinality(Executions(k)') = Cardinality(Executions(k)) + 1
  BY <1>6, <1>9, ExecutionsAreFinite, FS_AddElement
<1> QED BY <1>3, <1>7, <1>8, <1>9

\* Nothing is allowed in a stretch that has not begun.
LEMMA NotYet ==
  ASSUME IInv, NEW k \in Key, NEW t \in Times, now < t
  PROVE  AllowedIn(k, t) = {}
<1>1. \A r \in Req : ran[r] \in Nat /\ ran[r] <= now /\ now \in Nat /\ t \in Nat
  BY Moments DEF IInv, Past, TypeOK
<1> QED BY <1>1, Moments DEF AllowedIn

\* An execution keeps the counting, when it allows nothing or is within the limit.
LEMMA MultiCounts ==
  ASSUME IInv, NEW r \in Req, Multi(r), NEW k \in Key, NEW t \in Times,
         \/ AllowedIn(k, t)' \in SUBSET AllowedIn(k, t)
         \/ /\ k = KeyOf(r) /\ Found(k) + 1 <= Limit /\ now < t + Life
            /\ AllowedIn(k, t)' \in SUBSET (AllowedIn(k, t) \cup {r})
            /\ t <= now
  PROVE  /\ Cardinality(AllowedIn(k, t)') <= Limit + lost[k]
         /\ now < t + Life =>
              \A j \in 0..Len(log'[k]) :
                Before(k, t, j)' => Cardinality(AllowedIn(k, t)') <= (Len(log'[k]) - j) + lost[k]
<1> DEFINE a == Cardinality(AllowedIn(k, t))
           b == Cardinality(AllowedIn(k, t)')
           h == KeyOf(r)
<1>1. /\ h \in Key /\ Expiry = now + Life /\ Expiry \in Nat /\ now \in Nat
      /\ log[h] \in Seq(Nat) /\ Len(log[h]) \in Nat
      /\ \A i \in Key \ {h} : log'[i] = log[i]
      /\ \/ log'[h] = Append(log[h], Expiry) /\ Found(h) = Len(log[h])
         \/ /\ log'[h] = <<Expiry>> /\ Found(h) = 0
            /\ \A i \in 1..Len(log[h]) : log[h][i] <= now
  BY MultiLog
<1>2. t \in Nat /\ Life \in Nat \ {0} /\ Limit \in Nat \ {0} /\ lost[k] \in Nat
      /\ log[k] \in Seq(Nat) /\ Len(log[k]) \in Nat
  BY Moments DEF IInv, TypeOK
<1>3. a \in Nat /\ b \in Nat /\ IsFiniteSet(AllowedIn(k, t))
  <2>1. AllowedIn(k, t)' \in SUBSET Req
    BY DEF AllowedIn
  <2> QED BY <2>1, AllowedIsFinite, LimiterAssumption, FS_Subset, FS_CardinalityType
<1>4. a <= Limit + lost[k]
      /\ (now < t + Life => \A j \in 0..Len(log[k]) :
            Before(k, t, j) => a <= (Len(log[k]) - j) + lost[k])
  BY DEF IInv, Counting
<1>5. \/ AllowedIn(k, t)' \in SUBSET AllowedIn(k, t) /\ b <= a
      \/ k = h /\ Found(k) + 1 <= Limit /\ now < t + Life /\ t <= now /\ b <= a + 1
  <2>1. CASE AllowedIn(k, t)' \in SUBSET AllowedIn(k, t)
    BY <1>3, <2>1, FS_Subset
  <2>2. CASE AllowedIn(k, t)' \in SUBSET (AllowedIn(k, t) \cup {r})
    <3>1. /\ IsFiniteSet(AllowedIn(k, t) \cup {r})
          /\ Cardinality(AllowedIn(k, t) \cup {r}) \in Nat
          /\ Cardinality(AllowedIn(k, t) \cup {r}) <= a + 1
      <4>1. /\ IsFiniteSet(AllowedIn(k, t) \cup {r})
            /\ Cardinality(AllowedIn(k, t) \cup {r}) = a
               \/ Cardinality(AllowedIn(k, t) \cup {r}) = a + 1
        BY <1>3, FS_AddElement
      <4> QED BY <1>3, <4>1
    <3>2. b <= a + 1
      <4>1. b <= Cardinality(AllowedIn(k, t) \cup {r})
        BY <2>2, <3>1, FS_Subset
      <4> QED BY <1>3, <3>1, <4>1
    <3> QED BY <2>1, <3>2
  <2> QED BY <2>1, <2>2
<1>7. Before(k, t, 0)
  BY DEF Before
<1>8. now < t => b = 0
  <2>1. SUFFICES ASSUME now < t PROVE b = 0
    OBVIOUS
  <2>2. AllowedIn(k, t) = {}
    BY <2>1, NotYet
  <2>3. AllowedIn(k, t)' = {}
    BY <1>1, <1>2, <1>5, <2>1, <2>2
  <2> QED BY <2>3, FS_EmptySet
<1> HIDE DEF a, b, h
<1>9. CASE k # h
  <2>1. log'[k] = log[k] /\ b <= a
    BY <1>1, <1>5, <1>9
  <2>2. \A j : Before(k, t, j)' <=> Before(k, t, j)
    BY <2>1 DEF Before, Life
  <2> QED BY <1>2, <1>3, <1>4, <2>1, <2>2 DEF a, b
<1>10. CASE k = h /\ log'[h] = Append(log[h], Expiry) /\ Found(h) = Len(log[h])
  <2>1. Len(log'[k]) = Len(log[k]) + 1 /\ log'[k][Len(log[k]) + 1] = Expiry
        /\ \A i \in 1..Len(log[k]) : log'[k][i] = log[k][i]
    BY <1>1, <1>10
  <2>2. b <= Limit + lost[k]
    <3>1. CASE b <= a
      BY <1>2, <1>3, <1>4, <3>1
    <3>2. CASE Found(k) + 1 <= Limit /\ now < t + Life /\ b <= a + 1
      <4>1. a <= (Len(log[k]) - 0) + lost[k]
        BY <1>2, <1>4, <1>7, <3>2
      <4> QED BY <1>2, <1>3, <1>10, <3>2, <4>1
    <3> QED BY <1>5, <3>1, <3>2
  <2>3. ASSUME now < t + Life, NEW j \in 0..Len(log'[k]), Before(k, t, j)'
        PROVE  b <= (Len(log'[k]) - j) + lost[k]
    <3>1. CASE j = Len(log[k]) + 1
      <4>1. Expiry < t + Life
        <5>1. log'[k][j] < t + Life
          <6>1. j \in 1..j
            BY <1>2, <3>1
          <6> QED BY <2>3, <6>1 DEF Before, Life
        <5> QED BY <2>1, <3>1, <5>1
      <4>2. now < t
        BY <1>1, <1>2, <4>1
      <4> QED BY <1>2, <1>8, <2>1, <3>1, <4>2
    <3>2. CASE j # Len(log[k]) + 1
      <4>1. j \in 0..Len(log[k])
        BY <1>2, <2>1, <2>3, <3>2
      <4>2. Before(k, t, j)
        <5> SUFFICES ASSUME NEW i \in 1..j PROVE log[k][i] < t + Life
          BY DEF Before
        <5>1. i \in 1..Len(log[k]) /\ log'[k][i] < t + Life
          BY <1>2, <2>3, <4>1 DEF Before, Life
        <5> QED BY <2>1, <5>1
      <4>3. a <= (Len(log[k]) - j) + lost[k]
        BY <1>4, <2>3, <4>1, <4>2
      <4>4. b <= a + 1 /\ a \in Nat /\ b \in Nat
        BY <1>3, <1>5
      <4>5. Len(log'[k]) = Len(log[k]) + 1 /\ Len(log[k]) \in Nat /\ lost[k] \in Nat /\ j \in Nat
        BY <1>2, <2>1, <4>1
      <4> QED BY <4>3, <4>4, <4>5
    <3> QED BY <3>1, <3>2
  <2> QED BY <2>2, <2>3 DEF b
<1>11. CASE k = h /\ log'[h] = <<Expiry>> /\ Found(h) = 0 /\ \A i \in 1..Len(log[h]) : log[h][i] <= now
  <2>1. Len(log'[k]) = 1 /\ log'[k][1] = Expiry
    BY <1>11
  <2>2. now < t + Life => a <= lost[k]
    <3>0. SUFFICES ASSUME now < t + Life PROVE a <= lost[k]
      OBVIOUS
    <3>1. Before(k, t, Len(log[k]))
      <4> SUFFICES ASSUME NEW i \in 1..Len(log[k]) PROVE log[k][i] < t + Life
        BY DEF Before
      <4>1. log[k][i] \in Nat /\ log[k][i] <= now
        BY <1>2, <1>11
      <4>2. now \in Nat
        BY <1>1
      <4> QED BY <1>2, <3>0, <4>1, <4>2
    <3>2. a <= (Len(log[k]) - Len(log[k])) + lost[k]
      BY <1>2, <1>4, <3>0, <3>1
    <3> QED BY <1>2, <3>2
  <2>3. b <= Limit + lost[k]
    BY <1>2, <1>3, <1>4, <1>5, <2>2
  <2>4. ASSUME now < t + Life, NEW j \in 0..Len(log'[k]), Before(k, t, j)'
        PROVE  b <= (Len(log'[k]) - j) + lost[k]
    <3>1. CASE j = 1
      <4>1. Expiry < t + Life
        BY <2>1, <2>4, <3>1 DEF Before, Life
      <4>2. now < t
        BY <1>1, <1>2, <4>1
      <4> QED BY <1>2, <1>8, <2>1, <3>1, <4>2
    <3>2. CASE j = 0
      BY <1>2, <1>3, <1>5, <2>1, <2>2, <2>4, <3>2
    <3> QED BY <2>1, <3>1, <3>2
  <2> QED BY <2>3, <2>4 DEF b
<1> QED BY <1>1, <1>9, <1>10, <1>11

\* The decision, and who is allowed after it.
LEMMA HitStep == ASSUME IInv, NEW r \in Req, Hit(r) \/ HitUnread(r) PROVE IInv'
<1>0. TypeOK /\ Past /\ Justified /\ Multi(r) /\ pc[r] # "idle"
  BY DEF IInv, Hit, HitUnread, Finish
<1> PICK h \in Key : h = KeyOf(r)
  BY <1>0, KeyIsKey
<1>1. /\ Expiry \in Nat /\ now \in Nat /\ Len(log[h]) \in Nat
      /\ log' \in [Key -> Seq(Nat)]
      /\ \A k \in Key \ {h} : log'[k] = log[k]
      /\ log[h] \in Seq(Nat)
      /\ \/ log'[h] = Append(log[h], Expiry) /\ Found(h) = Len(log[h])
         \/ log'[h] = <<Expiry>> /\ Found(h) = 0
  BY <1>0, MultiLog
<1>2. /\ tries' \in [Req -> 0..MaxTries] /\ tries'[r] > 0
      /\ \A q \in Req : tries[q] <= tries'[q]
      /\ Cardinality(Executions(h)') = Cardinality(Executions(h)) + 1
      /\ \A k : k # h => Executions(k)' = Executions(k)
  BY <1>0, MultiExecutes
<1>3. UNCHANGED <<now, clock, lost>> /\ \A q \in Req : KeyOf(q)' = KeyOf(q)
  BY <1>0 DEF Multi, KeyOf
<1>4. \/ /\ pc[r] = "multi" /\ answer[r] = "none" /\ pc' = [pc EXCEPT ![r] = "done"]
         /\ answer' = [answer EXCEPT ![r] = "refused"] /\ ran' = [ran EXCEPT ![r] = now]
         /\ Found(h) + 1 > Limit
      \/ /\ pc[r] = "multi" /\ answer[r] = "none" /\ pc' = [pc EXCEPT ![r] = "done"]
         /\ answer' = [answer EXCEPT ![r] = "allowed"] /\ ran' = [ran EXCEPT ![r] = now]
         /\ Found(h) + 1 <= Limit
      \/ UNCHANGED <<pc, answer, ran>>
  <2>1. CASE Hit(r)
    <3>1. pc[r] = "multi" /\ answer[r] = "none"
      BY <1>0, <2>1 DEF Hit, Finish, Past
    <3>2. Found(h) + 1 > Limit \/ Found(h) + 1 <= Limit
      BY <1>1, LimiterAssumption
    <3> QED BY <2>1, <3>1, <3>2 DEF Hit, Finish
  <2>2. CASE HitUnread(r)
    BY <2>2 DEF HitUnread
  <2> QED BY <2>1, <2>2
<1>5. TypeOK'
  <2>1. /\ pc' \in [Req -> {"idle", "multi", "done"}] /\ ran' \in [Req -> Times]
        /\ answer' \in [Req -> {"none", "allowed", "refused", "open"}]
    <3>1. pc' = pc \/ pc' = [pc EXCEPT ![r] = "done"]
      BY <1>4
    <3>2. ran' = ran \/ ran' = [ran EXCEPT ![r] = now]
      BY <1>4
    <3>3. \/ answer' = answer
          \/ answer' = [answer EXCEPT ![r] = "refused"] \/ answer' = [answer EXCEPT ![r] = "allowed"]
      BY <1>4
    <3>4. pc' \in [Req -> {"idle", "multi", "done"}]
      BY <1>0, <3>1 DEF TypeOK
    <3>5. ran' \in [Req -> Times]
      BY <1>0, <3>2 DEF TypeOK
    <3>6. answer' \in [Req -> {"none", "allowed", "refused", "open"}]
      BY <1>0, <3>3 DEF TypeOK
    <3> QED BY <3>4, <3>5, <3>6
  <2>2. now' \in Times /\ clock' \in [Req -> 0..MaxTime] /\ lost' \in [Key -> Nat]
    BY <1>0, <1>3 DEF TypeOK
  <2>3. tries' \in [Req -> 0..MaxTries] /\ log' \in [Key -> Seq(Nat)]
    BY <1>1, <1>2
  <2> QED BY <2>1, <2>2, <2>3 DEF TypeOK, Key
<1>6. Past'
  <2>1. \A q \in Req : ran'[q] <= now'
    <3>1. \A q \in Req : ran'[q] = now \/ ran'[q] = ran[q]
      BY <1>0, <1>4 DEF TypeOK
    <3> QED BY <1>0, <1>1, <1>3, <3>1 DEF Past
  <2>2. \A q \in Req : /\ pc'[q] = "idle" => tries'[q] = 0
                       /\ pc'[q] # "done" => answer'[q] = "none"
    <3> SUFFICES ASSUME NEW q \in Req
                 PROVE  /\ pc'[q] = "idle" => tries'[q] = 0
                        /\ pc'[q] # "done" => answer'[q] = "none"
      OBVIOUS
    <3>1. CASE q = r
      BY <1>0, <1>4, <3>1 DEF Past, TypeOK
    <3>2. CASE q # r
      <4>1. pc'[q] = pc[q] /\ answer'[q] = answer[q]
        BY <1>0, <1>4, <3>2 DEF TypeOK
      <4>2. tries'[q] = tries[q]
        BY <1>0, <3>2 DEF Multi, TypeOK
      <4> QED BY <1>0, <4>1, <4>2 DEF Past
    <3> QED BY <3>1, <3>2
  <2> QED BY <2>1, <2>2 DEF Past
<1>7. Expiries'
  BY <1>0, MultiExpiries
<1>8. Counting'
  <2> SUFFICES ASSUME NEW k \in Key, NEW t \in Times
               PROVE  /\ Cardinality(AllowedIn(k, t)') <= Limit + lost[k]
                      /\ now < t + Life =>
                           \A j \in 0..Len(log'[k]) :
                             Before(k, t, j)' =>
                               Cardinality(AllowedIn(k, t)') <= (Len(log'[k]) - j) + lost[k]
    BY <1>3 DEF Counting, Life, Key
  <2>1. \A q \in Req \ {r} : q \in AllowedIn(k, t)' => q \in AllowedIn(k, t)
    <3>1. \A q \in Req \ {r} : answer'[q] = answer[q] /\ ran'[q] = ran[q]
      BY <1>0, <1>4 DEF TypeOK
    <3> QED BY <1>3, <3>1 DEF AllowedIn, Life
  <2>2. CASE r \notin AllowedIn(k, t)' \/ r \in AllowedIn(k, t)
    <3>1. AllowedIn(k, t)' \in SUBSET AllowedIn(k, t)
      BY <2>1, <2>2 DEF AllowedIn
    <3> QED BY <1>0, <3>1, MultiCounts
  <2>3. CASE r \in AllowedIn(k, t)' /\ r \notin AllowedIn(k, t)
    <3>1. AllowedIn(k, t)' \in SUBSET (AllowedIn(k, t) \cup {r})
      BY <2>1 DEF AllowedIn
    <3>2. KeyOf(r) = k /\ answer'[r] = "allowed" /\ ran'[r] \in t..(t + Life - 1)
      BY <1>3, <2>3 DEF AllowedIn, Life
    <3>3. ~UNCHANGED <<pc, answer, ran>>
      BY <1>3, <2>3, <3>2 DEF AllowedIn
    <3>4. Found(h) + 1 <= Limit /\ ran'[r] = now
      BY <1>0, <1>4, <3>2, <3>3 DEF TypeOK
    <3>5. t <= now /\ now < t + Life
      BY <1>1, <3>2, <3>4, Moments
    <3> QED BY <1>0, <3>1, <3>2, <3>4, <3>5, MultiCounts
  <2> QED BY <2>2, <2>3
<1>9. Justified'
  <2>1. \A k \in Key : Len(log[k]) \in Nat /\ Cardinality(Executions(k)) \in Nat
    BY <1>0, ExecutionsAreFinite DEF TypeOK
  <2>2. Len(log'[h]) <= Len(log[h]) + 1 /\ Found(h) <= Len(log[h]) /\ Found(h) \in Nat
    <3>1. CASE log'[h] = Append(log[h], Expiry) /\ Found(h) = Len(log[h])
      BY <1>1, <3>1
    <3>2. CASE log'[h] = <<Expiry>> /\ Found(h) = 0
      BY <1>1, <3>2
    <3> QED BY <1>1, <3>1, <3>2
  <2>3. \A k \in Key : Len(log'[k]) <= Cardinality(Executions(k)')
    <3> SUFFICES ASSUME NEW k \in Key PROVE Len(log'[k]) <= Cardinality(Executions(k)')
      OBVIOUS
    <3>1. Len(log[k]) <= Cardinality(Executions(k))
      BY <1>0 DEF Justified
    <3>2. CASE k = h
      <4>1. Len(log'[h]) \in Nat
        BY <1>1
      <4> QED BY <1>2, <2>1, <2>2, <3>1, <3>2, <4>1
    <3>3. CASE k # h
      BY <1>1, <1>2, <3>1, <3>3
    <3> QED BY <3>2, <3>3
  <2>4. ASSUME NEW q \in Req, answer'[q] = "refused", NEW g \in Key, g = KeyOf(q)
        PROVE  tries'[q] > 0 /\ Limit < Cardinality(Executions(g)')
    <3>0. Limit \in Nat /\ tries[q] \in Nat /\ tries'[q] \in Nat /\ tries[q] <= tries'[q]
      BY <1>0, <1>2, LimiterAssumption DEF TypeOK
    <3>1. CASE answer[q] = "refused"
      <4>1. tries[q] > 0 /\ Limit < Cardinality(Executions(g))
        BY <1>0, <2>4, <3>1 DEF Justified
      <4>2. Cardinality(Executions(g)') \in {Cardinality(Executions(g)), Cardinality(Executions(g)) + 1}
        BY <1>2
      <4> QED BY <2>1, <3>0, <4>1, <4>2
    <3>2. CASE answer[q] # "refused"
      <4>1. q = r /\ Found(h) + 1 > Limit
        BY <1>0, <1>4, <2>4, <3>2 DEF TypeOK
      <4>2. Len(log[h]) <= Cardinality(Executions(h))
        BY <1>0 DEF Justified
      <4>3. Limit < Cardinality(Executions(h)')
        BY <1>1, <1>2, <2>1, <2>2, <3>0, <4>1, <4>2
      <4> QED BY <1>2, <2>4, <4>1, <4>3
    <3> QED BY <3>1, <3>2
  <2>5. ASSUME NEW q \in Req, answer'[q] = "refused"
        PROVE  tries'[q] > 0 /\ Limit < Cardinality(Executions(KeyOf(q))')
    <3>1. PICK g \in Key : g = KeyOf(q)
      BY <1>0, KeyIsKey
    <3>2. Executions(g)' = Executions(KeyOf(q))'
      BY <1>3, <3>1
    <3> QED BY <2>4, <2>5, <3>1, <3>2
  <2> QED BY <2>3, <2>5 DEF Justified, Key
<1> QED BY <1>5, <1>6, <1>7, <1>8, <1>9 DEF IInv

\* Steps that leave Redis alone, and allow and refuse nothing new.
LEMMA RedisAlone ==
  ASSUME IInv, UNCHANGED <<tries, log, ran, lost>>, TypeOK', now <= now',
         \A r \in Req : clock'[r] = clock[r] \/ (answer[r] = "none" /\ tries[r] = 0),
         \A r \in Req : answer'[r] = answer[r] \/ answer'[r] \notin {"allowed", "refused"}
  PROVE  Expiries' /\ Counting' /\ Justified'
<1>1. TypeOK /\ Expiries /\ Counting /\ Justified /\ now \in Nat /\ now' \in Nat
  BY Moments DEF IInv, TypeOK
<1>2. Expiries'
  <2> SUFFICES ASSUME NEW k \in Key, NEW m \in 1..Len(log[k]), NEW n \in 1..Len(log[k])
               PROVE  log[k][n] <= now' + Life /\ (m <= n => log[k][m] <= log[k][n])
    BY DEF Expiries, Key, Life
  <2>1. log[k][n] <= now + Life /\ (m <= n => log[k][m] <= log[k][n]) /\ log[k][n] \in Nat
    BY <1>1 DEF Expiries, TypeOK
  <2> QED BY <1>1, <2>1, Moments
<1>3. Counting'
  <2> SUFFICES ASSUME NEW k \in Key, NEW t \in Times
               PROVE  /\ Cardinality(AllowedIn(k, t)') <= Limit + lost[k]
                      /\ now' < t + Life =>
                           \A j \in 0..Len(log[k]) :
                             Before(k, t, j) =>
                               Cardinality(AllowedIn(k, t)') <= (Len(log[k]) - j) + lost[k]
    BY DEF Counting, Key, Life, Before
  <2>1. AllowedIn(k, t)' \in SUBSET AllowedIn(k, t)
    <3> SUFFICES ASSUME NEW r \in AllowedIn(k, t)' PROVE r \in AllowedIn(k, t)
      OBVIOUS
    <3>1. r \in Req /\ clock'[r] \div Window = k /\ answer'[r] = "allowed" /\ ran[r] \in t..(t + Life - 1)
      BY DEF AllowedIn, KeyOf, Life
    <3>2. answer[r] = "allowed"
      BY <3>1
    <3>3. clock'[r] = clock[r]
      BY <3>1, <3>2
    <3> QED BY <3>1, <3>2, <3>3 DEF AllowedIn, KeyOf
  <2>2. /\ Cardinality(AllowedIn(k, t)') <= Cardinality(AllowedIn(k, t))
        /\ Cardinality(AllowedIn(k, t)') \in Nat /\ Cardinality(AllowedIn(k, t)) \in Nat
    <3>1. AllowedIn(k, t)' \in SUBSET Req
      BY DEF AllowedIn
    <3> QED BY <2>1, <3>1, AllowedIsFinite, LimiterAssumption, FS_Subset, FS_CardinalityType
  <2>3. Len(log[k]) \in Nat /\ lost[k] \in Nat /\ Limit \in Nat /\ t \in Nat /\ Life \in Nat
    BY <1>1, Moments DEF TypeOK
  <2>4. /\ Cardinality(AllowedIn(k, t)) <= Limit + lost[k]
        /\ now < t + Life => \A j \in 0..Len(log[k]) : Before(k, t, j) =>
             Cardinality(AllowedIn(k, t)) <= (Len(log[k]) - j) + lost[k]
    BY <1>1 DEF Counting
  <2> DEFINE a == Cardinality(AllowedIn(k, t))
             b == Cardinality(AllowedIn(k, t)')
  <2> HIDE DEF a, b
  <2>5. b <= a /\ a \in Nat /\ b \in Nat /\ a <= Limit + lost[k]
        /\ (now < t + Life => \A j \in 0..Len(log[k]) : Before(k, t, j) =>
             a <= (Len(log[k]) - j) + lost[k])
    BY <2>2, <2>4 DEF a, b
  <2>6. now' < t + Life => now < t + Life
    BY <1>1, <2>3
  <2>7. \A j \in 0..Len(log[k]) : now' < t + Life /\ Before(k, t, j) => b <= (Len(log[k]) - j) + lost[k]
    BY <2>3, <2>5, <2>6
  <2>8. b <= Limit + lost[k]
    BY <2>3, <2>5
  <2> QED BY <2>7, <2>8 DEF b
<1>4. Justified'
  <2>1. \A k : Executions(k)' = Executions(k)
    <3>1. \A r \in Req, i \in 1..MaxTries : i <= tries[r] => clock'[r] = clock[r]
      BY <1>1, LimiterAssumption DEF TypeOK
    <3> QED BY <3>1 DEF Executions, KeyOf
  <2>2. \A r \in Req : answer'[r] = "refused" => answer[r] = "refused" /\ KeyOf(r)' = KeyOf(r)
    BY DEF KeyOf
  <2> QED BY <1>1, <2>1, <2>2 DEF Justified, Key
<1> QED BY <1>2, <1>3, <1>4

LEMMA ReadClockStep == ASSUME IInv, NEW r \in Req, ReadClock(r) PROVE IInv'
<1>0. TypeOK /\ Past
  BY DEF IInv
<1>1. PICK d \in Offsets : now + d \in 0..MaxTime /\ clock' = [clock EXCEPT ![r] = now + d]
  BY DEF ReadClock
<1>2. UNCHANGED <<now, tries, answer, log, ran, lost>> /\ pc[r] = "idle"
      /\ pc' = [pc EXCEPT ![r] = "multi"]
  BY DEF ReadClock
<1>3. TypeOK'
  BY <1>0, <1>1, <1>2 DEF TypeOK
<1>4. Past'
  BY <1>0, <1>2 DEF Past, TypeOK
<1>5. \A q \in Req : clock'[q] = clock[q] \/ (answer[q] = "none" /\ tries[q] = 0)
  BY <1>0, <1>1, <1>2 DEF Past, TypeOK
<1>6. now <= now'
  BY <1>0, <1>2, Moments DEF TypeOK
<1> QED BY <1>2, <1>3, <1>4, <1>5, <1>6, RedisAlone DEF IInv

LEMMA FailOpenStep == ASSUME IInv, NEW r \in Req, FailOpen(r) PROVE IInv'
<1>0. TypeOK /\ Past
  BY DEF IInv
<1>1. UNCHANGED <<now, clock, tries, log, ran, lost>> /\ pc[r] = "multi"
      /\ pc' = [pc EXCEPT ![r] = "done"] /\ answer' = [answer EXCEPT ![r] = "open"]
  BY DEF FailOpen, Finish
<1>2. TypeOK'
  BY <1>0, <1>1 DEF TypeOK
<1>3. Past'
  BY <1>0, <1>1 DEF Past, TypeOK
<1>4. now <= now' /\ \A q \in Req : answer'[q] = answer[q] \/ answer'[q] \notin {"allowed", "refused"}
  BY <1>0, <1>1, Moments DEF TypeOK
<1> QED BY <1>1, <1>2, <1>3, <1>4, RedisAlone DEF IInv

LEMMA TickStep == ASSUME IInv, Tick PROVE IInv'
<1>0. TypeOK /\ Past
  BY DEF IInv
<1>1. PICK t \in Times : now < t /\ now' = t
  BY DEF Tick
<1>2. UNCHANGED <<pc, clock, tries, answer, log, ran, lost>>
  BY DEF Tick
<1>3. now \in Nat /\ t \in Nat /\ \A q \in Req : ran[q] \in Nat
  BY <1>0, Moments DEF TypeOK
<1>4. now' \in Nat /\ now <= now'
  BY <1>1, <1>3
<1>5. TypeOK'
  BY <1>0, <1>1, <1>2 DEF TypeOK
<1>6. Past'
  BY <1>0, <1>1, <1>2, <1>3 DEF Past
<1> QED BY <1>2, <1>4, <1>5, <1>6, RedisAlone DEF IInv

LEMMA Prefix ==
  ASSUME NEW s \in Seq(Nat), NEW n \in Nat, n <= Len(s)
  PROVE  LET p == SubSeq(s, 1, Len(s) - n)
         IN  p \in Seq(Nat) /\ Len(p) = Len(s) - n /\ \A i \in 1..Len(p) : p[i] = s[i]
<1>1. Len(s) - n \in Nat /\ Len(s) - n <= Len(s)
  OBVIOUS
<1> QED BY <1>1

LEMMA RestartStep == ASSUME IInv, RestartRedis PROVE IInv'
<1>0. TypeOK /\ Past /\ Expiries /\ Counting /\ Justified
  BY DEF IInv
<1>1. PICK h \in Key : \E m \in 1..Len(log[h]) :
        /\ log' = [log EXCEPT ![h] = SubSeq(@, 1, Len(@) - m)]
        /\ lost' = [lost EXCEPT ![h] = @ + m]
  BY DEF RestartRedis
<1>2. PICK n \in 1..Len(log[h]) :
        /\ log' = [log EXCEPT ![h] = SubSeq(@, 1, Len(@) - n)]
        /\ lost' = [lost EXCEPT ![h] = @ + n]
  BY <1>1
<1>3. log[h] \in Seq(Nat) /\ Len(log[h]) \in Nat /\ n \in Nat /\ n <= Len(log[h])
  BY <1>0, <1>2 DEF TypeOK
<1> DEFINE kept == SubSeq(log[h], 1, Len(log[h]) - n)
<1>4. kept \in Seq(Nat) /\ Len(kept) = Len(log[h]) - n
      /\ \A i \in 1..Len(kept) : kept[i] = log[h][i]
  BY <1>3, Prefix
<1> HIDE DEF kept
<1>5. log' = [log EXCEPT ![h] = kept]
  BY <1>2 DEF kept
<1>6. log'[h] = kept /\ lost'[h] = lost[h] + n
      /\ \A k \in Key \ {h} : log'[k] = log[k] /\ lost'[k] = lost[k]
  BY <1>0, <1>2, <1>5 DEF TypeOK
<1>7. UNCHANGED <<now, pc, clock, tries, answer, ran>>
  BY DEF RestartRedis
<1>8. TypeOK'
  <2>1. log' \in [Key -> Seq(Nat)] /\ lost' \in [Key -> Nat]
    <3>1. log' \in [Key -> Seq(Nat)]
      BY <1>0, <1>4, <1>5 DEF TypeOK
    <3>2. lost' \in [Key -> Nat]
      BY <1>0, <1>2, <1>3 DEF TypeOK
    <3> QED BY <3>1, <3>2
  <2> QED BY <1>0, <1>7, <2>1 DEF TypeOK
<1>9. Past'
  BY <1>0, <1>7 DEF Past
<1>10. ASSUME NEW k \in Key
      PROVE  \E n0 \in Nat :
               /\ n0 <= Len(log[k]) /\ Len(log'[k]) = Len(log[k]) - n0 /\ lost'[k] = lost[k] + n0
               /\ Len(log[k]) \in Nat /\ lost[k] \in Nat
               /\ \A i \in 1..Len(log'[k]) : i \in 1..Len(log[k]) /\ log'[k][i] = log[k][i]
  <2>0. Len(log[k]) \in Nat /\ lost[k] \in Nat
    BY <1>0 DEF TypeOK
  <2>1. CASE k = h
    <3>1. Len(log'[k]) = Len(log[k]) - n /\ lost'[k] = lost[k] + n /\ n <= Len(log[k])
      BY <1>3, <1>4, <1>6, <2>1
    <3>2. \A i \in 1..Len(log'[k]) : i \in 1..Len(log[k]) /\ log'[k][i] = log[k][i]
      <4> SUFFICES ASSUME NEW i \in 1..Len(log'[k]) PROVE i \in 1..Len(log[k]) /\ log'[k][i] = log[k][i]
        OBVIOUS
      <4>1. i \in 1..Len(kept) /\ log'[k][i] = kept[i]
        BY <1>6, <2>1
      <4>2. kept[i] = log[k][i] /\ i \in 1..Len(log[k])
        BY <1>3, <1>4, <2>1, <4>1
      <4> QED BY <4>1, <4>2
    <3> QED BY <1>3, <2>0, <3>1, <3>2
  <2>2. CASE k # h
    <3>1. log'[k] = log[k] /\ lost'[k] = lost[k]
      BY <1>6, <2>2
    <3>2. 0 \in Nat /\ 0 <= Len(log[k]) /\ Len(log[k]) = Len(log[k]) - 0 /\ lost[k] = lost[k] + 0
      BY <2>0
    <3> QED BY <2>0, <3>1, <3>2
  <2> QED BY <2>1, <2>2
<1>11. Expiries'
  <2> SUFFICES ASSUME NEW k \in Key, NEW i \in 1..Len(log'[k]), NEW j \in 1..Len(log'[k])
               PROVE  log'[k][j] <= now + Life /\ (i <= j => log'[k][i] <= log'[k][j])
    BY <1>7 DEF Expiries, Key, Life
  <2>1. /\ i \in 1..Len(log[k]) /\ log'[k][i] = log[k][i]
        /\ j \in 1..Len(log[k]) /\ log'[k][j] = log[k][j]
    BY <1>10
  <2> QED BY <1>0, <2>1 DEF Expiries
<1>12. Counting'
  <2> SUFFICES ASSUME NEW k \in Key, NEW t \in Times
               PROVE  /\ Cardinality(AllowedIn(k, t)) <= Limit + lost'[k]
                      /\ now < t + Life =>
                           \A j \in 0..Len(log'[k]) :
                             (\A i \in 1..j : log'[k][i] < t + Life) =>
                               Cardinality(AllowedIn(k, t)) <= (Len(log'[k]) - j) + lost'[k]
    <3>1. \A k \in Key, t \in Times : AllowedIn(k, t)' = AllowedIn(k, t)
      BY <1>7 DEF AllowedIn, KeyOf, Life
    <3> QED BY <1>7, <3>1 DEF Counting, Key, Life, Before
  <2>1. PICK m \in Nat :
          /\ m <= Len(log[k]) /\ Len(log'[k]) = Len(log[k]) - m /\ lost'[k] = lost[k] + m
          /\ Len(log[k]) \in Nat /\ lost[k] \in Nat
          /\ \A i \in 1..Len(log'[k]) : i \in 1..Len(log[k]) /\ log'[k][i] = log[k][i]
    BY <1>10
  <2> DEFINE a == Cardinality(AllowedIn(k, t))
  <2>2. a \in Nat /\ Limit \in Nat
    BY AllowedIsFinite, Moments
  <2>3. /\ a <= Limit + lost[k]
        /\ now < t + Life => \A j \in 0..Len(log[k]) : Before(k, t, j) => a <= (Len(log[k]) - j) + lost[k]
    BY <1>0 DEF Counting
  <2> HIDE DEF a
  <2>4. a <= Limit + lost'[k]
    BY <2>1, <2>2, <2>3
  <2>5. ASSUME now < t + Life, NEW j \in 0..Len(log'[k]), \A i \in 1..j : log'[k][i] < t + Life
        PROVE  a <= (Len(log'[k]) - j) + lost'[k]
    <3>1. j \in 0..Len(log[k])
      BY <2>1, <2>5
    <3>2. Before(k, t, j)
      <4> SUFFICES ASSUME NEW i \in 1..j PROVE log[k][i] < t + Life
        BY DEF Before
      <4>1. i \in 1..Len(log'[k])
        BY <2>1, <2>5
      <4> QED BY <2>1, <2>5, <4>1
    <3>3. a <= (Len(log[k]) - j) + lost[k]
      BY <2>3, <2>5, <3>1, <3>2
    <3> QED BY <2>1, <2>2, <2>5, <3>3
  <2> QED BY <2>4, <2>5 DEF a
<1>13. Justified'
  <2>1. \A k : Executions(k)' = Executions(k)
    BY <1>7 DEF Executions, KeyOf
  <2>2. ASSUME NEW k \in Key PROVE Len(log'[k]) <= Cardinality(Executions(k))
    <3>1. Len(log[k]) <= Cardinality(Executions(k)) /\ Cardinality(Executions(k)) \in Nat
      BY <1>0, ExecutionsAreFinite DEF Justified
    <3>2. Len(log[k]) \in Nat /\ Len(log'[k]) \in Nat /\ Len(log'[k]) <= Len(log[k])
      BY <1>10
    <3> QED BY <3>1, <3>2
  <2>3. \A r \in Req : KeyOf(r)' = KeyOf(r)
    BY <1>7 DEF KeyOf
  <2> QED BY <1>0, <1>7, <2>1, <2>2, <2>3 DEF Justified, Key
<1> QED BY <1>8, <1>9, <1>11, <1>12, <1>13 DEF IInv

LEMMA InitEstablishes == Init => IInv
<1> SUFFICES ASSUME Init PROVE IInv
  OBVIOUS
<1> USE DEF Init
<1>1. TypeOK
  BY LimiterAssumption DEF TypeOK
<1>2. Past /\ Expiries
  BY LimiterAssumption DEF Past, Expiries
<1>3. Counting
  <2> SUFFICES ASSUME NEW k \in Key, NEW t \in Times
               PROVE  /\ Cardinality(AllowedIn(k, t)) <= Limit + lost[k]
                      /\ \A j \in 0..Len(log[k]) :
                           Cardinality(AllowedIn(k, t)) <= (Len(log[k]) - j) + lost[k]
    BY DEF Counting
  <2>1. AllowedIn(k, t) = {} /\ Len(log[k]) = 0 /\ lost[k] = 0
    BY DEF AllowedIn
  <2> QED BY <2>1, FS_EmptySet, LimiterAssumption
<1>4. Justified
  <2>1. \A k \in Key : Len(log[k]) = 0 /\ Cardinality(Executions(k)) \in Nat
    BY ExecutionsAreFinite
  <2> QED BY <2>1 DEF Justified
<1> QED BY <1>1, <1>2, <1>3, <1>4 DEF IInv

\* The strengthened invariant holds in every reachable state.
THEOREM Invariance == Spec => []IInv
<1>1. IInv /\ [Next]_vars => IInv'
  <2> SUFFICES ASSUME IInv, [Next]_vars PROVE IInv'
    OBVIOUS
  <2>1. CASE UNCHANGED vars
    BY <2>1 DEF IInv, TypeOK, Past, Expiries, Counting, Before, Justified, AllowedIn,
                Executions, KeyOf, vars
  <2>2. CASE \E r \in Req : ReadClock(r) \/ Hit(r) \/ HitUnread(r) \/ FailOpen(r)
    BY <2>2, ReadClockStep, HitStep, FailOpenStep
  <2>3. CASE RestartRedis \/ Tick
    BY <2>3, RestartStep, TickStep
  <2> QED BY <2>1, <2>2, <2>3 DEF Next, Terminated
<1> QED BY <1>1, InitEstablishes, PTL DEF Spec

\* TypeOK, for all constants.
THEOREM TypeCorrect == Spec => []TypeOK
BY Invariance, PTL DEF IInv

\* All replicas together allow at most Limit requests of a window in any stretch of
\* Window + Second of Redis's time, and one more for each count a restart lost: no
\* clock and no delay of a call is assumed (cache.py:97-104).
THEOREM LimitHolds == Spec => []WindowLimit
<1>1. IInv => WindowLimit
  BY DEF IInv, Counting, WindowLimit
<1> QED BY <1>1, Invariance, PTL

\* A 429 is given only in a window in which Redis executed more than Limit MULTIs, of
\* more than Limit \div MaxTries requests.
THEOREM RefusalsJustified == Spec => []RefusedOnlyOverLimit
<1>1. IInv => RefusedOnlyOverLimit
  <2> SUFFICES ASSUME IInv, NEW r \in Req, answer[r] = "refused", NEW k, k = KeyOf(r)
               PROVE  /\ Limit < Cardinality(Executions(k))
                      /\ Limit < MaxTries * Cardinality(Reached(k))
    BY DEF RefusedOnlyOverLimit
  <2>1. Limit < Cardinality(Executions(k))
    BY DEF IInv, Justified
  <2>2. Reached(k) \in SUBSET Req
    BY DEF Reached
  <2>3. IsFiniteSet(Reached(k)) /\ Cardinality(Reached(k)) \in Nat
    BY <2>2, LimiterAssumption, FS_Subset, FS_CardinalityType
  <2>4. IsFiniteSet(1..MaxTries) /\ Cardinality(1..MaxTries) = MaxTries
    <3>1. 1 \in Int /\ MaxTries \in Int /\ ~(1 > MaxTries) /\ MaxTries - 1 + 1 = MaxTries
      BY LimiterAssumption
    <3> QED BY <3>1, FS_Interval
  <2>5. /\ IsFiniteSet(Reached(k) \X (1..MaxTries))
        /\ Cardinality(Reached(k) \X (1..MaxTries)) = Cardinality(Reached(k)) * MaxTries
    BY <2>3, <2>4, FS_Product
  <2>6. Executions(k) \in SUBSET (Reached(k) \X (1..MaxTries))
    <3> SUFFICES ASSUME NEW x \in Executions(k) PROVE x \in Reached(k) \X (1..MaxTries)
      OBVIOUS
    <3>1. /\ x = <<x[1], x[2]>> /\ x[1] \in Req /\ x[2] \in 1..MaxTries
          /\ KeyOf(x[1]) = k /\ x[2] <= tries[x[1]]
      BY DEF Executions
    <3>2. tries[x[1]] \in Nat
      BY <3>1, LimiterAssumption DEF IInv, TypeOK
    <3>3. tries[x[1]] > 0
      BY <3>1, <3>2, LimiterAssumption
    <3> QED BY <3>1, <3>3 DEF Reached
  <2>7. Cardinality(Executions(k)) <= Cardinality(Reached(k)) * MaxTries
    BY <2>5, <2>6, FS_Subset
  <2> DEFINE e == Cardinality(Executions(k))
             c == Cardinality(Reached(k))
  <2>8. e \in Nat /\ c \in Nat /\ MaxTries \in Nat /\ Limit \in Nat
    BY <2>3, ExecutionsAreFinite, LimiterAssumption
  <2> HIDE DEF e, c
  <2>9. Limit < e /\ e <= c * MaxTries
    BY <2>1, <2>7 DEF e, c
  <2>10. c * MaxTries = MaxTries * c /\ c * MaxTries \in Nat
    BY <2>8
  <2>11. Limit < MaxTries * c
    BY <2>8, <2>9, <2>10
  <2> QED BY <2>1, <2>11 DEF c
<1> QED BY <1>1, Invariance, PTL

LEMMA TwoWindows ==
  ASSUME NEW t \in Nat, NEW w \in Nat \ {0}, NEW c \in t..(t + w - 1)
  PROVE  c \div w \in {t \div w, t \div w + 1}
<1> DEFINE a == t \div w
           b == c \div w
<1>1. a \in Nat /\ a * w <= t /\ t < a * w + w
  BY Division
<1>2. c \in Nat /\ b \in Nat /\ b * w <= c /\ c < b * w + w
  BY Division
<1>3. a <= b
  BY <1>2, DivisionMonotone
<1> HIDE DEF a, b
<1>4. b * w < (a + 2) * w
  BY <1>1, <1>2
<1>5. b < a + 2
  BY <1>1, <1>2, <1>4
<1> QED BY <1>1, <1>2, <1>3, <1>5 DEF a, b

\* Of requests whose clocks are within one window, and whose MULTIs ran within
\* Window + Second, at most twice Limit are allowed, and one more for each count lost.
THEOREM TwiceTheLimit == Spec => []AtMostTwiceTheLimit
<1>1. IInv /\ WindowLimit => AtMostTwiceTheLimit
  <2> SUFFICES ASSUME IInv, WindowLimit, NEW r \in Req, NEW u \in Times, NEW t, t = clock[r]
               PROVE  Cardinality(AllowedAround(t, u)) <=
                        2 * Limit + LostIn(t \div Window) + LostIn(t \div Window + 1)
    BY DEF AtMostTwiceTheLimit
  <2> DEFINE k == t \div Window
             m(j) == Cardinality(AllowedIn(j, u))
  <2>1. t \in Nat /\ Window \in Nat \ {0} /\ Limit \in Nat
    BY LimiterAssumption DEF IInv, TypeOK
  <2>2. AllowedAround(t, u) \in SUBSET (AllowedIn(k, u) \cup AllowedIn(k + 1, u))
    BY <2>1, TwoWindows DEF AllowedAround, AllowedIn, KeyOf
  <2>3. ASSUME NEW j
        PROVE  /\ IsFiniteSet(AllowedIn(j, u)) /\ m(j) \in Nat
               /\ LostIn(j) \in Nat /\ m(j) <= Limit + LostIn(j)
    <3>1. IsFiniteSet(AllowedIn(j, u)) /\ m(j) \in Nat
      BY AllowedIsFinite
    <3>2. CASE j \in Key
      <4>1. LostIn(j) = lost[j] /\ lost[j] \in Nat
        BY <3>2 DEF LostIn, IInv, TypeOK
      <4> QED BY <3>1, <3>2, <4>1 DEF WindowLimit
    <3>3. CASE j \notin Key
      <4>1. AllowedIn(j, u) = {}
        BY <3>3, KeyIsKey DEF AllowedIn, IInv
      <4>2. LostIn(j) = 0
        BY <3>3 DEF LostIn
      <4> QED BY <2>1, <3>1, <4>1, <4>2, FS_EmptySet
    <3> QED BY <3>2, <3>3
  <2> HIDE DEF k
  <2>4. /\ IsFiniteSet(AllowedIn(k, u) \cup AllowedIn(k + 1, u))
        /\ Cardinality(AllowedIn(k, u) \cup AllowedIn(k + 1, u)) =
             m(k) + m(k + 1) - Cardinality(AllowedIn(k, u) \cap AllowedIn(k + 1, u))
    BY <2>3, FS_Union
  <2>5. Cardinality(AllowedIn(k, u) \cap AllowedIn(k + 1, u)) \in Nat
    <3>1. AllowedIn(k, u) \cap AllowedIn(k + 1, u) \in SUBSET AllowedIn(k, u)
      OBVIOUS
    <3> QED BY <2>3, <3>1, FS_Subset, FS_CardinalityType
  <2>6. Cardinality(AllowedAround(t, u)) <= Cardinality(AllowedIn(k, u) \cup AllowedIn(k + 1, u))
        /\ Cardinality(AllowedAround(t, u)) \in Nat
    BY <2>2, <2>4, FS_Subset, FS_CardinalityType
  <2>7. /\ m(k) \in Nat /\ m(k + 1) \in Nat /\ LostIn(k) \in Nat /\ LostIn(k + 1) \in Nat
        /\ m(k) <= Limit + LostIn(k) /\ m(k + 1) <= Limit + LostIn(k + 1)
    BY <2>3
  <2> HIDE DEF m
  <2>8. Cardinality(AllowedAround(t, u)) <= 2 * Limit + LostIn(k) + LostIn(k + 1)
    BY <2>1, <2>4, <2>5, <2>6, <2>7
  <2> QED BY <2>8 DEF k
<1> QED BY <1>1, Invariance, LimitHolds, PTL

----------------------------------------------------------------------------
LEMMA WindowOf ==
  ASSUME TypeOK, NEW r \in Req
  PROVE  /\ clock[r] \in Nat /\ KeyOf(r) \in Nat /\ Start(KeyOf(r)) \in Nat
         /\ Second \in Nat /\ Window \in Nat
<1>1. clock[r] \in 0..MaxTime /\ clock[r] \in Nat
  BY DEF TypeOK
<1>2. KeyOf(r) \in Key /\ Start(KeyOf(r)) \in Nat
  BY <1>1, KeyOfClock DEF KeyOf
<1> QED BY <1>1, <1>2, LimiterAssumption DEF Key

\* What is added before the division.
LEMMA Rounding ==
  /\ (999 * Second) \div 1000 \in Nat /\ (999 * Second) \div 1000 < Second
  /\ Millisecond \in Nat \ {0}
  /\ Second <= (999 * Second) \div 1000 + Millisecond
BY LimiterAssumption DEF Millisecond

\* Retry-After lasts to the end of the window, but for less than a millisecond, and
\* less than a second longer.
LEMMA RetryAfterBounds ==
  ASSUME TypeOK, NEW r \in Req
  PROVE  /\ RetryAfter(r) \in Nat
         /\ Start(KeyOf(r)) + Window < clock[r] + Second * RetryAfter(r) + Millisecond
         /\ RetryAfter(r) * Second < Window + Second
<1> DEFINE h == (999 * Second) \div 1000
           x == Start(KeyOf(r)) + Window - clock[r]
           s == (x + h) \div Second
<1>1. /\ Second \in Nat \ {0} /\ Window \in Nat \ {0} /\ clock[r] \in Nat
      /\ h \in Nat /\ h < Second /\ Millisecond \in Nat \ {0} /\ Second <= h + Millisecond
  BY Rounding, LimiterAssumption DEF TypeOK
<1>2. x \in Nat /\ 0 < x /\ x <= Window /\ Start(KeyOf(r)) \in Nat
  <2>1. clock[r] \in 0..MaxTime
    BY DEF TypeOK
  <2>2. /\ Start(KeyOf(r)) \in Nat
        /\ Start(KeyOf(r)) <= clock[r] /\ clock[r] < Start(KeyOf(r)) + Window
    BY <2>1, KeyOfClock DEF KeyOf
  <2> QED BY <1>1, <2>2
<1>3. RetryAfter(r) = IF s < 1 THEN 1 ELSE s
  BY DEF RetryAfter
<1> HIDE DEF h
<1>4. Start(KeyOf(r)) + Window = clock[r] + x
  BY <1>1, <1>2
<1> HIDE DEF x
<1>5. s \in Nat /\ s * Second <= x + h /\ x + h < s * Second + Second
  <2>1. x + h \in Nat
    BY <1>1, <1>2
  <2> QED BY <1>1, <2>1, Division
<1> HIDE DEF s
<1>6. s * Second \in Nat /\ s * Second < Window + Second /\ x < s * Second + Millisecond
  BY <1>1, <1>2, <1>5
<1>7. CASE s < 1
  <2>1. s = 0 /\ RetryAfter(r) = 1
    BY <1>3, <1>5, <1>7
  <2>2. x < Second
    BY <1>1, <1>2, <1>5, <2>1
  <2>3. Second * 1 = Second /\ 1 * Second = Second
    BY <1>1
  <2> QED BY <1>1, <1>2, <1>4, <2>1, <2>2, <2>3
<1>8. CASE ~(s < 1)
  <2>1. RetryAfter(r) = s /\ Second * s = s * Second
    BY <1>1, <1>3, <1>5, <1>8
  <2> QED BY <1>1, <1>2, <1>4, <1>5, <1>6, <2>1
<1> QED BY <1>7, <1>8

\* A clock that shows the end of a window, or later, is in a later one.
LEMMA LaterWindow ==
  ASSUME NEW k \in Nat, NEW t \in Nat, Start(k) + Window <= t
  PROVE  k < t \div Window
<1> DEFINE j == t \div Window
<1>1. Window \in Nat \ {0} /\ k * Window + Window <= t
  BY LimiterAssumption DEF Start
<1>2. j \in Nat /\ t < j * Window + Window
  BY <1>1, Division
<1> HIDE DEF j
<1>3. k * Window < j * Window
  BY <1>1, <1>2
<1>4. k < j
  BY <1>1, <1>2, <1>3
<1> QED BY <1>4 DEF j

\* With clocks as fine as they may be, a millisecond more than Retry-After is always
\* enough, and Retry-After is never a whole second too long (cache.py:108).
THEOREM WaitingIsAlmostEnough == Spec => []AlmostEnough
<1>1. TypeOK => AlmostEnough
  <2> SUFFICES ASSUME TypeOK, NEW r \in Req
               PROVE  /\ (clock[r] + Second * RetryAfter(r) + Millisecond) \div Window > KeyOf(r)
                      /\ RetryAfter(r) * Second < Window + Second
    BY DEF AlmostEnough
  <2> DEFINE w == clock[r] + Second * RetryAfter(r) + Millisecond
  <2>1. /\ clock[r] \in Nat /\ KeyOf(r) \in Nat /\ Start(KeyOf(r)) \in Nat
        /\ Second \in Nat /\ Window \in Nat /\ Millisecond \in Nat
    BY WindowOf, Rounding
  <2>2. /\ RetryAfter(r) \in Nat /\ RetryAfter(r) * Second < Window + Second
        /\ Start(KeyOf(r)) + Window < w
    BY RetryAfterBounds
  <2>3. w \in Nat
    BY <2>1, <2>2
  <2> HIDE DEF w
  <2>4. KeyOf(r) < w \div Window
    BY <2>1, <2>2, <2>3, LaterWindow
  <2>5. w \div Window \in Nat
    BY <2>3, Division, LimiterAssumption
  <2> QED BY <2>1, <2>2, <2>4, <2>5 DEF w
<1> QED BY <1>1, TypeCorrect, PTL
=============================================================================
