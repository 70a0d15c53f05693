--------------------------- MODULE DashboardProofs ---------------------------
(***************************************************************************)
(* What the dashboard shows, for every number of complaints, page size and   *)
(* number of requests, in whatever order their answers come.                 *)
(***************************************************************************)
EXTENDS Dashboard, FunctionTheorems, FiniteSetTheorems, SequenceTheorems, TLAPS

\* The answer to a change is the row that was changed.
ChangeInv == \A q \in out : q.kind = "change" /\ q.items # <<>> => q.items[1].id = q.id

\* The loads under way are none of those whose answers have been shown.
NumberInv ==
  /\ latest <= sent
  /\ \A c \in Complaint : mine[c].load <= sent /\ mine[c].sent <= sent
  /\ data # None => data.n <= latest
  /\ \A q \in out : q.kind = "load" =>
       /\ q.n # latest /\ (data # None => q.n # data.n)
       /\ \A c \in Complaint : q.n # mine[c].load

\* The newest load is of what is selected. It has failed, or it is still under way,
\* or it has been shown and only older answers have come since.
NewestUnderWay ==
  \E q \in out : /\ q.kind = "load" /\ q.query = [filter |-> filter, page |-> page]
                /\ latest < q.n /\ \A r \in out : r.kind = "load" => r.n <= q.n
NewestShown ==
  /\ data # None /\ (data.n = latest => data.query = [filter |-> filter, page |-> page])
  /\ \A r \in out : r.kind = "load" => r.n < latest
SelectedInv == error \/ NewestUnderWay \/ NewestShown

\* A row shows a status the complaint has had.
TrueRow(row) == row.version \in 1..Len(history[row.id]) /\ history[row.id][row.version] = row.status

TrueInv ==
  /\ \A q \in out : \A i \in DOMAIN q.items : TrueRow(q.items[i])
  /\ data # None => \A i \in DOMAIN data.items : TrueRow(data.items[i])

\* A row that a load brings, sent when the page had been told of a change, is no
\* older than the change; nor is one that was on the screen then.
NewRow(row, n) == row.version < mine[row.id].version => n <= mine[row.id].sent

MineInv ==
  /\ \A c \in Complaint : mine[c].version <= Len(history[c])
  /\ \A q \in out : q.kind = "load" => \A i \in DOMAIN q.items : NewRow(q.items[i], q.n)
  /\ data # None => \A i \in DOMAIN data.items :
       /\ NewRow(data.items[i], data.n)
       /\ data.items[i].version < mine[data.items[i].id].version =>
            data.n # mine[data.items[i].id].load

IInv == TypeOK /\ ChangeInv /\ NumberInv /\ SelectedInv /\ TrueInv /\ MineInv /\ ButtonsComeBack

----------------------------------------------------------------------------
LEMMA Constants ==
  /\ N \in Nat \ {0} /\ PAGE_SIZE \in Nat \ {0} /\ MaxRequests \in Nat \ {0} /\ MaxChanges \in Nat
  /\ None \notin Complaint /\ None \notin Status /\ None \notin Table
  /\ None \in Filters /\ Filters \subseteq Status \cup {None}
BY DashboardAssumption, NoneAssumption DEF Complaint

LEMMA StatusTypes == "open" \in Status
BY DEF Status

\* There are no more complaints than N.
LEMMA CountBound ==
  ASSUME NEW S \in SUBSET Complaint
  PROVE  IsFiniteSet(S) /\ Cardinality(S) \in 0..N
<1>1. IsFiniteSet(Complaint) /\ Cardinality(Complaint) = N
  BY FS_Interval, Constants DEF Complaint
<1>2. IsFiniteSet(S) /\ Cardinality(S) <= N
  BY <1>1, FS_Subset
<1> QED BY <1>2, FS_CardinalityType, Constants

LEMMA StoredType ==
  ASSUME TypeOK
  PROVE  /\ Stored \subseteq Complaint
         /\ \A c \in Stored : /\ Len(history[c]) \in Nat \ {0}
                              /\ StatusOf(c) \in Status
                              /\ StatusOf(c) = history[c][Len(history[c])]
                              /\ Row(c) \in Rows
                              /\ Row(c).version = Len(history[c]) /\ Row(c).id = c
                              /\ Row(c).status = StatusOf(c)
<1> SUFFICES ASSUME NEW c \in Stored
             PROVE  /\ Len(history[c]) \in Nat \ {0}
                    /\ StatusOf(c) \in Status
                    /\ StatusOf(c) = history[c][Len(history[c])]
                    /\ Row(c) \in Rows
                    /\ Row(c).version = Len(history[c]) /\ Row(c).id = c
                    /\ Row(c).status = StatusOf(c)
  BY DEF Stored
<1>1. c \in Complaint /\ history[c] \in Seq(Status) /\ history[c] # <<>>
  BY DEF Stored, TypeOK
<1>2. Len(history[c]) \in Nat \ {0}
  BY <1>1, EmptySeq
<1>3. StatusOf(c) \in Status
  BY <1>1, <1>2, ElementOfSeq DEF StatusOf
<1> QED BY <1>1, <1>2, <1>3 DEF StatusOf, Row, Rows

\* The rows of an answer are those of complaints that are stored.
LEMMA PageRows ==
  ASSUME TypeOK, NEW S \in SUBSET Stored, NEW s \in Listings(S), NEW p \in Nat \ {0}
  PROVE  /\ PageOf(s, p) \in Seq(Rows) /\ Len(PageOf(s, p)) <= PAGE_SIZE
         /\ \A i \in DOMAIN PageOf(s, p) : \E c \in Stored : PageOf(s, p)[i] = Row(c)
<1> DEFINE offset == (p - 1) * PAGE_SIZE
           last == IF offset + PAGE_SIZE < Len(s) THEN offset + PAGE_SIZE ELSE Len(s)
           items == SubSeq(s, offset + 1, last)
           rows == [i \in DOMAIN items |-> Row(items[i])]
<1> USE Constants
<1>1. S \in SUBSET Complaint /\ Cardinality(S) \in Nat
  BY StoredType, CountBound
<1>2. s \in [1..Cardinality(S) -> S] /\ s \in Seq(S) /\ Len(s) \in Nat /\ Len(s) = Cardinality(S)
  BY <1>1 DEF Listings
<1>3. p - 1 \in Nat
  OBVIOUS
<1>4. offset \in Nat
  BY <1>3
<1> HIDE DEF offset
<1>5. last \in Int /\ last <= Len(s) /\ last - (offset + 1) + 1 <= PAGE_SIZE
  BY <1>2, <1>4
<1> HIDE DEF last
<1>6. \A i \in (offset + 1)..last : s[i] \in S
  BY <1>2, <1>4, <1>5
<1>7. /\ items \in Seq(S)
      /\ Len(items) = IF offset + 1 <= last THEN last - (offset + 1) + 1 ELSE 0
  BY <1>4, <1>5, <1>6, SubSeqProperties
<1>8. Len(items) \in Nat /\ Len(items) <= PAGE_SIZE /\ DOMAIN items = 1..Len(items)
  BY <1>4, <1>5, <1>7, LenProperties
<1> HIDE DEF items
<1>9. \A i \in 1..Len(items) : items[i] \in Stored /\ Row(items[i]) \in Rows
  BY <1>7, ElementOfSeq, StoredType
<1>10. rows \in [1..Len(items) -> Rows] /\ DOMAIN rows = 1..Len(items)
  BY <1>8, <1>9
<1>11. rows \in Seq(Rows) /\ Len(rows) = Len(items)
  BY <1>8, <1>10
<1>12. \A i \in DOMAIN rows : \E c \in Stored : rows[i] = Row(c)
  BY <1>9, <1>10
<1>13. PageOf(s, p) = rows
  BY DEF PageOf, rows, items, last, offset
<1> HIDE DEF rows
<1> QED BY <1>8, <1>11, <1>12, <1>13

----------------------------------------------------------------------------
\* What is under way keeps its type.
OutType ==
  /\ out \in SUBSET (Load \cup Change)
  /\ \A q \in out : q.n <= sent /\ Len(q.items) <= PAGE_SIZE
  /\ \A q, r \in out : q.n = r.n => q = r

\* The histories only grow.
Grows ==
  /\ history' \in [Complaint -> Seq(Status)]
  /\ \A c \in Complaint :
       /\ Len(history[c]) <= Len(history'[c])
       /\ \A v \in 1..Len(history[c]) : history'[c][v] = history[c][v]

LEMMA ItemTypes ==
  ASSUME TypeOK
  PROVE  /\ \A q \in out : q.items \in Seq(Rows) /\ q.kind \in {"load", "change"} /\ q.n \in Nat \ {0}
         /\ \A q \in out : q.kind = "load" => q \in Load /\ q.query \in Query
         /\ \A q \in out : q.kind = "change" => q \in Change /\ q.id \in Complaint
         /\ \A q \in out : \A i \in DOMAIN q.items : q.items[i] \in Rows
         /\ data # None => data \in Table /\ data.items \in Seq(Rows) /\ data.n \in Nat
                           /\ \A i \in DOMAIN data.items : data.items[i] \in Rows
<1>1. \A q \in out : q \in Load \/ q \in Change
  BY DEF TypeOK
<1>2. \A q \in Load : q.items \in Seq(Rows) /\ q.kind = "load" /\ q.n \in Nat \ {0} /\ q.query \in Query
  BY DEF Load
<1>3. \A q \in Change : q.items \in Seq(Rows) /\ q.kind = "change" /\ q.n \in Nat \ {0} /\ q.id \in Complaint
  BY DEF Change
<1>4. data # None => data \in Table /\ data.items \in Seq(Rows) /\ data.n \in Nat
  BY DEF TypeOK, Table
<1>5. \A s \in Seq(Rows) : \A i \in DOMAIN s : s[i] \in Rows
  BY LenProperties, ElementOfSeq
<1>6. \A q \in out : q.items \in Seq(Rows) /\ q.kind \in {"load", "change"} /\ q.n \in Nat \ {0}
  BY <1>1, <1>2, <1>3
<1>7. \A q \in out : q.kind = "load" => q \in Load /\ q.query \in Query
  BY <1>1, <1>2, <1>3
<1>8. \A q \in out : q.kind = "change" => q \in Change /\ q.id \in Complaint
  BY <1>1, <1>2, <1>3
<1> QED BY <1>4, <1>5, <1>6, <1>7, <1>8

LEMMA StillTrue ==
  ASSUME TypeOK, Grows, NEW row \in Rows, TrueRow(row)
  PROVE  TrueRow(row)'
<1>1. row.id \in Complaint /\ row.version \in 1..Len(history[row.id])
  BY DEF Rows, TrueRow
<1>2. Len(history[row.id]) \in Nat /\ Len(history'[row.id]) \in Nat
  <2>1. history[row.id] \in Seq(Status) /\ history'[row.id] \in Seq(Status)
    BY <1>1 DEF Grows, TypeOK
  <2> QED BY <2>1
<1>3. Len(history[row.id]) <= Len(history'[row.id])
      /\ history'[row.id][row.version] = history[row.id][row.version]
  BY <1>1 DEF Grows
<1>4. row.version \in 1..Len(history'[row.id])
  BY <1>1, <1>2, <1>3
<1> QED BY <1>3, <1>4 DEF TrueRow

LEMMA SameHistory == ASSUME TypeOK, UNCHANGED history PROVE Grows
BY DEF TypeOK, Grows

\* A complaint is filed, or moved by somebody: its history is longer.
LEMMA AppendGrows ==
  ASSUME TypeOK, NEW c \in Complaint, NEW t \in Status,
         history' = [history EXCEPT ![c] = Append(history[c], t)]
  PROVE  Grows /\ Len(history'[c]) = Len(history[c]) + 1 /\ history'[c][Len(history[c]) + 1] = t
<1>1. history[c] \in Seq(Status) /\ history'[c] = Append(history[c], t)
  BY DEF TypeOK
<1>2. /\ Len(history[c]) \in Nat /\ Len(history'[c]) = Len(history[c]) + 1
      /\ \A v \in 1..Len(history[c]) : history'[c][v] = history[c][v]
      /\ history'[c][Len(history[c]) + 1] = t
  BY <1>1
<1>3. history' \in [Complaint -> Seq(Status)]
  BY <1>1 DEF TypeOK
<1>4. ASSUME NEW d \in Complaint
      PROVE  /\ Len(history[d]) <= Len(history'[d])
             /\ \A v \in 1..Len(history[d]) : history'[d][v] = history[d][v]
  <2>1. CASE d = c
    BY <2>1, <1>2
  <2>2. CASE d # c
    <3>1. history'[d] = history[d] /\ history[d] \in Seq(Status)
      BY <2>2 DEF TypeOK
    <3> QED BY <3>1
  <2> QED BY <2>1, <2>2
<1> QED BY <1>2, <1>3, <1>4 DEF Grows

\* The part of the invariant that is about the page, when the page does nothing.
LEMMA OthersStep ==
  ASSUME IInv, Grows, UNCHANGED <<created, filter, page, loading, error, busy, out, sent, shown>>
  PROVE  IInv'
<1> USE DEF IInv, shown
<1>1. TypeOK'
  BY DEF TypeOK, Grows
<1>2. ChangeInv' /\ NumberInv' /\ SelectedInv' /\ ButtonsComeBack'
  BY DEF ChangeInv, NumberInv, SelectedInv, NewestUnderWay, NewestShown, ButtonsComeBack
<1>3. TrueInv'
  BY ItemTypes, StillTrue DEF TrueInv
<1>4. MineInv'
  <2>1. \A c \in Complaint : mine[c].version <= Len(history'[c])
    <3> SUFFICES ASSUME NEW c \in Complaint PROVE mine[c].version <= Len(history'[c])
      OBVIOUS
    <3>1. mine[c].version \in Nat /\ Len(history[c]) \in Nat /\ Len(history'[c]) \in Nat
      BY DEF TypeOK, Grows
    <3> QED BY <3>1 DEF MineInv, Grows
  <2> QED BY <2>1 DEF MineInv, NewRow
<1> QED BY <1>1, <1>2, <1>3, <1>4

\* The server goes on with a request.
LEMMA Replaced ==
  ASSUME IInv, Grows, NEW q \in out, NEW p \in Load \cup Change,
         p.n = q.n, p.kind = q.kind, p.kind = "load" => p.query = q.query,
         Len(p.items) <= PAGE_SIZE,
         p.kind = "change" /\ p.items # <<>> => p.items[1].id = p.id,
         \A i \in DOMAIN p.items : TrueRow(p.items[i])',
         p.kind = "load" => \A i \in DOMAIN p.items : NewRow(p.items[i], p.n),
         out' = (out \ {q}) \cup {p},
         UNCHANGED <<created, filter, page, loading, error, busy, sent, shown>>
  PROVE  IInv'
<1> USE DEF IInv, shown
<1>1. OutType'
  BY DEF TypeOK, OutType
<1>2. TypeOK'
  BY <1>1 DEF TypeOK, Grows, OutType
<1>3. ChangeInv'
  BY DEF ChangeInv
<1>4. NumberInv' /\ ButtonsComeBack'
  BY DEF NumberInv, ButtonsComeBack
<1>5. SelectedInv'
  <2>1. CASE error
    BY <2>1 DEF SelectedInv
  <2>2. CASE NewestUnderWay
    <3>1. NewestUnderWay'
      BY <2>2 DEF NewestUnderWay
    <3> QED BY <3>1 DEF SelectedInv
  <2>3. CASE NewestShown
    <3>1. NewestShown'
      BY <2>3 DEF NewestShown
    <3> QED BY <3>1 DEF SelectedInv
  <2> QED BY <2>1, <2>2, <2>3 DEF SelectedInv
<1>6. TrueInv'
  <2>1. \A r \in out : \A i \in DOMAIN r.items : TrueRow(r.items[i])'
    BY ItemTypes, StillTrue DEF TrueInv
  <2>2. data # None => \A i \in DOMAIN data.items : TrueRow(data.items[i])'
    BY ItemTypes, StillTrue DEF TrueInv
  <2> QED BY <2>1, <2>2 DEF TrueInv
<1>7. MineInv'
  <2>1. \A c \in Complaint : mine[c].version <= Len(history'[c])
    <3> SUFFICES ASSUME NEW c \in Complaint PROVE mine[c].version <= Len(history'[c])
      OBVIOUS
    <3>1. mine[c].version \in Nat /\ Len(history[c]) \in Nat /\ Len(history'[c]) \in Nat
      <4>1. mine[c] \in [version : Nat, load : Nat, sent : Nat] /\ history[c] \in Seq(Status)
        BY DEF TypeOK
      <4>2. history'[c] \in Seq(Status)
        BY DEF Grows
      <4> QED BY <4>1, <4>2
    <3> QED BY <3>1 DEF MineInv, Grows
  <2> QED BY <2>1 DEF MineInv, NewRow
<1> QED BY <1>2, <1>3, <1>4, <1>5, <1>6, <1>7

\* COUNT and SELECT: a row is as new as anything this page was told.
LEMMA CountStep == ASSUME IInv, NEW q \in out, Count(q) PROVE IInv'
<1> USE DEF IInv
<1>1. q \in Load /\ q.kind = "load" /\ q.items \in Seq(Rows)
  BY ItemTypes DEF Count
<1>a. PICK total \in 0..N : total = Cardinality({c \in Stored : Matches(c, q.query.filter)})
  BY StoredType, CountBound
<1>2. PICK p : p = [q EXCEPT !.step = "counted", !.total = total]
  OBVIOUS
<1>3. /\ p \in Load /\ p.n = q.n /\ p.kind = q.kind /\ p.query = q.query
      /\ p.items = q.items
  BY <1>1, <1>2 DEF Load
<1>4. out' = (out \ {q}) \cup {p}
      /\ UNCHANGED <<server, filter, page, loading, error, busy, sent, shown>>
  BY <1>a, <1>2 DEF Count
<1>5. Len(p.items) <= PAGE_SIZE
  BY <1>3 DEF TypeOK
<1>6. UNCHANGED history /\ Grows
  BY <1>4, SameHistory DEF server
<1>7. \A i \in DOMAIN p.items : TrueRow(p.items[i])'
  BY <1>3, <1>6 DEF TrueInv, TrueRow
<1>8. \A i \in DOMAIN p.items : NewRow(p.items[i], p.n)
  BY <1>1, <1>3 DEF MineInv
<1> QED BY <1>1, <1>3, <1>4, <1>5, <1>6, <1>7, <1>8, Replaced DEF server

LEMMA FetchStep == ASSUME IInv, NEW q \in out, Fetch(q) PROVE IInv'
<1> USE DEF IInv
<1> DEFINE S == {c \in Stored : Matches(c, q.query.filter)}
<1>1. q \in Load /\ q.kind = "load" /\ q.query \in Query
  BY ItemTypes DEF Fetch
<1>2. PICK s \in Listings(S) :
        out' = (out \ {q}) \cup
          {[q EXCEPT !.step = "answered", !.at = Stored, !.items = PageOf(s, q.query.page)]}
  BY DEF Fetch
<1> DEFINE rows == PageOf(s, q.query.page)
<1>3. rows \in Seq(Rows) /\ Len(rows) <= PAGE_SIZE /\ \A i \in DOMAIN rows : \E c \in Stored : rows[i] = Row(c)
  <2>1. S \in SUBSET Stored
    OBVIOUS
  <2>2. q.query.page \in Nat \ {0}
    BY <1>1 DEF Query
  <2> HIDE DEF S
  <2> QED BY <2>1, <2>2, PageRows
<1> HIDE DEF rows
<1>4. PICK p : p = [q EXCEPT !.step = "answered", !.at = Stored, !.items = rows]
  OBVIOUS
<1>a. out' = (out \ {q}) \cup {p}
  BY <1>2, <1>4 DEF rows
<1>5. UNCHANGED <<server, filter, page, loading, error, busy, sent, shown>>
  BY DEF Fetch
<1>6. /\ p \in Load /\ p.n = q.n /\ p.kind = q.kind /\ p.query = q.query
      /\ p.items = rows
  BY <1>1, <1>3, <1>4, StoredType DEF Load
<1>7. UNCHANGED history /\ Grows
  BY <1>5, SameHistory DEF server
<1>8. ASSUME NEW i \in DOMAIN p.items PROVE TrueRow(p.items[i])' /\ NewRow(p.items[i], p.n)
  <2>1. PICK c \in Stored : p.items[i] = Row(c)
    BY <1>3, <1>6
  <2>2. /\ Row(c).version = Len(history[c]) /\ Row(c).id = c /\ Row(c).status = history[c][Len(history[c])]
        /\ Len(history[c]) \in Nat \ {0} /\ c \in Complaint
    BY StoredType
  <2>3. mine[c].version <= Len(history[c]) /\ mine[c].version \in Nat
    BY <2>2 DEF MineInv, TypeOK
  <2> QED BY <1>7, <2>1, <2>2, <2>3 DEF TrueRow, NewRow
<1>9. \A i \in DOMAIN p.items : TrueRow(p.items[i])'
  BY <1>8
<1>10. \A i \in DOMAIN p.items : NewRow(p.items[i], p.n)
  BY <1>8
<1> QED BY <1>1, <1>3, <1>a, <1>5, <1>6, <1>7, <1>9, <1>10, Replaced DEF server

\* PATCH: the row of the answer is the newest there is.
LEMMA ChangeStep == ASSUME IInv, NEW q \in out, ChangeStatus(q) PROVE IInv'
<1> USE DEF IInv
<1>1. q \in Change /\ q.kind = "change" /\ q.id \in Complaint /\ q.target \in Status
      /\ q.items \in Seq(Rows)
  BY ItemTypes DEF ChangeStatus, Change
<1>2. UNCHANGED <<created, filter, page, loading, error, busy, sent, shown>>
  BY DEF ChangeStatus
<1>3. CASE can_transition(StatusOf(q.id), q.target)
  <2>a. PICK row : row = [id |-> q.id, status |-> q.target, version |-> Len(history[q.id]) + 1]
    OBVIOUS
  <2>b. PICK p : p = [q EXCEPT !.step = "answered", !.items = <<row>>]
    OBVIOUS
  <2>1. /\ history' = [history EXCEPT ![q.id] = Append(history[q.id], q.target)]
        /\ out' = (out \ {q}) \cup {p}
    BY <1>3, <2>a, <2>b DEF ChangeStatus
  <2>2. /\ Grows /\ Len(history'[q.id]) = Len(history[q.id]) + 1
        /\ history'[q.id][Len(history[q.id]) + 1] = q.target
    BY <1>1, <2>1, AppendGrows
  <2>3. Len(history[q.id]) \in Nat
    BY <1>1 DEF TypeOK
  <2>4. row \in Rows /\ row.id = q.id /\ row.version = Len(history[q.id]) + 1 /\ row.status = q.target
    BY <1>1, <2>3, <2>a DEF Rows
  <2>5. TrueRow(row)'
    BY <2>2, <2>3, <2>4 DEF TrueRow
  <2>6. <<row>> \in Seq(Rows) /\ Len(<<row>>) = 1 /\ <<row>>[1] = row /\ DOMAIN <<row>> = {1}
    BY <2>4
  <2>7. /\ p \in Change /\ p.n = q.n /\ p.kind = q.kind /\ p.items = <<row>>
        /\ p.id = q.id
    BY <1>1, <2>6, <2>b DEF Change
  <2>8. \A i \in DOMAIN p.items : TrueRow(p.items[i])'
    <3>1. \A i \in DOMAIN p.items : p.items[i] = row
      BY <2>6, <2>7
    <3> QED BY <2>5, <3>1
  <2>9. Len(p.items) <= PAGE_SIZE /\ p.items[1].id = p.id
    BY <2>4, <2>6, <2>7, Constants
  <2> QED BY <1>1, <1>2, <2>1, <2>2, <2>7, <2>8, <2>9, Replaced
<1>4. CASE ~can_transition(StatusOf(q.id), q.target)
  <2>a. PICK p : p = [q EXCEPT !.step = "answered"]
    OBVIOUS
  <2>1. out' = (out \ {q}) \cup {p} /\ UNCHANGED history
    BY <1>4, <2>a DEF ChangeStatus
  <2>2. /\ p \in Change /\ p.n = q.n /\ p.kind = q.kind /\ p.items = q.items
        /\ p.id = q.id
    BY <1>1, <2>a DEF Change
  <2>3. \A i \in DOMAIN p.items : TrueRow(p.items[i])'
    BY <2>1, <2>2 DEF TrueInv, TrueRow
  <2>4. Len(p.items) <= PAGE_SIZE /\ (p.items # <<>> => p.items[1].id = p.id) /\ Grows
    BY <1>1, <2>1, <2>2, SameHistory DEF TypeOK, ChangeInv
  <2> QED BY <1>1, <1>2, <2>1, <2>2, <2>3, <2>4, Replaced
<1> QED BY <1>3, <1>4

----------------------------------------------------------------------------
\* A request goes out, with a number of its own.
LEMMA Sent ==
  ASSUME IInv, NEW q \in Load \cup Change, q.n = sent + 1, q.items = <<>>,
         Send(q), UNCHANGED <<server, shown>>
  PROVE  OutType' /\ ChangeInv' /\ NumberInv' /\ TrueInv' /\ MineInv' /\ sent' \in 1..MaxRequests
<1> USE DEF IInv, shown, server
<1>1. sent' = sent + 1 /\ sent < MaxRequests /\ sent \in 1..MaxRequests /\ MaxRequests \in Nat
  BY Constants DEF Send, TypeOK
<1>2. out' = out \cup {q}
  BY DEF Send
<1>3. \A x \in out : x.n <= sent /\ x.n \in Nat
  BY ItemTypes DEF TypeOK
<1>4. OutType'
  <2>1. q.n \in Nat /\ Len(q.items) <= PAGE_SIZE
    BY <1>1, Constants
  <2> QED BY <1>1, <1>2, <1>3, <2>1 DEF OutType, TypeOK
<1>5. ChangeInv'
  BY <1>2 DEF ChangeInv
<1>6. NumberInv'
  <2>1. latest \in Nat /\ (data # None => data.n \in Nat)
        /\ \A c \in Complaint : mine[c].load \in Nat /\ mine[c].sent \in Nat
    BY ItemTypes DEF TypeOK
  <2> QED BY <1>1, <1>2, <1>3, <2>1 DEF NumberInv
<1>7. TrueInv'
  BY <1>2 DEF TrueInv, TrueRow
<1>8. MineInv'
  BY <1>2 DEF MineInv, NewRow
<1>9. sent' \in 1..MaxRequests
  BY <1>1
<1> QED BY <1>4, <1>5, <1>6, <1>7, <1>8, <1>9

\* A load goes out, with the filter and the page it makes the selection.
LEMMA LoadSent ==
  ASSUME IInv, NEW f \in Filters, NEW p \in Nat \ {0}, filter' = f, page' = p,
         SendLoad(f, p), UNCHANGED <<server, busy, shown>>
  PROVE  IInv'
<1> USE DEF IInv
<1>1. PICK q : q = NewLoad(sent + 1, f, p)
  OBVIOUS
<1>2. sent + 1 \in Nat \ {0} /\ sent \in Nat
  BY Constants DEF TypeOK
<1>3. /\ q \in Load /\ q.n = sent + 1 /\ q.items = <<>> /\ q.kind = "load"
      /\ q.query = [filter |-> f, page |-> p]
  BY <1>1, <1>2, EmptySeq, Constants DEF NewLoad, Load, Query
<1>4. Send(q) /\ loading' = TRUE /\ error' = FALSE
  BY <1>1 DEF SendLoad
<1>5. OutType' /\ ChangeInv' /\ NumberInv' /\ TrueInv' /\ MineInv' /\ sent' \in 1..MaxRequests
  BY <1>3, <1>4, Sent
<1>6. TypeOK'
  <2>1. loading' \in BOOLEAN /\ error' \in BOOLEAN /\ filter' \in Filters /\ page' \in Nat \ {0}
    BY <1>4
  <2> QED BY <1>5, <2>1 DEF TypeOK, OutType, server, shown
<1>7. out' = out \cup {q}
  BY <1>4 DEF Send
<1>8. NewestUnderWay'
  <2>1. \A r \in out' : r.n <= q.n
    <3>1. \A r \in out : r.n <= sent /\ r.n \in Nat
      BY ItemTypes DEF TypeOK
    <3> QED BY <1>2, <1>3, <1>7, <3>1
  <2>2. latest' < q.n
    <3>1. latest \in Nat /\ latest <= sent /\ latest' = latest
      BY DEF TypeOK, NumberInv, shown
    <3> QED BY <1>2, <1>3, <3>1
  <2> QED BY <1>3, <1>7, <2>1, <2>2 DEF NewestUnderWay
<1>9. SelectedInv' /\ ButtonsComeBack'
  BY <1>3, <1>7, <1>8 DEF SelectedInv, ButtonsComeBack
<1> QED BY <1>5, <1>6, <1>9

\* Only loads, the selection and the table make a difference to what is selected.
LEMMA SameSelection ==
  ASSUME IInv, {q \in out' : q.kind = "load"} = {q \in out : q.kind = "load"},
         UNCHANGED <<filter, page, error, latest>>,
         data # None => data' # None /\ data'.n = data.n /\ data'.query = data.query
  PROVE  SelectedInv'
<1> USE DEF IInv
<1>1. \A q : q.kind = "load" => (q \in out' <=> q \in out)
  <2> SUFFICES ASSUME NEW q, q.kind = "load" PROVE q \in out' <=> q \in out
    OBVIOUS
  <2>1. q \in out' <=> q \in {r \in out' : r.kind = "load"}
    OBVIOUS
  <2>2. q \in out <=> q \in {r \in out : r.kind = "load"}
    OBVIOUS
  <2> QED BY <2>1, <2>2
<1>2. CASE error
  BY <1>2 DEF SelectedInv
<1>3. CASE NewestUnderWay
  <2>1. NewestUnderWay'
    BY <1>1, <1>3 DEF NewestUnderWay
  <2> QED BY <2>1 DEF SelectedInv
<1>4. CASE NewestShown
  <2>1. NewestShown'
    BY <1>1, <1>4 DEF NewestShown
  <2> QED BY <2>1 DEF SelectedInv
<1> QED BY <1>2, <1>3, <1>4 DEF SelectedInv

\* A change goes out.
LEMMA MoveStep == ASSUME IInv, NEW row \in Shown, NEW t \in Status, Move(row, t) PROVE IInv'
<1> USE DEF IInv
<1>1. PICK q : q = NewChange(row.id, t)
  OBVIOUS
<1>2. row \in Rows /\ row.id \in Complaint
  BY ItemTypes DEF Shown, Rows
<1>3. sent + 1 \in Nat \ {0}
  BY DEF TypeOK
<1>4. q \in Change /\ q.n = sent + 1 /\ q.items = <<>> /\ q.kind = "change"
  BY <1>1, <1>2, <1>3, EmptySeq DEF NewChange, Change
<1>5. Send(q) /\ busy' = row.id /\ UNCHANGED <<server, filter, page, loading, error, shown>>
  BY <1>1 DEF Move
<1>6. OutType' /\ ChangeInv' /\ NumberInv' /\ TrueInv' /\ MineInv' /\ sent' \in 1..MaxRequests
  BY <1>4, <1>5, Sent
<1>7. TypeOK'
  BY <1>2, <1>5, <1>6 DEF TypeOK, OutType, server, shown
<1>8. out' = out \cup {q}
  BY <1>5 DEF Send
<1>9. SelectedInv'
  <2>1. {r \in out' : r.kind = "load"} = {r \in out : r.kind = "load"}
    BY <1>4, <1>8
  <2> QED BY <1>5, <2>1, SameSelection DEF shown
<1>10. ButtonsComeBack'
  BY <1>5, <1>8 DEF ButtonsComeBack
<1> QED BY <1>6, <1>7, <1>9, <1>10

----------------------------------------------------------------------------
\* An answer has come.
LEMMA Received ==
  ASSUME IInv, NEW q \in out, out' = out \ {q}, UNCHANGED <<server, sent>>
  PROVE  /\ OutType' /\ ChangeInv'
         /\ \A r \in out' : \A i \in DOMAIN r.items : TrueRow(r.items[i])'
<1> USE DEF IInv, server
<1>1. OutType' /\ ChangeInv'
  BY DEF OutType, TypeOK, ChangeInv
<1>2. \A r \in out' : \A i \in DOMAIN r.items : TrueRow(r.items[i])'
  BY DEF TrueInv, TrueRow
<1> QED BY <1>1, <1>2

LEMMA LoadedStep == ASSUME IInv, NEW q \in out, Loaded(q) PROVE IInv'
<1> USE DEF IInv
<1>1. /\ q.kind = "load" /\ data' = [items |-> q.items, total |-> q.total, n |-> q.n, query |-> q.query]
      /\ loading' = FALSE /\ out' = out \ {q} /\ latest' = (IF latest < q.n THEN q.n ELSE latest) /\ Walk(q)
      /\ UNCHANGED <<server, filter, page, error, busy, sent, mine>>
  BY DEF Loaded
<1>2. /\ q \in Load /\ q.query \in Query /\ q.items \in Seq(Rows) /\ q.total \in 0..N
      /\ q.at \in SUBSET Complaint /\ q.n \in Nat \ {0} /\ q.n <= sent /\ sent \in Nat /\ latest \in Nat
  <2>1. q \in Load /\ q.query \in Query /\ q.items \in Seq(Rows) /\ q.n \in Nat \ {0}
    BY <1>1, ItemTypes
  <2>2. q.total \in 0..N /\ q.at \in SUBSET Complaint
    BY <2>1 DEF Load
  <2>3. q.n <= sent /\ sent \in Nat /\ latest \in Nat
    BY Constants DEF TypeOK
  <2> QED BY <2>1, <2>2, <2>3
<1>3. /\ data' \in Table /\ data' # None /\ data'.items = q.items /\ data'.query = q.query
      /\ data'.n = q.n
  BY <1>1, <1>2, Constants DEF Table
<1>4. /\ OutType' /\ ChangeInv'
      /\ \A r \in out' : \A i \in DOMAIN r.items : TrueRow(r.items[i])'
  BY <1>1, Received
<1>5. walk' \in [upto : Nat, since : Nat, there : SUBSET Complaint, seen : SUBSET Complaint, size : Nat]
  <2> DEFINE ids == {q.items[i].id : i \in DOMAIN q.items}
             size == Cardinality(q.at)
  <2>1. ids \in SUBSET Complaint
    BY ItemTypes DEF Rows
  <2>2. size \in Nat
    BY <1>2, CountBound, Constants
  <2>3. walk' = CASE q.query.filter = None /\ q.query.page = 1 ->
                       [upto |-> 1, since |-> sent, there |-> q.at, seen |-> ids, size |-> size]
                  [] q.query.filter = None /\ walk.upto > 0 /\ q.query.page = walk.upto + 1
                       /\ q.n > walk.since ->
                       [walk EXCEPT !.upto = @ + 1, !.since = sent, !.seen = @ \cup ids, !.size = size]
                  [] OTHER -> [walk EXCEPT !.upto = 0]
    BY <1>1 DEF Walk
  <2> HIDE DEF ids, size
  <2>4. \/ walk' = [walk EXCEPT !.upto = 0]
        \/ walk' = [upto |-> 1, since |-> sent, there |-> q.at, seen |-> ids, size |-> size]
        \/ walk' = [walk EXCEPT !.upto = @ + 1, !.since = sent, !.seen = @ \cup ids, !.size = size]
    BY <2>3
  <2>5. walk \in [upto : Nat, since : Nat, there : SUBSET Complaint, seen : SUBSET Complaint, size : Nat]
    BY DEF TypeOK
  <2>9. sent \in Nat
    BY Constants DEF TypeOK
  <2>6. CASE walk' = [walk EXCEPT !.upto = 0]
    BY <2>5, <2>6
  <2>7. CASE walk' = [upto |-> 1, since |-> sent, there |-> q.at, seen |-> ids, size |-> size]
    BY <1>2, <2>1, <2>2, <2>7, <2>9
  <2>8. CASE walk' = [walk EXCEPT !.upto = @ + 1, !.since = sent, !.seen = @ \cup ids, !.size = size]
    <3>1. walk.upto + 1 \in Nat /\ walk.seen \cup ids \in SUBSET Complaint
      BY <2>1, <2>5
    <3> QED BY <2>2, <2>5, <2>8, <2>9, <3>1
  <2> QED BY <2>4, <2>6, <2>7, <2>8
<1>6. TypeOK'
  <2>1. loading' \in BOOLEAN /\ latest' \in Nat
    BY <1>1, <1>2
  <2>2. Len(data'.items) <= PAGE_SIZE
    BY <1>3 DEF TypeOK
  <2> QED BY <1>1, <1>3, <1>4, <1>5, <2>1, <2>2 DEF TypeOK, OutType, server
<1>7. \A r \in out' : r \in out /\ r.n # q.n /\ r.n \in Nat
  BY <1>1, ItemTypes DEF TypeOK
<1>8. NumberInv'
  <2>1. latest' \in {latest, q.n} /\ latest <= latest' /\ q.n <= latest' /\ latest' <= sent'
    BY <1>1, <1>2 DEF NumberInv
  <2>2. \A r \in out' : r.kind = "load" =>
           /\ r.n # latest' /\ r.n # data'.n /\ \A c \in Complaint : r.n # mine'[c].load
    BY <1>1, <1>3, <1>7, <2>1 DEF NumberInv
  <2>3. \A c \in Complaint : mine'[c].load <= sent' /\ mine'[c].sent <= sent'
    BY <1>1 DEF NumberInv
  <2> QED BY <1>3, <2>1, <2>2, <2>3 DEF NumberInv
<1>9. SelectedInv'
  <2>1. CASE error
    BY <1>1, <2>1 DEF SelectedInv
  <2>2. CASE NewestUnderWay
    <3>1. PICK x \in out : /\ x.kind = "load" /\ x.query = [filter |-> filter, page |-> page]
                           /\ latest < x.n /\ \A r \in out : r.kind = "load" => r.n <= x.n
      BY <2>2 DEF NewestUnderWay
    <3>2. x.n \in Nat
      BY ItemTypes
    <3>3. CASE x = q
      <4>1. \A r \in out' : r.kind = "load" => r.n < q.n
        BY <1>2, <1>7, <3>1, <3>3
      <4>2. latest' = q.n
        BY <1>1, <3>1, <3>3
      <4>3. NewestShown'
        BY <1>1, <1>3, <3>1, <3>3, <4>1, <4>2 DEF NewestShown
      <4> QED BY <4>3 DEF SelectedInv
    <3>4. CASE x # q
      <4>1. x \in out' /\ q.n < x.n
        BY <1>1, <1>2, <1>7, <3>1, <3>2, <3>4
      <4>2. latest' < x.n
        BY <1>1, <3>1, <4>1
      <4>3. NewestUnderWay'
        BY <1>1, <1>7, <3>1, <4>1, <4>2 DEF NewestUnderWay
      <4> QED BY <4>3 DEF SelectedInv
    <3> QED BY <3>3, <3>4
  <2>3. CASE NewestShown
    <3>1. q.n < latest
      BY <1>1, <2>3 DEF NewestShown
    <3>2. latest' = latest /\ data'.n # latest'
      BY <1>1, <1>2, <1>3, <3>1
    <3>3. NewestShown'
      BY <1>3, <1>7, <2>3, <3>2 DEF NewestShown
    <3> QED BY <3>3 DEF SelectedInv
  <2> QED BY <2>1, <2>2, <2>3 DEF SelectedInv
<1>10. TrueInv'
  BY <1>1, <1>3, <1>4 DEF TrueInv, TrueRow, server
<1>11. MineInv'
  <2>1. \A c \in Complaint : mine'[c].version <= Len(history'[c])
    BY <1>1 DEF MineInv, server
  <2>2. \A r \in out' : r.kind = "load" => \A i \in DOMAIN r.items : NewRow(r.items[i], r.n)'
    BY <1>1, <1>7 DEF MineInv, NewRow
  <2>3. ASSUME NEW i \in DOMAIN q.items
        PROVE  NewRow(q.items[i], q.n)' /\ q.n # mine'[q.items[i].id].load
    <3>1. q.items[i].id \in Complaint
      BY ItemTypes DEF Rows
    <3> QED BY <1>1, <3>1 DEF MineInv, NewRow, NumberInv
  <2>4. data' # None => \A i \in DOMAIN data'.items :
          /\ NewRow(data.items[i], data.n)'
          /\ data'.n # mine'[data'.items[i].id].load
    BY <1>3, <2>3 DEF NewRow
  <2> QED BY <2>1, <2>2, <2>4 DEF MineInv
<1>12. ButtonsComeBack'
  BY <1>1 DEF ButtonsComeBack
<1> QED BY <1>4, <1>6, <1>8, <1>9, <1>10, <1>11, <1>12

LEMMA LoadFailedStep == ASSUME IInv, NEW q \in out, LoadFailed(q) PROVE IInv'
<1> USE DEF IInv
<1>1. /\ error' = TRUE /\ loading' = FALSE /\ out' = out \ {q}
      /\ UNCHANGED <<server, filter, page, busy, sent, shown>>
  BY DEF LoadFailed
<1>2. /\ OutType' /\ ChangeInv'
      /\ \A r \in out' : \A i \in DOMAIN r.items : TrueRow(r.items[i])'
  BY <1>1, Received
<1>3. TypeOK'
  <2>1. error' \in BOOLEAN /\ loading' \in BOOLEAN
    BY <1>1, Zenon
  <2> QED BY <1>1, <1>2, <2>1 DEF TypeOK, OutType, server, shown
<1>4. SelectedInv' /\ ButtonsComeBack' /\ NumberInv'
  BY <1>1 DEF SelectedInv, ButtonsComeBack, NumberInv, shown
<1>5. TrueInv' /\ MineInv'
  BY <1>1, <1>2 DEF TrueInv, TrueRow, MineInv, NewRow, server, shown
<1> QED BY <1>2, <1>3, <1>4, <1>5

\* A load that is under way still is when the answer of a change has come.
LEMMA StillLoading ==
  ASSUME IInv, NEW q \in out, q.kind = "change", out' = out \ {q}, UNCHANGED loading
  PROVE  ButtonsComeBack'
BY DEF IInv, ButtonsComeBack

LEMMA MoveFailedStep == ASSUME IInv, NEW q \in out, MoveFailed(q) PROVE IInv'
<1> USE DEF IInv
<1>1. /\ q.kind = "change" /\ busy' = None /\ out' = out \ {q}
      /\ UNCHANGED <<server, filter, page, loading, error, sent, shown>>
  BY DEF MoveFailed
<1>2. /\ OutType' /\ ChangeInv'
      /\ \A r \in out' : \A i \in DOMAIN r.items : TrueRow(r.items[i])'
  BY <1>1, Received
<1>3. TypeOK'
  BY <1>1, <1>2 DEF TypeOK, OutType, server, shown
<1>4. SelectedInv' /\ ButtonsComeBack' /\ NumberInv'
  <2>1. {r \in out' : r.kind = "load"} = {r \in out : r.kind = "load"}
    BY <1>1
  <2>2. NumberInv'
    BY <1>1 DEF NumberInv, shown
  <2> QED BY <1>1, <2>1, <2>2, SameSelection, StillLoading DEF shown
<1>5. TrueInv' /\ MineInv'
  BY <1>1, <1>2 DEF TrueInv, TrueRow, MineInv, NewRow, server, shown
<1> QED BY <1>2, <1>3, <1>4, <1>5

\* The row of the answer replaces those of its complaint in the table.
LEMMA MovedTable ==
  ASSUME IInv, NEW q \in out, Moved(q), data # None
  PROVE  /\ data' \in Table /\ data' # None /\ data'.query = data.query /\ data'.total = data.total
         /\ data'.n = data.n /\ data'.items \in Seq(Rows) /\ Len(data'.items) = Len(data.items)
         /\ DOMAIN data'.items = DOMAIN data.items
         /\ \A i \in DOMAIN data.items :
              data'.items[i] = IF data.items[i].id = q.id THEN q.items[1] ELSE data.items[i]
<1> USE DEF IInv
<1>1. q.items # <<>> /\ data' =
        [data EXCEPT !.items = [i \in DOMAIN @ |-> IF @[i].id = q.id THEN q.items[1] ELSE @[i]]]
  BY DEF Moved
<1>2. PICK row \in Rows : row = q.items[1]
  <2>1. 1 \in DOMAIN q.items
    BY <1>1, ItemTypes, EmptySeq
  <2> QED BY <2>1, ItemTypes
<1>3. data \in Table /\ data.items \in Seq(Rows) /\ \A i \in DOMAIN data.items : data.items[i] \in Rows
  BY ItemTypes
<1>4. PICK items : items = [i \in DOMAIN data.items |-> IF data.items[i].id = q.id THEN row ELSE data.items[i]]
  OBVIOUS
<1>5. data' = [data EXCEPT !.items = items]
  BY <1>1, <1>2, <1>4
<1>6. Len(data.items) \in Nat /\ DOMAIN data.items = 1..Len(data.items)
  BY <1>3, LenProperties
<1>7. items \in [1..Len(data.items) -> Rows]
  BY <1>3, <1>4, <1>6
<1>8. items \in Seq(Rows) /\ Len(items) = Len(data.items) /\ DOMAIN items = DOMAIN data.items
  BY <1>6, <1>7
<1>9. data' \in Table /\ data'.query = data.query /\ data'.total = data.total
      /\ data'.n = data.n /\ data'.items = items
  BY <1>3, <1>5, <1>8 DEF Table
<1> QED BY <1>2, <1>4, <1>8, <1>9, Constants

\* The row of the answer is as new as what the page is told by it.
LEMMA MovedStep == ASSUME IInv, NEW q \in out, Moved(q) PROVE IInv'
<1> USE DEF IInv
<1>1. /\ q.kind = "change" /\ q.items # <<>> /\ busy' = None /\ out' = out \ {q}
      /\ mine' = [mine EXCEPT ![q.id] = Told(q)]
      /\ UNCHANGED <<server, filter, page, loading, error, sent, latest, walk>>
      /\ data' = IF data = None THEN None ELSE
           [data EXCEPT !.items = [i \in DOMAIN @ |-> IF @[i].id = q.id THEN q.items[1] ELSE @[i]]]
  BY DEF Moved
<1>2. PICK row : row = q.items[1]
  OBVIOUS
<1>3. /\ q \in Change /\ q.id \in Complaint
      /\ row \in Rows /\ row.id = q.id /\ row.version \in Nat \ {0} /\ row.id \in Complaint
      /\ TrueRow(row)
  <2>1. 1 \in DOMAIN q.items
    BY <1>1, ItemTypes, EmptySeq
  <2> QED BY <1>1, <1>2, <2>1, ItemTypes DEF ChangeInv, TrueInv, Rows
<1>4. /\ OutType' /\ ChangeInv'
      /\ \A r \in out' : \A i \in DOMAIN r.items : TrueRow(r.items[i])'
  BY <1>1, Received
<1>t. PICK told : told = Told(q)
  OBVIOUS
<1>u. sent \in Nat /\ latest \in Nat /\ latest <= sent /\ (data # None => data.n \in Nat)
  BY Constants, ItemTypes DEF TypeOK, NumberInv
<1>v. /\ told \in [version : Nat, load : Nat, sent : Nat]
      /\ told.version = row.version /\ told.sent = sent /\ told.load <= sent
      /\ told.load = IF data = None THEN 0 ELSE data.n
  BY <1>2, <1>3, <1>t, <1>u DEF Told, NumberInv
<1>5. /\ mine' \in [Complaint -> [version : Nat, load : Nat, sent : Nat]]
      /\ \A c \in Complaint : mine'[c] = IF c = q.id THEN told ELSE mine[c]
  BY <1>1, <1>3, <1>t, <1>v DEF TypeOK
<1>6. ASSUME data # None
      PROVE  /\ data' \in Table /\ data' # None /\ data'.query = data.query /\ data'.n = data.n
             /\ data'.items \in Seq(Rows) /\ Len(data'.items) = Len(data.items)
             /\ DOMAIN data'.items = DOMAIN data.items
             /\ \A i \in DOMAIN data.items :
                  data'.items[i] = IF data.items[i].id = q.id THEN row ELSE data.items[i]
  BY <1>2, <1>6, MovedTable
<1>7. data = None => data' = None
  BY <1>1
<1>8. TypeOK'
  BY <1>1, <1>4, <1>5, <1>6, <1>7 DEF TypeOK, OutType, server
<1>9. NumberInv'
  <2>1. \A c \in Complaint : mine'[c].load <= sent' /\ mine'[c].sent <= sent'
    BY <1>1, <1>5, <1>u, <1>v DEF NumberInv
  <2>2. ASSUME NEW r \in out', r.kind = "load"
        PROVE  /\ r.n # latest /\ (data # None => r.n # data.n)
               /\ \A c \in Complaint : r.n # mine'[c].load
    <3>1. r \in out /\ r.n \in Nat \ {0}
      BY <1>1, ItemTypes
    <3> QED BY <1>5, <1>v, <2>2, <3>1 DEF NumberInv
  <2> QED BY <1>1, <1>6, <1>7, <2>1, <2>2 DEF NumberInv
<1>10. SelectedInv'
  <2>1. {r \in out' : r.kind = "load"} = {r \in out : r.kind = "load"}
    BY <1>1
  <2> QED BY <1>1, <1>6, <2>1, SameSelection
<1>11. UNCHANGED history /\ TrueRow(row)'
  BY <1>1, <1>3 DEF server, TrueRow
<1>12. TrueInv'
  <2>1. ASSUME data' # None PROVE \A i \in DOMAIN data'.items : TrueRow(data.items[i])'
    BY <1>6, <1>7, <1>11, <2>1 DEF TrueInv, TrueRow
  <2> QED BY <1>4, <2>1 DEF TrueInv
<1>13. MineInv'
  <2>1. \A c \in Complaint : mine'[c].version <= Len(history'[c])
    <3>1. row.version <= Len(history[q.id])
      BY <1>3 DEF TrueRow, TypeOK
    <3> QED BY <1>5, <1>11, <1>v, <3>1 DEF MineInv
  <2>2. ASSUME data' # None, NEW i \in DOMAIN data'.items
        PROVE  /\ NewRow(data.items[i], data.n)'
               /\ data'.items[i].version < mine'[data'.items[i].id].version =>
                    data'.n # mine'[data'.items[i].id].load
    <3>1. data # None /\ i \in DOMAIN data.items
      BY <1>6, <1>7, <2>2
    <3>2. data'.n = data.n /\ data'.items[i] = IF data.items[i].id = q.id THEN row ELSE data.items[i]
      BY <1>6, <3>1
    <3>3. data.items[i] \in Rows /\ data.items[i].id \in Complaint
      BY <3>1, ItemTypes DEF Rows
    <3>4. CASE data.items[i].id = q.id
      BY <1>3, <1>5, <1>v, <3>2, <3>4 DEF NewRow
    <3>5. CASE data.items[i].id # q.id
      BY <1>5, <3>1, <3>2, <3>3, <3>5 DEF NewRow, MineInv
    <3> QED BY <3>4, <3>5
  <2>3. ASSUME NEW r \in out', r.kind = "load", NEW i \in DOMAIN r.items
        PROVE  NewRow(r.items[i], r.n)'
    <3>1. r \in out /\ r.n <= sent /\ r.items[i].id \in Complaint
      BY <1>1, <2>3, ItemTypes DEF TypeOK, Rows
    <3>2. NewRow(r.items[i], r.n)
      BY <2>3, <3>1 DEF MineInv
    <3> QED BY <1>5, <1>v, <3>1, <3>2 DEF NewRow
  <2> QED BY <2>1, <2>2, <2>3 DEF MineInv
<1> QED BY <1>1, <1>4, <1>8, <1>9, <1>10, <1>12, <1>13, StillLoading

----------------------------------------------------------------------------
LEMMA InvInit == Init => IInv
<1> SUFFICES ASSUME Init PROVE IInv
  OBVIOUS
<1> USE Constants
<1>1. PICK q : q = NewLoad(1, None, 1)
  OBVIOUS
<1>2. /\ q \in Load /\ q.n = 1 /\ q.items = <<>> /\ q.kind = "load"
      /\ q.query = [filter |-> None, page |-> 1]
  BY <1>1, EmptySeq DEF NewLoad, Load, Query
<1>3. /\ out = {q} /\ sent = 1 /\ filter = None /\ page = 1 /\ data = None /\ latest = 0
      /\ mine = [c \in Complaint |-> [version |-> 0, load |-> 0, sent |-> 0]]
      /\ history = [c \in Complaint |-> <<>>]
  BY <1>1 DEF Init
<1>4. TypeOK
  <2>1. loading \in BOOLEAN /\ error \in BOOLEAN
    BY Zenon DEF Init
  <2>2. walk \in [upto : Nat, since : Nat, there : SUBSET Complaint, seen : SUBSET Complaint, size : Nat]
    BY DEF Init
  <2>3. created \in [Complaint -> Complaint] /\ busy = None
    BY DEF Init
  <2>4. history \in [Complaint -> Seq(Status)] /\ mine \in [Complaint -> [version : Nat, load : Nat, sent : Nat]]
    BY <1>3, EmptySeq
  <2>5. Len(q.items) <= PAGE_SIZE
    BY <1>2
  <2> QED BY <1>2, <1>3, <2>1, <2>2, <2>3, <2>4, <2>5 DEF TypeOK
<1>5. ChangeInv /\ NumberInv /\ NewestUnderWay /\ ButtonsComeBack
  BY <1>2, <1>3 DEF ChangeInv, NumberInv, NewestUnderWay, ButtonsComeBack
<1>6. TrueInv
  BY <1>2, <1>3 DEF TrueInv
<1>7. MineInv
  BY <1>2, <1>3, EmptySeq DEF MineInv
<1> QED BY <1>4, <1>5, <1>6, <1>7 DEF IInv, SelectedInv

LEMMA InvStep == IInv /\ [Next]_vars => IInv'
<1> SUFFICES ASSUME IInv, [Next]_vars PROVE IInv'
  OBVIOUS
<1>1. ASSUME NEW c \in Complaint, Commit(c) PROVE IInv'
  <2>1. history[c] = <<>> /\ history' = [history EXCEPT ![c] = <<"open">>]
        /\ UNCHANGED <<created, filter, page, loading, error, busy, out, sent, shown>>
    BY <1>1 DEF Commit
  <2>2. history' = [history EXCEPT ![c] = Append(history[c], "open")]
    BY <2>1
  <2> QED BY <2>1, <2>2, StatusTypes, AppendGrows, OthersStep DEF IInv
<1>2. ASSUME NEW c \in Complaint, NEW t \in Status, MovedByOther(c, t) PROVE IInv'
  BY <1>2, AppendGrows, OthersStep DEF MovedByOther, IInv
<1>3. ASSUME NEW f \in Filters, SetFilter(f) PROVE IInv'
  BY <1>3, LoadSent DEF SetFilter
<1>4. ASSUME Refresh PROVE IInv'
  BY <1>4, LoadSent DEF Refresh, IInv, TypeOK
<1>5. ASSUME Previous PROVE IInv'
  <2>1. page - 1 \in Nat \ {0} /\ filter \in Filters
    BY <1>5 DEF Previous, IInv, TypeOK
  <2> QED BY <1>5, <2>1, LoadSent DEF Previous
<1>6. ASSUME NextPage PROVE IInv'
  <2>1. page + 1 \in Nat \ {0} /\ filter \in Filters
    BY DEF IInv, TypeOK
  <2> QED BY <1>6, <2>1, LoadSent DEF NextPage
<1>7. ASSUME UNCHANGED vars PROVE IInv'
  <2> USE <1>7 DEF vars
  <2>1. TypeOK' /\ ChangeInv' /\ NumberInv' /\ ButtonsComeBack'
    BY DEF IInv, TypeOK, ChangeInv, NumberInv, ButtonsComeBack
  <2>2. TrueInv' /\ MineInv'
    BY DEF IInv, TrueInv, TrueRow, MineInv, NewRow
  <2>3. SelectedInv'
    BY DEF IInv, SelectedInv, NewestUnderWay, NewestShown
  <2> QED BY <2>1, <2>2, <2>3 DEF IInv
<1>8. Others => IInv'
  BY <1>1, <1>2 DEF Others
<1>9. User => IInv'
  BY <1>3, <1>4, <1>5, <1>6, MoveStep DEF User
<1>10. Serve => IInv'
  BY CountStep, FetchStep, ChangeStep DEF Serve
<1>11. Deliver => IInv'
  BY LoadedStep, LoadFailedStep, MovedStep, MoveFailedStep DEF Deliver
<1> QED BY <1>7, <1>8, <1>9, <1>10, <1>11 DEF Next

\* The inductive invariant: which load is the newest and whether it has been shown,
\* and how old the rows are that each answer brings.
THEOREM Invariance == Spec => []IInv
<1> QED BY InvInit, InvStep, PTL DEF Spec

\* Every variable keeps its type: there is no page before the first, and no page
\* is longer than it may be (DashboardPage.tsx:166, complaint_repository.py:84-86).
THEOREM TypeCorrect == Spec => []TypeOK
<1>1. IInv => TypeOK
  BY DEF IInv
<1> QED BY <1>1, Invariance, PTL

\* The table shows what is selected, but for the answer of a load that a newer one
\* has overtaken (DashboardPage.tsx:23-46).
THEOREM SelectionIsShown == Spec => []TableAnswersTheQuery
<1>1. IInv => TableAnswersTheQuery
  <2> SUFFICES ASSUME IInv, \A q \in out : q.kind # "load", ~error
               PROVE  data # None /\ (data.query = [filter |-> filter, page |-> page] \/ data.n < latest)
    BY DEF TableAnswersTheQuery
  <2>1. NewestShown
    BY DEF IInv, SelectedInv, NewestUnderWay
  <2>2. data.n \in Nat /\ latest \in Nat /\ data.n <= latest
    BY <2>1, ItemTypes DEF IInv, NumberInv, NewestShown, TypeOK
  <2> QED BY <2>1, <2>2 DEF NewestShown
<1> QED BY <1>1, Invariance, PTL

\* Whatever comes in whatever order, no row shows a status its complaint never had
\* (DashboardPage.tsx:48-61).
THEOREM RowsAreTrue == Spec => []ShownWasTrue
<1>1. IInv => ShownWasTrue
  BY DEF IInv, TrueInv, TrueRow, Shown, ShownWasTrue
<1> QED BY <1>1, Invariance, PTL

\* What was changed on this page is taken back on it only by a load that was sent
\* before the page was told and answered after (DashboardPage.tsx:52-53).
THEOREM ChangesAreShown == Spec => []OwnChangesAreShown
<1>1. IInv => OwnChangesAreShown
  BY DEF IInv, MineInv, NewRow, Shown, OwnChangesAreShown
<1> QED BY <1>1, Invariance, PTL

\* The page never waits for an answer that nobody will bring
\* (DashboardPage.tsx:34-36).
THEOREM ButtonsDoComeBack == Spec => []ButtonsComeBack
<1>1. IInv => ButtonsComeBack
  BY DEF IInv
<1> QED BY <1>1, Invariance, PTL

----------------------------------------------------------------------------
\* How many of S are listed before c, and what a walk has still to come to.
Rank(S, c) == Cardinality({d \in S : Before(d, c)})
Ids(q) == {q.items[i].id : i \in DOMAIN q.items}
Answered(q) == q.kind = "load" /\ q.step = "answered"
Missed == walk.there \ walk.seen

\* In a listing of S, all that is missed comes after the pages shown.
Beyond(S) ==
  walk.upto > 0 =>
    walk.there \subseteq S /\ \A c \in Missed : walk.upto * PAGE_SIZE <= Rank(S, c)

\* An answer leaves out only what is listed on other pages.
Whole(q) ==
  /\ q.at \subseteq Stored
  /\ q.query.filter = None => \A c \in q.at \ Ids(q) :
       \/ Rank(q.at, c) < (q.query.page - 1) * PAGE_SIZE
       \/ q.query.page * PAGE_SIZE <= Rank(q.at, c)

\* The list only grows, so what is missed only moves down it: it is beyond the
\* pages shown in what is stored, and in every answer asked for since.
WalkInv ==
  /\ Beyond(Stored)
  /\ \A q \in out : Answered(q) => Whole(q) /\ (q.n > walk.since => Beyond(q.at))
  /\ walk.upto > 0 => data # None /\ data.query = [filter |-> None, page |-> walk.upto]
  /\ walk.upto > 0 /\ Missed # {} => walk.upto * PAGE_SIZE + Cardinality(Missed) <= walk.size

LEMMA Division ==
  ASSUME NEW x \in Nat, NEW w \in Nat \ {0}
  PROVE  x \div w \in Nat /\ (x \div w) * w <= x /\ x < (x \div w) * w + w
OBVIOUS

\* The pages there are hold all that was counted.
LEMMA PagesHold ==
  ASSUME NEW total \in Nat, NEW u \in Nat, (total + PAGE_SIZE - 1) \div PAGE_SIZE <= u
  PROVE  total <= u * PAGE_SIZE
<1> DEFINE x == total + PAGE_SIZE - 1
           pages == x \div PAGE_SIZE
<1> USE Constants
<1>1. x \in Nat /\ u * PAGE_SIZE \in Nat
  OBVIOUS
<1>2. pages \in Nat /\ x < pages * PAGE_SIZE + PAGE_SIZE
  BY <1>1, Division
<1>3. pages <= u
  OBVIOUS
<1>4. total <= pages * PAGE_SIZE /\ pages * PAGE_SIZE \in Nat
  BY <1>1, <1>2
<1> HIDE DEF x, pages
<1>5. pages * PAGE_SIZE <= u * PAGE_SIZE
  BY <1>2, <1>3
<1> QED BY <1>1, <1>4, <1>5

LEMMA Positions ==
  ASSUME NEW p \in Nat \ {0}
  PROVE  /\ (p - 1) * PAGE_SIZE \in Nat /\ p * PAGE_SIZE \in Nat
         /\ (p - 1) * PAGE_SIZE + PAGE_SIZE = p * PAGE_SIZE
<1>1. PAGE_SIZE \in Nat /\ p - 1 \in Nat
  BY Constants
<1> QED BY <1>1

\* The order is strict.
LEMMA BeforeOrders ==
  ASSUME TypeOK, NEW c \in Complaint, NEW d \in Complaint, Before(c, d)
  PROVE  ~Before(d, c)
<1>1. created \in [Complaint -> Complaint]
  BY DEF TypeOK
<1>2. created[c] \in Complaint /\ created[d] \in Complaint
  BY <1>1
<1>3. Complaint \subseteq Nat
  BY Constants DEF Complaint
<1>4. created[c] \in Nat /\ created[d] \in Nat /\ c \in Nat /\ d \in Nat
  BY <1>2, <1>3
<1> QED BY <1>4 DEF Before

LEMMA RankType ==
  ASSUME NEW S \in SUBSET Complaint, NEW c
  PROVE  Rank(S, c) \in Nat
<1>1. {d \in S : Before(d, c)} \in SUBSET Complaint
  OBVIOUS
<1> QED BY <1>1, CountBound, Constants DEF Rank

LEMMA RankGrows ==
  ASSUME NEW T \in SUBSET Complaint, NEW S \in SUBSET T, NEW c
  PROVE  Rank(S, c) <= Rank(T, c)
<1> DEFINE A == {d \in S : Before(d, c)}
           B == {d \in T : Before(d, c)}
<1>1. A \in SUBSET B /\ B \in SUBSET Complaint
  OBVIOUS
<1> HIDE DEF A, B
<1>2. Cardinality(A) <= Cardinality(B)
  BY <1>1, CountBound, FS_Subset
<1> QED BY <1>2 DEF Rank, A, B

LEMMA RankBound ==
  ASSUME TypeOK, NEW S \in SUBSET Complaint, NEW c \in S
  PROVE  Rank(S, c) < Cardinality(S)
<1> DEFINE A == {d \in S : Before(d, c)}
<1>1. IsFiniteSet(S) /\ Cardinality(S) \in Nat
  BY CountBound, Constants
<1>2. A \in SUBSET S /\ c \notin A
  BY BeforeOrders
<1> HIDE DEF A
<1>3. Cardinality(A) <= Cardinality(S) /\ Cardinality(A) # Cardinality(S) /\ Cardinality(A) \in Nat
  BY <1>1, <1>2, FS_Subset, FS_CardinalityType
<1> QED BY <1>1, <1>3 DEF Rank, A

\* Different members of S have different ranks.
LEMMA RankLess ==
  ASSUME TypeOK, NEW S \in SUBSET Complaint, NEW c \in S, NEW d \in S, c # d
  PROVE  Rank(S, c) # Rank(S, d)
<1>1. \A x \in Complaint : x \in Nat /\ created[x] \in Nat
  <2>1. created \in [Complaint -> Complaint]
    BY DEF TypeOK
  <2>2. Complaint \subseteq Nat
    BY Constants DEF Complaint
  <2> QED BY <2>1, <2>2
<1>2. ASSUME NEW x \in S, NEW y \in S, Before(x, y) PROVE Rank(S, x) < Rank(S, y)
  <2> DEFINE A == {e \in S : Before(e, x)}
             B == {e \in S : Before(e, y)}
  <2>1. \A e \in S : Before(e, x) => Before(e, y)
    BY <1>1, <1>2 DEF Before
  <2>2. A \in SUBSET B /\ x \in B /\ x \notin A /\ B \in SUBSET Complaint
    BY <1>2, <2>1, BeforeOrders
  <2> HIDE DEF A, B
  <2>3. IsFiniteSet(B) /\ Cardinality(B) \in Nat
    BY <2>2, CountBound, Constants
  <2>4. Cardinality(A) <= Cardinality(B) /\ Cardinality(A) # Cardinality(B) /\ Cardinality(A) \in Nat
    BY <2>2, <2>3, FS_Subset, FS_CardinalityType
  <2> QED BY <2>3, <2>4 DEF Rank, A, B
<1>3. Before(c, d) \/ Before(d, c)
  BY <1>1 DEF Before
<1>4. Rank(S, c) \in Nat /\ Rank(S, d) \in Nat
  BY RankType
<1> QED BY <1>2, <1>3, <1>4

\* There is room in S for those ranked k or more, and for k others.
LEMMA RoomBeyond ==
  ASSUME TypeOK, NEW S \in SUBSET Complaint, NEW M \in SUBSET S, NEW k \in Nat,
         \A c \in M : k <= Rank(S, c), M # {}
  PROVE  k + Cardinality(M) <= Cardinality(S)
<1>1. PICK m \in Nat : m = Cardinality(S)
  BY CountBound, Constants
<1>2. \A c \in M : Rank(S, c) \in Nat /\ Rank(S, c) < m
  BY <1>1, RankType, RankBound
<1>3. k < m
  BY <1>2
<1> DEFINE f == [c \in M |-> Rank(S, c)]
           T == k..(m - 1)
<1>4. IsFiniteSet(T) /\ Cardinality(T) = m - k
  <2>1. m - 1 \in Int /\ k \in Int /\ k <= m - 1 /\ (m - 1) - k + 1 = m - k
    BY <1>3
  <2> QED BY <2>1, FS_Interval
<1>5. \A c \in M : f[c] \in T
  BY <1>2
<1>6. f \in [M -> T]
  BY <1>5
<1>7. \A c, d \in M : f[c] = f[d] => c = d
  BY RankLess
<1> HIDE DEF f, T
<1>8. f \in Injection(M, T)
  BY <1>6, <1>7, Fun_IsInj, Zenon
<1>9. IsFiniteSet(M) /\ Cardinality(M) \in Nat
  <2>1. M \in SUBSET Complaint
    OBVIOUS
  <2> QED BY <2>1, CountBound, Constants
<1>10. Cardinality(M) <= Cardinality(T)
  BY <1>4, <1>8, <1>9, FS_Injection
<1> QED BY <1>1, <1>3, <1>4, <1>9, <1>10

\* A listing of S has every member of S once, at the place its rank says.
LEMMA PlaceOf ==
  ASSUME TypeOK, NEW S \in SUBSET Complaint, NEW s \in Listings(S), NEW c \in S
  PROVE  \E k \in 1..Cardinality(S) : s[k] = c /\ k = Rank(S, c) + 1
<1>1. IsFiniteSet(S) /\ Cardinality(S) \in Nat
  BY CountBound, Constants
<1>m. PICK m \in Nat : m = Cardinality(S)
  BY <1>1
<1>2. /\ s \in [1..m -> S]
      /\ \A i, j \in 1..m : i < j => s[i] # s[j] /\ Before(s[i], s[j])
  BY <1>m DEF Listings
<1>3. IsFiniteSet(1..m) /\ Cardinality(1..m) = m
  BY FS_Interval
<1>4. \A i, j \in 1..m : s[i] = s[j] => i = j
  BY <1>2
<1>5. \A d \in S : \E k \in 1..m : s[k] = d
  <2>1. s \in Injection(1..m, S)
    BY <1>2, <1>4, Fun_IsInj, Zenon
  <2>2. s \in Surjection(1..m, S)
    BY <1>1, <1>m, <1>3, <2>1, FS_Injection
  <2> QED BY <2>2 DEF Surjection
<1>6. PICK k \in 1..m : s[k] = c
  BY <1>5
<1> DEFINE D == {d \in S : Before(d, c)}
           t == [i \in 1..(k - 1) |-> s[i]]
<1>7. k \in Nat /\ k - 1 \in Nat /\ \A i \in 1..(k - 1) : i \in 1..m /\ i < k
  BY <1>1, <1>6
<1>8. \A i \in 1..(k - 1) : s[i] \in D
  BY <1>2, <1>6, <1>7
<1>9. ASSUME NEW d \in D PROVE \E i \in 1..(k - 1) : s[i] = d
  <2>1. d \in S /\ Before(d, c) /\ d \in Complaint /\ c \in Complaint
    BY <1>9
  <2>2. PICK i \in 1..m : s[i] = d
    BY <1>5, <2>1
  <2>3. ~Before(c, d)
    BY <2>1, BeforeOrders
  <2>4. ~(k < i)
    BY <1>2, <1>6, <2>2, <2>3
  <2>5. i # k
    <3>1. ~Before(c, c)
      BY <2>1, BeforeOrders
    <3> QED BY <1>6, <2>1, <2>2, <3>1
  <2>6. i \in 1..(k - 1)
    BY <1>1, <1>6, <2>2, <2>4, <2>5
  <2> QED BY <2>2, <2>6
<1>10. t \in Bijection(1..(k - 1), D)
  <2>1. t \in [1..(k - 1) -> D] /\ \A i \in 1..(k - 1) : t[i] = s[i]
    BY <1>8
  <2> HIDE DEF t, D
  <2>2. \A i, j \in 1..(k - 1) : t[i] = t[j] => i = j
    BY <1>4, <1>7, <2>1
  <2>3. \A d \in D : \E i \in 1..(k - 1) : t[i] = d
    BY <1>9, <2>1
  <2> QED BY <2>1, <2>2, <2>3, Fun_IsBij
<1>11. Cardinality(D) = k - 1
  <2>1. IsFiniteSet(1..(k - 1)) /\ Cardinality(1..(k - 1)) = k - 1
    BY <1>7, FS_Interval
  <2>2. D \in SUBSET S
    OBVIOUS
  <2> HIDE DEF D, t
  <2>3. IsFiniteSet(D)
    BY <1>1, <2>2, FS_Subset
  <2>4. Cardinality(1..(k - 1)) = Cardinality(D)
    BY <1>10, <2>1, <2>3, FS_Bijection DEF ExistsBijection
  <2> QED BY <2>1, <2>4
<1>12. Rank(S, c) = k - 1
  BY <1>11 DEF Rank
<1>13. k = Rank(S, c) + 1
  BY <1>7, <1>12
<1> QED BY <1>m, <1>6, <1>13

\* What an answer leaves out is not within its page.
LEMMA PageIsWhole ==
  ASSUME TypeOK, NEW S \in SUBSET Stored, NEW s \in Listings(S), NEW p \in Nat \ {0}, NEW c \in S,
         \A i \in DOMAIN PageOf(s, p) : PageOf(s, p)[i].id # c
  PROVE  Rank(S, c) < (p - 1) * PAGE_SIZE \/ p * PAGE_SIZE <= Rank(S, c)
<1> DEFINE offset == (p - 1) * PAGE_SIZE
           last == IF offset + PAGE_SIZE < Len(s) THEN offset + PAGE_SIZE ELSE Len(s)
           items == SubSeq(s, offset + 1, last)
<1> USE Constants
<1>1. S \in SUBSET Complaint /\ Cardinality(S) \in Nat
  BY StoredType, CountBound
<1>2. s \in [1..Cardinality(S) -> S] /\ Len(s) \in Nat /\ Len(s) = Cardinality(S)
  BY <1>1 DEF Listings
<1>3. offset \in Nat /\ p * PAGE_SIZE \in Nat /\ offset + PAGE_SIZE = p * PAGE_SIZE
  BY Positions
<1> HIDE DEF offset
<1>4. PICK k \in 1..Cardinality(S) : s[k] = c /\ k = Rank(S, c) + 1
  BY <1>1, PlaceOf
<1>5. Rank(S, c) \in Nat
  BY <1>1, RankType
<1>6. SUFFICES ASSUME offset + 1 <= k, k <= offset + PAGE_SIZE PROVE FALSE
  BY <1>3, <1>4, <1>5 DEF offset
<1>7. last \in Nat /\ last <= Len(s) /\ k <= last
  BY <1>2, <1>3, <1>4, <1>6
<1> HIDE DEF last
<1>8. \A i \in (offset + 1)..last : s[i] \in S
  BY <1>2, <1>3, <1>7
<1>9. /\ items \in Seq(S) /\ Len(items) = last - (offset + 1) + 1
      /\ \A i \in 1..Len(items) : items[i] = s[offset + 1 + i - 1]
  BY <1>3, <1>6, <1>7, <1>4, <1>8, SubSeqProperties
<1> HIDE DEF items
<1>10. PICK i \in 1..Len(items) : offset + 1 + i - 1 = k
  <2>1. k \in Nat
    BY <1>1, <1>4
  <2>2. k - offset \in 1..(last - (offset + 1) + 1) /\ offset + 1 + (k - offset) - 1 = k
    BY <2>1, <1>3, <1>6, <1>7
  <2> QED BY <2>2, <1>9
<1>11. i \in DOMAIN items /\ items[i] = c
  BY <1>4, <1>9, <1>10, LenProperties
<1>12. PageOf(s, p) = [j \in DOMAIN items |-> Row(items[j])]
  BY DEF PageOf, items, last, offset
<1>13. i \in DOMAIN PageOf(s, p) /\ PageOf(s, p)[i] = Row(c)
  BY <1>11, <1>12
<1>14. Row(c).id = c
  BY StoredType
<1> QED BY <1>13, <1>14

----------------------------------------------------------------------------
\* What is stored stays stored.
LEMMA StoredGrows ==
  ASSUME TypeOK, Grows
  PROVE  Stored \subseteq Stored' /\ Stored' \subseteq Complaint
<1> SUFFICES ASSUME NEW c \in Stored PROVE c \in Stored'
  BY DEF Stored
<1>1. c \in Complaint /\ Len(history[c]) \in Nat \ {0}
  BY StoredType DEF Stored
<1>2. history'[c] \in Seq(Status) /\ Len(history'[c]) # 0
  BY <1>1 DEF Grows
<1>3. history'[c] # <<>>
  BY <1>2, EmptySeq
<1> QED BY <1>1, <1>3 DEF Stored

\* Whatever is filed later, what is missed stays beyond the pages shown.
LEMMA BeyondGrows ==
  ASSUME TypeOK, NEW T \in SUBSET Complaint, NEW S \in SUBSET T, Beyond(S)
  PROVE  Beyond(T)
<1> SUFFICES ASSUME walk.upto > 0
             PROVE  walk.there \subseteq T /\ \A c \in Missed : walk.upto * PAGE_SIZE <= Rank(T, c)
  BY DEF Beyond
<1>1. walk.there \subseteq S /\ \A c \in Missed : walk.upto * PAGE_SIZE <= Rank(S, c)
  BY DEF Beyond
<1>2. walk.upto * PAGE_SIZE \in Nat
  BY Constants DEF TypeOK
<1>3. ASSUME NEW c \in Missed PROVE walk.upto * PAGE_SIZE <= Rank(T, c)
  <2>1. Rank(S, c) \in Nat /\ Rank(T, c) \in Nat /\ Rank(S, c) <= Rank(T, c)
    BY RankType, RankGrows
  <2> QED BY <1>1, <1>2, <2>1
<1> QED BY <1>1, <1>3

\* A step that shows no other page: requests go on, are sent or end.
LEMMA WalkKept ==
  ASSUME IInv, WalkInv, Grows, UNCHANGED <<created, walk>>,
         data # None => data' # None /\ data'.query = data.query /\ data'.total = data.total,
         \A r \in out' : Answered(r) =>
           \/ r.at = Stored /\ Whole(r)
           \/ \E x \in out : /\ Answered(x) /\ r.n = x.n /\ r.at = x.at
                             /\ r.query = x.query /\ r.items = x.items
  PROVE  WalkInv'
<1>1. TypeOK /\ Stored \subseteq Complaint
  BY StoredType DEF IInv
<1>2. Stored \subseteq Stored' /\ Stored' \subseteq Complaint
  BY <1>1, StoredGrows
<1>3. \A S, c : Rank(S, c)' = Rank(S, c)
  BY DEF Rank, Before
<1>4. \A S : Beyond(S)' <=> Beyond(S)
  BY <1>3 DEF Beyond, Missed
<1>5. Beyond(Stored)'
  <2>1. Beyond(Stored')
    BY <1>1, <1>2, BeyondGrows DEF WalkInv
  <2> QED BY <1>3, <2>1 DEF Beyond, Missed
<1>6. ASSUME NEW r \in out', Answered(r) PROVE Whole(r)' /\ (r.n > walk'.since => Beyond(r.at)')
  <2>1. CASE r.at = Stored /\ Whole(r)
    BY <1>2, <1>3, <1>4, <2>1 DEF WalkInv, Whole, Ids
  <2>2. ASSUME NEW x \in out, Answered(x), r.n = x.n, r.at = x.at,
               r.query = x.query, r.items = x.items
        PROVE  Whole(r)' /\ (r.n > walk'.since => Beyond(r.at)')
    <3>1. Whole(x) /\ (x.n > walk.since => Beyond(x.at))
      BY <2>2 DEF WalkInv
    <3>2. Whole(r)'
      BY <1>2, <1>3, <2>2, <3>1 DEF Whole, Ids
    <3> QED BY <1>4, <2>2, <3>1, <3>2
  <2> QED BY <1>6, <2>1, <2>2
<1>7. Missed' = Missed
  BY DEF Missed
<1> QED BY <1>5, <1>6, <1>7 DEF WalkInv, Answered

\* Nothing has been shown yet, and nothing is answered.
LEMMA WalkInit == Init => WalkInv
<1> SUFFICES ASSUME Init PROVE WalkInv
  OBVIOUS
<1>1. walk.upto = 0 /\ \A q \in out : ~Answered(q)
  BY DEF Init, NewLoad, Answered
<1> QED BY <1>1 DEF WalkInv, Beyond

LEMMA FetchWalks == ASSUME IInv, WalkInv, NEW q \in out, Fetch(q) PROVE WalkInv'
<1> DEFINE S == {c \in Stored : Matches(c, q.query.filter)}
<1>1. q \in Load /\ q.query \in Query /\ q.query.page \in Nat \ {0} /\ TypeOK
  BY ItemTypes DEF Fetch, IInv, Query
<1>2. PICK s \in Listings(S) :
        out' = (out \ {q}) \cup
          {[q EXCEPT !.step = "answered", !.at = Stored, !.items = PageOf(s, q.query.page)]}
  BY DEF Fetch
<1>3. PICK r : r = [q EXCEPT !.step = "answered", !.at = Stored, !.items = PageOf(s, q.query.page)]
  OBVIOUS
<1>4. r.at = Stored /\ r.query = q.query /\ r.items = PageOf(s, q.query.page)
  BY <1>1, <1>3 DEF Load
<1>5. Whole(r)
  <2> SUFFICES ASSUME q.query.filter = None, NEW c \in Stored \ Ids(r)
               PROVE  \/ Rank(Stored, c) < (q.query.page - 1) * PAGE_SIZE
                      \/ q.query.page * PAGE_SIZE <= Rank(Stored, c)
    BY <1>4 DEF Whole
  <2>1. S = Stored
    BY DEF Matches
  <2>2. \A i \in DOMAIN PageOf(s, q.query.page) : PageOf(s, q.query.page)[i].id # c
    BY <1>4 DEF Ids
  <2> HIDE DEF S
  <2> QED BY <1>1, <2>1, <2>2, PageIsWhole
<1>6. out' = (out \ {q}) \cup {r}
      /\ UNCHANGED <<server, filter, page, loading, error, busy, sent, shown>>
  BY <1>2, <1>3 DEF Fetch
<1>7. Grows
  BY <1>1, <1>6, SameHistory DEF server
<1>8. \A x \in out' : Answered(x) => x = r \/ x \in out
  BY <1>6
<1> QED BY <1>4, <1>5, <1>6, <1>7, <1>8, WalkKept DEF server, shown

\* A request is replaced by one that brings no new answer, or ends.
LEMMA ServedWalks ==
  ASSUME IInv, WalkInv, Grows, UNCHANGED <<created, data, walk>>,
         \A r \in out' : r \in out \/ ~Answered(r)
  PROVE  WalkInv'
BY WalkKept

LEMMA SentWalks ==
  ASSUME IInv, WalkInv, NEW q, ~Answered(q), Send(q), UNCHANGED <<created, history, data, walk>>
  PROVE  WalkInv'
<1>1. \A r \in out' : r \in out \/ ~Answered(r)
  BY DEF Send
<1>2. Grows
  BY SameHistory DEF IInv
<1> QED BY <1>1, <1>2, WalkKept

LEMMA LoadSentWalks ==
  ASSUME IInv, WalkInv, NEW f, NEW p, SendLoad(f, p), UNCHANGED <<server, shown>>
  PROVE  WalkInv'
<1>1. ~Answered(NewLoad(sent + 1, f, p))
  BY DEF NewLoad, Answered
<1> QED BY <1>1, SentWalks DEF SendLoad, server, shown

\* The answer to a change replaces rows, not the page.
LEMMA MovedWalks == ASSUME IInv, WalkInv, NEW q \in out, Moved(q) PROVE WalkInv'
<1>1. out' = out \ {q} /\ UNCHANGED <<server, walk>>
  BY DEF Moved
<1>2. data # None => data' # None /\ data'.query = data.query /\ data'.total = data.total
  BY MovedTable
<1>3. Grows
  BY <1>1, SameHistory DEF IInv, server
<1> QED BY <1>1, <1>2, <1>3, WalkKept DEF server

\* The answer of a load is shown. A first page begins a walk; the next one goes on
\* with it: what it leaves out of what was missed is on no page shown so far.
LEMMA LoadedWalks == ASSUME IInv, WalkInv, NEW q \in out, Loaded(q) PROVE WalkInv'
<1> DEFINE size == Cardinality(q.at)
           p == q.query.page
<1>1. /\ Answered(q) /\ q \in Load /\ TypeOK /\ Stored \subseteq Complaint
      /\ q.query \in Query /\ p \in Nat \ {0} /\ q.at \in SUBSET Complaint /\ q.total \in 0..N
  BY ItemTypes, StoredType DEF Loaded, IInv, Answered, Load, Query
<1>2. /\ data' = [items |-> q.items, total |-> q.total, n |-> q.n, query |-> q.query]
      /\ out' = out \ {q} /\ Walk(q) /\ UNCHANGED <<server, sent>>
  BY DEF Loaded
<1>3. data' # None /\ data'.total = q.total /\ data'.query = q.query
  <2>1. data' \in Table
    BY <1>1, <1>2, ItemTypes DEF Table
  <2> QED BY <1>2, <2>1, Constants
<1>4. Whole(q) /\ (q.n > walk.since => Beyond(q.at))
  BY <1>1 DEF WalkInv
<1>5. /\ \A S, c : Rank(S, c)' = Rank(S, c)
      /\ Stored' = Stored
  BY <1>2 DEF Rank, Before, Stored, server
<1>6. \A r \in out' : Answered(r)' => r \in out /\ Answered(r) /\ Whole(r) /\ Whole(r)' /\ r.n <= sent /\ r.n \in Nat
  <2> SUFFICES ASSUME NEW r \in out, Answered(r) PROVE Whole(r) /\ Whole(r)' /\ r.n <= sent /\ r.n \in Nat
    BY <1>2 DEF Answered
  <2>1. Whole(r) /\ r.n <= sent
    BY DEF WalkInv, IInv, TypeOK
  <2>2. r \in Load
    BY ItemTypes DEF IInv, Answered
  <2> QED BY <1>5, <2>1, <2>2 DEF Whole, Ids, Load
<1>7. sent \in Nat
  BY <1>1, Constants DEF TypeOK
<1>8. walk \in [upto : Nat, since : Nat, there : SUBSET Complaint, seen : SUBSET Complaint, size : Nat]
  BY <1>1 DEF TypeOK
<1>9. CASE walk' = [walk EXCEPT !.upto = 0]
  <2>1. walk'.upto = 0
    BY <1>8, <1>9
  <2> QED BY <1>6, <2>1 DEF WalkInv, Beyond
<1>10. ASSUME q.query.filter = None, walk'.upto = p, walk'.since = sent, walk'.size = size,
              walk'.there \subseteq q.at, walk'.there \ walk'.seen \subseteq q.at \ Ids(q),
              \A c \in walk'.there \ walk'.seen : (p - 1) * PAGE_SIZE <= Rank(q.at, c)
       PROVE  WalkInv'
  <2>1. ASSUME NEW c \in walk'.there \ walk'.seen PROVE p * PAGE_SIZE <= Rank(q.at, c)
    <3>1. Rank(q.at, c) < (p - 1) * PAGE_SIZE \/ p * PAGE_SIZE <= Rank(q.at, c)
      BY <1>4, <1>10 DEF Whole
    <3>2. Rank(q.at, c) \in Nat /\ (p - 1) * PAGE_SIZE \in Nat /\ (p - 1) * PAGE_SIZE <= Rank(q.at, c)
      BY <1>1, <1>10, RankType, Positions
    <3> HIDE DEF p
    <3> QED BY <3>1, <3>2
  <2>2. ASSUME NEW c \in walk'.there \ walk'.seen
        PROVE  Rank(q.at, c) <= Rank(Stored, c) /\ Rank(q.at, c) \in Nat /\ Rank(Stored, c) \in Nat
    BY <1>1, <1>4, RankGrows, RankType DEF Whole
  <2>3. Beyond(Stored)'
    <3>1. walk'.there \subseteq Stored
      BY <1>4, <1>10 DEF Whole
    <3>2. \A c \in walk'.there \ walk'.seen : p * PAGE_SIZE <= Rank(Stored, c)
      BY <1>1, <2>1, <2>2, Positions
    <3> QED BY <1>5, <1>10, <3>1, <3>2 DEF Beyond, Missed
  <2>4. \A r \in out' : Answered(r)' => Whole(r)' /\ ~(r.n > walk'.since)
    BY <1>6, <1>7, <1>10
  <2>5. data'.query = [filter |-> None, page |-> walk'.upto]
    BY <1>1, <1>3, <1>10 DEF Query
  <2>6. ASSUME walk'.there \ walk'.seen # {}
        PROVE  p * PAGE_SIZE + Cardinality(walk'.there \ walk'.seen) <= size
    <3> DEFINE M == walk'.there \ walk'.seen
               k == p * PAGE_SIZE
    <3>1. M \in SUBSET q.at /\ M # {} /\ k \in Nat /\ \A c \in M : k <= Rank(q.at, c)
      BY <1>1, <1>10, <2>1, <2>6, Positions
    <3> HIDE DEF M, k
    <3>2. k + Cardinality(M) <= Cardinality(q.at)
      BY <1>1, <3>1, RoomBeyond
    <3> QED BY <3>2 DEF M, k
  <2> QED BY <1>3, <1>10, <2>3, <2>4, <2>5, <2>6 DEF WalkInv, Missed
<1>11. CASE q.query.filter = None /\ p = 1 /\
            walk' = [upto |-> 1, since |-> sent, there |-> q.at, seen |-> Ids(q), size |-> size]
  <2>1. \A c : (p - 1) * PAGE_SIZE <= Rank(q.at, c)
    BY <1>1, <1>11, RankType, Constants
  <2> QED BY <1>10, <1>11, <2>1
<1>12. CASE q.query.filter = None /\ walk.upto > 0 /\ p = walk.upto + 1 /\ q.n > walk.since /\
            walk' = [walk EXCEPT !.upto = @ + 1, !.since = sent, !.seen = @ \cup Ids(q), !.size = size]
  <2>1. /\ walk'.upto = p /\ walk'.since = sent /\ walk'.size = size
        /\ walk'.there = walk.there /\ walk'.seen = walk.seen \cup Ids(q)
    BY <1>8, <1>12
  <2>2. walk.there \subseteq q.at /\ \A c \in walk.there \ walk.seen : walk.upto * PAGE_SIZE <= Rank(q.at, c)
    BY <1>4, <1>12 DEF Beyond, Missed
  <2>3. p - 1 = walk.upto
    BY <1>8, <1>12
  <2> QED BY <1>10, <1>12, <2>1, <2>2, <2>3
<1>13. \/ walk' = [walk EXCEPT !.upto = 0]
       \/ /\ q.query.filter = None /\ p = 1
          /\ walk' = [upto |-> 1, since |-> sent, there |-> q.at, seen |-> Ids(q), size |-> size]
       \/ /\ q.query.filter = None /\ walk.upto > 0 /\ p = walk.upto + 1 /\ q.n > walk.since
          /\ walk' = [walk EXCEPT !.upto = @ + 1, !.since = sent, !.seen = @ \cup Ids(q), !.size = size]
  <2> HIDE DEF p, size
  <2>1. walk' = CASE q.query.filter = None /\ p = 1 ->
                       [upto |-> 1, since |-> sent, there |-> q.at, seen |-> Ids(q), size |-> size]
                  [] q.query.filter = None /\ walk.upto > 0 /\ p = walk.upto + 1 /\ q.n > walk.since ->
                       [walk EXCEPT !.upto = @ + 1, !.since = sent, !.seen = @ \cup Ids(q), !.size = size]
                  [] OTHER -> [walk EXCEPT !.upto = 0]
    BY <1>2 DEF Walk, Ids, p, size
  <2> QED BY <2>1
<1> QED BY <1>9, <1>11, <1>12, <1>13

LEMMA WalkStep == IInv /\ WalkInv /\ [Next]_vars => WalkInv'
<1> SUFFICES ASSUME IInv, WalkInv, [Next]_vars PROVE WalkInv'
  OBVIOUS
<1>0. TypeOK /\ (UNCHANGED history => Grows)
  BY SameHistory DEF IInv
<1>1. ASSUME NEW c \in Complaint, Commit(c) PROVE WalkInv'
  <2>1. /\ history[c] = <<>> /\ history' = [history EXCEPT ![c] = <<"open">>]
        /\ UNCHANGED <<created, out, shown>>
    BY <1>1 DEF Commit
  <2>2. history' = [history EXCEPT ![c] = Append(history[c], "open")]
    BY <2>1
  <2> QED BY <1>0, <2>1, <2>2, StatusTypes, AppendGrows, ServedWalks DEF shown
<1>2. ASSUME NEW c \in Complaint, NEW t \in Status, MovedByOther(c, t) PROVE WalkInv'
  BY <1>0, <1>2, AppendGrows, ServedWalks DEF MovedByOther, shown
<1>3. ASSUME NEW f \in Filters, SetFilter(f) PROVE WalkInv'
  BY <1>3, LoadSentWalks DEF SetFilter
<1>4. ASSUME Refresh \/ Previous \/ NextPage PROVE WalkInv'
  BY <1>4, LoadSentWalks DEF Refresh, Previous, NextPage
<1>5. ASSUME NEW row \in Shown, NEW t \in Status, Move(row, t) PROVE WalkInv'
  <2>1. ~Answered(NewChange(row.id, t))
    BY DEF NewChange, Answered
  <2> QED BY <1>5, <2>1, SentWalks DEF Move, server, shown
<1>6. ASSUME NEW q \in out, Count(q) PROVE WalkInv'
  <2>1. q \in Load
    BY <1>0, <1>6, ItemTypes DEF Count
  <2>2. \A r \in out' : r \in out \/ ~Answered(r)
    BY <1>6, <2>1 DEF Count, Answered, Load
  <2> QED BY <1>0, <1>6, <2>2, ServedWalks DEF Count, server, shown
<1>7. ASSUME NEW q \in out, ChangeStatus(q) PROVE WalkInv'
  <2>1. q \in Change /\ q.id \in Complaint /\ q.target \in Status
    BY <1>0, <1>7, ItemTypes DEF ChangeStatus, Change
  <2>2. \A r \in out' : r \in out \/ ~Answered(r)
    <3>1. q.kind = "change"
      BY <1>7 DEF ChangeStatus
    <3>2. \A items : [q EXCEPT !.step = "answered", !.items = items].kind = q.kind
      BY <2>1 DEF Change
    <3>3. [q EXCEPT !.step = "answered"].kind = q.kind
      BY <2>1 DEF Change
    <3>4. ASSUME NEW r \in out', r \notin out PROVE r.kind = q.kind
      <4>1. CASE can_transition(StatusOf(q.id), q.target)
        <5>1. \E items : out' = (out \ {q}) \cup {[q EXCEPT !.step = "answered", !.items = items]}
          BY <1>7, <4>1 DEF ChangeStatus
        <5> QED BY <3>2, <3>4, <5>1
      <4>2. CASE ~can_transition(StatusOf(q.id), q.target)
        BY <1>7, <3>3, <3>4, <4>2 DEF ChangeStatus
      <4> QED BY <4>1, <4>2
    <3> QED BY <3>1, <3>4 DEF Answered
  <2>3. Grows
    <3>1. CASE UNCHANGED history
      BY <1>0, <3>1
    <3>2. CASE history' = [history EXCEPT ![q.id] = Append(history[q.id], q.target)]
      BY <1>0, <2>1, <3>2, AppendGrows
    <3>3. \/ UNCHANGED history
          \/ history' = [history EXCEPT ![q.id] = Append(history[q.id], q.target)]
      BY <1>7 DEF ChangeStatus
    <3> QED BY <3>1, <3>2, <3>3
  <2> QED BY <1>7, <2>2, <2>3, ServedWalks DEF ChangeStatus, shown
<1>8. ASSUME NEW q \in out, LoadFailed(q) \/ MoveFailed(q) PROVE WalkInv'
  BY <1>0, <1>8, ServedWalks DEF LoadFailed, MoveFailed, server, shown
<1>9. ASSUME UNCHANGED vars PROVE WalkInv'
  BY <1>0, <1>9, ServedWalks DEF vars
<1>10. Others \/ User => WalkInv'
  BY <1>1, <1>2, <1>3, <1>4, <1>5 DEF Others, User
<1>11. Serve \/ Deliver => WalkInv'
  BY <1>6, <1>7, <1>8, FetchWalks, LoadedWalks, MovedWalks DEF Serve, Deliver
<1> QED BY <1>9, <1>10, <1>11 DEF Next

\* What a walk has missed so far is beyond its pages in every list it may be shown:
\* the invariant of paging by OFFSET through a list that only grows
\* (complaint_repository.py:77-87).
THEOREM WalkInvariance == Spec => []WalkInv
<1> QED BY Invariance, WalkInit, WalkStep, PTL DEF Spec

\* Whoever pages through the whole list to where Next is disabled has seen all that
\* was there at the start (complaint_repository.py:77-87, DashboardPage.tsx:172), but
\* for as many as came between the two statements of the last page: what is filed
\* meanwhile may repeat rows, and skips one only where it was not counted.
THEOREM WalksMissOnlyTheUncounted == Spec => []WalkMissesOnlyTheUncounted
<1>1. IInv /\ WalkInv => WalkMissesOnlyTheUncounted
  <2> SUFFICES ASSUME IInv, WalkInv, walk.upto > 0, walk.upto >= TotalPages, Missed # {}
               PROVE  data.total + Cardinality(Missed) <= walk.size
    BY DEF WalkMissesOnlyTheUncounted, Missed
  <2>1. data # None /\ walk.upto * PAGE_SIZE + Cardinality(Missed) <= walk.size
    BY DEF WalkInv
  <2>2. walk.upto \in Nat \ {0} /\ data.total \in Nat /\ walk.size \in Nat
    BY <2>1, Constants DEF IInv, TypeOK, Table
  <2>3. Cardinality(Missed) \in Nat
    <3>1. Missed \in SUBSET Complaint
      BY DEF Missed, IInv, TypeOK
    <3> QED BY <3>1, CountBound, Constants
  <2>4. walk.upto * PAGE_SIZE \in Nat
    BY <2>2, Constants
  <2>5. data.total <= walk.upto * PAGE_SIZE
    <3>1. CASE data.total = 0
      BY <2>4, <3>1
    <3>2. CASE data.total # 0
      <4>1. TotalPages = (data.total + PAGE_SIZE - 1) \div PAGE_SIZE
        BY <2>1, <3>2 DEF TotalPages
      <4>2. TotalPages \in Nat
        <5>1. data.total + PAGE_SIZE - 1 \in Nat /\ PAGE_SIZE \in Nat \ {0}
          BY <2>2, Constants
        <5>2. (data.total + PAGE_SIZE - 1) \div PAGE_SIZE \in Nat
          BY <5>1, Division
        <5> QED BY <4>1, <5>2, Zenon
      <4>3. TotalPages <= walk.upto
        BY <2>2, <4>2
      <4>4. (data.total + PAGE_SIZE - 1) \div PAGE_SIZE <= walk.upto /\ walk.upto \in Nat
        BY <2>2, <4>1, <4>3, Zenon
      <4> QED BY <2>2, <4>4, PagesHold, Zenon
    <3> QED BY <3>1, <3>2
  <2> QED BY <2>1, <2>2, <2>3, <2>4, <2>5
<1> QED BY <1>1, Invariance, WalkInvariance, PTL
=============================================================================
