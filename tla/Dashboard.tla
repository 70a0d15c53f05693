------------------------------ MODULE Dashboard ------------------------------
(***************************************************************************)
(* The operations dashboard in one browser and the list it pages through:    *)
(* loads of a page under a filter, status changes of the rows on the screen, *)
(* their answers in any order or none at all, while complaints are filed and *)
(* moved by others.                                                        *)
(*                                                                         *)
(* GET /api/complaints counts and selects in two statements, and the list    *)
(* grows where created_at says: at the head as a rule, but created_at is what *)
(* the replica's clock said when the row was made, and it may be committed    *)
(* after one that was made later.                                            *)
(* Of the three filters only that of the status selects by what changes.     *)
(***************************************************************************)
EXTENDS Domain, Integers, Sequences, FiniteSets

CONSTANTS
  N,           \* complaints there can be, named by ids 1..N
  PAGE_SIZE,
  None,
  Filters,     \* statuses to select, and None for all
  MaxRequests, \* bound: requests the page sends
  MaxChanges   \* bound: status changes

ASSUME DashboardAssumption ==
  /\ N \in Nat \ {0} /\ PAGE_SIZE \in Nat \ {0}
  /\ MaxRequests \in Nat \ {0} /\ MaxChanges \in Nat
  /\ None \notin 1..N /\ None \notin Status
  /\ None \in Filters /\ Filters \subseteq Status \cup {None}

VARIABLES
  created,  \* created[c]: created_at of c, known before it is committed; two may be equal
  history,  \* history[c]: the statuses c has had, <<>> until it is committed
  filter,   \* the status selected, None for all
  page,     \* the page selected
  data,     \* what the table shows: rows and total, and (ghosts) the load they came
            \* with and its query; or None
  loading, error, busy,  \* of the component
  out,      \* requests under way
  sent,     \* bound: how many so far
  latest,   \* ghost: the newest load whose answer has been shown
  mine,     \* ghost: mine[c]: what this page was last told of a change it made to c: the
            \* length of history[c]; and the load then on the screen, and how many
            \* requests had then been sent
  walk      \* ghost: the pages asked for and shown one after the other, from the first

vars == <<created, history, filter, page, data, loading, error, busy, out, sent, latest, mine, walk>>
server == <<created, history>>
shown == <<data, latest, mine, walk>>

----------------------------------------------------------------------------
Complaint == 1..N
Stored == {c \in Complaint : history[c] # <<>>}
StatusOf(c) == history[c][Len(history[c])]

\* A row of an answer; version (ghost) tells how often its status had changed.
Row(c) == [id |-> c, status |-> StatusOf(c), version |-> Len(history[c])]
Rows == [id : Complaint, status : Status, version : Nat \ {0}]

Query == [filter : Filters, page : Nat \ {0}]

\* What the table shows of an answer.
Table == [items : Seq(Rows), total : 0..N, n : Nat \ {0}, query : Query]

ASSUME NoneAssumption == None \notin Table

\* The requests under way: loads, and changes of a status, numbered as they were
\* sent. An answer carries rows; at (ghost): what was stored when they were selected.
Load == [n : Nat \ {0}, kind : {"load"}, at : SUBSET Complaint,
         step : {"sent", "counted", "answered"},
         query : Query, total : 0..N, items : Seq(Rows)]
Change == [n : Nat \ {0}, kind : {"change"}, step : {"sent", "answered"},
           id : Complaint, target : Status, items : Seq(Rows)]

TypeOK ==
  /\ created \in [Complaint -> Complaint]
  /\ history \in [Complaint -> Seq(Status)]
  /\ filter \in Filters /\ page \in Nat \ {0}
  /\ data \in Table \cup {None}
  /\ data # None => Len(data.items) <= PAGE_SIZE
  /\ loading \in BOOLEAN /\ error \in BOOLEAN
  /\ busy \in Complaint \cup {None}
  /\ out \in SUBSET (Load \cup Change)
  /\ \A q \in out : q.n <= sent /\ Len(q.items) <= PAGE_SIZE
  /\ \A q, r \in out : q.n = r.n => q = r
  /\ sent \in 1..MaxRequests
  /\ latest \in Nat
  /\ mine \in [Complaint -> [version : Nat, load : Nat, sent : Nat]]
  /\ walk \in [upto : Nat, since : Nat, there : SUBSET Complaint, seen : SUBSET Complaint, size : Nat]

NewLoad(n, f, p) ==
  [n |-> n, kind |-> "load", at |-> {}, step |-> "sent",
   query |-> [filter |-> f, page |-> p], total |-> 0, items |-> <<>>]

\* The page is mounted: its effect loads page 1 of everything.
Init ==
  /\ created \in [Complaint -> Complaint]
  /\ history = [c \in Complaint |-> <<>>]
  /\ filter = None /\ page = 1
  /\ data = None
  /\ loading = TRUE /\ error = FALSE /\ busy = None
  /\ out = {NewLoad(1, None, 1)}
  /\ sent = 1
  /\ latest = 0
  /\ mine = [c \in Complaint |-> [version |-> 0, load |-> 0, sent |-> 0]]
  /\ walk = [upto |-> 0, since |-> 0, there |-> {}, seen |-> {}, size |-> 0]

----------------------------------------------------------------------------
\* The server. Complaints are filed and moved by others too.

\* The transaction that inserts c commits.
Commit(c) ==
  /\ history[c] = <<>>
  /\ history' = [history EXCEPT ![c] = <<"open">>]
  /\ UNCHANGED <<created, filter, page, loading, error, busy, out, sent, shown>>

Changes == {v \in Complaint \X (2..MaxChanges + 1) : v[2] <= Len(history[v[1]])}
Movable(c, t) ==
  c \in Stored /\ can_transition(StatusOf(c), t) /\ Cardinality(Changes) < MaxChanges

MovedByOther(c, t) ==
  /\ Movable(c, t)
  /\ history' = [history EXCEPT ![c] = Append(@, t)]
  /\ UNCHANGED <<created, filter, page, loading, error, busy, out, sent, shown>>

Matches(c, f) == f = None \/ StatusOf(c) = f

\* The first statement of list(): how many match.
Count(q) ==
  /\ q.kind = "load" /\ q.step = "sent"
  /\ LET total == Cardinality({c \in Stored : Matches(c, q.query.filter)})
     IN  out' = (out \ {q}) \cup {[q EXCEPT !.step = "counted", !.total = total]}
  /\ UNCHANGED <<server, filter, page, loading, error, busy, sent, shown>>

\* Mutant: ORDER BY created_at DESC alone, ties in any order.
Before_Ties(c, d) == created[c] >= created[d]

\* ORDER BY created_at DESC, id
Before(c, d) == created[c] > created[d] \/ (created[c] = created[d] /\ c < d)

\* The orders in which S may be answered; one, if Before is total.
Listings(S) ==
  {s \in [1..Cardinality(S) -> S] :
     \A i, j \in 1..Cardinality(S) : i < j => s[i] # s[j] /\ Before(s[i], s[j])}

\* OFFSET (page - 1) * page_size LIMIT page_size
PageOf(s, p) ==
  LET offset == (p - 1) * PAGE_SIZE
      last == IF offset + PAGE_SIZE < Len(s) THEN offset + PAGE_SIZE ELSE Len(s)
      items == SubSeq(s, offset + 1, last)
  IN  [i \in DOMAIN items |-> Row(items[i])]

\* The second statement.
Fetch(q) ==
  /\ q.kind = "load" /\ q.step = "counted"
  /\ \E s \in Listings({c \in Stored : Matches(c, q.query.filter)}) :
       out' = (out \ {q}) \cup
         {[q EXCEPT !.step = "answered", !.at = Stored, !.items = PageOf(s, q.query.page)]}
  /\ UNCHANGED <<server, filter, page, loading, error, busy, sent, shown>>

\* PATCH: the row as it is after the commit, or 409 without one.
ChangeStatus(q) ==
  /\ q.kind = "change" /\ q.step = "sent"
  /\ IF can_transition(StatusOf(q.id), q.target)
       THEN /\ Movable(q.id, q.target)
            /\ history' = [history EXCEPT ![q.id] = Append(@, q.target)]
            /\ out' = (out \ {q}) \cup {[q EXCEPT !.step = "answered", !.items =
                 <<[id |-> q.id, status |-> q.target, version |-> Len(history[q.id]) + 1]>>]}
       ELSE /\ out' = (out \ {q}) \cup {[q EXCEPT !.step = "answered"]}
            /\ UNCHANGED history
  /\ UNCHANGED <<created, filter, page, loading, error, busy, sent, shown>>

----------------------------------------------------------------------------
\* The page.

Send(q) ==
  /\ sent < MaxRequests
  /\ sent' = sent + 1
  /\ out' = out \cup {q}

\* load(): the request of the filter and the page as they are (now).
SendLoad(f, p) ==
  /\ Send(NewLoad(sent + 1, f, p))
  /\ loading' = TRUE /\ error' = FALSE

\* Mutant: the effect does not depend on the filters.
SetFilter_NoLoad(f) ==
  /\ f # filter
  /\ filter' = f /\ page' = 1
  /\ UNCHANGED <<server, loading, error, out, sent, busy, shown>>

\* Filters can be changed at any time; the page is then the first.
SetFilter(f) ==
  /\ f # filter
  /\ filter' = f /\ page' = 1
  /\ SendLoad(f, 1)
  /\ UNCHANGED <<server, busy, shown>>

TotalPages == IF data = None \/ data.total = 0 THEN 1 ELSE (data.total + PAGE_SIZE - 1) \div PAGE_SIZE

Refresh ==
  /\ ~loading
  /\ SendLoad(filter, page)
  /\ UNCHANGED <<server, filter, page, busy, shown>>

\* Mutant: the button is not disabled on the first page.
Previous_Always ==
  /\ ~loading
  /\ page' = page - 1
  /\ SendLoad(filter, page - 1)
  /\ UNCHANGED <<server, filter, busy, shown>>

Previous ==
  /\ page > 1 /\ ~loading
  /\ page' = page - 1
  /\ SendLoad(filter, page - 1)
  /\ UNCHANGED <<server, filter, busy, shown>>

NextPage ==
  /\ page < TotalPages /\ ~loading
  /\ page' = page + 1
  /\ SendLoad(filter, page + 1)
  /\ UNCHANGED <<server, filter, busy, shown>>

Shown == IF data = None THEN {} ELSE {data.items[i] : i \in DOMAIN data.items}
NewChange(c, t) ==
  [n |-> sent + 1, kind |-> "change", step |-> "sent",
   id |-> c, target |-> t, items |-> <<>>]

\* Mutant: the row shows the target at once.
Move_Optimistic(row, t) ==
  /\ busy # row.id /\ t # row.status
  /\ busy' = row.id
  /\ Send(NewChange(row.id, t))
  /\ data' = [data EXCEPT !.items = [i \in DOMAIN @ |-> IF @[i].id = row.id THEN [@[i] EXCEPT !.status = t] ELSE @[i]]]
  /\ UNCHANGED <<server, filter, page, loading, error, latest, mine, walk>>

\* move(): any status but the row's own can be chosen, unless it is the busy row.
Move(row, t) ==
  /\ busy # row.id /\ t # row.status
  /\ busy' = row.id
  /\ Send(NewChange(row.id, t))
  /\ UNCHANGED <<server, filter, page, loading, error, shown>>

\* Ghost: page after page of the unfiltered list, each asked for after the one
\* before it was shown.
Walk(q) == walk' =
  LET ids == {q.items[i].id : i \in DOMAIN q.items}
      size == Cardinality(q.at)
      all == q.query.filter = None
  IN CASE all /\ q.query.page = 1 ->
            [upto |-> 1, since |-> sent, there |-> q.at, seen |-> ids, size |-> size]
       [] all /\ walk.upto > 0 /\ q.query.page = walk.upto + 1 /\ q.n > walk.since ->
            [walk EXCEPT !.upto = @ + 1, !.since = sent, !.seen = @ \cup ids, !.size = size]
       [] OTHER -> [walk EXCEPT !.upto = 0]

\* The answer of a load replaces the table, whatever is selected by now.
Loaded(q) ==
  /\ q.kind = "load" /\ q.step = "answered"
  /\ data' = [items |-> q.items, total |-> q.total, n |-> q.n, query |-> q.query]
  /\ loading' = FALSE
  /\ out' = out \ {q}
  /\ latest' = (IF latest < q.n THEN q.n ELSE latest) /\ Walk(q)
  /\ UNCHANGED <<server, filter, page, error, busy, sent, mine>>

\* Mutant: setLoading(false) outside the finally.
LoadFailed_StaysLoading(q) ==
  /\ q.kind = "load" /\ q.step = "sent"
  /\ error' = TRUE
  /\ out' = out \ {q}
  /\ UNCHANGED <<server, filter, page, loading, busy, sent, shown>>

\* It fails: an error is shown, over the table as it was. (What the server did for
\* it makes no difference.)
LoadFailed(q) ==
  /\ q.kind = "load" /\ q.step = "sent"
  /\ error' = TRUE /\ loading' = FALSE
  /\ out' = out \ {q}
  /\ UNCHANGED <<server, filter, page, busy, sent, shown>>

\* Ghost: what the page is told of its change, and when.
Told(q) == [version |-> q.items[1].version, load |-> IF data = None THEN 0 ELSE data.n, sent |-> sent]

\* Mutant: the row is left as it is.
Moved_NotShown(q) ==
  /\ q.kind = "change" /\ q.step = "answered" /\ q.items # <<>>
  /\ mine' = [mine EXCEPT ![q.id] = Told(q)]
  /\ busy' = None /\ out' = out \ {q}
  /\ UNCHANGED <<server, filter, page, data, loading, error, sent, latest, walk>>

\* The row of the answer replaces the one in the table, if it is still there.
Moved(q) ==
  /\ q.kind = "change" /\ q.step = "answered" /\ q.items # <<>>
  /\ data' = IF data = None THEN None ELSE
       [data EXCEPT !.items = [i \in DOMAIN @ |-> IF @[i].id = q.id THEN q.items[1] ELSE @[i]]]
  /\ mine' = [mine EXCEPT ![q.id] = Told(q)]
  /\ busy' = None /\ out' = out \ {q}
  /\ UNCHANGED <<server, filter, page, loading, error, sent, latest, walk>>

\* 409, or no answer, though the change may be committed.
MoveFailed(q) ==
  /\ q.kind = "change"
  /\ q.step = "answered" => q.items = <<>>
  /\ busy' = None /\ out' = out \ {q}
  /\ UNCHANGED <<server, filter, page, loading, error, sent, shown>>

----------------------------------------------------------------------------
Others == \E c \in Complaint : Commit(c) \/ \E t \in Status : MovedByOther(c, t)
User ==
  \/ \E f \in Filters : SetFilter(f)
  \/ Refresh \/ Previous \/ NextPage
  \/ \E row \in Shown, t \in Status : Move(row, t)
Serve == \E q \in out : Count(q) \/ Fetch(q) \/ ChangeStatus(q)
Deliver == \E q \in out : Loaded(q) \/ LoadFailed(q) \/ Moved(q) \/ MoveFailed(q)

Next == Others \/ User \/ Serve \/ Deliver

Spec == Init /\ [][Next]_vars

----------------------------------------------------------------------------
\* When no load is under way and no error is shown, the table shows the filter and
\* the page that are selected, whatever was sent meanwhile and in whatever order it
\* was answered. Only one thing makes it show another selection: the answer of an
\* older load that was overtaken by a newer one's (DashboardPage.tsx:26-48).
TableAnswersTheQuery ==
  (\A q \in out : q.kind # "load") /\ ~error =>
    data # None /\ (data.query = [filter |-> filter, page |-> page] \/ data.n < latest)

\* Whoever pages through the whole list, asking for a page when the one before is
\* shown, to where Next is disabled has seen every complaint that was there at the
\* start, however many were filed meanwhile and in whatever order they came in,
\* but for as many as came between the two statements of the last page, which is
\* counted without them (complaint_repository.py:77-87).
WalkMissesOnlyTheUncounted ==
  LET missed == walk.there \ walk.seen
  IN  walk.upto > 0 /\ walk.upto >= TotalPages /\ missed # {} =>
        data.total + Cardinality(missed) <= walk.size

\* A row shows a status the complaint has had; never one that was only asked for
\* and refused (DashboardPage.tsx:50-62).
ShownWasTrue == \A row \in Shown : history[row.id][row.version] = row.status

\* What this page has changed stays changed on it: the rows on the screen when it
\* is told of a change, and those of every load sent after that, are at least as new
\* as the change. Only a load that was sent before and answered after can take it
\* back (DashboardPage.tsx:53-54).
OwnChangesAreShown ==
  \A row \in Shown : LET told == mine[row.id] IN
    row.version < told.version => data.n # told.load /\ data.n <= told.sent

\* The buttons are disabled only while an answer is to be waited for: no failure
\* leaves the page loading for ever (DashboardPage.tsx:37-41).
ButtonsComeBack == loading => \E q \in out : q.kind = "load"
=============================================================================
