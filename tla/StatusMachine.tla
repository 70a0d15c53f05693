---------------------------- MODULE StatusMachine ----------------------------
(***************************************************************************)
(* What the complaint endpoints promise, without threads, transactions or  *)
(* locks: every request takes effect at one instant, at most once, and the *)
(* status of a complaint only ever moves along the transition table.       *)
(***************************************************************************)
EXTENDS Domain

CONSTANTS
  Req,    \* requests
  Id,     \* complaint ids
  None    \* "nothing yet"

VARIABLES
  status,   \* status[i]: the status of complaint i, Absent before it exists
  effect    \* effect[r]: what request r did or observed, None until then

vars == <<status, effect>>

Init ==
  /\ status \in [Id -> Status \cup {Absent}]
  /\ effect = [r \in Req |-> None]

\* Request r takes effect: it acts on i, which it found in `from` and leaves in `to`.
Acts(r, act, i, from, to) ==
  /\ effect[r] = None
  /\ status[i] = from
  /\ effect' = [effect EXCEPT ![r] = [act |-> act, id |-> i, from |-> from, to |-> to]]

\* A complaint is filed: it did not exist, it is open now.
File(r, i) ==
  /\ Acts(r, "create", i, Absent, "open")
  /\ status' = [status EXCEPT ![i] = "open"]

\* An operator moves a complaint along an edge of the table.
Move(r, i, from, to) ==
  /\ can_transition(from, to)
  /\ Acts(r, "change", i, from, to)
  /\ status' = [status EXCEPT ![i] = to]

\* A move that is no edge of the table is refused and changes nothing.
Refuse(r, i, from, to) ==
  /\ ~can_transition(from, to)
  /\ Acts(r, "refuse", i, from, to)
  /\ UNCHANGED status

\* A request for a complaint that does not exist.
Miss(r, i) ==
  /\ Acts(r, "miss", i, Absent, Absent)
  /\ UNCHANGED status

\* A read answers with the status of one instant.
Read(r, i, s) ==
  /\ Acts(r, "get", i, s, s)
  /\ UNCHANGED status

Next ==
  \E r \in Req, i \in Id :
    \/ File(r, i)
    \/ Miss(r, i)
    \/ \E s \in Status : Read(r, i, s)
    \/ \E s, t \in Status : Move(r, i, s, t) \/ Refuse(r, i, s, t)

Spec == Init /\ [][Next]_vars
=============================================================================
