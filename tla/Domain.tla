------------------------------- MODULE Domain -------------------------------
(***************************************************************************)
(* The vocabulary of complaints and the status state machine, as the       *)
(* explicit transition table of backend/app/domain.py states it.           *)
(***************************************************************************)

Status == {"open", "in_progress", "resolved", "rejected"}

\* What a complaint that is not in the table looks like to a SELECT.
Absent == "absent"

TRANSITIONS ==
  [ open        |-> {"in_progress", "rejected"},
    in_progress |-> {"resolved", "rejected"},
    resolved    |-> {},
    rejected    |-> {} ]

can_transition(current, target) == target \in TRANSITIONS[current]

\* The statuses a complaint may show once it has been in status s.
Reachable(s) ==
  {s} \cup TRANSITIONS[s] \cup UNION {TRANSITIONS[t] : t \in TRANSITIONS[s]}

=============================================================================
