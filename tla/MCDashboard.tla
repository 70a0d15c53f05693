----------------------------- MODULE MCDashboard -----------------------------
(* Instance of Dashboard for TLC. *)
EXTENDS Dashboard

\* Complaints are named by their place in the list, which is all that created_at
\* decides; all but the last have the same. They are committed in any order.
Named == Init /\ created = [c \in Complaint |-> IF c = N THEN 1 ELSE 2]

NamedSpec == Named /\ [][Next]_vars
=============================================================================
