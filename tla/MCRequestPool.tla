---------------------------- MODULE MCRequestPool ----------------------------
(* Instance of RequestPool for TLC: one request is a liveness probe. *)
EXTENDS RequestPool

CONSTANTS r1, r2, r3, Probe

Rank == [ready |-> 1, read |-> 2, create |-> 3, change |-> 4, health |-> 5]

\* The other requests are interchangeable, so their kinds come in order.
OneProbe ==
  /\ Init
  /\ \A r \in Req : (kind[r] = "health") = (r = Probe)
  /\ Rank[kind[r1]] <= Rank[kind[r2]] /\ Rank[kind[r2]] <= Rank[kind[r3]]

ProbedSpec == OneProbe /\ [][Next]_vars /\ Fairness

\* Nobody waits for the triage provider: what is slow is the database.
DatabaseSpec == OneProbe /\ (\A r \in Req : kind[r] # "create") /\ [][Next]_vars
=============================================================================
