------------------------- MODULE MCComplaintService -------------------------
(* Instance of ComplaintService for TLC. *)
EXTENDS ComplaintService

\* Liveness is checked without symmetry, so the run starts where the requests have
\* something to fight over: a complaint is about to be filed, or it is under way,
\* with moves allowed and moves refused. (A move to "open" is always refused; the
\* refused moves here are those to the complaint's own status.)
UnderWay ==
  /\ Init
  /\ \A i \in Id : row[i] \in {Absent, "open", "in_progress"}
  /\ \A r \in Req : op[r].kind = "change" => op[r].target # "open"

UnderWaySpec == UnderWay /\ [][Next]_vars /\ Fairness
=============================================================================
