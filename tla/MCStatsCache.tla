----------------------------- MODULE MCStatsCache -----------------------------
(* Instance of StatsCache for TLC. *)
EXTENDS StatsCache
=============================================================================
