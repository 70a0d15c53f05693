------------------------------- MODULE MCDrain -------------------------------
(* Instance of Drain for TLC. A tick is 2.5 s. *)
EXTENDS Drain, TLC

Symmetry == Permutations(Req)
=============================================================================
