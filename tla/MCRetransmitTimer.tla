------------------------- MODULE MCRetransmitTimer -------------------------
(* RetransmitTimer on small instances. *)
EXTENDS RetransmitTimer, TLC

Symmetry == Permutations(Timers) \cup Permutations(Users)
=============================================================================
