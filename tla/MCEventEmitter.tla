--------------------------- MODULE MCEventEmitter ---------------------------
(* EventEmitter on small instances. *)
EXTENDS EventEmitter, TLC

Symmetry == Permutations(Timers)
=============================================================================
