----------------------------- MODULE MCCallback -----------------------------
(* Callback on small instances. *)
EXTENDS Callback, TLC

Symmetry == Permutations(Functors)
=============================================================================
