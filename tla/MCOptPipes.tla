----------------------------- MODULE MCOptPipes -----------------------------
(* OptPipes on small instances. *)
EXTENDS OptPipes
=============================================================================
