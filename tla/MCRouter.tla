------------------------------ MODULE MCRouter ------------------------------
(* Router on small instances. *)
EXTENDS Router
=============================================================================
