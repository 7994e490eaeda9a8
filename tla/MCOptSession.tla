---------------------------- MODULE MCOptSession ----------------------------
(* OptSession on small instances. *)
EXTENDS OptSession
=============================================================================
