-------------------------------- MODULE MCC2 --------------------------------
(* C2 on small instances. *)
EXTENDS C2
=============================================================================
