------------------------------- MODULE MCPunch -------------------------------
(* Punch on small instances: one pair of sockets, opened at different times,  *)
(* or two pairs.                                                              *)
EXTENDS Punch

MCPairings == {{<<2, 1>>}, {<<1, 1>>, <<2, 2>>}}
=============================================================================
