----------------------------- MODULE MCIpLookup -----------------------------
(* IpLookup and NatProbe on small instances; program says which one runs.     *)
(* IpLookup: length fields of one byte, an address of one byte, and replies   *)
(* with a record too short, too long, cut off, or followed by more, of an     *)
(* unknown type and beyond the largest packet.                                *)
(* NatProbe: two queries, to the same or to different programs, and a NAT     *)
(* that shows a different address to every destination.                      *)
EXTENDS IpLookup, NatProbe

MCAddress == <<9>>
MCPort == <<5, 6>>

MCOtherReplies ==
  {Packet(PktNormal, <<1, 9, 1, 5>>), Packet(PktNormal, <<1, 9, 2, 5, 6, 4>>),
   Packet(PktNormal, <<1, 9, 3, 5, 6>>), Packet(PktRaw, <<1, 9, 2, 5, 6>>),
   Packet(3, <<1>>), Packet(PktNormal, <<1, 9, 2, 5, 6, 0, 0, 0>>)}

MCMapped == [a \in {"s1", "s2", "out", "other"} |-> IF a = "s1" THEN "m1" ELSE IF a = "s2" THEN "m2" ELSE "m3"]

VARIABLE program

mcVars == <<program, vars, natVars>>

MCInit == program \in {"ip", "nat"} /\ Init /\ NatInit /\ (program = "nat" => reply = IpReply)

MCNext ==
  /\ \/ program = "ip" /\ Next /\ UNCHANGED natVars
     \/ program = "nat" /\ NatNext /\ UNCHANGED vars
  /\ UNCHANGED program

MCSpec == MCInit /\ [][MCNext]_mcVars /\ Fairness /\ NatFairness
=============================================================================
