--------------------------- MODULE OrderedStream ---------------------------
(***************************************************************************)
(* What an ordered packet transport of NATBuster promises to the layer     *)
(* above it (OPTBase::send, OPTPacketCallback): packets are handed to the  *)
(* receiver whole, at most once, and in the order in which the sender's    *)
(* calls were serialised.  How packets are cut, numbered, lost and         *)
(* retransmitted is invisible here.                                        *)
(***************************************************************************)
EXTENDS Naturals, Sequences

CONSTANT Packet     \* what can be handed to send()

VARIABLES accepted, \* packets taken by send(), in the order they were taken
          received  \* packets handed to the packet callback of the peer

vars == <<accepted, received>>

Init == /\ accepted = <<>>
        /\ received = <<>>

(* send() accepts a packet for transmission. *)
Accept == /\ accepted' \in Seq(Packet)
          /\ Len(accepted') = Len(accepted) + 1
          /\ \A k \in 1..Len(accepted) : accepted'[k] = accepted[k]
          /\ UNCHANGED received

(* The packet callback of the peer is called with the next packet. *)
Receive == /\ Len(received) < Len(accepted)
           /\ received' = Append(received, accepted[Len(received) + 1])
           /\ UNCHANGED accepted

Next == Accept \/ Receive

Spec == Init /\ [][Next]_vars
=============================================================================
