------------------------------ MODULE MCOptUdp ------------------------------
(* OptUdp on small instances. *)
EXTENDS OptUdp, FiniteSets

CONSTANTS MaxFrames,  \* bound: frames sent in a behaviour
          MaxQueue,   \* bound: frames waiting for their ACK
          MaxInFlight,\* bound: data frames in flight
          MaxAcks     \* bound: ACKs in flight

BoundedNext == /\ Next
               /\ txIdx' <= MaxFrames
               /\ Len(queue') <= MaxQueue
               /\ Cardinality(net') <= MaxInFlight
               /\ Cardinality(acks') <= MaxAcks

(* Fairness is stated, and acknowledgement checked, for one frame among the   *)
(* others; that data and ACKs in flight are bounded only makes a transmission *)
(* wait until the network has dropped an earlier one.                         *)
Watched == {1}

MCSpec == Init /\ [][BoundedNext]_vars /\ Fairness(Watched)

MCEveryFrameAcknowledged == EveryFrameAcknowledged(Watched)

(* For the packets: every frame that may be sent gets through.  Only the      *)
(* number of frames is bounded, which restricts nothing but the calls of      *)
(* send(), of which no fairness is assumed.                                   *)
Idx == 0..(MaxFrames - 1)

MCFairSpec == Init /\ [][Next /\ txIdx' <= MaxFrames]_vars /\ Fairness(Idx)

MCEveryPacketArrives == EveryPacketArrives(1..MaxFrames)
=============================================================================
