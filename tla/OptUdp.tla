------------------------------- MODULE OptUdp -------------------------------
(***************************************************************************)
(* The ordered, reliable half of OPTUDP (common/transport/opt_udp), one    *)
(* direction of a connection: application threads of the sending endpoint  *)
(* call send(), its emitter thread handles ACKs and the retransmit timer,  *)
(* and the emitter thread of the receiving endpoint reassembles.  The two  *)
(* directions of a connection share nothing but the socket.                *)
(*                                                                         *)
(* A frame is named by its position idx in the stream; the program sees    *)
(* only SeqNum(idx), the high bits of the 32-bit seq field, and rt, its    *)
(* low bits.  The position also stands for the bytes the frame carries, so *)
(* a packet is the sequence of the positions of its frames.                *)
(*                                                                         *)
(* The network (external) loses, duplicates and reorders datagrams.  It is *)
(* assumed not to hold one back for half a turn of the sequence numbers    *)
(* (FreshData, FreshAck), and the sender, which has no flow control, not   *)
(* to run that far ahead (MaxBacklog): half a turn is 2^25 frames.         *)
(***************************************************************************)
EXTENDS Integers, Sequences

CONSTANTS Threads,   \* application threads that call send()
          Half,      \* half of the number of sequence numbers (2^25)
          RtCnt,     \* seq_rt_cnt: retransmit numbers of a frame (64)
          MaxFrags   \* fragments of the largest packet that is sent

ASSUME ConstantsOK == /\ Half \in Nat \ {0}
                      /\ RtCnt \in Nat \ {0}
                      /\ MaxFrags \in Nat \ {0}

SeqNums == 2 * Half

(* The number a frame has on the wire: seq & seq_num_mask. *)
SeqNum(i) == i % SeqNums

(* Mutant: the numbers as unsigned integers, of which no difference is negative. *)
NotBehindUnsigned(i, j) == (SeqNum(i) - SeqNum(j)) % SeqNums >= 0

(* advance >= 0, for a difference taken as int32_t. *)
NotBehind(i, j) == (SeqNum(i) - SeqNum(j)) % SeqNums < Half

FrameType == {"MID", "START", "END", "SINGLE"}

(* A data datagram, and what _receive_map stores. *)
Frame == [idx : Nat, type : FrameType, rt : 0..(RtCnt - 1)]

(* An ACK datagram repeats the whole seq field of what it acknowledges. *)
Ack == [idx : Nat, rt : 0..(RtCnt - 1)]

(* transmit_packet: the frame, and the size of its transmits vector. *)
TransmitPacket == [idx : Nat, type : FrameType, rt : 0..(RtCnt - 1), n : 1..RtCnt]

VARIABLES
  (* sending endpoint *)
  txIdx,       \* _tx_seq
  pc,          \* per thread: "idle", or "sending" inside send()
  job,         \* per thread: the seqs next_seq() reserved for its packet
  queue,       \* _transmit_queue
  armed,       \* a retransmit timer is pending in the emitter
  em,          \* emitter thread: "reset" when reset_retransmit_timer() is due
  (* network *)
  net, acks,   \* datagrams that may still arrive
  (* receiving endpoint *)
  rxIdx,       \* _rx_seq
  rxMap,       \* _receive_map
  rxPc,        \* emitter thread: "reassemble" inside try_reassemble()
  reassembly,  \* _reassemble_list
  (* histories *)
  sent,        \* packets accepted by send(), in the order of their seqs
  delivered,   \* packets handed to _callback_packet
  got          \* frames of which a copy has arrived

txVars == <<txIdx, pc, job, queue, armed, em>>
rxVars == <<rxIdx, rxMap, rxPc, reassembly, delivered, got>>
vars == <<txVars, net, acks, rxVars, sent>>

(* The contents of the packet made of frames a..b. *)
PacketOf(a, b) == [i \in 1..(b - a + 1) |-> a + i - 1]

-----------------------------------------------------------------------------
(* The sending endpoint. *)

Wire(e) == [idx |-> e.idx, type |-> e.type, rt |-> e.rt]

NoJob == [first |-> 0, next |-> 0, last |-> 0]

(* Half a turn of the numbers lies between the oldest frame the receiver      *)
(* waits for, or the sender has no ACK for, and the newest frame.             *)
MaxBacklog(i) == /\ i <= rxIdx + Half
                 /\ \A k \in 1..Len(queue) : i <= queue[k].idx + Half

(* send() up to next_seq(): the seqs of all fragments are taken together.     *)
(* The packet is not empty, which no user of OPTUDP sends: (0 - 1) / max + 1  *)
(* would take millions of them and queue none.                                *)
Send(t, n) ==
  /\ pc[t] = "idle"
  /\ MaxBacklog(txIdx + n)
  /\ pc' = [pc EXCEPT ![t] = "sending"]
  /\ job' = [job EXCEPT ![t] = [first |-> txIdx, next |-> txIdx, last |-> txIdx + n - 1]]
  /\ txIdx' = txIdx + n
  /\ sent' = Append(sent, PacketOf(txIdx, txIdx + n - 1))
  /\ UNCHANGED <<queue, armed, em, net, acks, rxVars>>

TypeOfFragment(j) ==
  IF j.next = j.first
    THEN IF j.next = j.last THEN "SINGLE" ELSE "START"
    ELSE IF j.next = j.last THEN "END" ELSE "MID"

(* One turn of the loop of send(): queue the fragment and transmit it, under *)
(* _tx_lock.                                                                 *)
TransmitFragment(t) ==
  LET j == job[t]
      e == [idx |-> j.next, type |-> TypeOfFragment(j), rt |-> 0, n |-> 1]
  IN /\ pc[t] = "sending"
     /\ j.next <= j.last
     /\ queue' = Append(queue, e)
     /\ net' = net \cup {Wire(e)}
     /\ job' = [job EXCEPT ![t] = [first |-> j.first, next |-> j.next + 1, last |-> j.last]]
     /\ UNCHANGED <<txIdx, pc, armed, em, acks, rxVars, sent>>

(* Mutant: the timer is added only if none was pending. *)
ResetOnlyIfIdle == armed' = (queue # <<>> /\ ~armed)

(* reset_retransmit_timer(), under _tx_lock: the pending timer is cancelled  *)
(* and a new one is added if a frame waits for its ACK.                      *)
reset_retransmit_timer == armed' = (queue # <<>>)

(* The end of send(). *)
SendReturn(t) ==
  /\ pc[t] = "sending"
  /\ job[t].next > job[t].last
  /\ reset_retransmit_timer
  /\ pc' = [pc EXCEPT ![t] = "idle"]
  /\ job' = [job EXCEPT ![t] = NoJob]
  /\ UNCHANGED <<txIdx, queue, em, net, acks, rxVars, sent>>

(* Mutant: an ACK taken to acknowledge every frame up to its number. *)
CumulativeAckMatches(e, a) == SeqNum(e.idx) <= SeqNum(a.idx) /\ a.rt < e.n

(* The entries an ACK removes: same number, and a transmission that exists. *)
AckMatches(e, a) == SeqNum(e.idx) = SeqNum(a.idx) /\ a.rt < e.n

(* The while loop over _transmit_queue: every matching entry is erased, the   *)
(* others (numbered by f) stay in their order.                                *)
EraseAcked(a) ==
  LET kept == {i \in 1..Len(queue) : ~AckMatches(queue[i], a)}
  IN \E m \in 0..Len(queue) : \E f \in [1..m -> kept] :
       /\ \A k, l \in 1..m : k < l => f[k] < f[l]
       /\ \A i \in kept : \E k \in 1..m : f[k] = i
       /\ queue' = [k \in 1..m |-> queue[f[k]]]

(* An ACK is not held back by the network for a whole turn of the numbers. *)
FreshAck(a) == a.idx + SeqNums >= txIdx

(* on_receive(PKT_ACK): stop retransmitting the frame; the timer is reset    *)
(* afterwards, in a second critical section.                                 *)
OnAck(a) ==
  /\ a \in acks /\ FreshAck(a)
  /\ em = "idle"
  /\ EraseAcked(a)
  /\ em' = "reset"
  /\ UNCHANGED <<txIdx, pc, job, armed, net, acks, rxVars, sent>>

(* Mutant: the time of the retransmission is not stored. *)
BumpUnrecorded(e) ==
  [idx |-> e.idx, type |-> e.type, rt |-> (e.rt + 1) % RtCnt, n |-> e.n]

(* The next transmission of a queued frame: the retransmit number wraps, and *)
(* transmits grows until all numbers have been used.                         *)
Bump(e) ==
  LET rt == (e.rt + 1) % RtCnt
  IN [idx |-> e.idx, type |-> e.type, rt |-> rt, n |-> IF e.n <= rt THEN rt + 1 ELSE e.n]

(* on_retransmit_timer(): the k frames at the front that are due are sent    *)
(* again and moved to the back.  k = 0 is a timer that fires although it was *)
(* cancelled in the same pass of the emitter.                                *)
OnRetransmitTimer(k) ==
  /\ armed
  /\ em = "idle"
  /\ queue' = SubSeq(queue, k + 1, Len(queue)) \o [i \in 1..k |-> Bump(queue[i])]
  /\ net' = net \cup {Wire(Bump(queue[i])) : i \in 1..k}
  /\ armed' = FALSE
  /\ em' = "reset"
  /\ UNCHANGED <<txIdx, pc, job, acks, rxVars, sent>>

(* The reset_retransmit_timer() both handlers end with. *)
EmitterReset ==
  /\ em = "reset"
  /\ reset_retransmit_timer
  /\ em' = "idle"
  /\ UNCHANGED <<txIdx, pc, job, queue, net, acks, rxVars, sent>>

-----------------------------------------------------------------------------
(* The receiving endpoint: "only touched from the callbacks". *)

FreshData(d) == d.idx + Half >= rxIdx

SameSeq(d, e) == SeqNum(d.idx) = SeqNum(e.idx) /\ d.rt = e.rt

(* _receive_map.insert() keeps the entry that is already there. *)
Inserted(map, d) == IF \E e \in map : SameSeq(d, e) THEN map ELSE map \cup {d}

(* on_receive() of a data frame: the ACK goes out first, whatever happens to *)
(* the frame; a frame that is not behind is stored under its whole seq.      *)
OnData(d) ==
  /\ d \in net /\ FreshData(d)
  /\ rxPc = "idle"
  /\ acks' = acks \cup {[idx |-> d.idx, rt |-> d.rt]}
  /\ IF NotBehind(d.idx, rxIdx)
       THEN rxMap' = Inserted(rxMap, d) /\ rxPc' = "reassemble"
       ELSE UNCHANGED <<rxMap, rxPc>>
  /\ got' = got \cup {d.idx}
  /\ UNCHANGED <<txVars, net, rxIdx, reassembly, delivered, sent>>

(* _receive_map.find(_rx_seq): the retransmit bits of _rx_seq are zero. *)
Found(e) == SeqNum(e.idx) = SeqNum(rxIdx) /\ e.rt = 0

(* One turn of the loop of try_reassemble(). *)
Reassemble ==
  /\ rxPc = "reassemble"
  /\ \E e \in rxMap :
       /\ Found(e)
       /\ rxMap' = rxMap \ {e}
       /\ IF e.type \in {"END", "SINGLE"}
            THEN /\ delivered' = Append(delivered, Append(reassembly, e.idx))
                 /\ reassembly' = <<>>
            ELSE /\ reassembly' = Append(reassembly, e.idx)
                 /\ UNCHANGED delivered
  /\ rxIdx' = rxIdx + 1
  /\ UNCHANGED <<txVars, net, acks, rxPc, got, sent>>

ReassembleReturn ==
  /\ rxPc = "reassemble"
  /\ ~ \E e \in rxMap : Found(e)
  /\ rxPc' = "idle"
  /\ UNCHANGED <<txVars, net, acks, rxIdx, rxMap, reassembly, delivered, got, sent>>

-----------------------------------------------------------------------------
(* The network (external): a datagram may arrive any number of times, in any *)
(* order, until the network drops it.  What is dropped while the receiving   *)
(* thread is busy could not have been taken by it: dropping it when the      *)
(* thread is idle again loses no behaviour, and lets fairness speak of the   *)
(* datagrams a thread could take.                                            *)

LoseData(d) == /\ rxPc = "idle"
               /\ net' = net \ {d}
               /\ UNCHANGED <<txVars, acks, rxVars, sent>>

LoseAck(a) == /\ em = "idle"
              /\ acks' = acks \ {a}
              /\ UNCHANGED <<txVars, net, rxVars, sent>>

-----------------------------------------------------------------------------
Init ==
  /\ txIdx = 0
  /\ pc = [t \in Threads |-> "idle"]
  /\ job = [t \in Threads |-> NoJob]
  /\ queue = <<>>
  /\ armed = FALSE
  /\ em = "idle"
  /\ net = {}
  /\ acks = {}
  /\ rxIdx = 0
  /\ rxMap = {}
  /\ rxPc = "idle"
  /\ reassembly = <<>>
  /\ sent = <<>>
  /\ delivered = <<>>
  /\ got = {}

Sender == \/ \E t \in Threads : \/ \E n \in 1..MaxFrags : Send(t, n)
                                \/ TransmitFragment(t)
                                \/ SendReturn(t)
          \/ \E a \in acks : OnAck(a)
          \/ \E k \in 0..Len(queue) : OnRetransmitTimer(k)
          \/ EmitterReset

Receiver == \/ \E d \in net : OnData(d)
            \/ Reassemble
            \/ ReassembleReturn

Network == \/ \E d \in net : LoseData(d)
           \/ \E a \in acks : LoseAck(a)

Next == Sender \/ Receiver \/ Network

Spec == Init /\ [][Next]_vars

(* The threads that are inside send() and the two emitter threads keep        *)
(* running; the event loop runs an expired timer in every pass, and the       *)
(* expiry is that of the frame at the front (k > 0); a frame of positions Idx *)
(* that is transmitted again and again, or acknowledged again and again, gets *)
(* through in the end.                                                        *)
Fairness(Idx) ==
  /\ \A t \in Threads : WF_vars(TransmitFragment(t)) /\ WF_vars(SendReturn(t))
  /\ WF_vars(EmitterReset)
  /\ SF_vars(\E k \in 1..Len(queue) : OnRetransmitTimer(k))
  /\ WF_vars(Reassemble) /\ WF_vars(ReassembleReturn)
  /\ \A i \in Idx : /\ SF_vars(\E d \in net : d.idx = i /\ OnData(d))
                    /\ SF_vars(\E a \in acks : a.idx = i /\ OnAck(a))

-----------------------------------------------------------------------------
(* Properties *)

Job == [first : Nat, next : Nat, last : Nat]

TypeOK ==
  /\ txIdx \in Nat
  /\ pc \in [Threads -> {"idle", "sending"}]
  /\ job \in [Threads -> Job]
  /\ queue \in Seq(TransmitPacket)
  /\ armed \in BOOLEAN
  /\ em \in {"idle", "reset"}
  /\ net \in SUBSET Frame
  /\ acks \in SUBSET Ack
  /\ rxIdx \in Nat
  /\ rxMap \in SUBSET Frame
  /\ rxPc \in {"idle", "reassemble"}
  /\ reassembly \in Seq(Nat)
  /\ sent \in Seq(Seq(Nat))
  /\ delivered \in Seq(Seq(Nat))
  /\ got \in SUBSET Nat

(* Ordered delivery: whatever the network loses, duplicates, reorders and the *)
(* retransmissions repeat, across the wrap of the sequence numbers, the       *)
(* packets handed to _callback_packet are the packets given to send(), whole, *)
(* in order, none skipped and none twice (opt_udp.cpp try_reassemble()).      *)
InOrderIntact ==
  /\ Len(delivered) <= Len(sent)
  /\ \A k \in 1..Len(delivered) : delivered[k] = sent[k]

(* A frame leaves the retransmit queue only when a copy of it has reached the *)
(* peer: neither an ACK of an earlier transmission, nor a duplicated ACK, nor *)
(* an ACK whose number was used before makes the sender forget a frame that   *)
(* is not there (opt_udp.cpp on_receive(), PKT_ACK).                          *)
Pending(i) == \E t \in Threads : pc[t] = "sending" /\ job[t].next <= i /\ i <= job[t].last

ForgottenOnlyIfGot ==
  \A i \in 0..(txIdx - 1) :
    \/ i \in got
    \/ Pending(i)
    \/ \E k \in 1..Len(queue) : queue[k].idx = i

(* A retransmit timer is pending whenever frames wait for their ACK and no    *)
(* call that ends with reset_retransmit_timer() is under way: no interleaving *)
(* of senders, ACKs and expiries leaves a frame without a timer               *)
(* (opt_udp.cpp reset_retransmit_timer()).                                    *)
TimerCoversQueue ==
  queue # <<>> => \/ armed
                  \/ em = "reset"
                  \/ \E t \in Threads : pc[t] = "sending"

(* OPTUDP is an ordered packet transport. *)
Stream == INSTANCE OrderedStream WITH Packet <- Seq(Nat), accepted <- sent, received <- delivered

ImplementsOrderedStream == Stream!Spec

(* Retransmission ends: every frame put on _transmit_queue is acknowledged in *)
(* the end, although any transmission and any ACK may be lost and the number  *)
(* of retransmissions wraps (opt_udp.cpp on_retransmit_timer(), on_receive()).*)
EveryFrameAcknowledged(Idx) ==
  \A i \in Idx : (\E k \in 1..Len(queue) : queue[k].idx = i)
                   ~> ~(\E k \in 1..Len(queue) : queue[k].idx = i)

(* The arrival guarantee of send(): every packet it accepted is handed to the *)
(* peer's packet callback in the end (opt_base.h, send() and sendRaw()).      *)
EveryPacketArrives(K) ==
  \A k \in K : (Len(sent) >= k) ~> (Len(delivered) >= k)
=============================================================================
