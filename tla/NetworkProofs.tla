---------------------------- MODULE NetworkProofs ----------------------------
(***************************************************************************)
(* What holds of the two lowest layers: of OptUdp for every number of      *)
(* threads, sequence numbers and retransmit numbers, and every packet size, *)
(* and of the socket provider for every set of sockets, on Linux            *)
(* (SocketSpec) and on Windows (SpecWin).                                   *)
(***************************************************************************)
EXTENDS OptUdp, SocketsWin, TLAPS

-----------------------------------------------------------------------------
(* OptUdp *)

(* Arithmetic of sequence numbers *)

LEMMA ModDef ==
  ASSUME NEW N \in Nat \ {0}, NEW a \in Int
  PROVE  /\ a % N \in 0..(N - 1)
         /\ a \div N \in Int
         /\ a = N * (a \div N) + (a % N)
OBVIOUS

LEMMA MulStep ==
  ASSUME NEW N \in Nat \ {0}, NEW p \in Int, NEW q \in Int, p < q
  PROVE  N * p + N <= N * q
OBVIOUS

LEMMA MulDistributes ==
  \A n, p, q, r \in Int : n * (p - q + r) = n * p - n * q + n * r
OBVIOUS

(* Two positions less than a whole turn apart with the same number are equal. *)
LEMMA ModUnique ==
  ASSUME NEW N \in Nat \ {0}, NEW a \in Int, NEW b \in Int,
         a % N = b % N, a - b < N, b - a < N
  PROVE  a = b
<1>1. a = N * (a \div N) + (a % N) /\ a \div N \in Int
  BY ModDef
<1>2. b = N * (b \div N) + (b % N) /\ b \div N \in Int
  BY ModDef
<1>3. CASE a \div N < b \div N
  <2>1. N * (a \div N) + N <= N * (b \div N)
    BY <1>1, <1>2, <1>3, MulStep
  <2> QED
    BY <1>1, <1>2, <2>1
<1>4. CASE b \div N < a \div N
  <2>1. N * (b \div N) + N <= N * (a \div N)
    BY <1>1, <1>2, <1>4, MulStep
  <2> QED
    BY <1>1, <1>2, <2>1
<1>5. CASE a \div N = b \div N
  BY <1>1, <1>2, <1>5
<1> QED
  BY <1>1, <1>2, <1>3, <1>4, <1>5

(* The number of a stored frame identifies it within the window. *)
LEMMA SeqNumUnique ==
  ASSUME NEW i \in Nat, NEW j \in Nat,
         SeqNum(i) = SeqNum(j), i - j < SeqNums, j - i < SeqNums
  PROVE  i = j
<1>1. SeqNums \in Nat \ {0}
  BY ConstantsOK DEF SeqNums
<1>2. i % SeqNums = j % SeqNums /\ i \in Int /\ j \in Int
  BY DEF SeqNum
<1>3. \A N \in Nat \ {0} : \A a, b \in Int :
        a % N = b % N /\ a - b < N /\ b - a < N => a = b
  BY ModUnique
<1> QED
  BY <1>1, <1>2, <1>3

(* "Safe even at roll-around": within half a turn the sign of the 32-bit      *)
(* difference tells a frame that is behind.                                   *)
LEMMA NotBehindMeansAhead ==
  ASSUME NEW i \in Nat, NEW j \in Nat,
         j <= i + Half, i < j + Half, NotBehind(i, j)
  PROVE  j <= i
<1> DEFINE N == SeqNums
           c == (SeqNum(i) - SeqNum(j)) % N
<1>1. N \in Nat \ {0} /\ N = 2 * Half /\ Half \in Nat \ {0}
  BY ConstantsOK DEF SeqNums
<1>2. SeqNum(i) = i % N /\ SeqNum(j) = j % N /\ c < Half
  BY NotBehind(i, j) DEF SeqNum, NotBehind
<1> HIDE DEF N
<1>3. \A a \in Int : /\ a % N \in 0..(N - 1)
                     /\ \E x \in Int : a = N * x + (a % N)
  BY <1>1, ModDef
<1>4. PICK p \in Int : i = N * p + SeqNum(i)
  BY <1>2, <1>3
<1>5. PICK q \in Int : j = N * q + SeqNum(j)
  BY <1>2, <1>3
<1>6. SeqNum(i) \in Int /\ SeqNum(j) \in Int
  BY <1>1, <1>2, <1>3
<1>7. c \in 0..(N - 1) /\ \E x \in Int : SeqNum(i) - SeqNum(j) = N * x + c
  BY <1>3, <1>6
<1> HIDE DEF c
<1>8. PICK r \in Int : SeqNum(i) - SeqNum(j) = N * r + c
  BY <1>7
<1> DEFINE m == p - q + r
<1>9. m \in Int /\ i - j = N * m + c
  <2>1. N * m = N * p - N * q + N * r
    BY <1>1, MulDistributes
  <2>2. N * p \in Int /\ N * q \in Int /\ N * r \in Int /\ c \in Int
    BY <1>1, <1>7
  <2> QED
    BY <1>4, <1>5, <1>6, <1>8, <2>1, <2>2
<1> HIDE DEF m
<1>10. CASE m < 0
  <2>1. N * m + N <= N * 0
    BY <1>1, <1>9, <1>10, MulStep
  <2> QED
    BY <1>1, <1>2, <1>7, <1>9, <2>1
<1>11. CASE m >= 0
  <2>1. N * m >= 0
    BY <1>1, <1>9, <1>11
  <2> QED
    BY <1>1, <1>7, <1>9, <2>1
<1> QED
  BY <1>9, <1>10, <1>11

-----------------------------------------------------------------------------
(* Type correctness *)

LEMMA BumpType ==
  ASSUME NEW e \in TransmitPacket
  PROVE  /\ Bump(e) \in TransmitPacket
         /\ Bump(e).idx = e.idx
         /\ Bump(e).type = e.type
<1> DEFINE rt == (e.rt + 1) % RtCnt
           n == IF e.n <= rt THEN rt + 1 ELSE e.n
<1>1. e.rt \in Int /\ e.n \in 1..RtCnt /\ e.idx \in Nat /\ e.type \in FrameType
  BY DEF TransmitPacket
<1>2. rt \in 0..(RtCnt - 1)
  <2>1. \A a \in Int : a % RtCnt \in 0..(RtCnt - 1)
    BY ConstantsOK, ModDef
  <2> QED
    BY <1>1, <2>1
<1>3. n \in 1..RtCnt
  BY <1>1, <1>2, ConstantsOK
<1>4. Bump(e) = [idx |-> e.idx, type |-> e.type, rt |-> rt, n |-> n]
  BY DEF Bump
<1> QED
  BY <1>1, <1>2, <1>3, <1>4 DEF TransmitPacket

LEMMA WireType ==
  ASSUME NEW e \in TransmitPacket
  PROVE  Wire(e) \in Frame
BY DEF Wire, TransmitPacket, Frame

(* Every variable of the two endpoints and of the network keeps its type: in *)
(* particular a retransmit number stays below seq_rt_cnt and below the size  *)
(* of transmits can grow to, however often a frame is retransmitted.         *)
THEOREM TypeCorrect == Spec => []TypeOK
<1>1. Init => TypeOK
  <2> SUFFICES ASSUME Init
               PROVE  TypeOK
    OBVIOUS
  <2>1. NoJob \in Job
    BY DEF NoJob, Job
  <2>2. <<>> \in Seq(TransmitPacket) /\ <<>> \in Seq(Nat) /\ <<>> \in Seq(Seq(Nat))
    OBVIOUS
  <2> QED
    BY <2>1, <2>2 DEF Init, TypeOK
<1>2. TypeOK /\ [Next]_vars => TypeOK'
  <2> SUFFICES ASSUME TypeOK, [Next]_vars
               PROVE  TypeOK'
    OBVIOUS
  <2> USE DEF TypeOK
  <2>1. ASSUME NEW t \in Threads, NEW n \in 1..MaxFrags, Send(t, n)
        PROVE  TypeOK'
    <3>1. job'[t] \in Job /\ job' \in [Threads -> Job]
      BY <2>1, ConstantsOK DEF Send, Job
    <3>2. PacketOf(txIdx, txIdx + n - 1) \in Seq(Nat)
      BY <2>1, ConstantsOK DEF PacketOf
    <3> QED
      BY <2>1, <3>1, <3>2, ConstantsOK DEF Send, rxVars
  <2>2. ASSUME NEW t \in Threads, TransmitFragment(t)
        PROVE  TypeOK'
    <3> DEFINE e == [idx |-> job[t].next, type |-> TypeOfFragment(job[t]), rt |-> 0, n |-> 1]
    <3>1. e \in TransmitPacket
      BY ConstantsOK DEF TransmitPacket, TypeOfFragment, FrameType, Job
    <3>2. Wire(e) \in Frame
      BY <3>1, WireType
    <3>3. job' \in [Threads -> Job]
      <4>1. [first |-> job[t].first, next |-> job[t].next + 1, last |-> job[t].last] \in Job
        BY DEF Job
      <4> QED
        BY <2>2, <4>1 DEF TransmitFragment
    <3>4. queue' = Append(queue, e) /\ net' = net \cup {Wire(e)}
      BY <2>2 DEF TransmitFragment
    <3> HIDE DEF e
    <3> QED
      BY <2>2, <3>1, <3>2, <3>3, <3>4 DEF TransmitFragment, rxVars
  <2>3. ASSUME NEW t \in Threads, SendReturn(t)
        PROVE  TypeOK'
    BY <2>3 DEF SendReturn, reset_retransmit_timer, NoJob, Job, rxVars
  <2>4. ASSUME NEW a \in acks, OnAck(a)
        PROVE  TypeOK'
    <3>1. queue' \in Seq(TransmitPacket)
      BY <2>4 DEF OnAck, EraseAcked
    <3> QED
      BY <2>4, <3>1 DEF OnAck, rxVars
  <2>5. ASSUME NEW k \in 0..Len(queue), OnRetransmitTimer(k)
        PROVE  TypeOK'
    <3> DEFINE r == [i \in 1..k |-> Bump(queue[i])]
    <3>1. \A i \in 1..k : queue[i] \in TransmitPacket /\ Bump(queue[i]) \in TransmitPacket
      BY BumpType
    <3>2. r \in Seq(TransmitPacket)
      BY <3>1
    <3>3. SubSeq(queue, k + 1, Len(queue)) \in Seq(TransmitPacket)
      OBVIOUS
    <3>4. queue' \in Seq(TransmitPacket)
      BY <2>5, <3>2, <3>3 DEF OnRetransmitTimer
    <3>5. net' \in SUBSET Frame
      BY <2>5, <3>1, WireType DEF OnRetransmitTimer
    <3> QED
      BY <2>5, <3>4, <3>5 DEF OnRetransmitTimer, rxVars
  <2>6. CASE EmitterReset
    BY <2>6 DEF EmitterReset, reset_retransmit_timer, rxVars
  <2>7. ASSUME NEW d \in net, OnData(d)
        PROVE  TypeOK'
    <3>1. d \in Frame /\ d.idx \in Nat /\ [idx |-> d.idx, rt |-> d.rt] \in Ack
      BY DEF Frame, Ack
    <3> QED
      BY <2>7, <3>1 DEF OnData, Inserted, txVars
  <2>8. CASE Reassemble
    <3>1. PICK e \in rxMap :
            /\ rxMap' = rxMap \ {e}
            /\ IF e.type \in {"END", "SINGLE"}
                 THEN /\ delivered' = Append(delivered, Append(reassembly, e.idx))
                      /\ reassembly' = <<>>
                 ELSE /\ reassembly' = Append(reassembly, e.idx)
                      /\ UNCHANGED delivered
      BY <2>8 DEF Reassemble
    <3>2. Append(reassembly, e.idx) \in Seq(Nat)
      BY DEF Frame
    <3>3. delivered' \in Seq(Seq(Nat)) /\ reassembly' \in Seq(Nat)
      <4>1. <<>> \in Seq(Nat)
        OBVIOUS
      <4>2. \A p \in Seq(Nat) : Append(delivered, p) \in Seq(Seq(Nat))
        OBVIOUS
      <4> QED
        BY <3>1, <3>2, <4>1, <4>2
    <3>4. rxMap' \in SUBSET Frame /\ rxIdx' \in Nat
      BY <2>8, <3>1 DEF Reassemble
    <3> QED
      BY <2>8, <3>3, <3>4 DEF Reassemble, txVars
  <2>9. CASE ReassembleReturn
    BY <2>9 DEF ReassembleReturn, txVars
  <2>10. CASE Network
    BY <2>10 DEF Network, LoseData, LoseAck, txVars, rxVars
  <2>11. CASE UNCHANGED vars
    BY <2>11 DEF vars, txVars, rxVars
  <2> QED
    BY <2>1, <2>2, <2>3, <2>4, <2>5, <2>6, <2>7, <2>8, <2>9, <2>10, <2>11
       DEF Next, Sender, Receiver
<1> QED
  BY <1>1, <1>2, PTL DEF Spec

-----------------------------------------------------------------------------
(* The retransmit timer *)

(* No interleaving of send() calls, ACKs and timer expiries leaves a frame on *)
(* _transmit_queue with neither a pending timer nor a call under way that     *)
(* will set one: the argument needs only that every path that can leave the   *)
(* queue non-empty ends in reset_retransmit_timer().                          *)
THEOREM TimerAlwaysCovers == Spec => []TimerCoversQueue
<1>1. Init => TimerCoversQueue
  BY DEF Init, TimerCoversQueue
<1>2. TypeOK /\ TimerCoversQueue /\ [Next]_vars => TimerCoversQueue'
  <2> SUFFICES ASSUME TypeOK, TimerCoversQueue, [Next]_vars
               PROVE  TimerCoversQueue'
    OBVIOUS
  <2> USE DEF TimerCoversQueue
  <2>1. ASSUME NEW t \in Threads, NEW n \in 1..MaxFrags, Send(t, n)
        PROVE  TimerCoversQueue'
    BY <2>1 DEF Send, TypeOK
  <2>2. ASSUME NEW t \in Threads, TransmitFragment(t)
        PROVE  TimerCoversQueue'
    BY <2>2 DEF TransmitFragment
  <2>3. ASSUME NEW t \in Threads, SendReturn(t)
        PROVE  TimerCoversQueue'
    BY <2>3 DEF SendReturn, reset_retransmit_timer
  <2>4. ASSUME NEW a \in acks, OnAck(a)
        PROVE  TimerCoversQueue'
    BY <2>4 DEF OnAck
  <2>5. ASSUME NEW k \in 0..Len(queue), OnRetransmitTimer(k)
        PROVE  TimerCoversQueue'
    BY <2>5 DEF OnRetransmitTimer
  <2>6. CASE EmitterReset
    BY <2>6 DEF EmitterReset, reset_retransmit_timer
  <2>7. CASE Receiver \/ Network
    BY <2>7 DEF Receiver, OnData, Reassemble, ReassembleReturn,
                Network, LoseData, LoseAck, txVars
  <2>8. CASE UNCHANGED vars
    BY <2>8 DEF vars, txVars
  <2> QED
    BY <2>1, <2>2, <2>3, <2>4, <2>5, <2>6, <2>7, <2>8 DEF Next, Sender
<1> QED
  BY <1>1, <1>2, TypeCorrect, PTL DEF Spec

-----------------------------------------------------------------------------
(* Ordered delivery *)

(* The first and the last position of the k-th packet of s. *)
First(s, k) == s[k][1]
Last(s, k) == s[k][1] + Len(s[k]) - 1

(* The packets of s divide the positions below x: each is a run of positions, *)
(* the runs follow each other without a gap.                                  *)
Tiles(s, x) ==
  /\ \A k \in 1..Len(s) : Len(s[k]) >= 1 /\ s[k] = PacketOf(First(s, k), Last(s, k))
  /\ \A k \in 1..Len(s) : Last(s, k) < x
  /\ \A k, l \in 1..Len(s) : k < l => Last(s, k) < First(s, l)
  /\ \A k \in 1..Len(s) : k + 1 <= Len(s) => First(s, k + 1) = Last(s, k) + 1
  /\ Len(s) > 0 => First(s, 1) = 0 /\ Last(s, Len(s)) + 1 = x
  /\ Len(s) = 0 => x = 0

IsLast(s, i) == \E k \in 1..Len(s) : Last(s, k) = i

(* A frame that exists, marked as the last of its packet iff it is. *)
FrameOK(s, x, d) == /\ d.idx < x
                    /\ d.type \in {"END", "SINGLE"} <=> IsLast(s, d.idx)

FramesOK ==
  /\ \A d \in net : FrameOK(sent, txIdx, d)
  /\ \A d \in rxMap : FrameOK(sent, txIdx, d)
  /\ \A k \in 1..Len(queue) : FrameOK(sent, txIdx, queue[k])

(* A thread inside send() works on the run of one packet. *)
JobOK(s, j) == \E k \in 1..Len(s) : /\ j.first = First(s, k)
                                    /\ j.last = Last(s, k)
                                    /\ j.first <= j.next

JobsOK == \A t \in Threads : pc[t] = "sending" => JobOK(sent, job[t])

(* Only frames at or ahead of _rx_seq are stored where find(_rx_seq) looks, *)
(* and no two under one seq.                                                *)
RxMapOK ==
  /\ rxIdx <= txIdx /\ txIdx <= rxIdx + Half
  /\ \A e \in rxMap : e.rt = 0 => rxIdx <= e.idx
  /\ \A d, e \in rxMap : SameSeq(d, e) => d = e

(* The packet that is being reassembled starts where the n delivered end. *)
NextStart(s, n) == IF n = 0 THEN 0 ELSE Last(s, n) + 1

(* The reassembly list r, before position x, holds the head of that packet. *)
HeadOfPacket(s, n, r, x) ==
  /\ x - Len(r) = NextStart(s, n)
  /\ \A i \in 1..Len(r) : r[i] = NextStart(s, n) + i - 1
  /\ \A k \in 1..Len(s) : ~(NextStart(s, n) <= Last(s, k) /\ Last(s, k) < x)

ReassemblyOK == HeadOfPacket(sent, Len(delivered), reassembly, rxIdx)

OrderInv == /\ Tiles(sent, txIdx)
            /\ FramesOK
            /\ JobsOK
            /\ RxMapOK
            /\ ReassemblyOK
            /\ InOrderIntact

LEMMA PacketOfProperties ==
  ASSUME NEW a \in Nat, NEW n \in Nat \ {0}
  PROVE  LET p == PacketOf(a, a + n - 1)
         IN p \in Seq(Nat) /\ Len(p) = n /\ p[1] = a
BY DEF PacketOf

LEMMA TileBounds ==
  ASSUME NEW s \in Seq(Seq(Nat)), NEW x \in Nat, Tiles(s, x), NEW k \in 1..Len(s)
  PROVE  First(s, k) \in Nat /\ Last(s, k) \in Nat /\ First(s, k) <= Last(s, k)
<1>1. s[k] \in Seq(Nat) /\ Len(s[k]) >= 1
  BY DEF Tiles
<1> QED
  BY <1>1 DEF First, Last

(* r is s and one more packet, of the n frames from x on. *)
Extends(r, s, x, n) ==
  LET z == Len(s) + 1
  IN /\ r \in Seq(Seq(Nat)) /\ Len(r) = z
     /\ \A k \in 1..Len(s) : /\ r[k] = s[k]
                             /\ First(r, k) = First(s, k)
                             /\ Last(r, k) = Last(s, k)
     /\ First(r, z) = x /\ Last(r, z) = x + n - 1
     /\ r[z] = PacketOf(x, x + n - 1) /\ Len(r[z]) = n

LEMMA AppendPacket ==
  ASSUME NEW s \in Seq(Seq(Nat)), NEW x \in Nat, NEW n \in Nat \ {0}
  PROVE  Extends(Append(s, PacketOf(x, x + n - 1)), s, x, n)
<1> DEFINE p == PacketOf(x, x + n - 1)
           r == Append(s, p)
           z == Len(s) + 1
<1>1. p \in Seq(Nat) /\ Len(p) = n /\ p[1] = x
  BY PacketOfProperties
<1> HIDE DEF p
<1>2. /\ r \in Seq(Seq(Nat)) /\ Len(r) = z
      /\ \A k \in 1..Len(s) : r[k] = s[k]
      /\ r[z] = p
  BY <1>1
<1>3. First(r, z) = x /\ Last(r, z) = x + n - 1
  BY <1>1, <1>2 DEF First, Last
<1>4. \A k \in 1..Len(s) : First(r, k) = First(s, k) /\ Last(r, k) = Last(s, k)
  BY <1>2 DEF First, Last
<1> QED
  BY <1>1, <1>2, <1>3, <1>4 DEF p, Extends

LEMMA TilesAppend ==
  ASSUME NEW s \in Seq(Seq(Nat)), NEW x \in Nat, NEW n \in Nat \ {0}, Tiles(s, x)
  PROVE  Tiles(Append(s, PacketOf(x, x + n - 1)), x + n)
<1> DEFINE r == Append(s, PacketOf(x, x + n - 1))
           z == Len(s) + 1
<1>1. /\ r \in Seq(Seq(Nat)) /\ Len(r) = z
      /\ \A k \in 1..Len(s) : /\ r[k] = s[k]
                              /\ First(r, k) = First(s, k)
                              /\ Last(r, k) = Last(s, k)
      /\ First(r, z) = x /\ Last(r, z) = x + n - 1
      /\ r[z] = PacketOf(x, x + n - 1) /\ Len(r[z]) = n
  <2>1. Extends(r, s, x, n)
    BY AppendPacket
  <2> HIDE DEF r
  <2> QED
    BY <2>1 DEF Extends
<1> HIDE DEF r
<1>2. \A k \in 1..Len(s) : First(s, k) \in Nat /\ Last(s, k) \in Nat /\ First(s, k) <= Last(s, k)
  BY TileBounds
<1>3. /\ z \in Nat /\ Len(s) \in Nat
      /\ \A k \in 1..z : k \in 1..Len(s) \/ k = z
  OBVIOUS
<1>4. \A k \in 1..z : Len(r[k]) >= 1 /\ r[k] = PacketOf(First(r, k), Last(r, k))
  <2>1. ASSUME NEW k \in 1..Len(s)
        PROVE  Len(r[k]) >= 1 /\ r[k] = PacketOf(First(r, k), Last(r, k))
    BY <1>1 DEF Tiles
  <2>2. Len(r[z]) >= 1 /\ r[z] = PacketOf(First(r, z), Last(r, z))
    BY <1>1
  <2> QED
    BY <1>3, <2>1, <2>2
<1>5. \A k \in 1..z : Last(r, k) < x + n
  <2>1. ASSUME NEW k \in 1..Len(s)
        PROVE  Last(r, k) < x + n
    <3>1. Last(s, k) < x /\ Last(r, k) = Last(s, k) /\ Last(s, k) \in Nat
      BY <1>1, <1>2 DEF Tiles
    <3> QED
      BY <3>1
  <2>2. Last(r, z) < x + n
    BY <1>1
  <2> QED
    BY <1>3, <2>1, <2>2
<1>6. \A k, l \in 1..z : k < l => Last(r, k) < First(r, l)
  <2>1. SUFFICES ASSUME NEW k \in 1..z, NEW l \in 1..z, k < l
                 PROVE  Last(r, k) < First(r, l)
    OBVIOUS
  <2>2. k \in 1..Len(s) /\ Last(r, k) = Last(s, k) /\ Last(s, k) < x
    BY <1>1, <1>3, <2>1, SMTT(30) DEF Tiles
  <2>3. CASE l = z
    BY <1>1, <2>2, <2>3
  <2>4. CASE l \in 1..Len(s)
    <3>1. Last(s, k) < First(s, l)
      BY <2>1, <2>2, <2>4 DEF Tiles
    <3> QED
      BY <1>1, <2>2, <2>4, <3>1
  <2> QED
    BY <1>3, <2>3, <2>4
<1>7. \A k \in 1..z : k + 1 <= z => First(r, k + 1) = Last(r, k) + 1
  <2>1. SUFFICES ASSUME NEW k \in 1..Len(s)
                 PROVE  First(r, k + 1) = Last(r, k) + 1
    OBVIOUS
  <2>2. CASE k + 1 <= Len(s)
    BY <1>1, <2>2 DEF Tiles
  <2>3. CASE k = Len(s)
    <3>1. Last(s, k) + 1 = x
      BY <2>3 DEF Tiles
    <3>2. First(r, k + 1) = x
      BY <1>1, <2>3
    <3> QED
      BY <1>1, <3>1, <3>2
  <2> QED
    BY <2>2, <2>3
<1>8. First(r, 1) = 0 /\ Last(r, z) + 1 = x + n
  <2>1. CASE Len(s) = 0
    BY <1>1, <2>1 DEF Tiles
  <2>2. CASE Len(s) > 0
    BY <1>1, <2>2 DEF Tiles
  <2> QED
    BY <2>1, <2>2
<1>9. Tiles(r, x + n)
  BY <1>1, <1>4, <1>5, <1>6, <1>7, <1>8 DEF Tiles
<1> QED
  BY <1>9 DEF r

(* The marks of the frames below x survive one more packet. *)
LEMMA FrameOKAppend ==
  ASSUME NEW s \in Seq(Seq(Nat)), NEW x \in Nat, NEW n \in Nat \ {0}, Tiles(s, x),
         NEW d, d.idx \in Nat, FrameOK(s, x, d)
  PROVE  FrameOK(Append(s, PacketOf(x, x + n - 1)), x + n, d)
<1> DEFINE r == Append(s, PacketOf(x, x + n - 1))
           z == Len(s) + 1
<1>1. /\ Len(r) = z
      /\ \A k \in 1..Len(s) : Last(r, k) = Last(s, k)
      /\ Last(r, z) = x + n - 1
  <2>1. Extends(r, s, x, n)
    BY AppendPacket
  <2> HIDE DEF r
  <2> QED
    BY <2>1 DEF Extends
<1> HIDE DEF r
<1>2. d.idx < x
  BY DEF FrameOK
<1>3. IsLast(r, d.idx) <=> IsLast(s, d.idx)
  <2>1. Len(s) \in Nat /\ \A k \in 1..z : k \in 1..Len(s) \/ k = z
    OBVIOUS
  <2>2. Last(r, z) # d.idx
    BY <1>1, <1>2
  <2> QED
    BY <1>1, <2>1, <2>2, SMTT(30) DEF IsLast
<1>4. FrameOK(r, x + n, d)
  BY <1>2, <1>3 DEF FrameOK
<1> QED
  BY <1>4 DEF r

LEMMA OrderInit == Init => OrderInv
<1> SUFFICES ASSUME Init
             PROVE  OrderInv
  OBVIOUS
<1>1. Tiles(sent, txIdx)
  BY DEF Init, Tiles
<1>2. FramesOK /\ JobsOK
  BY DEF Init, FramesOK, JobsOK
<1>3. RxMapOK
  BY ConstantsOK DEF Init, RxMapOK
<1>4. ReassemblyOK
  <2>1. /\ Len(delivered) = 0 /\ Len(reassembly) = 0 /\ Len(sent) = 0 /\ rxIdx = 0
        /\ NextStart(sent, Len(delivered)) = 0
    BY DEF Init, NextStart
  <2> QED
    BY <2>1 DEF ReassemblyOK, HeadOfPacket
<1>5. InOrderIntact
  BY DEF Init, InOrderIntact
<1> QED
  BY <1>1, <1>2, <1>3, <1>4, <1>5 DEF OrderInv

(* send() appends a run of fresh positions. *)
LEMMA OrderSend ==
  ASSUME TypeOK, OrderInv, NEW t \in Threads, NEW n \in 1..MaxFrags, Send(t, n)
  PROVE  OrderInv'
<1> DEFINE r == Append(sent, PacketOf(txIdx, txIdx + n - 1))
           z == Len(sent) + 1
<1>1. /\ txIdx \in Nat /\ rxIdx \in Nat /\ n \in Nat \ {0} /\ Half \in Nat
      /\ sent \in Seq(Seq(Nat)) /\ delivered \in Seq(Seq(Nat)) /\ reassembly \in Seq(Nat)
  BY ConstantsOK DEF TypeOK
<1>2. Tiles(sent, txIdx)
  BY DEF OrderInv
<1>3. /\ sent' = r /\ txIdx' = txIdx + n
      /\ UNCHANGED <<queue, net, rxIdx, rxMap, reassembly, delivered>>
  BY DEF Send, rxVars
<1>4. /\ r \in Seq(Seq(Nat)) /\ Len(r) = z
      /\ \A k \in 1..Len(sent) : /\ r[k] = sent[k]
                                 /\ First(r, k) = First(sent, k)
                                 /\ Last(r, k) = Last(sent, k)
      /\ First(r, z) = txIdx /\ Last(r, z) = txIdx + n - 1
  <2>1. Extends(r, sent, txIdx, n)
    BY <1>1, AppendPacket
  <2> HIDE DEF r
  <2> QED
    BY <2>1 DEF Extends
<1>5. Tiles(r, txIdx + n)
  BY <1>1, <1>2, TilesAppend
<1>6. \A d : d.idx \in Nat /\ FrameOK(sent, txIdx, d) => FrameOK(r, txIdx + n, d)
  BY <1>1, <1>2, FrameOKAppend
<1> HIDE DEF r
<1>7. FramesOK'
  <2>1. \A d \in net : d.idx \in Nat
    BY DEF TypeOK, Frame
  <2>2. \A d \in rxMap : d.idx \in Nat
    BY DEF TypeOK, Frame
  <2>3. \A k \in 1..Len(queue) : queue[k].idx \in Nat
    <3>1. \A k \in 1..Len(queue) : queue[k] \in TransmitPacket
      BY DEF TypeOK
    <3> QED
      BY <3>1 DEF TransmitPacket
  <2> QED
    BY <1>3, <1>6, <2>1, <2>2, <2>3 DEF OrderInv, FramesOK
<1>8. JobsOK'
  <2>1. SUFFICES ASSUME NEW u \in Threads, pc'[u] = "sending"
                 PROVE  JobOK(r, job'[u])
    BY <1>3 DEF JobsOK
  <2>2. CASE u = t
    <3>1. job'[t] = [first |-> txIdx, next |-> txIdx, last |-> txIdx + n - 1]
      BY DEF Send, TypeOK
    <3>2. z \in 1..Len(r)
      BY <1>1, <1>4
    <3> QED
      BY <1>1, <1>4, <2>2, <3>1, <3>2 DEF JobOK
  <2>3. CASE u # t
    <3>1. job'[u] = job[u] /\ pc[u] = "sending"
      BY <2>1, <2>3 DEF Send, TypeOK
    <3>2. \A k \in 1..Len(sent) : k \in 1..Len(r)
      BY <1>1, <1>4
    <3>3. JobOK(sent, job[u])
      BY <3>1 DEF OrderInv, JobsOK
    <3> QED
      BY <1>4, <3>1, <3>2, <3>3 DEF JobOK
  <2> QED
    BY <2>2, <2>3
<1>9. RxMapOK'
  <2>1. txIdx + n <= rxIdx + Half
    BY DEF Send, MaxBacklog
  <2> QED
    BY <1>1, <1>3, <2>1 DEF OrderInv, RxMapOK
<1>10. ReassemblyOK'
  <2>1. Len(delivered) \in Nat /\ Len(delivered) <= Len(sent)
    BY <1>1 DEF OrderInv, InOrderIntact
  <2>2. NextStart(r, Len(delivered)) = NextStart(sent, Len(delivered))
    BY <1>1, <1>4, <2>1 DEF NextStart
  <2>3. HeadOfPacket(sent, Len(delivered), reassembly, rxIdx) /\ rxIdx <= txIdx
    BY DEF OrderInv, ReassemblyOK, RxMapOK
  <2>4. \A k \in 1..Len(r) : k \in 1..Len(sent) \/ k = z
    BY <1>1, <1>4
  <2>5. ~(Last(r, z) < rxIdx)
    BY <1>1, <1>4, <2>3
  <2>6. HeadOfPacket(r, Len(delivered), reassembly, rxIdx)
    BY <1>4, <2>2, <2>3, <2>4, <2>5 DEF HeadOfPacket
  <2> QED
    BY <1>3, <2>6 DEF ReassemblyOK
<1>11. InOrderIntact'
  BY <1>1, <1>3, <1>4, SMTT(30) DEF OrderInv, InOrderIntact
<1> QED
  BY <1>3, <1>5, <1>7, <1>8, <1>9, <1>10, <1>11 DEF OrderInv

(* Only the last position of a run is marked as the end of its packet. *)
LEMMA FragmentMark ==
  ASSUME NEW s \in Seq(Seq(Nat)), NEW x \in Nat, Tiles(s, x),
         NEW j \in Job, JobOK(s, j), j.next <= j.last
  PROVE  /\ j.next < x
         /\ TypeOfFragment(j) \in {"END", "SINGLE"} <=> IsLast(s, j.next)
<1>1. PICK k \in 1..Len(s) : j.first = First(s, k) /\ j.last = Last(s, k) /\ j.first <= j.next
  BY DEF JobOK
<1>2. j.first \in Nat /\ j.next \in Nat /\ j.last \in Nat
  BY DEF Job
<1>3. j.next < x
  BY <1>1, <1>2 DEF Tiles
<1>4. IsLast(s, j.next) <=> j.next = j.last
  <2>1. ASSUME NEW l \in 1..Len(s), Last(s, l) = j.next
        PROVE  j.next = j.last
    <3>1. First(s, l) \in Nat /\ First(s, l) <= Last(s, l)
      BY TileBounds
    <3>2. CASE l < k
      <4>1. Last(s, l) < First(s, k)
        BY <3>2 DEF Tiles
      <4> QED
        BY <1>1, <1>2, <2>1, <4>1
    <3>3. CASE k < l
      <4>1. Last(s, k) < First(s, l)
        BY <3>3 DEF Tiles
      <4> QED
        BY <1>1, <1>2, <2>1, <3>1, <4>1
    <3>4. CASE l = k
      BY <1>1, <2>1, <3>4
    <3> QED
      BY <3>2, <3>3, <3>4
  <2> QED
    BY <1>1, <2>1 DEF IsLast
<1>5. TypeOfFragment(j) \in {"END", "SINGLE"} <=> j.next = j.last
  BY DEF TypeOfFragment
<1> QED
  BY <1>3, <1>4, <1>5

LEMMA OrderTransmit ==
  ASSUME TypeOK, OrderInv, NEW t \in Threads, TransmitFragment(t)
  PROVE  OrderInv'
<1> DEFINE j == job[t]
           e == [idx |-> j.next, type |-> TypeOfFragment(j), rt |-> 0, n |-> 1]
<1>1. /\ txIdx \in Nat /\ sent \in Seq(Seq(Nat)) /\ j \in Job /\ queue \in Seq(TransmitPacket)
      /\ Tiles(sent, txIdx)
  BY DEF TypeOK, OrderInv
<1>2. /\ UNCHANGED <<txIdx, sent, pc, rxIdx, rxMap, reassembly, delivered>>
      /\ queue' = Append(queue, e) /\ net' = net \cup {Wire(e)}
      /\ job' = [job EXCEPT ![t] = [first |-> j.first, next |-> j.next + 1, last |-> j.last]]
      /\ pc[t] = "sending" /\ j.next <= j.last
  BY DEF TransmitFragment, rxVars
<1>3. FrameOK(sent, txIdx, e) /\ FrameOK(sent, txIdx, Wire(e))
  <2>1. JobOK(sent, j)
    BY <1>2 DEF OrderInv, JobsOK
  <2>2. j.next < txIdx /\ (TypeOfFragment(j) \in {"END", "SINGLE"} <=> IsLast(sent, j.next))
    BY <1>1, <1>2, <2>1, FragmentMark
  <2> QED
    BY <2>2 DEF FrameOK, Wire
<1> HIDE DEF e
<1>4. FramesOK'
  <2>1. \A k \in 1..Len(queue') : FrameOK(sent, txIdx, queue'[k])
    BY <1>1, <1>2, <1>3 DEF OrderInv, FramesOK
  <2> QED
    BY <1>2, <1>3, <2>1 DEF OrderInv, FramesOK
<1>5. JobsOK'
  <2>1. SUFFICES ASSUME NEW u \in Threads, pc[u] = "sending"
                 PROVE  JobOK(sent, job'[u])
    BY <1>2 DEF JobsOK
  <2>2. JobOK(sent, job[u]) /\ job \in [Threads -> Job]
    BY <2>1 DEF OrderInv, JobsOK, TypeOK
  <2>3. CASE u = t
    <3>1. job'[u] = [first |-> j.first, next |-> j.next + 1, last |-> j.last]
      BY <1>2, <2>2, <2>3
    <3>2. j.first \in Nat /\ j.next \in Nat
      BY <1>1 DEF Job
    <3> QED
      BY <2>2, <2>3, <3>1, <3>2 DEF JobOK
  <2>4. CASE u # t
    BY <1>2, <2>2, <2>4
  <2> QED
    BY <2>3, <2>4
<1> QED
  BY <1>1, <1>2, <1>4, <1>5 DEF OrderInv, RxMapOK, ReassemblyOK, InOrderIntact

(* Steps that only shrink, reorder or renumber what the sender and the network *)
(* hold.                                                                       *)
LEMMA OrderOther ==
  ASSUME TypeOK, OrderInv,
         \/ \E t \in Threads : SendReturn(t)
         \/ \E a \in acks : OnAck(a)
         \/ \E k \in 0..Len(queue) : OnRetransmitTimer(k)
         \/ EmitterReset
         \/ ReassembleReturn
         \/ Network
         \/ UNCHANGED vars
  PROVE  OrderInv'
<1> DEFINE Same == UNCHANGED <<txIdx, sent, rxIdx, rxMap, reassembly, delivered>>
<1>1. ASSUME Same, JobsOK', FramesOK'
      PROVE  OrderInv'
  BY <1>1 DEF OrderInv, RxMapOK, ReassemblyOK, InOrderIntact
<1>2. ASSUME NEW t \in Threads, SendReturn(t)
      PROVE  OrderInv'
  <2>1. Same /\ UNCHANGED <<queue, net>>
    BY <1>2 DEF SendReturn, rxVars
  <2>2. \A u \in Threads : pc'[u] = "sending" => job'[u] = job[u] /\ pc[u] = "sending"
    BY <1>2 DEF SendReturn, TypeOK
  <2>3. JobsOK'
    BY <2>1, <2>2 DEF OrderInv, JobsOK
  <2>4. FramesOK'
    BY <2>1 DEF OrderInv, FramesOK
  <2> QED
    BY <1>1, <2>1, <2>3, <2>4
<1>3. ASSUME NEW a \in acks, OnAck(a)
      PROVE  OrderInv'
  <2>1. Same /\ UNCHANGED <<pc, job, net>>
    BY <1>3 DEF OnAck, rxVars
  <2>2. \A k \in 1..Len(queue') : \E i \in 1..Len(queue) : queue'[k] = queue[i]
    BY <1>3 DEF OnAck, EraseAcked
  <2>3. FramesOK'
    BY <2>1, <2>2 DEF OrderInv, FramesOK
  <2>4. JobsOK'
    BY <2>1 DEF OrderInv, JobsOK
  <2> QED
    BY <1>1, <2>1, <2>3, <2>4
<1>4. ASSUME NEW k \in 0..Len(queue), OnRetransmitTimer(k)
      PROVE  OrderInv'
  <2> DEFINE b == [i \in 1..k |-> Bump(queue[i])]
             r == SubSeq(queue, k + 1, Len(queue))
  <2>1. Same /\ UNCHANGED <<pc, job>>
    BY <1>4 DEF OnRetransmitTimer, rxVars
  <2>2. \A i \in 1..k : FrameOK(sent, txIdx, Bump(queue[i])) /\ FrameOK(sent, txIdx, Wire(Bump(queue[i])))
    <3>1. SUFFICES ASSUME NEW i \in 1..k
                   PROVE  FrameOK(sent, txIdx, Bump(queue[i])) /\ FrameOK(sent, txIdx, Wire(Bump(queue[i])))
      OBVIOUS
    <3>2. queue[i] \in TransmitPacket /\ FrameOK(sent, txIdx, queue[i])
      BY DEF TypeOK, OrderInv, FramesOK
    <3>3. Bump(queue[i]).idx = queue[i].idx /\ Bump(queue[i]).type = queue[i].type
      BY <3>2, BumpType
    <3> QED
      BY <3>2, <3>3 DEF FrameOK, Wire
  <2>3. b \in Seq(TransmitPacket) /\ Len(b) = k /\ \A i \in 1..k : b[i] = Bump(queue[i])
    <3>1. \A i \in 1..k : Bump(queue[i]) \in TransmitPacket
      BY BumpType DEF TypeOK
    <3> QED
      BY <3>1
  <2>4. /\ r \in Seq(TransmitPacket) /\ Len(r) = Len(queue) - k
        /\ \A i \in 1..Len(r) : r[i] = queue[k + i]
    BY DEF TypeOK
  <2>5. queue' = r \o b /\ net' = net \cup {Wire(Bump(queue[i])) : i \in 1..k}
    BY <1>4 DEF OnRetransmitTimer
  <2> HIDE DEF b, r
  <2>6. \A i \in 1..Len(r) : FrameOK(sent, txIdx, r[i])
    <3>1. queue \in Seq(TransmitPacket)
      BY DEF TypeOK
    <3>2. \A i \in 1..Len(r) : k + i \in 1..Len(queue)
      BY <2>4, <3>1
    <3> QED
      BY <2>4, <3>2 DEF OrderInv, FramesOK
  <2>7. \A i \in 1..Len(queue') : FrameOK(sent, txIdx, queue'[i])
    <3>1. SUFFICES ASSUME NEW i \in 1..Len(r \o b)
                   PROVE  FrameOK(sent, txIdx, (r \o b)[i])
      BY <2>5
    <3>2. CASE i <= Len(r)
      BY <2>3, <2>4, <2>6, <3>2
    <3>3. CASE i > Len(r)
      <4>1. i - Len(r) \in 1..k /\ (r \o b)[i] = b[i - Len(r)]
        BY <2>3, <2>4, <3>3
      <4> QED
        BY <2>2, <2>3, <4>1
    <3> QED
      BY <2>3, <2>4, <3>2, <3>3
  <2>8. FramesOK'
    BY <2>1, <2>2, <2>5, <2>7 DEF OrderInv, FramesOK
  <2>9. JobsOK'
    BY <2>1 DEF OrderInv, JobsOK
  <2> QED
    BY <1>1, <2>1, <2>8, <2>9
<1>5. CASE EmitterReset \/ ReassembleReturn \/ UNCHANGED vars
  <2>1. Same /\ UNCHANGED <<pc, job, queue, net>>
    BY <1>5 DEF EmitterReset, ReassembleReturn, vars, txVars, rxVars
  <2>2. FramesOK' /\ JobsOK'
    BY <2>1 DEF OrderInv, FramesOK, JobsOK
  <2> QED
    BY <1>1, <2>1, <2>2
<1>6. CASE Network
  <2>1. Same /\ UNCHANGED <<pc, job, queue>> /\ net' \subseteq net
    BY <1>6 DEF Network, LoseData, LoseAck, txVars, rxVars
  <2>2. FramesOK' /\ JobsOK'
    BY <2>1 DEF OrderInv, FramesOK, JobsOK
  <2> QED
    BY <1>1, <2>1, <2>2
<1> QED
  BY <1>2, <1>3, <1>4, <1>5, <1>6

(* A frame that is stored is not behind: the comparison is right because the *)
(* frame is within half a turn of _rx_seq on either side.                    *)
LEMMA OrderData ==
  ASSUME TypeOK, OrderInv, NEW d \in net, OnData(d)
  PROVE  OrderInv'
<1>1. /\ UNCHANGED <<txIdx, sent, pc, job, queue, net, rxIdx, reassembly, delivered>>
      /\ rxMap' = rxMap \/ (NotBehind(d.idx, rxIdx) /\ rxMap' = Inserted(rxMap, d))
      /\ d.idx + Half >= rxIdx
  BY DEF OnData, FreshData, txVars
<1>2. d.idx \in Nat /\ rxIdx \in Nat /\ txIdx \in Nat /\ Half \in Nat
  BY ConstantsOK DEF TypeOK, Frame
<1>3. FrameOK(sent, txIdx, d) /\ d.idx < txIdx /\ txIdx <= rxIdx + Half
  BY DEF OrderInv, FramesOK, FrameOK, RxMapOK
<1>4. FramesOK'
  BY <1>1, <1>3 DEF OrderInv, FramesOK, Inserted
<1>5. JobsOK'
  BY <1>1 DEF OrderInv, JobsOK
<1>6. NotBehind(d.idx, rxIdx) => rxIdx <= d.idx
  BY <1>1, <1>2, <1>3, NotBehindMeansAhead
<1>7. RxMapOK'
  <2>1. \A e \in rxMap' : e.rt = 0 => rxIdx <= e.idx
    BY <1>1, <1>6 DEF OrderInv, RxMapOK, Inserted
  <2>2. \A e, f \in rxMap' : SameSeq(e, f) => e = f
    BY <1>1 DEF OrderInv, RxMapOK, Inserted, SameSeq
  <2> QED
    BY <1>1, <2>1, <2>2 DEF OrderInv, RxMapOK
<1> QED
  BY <1>1, <1>4, <1>5, <1>7 DEF OrderInv, ReassemblyOK, InOrderIntact

(* find(_rx_seq) can only return the frame at position _rx_seq. *)
LEMMA FoundIsNext ==
  ASSUME TypeOK, OrderInv, NEW e \in rxMap, Found(e)
  PROVE  e.idx = rxIdx /\ rxIdx < txIdx
<1>1. e.idx \in Nat /\ rxIdx \in Nat /\ txIdx \in Nat /\ Half \in Nat \ {0}
  BY ConstantsOK DEF TypeOK, Frame
<1>2. rxIdx <= e.idx /\ e.idx < txIdx /\ txIdx <= rxIdx + Half
  BY DEF OrderInv, RxMapOK, FramesOK, FrameOK, Found
<1>3. e.idx - rxIdx < SeqNums /\ rxIdx - e.idx < SeqNums
  BY <1>1, <1>2 DEF SeqNums
<1>4. e.idx = rxIdx
  BY <1>1, <1>3, SeqNumUnique DEF Found
<1> QED
  BY <1>1, <1>2, <1>4

(* The packet being reassembled is the next one of the stream; the frame at x *)
(* completes it iff it is marked.                                             *)
LEMMA NextPacket ==
  ASSUME NEW s \in Seq(Seq(Nat)), NEW y \in Nat, Tiles(s, y),
         NEW n \in Nat, n <= Len(s), NEW r \in Seq(Nat), NEW x \in Nat, x < y,
         HeadOfPacket(s, n, r, x)
  PROVE  /\ n + 1 <= Len(s)
         /\ First(s, n + 1) = NextStart(s, n)
         /\ x <= Last(s, n + 1)
         /\ IsLast(s, x) => Last(s, n + 1) = x
<1>1. Len(s) \in Nat /\ Len(r) \in Nat
  OBVIOUS
<1>2. \A k \in 1..Len(s) : First(s, k) \in Nat /\ Last(s, k) \in Nat /\ First(s, k) <= Last(s, k)
  BY TileBounds
<1>3. NextStart(s, n) \in Nat /\ NextStart(s, n) <= x
  BY <1>1, <1>2 DEF NextStart, HeadOfPacket
<1>4. n + 1 <= Len(s)
  <2>1. SUFFICES ASSUME n = Len(s)
                 PROVE  FALSE
    BY <1>1
  <2>2. NextStart(s, n) = y
    BY <1>1, <2>1 DEF NextStart, Tiles
  <2> QED
    BY <1>3, <2>2
<1>5. First(s, n + 1) = NextStart(s, n)
  <2>1. CASE n = 0
    BY <1>1, <1>4, <2>1 DEF NextStart, Tiles
  <2>2. CASE n > 0
    BY <1>1, <1>4, <2>2 DEF NextStart, Tiles
  <2> QED
    BY <2>1, <2>2
<1>6. n + 1 \in 1..Len(s)
  BY <1>1, <1>4
<1>7. x <= Last(s, n + 1)
  BY <1>2, <1>3, <1>5, <1>6 DEF HeadOfPacket
<1>8. ASSUME NEW k \in 1..Len(s), Last(s, k) = x
      PROVE  Last(s, n + 1) = x
  <2>1. CASE k <= n
    <3>1. n \in 1..Len(s) /\ Last(s, n) + 1 = NextStart(s, n)
      BY <1>1, <2>1 DEF NextStart
    <3>2. k < n => Last(s, k) < First(s, n)
      BY <3>1 DEF Tiles
    <3> QED
      BY <1>2, <1>3, <1>8, <2>1, <3>1, <3>2
  <2>2. CASE k > n + 1
    <3>1. Last(s, n + 1) < First(s, k)
      BY <1>6, <2>2 DEF Tiles
    <3> QED
      BY <1>2, <1>6, <1>7, <1>8, <3>1
  <2>3. CASE k = n + 1
    BY <1>8, <2>3
  <2> QED
    BY <1>1, <2>1, <2>2, <2>3
<1> QED
  BY <1>4, <1>5, <1>7, <1>8 DEF IsLast

LEMMA OrderReassemble ==
  ASSUME TypeOK, OrderInv, Reassemble
  PROVE  OrderInv' /\ (delivered' # delivered =>
                         /\ Len(delivered) < Len(sent)
                         /\ delivered' = Append(delivered, sent[Len(delivered) + 1]))
<1> DEFINE n == Len(delivered)
           a == NextStart(sent, n)
<1>1. PICK e \in rxMap :
        /\ Found(e)
        /\ rxMap' = rxMap \ {e}
        /\ IF e.type \in {"END", "SINGLE"}
             THEN /\ delivered' = Append(delivered, Append(reassembly, e.idx))
                  /\ reassembly' = <<>>
             ELSE /\ reassembly' = Append(reassembly, e.idx)
                  /\ UNCHANGED delivered
  BY DEF Reassemble
<1>2. rxIdx' = rxIdx + 1 /\ UNCHANGED <<txIdx, sent, pc, job, queue, net>>
  BY DEF Reassemble, txVars
<1>3. e.idx = rxIdx /\ rxIdx < txIdx
  BY <1>1, FoundIsNext
<1>4. /\ rxIdx \in Nat /\ txIdx \in Nat /\ Half \in Nat /\ n \in Nat /\ Len(reassembly) \in Nat
      /\ sent \in Seq(Seq(Nat)) /\ delivered \in Seq(Seq(Nat)) /\ reassembly \in Seq(Nat)
  BY ConstantsOK DEF TypeOK
<1>5. Tiles(sent, txIdx) /\ n <= Len(sent) /\ HeadOfPacket(sent, n, reassembly, rxIdx)
  BY DEF OrderInv, InOrderIntact, ReassemblyOK
<1>6. /\ n + 1 <= Len(sent)
      /\ First(sent, n + 1) = a
      /\ rxIdx <= Last(sent, n + 1)
      /\ IsLast(sent, rxIdx) => Last(sent, n + 1) = rxIdx
  BY <1>3, <1>4, <1>5, NextPacket
<1>7. e.type \in {"END", "SINGLE"} <=> IsLast(sent, rxIdx)
  BY <1>3 DEF OrderInv, FramesOK, FrameOK
<1>8. FramesOK' /\ JobsOK'
  BY <1>1, <1>2 DEF OrderInv, FramesOK, JobsOK
<1>9. RxMapOK'
  <2>1. ASSUME NEW f \in rxMap', f.rt = 0
        PROVE  rxIdx + 1 <= f.idx
    <3>1. f \in rxMap /\ f # e /\ f.idx \in Nat
      BY <1>1, <2>1 DEF TypeOK, Frame
    <3>2. rxIdx <= f.idx
      BY <2>1, <3>1 DEF OrderInv, RxMapOK
    <3>3. f.idx # rxIdx
      BY <1>1, <1>3, <2>1, <3>1 DEF OrderInv, RxMapOK, SameSeq, Found
    <3> QED
      BY <1>4, <3>1, <3>2, <3>3
  <2>2. rxIdx' <= txIdx' /\ txIdx' <= rxIdx' + Half
    BY <1>2, <1>3, <1>4 DEF OrderInv, RxMapOK
  <2>3. \A f, g \in rxMap' : SameSeq(f, g) => f = g
    BY <1>1 DEF OrderInv, RxMapOK
  <2> QED
    BY <1>2, <2>1, <2>2, <2>3 DEF RxMapOK
<1>10. a \in Int /\ rxIdx - Len(reassembly) = a /\ \A i \in 1..Len(reassembly) : reassembly[i] = a + i - 1
  BY <1>4, <1>5 DEF HeadOfPacket
<1>11. /\ Append(reassembly, rxIdx) \in Seq(Nat)
       /\ Len(Append(reassembly, rxIdx)) = Len(reassembly) + 1
       /\ \A i \in 1..(Len(reassembly) + 1) : Append(reassembly, rxIdx)[i] = a + i - 1
  BY <1>4, <1>10
<1>12. CASE e.type \in {"END", "SINGLE"}
  <2>1. Last(sent, n + 1) = rxIdx
    BY <1>6, <1>7, <1>12
  <2>2. Append(reassembly, rxIdx) = sent[n + 1]
    <3>1. n + 1 \in 1..Len(sent)
      BY <1>4, <1>6
    <3>2. sent[n + 1] = PacketOf(a, rxIdx)
      BY <1>5, <1>6, <2>1, <3>1 DEF Tiles
    <3>3. PacketOf(a, rxIdx) = [i \in 1..(Len(reassembly) + 1) |-> a + i - 1]
      BY <1>4, <1>10 DEF PacketOf
    <3>4. Append(reassembly, rxIdx) = [i \in 1..(Len(reassembly) + 1) |-> a + i - 1]
      <4>1. \A q \in Seq(Nat) : q = [i \in 1..Len(q) |-> q[i]]
        OBVIOUS
      <4> QED
        BY <1>11, <4>1
    <3> QED
      BY <3>2, <3>3, <3>4
  <2>3. delivered' = Append(delivered, sent[n + 1]) /\ reassembly' = <<>>
    BY <1>1, <1>3, <1>12, <2>2
  <2>4. sent[n + 1] \in Seq(Nat)
    BY <1>4, <1>6
  <2>5. /\ Len(delivered') = n + 1 /\ delivered'[n + 1] = sent[n + 1]
        /\ \A k \in 1..n : delivered'[k] = delivered[k]
    BY <1>4, <2>3, <2>4
  <2>6. InOrderIntact'
    <3>1. \A k \in 1..n : delivered[k] = sent[k]
      BY DEF OrderInv, InOrderIntact
    <3>2. \A k \in 1..(n + 1) : k \in 1..n \/ k = n + 1
      BY <1>4
    <3> QED
      BY <1>2, <1>6, <2>5, <3>1, <3>2 DEF InOrderIntact
  <2>7. ReassemblyOK'
    <3>1. NextStart(sent, n + 1) = rxIdx + 1
      BY <1>4, <2>1 DEF NextStart
    <3>2. \A k \in 1..Len(sent) : Last(sent, k) \in Nat
      BY <1>4, <1>5, TileBounds
    <3>3. HeadOfPacket(sent, n + 1, <<>>, rxIdx + 1)
      BY <1>4, <3>1, <3>2 DEF HeadOfPacket
    <3> QED
      BY <1>2, <2>3, <2>5, <3>3 DEF ReassemblyOK
  <2> QED
    BY <1>2, <1>4, <1>5, <1>6, <1>8, <1>9, <2>3, <2>6, <2>7 DEF OrderInv
<1>13. CASE ~(e.type \in {"END", "SINGLE"})
  <2>1. reassembly' = Append(reassembly, rxIdx) /\ delivered' = delivered
    BY <1>1, <1>3, <1>13
  <2>2. \A k \in 1..Len(sent) : Last(sent, k) # rxIdx /\ Last(sent, k) \in Nat
    BY <1>4, <1>5, <1>7, <1>13, TileBounds DEF IsLast
  <2>3. \A k \in 1..Len(sent) : ~(a <= Last(sent, k) /\ Last(sent, k) < rxIdx + 1)
    BY <1>4, <1>5, <1>10, <2>2 DEF HeadOfPacket
  <2>4. HeadOfPacket(sent, n, Append(reassembly, rxIdx), rxIdx + 1)
    BY <1>4, <1>10, <1>11, <2>3 DEF HeadOfPacket
  <2>5. ReassemblyOK' /\ InOrderIntact'
    BY <1>2, <2>1, <2>4 DEF ReassemblyOK, OrderInv, InOrderIntact
  <2> QED
    BY <1>2, <1>5, <1>8, <1>9, <2>1, <2>5 DEF OrderInv
<1> QED
  BY <1>12, <1>13

LEMMA OrderStep == TypeOK /\ OrderInv /\ [Next]_vars => OrderInv'
BY OrderSend, OrderTransmit, OrderOther, OrderData, OrderReassemble
   DEF Next, Sender, Receiver

(* The packets handed to the peer's packet callback are the packets given to *)
(* send(), whole, in order, none skipped and none twice: for any number of   *)
(* sending threads, any fragmentation, any loss, duplication and reordering  *)
(* within half a turn of the sequence numbers, and across their wrap.        *)
THEOREM OrderedDelivery == Spec => []InOrderIntact
<1>1. OrderInv => InOrderIntact
  BY DEF OrderInv
<1> QED
  BY <1>1, OrderInit, OrderStep, TypeCorrect, PTL DEF Spec

(* OPTUDP implements the abstract ordered transport: every step of the        *)
(* protocol is a send(), the delivery of the next packet, or invisible above. *)
THEOREM Refinement == Spec => ImplementsOrderedStream
<1>1. Init => Stream!Init
  BY DEF Init, Stream!Init
<1>2. TypeOK /\ OrderInv /\ TypeOK' /\ [Next]_vars => [Stream!Next]_(Stream!vars)
  <2> SUFFICES ASSUME TypeOK, OrderInv, TypeOK', [Next]_vars
               PROVE  [Stream!Next]_(Stream!vars)
    OBVIOUS
  <2>1. ASSUME NEW t \in Threads, NEW n \in 1..MaxFrags, Send(t, n)
        PROVE  Stream!Accept
    <3>1. /\ txIdx \in Nat /\ n \in Nat \ {0}
          /\ sent \in Seq(Seq(Nat)) /\ sent' \in Seq(Seq(Nat))
      BY ConstantsOK DEF TypeOK
    <3>2. sent' = Append(sent, PacketOf(txIdx, txIdx + n - 1)) /\ delivered' = delivered
      BY <2>1 DEF Send, rxVars
    <3>3. Len(sent') = Len(sent) + 1 /\ \A k \in 1..Len(sent) : sent'[k] = sent[k]
      <4>1. Extends(sent', sent, txIdx, n)
        BY <3>1, <3>2, AppendPacket
      <4> QED
        BY <4>1 DEF Extends
    <3> QED
      BY <3>1, <3>2, <3>3 DEF Stream!Accept
  <2>2. CASE Reassemble
    <3>1. delivered' # delivered =>
            /\ Len(delivered) < Len(sent)
            /\ delivered' = Append(delivered, sent[Len(delivered) + 1])
      BY <2>2, OrderReassemble
    <3>2. sent' = sent
      BY <2>2 DEF Reassemble
    <3> QED
      BY <3>1, <3>2 DEF Stream!Next, Stream!Receive, Stream!vars
  <2>3. ASSUME \/ \E t \in Threads : TransmitFragment(t) \/ SendReturn(t)
               \/ \E a \in acks : OnAck(a)
               \/ \E k \in 0..Len(queue) : OnRetransmitTimer(k)
               \/ EmitterReset
               \/ \E d \in net : OnData(d)
               \/ ReassembleReturn
               \/ Network
               \/ UNCHANGED vars
        PROVE  UNCHANGED Stream!vars
    BY <2>3 DEF TransmitFragment, SendReturn, OnAck, OnRetransmitTimer, EmitterReset, OnData,
                ReassembleReturn, Network, LoseData, LoseAck, vars, txVars, rxVars, Stream!vars
  <2> QED
    BY <2>1, <2>2, <2>3 DEF Next, Sender, Receiver, Stream!Next
<1> QED
  BY <1>1, <1>2, OrderInit, OrderStep, TypeCorrect, PTL DEF Spec, Stream!Spec, ImplementsOrderedStream

-----------------------------------------------------------------------------
(* Retransmission ends only for what has arrived *)

Waits(q, i) == \E k \in 1..Len(q) : q[k].idx = i

(* A thread inside send() works on positions of its own; those it has not     *)
(* transmitted yet cannot be behind the receiver, and are within half a turn  *)
(* of the newest position.                                                    *)
SendingOK(t) ==
  pc[t] = "sending" =>
    /\ job[t].first <= job[t].next
    /\ job[t].last < txIdx
    /\ job[t].next <= job[t].last => rxIdx <= job[t].next /\ txIdx <= job[t].next + Half
    /\ \A u \in Threads \ {t} : pc[u] = "sending" =>
         job[t].last < job[u].first \/ job[u].last < job[t].first

(* Only what has been transmitted arrives and only what has arrived is        *)
(* acknowledged; what waits for its ACK is within half a turn of the newest   *)
(* position, so that an ACK, which is not older than a turn, can match no     *)
(* other frame of the same number.                                            *)
ForgetInv ==
  /\ \A t \in Threads : SendingOK(t)
  /\ \A a \in acks : a.idx \in got
  /\ \A e \in rxMap : e.idx \in got
  /\ \A i \in got : i < txIdx /\ ~Pending(i)
  /\ \A d \in net : ~Pending(d.idx)
  /\ \A i \in Nat : Waits(queue, i) => txIdx <= i + Half /\ ~Pending(i)
  /\ ForgottenOnlyIfGot

LEMMA NumberTypes ==
  ASSUME TypeOK
  PROVE  /\ txIdx \in Nat /\ rxIdx \in Nat /\ Half \in Nat \ {0} /\ got \subseteq Nat
         /\ \A t \in Threads : job[t].first \in Nat /\ job[t].next \in Nat /\ job[t].last \in Nat
         /\ \A k \in 1..Len(queue) : queue[k] \in TransmitPacket /\ queue[k].idx \in Nat
         /\ \A d \in net : d.idx \in Nat
         /\ \A e \in rxMap : e.idx \in Nat
         /\ \A a \in acks : a.idx \in Nat
<1>1. txIdx \in Nat /\ rxIdx \in Nat /\ Half \in Nat \ {0} /\ got \subseteq Nat
  BY ConstantsOK DEF TypeOK
<1>2. \A t \in Threads : job[t] \in Job
  BY DEF TypeOK
<1>3. \A k \in 1..Len(queue) : queue[k] \in TransmitPacket
  BY DEF TypeOK
<1>4. /\ \A d \in net : d.idx \in Nat
      /\ \A e \in rxMap : e.idx \in Nat
      /\ \A a \in acks : a.idx \in Nat
  BY DEF TypeOK, Frame, Ack
<1>5. \A j \in Job : j.first \in Nat /\ j.next \in Nat /\ j.last \in Nat
  BY DEF Job
<1>6. \A e \in TransmitPacket : e.idx \in Nat
  BY DEF TransmitPacket
<1> QED
  BY <1>1, <1>2, <1>3, <1>4, <1>5, <1>6

(* A step that leaves the positions, the threads and what has arrived alone,  *)
(* transmits again at most what waits, and forgets nothing but what has       *)
(* arrived.                                                                   *)
LEMMA ForgetKept ==
  ASSUME TypeOK, ForgetInv,
         UNCHANGED <<txIdx, pc, job, rxIdx, rxMap, got>>,
         acks' \subseteq acks,
         \A d \in net' : ~Pending(d.idx),
         \A i \in Nat : Waits(queue', i) => Waits(queue, i),
         \A i \in Nat : Waits(queue, i) => Waits(queue', i) \/ i \in got
  PROVE  ForgetInv'
<1>1. \A i : Pending(i)' <=> Pending(i)
  BY DEF Pending
<1>2. (\A t \in Threads : SendingOK(t))'
  BY DEF ForgetInv, SendingOK
<1>3. /\ \A a \in acks' : a.idx \in got'
      /\ \A e \in rxMap' : e.idx \in got'
      /\ \A i \in got' : i < txIdx' /\ ~Pending(i)'
      /\ \A d \in net' : ~Pending(d.idx)'
      /\ \A i \in Nat : Waits(queue', i) => txIdx' <= i + Half /\ ~Pending(i)'
  BY <1>1 DEF ForgetInv
<1>4. ForgottenOnlyIfGot'
  <2>1. \A i \in 0..(txIdx - 1) : i \in Nat
    BY NumberTypes
  <2>2. SUFFICES ASSUME NEW i \in 0..(txIdx - 1)
                 PROVE  i \in got \/ Pending(i) \/ Waits(queue', i)
    BY <1>1 DEF ForgottenOnlyIfGot, Waits
  <2>3. i \in got \/ Pending(i) \/ Waits(queue, i)
    BY DEF ForgetInv, ForgottenOnlyIfGot, Waits
  <2> QED
    BY <2>1, <2>3
<1> QED
  BY <1>2, <1>3, <1>4 DEF ForgetInv, Waits

(* A new packet: its positions are the newest, and nobody else's. *)
LEMMA ForgetSend ==
  ASSUME TypeOK, OrderInv, ForgetInv, NEW t \in Threads, NEW n \in 1..MaxFrags, Send(t, n)
  PROVE  ForgetInv'
<1>1. /\ UNCHANGED <<queue, net, acks, rxIdx, rxMap, got>>
      /\ txIdx' = txIdx + n
      /\ pc[t] = "idle" /\ pc'[t] = "sending"
      /\ job'[t] = [first |-> txIdx, next |-> txIdx, last |-> txIdx + n - 1]
      /\ \A u \in Threads \ {t} : pc'[u] = pc[u] /\ job'[u] = job[u]
      /\ n \in Nat \ {0}
  BY ConstantsOK DEF Send, rxVars, TypeOK
<1>2. /\ txIdx + n <= rxIdx + Half
      /\ \A k \in 1..Len(queue) : txIdx + n <= queue[k].idx + Half
  BY DEF Send, MaxBacklog
<1>3. job'[t].first = txIdx /\ job'[t].next = txIdx /\ job'[t].last = txIdx + n - 1
  BY <1>1
<1>4. ASSUME NEW i
      PROVE  Pending(i)' <=> Pending(i) \/ (txIdx <= i /\ i <= txIdx + n - 1)
  <2>1. \A u \in Threads : u # t => ((pc'[u] = "sending" /\ job'[u].next <= i /\ i <= job'[u].last)
                                      <=> (pc[u] = "sending" /\ job[u].next <= i /\ i <= job[u].last))
    BY <1>1
  <2> QED
    BY <1>1, <1>3, <2>1 DEF Pending
<1>5. rxIdx <= txIdx
  BY DEF OrderInv, RxMapOK
<1>6. ASSUME NEW u \in Threads PROVE SendingOK(u)'
  <2>1. CASE u = t
    <3>1. \A v \in Threads \ {t} : pc'[v] = "sending" => job'[v].last < txIdx
      BY <1>1 DEF ForgetInv, SendingOK
    <3> QED
      BY <1>1, <1>2, <1>3, <1>5, <2>1, <3>1, NumberTypes DEF SendingOK
  <2>2. CASE u # t
    <3>1. SUFFICES ASSUME pc[u] = "sending" PROVE SendingOK(u)'
      BY <1>1, <2>2 DEF SendingOK
    <3>2. SendingOK(u)
      BY DEF ForgetInv
    <3>3. job'[u] = job[u] /\ pc'[u] = pc[u]
      BY <1>1, <2>2
    <3>4. job[u].last < txIdx' /\ job[u].last < job'[t].first
      BY <1>1, <1>3, <3>1, <3>2, NumberTypes DEF SendingOK
    <3>5. job[u].next <= job[u].last => rxIdx <= job[u].next /\ txIdx' <= job[u].next + Half
      BY <1>1, <1>2, <3>1, <3>2, NumberTypes DEF SendingOK
    <3>6. \A v \in Threads \ {u} : pc'[v] = "sending" =>
            job'[u].last < job'[v].first \/ job'[v].last < job'[u].first
      BY <1>1, <3>1, <3>2, <3>3, <3>4 DEF SendingOK
    <3> QED
      BY <1>1, <3>2, <3>3, <3>1, <3>4, <3>5, <3>6 DEF SendingOK
  <2> QED
    BY <2>1, <2>2
<1>7. \A i \in got' : i < txIdx' /\ ~Pending(i)'
  BY <1>1, <1>4, NumberTypes DEF ForgetInv
<1>8. \A d \in net' : ~Pending(d.idx)'
  <2>1. \A d \in net : d.idx < txIdx
    BY DEF OrderInv, FramesOK, FrameOK
  <2> QED
    BY <1>1, <1>4, <2>1, NumberTypes DEF ForgetInv
<1>9. \A i \in Nat : Waits(queue', i) => txIdx' <= i + Half /\ ~Pending(i)'
  <2>1. \A i \in Nat : Waits(queue, i) => i < txIdx
    BY DEF OrderInv, FramesOK, FrameOK, Waits
  <2>2. ASSUME NEW i \in Nat, Waits(queue, i)
        PROVE  txIdx + n <= i + Half /\ ~Pending(i)'
    <3>1. txIdx + n <= i + Half
      BY <1>2, <2>2 DEF Waits
    <3>2. i < txIdx /\ ~Pending(i)
      BY <2>1, <2>2 DEF ForgetInv
    <3> QED
      BY <1>4, <3>1, <3>2, NumberTypes
  <2> QED
    BY <1>1, <2>2 DEF Waits
<1>10. ForgottenOnlyIfGot'
  <2> SUFFICES ASSUME NEW i \in 0..(txIdx' - 1)
               PROVE  i \in got' \/ Pending(i)' \/ \E k \in 1..Len(queue') : queue'[k].idx = i
    BY DEF ForgottenOnlyIfGot
  <2>1. i \in Nat /\ i <= txIdx + n - 1 /\ txIdx \in Nat
    BY <1>1, NumberTypes
  <2>2. CASE i < txIdx
    <3>1. i \in 0..(txIdx - 1)
      BY <2>1, <2>2
    <3> QED
      BY <1>1, <1>4, <3>1 DEF ForgetInv, ForgottenOnlyIfGot
  <2>3. CASE i >= txIdx
    BY <1>4, <2>1, <2>3
  <2> QED
    BY <2>1, <2>2, <2>3
<1> QED
  BY <1>1, <1>6, <1>7, <1>8, <1>9, <1>10 DEF ForgetInv

(* A fragment: it starts to wait as it stops to be pending. *)
LEMMA ForgetTransmit ==
  ASSUME TypeOK, OrderInv, ForgetInv, NEW t \in Threads, TransmitFragment(t)
  PROVE  ForgetInv'
<1> DEFINE j == job[t]
           e == [idx |-> j.next, type |-> TypeOfFragment(j), rt |-> 0, n |-> 1]
<1>1. /\ UNCHANGED <<txIdx, pc, acks, rxIdx, rxMap, got>>
      /\ pc[t] = "sending" /\ j.next <= j.last
      /\ queue' = Append(queue, e) /\ net' = net \cup {Wire(e)}
      /\ job'[t].first = j.first /\ job'[t].next = j.next + 1 /\ job'[t].last = j.last
      /\ \A u \in Threads \ {t} : job'[u] = job[u]
  BY DEF TransmitFragment, rxVars, TypeOK
<1>2. e.idx = j.next /\ Wire(e).idx = j.next
  BY DEF Wire
<1>3. \A i \in Nat : Waits(queue', i) <=> Waits(queue, i) \/ i = j.next
  <2>1. /\ Len(queue) \in Nat /\ Len(queue') = Len(queue) + 1
        /\ queue'[Len(queue) + 1] = e
        /\ \A k \in 1..Len(queue) : queue'[k] = queue[k]
    BY <1>1 DEF TypeOK
  <2> HIDE DEF e
  <2> QED
    BY <1>2, <2>1 DEF Waits
<1> HIDE DEF e
<1>4. SendingOK(t) /\ \A u \in Threads : SendingOK(u)
  BY DEF ForgetInv
<1>4a. \A u \in Threads : job[u].first \in Nat /\ job[u].next \in Nat /\ job[u].last \in Nat
  BY NumberTypes
<1>5. ASSUME NEW i \in Nat
      PROVE  /\ Pending(i)' => Pending(i) /\ i # j.next
             /\ Pending(i) => Pending(i)' \/ i = j.next
  <2>1. ASSUME NEW u \in Threads, u # t, pc[u] = "sending"
        PROVE  ~(job[u].next <= j.next /\ j.next <= job[u].last)
    <3>1. job[u].last < j.first \/ j.last < job[u].first
      BY <1>1, <1>4, <2>1 DEF SendingOK
    <3>2. j.first <= j.next /\ j.next <= j.last /\ job[u].first <= job[u].next
      BY <1>1, <1>4, <2>1 DEF SendingOK
    <3> QED
      BY <1>4a, <3>1, <3>2
  <2>2. \A u \in Threads : pc'[u] = "sending" /\ job'[u].next <= i /\ i <= job'[u].last =>
          pc[u] = "sending" /\ job[u].next <= i /\ i <= job[u].last /\ i # j.next
    <3>1. \A u \in Threads \ {t} : pc'[u] = "sending" /\ job'[u].next <= i /\ i <= job'[u].last =>
            pc[u] = "sending" /\ job[u].next <= i /\ i <= job[u].last /\ i # j.next
      <4>1. \A u \in Threads \ {t} : pc'[u] = pc[u] /\ job'[u] = job[u]
        BY <1>1
      <4> QED
        BY <2>1, <4>1
    <3>2. job'[t].next <= i /\ i <= job'[t].last => j.next <= i /\ i <= j.last /\ i # j.next
      BY <1>1, <1>4a
    <3> QED
      BY <1>1, <3>1, <3>2
  <2>3. \A u \in Threads : pc[u] = "sending" /\ job[u].next <= i /\ i <= job[u].last =>
          i = j.next \/ (pc'[u] = "sending" /\ job'[u].next <= i /\ i <= job'[u].last)
    <3>1. \A u \in Threads \ {t} : pc'[u] = pc[u] /\ job'[u] = job[u]
      BY <1>1
    <3>2. pc'[t] = pc[t] /\ job'[t].next = j.next + 1 /\ job'[t].last = j.last
      BY <1>1
    <3>3. j.next \in Nat /\ (j.next <= i => i = j.next \/ j.next + 1 <= i)
      BY <1>4a
    <3> QED
      BY <3>1, <3>2, <3>3
  <2> QED
    BY <2>2, <2>3 DEF Pending
<1>6. ASSUME NEW u \in Threads PROVE SendingOK(u)'
  <2>1. CASE u = t
    <3>1. txIdx \in Nat /\ rxIdx \in Nat /\ Half \in Nat
      BY NumberTypes
    <3>2. SendingOK(t) /\ j.first \in Nat /\ j.next \in Nat /\ j.last \in Nat
      BY <1>4, <1>4a
    <3>3. /\ job'[t].first <= job'[t].next
          /\ job'[t].last < txIdx'
          /\ job'[t].next <= job'[t].last => rxIdx' <= job'[t].next /\ txIdx' <= job'[t].next + Half
      BY <1>1, <3>1, <3>2 DEF SendingOK
    <3>4. \A v \in Threads \ {t} : pc'[v] = "sending" =>
            job'[t].last < job'[v].first \/ job'[v].last < job'[t].first
      BY <1>1, <3>2 DEF SendingOK
    <3> QED
      BY <2>1, <3>3, <3>4 DEF SendingOK
  <2>2. CASE u # t
    BY <1>1, <1>4, <2>2 DEF SendingOK
  <2> QED
    BY <2>1, <2>2
<1>7. \A i \in got' : i < txIdx' /\ ~Pending(i)'
  BY <1>1, <1>5, NumberTypes DEF ForgetInv
<1>8. \A d \in net' : ~Pending(d.idx)'
  BY <1>1, <1>2, <1>5, NumberTypes DEF ForgetInv
<1>9. \A i \in Nat : Waits(queue', i) => txIdx' <= i + Half /\ ~Pending(i)'
  BY <1>1, <1>3, <1>4, <1>5 DEF ForgetInv, SendingOK
<1>10. ForgottenOnlyIfGot'
  <2>1. SUFFICES ASSUME NEW i \in 0..(txIdx - 1)
                 PROVE  i \in got \/ Pending(i)' \/ Waits(queue', i)
    BY <1>1 DEF ForgottenOnlyIfGot, Waits
  <2>2. i \in Nat
    BY NumberTypes
  <2>3. i \in got \/ Pending(i) \/ Waits(queue, i)
    BY DEF ForgetInv, ForgottenOnlyIfGot, Waits
  <2> QED
    BY <1>3, <1>5, <2>2, <2>3
<1> QED
  BY <1>1, <1>6, <1>7, <1>8, <1>9, <1>10 DEF ForgetInv

(* An ACK: what it removes from the queue is the frame it acknowledges,       *)
(* although the program compares numbers and not positions.                   *)
LEMMA ForgetAck ==
  ASSUME TypeOK, OrderInv, ForgetInv, NEW a \in acks, OnAck(a)
  PROVE  ForgetInv'
<1>1. /\ UNCHANGED <<txIdx, pc, job, rxIdx, rxMap, got, acks, net>>
      /\ a.idx + SeqNums >= txIdx /\ EraseAcked(a)
  BY DEF OnAck, FreshAck, rxVars
<1>2. PICK m \in 0..Len(queue) : \E f \in [1..m -> {i \in 1..Len(queue) : ~AckMatches(queue[i], a)}] :
        /\ \A i \in {i \in 1..Len(queue) : ~AckMatches(queue[i], a)} : \E k \in 1..m : f[k] = i
        /\ queue' = [k \in 1..m |-> queue[f[k]]]
  BY <1>1 DEF EraseAcked
<1>2a. PICK f \in [1..m -> {i \in 1..Len(queue) : ~AckMatches(queue[i], a)}] :
        /\ \A i \in {i \in 1..Len(queue) : ~AckMatches(queue[i], a)} : \E k \in 1..m : f[k] = i
        /\ queue' = [k \in 1..m |-> queue[f[k]]]
  BY <1>2
<1>3. /\ m \in Nat /\ Len(queue') = m
      /\ \A k \in 1..m : f[k] \in 1..Len(queue) /\ queue'[k] = queue[f[k]]
  BY <1>2, <1>2a
<1>4. ASSUME NEW k \in 1..Len(queue), AckMatches(queue[k], a)
      PROVE  queue[k].idx = a.idx
  <2>1. SeqNum(queue[k].idx) = SeqNum(a.idx)
    BY <1>4 DEF AckMatches
  <2>2. /\ queue[k].idx \in Nat /\ a.idx \in Nat /\ txIdx \in Nat
        /\ Half \in Nat \ {0} /\ SeqNums = 2 * Half
    BY NumberTypes DEF SeqNums
  <2>3. a.idx < txIdx
    BY DEF ForgetInv
  <2>4. queue[k].idx < txIdx /\ txIdx <= queue[k].idx + Half
    BY <2>2 DEF ForgetInv, OrderInv, FramesOK, FrameOK, Waits
  <2>5. queue[k].idx - a.idx < SeqNums /\ a.idx - queue[k].idx < SeqNums
    <3>1. a.idx + SeqNums >= txIdx
      BY <1>1
    <3> QED
      BY ONLY <2>2, <2>3, <2>4, <3>1
  <2> QED
    BY <2>1, <2>2, <2>5, SeqNumUnique
<1>5. \A i \in Nat : Waits(queue', i) => Waits(queue, i)
  BY <1>3 DEF Waits
<1>6. ASSUME NEW i \in Nat, NEW k \in 1..Len(queue), queue[k].idx = i
      PROVE  Waits(queue', i) \/ i \in got
  <2>1. CASE AckMatches(queue[k], a)
    BY <1>4, <1>6, <2>1 DEF ForgetInv
  <2>2. CASE ~AckMatches(queue[k], a)
    <3>1. PICK l \in 1..m : f[l] = k
      BY <1>2a, <2>2
    <3>2. queue'[l].idx = i
      BY <1>3, <1>6, <3>1
    <3> QED
      BY <1>3, <3>2 DEF Waits
  <2> QED
    BY <2>1, <2>2
<1>7. \A i \in Nat : Waits(queue, i) => Waits(queue', i) \/ i \in got
  BY <1>6 DEF Waits
<1>8. \A d \in net' : ~Pending(d.idx)
  BY <1>1 DEF ForgetInv
<1> QED
  BY <1>1, <1>5, <1>7, <1>8, ForgetKept

(* The timer: the frames that are due wait on, at the back of the queue. *)
LEMMA ForgetRetransmit ==
  ASSUME TypeOK, OrderInv, ForgetInv, NEW k \in 0..Len(queue), OnRetransmitTimer(k)
  PROVE  ForgetInv'
<1> DEFINE b == [i \in 1..k |-> Bump(queue[i])]
           r == SubSeq(queue, k + 1, Len(queue))
<1>1. /\ UNCHANGED <<txIdx, pc, job, rxIdx, rxMap, got, acks>>
      /\ queue' = r \o b /\ net' = net \cup {Wire(Bump(queue[i])) : i \in 1..k}
  BY DEF OnRetransmitTimer, rxVars
<1>2. k \in Nat /\ Len(queue) \in Nat /\ k <= Len(queue) /\ queue \in Seq(TransmitPacket)
  BY DEF TypeOK
<1>3. \A i \in 1..k : /\ i \in 1..Len(queue) /\ Bump(queue[i]) \in TransmitPacket
                      /\ Bump(queue[i]).idx = queue[i].idx
                      /\ Wire(Bump(queue[i])).idx = queue[i].idx
  <2>1. \A i \in 1..k : i \in 1..Len(queue) /\ queue[i] \in TransmitPacket
    BY <1>2, NumberTypes
  <2>2. \A e : Wire(e).idx = e.idx
    BY DEF Wire
  <2> QED
    BY <2>1, <2>2, BumpType
<1>4. b \in Seq(TransmitPacket) /\ Len(b) = k /\ \A i \in 1..k : b[i] = Bump(queue[i])
  BY <1>2, <1>3
<1>5. /\ r \in Seq(TransmitPacket) /\ Len(r) = Len(queue) - k
      /\ \A i \in 1..Len(r) : r[i] = queue[k + i]
  BY <1>2
<1> HIDE DEF b, r
<1>6. /\ Len(queue') = Len(queue)
      /\ \A i \in 1..(Len(queue) - k) : queue'[i] = queue[k + i]
      /\ \A i \in 1..k : queue'[Len(queue) - k + i] = Bump(queue[i])
  <2>1. Len(r \o b) = Len(queue)
    BY <1>2, <1>4, <1>5
  <2>2. \A i \in 1..(Len(queue) - k) : (r \o b)[i] = queue[k + i]
    BY <1>2, <1>4, <1>5
  <2>3. ASSUME NEW i \in 1..k PROVE (r \o b)[Len(queue) - k + i] = Bump(queue[i])
    <3>1. (r \o b)[Len(r) + i] = b[i]
      BY <1>2, <1>4, <1>5
    <3> QED
      BY <1>4, <1>5, <3>1
  <2> QED
    BY <1>1, <2>1, <2>2, <2>3
<1>7. ASSUME NEW i \in Nat, NEW l \in 1..Len(queue), queue[l].idx = i
      PROVE  Waits(queue', i)
  <2>1. CASE l <= k
    <3>1. l \in 1..k /\ Len(queue) - k + l \in 1..Len(queue')
      BY <1>2, <1>6, <2>1
    <3> QED
      BY <1>3, <1>6, <1>7, <3>1 DEF Waits
  <2>2. CASE l > k
    <3>1. l - k \in 1..(Len(queue) - k) /\ k + (l - k) = l /\ l - k \in 1..Len(queue')
      BY <1>2, <1>6, <2>2
    <3>2. queue'[l - k] = queue[l]
      BY <1>6, <3>1
    <3> QED
      BY <1>7, <3>1, <3>2 DEF Waits
  <2> QED
    BY <1>2, <2>1, <2>2
<1>8. ASSUME NEW i \in Nat, NEW l \in 1..Len(queue'), queue'[l].idx = i
      PROVE  Waits(queue, i)
  <2>1. CASE l <= Len(queue) - k
    <3>1. l \in 1..(Len(queue) - k) /\ k + l \in 1..Len(queue)
      BY <1>2, <1>6, <2>1
    <3> QED
      BY <1>6, <1>8, <3>1 DEF Waits
  <2>2. CASE l > Len(queue) - k
    <3> DEFINE n == l - (Len(queue) - k)
    <3>1. n \in 1..k /\ Len(queue) - k + n = l
      BY <1>2, <1>6, <2>2
    <3> HIDE DEF n
    <3>2. queue'[l] = Bump(queue[n]) /\ n \in 1..Len(queue) /\ Bump(queue[n]).idx = queue[n].idx
      BY <1>3, <1>6, <3>1
    <3> QED
      BY <1>8, <3>2 DEF Waits
  <2> QED
    BY <1>2, <1>6, <2>1, <2>2
<1>9. \A d \in net' : ~Pending(d.idx)
  <2>1. ASSUME NEW i \in 1..k PROVE ~Pending(queue[i].idx)
    <3>1. queue[i].idx \in Nat /\ Waits(queue, queue[i].idx)
      BY <1>3, NumberTypes DEF Waits
    <3> QED
      BY <3>1 DEF ForgetInv
  <2> QED
    BY <1>1, <1>3, <2>1 DEF ForgetInv
<1> QED
  BY <1>1, <1>7, <1>8, <1>9, ForgetKept DEF Waits

(* A data frame arrives: it has been transmitted, so no thread is still to    *)
(* transmit it.                                                               *)
LEMMA ForgetData ==
  ASSUME TypeOK, OrderInv, ForgetInv, NEW d \in net, OnData(d)
  PROVE  ForgetInv'
<1>1. /\ UNCHANGED <<txIdx, pc, job, queue, net, rxIdx>>
      /\ acks' = acks \cup {[idx |-> d.idx, rt |-> d.rt]}
      /\ got' = got \cup {d.idx}
      /\ rxMap' \subseteq rxMap \cup {d}
  BY DEF OnData, Inserted, txVars
<1>2. d.idx < txIdx /\ ~Pending(d.idx)
  BY DEF OrderInv, FramesOK, FrameOK, ForgetInv
<1>3. \A i : Pending(i)' <=> Pending(i)
  BY <1>1 DEF Pending
<1>4. (\A t \in Threads : SendingOK(t))' /\ ForgottenOnlyIfGot'
  BY <1>1, <1>3 DEF ForgetInv, SendingOK, ForgottenOnlyIfGot
<1>5. /\ \A a \in acks' : a.idx \in got'
      /\ \A e \in rxMap' : e.idx \in got'
      /\ \A i \in got' : i < txIdx' /\ ~Pending(i)'
  BY <1>1, <1>2, <1>3 DEF ForgetInv
<1> QED
  BY <1>1, <1>3, <1>4, <1>5 DEF ForgetInv, Waits

(* The receiver moves on, over a position that has arrived. *)
LEMMA ForgetReassemble ==
  ASSUME TypeOK, OrderInv, ForgetInv, Reassemble
  PROVE  ForgetInv'
<1>1. /\ UNCHANGED <<txIdx, pc, job, queue, net, acks, got>>
      /\ rxIdx' = rxIdx + 1
      /\ rxMap' \subseteq rxMap
  BY DEF Reassemble, txVars
<1>2. rxIdx \in got
  <2>1. PICK e \in rxMap : Found(e)
    BY DEF Reassemble
  <2>2. e.idx = rxIdx
    BY <2>1, FoundIsNext
  <2> QED
    BY <2>2 DEF ForgetInv
<1>3. \A i : Pending(i)' <=> Pending(i)
  BY <1>1 DEF Pending
<1>4. ASSUME NEW t \in Threads PROVE SendingOK(t)'
  <2>1. SendingOK(t) /\ ~Pending(rxIdx)
    BY <1>2 DEF ForgetInv
  <2>2. pc[t] = "sending" /\ job[t].next <= job[t].last /\ rxIdx <= job[t].next => rxIdx + 1 <= job[t].next
    BY <2>1, NumberTypes DEF Pending
  <2> QED
    BY <1>1, <2>1, <2>2, NumberTypes DEF SendingOK
<1>5. ForgottenOnlyIfGot'
  BY <1>1, <1>3 DEF ForgetInv, ForgottenOnlyIfGot
<1> QED
  BY <1>1, <1>3, <1>4, <1>5 DEF ForgetInv, Waits

LEMMA ForgetStep == TypeOK /\ OrderInv /\ ForgetInv /\ [Next]_vars => ForgetInv'
<1> SUFFICES ASSUME TypeOK, OrderInv, ForgetInv, [Next]_vars PROVE ForgetInv'
  OBVIOUS
<1>1. ASSUME NEW t \in Threads, SendReturn(t) PROVE ForgetInv'
  <2>1. /\ UNCHANGED <<txIdx, queue, net, acks, rxIdx, rxMap, got>>
        /\ pc[t] = "sending" /\ job[t].next > job[t].last
        /\ pc'[t] = "idle"
        /\ \A u \in Threads \ {t} : pc'[u] = pc[u] /\ job'[u] = job[u]
    BY <1>1 DEF SendReturn, rxVars, TypeOK
  <2>2. \A u \in Threads : pc'[u] = "sending" => u # t /\ pc[u] = "sending" /\ job'[u] = job[u]
    BY <2>1
  <2>3. ASSUME NEW i \in Nat PROVE Pending(i)' <=> Pending(i)
    BY <2>1, <2>2, NumberTypes DEF Pending
  <2>4. (\A u \in Threads : SendingOK(u))'
    BY <2>1, <2>2 DEF ForgetInv, SendingOK
  <2>5. ForgottenOnlyIfGot'
    <3>1. \A i \in 0..(txIdx - 1) : i \in Nat
      BY NumberTypes
    <3> QED
      BY <2>1, <2>3, <3>1 DEF ForgetInv, ForgottenOnlyIfGot
  <2>6. /\ \A i \in got' : i < txIdx' /\ ~Pending(i)'
        /\ \A d \in net' : ~Pending(d.idx)'
        /\ \A i \in Nat : Waits(queue', i) => txIdx' <= i + Half /\ ~Pending(i)'
    BY <2>1, <2>3, NumberTypes DEF ForgetInv
  <2> QED
    BY <2>1, <2>4, <2>5, <2>6 DEF ForgetInv, Waits
<1>2. CASE EmitterReset \/ ReassembleReturn \/ Network \/ UNCHANGED vars
  <2>1. /\ UNCHANGED <<txIdx, pc, job, queue, rxIdx, rxMap, got>>
        /\ acks' \subseteq acks /\ net' \subseteq net
    BY <1>2 DEF EmitterReset, ReassembleReturn, Network, LoseData, LoseAck, vars, txVars, rxVars
  <2>2. \A d \in net' : ~Pending(d.idx)
    BY <2>1 DEF ForgetInv
  <2> QED
    BY <2>1, <2>2, ForgetKept
<1> QED
  BY <1>1, <1>2, ForgetSend, ForgetTransmit, ForgetAck, ForgetRetransmit, ForgetData, ForgetReassemble
     DEF Next, Sender, Receiver

(* A frame leaves the retransmit queue only when a copy of it has reached the *)
(* peer: no ACK of an earlier transmission, duplicated, or of the same number *)
(* in another turn makes the sender forget a frame that is not there, for any *)
(* number of senders and any size of the number space (opt_udp.cpp            *)
(* on_receive(), PKT_ACK).                                                    *)
THEOREM ForgottenOnlyWhenArrived == Spec => []ForgottenOnlyIfGot
<1>1. Init => ForgetInv
  <2> SUFFICES ASSUME Init PROVE ForgetInv
    OBVIOUS
  <2>1. /\ txIdx = 0 /\ queue = <<>> /\ acks = {} /\ rxMap = {} /\ got = {} /\ net = {}
        /\ \A t \in Threads : pc[t] = "idle"
    BY DEF Init
  <2>2. \A i : ~Waits(queue, i)
    BY <2>1 DEF Waits
  <2> QED
    BY <2>1, <2>2 DEF ForgetInv, SendingOK, ForgottenOnlyIfGot
<1>2. ForgetInv => ForgottenOnlyIfGot
  BY DEF ForgetInv
<1> QED
  BY <1>1, <1>2, ForgetStep, OrderInit, OrderStep, TypeCorrect, PTL DEF Spec

-----------------------------------------------------------------------------
(* Sockets and SocketsWin *)

(* Sequences *)

Distinct(s) == \A i, j \in 1..Len(s) : s[i] = s[j] => i = j

(* What RemoveAt() makes of a vector. *)
Removed(s, i) == SubSeq([s EXCEPT ![i] = s[Len(s)]], 1, Len(s) - 1)

(* What an entry added to a vector adds to it. *)
LEMMA AppendElements ==
  ASSUME NEW S, NEW s \in Seq(S), NEW x \in S
  PROVE  /\ Append(s, x) \in Seq(S)
         /\ ElementsOf(Append(s, x)) = ElementsOf(s) \cup {x}
         /\ Distinct(s) /\ x \notin ElementsOf(s) => Distinct(Append(s, x))
<1>1. /\ Append(s, x) \in Seq(S) /\ Len(Append(s, x)) = Len(s) + 1 /\ Len(s) \in Nat
      /\ \A i \in 1..Len(s) : Append(s, x)[i] = s[i]
      /\ Append(s, x)[Len(s) + 1] = x
      /\ \A i \in 1..(Len(s) + 1) : i \in 1..Len(s) \/ i = Len(s) + 1
  OBVIOUS
<1> DEFINE r == Append(s, x)
<1> HIDE DEF r
<1>2. ElementsOf(r) = ElementsOf(s) \cup {x}
  BY <1>1 DEF ElementsOf, r
<1>3. Distinct(s) /\ x \notin ElementsOf(s) => Distinct(r)
  BY <1>1 DEF ElementsOf, Distinct, r
<1> QED
  BY <1>1, <1>2, <1>3 DEF r

(* What is taken from the front of a list. *)
LEMMA TailElements ==
  ASSUME NEW S, NEW s \in Seq(S), s # <<>>
  PROVE  /\ Head(s) \in S /\ Tail(s) \in Seq(S)
         /\ ElementsOf(s) = ElementsOf(Tail(s)) \cup {Head(s)}
         /\ Distinct(s) => Distinct(Tail(s)) /\ Head(s) \notin ElementsOf(Tail(s))
<1> DEFINE h == Head(s)
           r == Tail(s)
<1>1. h \in S /\ r \in Seq(S) /\ Len(s) \in Nat \ {0} /\ Len(r) = Len(s) - 1 /\ h = s[1]
  OBVIOUS
<1>2. \A i \in 1..Len(r) : r[i] = s[i + 1] /\ i + 1 \in 1..Len(s) /\ i + 1 # 1
  BY <1>1
<1>3. \A i \in 1..Len(s) : i = 1 \/ (i - 1 \in 1..Len(r) /\ r[i - 1] = s[i])
  BY <1>1, <1>2
<1> HIDE DEF h, r
<1>4. ElementsOf(s) = ElementsOf(r) \cup {h}
  BY <1>1, <1>2, <1>3 DEF ElementsOf
<1>5. ASSUME Distinct(s)
      PROVE  Distinct(r)
  <2>1. ASSUME NEW i \in 1..Len(r), NEW k \in 1..Len(r), r[i] = r[k]
        PROVE  i = k
    <3>1. i + 1 = k + 1
      BY <1>2, <1>5, <2>1 DEF Distinct
    <3> QED
      BY <3>1
  <2> QED
    BY <2>1 DEF Distinct
<1>6. ASSUME Distinct(s)
      PROVE  h \notin ElementsOf(r)
  BY <1>1, <1>2, <1>6 DEF ElementsOf, Distinct
<1> QED
  BY <1>1, <1>4, <1>5, <1>6 DEF h, r

(* RemoveAt() takes out one entry and keeps all others, in another order. *)
LEMMA RemovedElements ==
  ASSUME NEW S, NEW s \in Seq(S), NEW i \in 1..Len(s)
  PROVE  /\ Removed(s, i) \in Seq(S) /\ Len(Removed(s, i)) = Len(s) - 1
         /\ \A k \in 1..(Len(s) - 1) :
              k \in 1..Len(s) /\ Removed(s, i)[k] = IF k = i THEN s[Len(s)] ELSE s[k]
         /\ Distinct(s) => /\ ElementsOf(Removed(s, i)) = ElementsOf(s) \ {s[i]}
                           /\ Distinct(Removed(s, i))
<1> DEFINE n == Len(s)
           r == Removed(s, i)
<1>1. n \in Nat \ {0} /\ n \in 1..n
  OBVIOUS
<1>2. /\ r \in Seq(S) /\ Len(r) = n - 1
      /\ \A k \in 1..(n - 1) : k \in 1..n /\ r[k] = IF k = i THEN s[n] ELSE s[k]
  <2> DEFINE m == [s EXCEPT ![i] = s[n]]
  <2>1. m \in Seq(S) /\ Len(m) = n /\ \A k \in 1..n : m[k] = IF k = i THEN s[n] ELSE s[k]
    BY <1>1
  <2> HIDE DEF m
  <2>2. /\ SubSeq(m, 1, n - 1) \in Seq(S) /\ Len(SubSeq(m, 1, n - 1)) = n - 1
        /\ \A k \in 1..(n - 1) : k \in 1..n /\ SubSeq(m, 1, n - 1)[k] = m[k]
    BY <1>1, <2>1
  <2> QED
    BY <2>1, <2>2 DEF Removed, m
<1> HIDE DEF r
<1>3. ASSUME Distinct(s)
      PROVE  ElementsOf(r) = ElementsOf(s) \ {s[i]}
  <2>1. ASSUME NEW k \in 1..(n - 1)
        PROVE  r[k] \in ElementsOf(s) \ {s[i]}
    BY <1>1, <1>2, <1>3 DEF ElementsOf, Distinct
  <2>2. ASSUME NEW k \in 1..n, s[k] # s[i]
        PROVE  s[k] \in ElementsOf(r)
    <3>1. CASE k = n
      BY <1>1, <1>2, <2>2, <3>1 DEF ElementsOf
    <3>2. CASE k # n
      BY <1>1, <1>2, <2>2, <3>2 DEF ElementsOf
    <3> QED
      BY <3>1, <3>2
  <2>3. ElementsOf(r) \subseteq ElementsOf(s) \ {s[i]}
    BY <1>2, <2>1 DEF ElementsOf
  <2>4. ElementsOf(s) \ {s[i]} \subseteq ElementsOf(r)
    BY <2>2 DEF ElementsOf
  <2> QED
    BY ONLY <2>3, <2>4
<1>4. ASSUME Distinct(s)
      PROVE  Distinct(r)
  <2>1. ASSUME NEW k \in 1..(n - 1), NEW l \in 1..(n - 1), r[k] = r[l]
        PROVE  k = l
    <3>1. k # n /\ l # n
      BY <1>1
    <3> QED
      BY <1>1, <1>2, <1>4, <2>1, <3>1 DEF Distinct
  <2> QED
    BY <1>2, <2>1 DEF Distinct
<1> QED
  BY <1>2, <1>3, <1>4 DEF r

-----------------------------------------------------------------------------
(* The inductive invariant *)

TypeInv == SocketTypeOK /\ (lpc \in {"poll", "closing", "adding"} => idx = 1)

(* The loop thread does not get past the error callback without its push. *)
PushInv == /\ racy => pushing # None
           /\ pushing # None => lpc \in {"dispatch", "adding", "corrupt"}

(* A socket passes through the requests to start and then the vectors, once. *)
PassInv ==
  /\ opened \subseteq started /\ finished \subseteq opened
  /\ ElementsOf(added) \subseteq started \ opened /\ Distinct(added)
  /\ ElementsOf(objects) \subseteq opened \ finished

(* No OS socket of a client exists before its first attempt; all others are   *)
(* open when they are started.                                                *)
Fresh(s) == os[s] = IF s \in Clients THEN "none" ELSE "open"

FreshInv == /\ \A s \in (assoc \ started) \cup ElementsOf(added) : Fresh(s)
            /\ \A s \in ElementsOf(objects) : os[s] # "none"

(* The two vectors are in step. *)
VectorInv ==
  /\ Len(events) = Len(objects) /\ Distinct(objects)
  /\ \A i \in 1..Len(objects) : events[i].fd = objects[i]

(* A socket that connects is polled for writing, and one whose OS socket is   *)
(* closed already is to be removed before the next poll.                      *)
OsInv ==
  /\ \A i \in 1..Len(objects) : os[objects[i]] = "connecting" => events[i].out
  /\ \A s \in ElementsOf(objects) : os[s] = "closed" =>
       \/ lpc = "dispatch" /\ pushing = s
       \/ lpc \in {"dispatch", "closing"} /\ s \in ElementsOf(closed)
       \/ Broken

SocketInv == TypeInv /\ PushInv /\ PassInv /\ FreshInv /\ VectorInv /\ OsInv /\ NoRequestForgotten

-----------------------------------------------------------------------------
(* Every step of either platform *)

(* The close of a listener that cannot accept. *)
Refuse == AcceptEvent /\ ~Accept

(* The steps of either platform, one by one. *)
LEMMA StepCases ==
  ASSUME [SocketNext]_socketVars \/ [NextWin]_socketVars
  PROVE  \/ \E s \in Socks : Start(s) \/ Close(s)
         \/ Poll \/ WaitWin \/ Connected \/ Reconnect \/ ConnectFailed \/ Receive \/ EndOfStream
         \/ Accept \/ Refuse \/ Abort \/ DatagramError \/ CloseEvent
         \/ NextSocket \/ DispatchEnd \/ DispatchEndWin
         \/ PushBegin \/ PushEnd \/ CloseOne \/ ClosingEnd \/ AddOne \/ AddFailed \/ AddingEnd
         \/ UNCHANGED socketVars
  BY DEF SocketNext, NextWin, CallsWin, Dispatch, DispatchWin, Requests, RequestsWin, ConnectEvent, ReadEvent,
         AcceptEvent, Refuse, ClosingWin, AddingWin

(* One request to close: nothing, or the entries of the socket go. *)
LEMMA CloseOneEffect ==
  ASSUME TypeInv, VectorInv, CloseOne
  PROVE  /\ closed # <<>> /\ closed' = Tail(closed) /\ Head(closed) \in Socks
         /\ ElementsOf(closed) = ElementsOf(closed') \cup {Head(closed)}
         /\ \/ UNCHANGED <<os, finished, objects, events>> /\ Head(closed) \notin ElementsOf(objects)
            \/ /\ Head(closed) \in ElementsOf(objects)
               /\ os' = [os EXCEPT ![Head(closed)] = "closed"]
               /\ finished' = finished \cup {Head(closed)}
               /\ objects' \in Seq(Socks) /\ Distinct(objects')
               /\ ElementsOf(objects') = ElementsOf(objects) \ {Head(closed)}
               /\ Len(objects') = Len(objects) - 1 /\ Len(events') = Len(objects')
               /\ events' \in Seq([fd : Socks, out : BOOLEAN])
               /\ \A k \in 1..Len(objects') : \E j \in 1..Len(objects) :
                    objects'[k] = objects[j] /\ events'[k] = events[j]
<1> DEFINE entry == [fd : Socks, out : BOOLEAN]
<1>1. /\ objects \in Seq(Socks) /\ Len(events) = Len(objects) /\ Distinct(objects)
      /\ closed \in Seq(Socks) /\ events \in Seq(entry)
  BY DEF TypeInv, SocketTypeOK, VectorInv
<1>2. closed # <<>> /\ closed' = Tail(closed)
  BY DEF CloseOne
<1> HIDE DEF entry, TypeInv, VectorInv
<1>3. Head(closed) \in Socks /\ ElementsOf(closed) = ElementsOf(closed') \cup {Head(closed)}
  BY <1>1, <1>2, TailElements
<1>4. CASE ~Polled(Head(closed)) /\ UNCHANGED <<os, finished, vectors>>
  BY <1>2, <1>3, <1>4 DEF Polled, vectors
<1>5. ASSUME NEW i \in 1..Len(objects), objects[i] = Head(closed), RemoveAt(i)
      PROVE  /\ objects[i] \in ElementsOf(objects)
             /\ objects' \in Seq(Socks) /\ Distinct(objects')
             /\ ElementsOf(objects') = ElementsOf(objects) \ {objects[i]}
             /\ Len(objects') = Len(objects) - 1 /\ Len(events') = Len(objects')
             /\ events' \in Seq(entry)
             /\ \A k \in 1..Len(objects') : \E j \in 1..Len(objects) :
                  objects'[k] = objects[j] /\ events'[k] = events[j]
  <2>1. objects' = Removed(objects, i) /\ events' = Removed(events, i)
    BY <1>5, <1>1 DEF RemoveAt, Removed
  <2>2. objects[i] \in ElementsOf(objects) /\ i \in 1..Len(events) /\ Len(objects) \in 1..Len(objects)
    BY <1>1 DEF ElementsOf
  <2>3. /\ objects' \in Seq(Socks) /\ Len(objects') = Len(objects) - 1
        /\ Distinct(objects') /\ ElementsOf(objects') = ElementsOf(objects) \ {objects[i]}
        /\ \A k \in 1..(Len(objects) - 1) :
             k \in 1..Len(objects) /\ objects'[k] = IF k = i THEN objects[Len(objects)] ELSE objects[k]
    <3>1. objects \in Seq(Socks) /\ Distinct(objects)
      BY <1>1
    <3> DEFINE r == Removed(objects, i)
    <3>2. /\ r \in Seq(Socks) /\ Len(r) = Len(objects) - 1
          /\ Distinct(r) /\ ElementsOf(r) = ElementsOf(objects) \ {objects[i]}
          /\ \A k \in 1..(Len(objects) - 1) :
               k \in 1..Len(objects) /\ r[k] = IF k = i THEN objects[Len(objects)] ELSE objects[k]
      BY <3>1, RemovedElements
    <3> QED
      BY <2>1, <3>2
  <2>4. /\ events' \in Seq(entry) /\ Len(events') = Len(events) - 1
        /\ \A k \in 1..(Len(events) - 1) :
             k \in 1..Len(events) /\ events'[k] = IF k = i THEN events[Len(events)] ELSE events[k]
    <3>1. events \in Seq(entry) /\ i \in 1..Len(events)
      BY <1>1, <2>2
    <3>2. events' = Removed(events, i)
      BY <2>1
    <3> QED
      BY <3>1, <3>2, RemovedElements
  <2>5. ASSUME NEW k \in 1..Len(objects')
        PROVE  \E j \in 1..Len(objects) : objects'[k] = objects[j] /\ events'[k] = events[j]
    BY <1>1, <2>2, <2>3, <2>4, <2>5
  <2> QED
    BY <1>1, <2>2, <2>3, <2>4, <2>5
<1> QED
  BY <1>2, <1>3, <1>4, <1>5 DEF CloseOne, entry

(* The vectors. *)
LEMMA VectorKeeps ==
  ASSUME SocketInv, [SocketNext]_socketVars \/ [NextWin]_socketVars
  PROVE  VectorInv'
<1> USE DEF SocketInv, TypeInv, SocketTypeOK, VectorInv, vectors, socketVars
<1>1. CASE UNCHANGED <<objects, events>>
  BY <1>1 DEF Distinct
<1>2. CASE Connected
  BY <1>2 DEF Connected, Distinct
<1>3. CASE CloseOne
  <2> HIDE DEF TypeInv, VectorInv
  <2>1. \/ UNCHANGED <<objects, events>>
        \/ /\ Len(events') = Len(objects') /\ Distinct(objects')
           /\ \A k \in 1..Len(objects') : \E j \in 1..Len(objects) :
                objects'[k] = objects[j] /\ events'[k] = events[j]
    BY <1>3, CloseOneEffect
  <2> USE DEF VectorInv
  <2> QED
    BY <2>1 DEF Distinct
<1>4. CASE AddOne
  <2> DEFINE s == Head(added)
             e == [fd |-> s, out |-> MustConnect(s)]
  <2>1. objects' = Append(objects, s) /\ events' = Append(events, e) /\ added # <<>>
    BY <1>4 DEF AddOne
  <2>2. s \in ElementsOf(added) /\ s \in Socks
    BY <2>1, TailElements
  <2>3. s \notin ElementsOf(objects)
    BY <2>2 DEF PassInv
  <2>4. Distinct(objects')
    BY <2>1, <2>2, <2>3, AppendElements
  <2>5. e.fd = s
    OBVIOUS
  <2> HIDE DEF s, e
  <2> QED
    BY <2>1, <2>4, <2>5
<1> QED
  BY <1>1, <1>2, <1>3, <1>4, StepCases
  DEF Start, Close, Poll, WaitWin, Reconnect, ConnectFailed, Receive, EndOfStream, Accept, Refuse, AcceptEvent,
      Abort, DatagramError, CloseEvent, NextSocket, DispatchEnd, DispatchEndWin, PushBegin, PushEnd,
      ClosingEnd, AddFailed, AddingEnd

(* The way of a socket through the requests and the vectors. *)
LEMMA PassKeeps ==
  ASSUME SocketInv, [SocketNext]_socketVars \/ [NextWin]_socketVars
  PROVE  PassInv'
<1> USE DEF SocketInv, TypeInv, SocketTypeOK, PassInv, requests, vectors, calls, told, socketVars
<1>1. CASE UNCHANGED <<opened, started, finished, added, objects>>
  BY <1>1 DEF ElementsOf, Distinct
<1>2. ASSUME NEW s \in Socks, Start(s)
      PROVE  PassInv'
  <2>1. /\ started' = started \cup {s} /\ added' = Append(added, s) /\ s \notin started
        /\ UNCHANGED <<opened, finished, objects>>
    BY <1>2 DEF Start
  <2>2. ElementsOf(added') = ElementsOf(added) \cup {s} /\ Distinct(added')
    BY <2>1, AppendElements
  <2>3. ElementsOf(objects') = ElementsOf(objects)
    BY <2>1 DEF ElementsOf
  <2> QED
    BY <2>1, <2>2, <2>3
<1>3. CASE CloseOne
  <2>1. UNCHANGED <<opened, started, added>>
    BY <1>3 DEF CloseOne
  <2>2. ElementsOf(added') = ElementsOf(added) /\ Distinct(added')
    BY <2>1 DEF ElementsOf, Distinct
  <2>3. \/ UNCHANGED <<finished, objects>>
        \/ /\ Head(closed) \in ElementsOf(objects)
           /\ finished' = finished \cup {Head(closed)}
           /\ ElementsOf(objects') = ElementsOf(objects) \ {Head(closed)}
    BY <1>3, CloseOneEffect
  <2>4. UNCHANGED objects => ElementsOf(objects') = ElementsOf(objects)
    BY DEF ElementsOf
  <2> QED
    BY <2>1, <2>2, <2>3, <2>4
<1>4. CASE AddOne \/ AddFailed
  <2>1. /\ added # <<>> /\ added' = Tail(added) /\ UNCHANGED <<started, finished>>
        /\ \/ UNCHANGED <<opened, objects>>
           \/ opened' = opened \cup {Head(added)} /\ objects' = Append(objects, Head(added))
    BY <1>4 DEF AddOne, AddFailed
  <2>2. /\ ElementsOf(added) = ElementsOf(added') \cup {Head(added)} /\ Distinct(added')
        /\ Head(added) \notin ElementsOf(added') /\ Head(added) \in Socks
    <3>1. added \in Seq(Socks) /\ Distinct(added)
      OBVIOUS
    <3> HIDE DEF SocketInv
    <3> QED
      BY <2>1, <3>1, TailElements
  <2>3. \/ UNCHANGED opened /\ ElementsOf(objects') = ElementsOf(objects)
        \/ /\ opened' = opened \cup {Head(added)}
           /\ ElementsOf(objects') = ElementsOf(objects) \cup {Head(added)}
    <3>1. objects \in Seq(Socks)
      OBVIOUS
    <3> HIDE DEF SocketInv
    <3>2. ElementsOf(Append(objects, Head(added))) = ElementsOf(objects) \cup {Head(added)}
      BY <2>2, <3>1, AppendElements
    <3> QED
      BY <2>1, <3>2
  <2> QED
    BY <2>1, <2>2, <2>3
<1> QED
  BY <1>1, <1>2, <1>3, <1>4, StepCases
  DEF Close, Poll, WaitWin, Connected, Reconnect, ConnectFailed, Receive, EndOfStream, Accept, Refuse,
      AcceptEvent, Abort, DatagramError, CloseEvent, NextSocket, DispatchEnd, DispatchEndWin, PushBegin,
      PushEnd, ClosingEnd, AddingEnd

(* The push after an error callback. *)
LEMMA PushKeeps ==
  ASSUME SocketInv, [SocketNext]_socketVars \/ [NextWin]_socketVars
  PROVE  PushInv'
<1> USE DEF SocketInv, TypeInv, SocketTypeOK, PushInv, push, socketVars
<1>1. CASE UNCHANGED <<racy, pushing, lpc>>
  BY <1>1
<1>2. ASSUME NEW s \in Socks, Close(s)
      PROVE  PushInv'
  BY <1>2 DEF Close
<1>3. CASE Poll \/ WaitWin \/ Abort \/ DatagramError \/ DispatchEnd \/ DispatchEndWin \/ ClosingEnd \/ AddingEnd
  BY <1>3 DEF Poll, WaitWin, Abort, DatagramError, DispatchEnd, DispatchEndWin, ClosingEnd, AddingEnd, Ready
<1>4. CASE ConnectFailed \/ AddFailed
  BY <1>4 DEF ConnectFailed, AddFailed, Ready
<1>5. CASE PushBegin \/ PushEnd
  BY <1>5 DEF PushBegin, PushEnd
<1> QED
  BY <1>1, <1>2, <1>3, <1>4, <1>5, StepCases
  DEF Start, Connected, Reconnect, Receive, EndOfStream, Accept, Refuse, AcceptEvent, CloseEvent, NextSocket,
      CloseOne, AddOne

(* The requests. *)
LEMMA RequestKeeps ==
  ASSUME SocketInv, [SocketNext]_socketVars \/ [NextWin]_socketVars
  PROVE  NoRequestForgotten'
<1> USE DEF SocketInv, NoRequestForgotten, requests, socketVars
<1>1. CASE UNCHANGED <<lpc, added, closed, wake>>
  BY <1>1
<1>2. ASSUME NEW s \in Socks, Start(s) \/ Close(s)
      PROVE  NoRequestForgotten'
  BY <1>2 DEF Start, Close
<1>3. CASE Poll \/ WaitWin \/ Abort \/ DatagramError \/ DispatchEnd \/ DispatchEndWin \/ ClosingEnd \/ AddingEnd
  BY <1>3 DEF Poll, WaitWin, Abort, DatagramError, DispatchEnd, DispatchEndWin, ClosingEnd, AddingEnd, Ready
<1>4. CASE EndOfStream \/ Refuse \/ CloseEvent
  BY <1>4 DEF EndOfStream, Refuse, AcceptEvent, CloseEvent, Ready
<1>5. CASE PushEnd
  BY <1>5 DEF PushEnd, PushInv
<1>6. CASE CloseOne \/ AddOne \/ AddFailed
  BY <1>6 DEF CloseOne, AddOne, AddFailed
<1> QED
  BY <1>1, <1>2, <1>3, <1>4, <1>5, <1>6, StepCases
  DEF Connected, Reconnect, ConnectFailed, Receive, Accept, NextSocket, PushBegin

(* The socket that is next to be added. *)
LEMMA NextAdded ==
  ASSUME TypeInv, PassInv, FreshInv, added # <<>>
  PROVE  /\ Head(added) \in Socks /\ Tail(added) \in Seq(Socks) /\ Fresh(Head(added))
         /\ Head(added) \in started \ opened /\ Head(added) \notin ElementsOf(objects)
         /\ ElementsOf(Tail(added)) \subseteq ElementsOf(added) \ {Head(added)}
         /\ Append(objects, Head(added)) \in Seq(Socks)
         /\ ElementsOf(Append(objects, Head(added))) = ElementsOf(objects) \cup {Head(added)}
<1>1. added \in Seq(Socks) /\ objects \in Seq(Socks)
  BY DEF TypeInv, SocketTypeOK
<1>2. Distinct(added) /\ ElementsOf(added) \subseteq started \ opened /\ ElementsOf(objects) \subseteq opened
  BY DEF PassInv
<1>3. \A s \in ElementsOf(added) : Fresh(s)
  BY DEF FreshInv
<1> HIDE DEF TypeInv, PassInv, FreshInv
<1>4. /\ Head(added) \in Socks /\ Tail(added) \in Seq(Socks)
      /\ ElementsOf(added) = ElementsOf(Tail(added)) \cup {Head(added)}
      /\ Head(added) \notin ElementsOf(Tail(added))
  BY <1>1, <1>2, TailElements
<1>5. /\ Append(objects, Head(added)) \in Seq(Socks)
      /\ ElementsOf(Append(objects, Head(added))) = ElementsOf(objects) \cup {Head(added)}
  BY <1>1, <1>4, AppendElements
<1> QED
  BY <1>2, <1>3, <1>4, <1>5

(* The socket whose event is handled. *)
LEMMA HerePolled ==
  ASSUME TypeInv, PassInv, NEW kind, Ready(kind)
  PROVE  /\ Here \in Socks /\ Here \in ElementsOf(objects) /\ Here \in started /\ Here \notin ElementsOf(added)
         /\ Here \in opened \ finished /\ idx \in 1..Len(objects) /\ lpc = "dispatch" /\ pushing = None
<1>1. idx \in 1..Len(objects) /\ objects \in Seq(Socks) /\ lpc = "dispatch" /\ pushing = None
  BY DEF TypeInv, SocketTypeOK, Ready
<1>2. Here \in Socks /\ Here \in ElementsOf(objects)
  BY <1>1 DEF Here, ElementsOf
<1> QED
  BY <1>1, <1>2 DEF PassInv

(* What is known of the OS socket of a socket that is not started or polled. *)
LEMMA FreshKeeps ==
  ASSUME SocketInv, [SocketNext]_socketVars \/ [NextWin]_socketVars
  PROVE  FreshInv'
<1> USE DEF SocketInv
<1>0. /\ os \in [Socks -> {"none", "connecting", "open", "closed"}] /\ Clients \subseteq Socks
      /\ added \in Seq(Socks) /\ started \subseteq Socks /\ assoc \subseteq Socks
      /\ ElementsOf(added) \subseteq Socks /\ ElementsOf(objects) \subseteq Socks
  BY DEF TypeInv, SocketTypeOK, Socks, Streams, ElementsOf
<1>1. CASE UNCHANGED <<os, assoc, started, added, objects>>
  BY <1>1 DEF FreshInv, Fresh, ElementsOf
<1>2. ASSUME NEW s \in Socks, Start(s)
      PROVE  FreshInv'
  <2>1. /\ s \in assoc \ started /\ started' = started \cup {s} /\ added' = Append(added, s)
        /\ UNCHANGED <<os, assoc, objects>>
    BY <1>2 DEF Start, vectors
  <2>2. ElementsOf(added') = ElementsOf(added) \cup {s}
    BY <1>0, <2>1, AppendElements
  <2> QED
    BY <2>1, <2>2 DEF FreshInv, Fresh, ElementsOf
<1>3. ASSUME NEW s \in Socks, Close(s)
      PROVE  FreshInv'
  BY <1>3 DEF Close, FreshInv, Fresh, ElementsOf, vectors
<1>4. CASE Connected \/ Reconnect \/ ConnectFailed
  <2>1. /\ Here \in Socks /\ Here \in started /\ Here \notin ElementsOf(added)
    BY <1>4, HerePolled DEF Connected, Reconnect, ConnectFailed
  <2>2. /\ UNCHANGED <<assoc, started, added, objects>>
        /\ \E o \in {"connecting", "open", "closed"} : os' = [os EXCEPT ![Here] = o]
    BY <1>4, <1>0, <2>1 DEF Connected, Reconnect, ConnectFailed, AttemptGoesOn, AttemptFails, calls, requests, vectors
  <2> QED
    BY <1>0, <2>1, <2>2 DEF FreshInv, Fresh, ElementsOf
<1>5. CASE Accept
  <2>1. /\ UNCHANGED <<started, added, objects>>
        /\ \/ UNCHANGED <<os, assoc>>
           \/ \E a \in Accepted : os' = [os EXCEPT ![a] = "open"] /\ assoc' = assoc \cup {a}
    BY <1>5 DEF Accept, requests, vectors
  <2>2. /\ ElementsOf(added') = ElementsOf(added) /\ ElementsOf(objects') = ElementsOf(objects)
        /\ \A a \in Accepted : a \notin Clients /\ a \in Socks
    BY <2>1, SocketConstants DEF ElementsOf, Socks, Streams
  <2>3. ASSUME NEW a \in Accepted, os' = [os EXCEPT ![a] = "open"], assoc' = assoc \cup {a}
        PROVE  FreshInv'
    <3>1. \A s \in Socks : os'[s] = IF s = a THEN "open" ELSE os[s]
      BY <1>0, <2>3
    <3>2. \A s \in (assoc' \ started') \cup ElementsOf(added') :
            s \in Socks /\ (s = a \/ s \in (assoc \ started) \cup ElementsOf(added))
      BY <1>0, <2>1, <2>2, <2>3
    <3> QED
      BY <1>0, <2>2, <3>1, <3>2 DEF FreshInv, Fresh
  <2> QED
    BY <2>1, <2>2, <2>3 DEF FreshInv, Fresh
<1>6. CASE CloseOne
  <2>1. UNCHANGED <<assoc, started, added>>
    BY <1>6 DEF CloseOne, calls
  <2>2. \/ UNCHANGED <<os, objects>>
        \/ /\ Head(closed) \in ElementsOf(objects)
           /\ os' = [os EXCEPT ![Head(closed)] = "closed"]
           /\ ElementsOf(objects') = ElementsOf(objects) \ {Head(closed)}
    BY <1>6, CloseOneEffect
  <2>3. \A s \in ElementsOf(objects) : s \notin ElementsOf(added) /\ s \in started
    BY DEF PassInv
  <2>4. /\ ElementsOf(added') = ElementsOf(added)
        /\ UNCHANGED objects => ElementsOf(objects') = ElementsOf(objects)
    BY <2>1 DEF ElementsOf
  <2>5. /\ \A s \in (assoc \ started) \cup ElementsOf(added) : os'[s] = os[s]
        /\ \A s \in ElementsOf(objects') : s \in ElementsOf(objects) /\ os'[s] = os[s]
    BY <1>0, <2>2, <2>3, <2>4
  <2> QED
    BY <2>1, <2>4, <2>5 DEF FreshInv, Fresh
<1>7. CASE AddOne \/ AddFailed
  <2> DEFINE s == Head(added)
  <2>1. /\ added # <<>> /\ added' = Tail(added) /\ UNCHANGED <<assoc, started>>
        /\ \/ objects' = Append(objects, s) /\ (MustConnect(s) => os'[s] = "connecting")
           \/ objects' = objects
        /\ UNCHANGED os \/ \E o \in {"connecting", "closed"} : os' = [os EXCEPT ![s] = o]
        /\ ~MustConnect(s) => UNCHANGED os
    BY <1>7, <1>0, NextAdded DEF AddOne, AddFailed, AttemptGoesOn, AttemptFails, calls, vectors
  <2>2. /\ s \in Socks /\ Fresh(s) /\ s \in started /\ s \notin ElementsOf(objects)
        /\ ElementsOf(added') \subseteq ElementsOf(added) \ {s}
        /\ ElementsOf(Append(objects, s)) = ElementsOf(objects) \cup {s}
    BY <2>1, NextAdded
  <2>3. UNCHANGED objects => ElementsOf(objects') = ElementsOf(objects)
    BY DEF ElementsOf
  <2> HIDE DEF s
  <2>4. \A x \in Socks \ {s} : os'[x] = os[x]
    BY <1>0, <2>1
  <2>5. \A x \in (assoc' \ started') \cup ElementsOf(added') : x # s /\ Fresh(x) /\ os'[x] = os[x]
    BY <1>0, <2>1, <2>2, <2>4 DEF FreshInv
  <2>6. objects' # objects => os'[s] # "none"
    BY <2>1, <2>2 DEF MustConnect, Fresh
  <2>7. \A x \in ElementsOf(objects) : x # s /\ os'[x] # "none"
    BY <1>0, <2>2, <2>4 DEF FreshInv
  <2> QED
    BY <2>1, <2>2, <2>3, <2>5, <2>6, <2>7 DEF FreshInv, Fresh
<1> QED
  BY <1>1, <1>2, <1>3, <1>4, <1>5, <1>6, <1>7, StepCases
  DEF Poll, WaitWin, Receive, EndOfStream, Refuse, AcceptEvent, Abort, DatagramError, CloseEvent, NextSocket,
      DispatchEnd, DispatchEndWin, PushBegin, PushEnd, ClosingEnd, AddingEnd, calls, requests, vectors, socketVars

(* The OS sockets of what is polled. *)
LEMMA OsKeeps ==
  ASSUME SocketInv, [SocketNext]_socketVars \/ [NextWin]_socketVars
  PROVE  OsInv'
<1> USE DEF SocketInv
<1>0. /\ os \in [Socks -> {"none", "connecting", "open", "closed"}]
      /\ closed \in Seq(Socks) /\ ElementsOf(objects) \subseteq Socks
      /\ \A i \in 1..Len(objects) : objects[i] \in ElementsOf(objects)
  BY DEF TypeInv, SocketTypeOK, ElementsOf
<1>1. CASE UNCHANGED <<os, closed, objects, events, lpc, pushing>>
  BY <1>1 DEF OsInv, ElementsOf, Broken
<1>2. CASE UNCHANGED <<os, objects, events, pushing>> /\ \E s \in Socks : closed' = Append(closed, s)
           /\ (lpc' = lpc \/ lpc' = "corrupt")
  <2>1. ElementsOf(closed) \subseteq ElementsOf(closed')
    <3>1. PICK s \in Socks : closed' = Append(closed, s)
      BY <1>2
    <3> QED
      BY <1>0, <3>1, AppendElements
  <2>2. ElementsOf(objects') = ElementsOf(objects)
    BY <1>2 DEF ElementsOf
  <2> QED
    BY <1>2, <2>1, <2>2 DEF OsInv, Broken
<1>3. CASE Poll \/ WaitWin \/ Abort \/ DatagramError \/ DispatchEnd \/ DispatchEndWin \/ ClosingEnd \/ AddingEnd
  <2>1. UNCHANGED <<os, closed, objects, events>>
    BY <1>3 DEF Poll, WaitWin, Abort, DatagramError, DispatchEnd, DispatchEndWin, ClosingEnd, AddingEnd,
                requests, vectors
  <2>2. \/ lpc' = "aborted"
        \/ lpc \in {"poll", "adding"}
        \/ lpc = "dispatch" /\ pushing = None /\ lpc' = "closing"
        \/ lpc = "closing" /\ closed = <<>>
        \/ UNCHANGED <<lpc, pushing>>
    BY <1>3 DEF Poll, WaitWin, Abort, DatagramError, DispatchEnd, DispatchEndWin, ClosingEnd, AddingEnd, push
  <2>3. \A s \in ElementsOf(objects) : s # None
    BY <1>0, SocketConstants
  <2>4. closed = <<>> => ElementsOf(closed) = {}
    BY DEF ElementsOf
  <2>5. ElementsOf(objects') = ElementsOf(objects) /\ ElementsOf(closed') = ElementsOf(closed)
    BY <2>1 DEF ElementsOf
  <2> QED
    BY <2>1, <2>2, <2>3, <2>4, <2>5 DEF OsInv, Broken
<1>4. CASE Connected
  <2>1. /\ os' = [os EXCEPT ![Here] = "open"] /\ events' = [events EXCEPT ![idx].out = FALSE]
        /\ UNCHANGED <<closed, objects, lpc, pushing>>
    BY <1>4 DEF Connected, requests, push
  <2>2. Here \in Socks /\ Here = objects[idx] /\ idx \in 1..Len(objects) /\ Here \in ElementsOf(objects)
    BY <1>4, HerePolled DEF Connected, Here
  <2>3. \A i \in 1..Len(objects) : i # idx => events'[i] = events[i] /\ objects[i] # Here
    BY <2>1, <2>2 DEF VectorInv, Distinct, TypeInv, SocketTypeOK
  <2>4. \A s \in Socks : os'[s] = IF s = Here THEN "open" ELSE os[s]
    BY <1>0, <2>1
  <2>5. ElementsOf(objects') = ElementsOf(objects) /\ ElementsOf(closed') = ElementsOf(closed)
    BY <2>1 DEF ElementsOf
  <2> QED
    BY <1>0, <2>1, <2>2, <2>3, <2>4, <2>5 DEF OsInv, Broken
<1>5. CASE Reconnect \/ ConnectFailed
  <2>1. /\ Here \in Socks /\ os[Here] = "connecting" /\ lpc = "dispatch"
        /\ UNCHANGED <<closed, objects, events, lpc>>
        /\ \/ UNCHANGED pushing /\ os' = [os EXCEPT ![Here] = "connecting"]
           \/ pushing' = Here /\ (UNCHANGED os \/ os' = [os EXCEPT ![Here] = "closed"])
        /\ pushing = None
    BY <1>5, HerePolled DEF Reconnect, ConnectFailed, AttemptGoesOn, AttemptFails, requests, vectors, push
  <2>2. \A s \in Socks \ {Here} : os'[s] = os[s]
    BY <1>0, <2>1
  <2>3. os'[Here] = "connecting" \/ (os'[Here] = "closed" /\ pushing' = Here)
    BY <1>0, <2>1
  <2>4. ElementsOf(objects') = ElementsOf(objects) /\ ElementsOf(closed') = ElementsOf(closed)
    BY <2>1 DEF ElementsOf
  <2>5. None \notin Socks
    BY SocketConstants
  <2> QED
    BY <1>0, <2>1, <2>2, <2>3, <2>4, <2>5 DEF OsInv, Broken
<1>6. CASE Accept
  <2>1. /\ UNCHANGED <<closed, objects, events, lpc, pushing>>
        /\ \/ UNCHANGED os
           \/ \E a \in Accepted : os[a] = "none" /\ os' = [os EXCEPT ![a] = "open"]
    BY <1>6 DEF Accept, requests, vectors, push
  <2>2. \A s \in ElementsOf(objects) : os'[s] = os[s]
    BY <1>0, <2>1 DEF FreshInv
  <2>3. ElementsOf(objects') = ElementsOf(objects) /\ ElementsOf(closed') = ElementsOf(closed)
    BY <2>1 DEF ElementsOf
  <2> QED
    BY <1>0, <2>1, <2>2, <2>3 DEF OsInv, Broken
<1>7. CASE PushEnd
  <2>1. /\ pushing # None /\ closed' = Append(closed, pushing) /\ pushing \in Socks
        /\ UNCHANGED <<os, objects, events, lpc>>
    BY <1>7 DEF PushEnd, PushInv, TypeInv, SocketTypeOK, vectors
  <2>2. ElementsOf(closed') = ElementsOf(closed) \cup {pushing}
    BY <1>0, <2>1, AppendElements
  <2>3. ElementsOf(objects') = ElementsOf(objects)
    BY <2>1 DEF ElementsOf
  <2> QED
    BY <2>1, <2>2, <2>3 DEF OsInv, Broken
<1>8. CASE CloseOne
  <2>1. lpc = "closing" /\ UNCHANGED <<lpc, pushing>> /\ lpc # "dispatch" /\ ~Broken
    BY <1>8 DEF CloseOne, push, Broken
  <2>2. /\ ElementsOf(closed) = ElementsOf(closed') \cup {Head(closed)} /\ Head(closed) \in Socks
        /\ \/ UNCHANGED <<os, objects, events>> /\ Head(closed) \notin ElementsOf(objects)
           \/ /\ os' = [os EXCEPT ![Head(closed)] = "closed"]
              /\ ElementsOf(objects') = ElementsOf(objects) \ {Head(closed)}
              /\ objects' \in Seq(Socks)
              /\ \A k \in 1..Len(objects') : \E j \in 1..Len(objects) :
                    objects'[k] = objects[j] /\ events'[k] = events[j]
    BY <1>8, CloseOneEffect
  <2>3. \A s \in ElementsOf(objects) : os[s] = "closed" => s \in ElementsOf(closed)
    BY <2>1 DEF OsInv
  <2>4. CASE UNCHANGED <<os, objects, events>> /\ Head(closed) \notin ElementsOf(objects)
    <3>1. ElementsOf(objects') = ElementsOf(objects)
      BY <2>4 DEF ElementsOf
    <3> QED
      BY <2>1, <2>2, <2>3, <2>4, <3>1 DEF OsInv
  <2>5. CASE ~(UNCHANGED <<os, objects, events>> /\ Head(closed) \notin ElementsOf(objects))
    <3>1. \A k \in 1..Len(objects') : objects'[k] \in ElementsOf(objects')
      BY DEF ElementsOf
    <3>2. \A s \in ElementsOf(objects') : /\ os'[s] = os[s] /\ s \in ElementsOf(objects) /\ s # Head(closed)
      BY <1>0, <2>2, <2>5
    <3> QED
      BY <2>1, <2>2, <2>3, <2>5, <3>1, <3>2 DEF OsInv
  <2> QED
    BY <2>4, <2>5
<1>9. CASE AddOne \/ AddFailed
  <2> DEFINE s == Head(added)
  <2>1. /\ added # <<>> /\ lpc = "adding" /\ UNCHANGED <<closed, lpc>>
        /\ \/ UNCHANGED <<objects, events>>
           \/ /\ objects' = Append(objects, s)
              /\ events' = Append(events, [fd |-> s, out |-> MustConnect(s)])
              /\ MustConnect(s) => os'[s] = "connecting"
        /\ UNCHANGED os \/ \E o \in {"connecting", "closed"} : os' = [os EXCEPT ![s] = o]
        /\ ~MustConnect(s) => UNCHANGED os
    BY <1>9, <1>0, NextAdded DEF AddOne, AddFailed, AttemptGoesOn, AttemptFails, vectors
  <2>2. /\ s \in Socks /\ Fresh(s) /\ s \notin ElementsOf(objects)
        /\ ElementsOf(Append(objects, s)) = ElementsOf(objects) \cup {s}
    BY <2>1, NextAdded
  <2>3. \A x \in ElementsOf(objects) : os'[x] = os[x] /\ os[x] # "closed"
    BY <1>0, <2>1, <2>2 DEF OsInv, Broken
  <2>4. CASE UNCHANGED <<objects, events>>
    BY <1>0, <2>3, <2>4 DEF OsInv, ElementsOf
  <2>5. CASE objects' = Append(objects, s) /\ events' = Append(events, [fd |-> s, out |-> MustConnect(s)])
    <3> DEFINE e == [fd |-> s, out |-> MustConnect(s)]
    <3>1. os'[s] # "closed" /\ (os'[s] = "connecting" => MustConnect(s))
      BY <2>1, <2>2, <2>5 DEF MustConnect, Fresh
    <3>2. e.out = MustConnect(s)
      OBVIOUS
    <3> HIDE DEF e, s
    <3>3. /\ Len(objects') = Len(objects) + 1 /\ Len(objects) \in Nat
          /\ objects'[Len(objects) + 1] = s /\ events'[Len(objects) + 1] = e
          /\ \A i \in 1..Len(objects) : objects'[i] = objects[i] /\ events'[i] = events[i]
      BY <2>5 DEF TypeInv, SocketTypeOK, VectorInv, e
    <3>4. \A i \in 1..Len(objects') : os'[objects'[i]] = "connecting" => events'[i].out
      BY <1>0, <2>3, <3>1, <3>2, <3>3 DEF OsInv
    <3> QED
      BY <2>2, <2>3, <2>5, <3>1, <3>4 DEF OsInv
  <2> QED
    BY <2>1, <2>4, <2>5
<1>10. CASE EndOfStream \/ CloseEvent \/ Refuse
  <2>1. Here \in Socks
    BY <1>10, HerePolled DEF EndOfStream, CloseEvent, Refuse, AcceptEvent, Accept
  <2> QED
    BY <1>2, <1>10, <2>1 DEF EndOfStream, CloseEvent, Refuse, AcceptEvent, vectors, push
<1> QED
  BY <1>1, <1>2, <1>3, <1>4, <1>5, <1>6, <1>7, <1>8, <1>9, <1>10, StepCases
  DEF Start, Close, Receive, NextSocket, PushBegin, push, requests, vectors, socketVars

(* A connection attempt. *)
LEMMA Attempted ==
  ASSUME TypeInv, NEW s \in Socks, AttemptGoesOn(s) \/ AttemptFails(s)
  PROVE  os' \in [Socks -> {"none", "connecting", "open", "closed"}] /\ addrs' \in [Clients -> 0..MaxAddrs]
<1>1. /\ os \in [Socks -> {"none", "connecting", "open", "closed"}] /\ addrs \in [Clients -> 0..MaxAddrs]
      /\ MaxAddrs \in Nat
  BY SocketConstants DEF TypeInv, SocketTypeOK
<1>2. os' = os \/ \E o \in {"connecting", "closed"} : os' = [os EXCEPT ![s] = o]
  BY DEF AttemptGoesOn, AttemptFails
<1>3. \/ addrs' = addrs \/ addrs' = [addrs EXCEPT ![s] = 0]
      \/ addrs[s] > 0 /\ addrs' = [addrs EXCEPT ![s] = @ - 1]
  BY DEF AttemptGoesOn, AttemptFails
<1>4. os' \in [Socks -> {"none", "connecting", "open", "closed"}]
  BY <1>1, <1>2
<1>5. addrs' \in [Clients -> 0..MaxAddrs]
  BY <1>1, <1>3
<1> QED
  BY <1>4, <1>5

(* The types. *)
LEMMA TypeKeeps ==
  ASSUME SocketInv, [SocketNext]_socketVars \/ [NextWin]_socketVars
  PROVE  TypeInv'
<1> DEFINE entry == [fd : Socks, out : BOOLEAN]
<1>1. TypeInv /\ PushInv /\ PassInv /\ FreshInv /\ VectorInv
  BY DEF SocketInv
<1>2. /\ os \in [Socks -> {"none", "connecting", "open", "closed"}] /\ addrs \in [Clients -> 0..MaxAddrs]
      /\ added \in Seq(Socks) /\ closed \in Seq(Socks) /\ objects \in Seq(Socks) /\ events \in Seq(entry)
      /\ Len(events) = Len(objects) /\ idx \in 1..(Len(objects) + 1)
  BY <1>1 DEF TypeInv, SocketTypeOK, VectorInv
<1> HIDE DEF entry
<1> USE DEF requests, vectors, calls, told, push
<1>3. CASE UNCHANGED socketVars
  BY <1>1, <1>3 DEF TypeInv, SocketTypeOK, socketVars
<1>4. ASSUME NEW s \in Socks, Start(s) \/ Close(s)
      PROVE  TypeInv'
  <2>1. /\ wake' = TRUE
        /\ started' \subseteq started \cup {s} /\ assoc' \subseteq assoc
        /\ UNCHANGED <<os, addrs, objects, events, idx, push, told>>
        /\ added' = added \/ added' = Append(added, s)
        /\ closed' = closed \/ closed' = Append(closed, s)
        /\ lpc' \in {lpc, "corrupt"}
    BY <1>4 DEF Start, Close
  <2>2. due' \subseteq ended' /\ ended' \subseteq Socks
    BY <1>1, <1>4 DEF Start, Close, End, NoEnd, TypeInv, SocketTypeOK
  <2>3. Append(added, s) \in Seq(Socks) /\ Append(closed, s) \in Seq(Socks)
    BY <1>2, AppendElements
  <2>4. added' \in Seq(Socks) /\ closed' \in Seq(Socks)
    BY <1>2, <2>1, <2>3
  <2> QED
    BY <1>1, <2>1, <2>2, <2>3, <2>4 DEF TypeInv, SocketTypeOK
<1>5. CASE Poll \/ Abort \/ DatagramError \/ Receive \/ NextSocket \/ DispatchEnd \/ DispatchEndWin
  <2>1. /\ UNCHANGED <<os, addrs, added, closed, objects, events, push, calls, told, ended, due>>
        /\ wake' \in {wake, FALSE} /\ lpc' \in {lpc, "dispatch", "closing", "aborted"}
        /\ idx' = 1 \/ (idx' = idx + 1 /\ idx <= Len(objects)) \/ idx' = idx
        /\ lpc' \in {"poll", "closing", "adding"} => idx' = 1
    BY <1>1, <1>5 DEF Poll, Abort, DatagramError, Receive, NextSocket, DispatchEnd, DispatchEndWin, NoEnd,
                      Ready, TypeInv
  <2>2. idx' \in 1..(Len(objects) + 1)
    BY <1>2, <2>1
  <2> QED
    BY <1>1, <2>1, <2>2 DEF TypeInv, SocketTypeOK
<1>6. CASE PushBegin \/ ClosingEnd \/ AddingEnd
  BY <1>1, <1>6 DEF PushBegin, ClosingEnd, AddingEnd, NoEnd, PushInv, TypeInv, SocketTypeOK
<1>7. CASE WaitWin
  <2>1. (idx' = idx \/ idx' \in 1..Len(objects)) /\ lpc' \in {"closing", "dispatch"}
        /\ (lpc' = "closing" => idx' = idx) /\ wake' \in BOOLEAN /\ lpc = "poll"
    BY <1>1, <1>7 DEF WaitWin, TypeInv, SocketTypeOK
  <2>2. UNCHANGED <<os, addrs, added, closed, vectors, push, calls, told, ended, due>>
    BY <1>7 DEF WaitWin, NoEnd
  <2> QED
    BY <1>1, <2>1, <2>2 DEF TypeInv, SocketTypeOK
<1>8. CASE EndOfStream \/ CloseEvent \/ Refuse
  <2>1. Here \in Socks
    BY <1>1, <1>8, HerePolled DEF EndOfStream, CloseEvent, Refuse, AcceptEvent, Accept
  <2>2. /\ UNCHANGED <<os, addrs, added, objects, events, idx, lpc, push, calls, told>>
        /\ closed' = Append(closed, Here) /\ wake' \in {wake, TRUE}
    BY <1>8 DEF EndOfStream, CloseEvent, Refuse, AcceptEvent
  <2>3. due' \subseteq ended' /\ ended' \subseteq Socks
    BY <1>1, <1>8, <2>1 DEF EndOfStream, CloseEvent, Refuse, AcceptEvent, End, TypeInv, SocketTypeOK
  <2>4. closed' \in Seq(Socks)
    BY <1>2, <2>1, <2>2
  <2> QED
    BY <1>1, <2>1, <2>2, <2>3, <2>4 DEF TypeInv, SocketTypeOK
<1>9. CASE PushEnd
  <2>1. pushing \in Socks
    BY <1>1, <1>9 DEF PushEnd, PushInv, TypeInv, SocketTypeOK
  <2>2. /\ UNCHANGED <<os, addrs, added, wake, objects, events, idx, lpc, calls, told>>
        /\ closed' = Append(closed, pushing) /\ pushing' = None /\ racy' = FALSE
    BY <1>9 DEF PushEnd
  <2>3. due' \subseteq ended' /\ ended' \subseteq Socks
    BY <1>1, <1>9, <2>1 DEF PushEnd, End, TypeInv, SocketTypeOK
  <2>4. closed' \in Seq(Socks)
    BY <1>2, <2>1, <2>2
  <2> QED
    BY <1>1, <2>2, <2>3, <2>4 DEF TypeInv, SocketTypeOK
<1>10. CASE Accept
  <2>1. /\ UNCHANGED <<addrs, requests, vectors, idx, lpc, push, started, told, ended, due>>
        /\ \/ UNCHANGED <<os, assoc>>
           \/ \E a \in Accepted : os' = [os EXCEPT ![a] = "open"] /\ assoc' = assoc \cup {a}
    BY <1>10 DEF Accept, NoEnd
  <2>2. Accepted \subseteq Socks /\ assoc \subseteq Socks
    BY <1>1 DEF TypeInv, SocketTypeOK, Socks, Streams
  <2>3. os' \in [Socks -> {"none", "connecting", "open", "closed"}] /\ assoc' \subseteq Socks
    BY <1>2, <2>1, <2>2
  <2> QED
    BY <1>1, <2>1, <2>3 DEF TypeInv, SocketTypeOK
<1>11. CASE Connected
  <2>1. idx \in 1..Len(events) /\ Here \in Socks
    BY <1>1, <1>2, <1>11, HerePolled DEF Connected
  <2>2. events[idx] \in entry
    BY <1>2, <2>1
  <2>3. [events[idx] EXCEPT !.out = FALSE] \in entry
    BY <2>2 DEF entry
  <2>4. events' \in Seq(entry)
    BY <1>2, <1>11, <2>1, <2>3 DEF Connected
  <2>5. os' \in [Socks -> {"none", "connecting", "open", "closed"}]
    BY <1>2, <1>11, <2>1 DEF Connected
  <2>6. UNCHANGED <<addrs, requests, objects, idx, lpc, push, calls, told, ended, due>>
    BY <1>11 DEF Connected, NoEnd
  <2> QED
    BY <1>1, <2>4, <2>5, <2>6 DEF TypeInv, SocketTypeOK, entry
<1>12. CASE Reconnect \/ ConnectFailed
  <2>1. Here \in Socks /\ lpc = "dispatch"
    BY <1>1, <1>12, HerePolled DEF Reconnect, ConnectFailed
  <2>2. os' \in [Socks -> {"none", "connecting", "open", "closed"}] /\ addrs' \in [Clients -> 0..MaxAddrs]
    BY <1>1, <1>12, <2>1, Attempted DEF Reconnect, ConnectFailed
  <2>3. /\ UNCHANGED <<requests, vectors, idx, lpc, racy, calls, told, ended, due>>
        /\ pushing' \in Socks \cup {None}
    BY <1>1, <1>12, <2>1 DEF Reconnect, ConnectFailed, NoEnd, TypeInv, SocketTypeOK
  <2> QED
    BY <1>1, <2>2, <2>3 DEF TypeInv, SocketTypeOK
<1>13. CASE CloseOne
  <2>1. /\ closed' \in Seq(Socks) /\ lpc = "closing"
        /\ UNCHANGED <<addrs, added, wake, idx, lpc, push, calls, opened, ended, due>>
    BY <1>1, <1>2, <1>13 DEF CloseOne, NoEnd
  <2>2. \/ UNCHANGED <<os, finished, objects, events>>
        \/ /\ Head(closed) \in ElementsOf(objects)
           /\ os' = [os EXCEPT ![Head(closed)] = "closed"]
           /\ finished' = finished \cup {Head(closed)}
           /\ objects' \in Seq(Socks) /\ events' \in Seq(entry)
    BY <1>1, <1>13, CloseOneEffect DEF entry
  <2>3. Head(closed) \in Socks
    BY <1>1, <1>13, CloseOneEffect
  <2>4. os' \in [Socks -> {"none", "connecting", "open", "closed"}] /\ finished' \subseteq Socks
        /\ objects' \in Seq(Socks) /\ events' \in Seq(entry)
    BY <1>1, <1>2, <2>2, <2>3 DEF TypeInv, SocketTypeOK, entry
  <2>5. idx' = 1 /\ idx' \in 1..(Len(objects') + 1)
    BY <1>1, <2>1, <2>4 DEF TypeInv
  <2> QED
    BY <1>1, <2>1, <2>4, <2>5 DEF TypeInv, SocketTypeOK, entry
<1>14. CASE AddOne \/ AddFailed
  <2> DEFINE s == Head(added)
             e == [fd |-> s, out |-> MustConnect(s)]
  <2>1. /\ added # <<>> /\ added' = Tail(added) /\ lpc = "adding"
        /\ UNCHANGED <<closed, wake, idx, lpc, racy, calls, finished, ended, due>>
    BY <1>14 DEF AddOne, AddFailed, NoEnd
  <2>2. s \in Socks /\ Tail(added) \in Seq(Socks) /\ Append(objects, s) \in Seq(Socks)
    BY <1>1, <2>1, NextAdded
  <2>3. os' \in [Socks -> {"none", "connecting", "open", "closed"}] /\ addrs' \in [Clients -> 0..MaxAddrs]
    BY <1>1, <1>2, <1>14, <2>2, Attempted DEF AddOne, AddFailed
  <2>4. e \in entry
    BY <2>2 DEF MustConnect, entry
  <2>5. /\ objects' = objects \/ objects' = Append(objects, s)
        /\ events' = events \/ events' = Append(events, e)
        /\ opened' \subseteq opened \cup {s} /\ pushing' \in {s, pushing}
    BY <1>14 DEF AddOne, AddFailed
  <2> HIDE DEF s, e
  <2>6. events' \in Seq(entry) /\ objects' \in Seq(Socks) /\ Len(objects') \in Nat
    <3>1. events \in Seq(entry) /\ e \in entry /\ (events' = events \/ events' = Append(events, e))
      BY <1>2, <2>4, <2>5
    <3>2. events' \in Seq(entry)
      BY <3>1
    <3>3. objects' \in Seq(Socks)
      BY <1>2, <2>2, <2>5 DEF s
    <3> QED
      BY <3>2, <3>3
  <2>7. idx' = 1 /\ idx' \in 1..(Len(objects') + 1)
    BY <1>1, <2>1, <2>6 DEF TypeInv
  <2> QED
    BY <1>1, <2>1, <2>2, <2>3, <2>5, <2>6, <2>7 DEF TypeInv, SocketTypeOK, entry
<1> QED
  BY <1>3, <1>4, <1>5, <1>6, <1>7, <1>8, <1>9, <1>10, <1>11, <1>12, <1>13, <1>14, StepCases

-----------------------------------------------------------------------------
(* The theorems *)

(* The provider starts with its vectors and its requests empty. *)
LEMMA InitHolds == ASSUME SocketInit PROVE SocketInv
<1>1. /\ os \in [Socks -> {"none", "connecting", "open", "closed"}]
      /\ \A s \in Socks : os[s] = IF s \in Streams THEN "none" ELSE "open"
  BY DEF SocketInit
<1>2. TypeInv
  <2>1. \A S : <<>> \in Seq(S) /\ 1 \in 1..(Len(<<>>) + 1)
    OBVIOUS
  <2>2. /\ added \in Seq(Socks) /\ closed \in Seq(Socks) /\ objects \in Seq(Socks)
        /\ events \in Seq([fd : Socks, out : BOOLEAN]) /\ idx = 1 /\ idx \in 1..(Len(objects) + 1)
    BY <2>1 DEF SocketInit
  <2>3. /\ addrs \in [Clients -> 0..MaxAddrs] /\ assoc \subseteq Socks /\ wake = FALSE /\ lpc = "poll"
        /\ pushing = None /\ racy = FALSE /\ started = {} /\ opened = {} /\ finished = {}
        /\ ended = {} /\ due = {}
    BY DEF SocketInit
  <2> QED
    BY <1>1, <2>2, <2>3 DEF TypeInv, SocketTypeOK
<1>3. ElementsOf(<<>>) = {} /\ Distinct(<<>>)
  BY DEF ElementsOf, Distinct
<1>4. PushInv /\ PassInv /\ VectorInv /\ NoRequestForgotten
  BY <1>3 DEF SocketInit, PushInv, PassInv, VectorInv, NoRequestForgotten
<1>5. OsInv
  BY <1>3 DEF SocketInit, OsInv
<1>6. FreshInv
  BY <1>1, <1>3 DEF SocketInit, FreshInv, Fresh, Socks, Streams
<1> QED
  BY <1>2, <1>4, <1>5, <1>6 DEF SocketInv

(* Every step of either platform keeps the invariant. *)
LEMMA Inductive == ASSUME SocketInv, [SocketNext]_socketVars \/ [NextWin]_socketVars PROVE SocketInv'
  BY VectorKeeps, PassKeeps, PushKeeps, RequestKeeps, FreshKeeps, OsKeeps, TypeKeeps DEF SocketInv

(* The invariant holds of both providers, network_linux.cpp and               *)
(* network_win.cpp.                                                           *)
THEOREM SocketInvariance == SocketSpec \/ SpecWin => []SocketInv
<1>1. SocketInit => SocketInv
  BY InitHolds
<1>2. SocketInv /\ [SocketNext]_socketVars => SocketInv'
  BY Inductive
<1>3. SocketInv /\ [NextWin]_socketVars => SocketInv'
  BY Inductive
<1> QED
  BY <1>1, <1>2, <1>3, PTL DEF SocketSpec, SpecWin

(* The vectors, the lists of requests and the state of each socket keep their *)
(* types; the index of the dispatch loop never leaves the vector by more than *)
(* its end (wait()).                                                          *)
THEOREM SocketTypesCorrect == SocketSpec \/ SpecWin => []SocketTypeOK
<1>1. SocketInv => SocketTypeOK
  BY DEF SocketInv, TypeInv
<1> QED
  BY <1>1, SocketInvariance, PTL

(* When the loop thread polls, the two vectors describe the same sockets at   *)
(* the same indices, none twice and none whose OS socket is closed, for any   *)
(* number of sockets and any order of calls, errors and ends of connections   *)
(* (wait(), on both platforms).                                               *)
THEOREM PollSetCorrect == SocketSpec \/ SpecWin => []PollSetMatches
<1>1. SocketInv => PollSetMatches
  <2> SUFFICES ASSUME SocketInv, lpc = "poll" PROVE PollSetMatches
    BY DEF PollSetMatches
  <2>1. VectorInv /\ os \in [Socks -> {"none", "connecting", "open", "closed"}]
    BY DEF SocketInv, TypeInv, SocketTypeOK
  <2>2. \A i \in 1..Len(objects) : objects[i] \in ElementsOf(objects) /\ objects[i] \in Socks
    BY DEF SocketInv, TypeInv, SocketTypeOK, ElementsOf
  <2>3. \A s \in ElementsOf(objects) : os[s] # "none" /\ os[s] # "closed"
    BY DEF SocketInv, FreshInv, OsInv, Broken
  <2>4. \A i \in 1..Len(objects) : os[objects[i]] = "connecting" => events[i].out
    BY DEF SocketInv, OsInv
  <2> QED
    BY <2>1, <2>2, <2>3, <2>4 DEF PollSetMatches, VectorInv, Distinct
<1> QED
  BY <1>1, SocketInvariance, PTL

(* A request to start or to close a socket is executed before the next poll,  *)
(* or interrupts it (start_socket(), close_socket(), wait(), on both          *)
(* platforms).                                                                *)
THEOREM RequestsSeen == SocketSpec \/ SpecWin => []NoRequestForgotten
<1>1. SocketInv => NoRequestForgotten
  BY DEF SocketInv
<1> QED
  BY <1>1, SocketInvariance, PTL

(* What CallbackOrder asks of a step. *)
CallbackProper ==
  last' # None =>
    /\ last'.sock \notin finished
    /\ last'.kind \notin {"start", "error"} => last'.sock \in opened
    /\ last'.kind = "start" => last'.sock \notin opened

(* The callback of a step, from where its socket is. *)
LEMMA CallbackStep ==
  ASSUME SocketInv, [SocketNext]_socketVars \/ [NextWin]_socketVars
  PROVE  [CallbackProper]_socketVars
<1>1. TypeInv /\ PassInv /\ FreshInv /\ VectorInv
  BY DEF SocketInv
<1>2. CASE Connected \/ ConnectFailed \/ Receive \/ Accept
  <2>1. Here \in opened \ finished
    BY <1>1, <1>2, HerePolled DEF Connected, ConnectFailed, Receive, Accept
  <2>2. last' = None \/ (last'.sock = Here /\ last'.kind # "start")
    BY <1>2 DEF Connected, ConnectFailed, Receive, Accept, Callback, Quiet
  <2> QED
    BY <2>1, <2>2 DEF CallbackProper
<1>3. CASE CloseOne
  <2>1. last' = None \/ (last' = Callback("close", Head(closed)) /\ Head(closed) \in ElementsOf(objects))
    BY <1>3 DEF CloseOne, Quiet, ElementsOf
  <2> QED
    BY <1>1, <2>1 DEF Callback, CallbackProper, PassInv
<1>4. CASE AddOne \/ AddFailed
  <2>1. /\ added # <<>> /\ last'.sock = Head(added) /\ last'.kind \in {"start", "error"}
    BY <1>4 DEF AddOne, AddFailed, Callback
  <2>2. Head(added) \notin opened /\ Head(added) \notin finished
    BY <1>1, <2>1, NextAdded DEF PassInv
  <2> QED
    BY <2>1, <2>2 DEF CallbackProper
<1>5. CASE UNCHANGED socketVars
  BY <1>5
<1> QED
  BY <1>2, <1>3, <1>4, <1>5, StepCases
  DEF Start, Close, Poll, WaitWin, Reconnect, EndOfStream, Refuse, AcceptEvent, Abort, DatagramError, CloseEvent,
      NextSocket, DispatchEnd, DispatchEndWin, PushBegin, PushEnd, ClosingEnd, AddingEnd, Quiet, CallbackProper

(* No socket has a callback before its start callback, but for the error of a *)
(* first connection attempt, none after its close callback, and neither comes *)
(* twice (wait(), on both platforms).                                         *)
THEOREM CallbacksOrdered == SocketSpec \/ SpecWin => CallbackOrder
<1>1. SocketInv /\ [SocketNext]_socketVars => [CallbackProper]_socketVars
  BY CallbackStep
<1>2. SocketInv /\ [NextWin]_socketVars => [CallbackProper]_socketVars
  BY CallbackStep
<1> QED
  BY <1>1, <1>2, SocketInvariance, PTL DEF SocketSpec, SpecWin, CallbackOrder, CallbackProper
==============================================================================
