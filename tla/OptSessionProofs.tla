-------------------------- MODULE OptSessionProofs --------------------------
(***************************************************************************)
(* What holds of OptSession for any number of packets.                      *)
(***************************************************************************)
EXTENDS OptSession, TLAPS

(* The packet after which the sender of the stream to e uses its key. *)
NewKeys(e) == IF e = A THEN "S_NEWKEYS" ELSE "C_NEWKEYS"

(* The packets q on their way to e, which decrypts them with key ik and       *)
(* counter ic, from a sender that uses key ok and counter oc, and is between  *)
(* its last packet under the old key and the new one if switching.            *)

(* Nobody uses the key: no packet is encrypted, and the last one before the   *)
(* key is the last one of all.                                                *)
Plain(e, q, ik, ok, ic, oc, switching) ==
  /\ ik = "off" /\ ok = "off" /\ ic = 0 /\ oc = 0
  /\ switching => q # <<>>
  /\ \A i \in 1..Len(q) : q[i].key = "off" /\ (q[i].type = NewKeys(e) <=> switching /\ i = Len(q))

(* The sender uses the key: packets that are not encrypted, up to the n-th,   *)
(* which tells e of the key, and then packets that are.                       *)
Turning(e, q, ik, ok, ic, oc) ==
  /\ ik = "off" /\ ok = e /\ ic = 0
  /\ \E n \in 1..Len(q) :
       /\ \A i \in 1..n : q[i].key = "off" /\ (q[i].type = NewKeys(e) <=> i = n)
       /\ \A i \in (n + 1)..Len(q) : q[i].key = e /\ q[i].ctr = i - n - 1
       /\ oc = Len(q) - n

(* e has been told before the sender got that far. *)
Awaited(e, q, ik, ok, ic, oc, switching) ==
  ik = e /\ ok = "off" /\ ic = 0 /\ oc = 0 /\ switching /\ q = <<>>

(* Both use the key, and the counters number the packets on their way. *)
Keyed(e, q, ik, ok, ic, oc) ==
  /\ ik = e /\ ok = e
  /\ \A i \in 1..Len(q) : q[i].key = e /\ q[i].ctr = ic + i - 1
  /\ oc = ic + Len(q)

InStep(e, q, ik, ok, ic, oc, switching) ==
  \/ Plain(e, q, ik, ok, ic, oc, switching)
  \/ Turning(e, q, ik, ok, ic, oc)
  \/ Awaited(e, q, ik, ok, ic, oc, switching)
  \/ Keyed(e, q, ik, ok, ic, oc)

(* The two ends of the stream to e agree on its keys and counters, until its  *)
(* key exchange has failed.                                                   *)
StreamInv(e) ==
  kst[e] # "KF_Err" =>
    InStep(e, chan[e], inKey[e], outKey[Peer(e)], inCtr[e], outCtr[Peer(e)], step[Peer(e)] = "keys")

(* _out_encryption_lock is held from the last packet under the old key until  *)
(* the new one is set, and recv() has more to do only in a key exchange that  *)
(* has begun and not failed.                                                  *)
LockInv ==
  /\ \A e \in Ends : lock[e] <=> step[e] = "keys"
  /\ \A e \in Ends : step[e] # "none" => kst[e] \notin {"S0_New", "KF_Err"}

Contains(q, type) == \E i \in 1..Len(q) : q[i].type = type

(* What an end does that it does only once it knows the other. *)
TrustInv ==
  /\ kst[A] = "K2_SHello" \/ step[A] # "none" => trusts[A]
  /\ Contains(chan[B], "C_IDENTITY") => trusts[A]
  /\ \A e \in Ends : delivered[e] # <<>> => ready[e]
  /\ OnlyKnownRemotes

IInv == /\ TypeOK
        /\ LockInv
        /\ \A e \in Ends : StreamInv(e)
        /\ TrustInv
        /\ EveryPacketDecrypts
-----------------------------------------------------------------------------
(* The ends and their types *)

LEMMA EndFacts ==
  /\ A = "A" /\ B = "B"
  /\ A \in Ends /\ B \in Ends /\ A # B /\ A # "off" /\ B # "off"
  /\ Peer(A) = B /\ Peer(B) = A
  /\ \A e \in Ends : Peer(e) \in Ends /\ Peer(e) # e /\ Peer(Peer(e)) = e
BY DEF Ends, Peer, A, B

LEMMA SealedType ==
  ASSUME TypeOK, NEW e \in Ends, NEW type \in KexTypes \cup {"DATA"}, NEW val \in Nat
  PROVE  /\ Sealed(e, type, val) \in Packet
         /\ Sealed(e, type, val).type = type
         /\ Sealed(e, type, val).key = outKey[e]
         /\ outKey[e] # "off" => Sealed(e, type, val).ctr = outCtr[e]
<1>1. outKey[e] \in Key /\ outCtr[e] \in Nat
  BY DEF TypeOK
<1> QED
  BY <1>1 DEF Sealed, Packet

(* What taking the packet at the head leaves. *)
LEMMA TailFacts ==
  ASSUME NEW q \in Seq(Packet), q # <<>>
  PROVE  /\ Tail(q) \in Seq(Packet) /\ Len(q) \in Nat /\ Len(q) >= 1 /\ Len(Tail(q)) = Len(q) - 1
         /\ \A i \in 1..Len(Tail(q)) : i + 1 \in 1..Len(q) /\ Tail(q)[i] = q[i + 1]
         /\ Head(q) = q[1] /\ Head(q) \in Packet
OBVIOUS

LEMMA AppendFacts ==
  ASSUME NEW q \in Seq(Packet), NEW p \in Packet
  PROVE  /\ Append(q, p) \in Seq(Packet) /\ Len(q) \in Nat /\ Len(Append(q, p)) = Len(q) + 1
         /\ \A i \in 1..Len(q) : Append(q, p)[i] = q[i]
         /\ Append(q, p)[Len(q) + 1] = p
         /\ Append(q, p) # <<>>
OBVIOUS

-----------------------------------------------------------------------------
(* One stream *)

LEMMA StreamDecrypts ==
  ASSUME NEW e \in Ends, NEW q \in Seq(Packet), NEW ik, NEW ok, NEW ic \in Nat, NEW oc \in Nat,
         NEW sw \in BOOLEAN, InStep(e, q, ik, ok, ic, oc, sw), q # <<>>
  PROVE  Head(q).key = ik /\ (ik # "off" => Head(q).ctr = ic)
<1>1. Len(q) \in Nat /\ Len(q) >= 1 /\ Head(q) = q[1] /\ 1 \in 1..Len(q)
  BY TailFacts
<1>2. CASE Plain(e, q, ik, ok, ic, oc, sw)
  BY <1>1, <1>2 DEF Plain
<1>3. CASE Turning(e, q, ik, ok, ic, oc)
  BY <1>1, <1>3 DEF Turning
<1>4. CASE Keyed(e, q, ik, ok, ic, oc)
  BY <1>1, <1>4 DEF Keyed
<1> QED
  BY <1>2, <1>3, <1>4 DEF InStep, Awaited

(* The sender adds a packet under the key it uses.  As long as it uses none,  *)
(* the packet that tells of the key is the last one.                          *)
LEMMA StreamSent ==
  ASSUME NEW e \in Ends, NEW q \in Seq(Packet), NEW ik, NEW ok, NEW ic \in Nat, NEW oc \in Nat,
         NEW sw \in BOOLEAN, NEW sw2 \in BOOLEAN, NEW p \in Packet,
         InStep(e, q, ik, ok, ic, oc, sw),
         p.key = ok, ok # "off" => p.ctr = oc,
         ok = "off" => ~sw /\ (sw2 <=> p.type = NewKeys(e))
  PROVE  InStep(e, Append(q, p), ik, ok, ic, IF ok = "off" THEN oc ELSE oc + 1, sw2)
<1> DEFINE r == Append(q, p)
<1>1. /\ Len(q) \in Nat /\ Len(r) = Len(q) + 1 /\ r # <<>>
      /\ \A i \in 1..Len(q) : r[i] = q[i]
      /\ r[Len(q) + 1] = p
  BY AppendFacts
<1>2. e # "off"
  BY DEF Ends, A, B
<1> HIDE DEF r
<1>3. CASE Plain(e, q, ik, ok, ic, oc, sw)
  <2>1. \A i \in 1..Len(r) : r[i].key = "off" /\ (r[i].type = NewKeys(e) <=> sw2 /\ i = Len(r))
    <3>1. ok = "off" /\ p.key = "off" /\ ~sw /\ (sw2 <=> p.type = NewKeys(e))
      BY <1>3 DEF Plain
    <3>2. \A i \in 1..Len(r) : i = Len(r) \/ (i \in 1..Len(q) /\ i # Len(r))
      BY <1>1
    <3>3. \A i \in 1..Len(q) : r[i].key = "off" /\ r[i].type # NewKeys(e)
      BY <1>1, <1>3, <3>1 DEF Plain
    <3> QED
      BY <1>1, <3>1, <3>2, <3>3
  <2> QED
    BY <1>1, <1>3, <2>1 DEF Plain, InStep
<1>4. CASE Turning(e, q, ik, ok, ic, oc)
  <2>1. PICK n \in 1..Len(q) :
          /\ \A i \in 1..n : q[i].key = "off" /\ (q[i].type = NewKeys(e) <=> i = n)
          /\ \A i \in (n + 1)..Len(q) : q[i].key = e /\ q[i].ctr = i - n - 1
          /\ oc = Len(q) - n
    BY <1>4 DEF Turning
  <2>2. ik = "off" /\ ok = e /\ ic = 0 /\ p.key = e /\ p.ctr = oc
    BY <1>2, <1>4 DEF Turning
  <2>3. n \in 1..Len(r) /\ n \in Nat
    BY <1>1
  <2>4. \A i \in 1..n : i \in 1..Len(q)
    BY <1>1
  <2>5. \A i \in (n + 1)..Len(r) : r[i].key = e /\ r[i].ctr = i - n - 1
    <3>1. \A i \in (n + 1)..Len(r) : i = Len(q) + 1 \/ (i \in (n + 1)..Len(q) /\ i \in 1..Len(q))
      BY <1>1, <2>3
    <3> QED
      BY <1>1, <2>1, <2>2, <3>1
  <2>6. oc + 1 = Len(r) - n
    BY <1>1, <2>1, <2>3
  <2>7. Turning(e, r, ik, ok, ic, oc + 1)
    BY <1>1, <2>1, <2>2, <2>3, <2>4, <2>5, <2>6 DEF Turning
  <2> QED
    BY <1>2, <2>2, <2>7 DEF InStep, r
<1>5. CASE Keyed(e, q, ik, ok, ic, oc)
  <2>1. \A i \in 1..Len(r) : i \in 1..Len(q) \/ i = Len(q) + 1
    BY <1>1
  <2>2. Keyed(e, r, ik, ok, ic, oc + 1)
    BY <1>1, <1>2, <1>5, <2>1 DEF Keyed
  <2>3. ok # "off"
    BY <1>2, <1>5 DEF Keyed
  <2> QED
    BY <2>2, <2>3 DEF InStep, r
<1>6. CASE Awaited(e, q, ik, ok, ic, oc, sw)
  BY <1>6 DEF Awaited
<1> QED
  BY <1>3, <1>4, <1>5, <1>6 DEF InStep, r

(* The sender uses the key from now on. *)
LEMMA StreamSwitched ==
  ASSUME NEW e \in Ends, NEW q \in Seq(Packet), NEW ik, NEW ok, NEW ic \in Nat, NEW oc \in Nat,
         InStep(e, q, ik, ok, ic, oc, TRUE)
  PROVE  InStep(e, q, ik, e, ic, oc, FALSE)
<1>1. Len(q) \in Nat /\ (q # <<>> => Len(q) >= 1)
  OBVIOUS
<1>2. CASE Plain(e, q, ik, ok, ic, oc, TRUE)
  <2>1. Len(q) \in 1..Len(q) /\ oc = Len(q) - Len(q)
    BY <1>1, <1>2 DEF Plain
  <2>2. \A i \in (Len(q) + 1)..Len(q) : FALSE
    BY <1>1
  <2>3. Turning(e, q, ik, e, ic, oc)
    BY <1>2, <2>1, <2>2 DEF Plain, Turning
  <2> QED
    BY <2>3 DEF InStep
<1>3. CASE Awaited(e, q, ik, ok, ic, oc, TRUE)
  <2>1. Len(q) = 0 /\ \A i \in 1..Len(q) : FALSE
    BY <1>3 DEF Awaited
  <2>2. Keyed(e, q, ik, e, ic, oc)
    BY <1>3, <2>1 DEF Awaited, Keyed
  <2> QED
    BY <2>2 DEF InStep
<1>4. CASE Turning(e, q, ik, ok, ic, oc) \/ Keyed(e, q, ik, ok, ic, oc)
  BY <1>4 DEF InStep, Turning, Keyed
<1> QED
  BY <1>2, <1>3, <1>4 DEF InStep

(* e takes a packet; the one that tells of the key makes it use that key. *)
LEMMA StreamTaken ==
  ASSUME NEW e \in Ends, NEW q \in Seq(Packet), NEW ik, NEW ok, NEW ic \in Nat, NEW oc \in Nat,
         NEW sw \in BOOLEAN, InStep(e, q, ik, ok, ic, oc, sw), q # <<>>
  PROVE  InStep(e, Tail(q), IF Head(q).type = NewKeys(e) THEN e ELSE ik, ok,
                IF ik = "off" THEN ic ELSE ic + 1, oc, sw)
<1> DEFINE r == Tail(q)
<1>1. /\ r \in Seq(Packet)
      /\ Len(q) \in Nat /\ Len(q) >= 1 /\ Len(r) = Len(q) - 1
      /\ \A i \in 1..Len(r) : i + 1 \in 1..Len(q) /\ r[i] = q[i + 1]
      /\ Head(q) = q[1]
  BY TailFacts
<1>2. e # "off"
  BY DEF Ends, A, B
<1>3. Len(r) \in Nat /\ (Len(r) = 0 => r = <<>>) /\ (r = <<>> => Len(r) = 0)
  BY <1>1
<1> HIDE DEF r
<1>4. CASE Plain(e, q, ik, ok, ic, oc, sw)
  <2>1. CASE sw /\ Len(q) = 1
    <3>1. Head(q).type = NewKeys(e) /\ r = <<>>
      BY <1>1, <1>3, <1>4, <2>1 DEF Plain
    <3>2. Awaited(e, r, e, ok, ic, oc, sw)
      BY <1>4, <2>1, <3>1 DEF Plain, Awaited
    <3> QED
      BY <1>4, <3>1, <3>2 DEF InStep, Plain, r
  <2>2. CASE ~(sw /\ Len(q) = 1)
    <3>1. Head(q).type # NewKeys(e) /\ (sw => r # <<>>)
      BY <1>1, <1>3, <1>4, <2>2 DEF Plain
    <3>2. \A i \in 1..Len(r) : r[i].key = "off" /\ (r[i].type = NewKeys(e) <=> sw /\ i = Len(r))
      <4>1. \A i \in 1..Len(r) : i + 1 = Len(q) <=> i = Len(r)
        BY <1>1
      <4> QED
        BY <1>1, <1>4, <4>1 DEF Plain
    <3>3. Plain(e, r, ik, ok, ic, oc, sw)
      BY <1>4, <3>1, <3>2 DEF Plain
    <3> QED
      BY <1>4, <3>1, <3>3 DEF InStep, Plain, r
  <2> QED
    BY <2>1, <2>2
<1>5. CASE Turning(e, q, ik, ok, ic, oc)
  <2>1. PICK n \in 1..Len(q) :
          /\ \A i \in 1..n : q[i].key = "off" /\ (q[i].type = NewKeys(e) <=> i = n)
          /\ \A i \in (n + 1)..Len(q) : q[i].key = e /\ q[i].ctr = i - n - 1
          /\ oc = Len(q) - n
    BY <1>5 DEF Turning
  <2>2. ik = "off" /\ ok = e /\ ic = 0
    BY <1>5 DEF Turning
  <2>3. n \in Nat /\ n >= 1 /\ n <= Len(q) /\ 1 \in 1..n
    BY <1>1
  <2>4. Head(q).type = NewKeys(e) <=> n = 1
    BY <1>1, <2>1, <2>3
  <2>5. CASE n = 1
    <3>1. \A i \in 1..Len(r) : r[i].key = e /\ r[i].ctr = ic + i - 1
      <4>1. \A i \in 1..Len(r) : i \in Nat /\ i + 1 \in (n + 1)..Len(q) /\ (i + 1) - n - 1 = ic + i - 1
        BY <1>1, <1>3, <2>2, <2>5
      <4> QED
        BY <1>1, <2>1, <4>1
    <3>2. oc = ic + Len(r)
      BY <1>1, <2>1, <2>2, <2>5
    <3>3. Keyed(e, r, e, ok, ic, oc)
      BY <2>2, <3>1, <3>2 DEF Keyed
    <3> QED
      BY <2>2, <2>4, <2>5, <3>3 DEF InStep, r
  <2>6. CASE n # 1
    <3> DEFINE m == n - 1
    <3>1. m \in 1..Len(r) /\ m \in Nat /\ n = m + 1
      BY <1>1, <2>3, <2>6
    <3> HIDE DEF m
    <3>2. \A i \in 1..m : r[i].key = "off" /\ (r[i].type = NewKeys(e) <=> i = m)
      <4>1. \A i \in 1..m : i \in 1..Len(r) /\ i + 1 \in 1..n /\ (i + 1 = n <=> i = m)
        BY <1>1, <1>3, <3>1
      <4> QED
        BY <1>1, <2>1, <4>1
    <3>3. \A i \in (m + 1)..Len(r) : r[i].key = e /\ r[i].ctr = i - m - 1
      <4>1. \A i \in (m + 1)..Len(r) : i \in 1..Len(r) /\ i + 1 \in (n + 1)..Len(q)
                                       /\ (i + 1) - n - 1 = i - m - 1
        BY <1>1, <1>3, <3>1
      <4> QED
        BY <1>1, <2>1, <4>1
    <3>4. oc = Len(r) - m
      BY <1>1, <2>1, <3>1
    <3>5. Turning(e, r, ik, ok, ic, oc)
      BY <2>2, <3>1, <3>2, <3>3, <3>4 DEF Turning
    <3> QED
      BY <2>2, <2>4, <2>6, <3>5 DEF InStep, r
  <2> QED
    BY <2>5, <2>6
<1>6. CASE Keyed(e, q, ik, ok, ic, oc)
  <2>1. \A i \in 1..Len(r) : r[i].key = e /\ r[i].ctr = (ic + 1) + i - 1
    <3>1. \A i \in 1..Len(r) : i \in Nat /\ i + 1 \in 1..Len(q) /\ ic + (i + 1) - 1 = (ic + 1) + i - 1
      BY <1>1, <1>3
    <3> QED
      BY <1>1, <1>6, <3>1 DEF Keyed
  <2>2. oc = (ic + 1) + Len(r)
    BY <1>1, <1>6 DEF Keyed
  <2>3. Keyed(e, r, e, ok, ic + 1, oc)
    BY <1>6, <2>1, <2>2 DEF Keyed
  <2> QED
    BY <1>2, <1>6, <2>3 DEF InStep, Keyed, r
<1>7. CASE Awaited(e, q, ik, ok, ic, oc, sw)
  BY <1>7 DEF Awaited
<1> QED
  BY <1>4, <1>5, <1>6, <1>7 DEF InStep

-----------------------------------------------------------------------------
(* The streams of a state *)

LEMMA StreamTypes ==
  ASSUME TypeOK, NEW e \in Ends
  PROVE  /\ chan[e] \in Seq(Packet) /\ inCtr[e] \in Nat /\ outCtr[e] \in Nat
         /\ (step[e] = "keys") \in BOOLEAN
         /\ Peer(e) \in Ends /\ Peer(e) # e /\ Peer(Peer(e)) = e
BY EndFacts DEF TypeOK

(* The stream to e after its sender has sent a packet. *)
SentTo(e, type, val) ==
  LET s == Peer(e)
  IN /\ chan'[e] = Append(chan[e], Sealed(s, type, val))
     /\ outCtr'[s] = IF outKey[s] = "off" THEN outCtr[s] ELSE outCtr[s] + 1
     /\ outKey'[s] = outKey[s] /\ inKey'[e] = inKey[e] /\ inCtr'[e] = inCtr[e]

LEMMA KeptBySend ==
  ASSUME TypeOK, NEW e \in Ends, StreamInv(e),
         NEW type \in KexTypes \cup {"DATA"}, NEW val \in Nat, SentTo(e, type, val),
         kst'[e] = kst[e],
         outKey[Peer(e)] = "off" =>
           step[Peer(e)] # "keys" /\ (step'[Peer(e)] = "keys" <=> type = NewKeys(e))
  PROVE  StreamInv(e)'
<1> SUFFICES ASSUME kst[e] # "KF_Err"
             PROVE  InStep(e, chan'[e], inKey'[e], outKey'[Peer(e)], inCtr'[e], outCtr'[Peer(e)],
                           step'[Peer(e)] = "keys")
  BY DEF StreamInv, Peer
<1> DEFINE s == Peer(e)
           p == Sealed(s, type, val)
<1>1. /\ chan[e] \in Seq(Packet) /\ inCtr[e] \in Nat /\ outCtr[s] \in Nat /\ s \in Ends
      /\ (step[s] = "keys") \in BOOLEAN /\ (step'[s] = "keys") \in BOOLEAN
  BY StreamTypes
<1>2. /\ p \in Packet /\ p.type = type /\ p.key = outKey[s]
      /\ outKey[s] # "off" => p.ctr = outCtr[s]
  BY <1>1, SealedType
<1>3. InStep(e, chan[e], inKey[e], outKey[s], inCtr[e], outCtr[s], step[s] = "keys")
  BY DEF StreamInv
<1>4. /\ chan'[e] = Append(chan[e], p)
      /\ outCtr'[s] = IF outKey[s] = "off" THEN outCtr[s] ELSE outCtr[s] + 1
      /\ outKey'[s] = outKey[s] /\ inKey'[e] = inKey[e] /\ inCtr'[e] = inCtr[e]
      /\ outKey[s] = "off" => step[s] # "keys" /\ (step'[s] = "keys" <=> type = NewKeys(e))
  BY DEF SentTo
<1> HIDE DEF s, p
<1>5. InStep(e, Append(chan[e], p), inKey[e], outKey[s], inCtr[e],
             IF outKey[s] = "off" THEN outCtr[s] ELSE outCtr[s] + 1, step'[s] = "keys")
  <2> DEFINE sw == step[s] = "keys"
             sw2 == step'[s] = "keys"
  <2>1. /\ sw \in BOOLEAN /\ sw2 \in BOOLEAN
        /\ InStep(e, chan[e], inKey[e], outKey[s], inCtr[e], outCtr[s], sw)
        /\ outKey[s] = "off" => ~sw /\ (sw2 <=> p.type = NewKeys(e))
    BY <1>1, <1>2, <1>3, <1>4
  <2> HIDE DEF sw, sw2
  <2>2. InStep(e, Append(chan[e], p), inKey[e], outKey[s], inCtr[e],
               IF outKey[s] = "off" THEN outCtr[s] ELSE outCtr[s] + 1, sw2)
    BY <1>1, <1>2, <2>1, StreamSent
  <2> QED
    BY <2>2 DEF sw2
<1>6. InStep(e, chan'[e], inKey'[e], outKey'[s], inCtr'[e], outCtr'[s], step'[s] = "keys")
  BY <1>4, <1>5
<1> QED
  BY <1>6 DEF s

(* The stream to e after e has taken a packet, or failed. *)
TakenBy(e) ==
  /\ Takes(e)
  /\ chan'[e] = Tail(chan[e])
  /\ inCtr'[e] = IF inKey[e] = "off" THEN inCtr[e] ELSE inCtr[e] + 1
  /\ outKey'[Peer(e)] = outKey[Peer(e)] /\ outCtr'[Peer(e)] = outCtr[Peer(e)]
  /\ step'[Peer(e)] = step[Peer(e)]

LEMMA KeptByTake ==
  ASSUME TypeOK, NEW e \in Ends, StreamInv(e), TakenBy(e), kst[e] # "KF_Err",
         inKey'[e] = IF Head(chan[e]).type = NewKeys(e) THEN e ELSE inKey[e]
  PROVE  StreamInv(e)'
<1> SUFFICES InStep(e, chan'[e], inKey'[e], outKey'[Peer(e)], inCtr'[e], outCtr'[Peer(e)],
                    step'[Peer(e)] = "keys")
  BY DEF StreamInv, Peer
<1> DEFINE s == Peer(e)
           sw == step[s] = "keys"
<1>1. /\ chan[e] \in Seq(Packet) /\ inCtr[e] \in Nat /\ outCtr[s] \in Nat /\ s \in Ends
      /\ sw \in BOOLEAN
  BY StreamTypes
<1>2. InStep(e, chan[e], inKey[e], outKey[s], inCtr[e], outCtr[s], sw)
  BY DEF StreamInv
<1>3. /\ chan[e] # <<>>
      /\ chan'[e] = Tail(chan[e])
      /\ inCtr'[e] = IF inKey[e] = "off" THEN inCtr[e] ELSE inCtr[e] + 1
      /\ outKey'[s] = outKey[s] /\ outCtr'[s] = outCtr[s] /\ step'[s] = step[s]
  BY DEF TakenBy, Takes
<1> HIDE DEF s, sw
<1>4. InStep(e, Tail(chan[e]), IF Head(chan[e]).type = NewKeys(e) THEN e ELSE inKey[e], outKey[s],
             IF inKey[e] = "off" THEN inCtr[e] ELSE inCtr[e] + 1, outCtr[s], sw)
  BY <1>1, <1>2, <1>3, StreamTaken
<1>5. InStep(e, chan'[e], inKey'[e], outKey'[s], inCtr'[e], outCtr'[s], step'[s] = "keys")
  BY <1>3, <1>4 DEF sw
<1> QED
  BY <1>5 DEF s

(* The stream to e after a step of somebody else. *)
LEMMA KeptByOther ==
  ASSUME NEW e \in Ends, StreamInv(e),
         chan'[e] = chan[e], inKey'[e] = inKey[e], inCtr'[e] = inCtr[e],
         outKey'[Peer(e)] = outKey[Peer(e)], outCtr'[Peer(e)] = outCtr[Peer(e)],
         (step'[Peer(e)] = "keys") <=> (step[Peer(e)] = "keys"),
         kst[e] = "KF_Err" => kst'[e] = "KF_Err"
  PROVE  StreamInv(e)'
<1> SUFFICES ASSUME kst[e] # "KF_Err"
             PROVE  InStep(e, chan'[e], inKey'[e], outKey'[Peer(e)], inCtr'[e], outCtr'[Peer(e)],
                           step'[Peer(e)] = "keys")
  BY DEF StreamInv, Peer
<1>1. InStep(e, chan[e], inKey[e], outKey[Peer(e)], inCtr[e], outCtr[Peer(e)], step[Peer(e)] = "keys")
  BY DEF StreamInv
<1>2. (step'[Peer(e)] = "keys") = (step[Peer(e)] = "keys")
  OBVIOUS
<1> QED
  BY <1>1, <1>2

(* The stream to e after its sender has switched to the key. *)
LEMMA KeptBySwitch ==
  ASSUME TypeOK, NEW e \in Ends, StreamInv(e),
         chan'[e] = chan[e], inKey'[e] = inKey[e], inCtr'[e] = inCtr[e],
         step[Peer(e)] = "keys", step'[Peer(e)] # "keys",
         outKey'[Peer(e)] = e, outCtr'[Peer(e)] = outCtr[Peer(e)],
         kst'[e] = kst[e]
  PROVE  StreamInv(e)'
<1> SUFFICES ASSUME kst[e] # "KF_Err"
             PROVE  InStep(e, chan'[e], inKey'[e], outKey'[Peer(e)], inCtr'[e], outCtr'[Peer(e)],
                           step'[Peer(e)] = "keys")
  BY DEF StreamInv, Peer
<1> DEFINE s == Peer(e)
<1>1. chan[e] \in Seq(Packet) /\ inCtr[e] \in Nat /\ outCtr[s] \in Nat
  BY StreamTypes
<1>2. InStep(e, chan[e], inKey[e], outKey[s], inCtr[e], outCtr[s], TRUE)
  <2>1. (step[s] = "keys") = TRUE
    OBVIOUS
  <2>2. InStep(e, chan[e], inKey[e], outKey[s], inCtr[e], outCtr[s], step[s] = "keys")
    BY DEF StreamInv
  <2> QED
    BY <2>1, <2>2
<1>3. /\ (step'[s] = "keys") = FALSE
      /\ chan'[e] = chan[e] /\ inKey'[e] = inKey[e] /\ inCtr'[e] = inCtr[e]
      /\ outKey'[s] = e /\ outCtr'[s] = outCtr[s]
  OBVIOUS
<1> HIDE DEF s
<1>4. InStep(e, chan[e], inKey[e], e, inCtr[e], outCtr[s], FALSE)
  BY <1>1, <1>2, StreamSwitched
<1>5. InStep(e, chan'[e], inKey'[e], outKey'[s], inCtr'[e], outCtr'[s], step'[s] = "keys")
  BY <1>3, <1>4
<1> QED
  BY <1>5 DEF s

-----------------------------------------------------------------------------
(* What a step does to both streams *)

(* A state in which the types of the channels and counters are right, both    *)
(* streams are in step, and nobody has sent the identity by mistake.          *)
StreamsKept ==
  /\ chan' \in [Ends -> Seq(Packet)] /\ inCtr' \in [Ends -> Nat] /\ outCtr' \in [Ends -> Nat]
  /\ \A e \in Ends : StreamInv(e)'

LEMMA BothEnds ==
  ASSUME NEW e \in Ends
  PROVE  /\ Peer(e) \in Ends /\ Peer(e) # e /\ Peer(Peer(e)) = e
         /\ \A f \in Ends : f = e \/ f = Peer(e)
BY DEF Ends, Peer, A, B

LEMMA ContainsFacts ==
  ASSUME NEW q \in Seq(Packet), NEW type
  PROVE  /\ \A p \in Packet : Contains(Append(q, p), type) => Contains(q, type) \/ p.type = type
         /\ q # <<>> => (Contains(Tail(q), type) => Contains(q, type))
         /\ q # <<>> => Contains(q, Head(q).type)
<1>1. ASSUME NEW p \in Packet, Contains(Append(q, p), type)
      PROVE  Contains(q, type) \/ p.type = type
  <2>1. /\ Len(q) \in Nat /\ Len(Append(q, p)) = Len(q) + 1
        /\ \A i \in 1..Len(q) : Append(q, p)[i] = q[i]
        /\ Append(q, p)[Len(q) + 1] = p
    BY AppendFacts
  <2>2. \A i \in 1..Len(Append(q, p)) : i \in 1..Len(q) \/ i = Len(q) + 1
    BY <2>1
  <2> QED
    BY <1>1, <2>1, <2>2 DEF Contains
<1>2. ASSUME q # <<>>
      PROVE  (Contains(Tail(q), type) => Contains(q, type)) /\ Contains(q, Head(q).type)
  <2>1. /\ Len(q) \in Nat /\ Len(q) >= 1 /\ Head(q) = q[1]
        /\ \A i \in 1..Len(Tail(q)) : i + 1 \in 1..Len(q) /\ Tail(q)[i] = q[i + 1]
    BY <1>2, TailFacts
  <2>2. 1 \in 1..Len(q)
    BY <2>1
  <2> QED
    BY <2>1, <2>2 DEF Contains
<1> QED
  BY <1>1, <1>2

(* e takes a packet and sends none. *)
LEMMA TakeOnly ==
  ASSUME TypeOK, NEW e \in Ends, \A f \in Ends : StreamInv(f),
         Takes(e), Taken(e), Consumed(e),
         UNCHANGED <<outKey, outCtr, step>>,
         \A f \in Ends \ {e} : kst'[f] = kst[f] /\ inKey'[f] = inKey[f],
         \/ kst'[e] = "KF_Err"
         \/ kst[e] # "KF_Err" /\ inKey'[e] = IF Head(chan[e]).type = NewKeys(e) THEN e ELSE inKey[e]
  PROVE  /\ StreamsKept
         /\ \A f \in Ends : \A type : Contains(chan'[f], type) => Contains(chan[f], type)
<1> DEFINE s == Peer(e)
<1>1. s \in Ends /\ s # e /\ Peer(s) = e /\ \A f \in Ends : f = e \/ f = s
  BY BothEnds
<1>2. chan[e] \in Seq(Packet) /\ chan[s] \in Seq(Packet) /\ chan[e] # <<>> /\ Tail(chan[e]) \in Seq(Packet)
  BY <1>1, TailFacts DEF TypeOK, Takes
<1>3. /\ chan' \in [Ends -> Seq(Packet)]
      /\ chan'[e] = Tail(chan[e]) /\ chan'[s] = chan[s]
  BY <1>1, <1>2 DEF Consumed, TypeOK
<1>4. /\ inCtr' \in [Ends -> Nat]
      /\ inCtr'[e] = IF inKey[e] = "off" THEN inCtr[e] ELSE inCtr[e] + 1
      /\ inCtr'[s] = inCtr[s]
  <2>1. inCtr[e] \in Nat /\ inCtr[e] + 1 \in Nat /\ inCtr \in [Ends -> Nat]
    BY DEF TypeOK
  <2> QED
    BY <1>1, <2>1 DEF Taken
<1>5. StreamInv(e)'
  <2>1. CASE kst'[e] = "KF_Err"
    BY <2>1 DEF StreamInv
  <2>2. CASE kst[e] # "KF_Err" /\ inKey'[e] = IF Head(chan[e]).type = NewKeys(e) THEN e ELSE inKey[e]
    <3>1. TakenBy(e)
      BY <1>3, <1>4 DEF TakenBy
    <3> QED
      BY <2>2, <3>1, KeptByTake
  <2> QED
    BY <2>1, <2>2
<1>6. StreamInv(s)'
  <2>1. /\ chan'[s] = chan[s] /\ inKey'[s] = inKey[s] /\ inCtr'[s] = inCtr[s]
        /\ outKey'[Peer(s)] = outKey[Peer(s)] /\ outCtr'[Peer(s)] = outCtr[Peer(s)]
        /\ step'[Peer(s)] = step[Peer(s)] /\ kst'[s] = kst[s]
    BY <1>1, <1>3, <1>4
  <2> QED
    BY <1>1, <2>1, KeptByOther
<1>7. \A f \in Ends : \A type : Contains(chan'[f], type) => Contains(chan[f], type)
  <2>1. \A type : Contains(Tail(chan[e]), type) => Contains(chan[e], type)
    BY <1>2, ContainsFacts
  <2> QED
    BY <1>1, <1>3, <2>1
<1>8. outCtr' \in [Ends -> Nat]
  BY DEF TypeOK
<1> QED
  BY <1>1, <1>3, <1>4, <1>5, <1>6, <1>7, <1>8 DEF StreamsKept

(* e sends a packet and takes none. *)
LEMMA SendOnly ==
  ASSUME TypeOK, NEW e \in Ends, \A f \in Ends : StreamInv(f),
         NEW type \in KexTypes \cup {"DATA"}, NEW val \in Nat, SendInternal(e, type, val),
         UNCHANGED <<inKey, outKey, inCtr>>,
         \A f \in Ends \ {e} : kst'[f] = kst[f] /\ step'[f] = step[f],
         kst[e] = "KF_Err" => kst'[e] = "KF_Err",
         outKey[e] = "off" => step[e] # "keys" /\ (step'[e] = "keys" <=> type = NewKeys(Peer(e)))
  PROVE  /\ StreamsKept
         /\ \A f \in Ends : \A t : Contains(chan'[f], t) => Contains(chan[f], t) \/ (f = Peer(e) /\ t = type)
<1> DEFINE s == Peer(e)
           p == Sealed(e, type, val)
<1>1. s \in Ends /\ s # e /\ Peer(s) = e /\ \A f \in Ends : f = e \/ f = s
  BY BothEnds
<1>2. p \in Packet /\ p.type = type
  BY SealedType
<1>3. chan[s] \in Seq(Packet) /\ Append(chan[s], p) \in Seq(Packet) /\ chan \in [Ends -> Seq(Packet)]
  BY <1>1, <1>2, AppendFacts DEF TypeOK
<1>4. chan' = [chan EXCEPT ![s] = Append(chan[s], p)]
  BY DEF SendInternal
<1> HIDE DEF p
<1>5. /\ chan' \in [Ends -> Seq(Packet)]
      /\ chan'[s] = Append(chan[s], p) /\ chan'[e] = chan[e]
  BY <1>1, <1>3, <1>4
<1>6. /\ outCtr' \in [Ends -> Nat]
      /\ outCtr'[e] = IF outKey[e] = "off" THEN outCtr[e] ELSE outCtr[e] + 1
      /\ outCtr'[s] = outCtr[s]
  <2>1. outCtr[e] \in Nat /\ outCtr[e] + 1 \in Nat /\ outCtr \in [Ends -> Nat]
    BY DEF TypeOK
  <2> QED
    BY <1>1, <2>1 DEF SendInternal
<1>7. StreamInv(s)'
  <2>1. SentTo(s, type, val)
    BY <1>1, <1>5, <1>6 DEF SentTo, p
  <2>2. outKey[Peer(s)] = "off" => step[Peer(s)] # "keys" /\ (step'[Peer(s)] = "keys" <=> type = NewKeys(s))
    BY <1>1
  <2> QED
    BY <1>1, <2>1, <2>2, KeptBySend
<1>8. StreamInv(e)'
  <2>1. /\ chan'[e] = chan[e] /\ inKey'[e] = inKey[e] /\ inCtr'[e] = inCtr[e]
        /\ outKey'[s] = outKey[s] /\ outCtr'[s] = outCtr[s] /\ step'[s] = step[s]
    BY <1>1, <1>5, <1>6
  <2> QED
    BY <1>1, <2>1, KeptByOther
<1>9. \A f \in Ends : \A t : Contains(chan'[f], t) => Contains(chan[f], t) \/ (f = s /\ t = type)
  <2>1. \A t : Contains(Append(chan[s], p), t) => Contains(chan[s], t) \/ t = type
    BY <1>2, <1>3, ContainsFacts
  <2> QED
    BY <1>1, <1>5, <2>1
<1>10. inCtr' \in [Ends -> Nat]
  BY DEF TypeOK
<1> QED
  BY <1>1, <1>5, <1>6, <1>7, <1>8, <1>9, <1>10 DEF StreamsKept

(* e takes a packet and answers. *)
LEMMA TakeAndAnswer ==
  ASSUME TypeOK, NEW e \in Ends, \A f \in Ends : StreamInv(f),
         NEW type \in KexTypes \cup {"DATA"}, NEW val \in Nat, NEW state,
         Takes(e), Taken(e), Answers(e, type, val, state),
         UNCHANGED outKey,
         \A f \in Ends \ {e} : step'[f] = step[f] /\ inKey'[f] = inKey[f],
         kst[e] # "KF_Err",
         inKey'[e] = IF Head(chan[e]).type = NewKeys(e) THEN e ELSE inKey[e],
         outKey[e] = "off" => (step'[e] = "keys" <=> type = NewKeys(Peer(e)))
  PROVE  /\ StreamsKept
         /\ \A f \in Ends : \A t : Contains(chan'[f], t) => Contains(chan[f], t) \/ (f = Peer(e) /\ t = type)
<1> DEFINE s == Peer(e)
           p == Sealed(e, type, val)
<1>1. s \in Ends /\ s # e /\ Peer(s) = e /\ \A f \in Ends : f = e \/ f = s
  BY BothEnds
<1>2. p \in Packet /\ p.type = type
  BY SealedType
<1>3. /\ chan[s] \in Seq(Packet) /\ Append(chan[s], p) \in Seq(Packet) /\ chan \in [Ends -> Seq(Packet)]
      /\ chan[e] \in Seq(Packet) /\ chan[e] # <<>> /\ Tail(chan[e]) \in Seq(Packet)
  BY <1>1, <1>2, AppendFacts, TailFacts DEF TypeOK, Takes
<1>4. chan' = [chan EXCEPT ![e] = Tail(chan[e]), ![s] = Append(chan[s], p)]
  BY <1>1, <1>3 DEF Answers
<1>5. kst'[s] = kst[s] /\ step[e] = "none"
  BY <1>1 DEF Answers, Takes, TypeOK
<1> HIDE DEF p
<1>6. /\ chan' \in [Ends -> Seq(Packet)]
      /\ chan'[s] = Append(chan[s], p) /\ chan'[e] = Tail(chan[e])
  BY <1>1, <1>3, <1>4
<1>7. /\ outCtr' \in [Ends -> Nat]
      /\ outCtr'[e] = IF outKey[e] = "off" THEN outCtr[e] ELSE outCtr[e] + 1
      /\ outCtr'[s] = outCtr[s]
  <2>1. outCtr[e] \in Nat /\ outCtr[e] + 1 \in Nat /\ outCtr \in [Ends -> Nat]
    BY DEF TypeOK
  <2> QED
    BY <1>1, <2>1 DEF Answers
<1>8. /\ inCtr' \in [Ends -> Nat]
      /\ inCtr'[e] = IF inKey[e] = "off" THEN inCtr[e] ELSE inCtr[e] + 1
      /\ inCtr'[s] = inCtr[s]
  <2>1. inCtr[e] \in Nat /\ inCtr[e] + 1 \in Nat /\ inCtr \in [Ends -> Nat]
    BY DEF TypeOK
  <2> QED
    BY <1>1, <2>1 DEF Taken
<1>9. StreamInv(s)'
  <2>1. SentTo(s, type, val)
    BY <1>1, <1>6, <1>7, <1>8 DEF SentTo, p
  <2>2. outKey[Peer(s)] = "off" => step[Peer(s)] # "keys" /\ (step'[Peer(s)] = "keys" <=> type = NewKeys(s))
    BY <1>1, <1>5
  <2> QED
    BY <1>1, <1>5, <2>1, <2>2, KeptBySend
<1>10. StreamInv(e)'
  <2>1. TakenBy(e)
    BY <1>1, <1>6, <1>7, <1>8 DEF TakenBy
  <2> QED
    BY <2>1, KeptByTake
<1>11. \A f \in Ends : \A t : Contains(chan'[f], t) => Contains(chan[f], t) \/ (f = s /\ t = type)
  <2>1. \A t : Contains(Append(chan[s], p), t) => Contains(chan[s], t) \/ t = type
    BY <1>2, <1>3, ContainsFacts
  <2>2. \A t : Contains(Tail(chan[e]), t) => Contains(chan[e], t)
    BY <1>3, ContainsFacts
  <2> QED
    BY <1>1, <1>6, <2>1, <2>2
<1> QED
  BY <1>1, <1>6, <1>7, <1>8, <1>9, <1>10, <1>11 DEF StreamsKept

(* e uses its new outbound key from now on. *)
LEMMA SwitchOnly ==
  ASSUME TypeOK, NEW e \in Ends, \A f \in Ends : StreamInv(f),
         UNCHANGED <<chan, inKey, inCtr, outCtr>>,
         step[e] = "keys", step'[e] # "keys",
         outKey' = [outKey EXCEPT ![e] = Peer(e)],
         \A f \in Ends \ {e} : kst'[f] = kst[f] /\ step'[f] = step[f],
         kst[e] = "KF_Err" => kst'[e] = "KF_Err"
  PROVE  StreamsKept
<1> DEFINE s == Peer(e)
<1>1. s \in Ends /\ s # e /\ Peer(s) = e /\ \A f \in Ends : f = e \/ f = s
  BY BothEnds
<1>2. outKey'[e] = s /\ outKey'[s] = outKey[s]
  BY <1>1 DEF TypeOK
<1>3. StreamInv(s)'
  <2>1. /\ chan'[s] = chan[s] /\ inKey'[s] = inKey[s] /\ inCtr'[s] = inCtr[s]
        /\ step[Peer(s)] = "keys" /\ step'[Peer(s)] # "keys"
        /\ outKey'[Peer(s)] = s /\ outCtr'[Peer(s)] = outCtr[Peer(s)]
        /\ kst'[s] = kst[s]
    BY <1>1, <1>2
  <2> QED
    BY <1>1, <2>1, KeptBySwitch
<1>4. StreamInv(e)'
  <2>1. outKey'[s] = outKey[s] /\ outCtr'[s] = outCtr[s] /\ step'[s] = step[s]
    BY <1>1, <1>2
  <2> QED
    BY <1>1, <2>1, KeptByOther
<1> QED
  BY <1>1, <1>3, <1>4 DEF StreamsKept, TypeOK

(* A step that does not touch the streams. *)
LEMMA StreamsUntouched ==
  ASSUME TypeOK, \A f \in Ends : StreamInv(f),
         UNCHANGED <<chan, inKey, outKey, inCtr, outCtr, step, kst>>
  PROVE  StreamsKept
<1>1. \A f \in Ends : StreamInv(f)'
  BY KeptByOther
<1> QED
  BY <1>1 DEF StreamsKept, TypeOK

-----------------------------------------------------------------------------
(* The actions *)

(* The types of a step, of which the lemmas above give the streams. *)
LEMMA TypesKept ==
  ASSUME TypeOK, StreamsKept, UNCHANGED config,
         kst' \in [Ends -> KexStates] /\ step' \in [Ends -> Steps] /\ link' \in [Ends -> LinkStates],
         /\ inKey' \in [Ends -> Key] /\ outKey' \in [Ends -> Key]
         /\ lock' \in [Ends -> BOOLEAN] /\ ready' \in [Ends -> BOOLEAN],
         sent' \in [Ends -> Seq(Nat)] /\ delivered' \in [Ends -> Seq(Nat)]
  PROVE  TypeOK'
<1>1. major' = major /\ trusts' = trusts /\ early' = early
  BY DEF config
<1> QED
  BY <1>1 DEF TypeOK, StreamsKept

LEMMA MajorFacts ==
  ASSUME TypeOK
  PROVE  \A e \in Ends : major[e] \in Nat
<1>1. \A e \in Ends : major[e] \in {1, 2}
  BY DEF TypeOK
<1> QED
  BY <1>1

(* The client begins: init_kex(). *)
LEMMA InitKexKeeps ==
  ASSUME IInv, InitKex
  PROVE  IInv'
<1>0. TypeOK /\ LockInv /\ TrustInv /\ EveryPacketDecrypts /\ \A f \in Ends : StreamInv(f)
  BY DEF IInv
<1>1. /\ StreamsKept
      /\ \A f \in Ends : \A t :
           Contains(chan'[f], t) => Contains(chan[f], t) \/ (f = Peer(A) /\ t = "C_VERSION")
  <2>1. "C_VERSION" \in KexTypes \cup {"DATA"} /\ major[A] \in Nat
    <3>1. major[A] \in Nat
      BY <1>0, MajorFacts, EndFacts
    <3> QED
      BY <3>1 DEF KexTypes
  <2>2. /\ SendInternal(A, "C_VERSION", major[A])
        /\ UNCHANGED <<inKey, outKey, inCtr>>
        /\ \A f \in Ends \ {A} : kst'[f] = kst[f] /\ step'[f] = step[f]
        /\ kst[A] = "KF_Err" => kst'[A] = "KF_Err"
        /\ outKey[A] = "off" => step[A] # "keys" /\ (step'[A] = "keys" <=> "C_VERSION" = NewKeys(Peer(A)))
    BY <1>0, EndFacts DEF InitKex, keys, NewKeys, TypeOK, LockInv
  <2> QED
    BY <1>0, <2>1, <2>2, SendOnly, EndFacts
<1> USE EndFacts DEF InitKex, SendInternal, config, keys, appVars
<1>2. TypeOK'
  <2>1. /\ kst' \in [Ends -> KexStates] /\ step' \in [Ends -> Steps] /\ link' \in [Ends -> LinkStates]
    BY <1>0 DEF TypeOK, KexStates, Steps, LinkStates
  <2>2. /\ inKey' \in [Ends -> Key] /\ outKey' \in [Ends -> Key]
        /\ lock' \in [Ends -> BOOLEAN] /\ ready' \in [Ends -> BOOLEAN]
    BY <1>0 DEF TypeOK, Key
  <2>3. sent' \in [Ends -> Seq(Nat)] /\ delivered' \in [Ends -> Seq(Nat)]
    BY <1>0 DEF TypeOK
  <2>4. UNCHANGED config
    BY <1>0
  <2> QED
    BY ONLY <1>0, <1>1, <2>1, <2>2, <2>3, <2>4, TypesKept
<1>3. LockInv'
  BY <1>0 DEF TypeOK, LockInv
<1>4. TrustInv'
  BY <1>0, <1>1 DEF TypeOK, TrustInv, OnlyKnownRemotes
<1>5. EveryPacketDecrypts'
  BY <1>0 DEF EveryPacketDecrypts
<1> QED
  BY <1>1, <1>2, <1>3, <1>4, <1>5 DEF IInv, StreamsKept

(* recv() of the client: the version of the server is answered, or fails. *)
LEMMA ServerVersionKeeps ==
  ASSUME IInv, RecvServerVersion
  PROVE  IInv'
<1>0. TypeOK /\ LockInv /\ TrustInv /\ EveryPacketDecrypts /\ \A f \in Ends : StreamInv(f)
  BY DEF IInv
<1>1. /\ StreamsKept
      /\ \A f \in Ends : \A t :
           Contains(chan'[f], t) => Contains(chan[f], t) \/ (f = Peer(A) /\ t = "C_HELLO")
  <2>1. "C_HELLO" \in KexTypes \cup {"DATA"} /\ 0 \in Nat
    <3>1. 0 \in Nat
      BY <1>0, EndFacts DEF TypeOK
    <3> QED
      BY <3>1 DEF KexTypes
  <2>2. CASE Next1(A).val = 1
    <3>1. /\ Takes(A) /\ Taken(A) /\ Answers(A, "C_HELLO", 0, "K1_CHello")
          /\ UNCHANGED <<outKey, step, inKey>>
          /\ kst[A] # "KF_Err"
          /\ inKey'[A] = IF Head(chan[A]).type = NewKeys(A) THEN A ELSE inKey[A]
          /\ outKey[A] = "off" => (step'[A] = "keys" <=> "C_HELLO" = NewKeys(Peer(A)))
      BY <1>0, <2>2, EndFacts DEF RecvServerVersion, TakesKex, keys, Continue, Takes, Next1, NewKeys, TypeOK
    <3> QED
      BY <1>0, <2>1, <3>1, TakeAndAnswer, EndFacts
  <2>3. CASE ~(Next1(A).val = 1)
    <3>1. /\ Takes(A) /\ Taken(A) /\ Consumed(A)
          /\ UNCHANGED <<outKey, outCtr, step>>
          /\ \A f \in Ends \ {A} : kst'[f] = kst[f] /\ inKey'[f] = inKey[f]
          /\ kst'[A] = "KF_Err"
      BY <1>0, <2>3, EndFacts DEF RecvServerVersion, TakesKex, keys, Continue, Fails, TypeOK
    <3> QED
      BY <1>0, <3>1, TakeOnly, EndFacts
  <2> QED
    BY <2>2, <2>3
<1> USE EndFacts DEF RecvServerVersion, TakesKex, Takes, Answers, config, keys, appVars, Fails, Close
<1>2. TypeOK'
  <2>1. /\ kst' \in [Ends -> KexStates] /\ step' \in [Ends -> Steps] /\ link' \in [Ends -> LinkStates]
    BY <1>0 DEF TypeOK, KexStates, Steps, LinkStates
  <2>2. /\ inKey' \in [Ends -> Key] /\ outKey' \in [Ends -> Key]
        /\ lock' \in [Ends -> BOOLEAN] /\ ready' \in [Ends -> BOOLEAN]
    BY <1>0 DEF TypeOK, Key
  <2>3. sent' \in [Ends -> Seq(Nat)] /\ delivered' \in [Ends -> Seq(Nat)]
    BY <1>0 DEF TypeOK
  <2>4. UNCHANGED config
    BY <1>0
  <2> QED
    BY ONLY <1>0, <1>1, <2>1, <2>2, <2>3, <2>4, TypesKept
<1>3. LockInv'
  <2>1. UNCHANGED <<lock, step>> /\ \A f \in Ends : step[f] = "none" \/ kst'[f] = kst[f]
    BY <1>0 DEF TypeOK
  <2> QED
    BY ONLY <1>0, <2>1 DEF LockInv
<1>4. TrustInv'
  BY <1>0, <1>1 DEF TypeOK, TrustInv, OnlyKnownRemotes
<1>5. EveryPacketDecrypts'
  BY <1>0 DEF EveryPacketDecrypts
<1> QED
  BY <1>1, <1>2, <1>3, <1>4, <1>5 DEF IInv, StreamsKept

(* The key of the server is a known remote, or the exchange fails. *)
LEMMA ServerHelloKeeps ==
  ASSUME IInv, RecvServerHello
  PROVE  IInv'
<1>0. TypeOK /\ LockInv /\ TrustInv /\ EveryPacketDecrypts /\ \A f \in Ends : StreamInv(f)
  BY DEF IInv
<1>1. /\ StreamsKept
      /\ \A f \in Ends : \A t : Contains(chan'[f], t) => Contains(chan[f], t)
  <2>1. /\ Takes(A) /\ Taken(A) /\ Consumed(A)
        /\ UNCHANGED <<outKey, outCtr, step>>
        /\ \A f \in Ends \ {A} : kst'[f] = kst[f] /\ inKey'[f] = inKey[f]
        /\ \/ kst'[A] = "KF_Err"
           \/ kst[A] # "KF_Err" /\ inKey'[A] = IF Head(chan[A]).type = NewKeys(A) THEN A ELSE inKey[A]
    BY <1>0, EndFacts DEF RecvServerHello, TakesKex, Next1, keys, Fails, Close, NewKeys, TypeOK
  <2> QED
    BY <1>0, <2>1, TakeOnly, EndFacts
<1> USE EndFacts DEF RecvServerHello, TakesKex, Takes, KnownRemote, config, keys, appVars, Fails, Close
<1>2. TypeOK'
  <2>1. /\ kst' \in [Ends -> KexStates] /\ step' \in [Ends -> Steps] /\ link' \in [Ends -> LinkStates]
    BY <1>0 DEF TypeOK, KexStates, Steps, LinkStates
  <2>2. /\ inKey' \in [Ends -> Key] /\ outKey' \in [Ends -> Key]
        /\ lock' \in [Ends -> BOOLEAN] /\ ready' \in [Ends -> BOOLEAN]
    BY <1>0 DEF TypeOK, Key
  <2>3. sent' \in [Ends -> Seq(Nat)] /\ delivered' \in [Ends -> Seq(Nat)]
    BY <1>0 DEF TypeOK
  <2>4. UNCHANGED config
    BY <1>0
  <2> QED
    BY ONLY <1>0, <1>1, <2>1, <2>2, <2>3, <2>4, TypesKept
<1>3. LockInv'
  BY <1>0 DEF TypeOK, LockInv
<1>4. TrustInv'
  BY <1>0, <1>1 DEF TypeOK, TrustInv, OnlyKnownRemotes
<1>5. EveryPacketDecrypts'
  BY <1>0 DEF EveryPacketDecrypts
<1> QED
  BY <1>1, <1>2, <1>3, <1>4, <1>5 DEF IInv, StreamsKept

(* The client decrypts with the new key, and answers under the old one. *)
LEMMA ServerNewKeysKeeps ==
  ASSUME IInv, RecvServerNewKeys
  PROVE  IInv'
<1>0. TypeOK /\ LockInv /\ TrustInv /\ EveryPacketDecrypts /\ \A f \in Ends : StreamInv(f)
  BY DEF IInv
<1>1. /\ StreamsKept
      /\ \A f \in Ends : \A t :
           Contains(chan'[f], t) => Contains(chan[f], t) \/ (f = Peer(A) /\ t = "C_NEWKEYS")
  <2>1. "C_NEWKEYS" \in KexTypes \cup {"DATA"} /\ 0 \in Nat
    <3>1. 0 \in Nat
      BY <1>0, EndFacts DEF TypeOK
    <3> QED
      BY <3>1 DEF KexTypes
  <2>2. /\ Takes(A) /\ Taken(A) /\ Answers(A, "C_NEWKEYS", 0, "K3_SEnc")
        /\ UNCHANGED outKey
        /\ \A f \in Ends \ {A} : step'[f] = step[f] /\ inKey'[f] = inKey[f]
        /\ kst[A] # "KF_Err"
        /\ inKey'[A] = IF Head(chan[A]).type = NewKeys(A) THEN A ELSE inKey[A]
        /\ outKey[A] = "off" => (step'[A] = "keys" <=> "C_NEWKEYS" = NewKeys(Peer(A)))
    BY <1>0, EndFacts DEF RecvServerNewKeys, TakesKex, Takes, Next1, Continue, keys, NewKeys, TypeOK
  <2> QED
    BY <1>0, <2>1, <2>2, TakeAndAnswer, EndFacts
<1> USE EndFacts DEF RecvServerNewKeys, TakesKex, Takes, Answers, Continue, Key, config, keys, appVars
<1>2. TypeOK'
  <2>1. /\ kst' \in [Ends -> KexStates] /\ step' \in [Ends -> Steps] /\ link' \in [Ends -> LinkStates]
    BY <1>0 DEF TypeOK, KexStates, Steps, LinkStates
  <2>2. /\ inKey' \in [Ends -> Key] /\ outKey' \in [Ends -> Key]
        /\ lock' \in [Ends -> BOOLEAN] /\ ready' \in [Ends -> BOOLEAN]
    BY <1>0 DEF TypeOK, Key
  <2>3. sent' \in [Ends -> Seq(Nat)] /\ delivered' \in [Ends -> Seq(Nat)]
    BY <1>0 DEF TypeOK
  <2>4. UNCHANGED config
    BY <1>0
  <2> QED
    BY ONLY <1>0, <1>1, <2>1, <2>2, <2>3, <2>4, TypesKept
<1>3. LockInv'
  BY <1>0 DEF TypeOK, LockInv
<1>4. TrustInv'
  BY <1>0, <1>1 DEF TypeOK, TrustInv, OnlyKnownRemotes
<1>5. EveryPacketDecrypts'
  BY <1>0 DEF EveryPacketDecrypts
<1> QED
  BY <1>1, <1>2, <1>3, <1>4, <1>5 DEF IInv, StreamsKept

(* The client encrypts with the new key. *)
LEMMA ClientKeysKeeps ==
  ASSUME IInv, ClientKeys
  PROVE  IInv'
<1>0. TypeOK /\ LockInv /\ TrustInv /\ EveryPacketDecrypts /\ \A f \in Ends : StreamInv(f)
  BY DEF IInv
<1>1. StreamsKept /\ UNCHANGED chan
  <2>1. /\ UNCHANGED <<chan, inKey, inCtr, outCtr>>
        /\ step[A] = "keys" /\ step'[A] # "keys"
        /\ outKey' = [outKey EXCEPT ![A] = Peer(A)]
        /\ \A f \in Ends \ {A} : kst'[f] = kst[f] /\ step'[f] = step[f]
        /\ kst[A] = "KF_Err" => kst'[A] = "KF_Err"
    BY <1>0, EndFacts DEF ClientKeys, Continue, LockInv, TypeOK
  <2> QED
    BY <1>0, <2>1, SwitchOnly, EndFacts
<1> USE EndFacts DEF ClientKeys, Continue, Key, config, keys, appVars
<1>2. TypeOK'
  <2>1. /\ kst' \in [Ends -> KexStates] /\ step' \in [Ends -> Steps] /\ link' \in [Ends -> LinkStates]
    BY <1>0 DEF TypeOK, KexStates, Steps, LinkStates
  <2>2. /\ inKey' \in [Ends -> Key] /\ outKey' \in [Ends -> Key]
        /\ lock' \in [Ends -> BOOLEAN] /\ ready' \in [Ends -> BOOLEAN]
    BY <1>0 DEF TypeOK, Key
  <2>3. sent' \in [Ends -> Seq(Nat)] /\ delivered' \in [Ends -> Seq(Nat)]
    BY <1>0 DEF TypeOK
  <2>4. UNCHANGED config
    BY <1>0
  <2> QED
    BY ONLY <1>0, <1>1, <2>1, <2>2, <2>3, <2>4, TypesKept
<1>3. LockInv'
  BY <1>0 DEF TypeOK, LockInv
<1>4. TrustInv'
  BY <1>0, <1>1 DEF TypeOK, TrustInv, OnlyKnownRemotes
<1>5. EveryPacketDecrypts'
  BY <1>0 DEF EveryPacketDecrypts
<1> QED
  BY <1>1, <1>2, <1>3, <1>4, <1>5 DEF IInv, StreamsKept

(* The client is done. *)
LEMMA ClientIdentityKeeps ==
  ASSUME IInv, ClientIdentity
  PROVE  IInv'
<1>0. TypeOK /\ LockInv /\ TrustInv /\ EveryPacketDecrypts /\ \A f \in Ends : StreamInv(f)
  BY DEF IInv
<1>1. /\ StreamsKept
      /\ \A f \in Ends : \A t :
           Contains(chan'[f], t) => Contains(chan[f], t) \/ (f = Peer(A) /\ t = "C_IDENTITY")
  <2>1. "C_IDENTITY" \in KexTypes \cup {"DATA"} /\ 0 \in Nat
    <3>1. 0 \in Nat
      BY <1>0, EndFacts DEF TypeOK
    <3> QED
      BY <3>1 DEF KexTypes
  <2>2. /\ SendInternal(A, "C_IDENTITY", 0)
        /\ UNCHANGED <<inKey, outKey, inCtr>>
        /\ \A f \in Ends \ {A} : kst'[f] = kst[f] /\ step'[f] = step[f]
        /\ kst[A] = "KF_Err" => kst'[A] = "KF_Err"
        /\ outKey[A] = "off" => step[A] # "keys" /\ (step'[A] = "keys" <=> "C_IDENTITY" = NewKeys(Peer(A)))
    BY <1>0, EndFacts DEF ClientIdentity, Continue, keys, NewKeys, TypeOK, LockInv
  <2> QED
    BY <1>0, <2>1, <2>2, SendOnly, EndFacts
<1> USE EndFacts DEF ClientIdentity, SendInternal, Continue, config, keys, appVars
<1>2. TypeOK'
  <2>1. /\ kst' \in [Ends -> KexStates] /\ step' \in [Ends -> Steps] /\ link' \in [Ends -> LinkStates]
    BY <1>0 DEF TypeOK, KexStates, Steps, LinkStates
  <2>2. /\ inKey' \in [Ends -> Key] /\ outKey' \in [Ends -> Key]
        /\ lock' \in [Ends -> BOOLEAN] /\ ready' \in [Ends -> BOOLEAN]
    BY <1>0 DEF TypeOK, Key
  <2>3. sent' \in [Ends -> Seq(Nat)] /\ delivered' \in [Ends -> Seq(Nat)]
    BY <1>0 DEF TypeOK
  <2>4. UNCHANGED config
    BY <1>0
  <2> QED
    BY ONLY <1>0, <1>1, <2>1, <2>2, <2>3, <2>4, TypesKept
<1>3. LockInv'
  BY <1>0 DEF TypeOK, LockInv
<1>4. TrustInv'
  BY <1>0, <1>1 DEF TypeOK, TrustInv, OnlyKnownRemotes
<1>5. EveryPacketDecrypts'
  BY <1>0 DEF EveryPacketDecrypts
<1> QED
  BY <1>1, <1>2, <1>3, <1>4, <1>5 DEF IInv, StreamsKept

(* recv() of the server: the version of the client is answered, or fails. *)
LEMMA ClientVersionKeeps ==
  ASSUME IInv, RecvClientVersion
  PROVE  IInv'
<1>0. TypeOK /\ LockInv /\ TrustInv /\ EveryPacketDecrypts /\ \A f \in Ends : StreamInv(f)
  BY DEF IInv
<1>1. /\ StreamsKept
      /\ \A f \in Ends : \A t :
           Contains(chan'[f], t) => Contains(chan[f], t) \/ (f = Peer(B) /\ t = "S_VERSION")
  <2>1. "S_VERSION" \in KexTypes \cup {"DATA"} /\ major[B] \in Nat
    <3>1. major[B] \in Nat
      BY <1>0, MajorFacts, EndFacts
    <3> QED
      BY <3>1 DEF KexTypes
  <2>2. CASE Next1(B).val = 1
    <3>1. /\ Takes(B) /\ Taken(B) /\ Answers(B, "S_VERSION", major[B], "S2_M2")
          /\ UNCHANGED <<outKey, step, inKey>>
          /\ kst[B] # "KF_Err"
          /\ inKey'[B] = IF Head(chan[B]).type = NewKeys(B) THEN B ELSE inKey[B]
          /\ outKey[B] = "off" => (step'[B] = "keys" <=> "S_VERSION" = NewKeys(Peer(B)))
      BY <1>0, <2>2, EndFacts DEF RecvClientVersion, TakesKex, keys, Takes, Next1, NewKeys, TypeOK
    <3> QED
      BY <1>0, <2>1, <3>1, TakeAndAnswer, EndFacts
  <2>3. CASE ~(Next1(B).val = 1)
    <3>1. /\ Takes(B) /\ Taken(B) /\ Consumed(B)
          /\ UNCHANGED <<outKey, outCtr, step>>
          /\ \A f \in Ends \ {B} : kst'[f] = kst[f] /\ inKey'[f] = inKey[f]
          /\ kst'[B] = "KF_Err"
      BY <1>0, <2>3, EndFacts DEF RecvClientVersion, TakesKex, keys, Fails, TypeOK
    <3> QED
      BY <1>0, <3>1, TakeOnly, EndFacts
  <2> QED
    BY <2>2, <2>3
<1> USE EndFacts DEF RecvClientVersion, TakesKex, Takes, Answers, config, keys, appVars, Fails, Close
<1>2. TypeOK'
  <2>1. /\ kst' \in [Ends -> KexStates] /\ step' \in [Ends -> Steps] /\ link' \in [Ends -> LinkStates]
    BY <1>0 DEF TypeOK, KexStates, Steps, LinkStates
  <2>2. /\ inKey' \in [Ends -> Key] /\ outKey' \in [Ends -> Key]
        /\ lock' \in [Ends -> BOOLEAN] /\ ready' \in [Ends -> BOOLEAN]
    BY <1>0 DEF TypeOK, Key
  <2>3. sent' \in [Ends -> Seq(Nat)] /\ delivered' \in [Ends -> Seq(Nat)]
    BY <1>0 DEF TypeOK
  <2>4. UNCHANGED config
    BY <1>0
  <2> QED
    BY ONLY <1>0, <1>1, <2>1, <2>2, <2>3, <2>4, TypesKept
<1>3. LockInv'
  <2>1. UNCHANGED <<lock, step>> /\ \A f \in Ends : step[f] = "none" \/ kst'[f] = kst[f]
    BY <1>0 DEF TypeOK
  <2> QED
    BY ONLY <1>0, <2>1 DEF LockInv
<1>4. TrustInv'
  BY <1>0, <1>1 DEF TypeOK, TrustInv, OnlyKnownRemotes
<1>5. EveryPacketDecrypts'
  BY <1>0 DEF EveryPacketDecrypts
<1> QED
  BY <1>1, <1>2, <1>3, <1>4, <1>5 DEF IInv, StreamsKept

(* The server answers with its key. *)
LEMMA ClientHelloKeeps ==
  ASSUME IInv, RecvClientHello
  PROVE  IInv'
<1>0. TypeOK /\ LockInv /\ TrustInv /\ EveryPacketDecrypts /\ \A f \in Ends : StreamInv(f)
  BY DEF IInv
<1>1. /\ StreamsKept
      /\ \A f \in Ends : \A t :
           Contains(chan'[f], t) => Contains(chan[f], t) \/ (f = Peer(B) /\ t = "S_HELLO")
  <2>1. "S_HELLO" \in KexTypes \cup {"DATA"} /\ 0 \in Nat
    <3>1. 0 \in Nat
      BY <1>0, EndFacts DEF TypeOK
    <3> QED
      BY <3>1 DEF KexTypes
  <2>2. /\ Takes(B) /\ Taken(B) /\ Answers(B, "S_HELLO", 0, "K2_SHello")
        /\ UNCHANGED outKey
        /\ \A f \in Ends \ {B} : step'[f] = step[f] /\ inKey'[f] = inKey[f]
        /\ kst[B] # "KF_Err"
        /\ inKey'[B] = IF Head(chan[B]).type = NewKeys(B) THEN B ELSE inKey[B]
        /\ outKey[B] = "off" => (step'[B] = "keys" <=> "S_HELLO" = NewKeys(Peer(B)))
    BY <1>0, EndFacts DEF RecvClientHello, TakesKex, Takes, Next1, Continue, keys, NewKeys, TypeOK
  <2> QED
    BY <1>0, <2>1, <2>2, TakeAndAnswer, EndFacts
<1> USE EndFacts DEF RecvClientHello, TakesKex, Takes, Answers, Continue, config, keys, appVars
<1>2. TypeOK'
  <2>1. /\ kst' \in [Ends -> KexStates] /\ step' \in [Ends -> Steps] /\ link' \in [Ends -> LinkStates]
    BY <1>0 DEF TypeOK, KexStates, Steps, LinkStates
  <2>2. /\ inKey' \in [Ends -> Key] /\ outKey' \in [Ends -> Key]
        /\ lock' \in [Ends -> BOOLEAN] /\ ready' \in [Ends -> BOOLEAN]
    BY <1>0 DEF TypeOK, Key
  <2>3. sent' \in [Ends -> Seq(Nat)] /\ delivered' \in [Ends -> Seq(Nat)]
    BY <1>0 DEF TypeOK
  <2>4. UNCHANGED config
    BY <1>0
  <2> QED
    BY ONLY <1>0, <1>1, <2>1, <2>2, <2>3, <2>4, TypesKept
<1>3. LockInv'
  BY <1>0 DEF TypeOK, LockInv
<1>4. TrustInv'
  BY <1>0, <1>1 DEF TypeOK, TrustInv, OnlyKnownRemotes
<1>5. EveryPacketDecrypts'
  BY <1>0 DEF EveryPacketDecrypts
<1> QED
  BY <1>1, <1>2, <1>3, <1>4, <1>5 DEF IInv, StreamsKept

(* The server sends its last packet under the old key. *)
LEMMA SentNewKeysKeeps ==
  ASSUME IInv, ServerNewKeys
  PROVE  IInv'
<1>0. TypeOK /\ LockInv /\ TrustInv /\ EveryPacketDecrypts /\ \A f \in Ends : StreamInv(f)
  BY DEF IInv
<1>1. /\ StreamsKept
      /\ \A f \in Ends : \A t :
           Contains(chan'[f], t) => Contains(chan[f], t) \/ (f = Peer(B) /\ t = "S_NEWKEYS")
  <2>1. "S_NEWKEYS" \in KexTypes \cup {"DATA"} /\ 0 \in Nat
    <3>1. 0 \in Nat
      BY <1>0, EndFacts DEF TypeOK
    <3> QED
      BY <3>1 DEF KexTypes
  <2>2. /\ SendInternal(B, "S_NEWKEYS", 0)
        /\ UNCHANGED <<inKey, outKey, inCtr>>
        /\ \A f \in Ends \ {B} : kst'[f] = kst[f] /\ step'[f] = step[f]
        /\ kst[B] = "KF_Err" => kst'[B] = "KF_Err"
        /\ outKey[B] = "off" => step[B] # "keys" /\ (step'[B] = "keys" <=> "S_NEWKEYS" = NewKeys(Peer(B)))
    BY <1>0, EndFacts DEF ServerNewKeys, Continue, keys, NewKeys, TypeOK, LockInv
  <2> QED
    BY <1>0, <2>1, <2>2, SendOnly, EndFacts
<1> USE EndFacts DEF ServerNewKeys, SendInternal, Continue, config, keys, appVars
<1>2. TypeOK'
  <2>1. /\ kst' \in [Ends -> KexStates] /\ step' \in [Ends -> Steps] /\ link' \in [Ends -> LinkStates]
    BY <1>0 DEF TypeOK, KexStates, Steps, LinkStates
  <2>2. /\ inKey' \in [Ends -> Key] /\ outKey' \in [Ends -> Key]
        /\ lock' \in [Ends -> BOOLEAN] /\ ready' \in [Ends -> BOOLEAN]
    BY <1>0 DEF TypeOK, Key
  <2>3. sent' \in [Ends -> Seq(Nat)] /\ delivered' \in [Ends -> Seq(Nat)]
    BY <1>0 DEF TypeOK
  <2>4. UNCHANGED config
    BY <1>0
  <2> QED
    BY ONLY <1>0, <1>1, <2>1, <2>2, <2>3, <2>4, TypesKept
<1>3. LockInv'
  BY <1>0 DEF TypeOK, LockInv
<1>4. TrustInv'
  BY <1>0, <1>1 DEF TypeOK, TrustInv, OnlyKnownRemotes
<1>5. EveryPacketDecrypts'
  BY <1>0 DEF EveryPacketDecrypts
<1> QED
  BY <1>1, <1>2, <1>3, <1>4, <1>5 DEF IInv, StreamsKept

(* The server encrypts with the new key. *)
LEMMA ServerKeysKeeps ==
  ASSUME IInv, ServerKeys
  PROVE  IInv'
<1>0. TypeOK /\ LockInv /\ TrustInv /\ EveryPacketDecrypts /\ \A f \in Ends : StreamInv(f)
  BY DEF IInv
<1>1. StreamsKept /\ UNCHANGED chan
  <2>1. /\ UNCHANGED <<chan, inKey, inCtr, outCtr>>
        /\ step[B] = "keys" /\ step'[B] # "keys"
        /\ outKey' = [outKey EXCEPT ![B] = Peer(B)]
        /\ \A f \in Ends \ {B} : kst'[f] = kst[f] /\ step'[f] = step[f]
        /\ kst[B] = "KF_Err" => kst'[B] = "KF_Err"
    BY <1>0, EndFacts DEF ServerKeys, Continue, LockInv, TypeOK
  <2> QED
    BY <1>0, <2>1, SwitchOnly, EndFacts
<1> USE EndFacts DEF ServerKeys, Continue, Key, config, keys, appVars
<1>2. TypeOK'
  <2>1. /\ kst' \in [Ends -> KexStates] /\ step' \in [Ends -> Steps] /\ link' \in [Ends -> LinkStates]
    BY <1>0 DEF TypeOK, KexStates, Steps, LinkStates
  <2>2. /\ inKey' \in [Ends -> Key] /\ outKey' \in [Ends -> Key]
        /\ lock' \in [Ends -> BOOLEAN] /\ ready' \in [Ends -> BOOLEAN]
    BY <1>0 DEF TypeOK, Key
  <2>3. sent' \in [Ends -> Seq(Nat)] /\ delivered' \in [Ends -> Seq(Nat)]
    BY <1>0 DEF TypeOK
  <2>4. UNCHANGED config
    BY <1>0
  <2> QED
    BY ONLY <1>0, <1>1, <2>1, <2>2, <2>3, <2>4, TypesKept
<1>3. LockInv'
  BY <1>0 DEF TypeOK, LockInv
<1>4. TrustInv'
  BY <1>0, <1>1 DEF TypeOK, TrustInv, OnlyKnownRemotes
<1>5. EveryPacketDecrypts'
  BY <1>0 DEF EveryPacketDecrypts
<1> QED
  BY <1>1, <1>2, <1>3, <1>4, <1>5 DEF IInv, StreamsKept

(* The server decrypts with the new key. *)
LEMMA ClientNewKeysKeeps ==
  ASSUME IInv, RecvClientNewKeys
  PROVE  IInv'
<1>0. TypeOK /\ LockInv /\ TrustInv /\ EveryPacketDecrypts /\ \A f \in Ends : StreamInv(f)
  BY DEF IInv
<1>1. /\ StreamsKept
      /\ \A f \in Ends : \A t : Contains(chan'[f], t) => Contains(chan[f], t)
  <2>1. /\ Takes(B) /\ Taken(B) /\ Consumed(B)
        /\ UNCHANGED <<outKey, outCtr, step>>
        /\ \A f \in Ends \ {B} : kst'[f] = kst[f] /\ inKey'[f] = inKey[f]
        /\ \/ kst'[B] = "KF_Err"
           \/ kst[B] # "KF_Err" /\ inKey'[B] = IF Head(chan[B]).type = NewKeys(B) THEN B ELSE inKey[B]
    BY <1>0, EndFacts DEF RecvClientNewKeys, TakesKex, Next1, NewKeys, TypeOK
  <2> QED
    BY <1>0, <2>1, TakeOnly, EndFacts
<1> USE EndFacts DEF RecvClientNewKeys, TakesKex, Takes, Key, config, keys, appVars
<1>2. TypeOK'
  <2>1. /\ kst' \in [Ends -> KexStates] /\ step' \in [Ends -> Steps] /\ link' \in [Ends -> LinkStates]
    BY <1>0 DEF TypeOK, KexStates, Steps, LinkStates
  <2>2. /\ inKey' \in [Ends -> Key] /\ outKey' \in [Ends -> Key]
        /\ lock' \in [Ends -> BOOLEAN] /\ ready' \in [Ends -> BOOLEAN]
    BY <1>0 DEF TypeOK, Key
  <2>3. sent' \in [Ends -> Seq(Nat)] /\ delivered' \in [Ends -> Seq(Nat)]
    BY <1>0 DEF TypeOK
  <2>4. UNCHANGED config
    BY <1>0
  <2> QED
    BY ONLY <1>0, <1>1, <2>1, <2>2, <2>3, <2>4, TypesKept
<1>3. LockInv'
  BY <1>0 DEF TypeOK, LockInv
<1>4. TrustInv'
  BY <1>0, <1>1 DEF TypeOK, TrustInv, OnlyKnownRemotes
<1>5. EveryPacketDecrypts'
  BY <1>0 DEF EveryPacketDecrypts
<1> QED
  BY <1>1, <1>2, <1>3, <1>4, <1>5 DEF IInv, StreamsKept

(* The server is done: the identity comes from a client that knows it. *)
LEMMA IdentityKeeps ==
  ASSUME IInv, RecvClientIdentity
  PROVE  IInv'
<1>0. TypeOK /\ LockInv /\ TrustInv /\ EveryPacketDecrypts /\ \A f \in Ends : StreamInv(f)
  BY DEF IInv
<1>1. /\ StreamsKept
      /\ \A f \in Ends : \A t : Contains(chan'[f], t) => Contains(chan[f], t)
      /\ trusts[A]
  <2>1. /\ Takes(B) /\ Taken(B) /\ Consumed(B)
        /\ UNCHANGED <<outKey, outCtr, step>>
        /\ \A f \in Ends \ {B} : kst'[f] = kst[f] /\ inKey'[f] = inKey[f]
        /\ \/ kst'[B] = "KF_Err"
           \/ kst[B] # "KF_Err" /\ inKey'[B] = IF Head(chan[B]).type = NewKeys(B) THEN B ELSE inKey[B]
    BY <1>0, EndFacts DEF RecvClientIdentity, TakesKex, Next1, keys, Fails, Close, NewKeys, TypeOK
  <2>2. Contains(chan[B], "C_IDENTITY")
    <3>1. chan[B] \in Seq(Packet) /\ chan[B] # <<>> /\ Head(chan[B]).type = "C_IDENTITY"
      BY <1>0, EndFacts DEF RecvClientIdentity, TakesKex, Takes, Next1, TypeOK
    <3> QED
      BY <3>1, ContainsFacts
  <2>3. trusts[A]
    BY <1>0, <2>2 DEF TrustInv
  <2> QED
    BY <1>0, <2>1, <2>3, TakeOnly, EndFacts
<1> USE EndFacts DEF RecvClientIdentity, TakesKex, Takes, KnownRemote, config, keys, appVars, Fails, Close
<1>2. TypeOK'
  <2>1. /\ kst' \in [Ends -> KexStates] /\ step' \in [Ends -> Steps] /\ link' \in [Ends -> LinkStates]
    BY <1>0 DEF TypeOK, KexStates, Steps, LinkStates
  <2>2. /\ inKey' \in [Ends -> Key] /\ outKey' \in [Ends -> Key]
        /\ lock' \in [Ends -> BOOLEAN] /\ ready' \in [Ends -> BOOLEAN]
    BY <1>0 DEF TypeOK, Key
  <2>3. sent' \in [Ends -> Seq(Nat)] /\ delivered' \in [Ends -> Seq(Nat)]
    BY <1>0 DEF TypeOK
  <2>4. UNCHANGED config
    BY <1>0
  <2> QED
    BY ONLY <1>0, <1>1, <2>1, <2>2, <2>3, <2>4, TypesKept
<1>3. LockInv'
  BY <1>0 DEF TypeOK, LockInv
<1>4. TrustInv'
  <2>1. CASE KnownRemote(B)
    BY <1>0, <1>1, <2>1 DEF TypeOK, TrustInv, OnlyKnownRemotes
  <2>2. CASE ~KnownRemote(B)
    BY <1>0, <1>1, <2>2 DEF TypeOK, TrustInv, OnlyKnownRemotes
  <2> QED
    BY <2>1, <2>2
<1>5. EveryPacketDecrypts'
  BY <1>0 DEF EveryPacketDecrypts
<1> QED
  BY <1>1, <1>2, <1>3, <1>4, <1>5 DEF IInv, StreamsKept

(* send() by an application. *)
LEMMA SendKeeps ==
  ASSUME IInv, NEW e \in Ends, Send(e)
  PROVE  IInv'
<1>0. TypeOK /\ LockInv /\ TrustInv /\ EveryPacketDecrypts /\ \A f \in Ends : StreamInv(f)
  BY DEF IInv
<1> DEFINE n == Len(sent[e]) + 1
<1>1. /\ StreamsKept
      /\ \A f \in Ends : \A t :
           Contains(chan'[f], t) => Contains(chan[f], t) \/ (f = Peer(e) /\ t = "DATA")
  <2>1. "DATA" \in KexTypes \cup {"DATA"} /\ n \in Nat
    <3>1. n \in Nat
      BY <1>0, EndFacts DEF TypeOK
    <3> QED
      BY <3>1 DEF KexTypes
  <2>2. /\ SendInternal(e, "DATA", n)
        /\ UNCHANGED <<inKey, outKey, inCtr>>
        /\ \A f \in Ends \ {e} : kst'[f] = kst[f] /\ step'[f] = step[f]
        /\ kst[e] = "KF_Err" => kst'[e] = "KF_Err"
        /\ outKey[e] = "off" => step[e] # "keys" /\ (step'[e] = "keys" <=> "DATA" = NewKeys(Peer(e)))
    BY <1>0, EndFacts DEF Send, OutLockFree, keys, NewKeys, TypeOK, LockInv
  <2> HIDE DEF n
  <2> QED
    BY <1>0, <2>1, <2>2, SendOnly
<1> USE EndFacts DEF Send, SendInternal, config, keys, appVars
<1>2. TypeOK'
  <2>1. /\ kst' \in [Ends -> KexStates] /\ step' \in [Ends -> Steps] /\ link' \in [Ends -> LinkStates]
    BY <1>0 DEF TypeOK, KexStates, Steps, LinkStates
  <2>2. /\ inKey' \in [Ends -> Key] /\ outKey' \in [Ends -> Key]
        /\ lock' \in [Ends -> BOOLEAN] /\ ready' \in [Ends -> BOOLEAN]
    BY <1>0 DEF TypeOK, Key
  <2>3. sent' \in [Ends -> Seq(Nat)] /\ delivered' \in [Ends -> Seq(Nat)]
    <3>1. delivered \in [Ends -> Seq(Nat)] /\ sent \in [Ends -> Seq(Nat)] /\ sent[e] \in Seq(Nat)
      BY ONLY <1>0, e \in Ends DEF TypeOK
    <3>2. Append(sent[e], Len(sent[e]) + 1) \in Seq(Nat)
      BY ONLY <3>1
    <3> QED
      BY <3>1, <3>2
  <2>4. UNCHANGED config
    BY <1>0
  <2> QED
    BY ONLY <1>0, <1>1, <2>1, <2>2, <2>3, <2>4, TypesKept
<1>3. LockInv'
  BY <1>0 DEF TypeOK, LockInv
<1>4. TrustInv'
  BY <1>0, <1>1 DEF TypeOK, TrustInv, OnlyKnownRemotes
<1>5. EveryPacketDecrypts'
  BY <1>0 DEF EveryPacketDecrypts
<1> QED
  BY <1>1, <1>2, <1>3, <1>4, <1>5 DEF IInv, StreamsKept

(* DATA goes to the application, or closes. *)
LEMMA DataKeeps ==
  ASSUME IInv, NEW e \in Ends, OnData(e)
  PROVE  IInv'
<1>0. TypeOK /\ LockInv /\ TrustInv /\ EveryPacketDecrypts /\ \A f \in Ends : StreamInv(f)
  BY DEF IInv
<1>1. /\ StreamsKept
      /\ \A f \in Ends : \A t : Contains(chan'[f], t) => Contains(chan[f], t)
      /\ Next1(e).val \in Nat
  <2>1. /\ Takes(e) /\ Taken(e) /\ Consumed(e)
        /\ UNCHANGED <<outKey, outCtr, step>>
        /\ \A f \in Ends \ {e} : kst'[f] = kst[f] /\ inKey'[f] = inKey[f]
        /\ \/ kst'[e] = "KF_Err"
           \/ kst[e] # "KF_Err" /\ inKey'[e] = IF Head(chan[e]).type = NewKeys(e) THEN e ELSE inKey[e]
    BY <1>0, EndFacts DEF OnData, Next1, keys, Close, NewKeys, TypeOK
  <2>2. Next1(e).val \in Nat
    <3>1. chan[e] \in Seq(Packet) /\ chan[e] # <<>>
      BY <1>0 DEF OnData, Takes, TypeOK
    <3>2. Head(chan[e]) \in Packet
      BY <3>1, TailFacts
    <3> QED
      BY <3>2 DEF Packet, Next1
  <2> QED
    BY <1>0, <2>1, <2>2, TakeOnly
<1> USE EndFacts DEF OnData, Takes, AcceptsData, Close, config, keys, appVars
<1>2. TypeOK'
  <2>1. /\ kst' \in [Ends -> KexStates] /\ step' \in [Ends -> Steps] /\ link' \in [Ends -> LinkStates]
    BY <1>0 DEF TypeOK, KexStates, Steps, LinkStates
  <2>2. /\ inKey' \in [Ends -> Key] /\ outKey' \in [Ends -> Key]
        /\ lock' \in [Ends -> BOOLEAN] /\ ready' \in [Ends -> BOOLEAN]
    BY <1>0 DEF TypeOK, Key
  <2>3. sent' \in [Ends -> Seq(Nat)] /\ delivered' \in [Ends -> Seq(Nat)]
    <3>1. delivered[e] \in Seq(Nat) /\ delivered \in [Ends -> Seq(Nat)] /\ sent \in [Ends -> Seq(Nat)]
      BY ONLY <1>0, e \in Ends DEF TypeOK
    <3>2. Append(delivered[e], Next1(e).val) \in Seq(Nat)
      BY ONLY <1>1, <3>1
    <3> QED
      BY <3>1, <3>2
  <2>4. UNCHANGED config
    BY <1>0
  <2> QED
    BY ONLY <1>0, <1>1, <2>1, <2>2, <2>3, <2>4, TypesKept
<1>3. LockInv'
  BY <1>0 DEF TypeOK, LockInv
<1>4. TrustInv'
  BY <1>0, <1>1 DEF TypeOK, TrustInv, OnlyKnownRemotes
<1>5. EveryPacketDecrypts'
  BY <1>0 DEF EveryPacketDecrypts
<1> QED
  BY <1>1, <1>2, <1>3, <1>4, <1>5 DEF IInv, StreamsKept

(* A packet that is not expected fails the exchange. *)
LEMMA UnexpectedKeeps ==
  ASSUME IInv, NEW e \in Ends, OnUnexpected(e)
  PROVE  IInv'
<1>0. TypeOK /\ LockInv /\ TrustInv /\ EveryPacketDecrypts /\ \A f \in Ends : StreamInv(f)
  BY DEF IInv
<1>1. /\ StreamsKept
      /\ \A f \in Ends : \A t : Contains(chan'[f], t) => Contains(chan[f], t)
  <2>1. /\ Takes(e) /\ Taken(e) /\ Consumed(e)
        /\ UNCHANGED <<outKey, outCtr, step>>
        /\ \A f \in Ends \ {e} : kst'[f] = kst[f] /\ inKey'[f] = inKey[f]
        /\ \/ kst'[e] = "KF_Err"
           \/ kst[e] # "KF_Err" /\ inKey'[e] = IF Head(chan[e]).type = NewKeys(e) THEN e ELSE inKey[e]
    BY <1>0, EndFacts DEF OnUnexpected, keys, Fails, Close, NewKeys, TypeOK
  <2> QED
    BY <1>0, <2>1, TakeOnly, EndFacts
<1> USE EndFacts DEF OnUnexpected, Takes, config, keys, appVars, Fails, Close
<1>2. TypeOK'
  <2>1. /\ kst' \in [Ends -> KexStates] /\ step' \in [Ends -> Steps] /\ link' \in [Ends -> LinkStates]
    BY <1>0 DEF TypeOK, KexStates, Steps, LinkStates
  <2>2. /\ inKey' \in [Ends -> Key] /\ outKey' \in [Ends -> Key]
        /\ lock' \in [Ends -> BOOLEAN] /\ ready' \in [Ends -> BOOLEAN]
    BY <1>0 DEF TypeOK, Key
  <2>3. sent' \in [Ends -> Seq(Nat)] /\ delivered' \in [Ends -> Seq(Nat)]
    BY <1>0 DEF TypeOK
  <2>4. UNCHANGED config
    BY <1>0
  <2> QED
    BY ONLY <1>0, <1>1, <2>1, <2>2, <2>3, <2>4, TypesKept
<1>3. LockInv'
  BY <1>0 DEF TypeOK, LockInv
<1>4. TrustInv'
  BY <1>0, <1>1 DEF TypeOK, TrustInv, OnlyKnownRemotes
<1>5. EveryPacketDecrypts'
  BY <1>0 DEF EveryPacketDecrypts
<1> QED
  BY <1>1, <1>2, <1>3, <1>4, <1>5 DEF IInv, StreamsKept

(* A packet that does not decrypt is taken only after the exchange has failed. *)
LEMMA GarbageKeeps ==
  ASSUME IInv, NEW e \in Ends, OnGarbage(e)
  PROVE  IInv'
<1>0. TypeOK /\ LockInv /\ TrustInv /\ EveryPacketDecrypts /\ \A f \in Ends : StreamInv(f)
  BY DEF IInv
<1>a. kst[e] = "KF_Err"
  <2> SUFFICES ASSUME kst[e] # "KF_Err"
               PROVE  FALSE
    OBVIOUS
  <2> DEFINE sw == step[Peer(e)] = "keys"
  <2>1. InStep(e, chan[e], inKey[e], outKey[Peer(e)], inCtr[e], outCtr[Peer(e)], sw)
    BY <1>0 DEF StreamInv
  <2>2. chan[e] # <<>> /\ ~Decrypts(e)
    BY DEF OnGarbage, Takes
  <2>3. /\ chan[e] \in Seq(Packet) /\ inCtr[e] \in Nat /\ outCtr[Peer(e)] \in Nat
        /\ sw \in BOOLEAN
    BY <1>0, StreamTypes
  <2> HIDE DEF sw
  <2>4. Head(chan[e]).key = inKey[e] /\ (inKey[e] # "off" => Head(chan[e]).ctr = inCtr[e])
    BY <2>1, <2>2, <2>3, StreamDecrypts
  <2> QED
    BY <2>2, <2>4 DEF Decrypts, Next1
<1>1. /\ StreamsKept
      /\ \A f \in Ends : \A t : Contains(chan'[f], t) => Contains(chan[f], t)
  <2>1. /\ Takes(e) /\ Taken(e) /\ Consumed(e)
        /\ UNCHANGED <<outKey, outCtr, step>>
        /\ \A f \in Ends \ {e} : kst'[f] = kst[f] /\ inKey'[f] = inKey[f]
        /\ \/ kst'[e] = "KF_Err"
           \/ kst[e] # "KF_Err" /\ inKey'[e] = IF Head(chan[e]).type = NewKeys(e) THEN e ELSE inKey[e]
    BY <1>0, <1>a, EndFacts DEF OnGarbage, keys, Close, NewKeys, TypeOK
  <2> QED
    BY <1>0, <2>1, TakeOnly, EndFacts
<1> USE EndFacts DEF OnGarbage, Takes, Close, config, keys, appVars
<1>2. TypeOK'
  <2>1. /\ kst' \in [Ends -> KexStates] /\ step' \in [Ends -> Steps] /\ link' \in [Ends -> LinkStates]
    BY <1>0 DEF TypeOK, KexStates, Steps, LinkStates
  <2>2. /\ inKey' \in [Ends -> Key] /\ outKey' \in [Ends -> Key]
        /\ lock' \in [Ends -> BOOLEAN] /\ ready' \in [Ends -> BOOLEAN]
    BY <1>0 DEF TypeOK, Key
  <2>3. sent' \in [Ends -> Seq(Nat)] /\ delivered' \in [Ends -> Seq(Nat)]
    <3>1. delivered[e] \in Seq(Nat) /\ delivered \in [Ends -> Seq(Nat)] /\ sent \in [Ends -> Seq(Nat)]
      BY ONLY <1>0, e \in Ends DEF TypeOK
    <3>2. Append(delivered[e], 0) \in Seq(Nat)
      BY ONLY <3>1
    <3>3. sent' = sent /\ (delivered' = delivered \/ delivered' = [delivered EXCEPT ![e] = Append(@, 0)])
      OBVIOUS
    <3> QED
      BY ONLY <3>1, <3>2, <3>3
  <2>4. UNCHANGED config
    BY <1>0
  <2> QED
    BY ONLY <1>0, <1>1, <2>1, <2>2, <2>3, <2>4, TypesKept
<1>3. LockInv'
  BY <1>0 DEF TypeOK, LockInv
<1>4. TrustInv'
  BY <1>0, <1>1 DEF TypeOK, TrustInv, OnlyKnownRemotes
<1>5. EveryPacketDecrypts'
  BY <1>0, <1>a DEF EveryPacketDecrypts
<1> QED
  BY <1>1, <1>2, <1>3, <1>4, <1>5 DEF IInv, StreamsKept

(* The raw packets, the transport, and the steps of the environment. *)
LEMMA OthersKeep ==
  ASSUME IInv, (\E e \in Ends : SendRaw(e) \/ OnRaw(e) \/ LinkDown(e)) \/ UNCHANGED vars
  PROVE  IInv'
<1>0. TypeOK /\ LockInv /\ TrustInv /\ EveryPacketDecrypts /\ \A f \in Ends : StreamInv(f)
  BY DEF IInv
<1>1. StreamsKept /\ UNCHANGED chan
  <2>1. UNCHANGED <<chan, inKey, outKey, inCtr, outCtr, step, kst>>
    BY DEF SendRaw, OnRaw, LinkDown, keys, vars
  <2> QED
    BY <1>0, <2>1, StreamsUntouched
<1> USE EndFacts DEF SendRaw, OnRaw, LinkDown, vars, config, keys, appVars
<1>2. TypeOK'
  <2>1. /\ kst' \in [Ends -> KexStates] /\ step' \in [Ends -> Steps] /\ link' \in [Ends -> LinkStates]
    BY <1>0 DEF TypeOK, KexStates, Steps, LinkStates
  <2>2. /\ inKey' \in [Ends -> Key] /\ outKey' \in [Ends -> Key]
        /\ lock' \in [Ends -> BOOLEAN] /\ ready' \in [Ends -> BOOLEAN]
    BY <1>0 DEF TypeOK, Key
  <2>3. sent' \in [Ends -> Seq(Nat)] /\ delivered' \in [Ends -> Seq(Nat)]
    BY <1>0 DEF TypeOK
  <2>4. UNCHANGED config
    BY <1>0
  <2> QED
    BY ONLY <1>0, <1>1, <2>1, <2>2, <2>3, <2>4, TypesKept
<1>3. LockInv'
  BY <1>0 DEF TypeOK, LockInv
<1>4. TrustInv'
  BY <1>0, <1>1 DEF TypeOK, TrustInv, OnlyKnownRemotes
<1>5. EveryPacketDecrypts'
  BY <1>0 DEF EveryPacketDecrypts
<1> QED
  BY <1>1, <1>2, <1>3, <1>4, <1>5 DEF IInv, StreamsKept

-----------------------------------------------------------------------------
(* The theorems *)

LEMMA Start == Init => IInv
<1> SUFFICES ASSUME Init
             PROVE  IInv
  OBVIOUS
<1>1. TypeOK
  BY EndFacts DEF Init, TypeOK, Key, KexStates, Steps, LinkStates
<1>2. LockInv
  BY EndFacts DEF Init, LockInv
<1>3. ASSUME NEW e \in Ends
      PROVE  StreamInv(e)
  <2>1. /\ chan[e] = <<>> /\ inKey[e] = "off" /\ outKey[Peer(e)] = "off"
        /\ inCtr[e] = 0 /\ outCtr[Peer(e)] = 0 /\ step[Peer(e)] # "keys"
    BY EndFacts DEF Init
  <2>2. \A i \in 1..Len(<<>>) : FALSE
    OBVIOUS
  <2> QED
    BY <2>1, <2>2 DEF StreamInv, InStep, Plain
<1>4. TrustInv
  <2>1. /\ kst[A] = "S0_New" /\ step[A] = "none" /\ chan[B] = <<>>
        /\ \A e \in Ends : delivered[e] = <<>> /\ ~ready[e]
    BY EndFacts DEF Init
  <2>2. ~Contains(<<>>, "C_IDENTITY")
    BY DEF Contains
  <2> QED
    BY <2>1, <2>2, EndFacts DEF TrustInv, OnlyKnownRemotes
<1>5. EveryPacketDecrypts
  BY DEF Init, EveryPacketDecrypts
<1> QED
  BY <1>1, <1>2, <1>3, <1>4, <1>5 DEF IInv

LEMMA Step == IInv /\ [Next]_vars => IInv'
<1> SUFFICES ASSUME IInv, [Next]_vars
             PROVE  IInv'
  OBVIOUS
<1>1. CASE Kex
  BY <1>1, InitKexKeeps, ServerVersionKeeps, ServerHelloKeeps, ServerNewKeysKeeps, ClientKeysKeeps,
     ClientIdentityKeeps, ClientVersionKeeps, ClientHelloKeeps, SentNewKeysKeeps, ServerKeysKeeps,
     ClientNewKeysKeeps, IdentityKeeps DEF Kex
<1>2. ASSUME NEW e \in Ends, Packets(e)
      PROVE  IInv'
  BY <1>2, DataKeeps, UnexpectedKeeps, GarbageKeeps DEF Packets
<1>3. ASSUME NEW e \in Ends, Application(e)
      PROVE  IInv'
  BY <1>3, SendKeeps, OthersKeep DEF Application
<1>4. ASSUME NEW e \in Ends, LinkDown(e)
      PROVE  IInv'
  BY <1>4, OthersKeep
<1>5. CASE UNCHANGED vars
  BY <1>5, OthersKeep
<1> QED
  BY <1>1, <1>2, <1>3, <1>4, <1>5 DEF Next

(* The two streams stay in step through the switch of every key, whatever the *)
(* applications send meanwhile, however many packets (opt_session.cpp         *)
(* send_internal(), on_packet(); kex_v1.cpp KEXS_NEWKEYS and KEXC_NEWKEYS).   *)
THEOREM Invariance == Spec => []IInv
BY Start, Step, PTL DEF Spec

(* Every variable keeps its type. *)
THEOREM TypesCorrect == Spec => []TypeOK
<1>1. IInv => TypeOK
  BY DEF IInv
<1> QED
  BY <1>1, Invariance, PTL

(* Every packet is decrypted with the key and the counter it was encrypted    *)
(* with, except by an end whose key exchange has failed and whose close() is  *)
(* under way (opt_session.cpp send_internal(), on_packet()).                  *)
THEOREM PacketsDecrypt == Spec => []EveryPacketDecrypts
<1>1. IInv => EveryPacketDecrypts
  BY DEF IInv
<1> QED
  BY <1>1, Invariance, PTL

(* Data and the open callback reach an application only between ends that     *)
(* know each other's key (kex_v1.cpp KEXC_IDENTITY, opt_session.cpp           *)
(* on_packet()).                                                              *)
THEOREM KnownRemotesOnly == Spec => []OnlyKnownRemotes
<1>1. IInv => OnlyKnownRemotes
  BY DEF IInv, TrustInv
<1> QED
  BY <1>1, Invariance, PTL

=============================================================================
