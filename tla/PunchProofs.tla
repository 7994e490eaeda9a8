----------------------------- MODULE PunchProofs -----------------------------
(***************************************************************************)
(* What holds of hole punching for any number of sockets, whichever of them *)
(* reach each other, and whatever the peer and the network do.              *)
(***************************************************************************)
EXTENDS Punch, TLAPS

-----------------------------------------------------------------------------
(* The inductive invariant *)

Packet == {<<"DESCRIBE", "A">>, <<"DESCRIBE", "B">>, <<"START">>, <<"CLOSE">>, <<"BAD">>, <<"EMPTY">>}

Packets(s) == {s[k] : k \in 1..Len(s)}
StartOnce(s) == \A k, l \in 1..Len(s) : s[k][1] = "START" /\ s[l][1] = "START" => k = l

(* What an end was sent out of its turn. *)
Cued(e) == Cue(e) \in extra[e]

(* A description names its sender.  That of the server is an answer, and the  *)
(* client tells the server to start once, after it has started itself, unless *)
(* it came out of its turn.                                                   *)
ChanInv ==
  /\ chan \in [Ends -> Seq(Packet)]
  /\ \A e \in Ends : \A p \in Packets(chan[e]) : p[1] = "DESCRIBE" => p[2] = Peer(e)
  /\ (\E p \in Packets(chan["A"]) : p[1] = "DESCRIBE") => ib["B"] = "A" \/ Cued("A")
  /\ (\E p \in Packets(chan["B"]) : p[1] = "START") =>
       (thread["B"] = "none" /\ state["A"] = "S3_CStart") \/ Cued("B")
  /\ StartOnce(chan["B"]) \/ Cued("B")

(* An end searches for the magic of the other, which it knows from its        *)
(* description, and starts on its cue.                                        *)
StartInv ==
  /\ tunnel = [e \in Ends |-> tunnel[e]] /\ found = [e \in Ends |-> found[e]]
  /\ state["A"] = "S3_CStart" => ib["A"] = "B" /\ (ib["B"] = "A" \/ Cued("A"))
  /\ state["B"] = "S2_SHello" => ib["B"] = "A"
  /\ thread["A"] # "none" => state["A"] = "S3_CStart"
  /\ thread["B"] # "none" => ib["B"] = "A" /\ (state["A"] = "S3_CStart" \/ Cued("B"))
  /\ \A e \in Ends : /\ ib[e] \in {None, Peer(e)}
                     /\ thread[e] \in {"again", "terminated"} => e = "B" /\ Cued("B")
                     /\ thread[e] \in {"none", "search"} => tunnel[e] = None

(* A magic in flight comes from the other end, out of a socket that reaches   *)
(* the one it is on its way to.                                               *)
FlightInv ==
  /\ pairing \in Pairings
  /\ \A d \in flight : d.magic \in Ends => d.magic = Peer(d.to) /\ d.from \in Partner(d.to, d.sock)

IInv == TypeOK /\ ChanInv /\ StartInv /\ FlightInv /\ PunchedToPeer

-----------------------------------------------------------------------------
(* The packets on their way *)

(* A packet is sent: the only new one, and the only START if it is one. *)
LEMMA AppendPackets ==
  ASSUME NEW s \in Seq(Packet), NEW p \in Packet
  PROVE  /\ Append(s, p) \in Seq(Packet)
         /\ Packets(Append(s, p)) = Packets(s) \cup {p}
         /\ StartOnce(s) /\ (p[1] = "START" => \A q \in Packets(s) : q[1] # "START") => StartOnce(Append(s, p))
<1> DEFINE r == Append(s, p)
<1>1. /\ r \in Seq(Packet) /\ Len(r) = Len(s) + 1 /\ Len(s) \in Nat
      /\ \A k \in 1..Len(s) : r[k] = s[k]
      /\ r[Len(s) + 1] = p
  OBVIOUS
<1> HIDE DEF r
<1>2. \A k \in 1..Len(r) : k \in 1..Len(s) \/ k = Len(s) + 1
  BY <1>1
<1>3. Packets(r) = Packets(s) \cup {p}
  BY <1>1, <1>2 DEF Packets
<1>4. ASSUME StartOnce(s), p[1] = "START" => \A q \in Packets(s) : q[1] # "START"
      PROVE  StartOnce(r)
  BY <1>1, <1>2, <1>4 DEF Packets, StartOnce
<1> QED
  BY <1>1, <1>3, <1>4 DEF r

(* A packet is taken: it was there, and no START is left if it was one. *)
LEMMA TailPackets ==
  ASSUME NEW s \in Seq(Packet), s # <<>>
  PROVE  /\ Tail(s) \in Seq(Packet) /\ Head(s) \in Packet /\ Head(s) \in Packets(s)
         /\ Packets(Tail(s)) \subseteq Packets(s)
         /\ StartOnce(s) => /\ StartOnce(Tail(s))
                            /\ Head(s)[1] = "START" => \A q \in Packets(Tail(s)) : q[1] # "START"
<1> DEFINE r == Tail(s)
           h == Head(s)
<1>1. h \in Packet /\ r \in Seq(Packet) /\ Len(s) \in Nat \ {0} /\ Len(r) = Len(s) - 1 /\ h = s[1]
  OBVIOUS
<1>2. \A k \in 1..Len(r) : r[k] = s[k + 1] /\ k + 1 \in 1..Len(s) /\ k + 1 # 1
  BY <1>1
<1> HIDE DEF h, r
<1>3. h \in Packets(s) /\ Packets(r) \subseteq Packets(s)
  BY <1>1, <1>2 DEF Packets
<1>4. ASSUME StartOnce(s), NEW k \in 1..Len(r), NEW l \in 1..Len(r), r[k][1] = "START", r[l][1] = "START"
      PROVE  k = l
  <2>1. k + 1 = l + 1
    BY <1>2, <1>4 DEF StartOnce
  <2> QED
    BY <2>1
<1>5. ASSUME StartOnce(s), h[1] = "START"
      PROVE  \A q \in Packets(r) : q[1] # "START"
  BY <1>1, <1>2, <1>5 DEF Packets, StartOnce
<1> QED
  BY <1>1, <1>3, <1>4, <1>5 DEF h, r, StartOnce

(* A session that is closed has no packets. *)
LEMMA NoPackets == <<>> \in Seq(Packet) /\ Packets(<<>>) = {} /\ StartOnce(<<>>)
  BY DEF Packets, StartOnce

(* The packets that say nothing. *)
Mere == {<<"CLOSE">>, <<"BAD">>, <<"EMPTY">>}

(* They are packets, and no part of the handshake. *)
LEMMA MerePackets ==
  /\ Mere \subseteq Packet
  /\ \A p \in Mere : p[1] # "DESCRIBE" /\ p[1] # "START"
  BY DEF Mere, Packet

(* Of what is on its way, some goes, and nothing that matters is added. *)
Less == /\ chan' \in [Ends -> Seq(Packet)]
        /\ \A e \in Ends : Packets(chan'[e]) \subseteq Packets(chan[e]) \cup Mere
        /\ StartOnce(chan["B"]) => StartOnce(chan'["B"])

(* What the close of a session does to the packets on their way, and *)
LEMMA ClosesLess ==
  ASSUME ChanInv, NEW e \in Ends, Closes(e)
  PROVE  Less
<1>1. chan \in [Ends -> Seq(Packet)]
  BY DEF ChanInv
<1>2. <<"CLOSE">> \in Mere /\ <<"CLOSE">> \in Packet /\ Peer(e) \in Ends /\ Peer(e) # e
  BY MerePackets DEF Mere, Peer, Ends
<1>3. PICK s : /\ chan' = [chan EXCEPT ![e] = <<>>, ![Peer(e)] = s]
               /\ s = chan[Peer(e)] \/ s = Append(chan[Peer(e)], <<"CLOSE">>)
  BY <1>1, <1>2 DEF Closes
<1>4. /\ s \in Seq(Packet) /\ Packets(s) \subseteq Packets(chan[Peer(e)]) \cup Mere
      /\ StartOnce(chan[Peer(e)]) => StartOnce(s)
  <2> DEFINE c == chan[Peer(e)]
             p == <<"CLOSE">>
  <2>1. c \in Seq(Packet) /\ p \in Packet /\ p \in Mere /\ p[1] # "START"
    BY <1>1, <1>2, MerePackets
  <2>2. s = c \/ s = Append(c, p)
    BY <1>3
  <2> HIDE DEF c, p
  <2>3. Append(c, p) \in Seq(Packet) /\ Packets(Append(c, p)) = Packets(c) \cup {p}
        /\ (StartOnce(c) => StartOnce(Append(c, p)))
    BY <2>1, AppendPackets
  <2> QED
    BY <2>1, <2>2, <2>3 DEF c
<1>5. \A x \in Ends : chan'[x] = IF x = e THEN <<>> ELSE s
  BY <1>1, <1>2, <1>3 DEF Peer, Ends
<1> QED
  BY <1>1, <1>3, <1>4, <1>5, NoPackets DEF Less, Ends, Peer

(* what an end does that looks at a packet and no more. *)
LEMMA TakenLess ==
  ASSUME ChanInv, NEW e \in Ends, chan[e] # <<>>, chan' = Taken(e)
  PROVE  Less
<1>1. chan \in [Ends -> Seq(Packet)]
  BY DEF ChanInv
<1>2. \A x \in Ends : chan'[x] = IF x = e THEN Tail(chan[e]) ELSE chan[x]
  BY <1>1 DEF Taken
<1>3. /\ Tail(chan[e]) \in Seq(Packet) /\ Packets(Tail(chan[e])) \subseteq Packets(chan[e])
      /\ StartOnce(chan[e]) => StartOnce(Tail(chan[e]))
  BY <1>1, TailPackets
<1> QED
  BY <1>1, <1>2, <1>3 DEF Less, Taken, Ends

(* A step of the handshake takes the packet that was next. *)
LEMMA NextPacket ==
  ASSUME TypeOK, ChanInv, NEW e \in Ends, chan[e] # <<>>
  PROVE  /\ Head(chan[e]) \in Packets(chan[e]) /\ Tail(chan[e]) \in Seq(Packet)
         /\ Packets(Tail(chan[e])) \subseteq Packets(chan[e])
         /\ chan \in [Ends -> Seq(Packet)] /\ chan[Peer(e)] \in Seq(Packet)
         /\ StartOnce(chan[e]) =>
               /\ StartOnce(Tail(chan[e]))
               /\ Head(chan[e])[1] = "START" => \A q \in Packets(Tail(chan[e])) : q[1] # "START"
<1>1. chan \in [Ends -> Seq(Packet)] /\ chan[e] \in Seq(Packet) /\ Peer(e) \in Ends
  BY DEF ChanInv, Peer, Ends
<1> QED
  BY <1>1, TailPackets

(* What came out of its turn did. *)
LEMMA CuedStays ==
  ASSUME TypeOK, [Next]_vars
  PROVE  (Cued("A") => Cued("A")') /\ (Cued("B") => Cued("B")')
<1>1. CASE UNCHANGED extra
  BY <1>1 DEF Cued
<1>2. ASSUME NEW e \in Ends, Malformed(e)
      PROVE  \A x \in Ends : extra[x] \subseteq extra'[x]
  <2>1. extra \in [Ends -> SUBSET {"DESCRIBE", "START"}]
    BY DEF TypeOK
  <2>2. PICK q : extra' = [extra EXCEPT ![e] = extra[e] \cup q]
    BY <1>2, <2>1 DEF Malformed
  <2> QED
    BY ONLY <2>1, <2>2
<1>3. ASSUME NEW e \in Ends, Malformed(e)
      PROVE  (Cued("A") => Cued("A")') /\ (Cued("B") => Cued("B")')
  BY <1>2, <1>3 DEF Cued, Cue, Ends
<1> QED
  BY <1>1, <1>3
  DEF Next, Handshake, OpenPipe, PuncherStart, OnPipe, OnPipeOpen, OnOpen, ClientOnDescribe, ServerOnDescribe,
      ServerOnStart, SessionClose, OnIgnored, OnClosePacket, Spawn, OnDatagram, Done, GiveUp,
      Lose, Stray, vars, outside

(* Such a step loses nothing of what is known of the packets. *)
LEMMA LessKeeps ==
  ASSUME ChanInv, Less, UNCHANGED ib, Cued("A") => Cued("A")', Cued("B") => Cued("B")',
         thread["B"] = "none" => thread'["B"] = "none" \/ Cued("B"),
         state["A"] = "S3_CStart" => state'["A"] = "S3_CStart"
  PROVE  ChanInv'
<1>1. \A e \in Ends : \A p \in Packets(chan'[e]) : p[1] \in {"DESCRIBE", "START"} => p \in Packets(chan[e])
  BY MerePackets DEF Less
<1>2. \A e \in Ends : \A p \in Packets(chan'[e]) : p[1] = "DESCRIBE" => p[2] = Peer(e)
  BY <1>1 DEF ChanInv
<1>3. (\E p \in Packets(chan'["A"]) : p[1] = "DESCRIBE") => ib'["B"] = "A" \/ Cued("A")'
  BY <1>1 DEF ChanInv, Ends
<1>4. (\E p \in Packets(chan'["B"]) : p[1] = "START") =>
        (thread'["B"] = "none" /\ state'["A"] = "S3_CStart") \/ Cued("B")'
  BY <1>1 DEF ChanInv, Ends
<1> QED
  BY <1>2, <1>3, <1>4 DEF ChanInv, Less

(* What is known of the packets on their way, step by step: the three of the  *)
(* handshake, in the states in which they are sent and expected.              *)
LEMMA ChanKeeps ==
  ASSUME TypeOK, ChanInv, StartInv, [Next]_vars
  PROVE  ChanInv'
<1> USE DEF session, search, outside
<1>1. CASE UNCHANGED <<chan, ib, thread, state>>
  <2>1. Less
    BY <1>1 DEF Less, ChanInv
  <2> QED
    BY <1>1, <2>1, CuedStays, LessKeeps
<1>2. ASSUME NEW e \in Ends, SessionClose(e) \/ OnIgnored(e)
      PROVE  ChanInv'
  <2>1. UNCHANGED <<ib, thread, state>> /\ (Closes(e) \/ (chan[e] # <<>> /\ chan' = Taken(e)))
    BY <1>2 DEF SessionClose, OnIgnored
  <2> QED
    BY <2>1, ClosesLess, TakenLess, LessKeeps, CuedStays
<1>3. ASSUME NEW e \in Ends, OnClosePacket(e)
      PROVE  ChanInv'
  <2>1. UNCHANGED <<ib, thread, state>> /\ chan' = [chan EXCEPT ![e] = <<>>]
    BY <1>3 DEF OnClosePacket
  <2>2. Less
    BY <2>1, NoPackets DEF ChanInv, Less, Ends
  <2> QED
    BY <2>1, <2>2, LessKeeps, CuedStays
<1>4. ASSUME NEW e \in Ends, Malformed(e)
      PROVE  ChanInv'
  <2>1. PICK p \in OutOfTurn(e) : /\ chan' = [chan EXCEPT ![e] = Append(@, p)]
                                  /\ extra' = [extra EXCEPT ![e] = @ \cup ({p[1]} \cap {"DESCRIBE", "START"})]
    BY <1>4 DEF Malformed
  <2>2. chan \in [Ends -> Seq(Packet)] /\ chan[e] \in Seq(Packet) /\ p \in Packet
    BY DEF ChanInv, OutOfTurn, Packet, Peer, Ends
  <2>3. /\ Append(chan[e], p) \in Seq(Packet) /\ Packets(Append(chan[e], p)) = Packets(chan[e]) \cup {p}
        /\ p[1] # "START" /\ StartOnce(chan[e]) => StartOnce(Append(chan[e], p))
    BY <2>2, AppendPackets
  <2>4. UNCHANGED <<ib, thread, state>>
    BY <1>4 DEF Malformed
  <2>5. CASE p \in Mere
    <3>1. p[1] # "START"
      BY <2>5, MerePackets
    <3>2. Less
      BY <2>1, <2>2, <2>3, <2>5, <3>1 DEF Less, Ends
    <3> QED
      BY <2>4, <3>2, LessKeeps, CuedStays
  <2>6. CASE p = <<"DESCRIBE", Peer(e)>>
    <3>1. p[1] = "DESCRIBE" /\ p[2] = Peer(e) /\ p[1] # "START"
      BY <2>6
    <3>2. e = "A" => Cued("A")'
      BY <2>1, <3>1 DEF Cued, Cue, TypeOK, Ends
    <3>3. \A x \in Ends : x # e => chan'[x] = chan[x]
      BY <2>1, <2>2
    <3>4. chan' \in [Ends -> Seq(Packet)] /\ chan'[e] = Append(chan[e], p)
      BY <2>1, <2>2, <2>3
    <3> HIDE DEF Cued
    <3> QED
      BY <2>3, <2>4, <3>1, <3>2, <3>3, <3>4, CuedStays DEF ChanInv, Ends
  <2>7. CASE p = <<"START">> /\ e = "B"
    <3>1. p[1] = "START" /\ p[1] # "DESCRIBE"
      BY <2>7
    <3>2. Cued("B")'
      BY <2>1, <2>7, <3>1 DEF Cued, Cue, TypeOK, Ends
    <3>3. chan'["A"] = chan["A"]
      BY <2>1, <2>2, <2>7 DEF Ends
    <3>4. chan' \in [Ends -> Seq(Packet)] /\ chan'["B"] = Append(chan["B"], p)
      BY <2>1, <2>2, <2>3, <2>7
    <3> HIDE DEF Cued
    <3> QED
      BY <2>3, <2>4, <2>7, <3>1, <3>2, <3>3, <3>4, CuedStays DEF ChanInv, Ends
  <2> QED
    BY <2>5, <2>6, <2>7 DEF OutOfTurn, Mere
<1>5. ASSUME NEW e \in Ends, Done(e)
      PROVE  ChanInv'
  <2>1. UNCHANGED <<chan, ib, state>> /\ (thread["B"] = "none" => thread'["B"] = "none")
    BY <1>5 DEF Done, TypeOK, Ends
  <2>2. Less
    BY <2>1 DEF Less, ChanInv
  <2> QED
    BY <2>1, <2>2, LessKeeps, CuedStays
<1>10. ASSUME NEW e \in Ends, GiveUp(e)
      PROVE  ChanInv'
  <2>1. UNCHANGED <<ib, state>> /\ (thread["B"] = "none" => thread'["B"] = "none")
    BY <1>10 DEF GiveUp, TypeOK, Ends
  <2>2. Closes(e) \/ UNCHANGED chan
    BY <1>10 DEF GiveUp
  <2>3. Less
    BY <2>2, ClosesLess DEF Less, ChanInv
  <2> QED
    BY <2>1, <2>3, LessKeeps, CuedStays
<1>6. CASE OnOpen
  <2> DEFINE p == <<"DESCRIBE", "A">>
             c == chan["B"]
  <2>1. c \in Seq(Packet) /\ p \in Packet /\ chan \in [Ends -> Seq(Packet)]
    BY DEF ChanInv, Packet, Ends
  <2>2. p[1] = "DESCRIBE" /\ p[2] = "A" /\ p[1] # "START"
    OBVIOUS
  <2>3. /\ chan' = [chan EXCEPT !["B"] = Append(c, p)] /\ UNCHANGED <<ib, thread, extra>> /\ state["A"] = "S0_New"
        /\ (Cued("A")' <=> Cued("A")) /\ (Cued("B")' <=> Cued("B"))
    BY <1>6 DEF OnOpen, Cued
  <2> HIDE DEF p
  <2>4. /\ Append(c, p) \in Seq(Packet) /\ Packets(Append(c, p)) = Packets(c) \cup {p}
        /\ StartOnce(c) => StartOnce(Append(c, p))
    BY <2>1, <2>2, AppendPackets
  <2>5. chan' \in [Ends -> Seq(Packet)] /\ chan'["A"] = chan["A"] /\ chan'["B"] = Append(c, p)
    BY <2>1, <2>3, <2>4 DEF Ends
  <2> QED
    BY <2>2, <2>3, <2>4, <2>5 DEF ChanInv, Ends, Peer
<1>7. CASE ClientOnDescribe
  <2>1. CASE Fail("A")
    <3>1. UNCHANGED <<ib, thread>> /\ Closes("A") /\ state["A"] # "S3_CStart"
      BY <1>7, <2>1 DEF ClientOnDescribe, Fail, Gets, TypeOK, Ends
    <3> QED
      BY <3>1, ClosesLess, LessKeeps, CuedStays DEF Ends
  <2>2. CASE ~Fail("A")
    <3> DEFINE p == <<"START">>
               c == chan["B"]
    <3>1. /\ chan["A"] # <<>> /\ state["A"] = "S1_CHello" /\ ib' = [ib EXCEPT !["A"] = Head(chan["A"])[2]]
          /\ chan' = [Taken("A") EXCEPT !["B"] = Append(@, p)] /\ Launch("A")
          /\ state' = [state EXCEPT !["A"] = "S3_CStart"] /\ UNCHANGED extra
      BY <1>7, <2>2 DEF ClientOnDescribe, Gets
    <3>2. /\ Tail(chan["A"]) \in Seq(Packet) /\ Packets(Tail(chan["A"])) \subseteq Packets(chan["A"])
          /\ c \in Seq(Packet) /\ chan \in [Ends -> Seq(Packet)]
      BY <3>1, NextPacket DEF Ends, ChanInv
    <3>3. p \in Packet /\ p[1] = "START" /\ p[1] # "DESCRIBE"
      BY DEF Packet
    <3>4. /\ Cued("B") \/ (StartOnce(c) /\ \A q \in Packets(c) : q[1] # "START")
          /\ Cued("B") \/ thread["B"] = "none"
          /\ (Cued("A")' <=> Cued("A")) /\ (Cued("B")' <=> Cued("B"))
      BY <3>1 DEF ChanInv, StartInv, Cued
    <3>5. ib'["B"] = ib["B"] /\ state'["A"] = "S3_CStart" /\ thread'["B"] = thread["B"]
      BY <3>1 DEF TypeOK, Launch, Ends
    <3>6. chan' = [[chan EXCEPT !["A"] = Tail(chan["A"])] EXCEPT !["B"] = Append(c, p)]
      BY <3>1, <3>2 DEF Taken, Ends
    <3> HIDE DEF p, c
    <3>7. /\ Append(c, p) \in Seq(Packet) /\ Packets(Append(c, p)) = Packets(c) \cup {p}
          /\ Cued("B") \/ StartOnce(Append(c, p))
      BY <3>2, <3>3, <3>4, AppendPackets
    <3>8. chan' \in [Ends -> Seq(Packet)] /\ chan'["A"] = Tail(chan["A"]) /\ chan'["B"] = Append(c, p)
      BY <3>2, <3>6, <3>7 DEF Ends
    <3> QED
      BY <3>2, <3>3, <3>4, <3>5, <3>7, <3>8 DEF ChanInv, Ends, Peer, c
  <2> QED
    BY <2>1, <2>2
<1>8. CASE ServerOnDescribe
  <2>1. CASE Fail("B")
    <3>1. /\ UNCHANGED thread /\ Closes("B") /\ (state["A"] = "S3_CStart" => state'["A"] = "S3_CStart")
          /\ state'["B"] = "SF_Error"
      BY <1>8, <2>1 DEF ServerOnDescribe, Fail, TypeOK, Ends, search
    <3>2. UNCHANGED ib
      BY <1>8, <3>1 DEF ServerOnDescribe, TypeOK, Ends
    <3> QED
      BY <3>1, <3>2, ClosesLess, LessKeeps, CuedStays DEF Ends
  <2>2. CASE ~Fail("B")
    <3> DEFINE p == <<"DESCRIBE", "B">>
               c == chan["A"]
               h == Head(chan["B"])
    <3>1. /\ chan["B"] # <<>> /\ h[1] = "DESCRIBE" /\ ib' = [ib EXCEPT !["B"] = h[2]]
          /\ chan' = [Taken("B") EXCEPT !["A"] = Append(@, p)] /\ UNCHANGED <<thread, extra>>
          /\ state' = [state EXCEPT !["B"] = "S2_SHello"]
      BY <1>8, <2>2 DEF ServerOnDescribe, Gets
    <3>2. /\ Tail(chan["B"]) \in Seq(Packet) /\ Packets(Tail(chan["B"])) \subseteq Packets(chan["B"])
          /\ StartOnce(chan["B"]) => StartOnce(Tail(chan["B"]))
          /\ c \in Seq(Packet) /\ chan \in [Ends -> Seq(Packet)] /\ h \in Packets(chan["B"])
      BY <3>1, NextPacket DEF Ends, ChanInv
    <3>3. p \in Packet /\ p[1] = "DESCRIBE" /\ p[2] = "B" /\ p[1] # "START"
      BY DEF Packet
    <3>4. ib'["B"] = "A" /\ (state["A"] = "S3_CStart" => state'["A"] = "S3_CStart")
      BY <3>1, <3>2 DEF ChanInv, TypeOK, Ends, Peer
    <3>5. chan' = [[chan EXCEPT !["B"] = Tail(chan["B"])] EXCEPT !["A"] = Append(c, p)]
      BY <3>1, <3>2 DEF Taken, Ends
    <3> HIDE DEF p, c, h
    <3>6. Append(c, p) \in Seq(Packet) /\ Packets(Append(c, p)) = Packets(c) \cup {p}
      BY <3>2, <3>3, AppendPackets
    <3>7. chan' \in [Ends -> Seq(Packet)] /\ chan'["B"] = Tail(chan["B"]) /\ chan'["A"] = Append(c, p)
      BY <3>2, <3>5, <3>6 DEF Ends
    <3>8. (Cued("A")' <=> Cued("A")) /\ (Cued("B")' <=> Cued("B"))
      BY <3>1 DEF Cued
    <3> QED
      BY <3>1, <3>2, <3>3, <3>4, <3>6, <3>7, <3>8 DEF ChanInv, Ends, Peer, c
  <2> QED
    BY <2>1, <2>2
<1>9. CASE ServerOnStart
  <2>1. CASE Fail("B")
    <3>1. /\ UNCHANGED ib /\ Closes("B") /\ (state["A"] = "S3_CStart" => state'["A"] = "S3_CStart")
          /\ UNCHANGED thread
      BY <1>9, <2>1 DEF ServerOnStart, Fail, TypeOK, Ends, Gets
    <3> QED
      BY <3>1, ClosesLess, LessKeeps, CuedStays DEF Ends
  <2>2. CASE ~Fail("B")
    <3>1. chan["B"] # <<>> /\ Head(chan["B"])[1] = "START" /\ UNCHANGED <<ib, state, extra>>
      BY <1>9, <2>2 DEF ServerOnStart, Gets
    <3>2. /\ StartOnce(chan["B"]) => \A q \in Packets(Tail(chan["B"])) : q[1] # "START"
          /\ Tail(chan["B"]) \in Seq(Packet) /\ Packets(Tail(chan["B"])) \subseteq Packets(chan["B"])
          /\ StartOnce(chan["B"]) => StartOnce(Tail(chan["B"]))
          /\ chan \in [Ends -> Seq(Packet)] /\ Head(chan["B"]) \in Packets(chan["B"])
      BY <3>1, NextPacket DEF Ends
    <3>3. (Cued("A")' <=> Cued("A")) /\ (Cued("B")' <=> Cued("B"))
      BY <3>1 DEF Cued
    <3>4. CASE Cued("B")
      <4>1. Closes("B") \/ chan' = Taken("B")
        BY <1>9, <2>2 DEF ServerOnStart
      <4>2. Less
        BY <3>1, <4>1, ClosesLess, TakenLess DEF Ends
      <4> QED
        BY <3>1, <3>3, <3>4, <4>2, LessKeeps
    <3>5. CASE ~Cued("B")
      <4>1. thread["B"] = "none" /\ StartOnce(chan["B"])
        BY <3>1, <3>2, <3>5 DEF ChanInv
      <4>2. thread'["B"] # "terminated"
        BY <1>9, <2>2, <4>1 DEF ServerOnStart, Launch, TypeOK, Ends
      <4>3. chan' = Taken("B")
        BY <1>9, <2>2, <4>2 DEF ServerOnStart
      <4>4. chan' \in [Ends -> Seq(Packet)] /\ chan'["B"] = Tail(chan["B"]) /\ chan'["A"] = chan["A"]
        BY <3>2, <4>3 DEF Taken, Ends
      <4> QED
        BY <3>1, <3>2, <3>3, <4>1, <4>4 DEF ChanInv, Ends
    <3> QED
      BY <3>4, <3>5
  <2> QED
    BY <2>1, <2>2
<1> QED
  BY <1>1, <1>2, <1>3, <1>4, <1>5, <1>6, <1>7, <1>8, <1>9, <1>10
  DEF Next, Handshake, OpenPipe, PuncherStart, OnPipe, OnPipeOpen, Lose, Spawn, OnDatagram, Stray, vars

-----------------------------------------------------------------------------
(* The start of the searches *)

(* What the ends know when they start to search, from the packet that made    *)
(* them start.                                                                *)
LEMMA StartKeeps ==
  ASSUME TypeOK, ChanInv, StartInv, [Next]_vars
  PROVE  StartInv'
<1> USE DEF session, search, outside, Ends, Peer
<1>1. (Cued("A") => Cued("A")') /\ (Cued("B") => Cued("B")')
  BY CuedStays
<1> HIDE DEF Cued
<1>2. CASE UNCHANGED <<ib, thread, state, tunnel, found>>
  BY <1>1, <1>2 DEF StartInv
<1>3. CASE OnOpen
  BY <1>1, <1>3 DEF OnOpen, StartInv, TypeOK
<1>4. CASE ClientOnDescribe
  <2>1. CASE Head(chan["A"])[1] = "DESCRIBE"
    <3>1. /\ ib' = [ib EXCEPT !["A"] = Head(chan["A"])[2]] /\ Launch("A") /\ UNCHANGED <<tunnel, found>>
          /\ state' = [state EXCEPT !["A"] = "S3_CStart"] /\ state["A"] = "S1_CHello" /\ chan["A"] # <<>>
      BY <1>4, <2>1 DEF ClientOnDescribe, Gets
    <3>2. Head(chan["A"]) \in Packets(chan["A"])
      BY <3>1, NextPacket
    <3>3. Head(chan["A"])[2] = "B" /\ (ib["B"] = "A" \/ Cued("A"))
      BY <2>1, <3>2 DEF ChanInv
    <3>4. thread["A"] = "none" /\ tunnel["A"] = None
      BY <3>1 DEF StartInv
    <3>5. thread' = [thread EXCEPT !["A"] = "search"]
      BY <3>1, <3>4 DEF Launch
    <3> QED
      BY <1>1, <3>1, <3>3, <3>4, <3>5 DEF StartInv, TypeOK
  <2>2. CASE Head(chan["A"])[1] # "DESCRIBE"
    BY <1>1, <1>4, <2>2 DEF ClientOnDescribe, Fail, Gets, StartInv, TypeOK
  <2> QED
    BY <2>1, <2>2
<1>5. CASE ServerOnDescribe
  <2>1. CASE Head(chan["B"])[1] = "DESCRIBE"
    <3>1. /\ ib' = [ib EXCEPT !["B"] = Head(chan["B"])[2]] /\ UNCHANGED <<thread, tunnel, found>>
          /\ state' = [state EXCEPT !["B"] = "S2_SHello"] /\ chan["B"] # <<>>
      BY <1>5, <2>1 DEF ServerOnDescribe, Gets
    <3>2. Head(chan["B"]) \in Packets(chan["B"])
      BY <3>1, NextPacket
    <3>3. Head(chan["B"])[2] = "A"
      BY <2>1, <3>2 DEF ChanInv
    <3> QED
      BY <1>1, <3>1, <3>3 DEF StartInv, TypeOK
  <2>2. CASE Head(chan["B"])[1] # "DESCRIBE"
    BY <1>1, <1>5, <2>2 DEF ServerOnDescribe, Fail, StartInv, TypeOK
  <2> QED
    BY <2>1, <2>2
<1>6. CASE ServerOnStart
  <2>1. CASE Head(chan["B"])[1] = "START"
    <3>1. Launch("B") /\ UNCHANGED <<state, ib, tunnel, found>> /\ chan["B"] # <<>> /\ state["B"] = "S2_SHello"
      BY <1>6, <2>1 DEF ServerOnStart, Gets
    <3>2. Head(chan["B"]) \in Packets(chan["B"])
      BY <3>1, NextPacket
    <3>3. ib["B"] = "A" /\ ((thread["B"] = "none" /\ state["A"] = "S3_CStart") \/ Cued("B"))
      BY <2>1, <3>1, <3>2 DEF ChanInv, StartInv
    <3>4. PICK t : /\ thread' = [thread EXCEPT !["B"] = t]
                   /\ (thread["B"] = "none" /\ t = "search") \/ (thread["B"] # "none" /\ t \in {"again", "terminated"})
      BY <3>1 DEF Launch
    <3>5. thread'["A"] = thread["A"] /\ thread'["B"] = t
      BY <3>4 DEF TypeOK
    <3> QED
      BY <1>1, <3>1, <3>3, <3>4, <3>5 DEF StartInv
  <2>2. CASE Head(chan["B"])[1] # "START"
    BY <1>1, <1>6, <2>2 DEF ServerOnStart, Fail, StartInv, TypeOK
  <2> QED
    BY <2>1, <2>2
<1>7. ASSUME NEW e \in Ends, Done(e) \/ GiveUp(e)
      PROVE  StartInv'
  <2>1. /\ thread[e] = "search" /\ UNCHANGED <<state, ib, found>>
        /\ \E t \in {"done", "crashed"} : thread' = [thread EXCEPT ![e] = t]
        /\ UNCHANGED tunnel \/ tunnel' = [tunnel EXCEPT ![e] = IF e \in registered THEN found[e] ELSE None]
        /\ \A x \in Ends : x # e => tunnel'[x] = tunnel[x]
    BY <1>7 DEF Done, GiveUp, StartInv
  <2>2. PICK t \in {"done", "crashed"} : \A x \in Ends : thread'[x] = IF x = e THEN t ELSE thread[x]
    BY <2>1 DEF TypeOK
  <2> QED
    BY <1>1, <2>1, <2>2 DEF StartInv
<1>8. ASSUME NEW e \in Ends, OnDatagram(e)
      PROVE  StartInv'
  BY <1>1, <1>8 DEF OnDatagram, StartInv
<1> QED
  BY <1>2, <1>3, <1>4, <1>5, <1>6, <1>7, <1>8
  DEF Next, Handshake, OpenPipe, PuncherStart, OnPipe, OnPipeOpen, SessionClose, OnIgnored, OnClosePacket,
      Malformed, Lose, Spawn, Stray, vars

-----------------------------------------------------------------------------
(* The datagrams *)

(* The peer of the peer, and what reaches what. *)
LEMMA PartnerOfPartner ==
  ASSUME NEW e \in Ends, NEW i, NEW j \in Partner(e, i), FlightInv
  PROVE  /\ Peer(e) \in Ends /\ Peer(Peer(e)) = e
         /\ i \in Socks /\ j \in Socks /\ i \in Partner(Peer(e), j)
  BY PunchConstants DEF FlightInv, Partner, Peer, Ends

(* The datagrams in flight, from the socket that sent them or was sent to. *)
LEMMA FlightKeeps ==
  ASSUME TypeOK, StartInv, FlightInv, [Next]_vars
  PROVE  FlightInv'
<1> USE DEF session, search, outside
<1>1. UNCHANGED pairing /\ \A e, i : UNCHANGED Partner(e, i)
  BY DEF Next, Handshake, OpenPipe, PuncherStart, OnPipe, OnPipeOpen, OnOpen, ClientOnDescribe, ServerOnDescribe,
         ServerOnStart, SessionClose, OnIgnored, OnClosePacket, Malformed, Spawn, OnDatagram, Done, GiveUp,
         Lose, Stray, vars, Partner
<1> DEFINE Proper(d) == d.magic \in Ends => d.magic = Peer(d.to) /\ d.from \in Partner(d.to, d.sock)
<1>2. SUFFICES ASSUME NEW d \in flight' \ flight
               PROVE  Proper(d)
  BY <1>1, <1>2 DEF FlightInv
<1>3. ASSUME NEW e \in Ends, Spawn(e)
      PROVE  Proper(d)
  <2> DEFINE i == opened[e] + 1
  <2>1. PICK j \in Partner(e, i) : d = Datagram(Peer(e), j, i, e, FALSE)
    BY <1>3 DEF Spawn
  <2>2. d.magic = e /\ d.to = Peer(e) /\ d.sock = j /\ d.from = i
    BY <2>1 DEF Datagram
  <2> HIDE DEF i
  <2> QED
    BY <2>2, PartnerOfPartner
<1>4. ASSUME NEW e \in Ends, OnDatagram(e)
      PROVE  Proper(d)
  <2>1. PICK g \in flight : g.to = e /\ g.magic = ib[e] /\ d = Datagram(Peer(e), g.from, g.sock, e, TRUE)
    BY <1>4 DEF OnDatagram, Again, IsMagic
  <2>2. ib[e] \in Ends
    BY <1>4 DEF OnDatagram, StartInv, Ends
  <2>3. g.from \in Partner(e, g.sock)
    BY <2>1, <2>2 DEF FlightInv
  <2>4. d.magic = e /\ d.to = Peer(e) /\ d.sock = g.from /\ d.from = g.sock
    BY <2>1 DEF Datagram
  <2> QED
    BY <2>3, <2>4, PartnerOfPartner
<1>5. ASSUME NEW e \in Ends, NEW i \in Socks, Stray(e, i)
      PROVE  Proper(d)
  BY <1>5 DEF Stray, Datagram, Ends
<1> QED
  BY <1>3, <1>4, <1>5
  DEF Next, Handshake, OpenPipe, PuncherStart, OnPipe, OnPipeOpen, OnOpen, ClientOnDescribe, ServerOnDescribe,
      ServerOnStart, SessionClose, OnIgnored, OnClosePacket, Malformed, Done, GiveUp, Lose, vars

(* What is found, from the datagram it was found with. *)
LEMMA FoundKeeps ==
  ASSUME TypeOK, StartInv, FlightInv, PunchedToPeer, [Next]_vars
  PROVE  PunchedToPeer'
<1> USE DEF session, search, outside
<1>1. \A e, i : UNCHANGED Partner(e, i)
  BY DEF Next, Handshake, OpenPipe, PuncherStart, OnPipe, OnPipeOpen, OnOpen, ClientOnDescribe, ServerOnDescribe,
         ServerOnStart, SessionClose, OnIgnored, OnClosePacket, Malformed, Spawn, OnDatagram, Done, GiveUp,
         Lose, Stray, vars, Partner
<1>2. CASE UNCHANGED found
  BY <1>1, <1>2 DEF PunchedToPeer
<1>3. ASSUME NEW e \in Ends, OnDatagram(e), ~UNCHANGED found
      PROVE  PunchedToPeer'
  <2>1. PICK d \in flight : /\ d.to = e /\ d.magic = ib[e]
                            /\ found' = [found EXCEPT ![e] = [own |-> d.sock, remote |-> d.from]]
    BY <1>3 DEF OnDatagram, IsMagic
  <2>2. ib[e] \in Ends
    BY <1>3 DEF OnDatagram, StartInv, Ends
  <2>3. d.from \in Partner(e, d.sock)
    BY <2>1, <2>2 DEF FlightInv
  <2>4. \A x \in Ends : x # e => found'[x] = found[x]
    BY <2>1
  <2>5. found'[e] = found[e] \/ (found'[e].own = d.sock /\ found'[e].remote = d.from)
    BY <2>1
  <2> QED
    BY <1>1, <2>3, <2>4, <2>5 DEF PunchedToPeer
<1> QED
  BY <1>2, <1>3
  DEF Next, Handshake, OpenPipe, PuncherStart, OnPipe, OnPipeOpen, OnOpen, ClientOnDescribe, ServerOnDescribe,
      ServerOnStart, SessionClose, OnIgnored, OnClosePacket, Malformed, Spawn, Done, GiveUp, Lose, Stray, vars

-----------------------------------------------------------------------------
(* The types *)

(* The types. *)
LEMMA TypeKeeps ==
  ASSUME IInv, [Next]_vars
  PROVE  TypeOK'
<1>1. TypeOK /\ ChanInv /\ StartInv /\ FlightInv
  BY DEF IInv
<1> USE DEF session, search, outside
<1>2. CASE UNCHANGED vars
  BY <1>1, <1>2 DEF TypeOK, vars
<1>3. CASE OpenPipe \/ PuncherStart \/ OnPipe \/ OnPipeOpen
  BY <1>1, <1>3 DEF OpenPipe, PuncherStart, OnPipe, OnPipeOpen, TypeOK, Ends
<1>4. ASSUME NEW e \in Ends, SessionClose(e) \/ OnIgnored(e) \/ OnClosePacket(e)
      PROVE  TypeOK'
  BY <1>1, <1>4 DEF SessionClose, OnIgnored, OnClosePacket, Closes, TypeOK
<1>5. ASSUME NEW e \in Ends, Malformed(e)
      PROVE  TypeOK'
  BY <1>1, <1>5, PunchConstants DEF Malformed, TypeOK
<1>6. CASE OnOpen
  BY <1>1, <1>6 DEF OnOpen, TypeOK
<1>7. CASE ClientOnDescribe
  <2>1. chan["A"] # <<>> => Head(chan["A"]) \in Packets(chan["A"])
    BY <1>1, NextPacket DEF Ends
  <2>2. Head(chan["A"])[1] = "DESCRIBE" /\ chan["A"] # <<>> => Head(chan["A"])[2] \in Ends
    BY <1>1, <2>1 DEF ChanInv, Ends, Peer
  <2> QED
    <3>1. CASE Head(chan["A"])[1] = "DESCRIBE"
      <4>1. /\ ib' = [ib EXCEPT !["A"] = Head(chan["A"])[2]] /\ Launch("A") /\ Head(chan["A"])[2] \in Ends
            /\ state' = [state EXCEPT !["A"] = "S3_CStart"] /\ state["A"] = "S1_CHello"
            /\ UNCHANGED <<pipe, installed, registered, opened, found, tunnel, flight, outside>>
        BY <1>7, <2>2, <3>1 DEF ClientOnDescribe, Gets
      <4>2. thread["A"] = "none"
        BY <1>1, <4>1 DEF StartInv
      <4>3. thread' = [thread EXCEPT !["A"] = "search"]
        BY <4>1, <4>2 DEF Launch
      <4> QED
        BY <1>1, <4>1, <4>3 DEF TypeOK
    <3>2. CASE Head(chan["A"])[1] # "DESCRIBE"
      BY <1>1, <1>7, <3>2 DEF ClientOnDescribe, Fail, Closes, TypeOK
    <3> QED
      BY <3>1, <3>2
<1>8. CASE ServerOnDescribe
  <2>1. chan["B"] # <<>> => Head(chan["B"]) \in Packets(chan["B"])
    BY <1>1, NextPacket DEF Ends
  <2>2. Head(chan["B"])[1] = "DESCRIBE" /\ chan["B"] # <<>> => Head(chan["B"])[2] \in Ends
    BY <1>1, <2>1 DEF ChanInv, Ends, Peer
  <2> QED
    BY <1>1, <1>8, <2>2 DEF ServerOnDescribe, Gets, Fail, Closes, TypeOK
<1>9. CASE ServerOnStart
  BY <1>1, <1>9 DEF ServerOnStart, Fail, Closes, Launch, TypeOK
<1>10. ASSUME NEW e \in Ends, Spawn(e)
      PROVE  TypeOK'
  <2> DEFINE D == [to : Ends, sock : Socks \cup {Stranger}, from : Socks \cup {Stranger},
                   magic : Ends \cup {"other"}, again : BOOLEAN]
  <2>1. /\ opened' = [opened EXCEPT ![e] = opened[e] + 1] /\ opened[e] + 1 \in Socks
        /\ UNCHANGED <<session, state, ib, thread, found, tunnel, bad, extra, lost>>
        /\ flight' = flight \cup {Datagram(Peer(e), j, opened[e] + 1, e, FALSE) : j \in Partner(e, opened[e] + 1)}
    BY <1>10 DEF Spawn
  <2>2. opened' \in [Ends -> 0..NumPorts]
    BY <1>1, <2>1, PunchConstants DEF TypeOK, Socks
  <2>3. ASSUME NEW j \in Partner(e, opened[e] + 1)
        PROVE  Datagram(Peer(e), j, opened[e] + 1, e, FALSE) \in D
    BY <2>1 DEF Datagram, Partner, Peer, Ends
  <2>4. flight' \subseteq D
    <3>1. flight \subseteq D
      BY <1>1 DEF TypeOK
    <3> HIDE DEF D
    <3> QED
      BY <2>1, <2>3, <3>1
  <2> QED
    BY <1>1, <2>1, <2>2, <2>4 DEF TypeOK
<1>11. ASSUME NEW e \in Ends, OnDatagram(e)
      PROVE  TypeOK'
  <2> DEFINE D == [to : Ends, sock : Socks \cup {Stranger}, from : Socks \cup {Stranger},
                   magic : Ends \cup {"other"}, again : BOOLEAN]
  <2>1. PICK d \in flight :
          /\ d.to = e
          /\ \/ /\ IsMagic(e, d)
                /\ found' = [found EXCEPT ![e] = [own |-> d.sock, remote |-> d.from]]
                /\ flight' = (flight \ {d}) \cup {Datagram(Peer(e), d.from, d.sock, e, TRUE)}
             \/ flight' = flight \ {d} /\ UNCHANGED found
    BY <1>11 DEF OnDatagram, Again
  <2>2. thread[e] = "search" /\ ib[e] \in Ends /\ tunnel[e] = None
    BY <1>1, <1>11 DEF OnDatagram, StartInv, Ends
  <2>3. IsMagic(e, d) => d.sock \in Socks /\ d.from \in Socks
    <3>1. IsMagic(e, d) => d.from \in Partner(e, d.sock)
      BY <1>1, <2>1, <2>2 DEF FlightInv, IsMagic
    <3> QED
      BY <1>1, <3>1, PartnerOfPartner
  <2>4. IsMagic(e, d) => Datagram(Peer(e), d.from, d.sock, e, TRUE) \in D
    BY <2>3 DEF Datagram, Peer, Ends
  <2>5. flight' \subseteq D
    BY <1>1, <2>1, <2>4 DEF TypeOK
  <2>6. IsMagic(e, d) => [own |-> d.sock, remote |-> d.from] \in SocketPair
    BY <2>3 DEF SocketPair
  <2>7. \A x \in Ends : found'[x] \in SocketPair \cup {None} /\ tunnel[x] \in {None, found'[x]}
    BY <1>1, <2>1, <2>2, <2>6 DEF TypeOK, StartInv
  <2>8. UNCHANGED <<session, state, ib, thread, opened, tunnel, bad, extra, lost>>
    BY <1>11 DEF OnDatagram
  <2> QED
    BY <1>1, <2>5, <2>7, <2>8 DEF TypeOK
<1>12. ASSUME NEW e \in Ends, Done(e)
      PROVE  TypeOK'
  BY <1>1, <1>12 DEF Done, TypeOK, StartInv
<1>15. ASSUME NEW e \in Ends, GiveUp(e)
      PROVE  TypeOK'
  BY <1>1, <1>15 DEF GiveUp, Closes, TypeOK
<1>13. CASE Lose
  BY <1>1, <1>13 DEF Lose, TypeOK
<1>14. ASSUME NEW e \in Ends, NEW i \in Socks, Stray(e, i)
      PROVE  TypeOK'
  <2>1. Datagram(e, i, Stranger, "other", FALSE) \in
          [to : Ends, sock : Socks \cup {Stranger}, from : Socks \cup {Stranger},
           magic : Ends \cup {"other"}, again : BOOLEAN]
    BY DEF Datagram
  <2> QED
    BY <1>1, <1>14, <2>1 DEF Stray, TypeOK
<1> QED
  BY <1>2, <1>3, <1>4, <1>5, <1>6, <1>7, <1>8, <1>9, <1>10, <1>11, <1>12, <1>13, <1>14, <1>15 DEF Next, Handshake

-----------------------------------------------------------------------------
(* The theorems *)

(* Nothing is sent, known or searched yet. *)
LEMMA InitHolds == ASSUME Init PROVE IInv
<1>1. TypeOK
  <2>1. opened \in [Ends -> 0..NumPorts] /\ bad \in 0..MaxBad
    BY PunchConstants DEF Init
  <2>2. \A e \in Ends : found[e] = None /\ tunnel[e] = None
    BY DEF Init
  <2>3. flight = {} /\ pipe = "none" /\ installed = FALSE /\ registered = {} /\ lost = FALSE
    BY DEF Init
  <2>4. /\ extra \in [Ends -> SUBSET {"DESCRIBE", "START"}] /\ state \in [Ends -> {"S0_New"}] /\ ib \in [Ends -> {None}] /\ thread \in [Ends -> {"none"}]
    BY DEF Init
  <2> QED
    BY <2>1, <2>2, <2>3, <2>4 DEF TypeOK
<1>2. ChanInv
  BY NoPackets DEF Init, ChanInv, Ends
<1>3. StartInv /\ FlightInv /\ PunchedToPeer
  BY DEF Init, StartInv, FlightInv, PunchedToPeer, Ends
<1> QED
  BY <1>1, <1>2, <1>3 DEF IInv

(* The invariant. *)
THEOREM Invariance == Spec => []IInv
<1>1. IInv /\ [Next]_vars => IInv'
  BY ChanKeeps, StartKeeps, FlightKeeps, FoundKeeps, TypeKeeps DEF IInv
<1> QED
  BY <1>1, InitHolds, PTL DEF Spec

(* The types: a socket of a tunnel is one the end has opened and searched     *)
(* with, and the tunnel is the pair that was found.                           *)
THEOREM TypesCorrect == Spec => []TypeOK
<1>1. IInv => TypeOK
  BY DEF IInv
<1> QED
  BY <1>1, Invariance, PTL

(* Whatever packets come, in whatever states, and whenever the session        *)
(* closes: an end that searches is known to the other by its magic, unless    *)
(* the packet on which it starts came out of its turn, and only such a start  *)
(* makes the server search again or lose its process (punch.cpp on_packet(),  *)
(* sym_sym.cpp async_launch()).                                               *)
THEOREM SearchesStartRight == Spec => []MagicsCrossed
<1>1. IInv => MagicsCrossed
  BY DEF IInv, StartInv, MagicsCrossed, Cued, Cue, Ends, Peer
<1> QED
  BY <1>1, Invariance, PTL

(* However datagrams are lost, delayed, reordered or not part of the attempt, *)
(* and however many sockets each end opens: the pair it finds is one that     *)
(* reaches, out of the NATs, a socket of the other (sym_sym.cpp on_packet()). *)
THEOREM PairReaches == Spec => []PunchedToPeer
<1>1. IInv => PunchedToPeer
  BY DEF IInv
<1> QED
  BY <1>1, Invariance, PTL
==============================================================================
