---------------------------- MODULE RouterProofs ----------------------------
(***************************************************************************)
(* StreamIntact of Router for every number of packets, set of ports and    *)
(* set of allowed ports.  StreamIntact is not inductive: StreamInv adds    *)
(* where each side is (SideInv, AskInv), what the packets on their way say *)
(* of their sender (ChanInv, AnswerInv), and that the bytes read from the  *)
(* socket of one side are those handed to the socket of the other followed *)
(* by those on their way, for as long as they can still be (OrderInv).     *)
(***************************************************************************)
EXTENDS Router, TLAPS

(* The packets of a pipe, and the types of the state. *)
Packets == ({"REQ"} \X Ports) \cup ({"DATA"} \X Nat) \cup {<<"RESP">>, <<"CLOSE">>}

TypeInv ==
  /\ routers \subseteq Sides /\ eof \subseteq Sides /\ overtaken \subseteq Sides
  /\ route \in [Sides -> {"none", "listed", "erased"}]
  /\ pipe \in [Sides -> {"None", "OpenRequstSent", "OpenRequstRecv", "Opened", "Closed"}]
  /\ timer \in BOOLEAN /\ closeReq \in [Sides -> BOOLEAN] /\ gaveUp \in BOOLEAN
  /\ sock \in [Sides -> {"none", "associated", "added", "polled", "closed", "failed"}]
  /\ tunnel \in [Sides -> {"wait", "closing", "stuck"}]
  /\ loop \in [Sides -> {"wait", "starting", "closing"}]
  /\ link \in [Sides -> {"up", "down"}]
  /\ app \in [Sides -> {"away", "connecting", "open", "refused", "closed"}]
  /\ sent \in [Sides -> 0..MaxData] /\ unread \in [Sides -> Nat] /\ passed \in [Sides -> Nat]
  /\ chan \in [Sides -> Seq(Packets)] /\ kin \in [Sides -> Seq(Nat)] /\ got \in [Sides -> Seq(Nat)]

HasIn(c, type) == \E k \in 1..Len(c) : c[k][1] = type
Has(s, type) == HasIn(chan[s], type)

(* What a side is before it takes part. *)
Untouched(s) ==
  /\ pipe[s] = "None" /\ sock[s] = "none" /\ loop[s] = "wait" /\ tunnel[s] = "wait"
  /\ app[s] = "away" /\ ~closeReq[s] /\ s \notin eof
  /\ kin[s] = <<>> /\ sent[s] = 0 /\ chan[Peer(s)] = <<>>

(* The route, the socket, the pipe and the program of a side.                 *)
SideInv ==
  /\ \A s \in Sides : route[s] = "none" => Untouched(s)
  /\ \A s \in Sides : route[s] # "none" => pipe[s] # "None" /\ sock[s] # "none"
  /\ route["C"] = "none" => route["S"] = "none" /\ ~gaveUp
  /\ \A s \in Sides : loop[s] = "closing" => sock[s] = "closed"
  /\ \A s \in Sides : loop[s] = "starting" => s = "S" /\ sock[s] = "polled"
  /\ app["S"] = "away" <=> sock["S"] \in {"none", "added", "failed"}
  /\ app["C"] = "away" <=> route["C"] = "none"
  /\ sock["C"] # "failed" /\ sock["S"] # "associated"
  /\ pipe["S"] = "Opened" => sock["S"] \in {"polled", "closed"}
  /\ pipe["S"] # "OpenRequstSent" /\ pipe["C"] # "OpenRequstRecv"
  /\ sock["S"] = "polled" /\ Alive("S") /\ loop["S"] # "starting" => pipe["S"] \in {"Opened", "Closed"}

(* While C waits for the answer its socket waits with it. *)
AskInv ==
  pipe["C"] = "OpenRequstSent" /\ link["C"] = "up" =>
    /\ sock["C"] = "associated" /\ ~closeReq["C"] /\ route["C"] = "listed"
    /\ loop["C"] = "wait" /\ tunnel["C"] = "wait"

(* S has answered. *)
Answered == /\ sock["S"] \in {"polled", "closed"} /\ pipe["S"] \in {"Opened", "Closed"}
            /\ loop["S"] # "starting"

(* The request is the first packet to S, which has no route yet. *)
ReqFirst == \A k \in 1..Len(chan["S"]) : chan["S"][k][1] = "REQ" => k = 1 /\ route["S"] = "none"

(* What the packets on their way say of their sender. *)
ChanInv ==
  /\ ReqFirst
  /\ ~Has("C", "REQ") /\ ~Has("S", "RESP")
  /\ pipe["S"] \in {"None", "OpenRequstRecv"} \/ loop["S"] = "starting" => chan["C"] = <<>>
  /\ pipe["C"] = "OpenRequstSent" /\ chan["C"] # <<>> => Head(chan["C"]) = <<"RESP">>
  /\ \A s \in Sides : Has(Peer(s), "CLOSE") => pipe[s] = "Closed" /\ loop[s] # "starting"

(* Signs that C is past its request. *)
PastRequest ==
  \/ sock["C"] \in {"added", "polled"} \/ pipe["C"] = "Opened" \/ loop["C"] = "closing"
  \/ Has("C", "RESP") \/ Has("C", "CLOSE") \/ Has("S", "DATA")
  \/ (pipe["C"] = "Closed" /\ ~gaveUp)

(* C is past its request only once S has answered it, and S has ended only if *)
(* C has, or the tunnel, or its own program.                                  *)
AnswerInv ==
  /\ PastRequest => Answered
  /\ route["S"] = "erased" \/ tunnel["S"] = "closing" \/ pipe["S"] = "Closed"
     => pipe["C"] = "Closed" \/ ~Up \/ sock["S"] = "closed"
  /\ /\ pipe["C"] = "OpenRequstSent" /\ Up /\ Alive("S")
     /\ sock["S"] \in {"polled", "closed"} /\ loop["S"] # "starting"
     => chan["C"] # <<>>

Base == TypeInv /\ SideInv /\ AskInv /\ ChanInv /\ AnswerInv

SideStep(s) == \/ s = "C" /\ \E port \in Ports : OnAccept(port)
               \/ TunnelStep(s) \/ LoopStep(s) \/ LinkClose(s) \/ AppSend(s) \/ AppClose(s)

LEMMA TwoSides ==
  /\ Sides = {"C", "S"} /\ Peer("C") = "S" /\ Peer("S") = "C"
  /\ \A s \in Sides : Peer(s) \in Sides /\ Peer(s) # s /\ Peer(Peer(s)) = s
BY DEF Sides, Peer

LEMMA SendsTo ==
  ASSUME chan \in [Sides -> Seq(Packets)], NEW s \in Sides, NEW m \in Packets
  PROVE  /\ Sends(s, m) \in [Sides -> Seq(Packets)]
         /\ Sends(s, m)[s] = chan[s]
         /\ Sends(s, m)[Peer(s)] = IF Up THEN Append(chan[Peer(s)], m) ELSE chan[Peer(s)]
<1>1. Up <=> link[s] = "up" /\ link[Peer(s)] = "up"
  BY DEF Up, Sides, Peer
<1>2. Peer(s) \in Sides /\ Peer(s) # s
  BY TwoSides
<1> QED
  BY <1>1, <1>2 DEF Sends


LEMMA TakesFrom ==
  ASSUME chan \in [Sides -> Seq(Packets)], NEW s \in Sides, chan[s] # <<>>
  PROVE  Taken(s) \in [Sides -> Seq(Packets)] /\ Taken(s)[s] = Tail(chan[s])
         /\ Taken(s)[Peer(s)] = chan[Peer(s)] /\ Head(chan[s]) \in Packets
BY TwoSides DEF Taken

LEMMA PacketKinds ==
  /\ <<"RESP">> \in Packets /\ <<"CLOSE">> \in Packets
  /\ \A n \in Nat : <<"DATA", n>> \in Packets
  /\ \A port \in Ports : <<"REQ", port>> \in Packets
  /\ \A m \in Packets : /\ m[1] \in {"REQ", "RESP", "DATA", "CLOSE"}
                        /\ m[1] = "RESP" => m = <<"RESP">>
                        /\ m[1] = "CLOSE" => m = <<"CLOSE">>
                        /\ m[1] = "DATA" => m = <<"DATA", m[2]>> /\ m[2] \in Nat
BY DEF Packets

LEMMA ChanKept ==
  ASSUME TypeInv, [Next]_vars
  PROVE  chan' \in [Sides -> Seq(Packets)]
<1> USE TwoSides, SendsTo, TakesFrom, PacketKinds DEF TypeInv
<1>1. ASSUME NEW port \in Ports, OnAccept(port) PROVE chan' \in [Sides -> Seq(Packets)]
  BY <1>1 DEF OnAccept, StartClient
<1>2. ASSUME NEW s \in Sides,
             (s = "S" /\ OnPipe) \/ (s = "C" /\ OnPipeOpen) \/ OnPipePacket(s) \/ OnClosePacket(s)
      PROVE  chan' \in [Sides -> Seq(Packets)]
  <2>1. chan' = Taken(s) /\ chan[s] # <<>> /\ chan \in [Sides -> Seq(Packets)]
    BY <1>2 DEF OnPipe, OnPipeOpen, OnPipePacket, OnClosePacket, Receives
  <2> QED
    BY ONLY <2>1, TakesFrom, s \in Sides
<1>3. ASSUME NEW s \in Sides, SocketClose(s) \/ PipeClose(s) \/ (s = "C" /\ OnOpenExpired)
      PROVE  chan' \in [Sides -> Seq(Packets)]
  <2>1. chan' = chan \/ chan' = Sends(s, <<"CLOSE">>)
    BY <1>3 DEF SocketClose, PipeClose, OnOpenExpired
  <2> QED
    BY <2>1
<1>4. ASSUME NEW s \in Sides, PipeStart(s) PROVE chan' \in [Sides -> Seq(Packets)]
  <2>1. \/ chan' = Sends(s, <<"RESP">>)
        \/ chan' = [Sends(s, <<"RESP">>) EXCEPT ![Peer(s)] = Append(@, <<"CLOSE">>)]
    BY <1>4 DEF PipeStart
  <2>2. PICK c \in [Sides -> Seq(Packets)] : c = Sends(s, <<"RESP">>)
    OBVIOUS
  <2>3. c[Peer(s)] \in Seq(Packets) /\ Append(c[Peer(s)], <<"CLOSE">>) \in Seq(Packets)
    OBVIOUS
  <2> QED
    BY ONLY <2>1, <2>2, <2>3
<1>5. ASSUME NEW s \in Sides, ReadSocket(s) PROVE chan' \in [Sides -> Seq(Packets)]
  <2>1. chan' = chan \/ chan' = Sends(s, <<"DATA", Head(kin[s])>>)
    BY <1>5 DEF ReadSocket
  <2>2. Head(kin[s]) \in Nat
    <3>1. kin[s] \in Seq(Nat) /\ kin[s] # <<>>
      BY <1>5 DEF ReadSocket
    <3> QED
      BY ONLY <3>1
  <2>3. Sends(s, <<"DATA", Head(kin[s])>>) \in [Sides -> Seq(Packets)]
    <3>1. <<"DATA", Head(kin[s])>> \in Packets
      BY ONLY <2>2, PacketKinds
    <3>2. chan \in [Sides -> Seq(Packets)]
      OBVIOUS
    <3> QED
      BY ONLY <3>1, <3>2, SendsTo, s \in Sides
  <2> QED
    BY <2>1, <2>3
<1>6. ASSUME NEW s \in Sides, LinkClose(s) PROVE chan' \in [Sides -> Seq(Packets)]
  <2>1. chan' = [chan EXCEPT ![s] = <<>>]
    BY ONLY <1>6 DEF LinkClose
  <2>2. chan \in [Sides -> Seq(Packets)]
    OBVIOUS
  <2>3. <<>> \in Seq(Packets)
    OBVIOUS
  <2> QED
    BY ONLY <2>1, <2>2, <2>3
<1>7. ASSUME NEW s \in Sides, AddSocket(s) \/ ConnectEnds(s) \/ ExecClose(s) \/ AppSend(s) \/ AppClose(s)
      PROVE  chan' \in [Sides -> Seq(Packets)]
  BY <1>7 DEF AddSocket, ConnectEnds, ExecClose, AppSend, AppClose
<1>8. CASE UNCHANGED vars
  BY <1>8 DEF vars
<1> QED
  BY <1>1, <1>2, <1>3, <1>4, <1>5, <1>6, <1>7, <1>8 DEF Next, TunnelStep, LoopStep

LEMMA TypeKept ==
  ASSUME TypeInv, [Next]_vars
  PROVE  TypeInv'
<1> USE TwoSides, ChanKept DEF TypeInv
<1>1. ASSUME NEW port \in Ports, OnAccept(port) PROVE TypeInv'
  BY <1>1 DEF OnAccept, StartClient, seen, lapses
<1>2. CASE OnPipe
  BY <1>2 DEF OnPipe, Receives, StartServer, Taken, appVars, seen, lapses
<1>3. CASE OnPipeOpen
  BY <1>3 DEF OnPipeOpen, Receives, Taken, appVars, seen, lapses
<1>4. CASE OnOpenExpired
  <2>1. /\ pipe' \in {pipe, [pipe EXCEPT !["C"] = "Closed"]} /\ timer' = FALSE
        /\ route' \in {route, [route EXCEPT !["C"] = "erased"]}
        /\ tunnel' \in {tunnel, [tunnel EXCEPT !["C"] = "closing"]} /\ gaveUp' \in BOOLEAN
        /\ UNCHANGED <<routers, sock, closeReq, loop, link, kin, app, sent, passed, got, eof, unread, overtaken>>
    BY <1>4 DEF OnOpenExpired, OnPipeClose, Erased, socketVars, appVars, seen, lapses
  <2>2. /\ pipe' \in [Sides -> {"None", "OpenRequstSent", "OpenRequstRecv", "Opened", "Closed"}]
        /\ route' \in [Sides -> {"none", "listed", "erased"}]
        /\ tunnel' \in [Sides -> {"wait", "closing", "stuck"}]
    BY <2>1
  <2>3. timer' \in BOOLEAN /\ gaveUp' \in BOOLEAN
    BY <2>1
  <2> QED
    BY <2>1, <2>2, <2>3
<1>5. ASSUME NEW s \in Sides, OnPipePacket(s) PROVE TypeInv'
  <2>1. /\ UNCHANGED <<routers, route, pipe, timer, socketVars, tunnel, loop, link, appVars, eof, lapses>>
        /\ passed' = passed \/ passed' = [passed EXCEPT ![s] = @ + 1]
    BY <1>5 DEF OnPipePacket, SocketSend
  <2>2. got' \in [Sides -> Seq(Nat)]
    <3>1. Head(chan[s])[2] \in Nat
      BY <1>5, TakesFrom, PacketKinds DEF OnPipePacket, Receives
    <3>2. got' = got \/ got' = [got EXCEPT ![s] = Append(@, Head(chan[s])[2])]
      BY <1>5 DEF OnPipePacket, SocketSend
    <3>3. got \in [Sides -> Seq(Nat)] /\ s \in Sides
      OBVIOUS
    <3>4. got[s] \in Seq(Nat) /\ Append(got[s], Head(chan[s])[2]) \in Seq(Nat)
      BY ONLY <3>1, <3>3
    <3> QED
      BY ONLY <3>2, <3>3, <3>4
  <2>3. passed' \in [Sides -> Nat]
    <3>1. passed \in [Sides -> Nat]
      OBVIOUS
    <3> QED
      BY ONLY <2>1, <3>1
  <2> QED
    BY <2>1, <2>2, <2>3 DEF socketVars, appVars, lapses
<1>6. ASSUME NEW s \in Sides, OnClosePacket(s) PROVE TypeInv'
  <2>1. /\ pipe' \in {pipe, [pipe EXCEPT ![s] = "Closed"]}
        /\ route' \in {route, [route EXCEPT ![s] = "erased"]}
        /\ tunnel' \in {tunnel, [tunnel EXCEPT ![s] = "closing"]}
        /\ UNCHANGED <<routers, timer, sock, closeReq, loop, link, kin, app, sent, passed, got, eof, unread, overtaken, gaveUp>>
    <3>1. pipe' \in {pipe, [pipe EXCEPT ![s] = "Closed"]}
      BY <1>6 DEF OnClosePacket
    <3> QED
      BY <1>6, <3>1 DEF OnClosePacket, OnPipeClose, Erased, socketVars, appVars, seen, lapses
  <2> QED
    BY <2>1
<1>7. ASSUME NEW s \in Sides, SocketClose(s) PROVE TypeInv'
  BY <1>7 DEF SocketClose, appVars, seen, lapses
<1>8. ASSUME NEW s \in Sides, AddSocket(s) PROVE TypeInv'
  <2>1. /\ sock' \in {[sock EXCEPT ![s] = "polled"], [sock EXCEPT ![s] = "failed"]}
        /\ app' \in {app, [app EXCEPT ![s] = "connecting"], [app EXCEPT ![s] = "open"]}
        /\ loop' = loop \/ loop' = [loop EXCEPT ![s] = "starting"] \/ loop' = [loop EXCEPT ![s] = loop[s]]
        /\ UNCHANGED <<routers, route, pipe, timer, closeReq, tunnel, link, kin, seen, sent, lapses>>
    BY <1>8 DEF AddSocket
  <2>2. /\ sock' \in [Sides -> {"none", "associated", "added", "polled", "closed", "failed"}]
        /\ app' \in [Sides -> {"away", "connecting", "open", "refused", "closed"}]
        /\ loop' \in [Sides -> {"wait", "starting", "closing"}]
    BY <2>1
  <2> QED
    BY <2>1, <2>2 DEF seen, lapses
<1>17. ASSUME NEW s \in Sides, ConnectEnds(s) PROVE TypeInv'
  <2>1. /\ app' \in {[app EXCEPT ![s] = "open"], [app EXCEPT ![s] = "refused"]}
        /\ closeReq' = closeReq \/ closeReq' = [closeReq EXCEPT ![s] = TRUE]
        /\ UNCHANGED <<routers, route, pipe, timer, sock, tunnel, loop, link, kin, seen, sent, lapses>>
    BY <1>17 DEF ConnectEnds
  <2>2. app' \in [Sides -> {"away", "connecting", "open", "refused", "closed"}]
    BY <2>1
  <2>3. closeReq' \in [Sides -> BOOLEAN]
    <3>1. closeReq \in [Sides -> BOOLEAN]
      OBVIOUS
    <3> QED
      BY ONLY <2>1, <3>1
  <2> QED
    BY <2>1, <2>2, <2>3 DEF seen, lapses
<1>9. ASSUME NEW s \in Sides, PipeStart(s) PROVE TypeInv'
  BY <1>9 DEF PipeStart, socketVars, appVars, seen, lapses
<1>10. ASSUME NEW s \in Sides, ReadSocket(s) PROVE TypeInv'
  <2>1. /\ kin[s] # <<>> /\ kin' \in {[kin EXCEPT ![s] = Tail(kin[s])], [kin EXCEPT ![s] = <<>>]}
        /\ closeReq' = closeReq \/ closeReq' = [closeReq EXCEPT ![s] = TRUE]
        /\ UNCHANGED <<routers, route, pipe, timer, sock, tunnel, loop, link, app, seen, sent, overtaken, gaveUp>>
    BY <1>10 DEF ReadSocket, HangUp
  <2>2. kin' \in [Sides -> Seq(Nat)]
    <3>1. kin[s] \in Seq(Nat) /\ kin[s] # <<>>
      BY <2>1
    <3>2. Tail(kin[s]) \in Seq(Nat) /\ <<>> \in Seq(Nat)
      BY ONLY <3>1
    <3>3. kin \in [Sides -> Seq(Nat)]
      OBVIOUS
    <3> QED
      BY ONLY <2>1, <3>2, <3>3
  <2>3. unread' \in [Sides -> Nat]
    <3>1. CASE unread' = unread
      BY <3>1
    <3>2. CASE HangUp(s) /\ Head(kin[s]) # EOF
      <4>1. kin[s] \in Seq(Nat) /\ kin[s] # <<>> /\ Head(kin[s]) # EOF /\ kin[s][Len(kin[s])] = EOF
        BY <2>1, <3>2 DEF HangUp
      <4>2. Len(kin[s]) \in Nat /\ Len(kin[s]) >= 1 /\ Len(kin[s]) # 1
        BY ONLY <4>1
      <4>3. \A l \in Nat : l >= 1 /\ l # 1 => l - 2 \in Nat
        OBVIOUS
      <4>5. Len(kin[s]) - 2 \in Nat
        BY ONLY <4>2, <4>3
      <4>6. unread \in [Sides -> Nat]
        OBVIOUS
      <4>4. unread' = [unread EXCEPT ![s] = @ + (Len(kin[s]) - 2)]
        BY <3>2 DEF HangUp
      <4> QED
        BY ONLY <4>4, <4>5, <4>6
    <3> QED
      BY <1>10, <3>1, <3>2 DEF ReadSocket
  <2> QED
    BY <2>1, <2>2, <2>3 DEF seen
<1>11. ASSUME NEW s \in Sides, ExecClose(s) PROVE TypeInv'
  <2>1. /\ closeReq' = [closeReq EXCEPT ![s] = FALSE]
        /\ sock' \in {sock, [sock EXCEPT ![s] = "closed"]} /\ eof' \in {eof, eof \cup {s}}
        /\ route' \in {route, [route EXCEPT ![s] = "erased"]}
        /\ loop' \in {loop, [loop EXCEPT ![s] = "closing"]}
        /\ overtaken' \in {overtaken, overtaken \cup {s}}
        /\ UNCHANGED <<routers, pipe, timer, tunnel, link, kin, app, sent, passed, got, unread, gaveUp>>
    BY <1>11 DEF ExecClose, Erased, appVars
  <2> QED
    BY <2>1
<1>12. ASSUME NEW s \in Sides, PipeClose(s) PROVE TypeInv'
  <2>1. /\ loop' = [loop EXCEPT ![s] = "wait"]
        /\ pipe' = pipe \/ pipe' = [pipe EXCEPT ![s] = "Closed"]
        /\ closeReq' = closeReq \/ closeReq' = [closeReq EXCEPT ![s] = TRUE]
        /\ UNCHANGED <<routers, route, timer, sock, tunnel, link, kin, app, sent, passed, got, eof, unread, overtaken, gaveUp>>
    BY ONLY <1>12 DEF PipeClose, appVars, seen, lapses
  <2>2. /\ loop \in [Sides -> {"wait", "starting", "closing"}] /\ closeReq \in [Sides -> BOOLEAN]
        /\ pipe \in [Sides -> {"None", "OpenRequstSent", "OpenRequstRecv", "Opened", "Closed"}]
    OBVIOUS
  <2>3. loop' \in [Sides -> {"wait", "starting", "closing"}]
    BY ONLY <2>1, <2>2, s \in Sides
  <2>4. closeReq' \in [Sides -> BOOLEAN]
    BY ONLY <2>1, <2>2, s \in Sides
  <2>5. pipe' \in [Sides -> {"None", "OpenRequstSent", "OpenRequstRecv", "Opened", "Closed"}]
    BY ONLY <2>1, <2>2, s \in Sides
  <2> QED
    BY <2>1, <2>3, <2>4, <2>5
<1>13. ASSUME NEW s \in Sides, LinkClose(s) PROVE TypeInv'
  <2>1. /\ link' = [link EXCEPT ![s] = "down"]
        /\ tunnel' = [tunnel EXCEPT ![s] = "stuck"] \/ tunnel' = [tunnel EXCEPT ![s] = tunnel[s]]
        /\ routers' \subseteq routers /\ route' \in {route, [route EXCEPT ![s] = "erased"]}
        /\ UNCHANGED <<pipe, timer, sock, loop, kin, app, sent, passed, got, eof, unread, overtaken, gaveUp>>
    BY ONLY <1>13 DEF LinkClose, Erased, appVars, seen, lapses
  <2>2. closeReq' \in [Sides -> BOOLEAN]
    <3>1. closeReq' = [closeReq EXCEPT ![s] = @ \/ (route[s] = "listed" /\ pipe[s] # "Closed")]
      BY ONLY <1>13 DEF LinkClose
    <3>2. closeReq \in [Sides -> BOOLEAN]
      OBVIOUS
    <3> QED
      BY ONLY <3>1, <3>2
  <2>3. /\ link' \in [Sides -> {"up", "down"}] /\ route' \in [Sides -> {"none", "listed", "erased"}]
        /\ tunnel' \in [Sides -> {"wait", "closing", "stuck"}] /\ routers' \subseteq Sides
    BY <2>1
  <2> QED
    BY <2>1, <2>2, <2>3
<1>14. ASSUME NEW s \in Sides, AppSend(s) PROVE TypeInv'
  <2>1. /\ sent' = [sent EXCEPT ![s] = @ + 1] /\ sent[s] < MaxData
        /\ kin' = [kin EXCEPT ![s] = Append(@, sent[s] + 1)]
        /\ UNCHANGED <<routers, route, pipe, timer, chan, sock, closeReq, tunnel, loop, link, app, passed, got, eof,
                       unread, overtaken, gaveUp>>
    BY <1>14 DEF AppSend, socketVars, seen, lapses
  <2>2. sent[s] \in Nat /\ sent[s] + 1 \in 0..MaxData
    BY <2>1, RouterConstants
  <2>3. sent' \in [Sides -> 0..MaxData] /\ kin' \in [Sides -> Seq(Nat)]
    BY <2>1, <2>2
  <2> QED
    BY <2>1, <2>3
<1>15. ASSUME NEW s \in Sides, AppClose(s) PROVE TypeInv'
  <2>1. /\ app' = [app EXCEPT ![s] = "closed"] /\ kin' = [kin EXCEPT ![s] = Append(@, 0)]
        /\ UNCHANGED <<routers, route, pipe, timer, chan, sock, closeReq, tunnel, loop, link, passed, got, eof,
                       sent, unread, overtaken, gaveUp>>
    BY <1>15 DEF AppClose, EOF, socketVars, seen, lapses
  <2>2. kin' \in [Sides -> Seq(Nat)] /\ app' \in [Sides -> {"away", "connecting", "open", "refused", "closed"}]
    BY <2>1
  <2> QED
    BY <2>1, <2>2
<1>16. CASE UNCHANGED vars
  BY <1>16 DEF vars
<1> QED
  BY <1>1, <1>2, <1>3, <1>4, <1>5, <1>6, <1>7, <1>8, <1>9, <1>10, <1>11, <1>12, <1>13, <1>14, <1>15,
     <1>16, <1>17 DEF Next, TunnelStep, LoopStep
(* A step of one side leaves the state of the other alone, but for what it    *)
(* sends.                                                                     *)
LEMMA OtherSide ==
  ASSUME TypeInv, NEW s \in Sides, SideStep(s), NEW t \in Sides, t # s
  PROVE  /\ route'[t] = route[t] /\ pipe'[t] = pipe[t] /\ sock'[t] = sock[t]
         /\ closeReq'[t] = closeReq[t] /\ tunnel'[t] = tunnel[t] /\ loop'[t] = loop[t]
         /\ link'[t] = link[t] /\ kin'[t] = kin[t] /\ app'[t] = app[t] /\ sent'[t] = sent[t]
         /\ passed'[t] = passed[t] /\ got'[t] = got[t] /\ (t \in eof' <=> t \in eof)
         /\ unread'[t] = unread[t]
<1> USE DEF TypeInv
<1>1. ASSUME NEW port \in Ports, s = "C", OnAccept(port)
      PROVE  /\ route'[t] = route[t] /\ pipe'[t] = pipe[t] /\ sock'[t] = sock[t]
             /\ closeReq'[t] = closeReq[t] /\ tunnel'[t] = tunnel[t] /\ loop'[t] = loop[t]
             /\ link'[t] = link[t] /\ kin'[t] = kin[t] /\ app'[t] = app[t] /\ sent'[t] = sent[t]
             /\ passed'[t] = passed[t] /\ got'[t] = got[t] /\ (t \in eof' <=> t \in eof)
             /\ unread'[t] = unread[t]
  BY <1>1 DEF OnAccept, StartClient, seen, lapses
<1>2. CASE TunnelStep(s)
  BY <1>2 DEF TunnelStep, OnPipe, StartServer, OnPipeOpen, OnOpenExpired, OnPipePacket, SocketSend, OnClosePacket,
              SocketClose, OnPipeClose, Erased, socketVars, appVars, seen, lapses
<1>3. CASE AddSocket(s) \/ ConnectEnds(s) \/ PipeStart(s)
  BY <1>3 DEF AddSocket, ConnectEnds, PipeStart, socketVars, appVars, seen, lapses
<1>6. CASE ExecClose(s) \/ PipeClose(s)
  BY <1>6 DEF ExecClose, PipeClose, Erased, socketVars, appVars, seen, lapses
<1>5. CASE ReadSocket(s)
  BY <1>5 DEF ReadSocket, HangUp, seen
<1>4. CASE LinkClose(s) \/ AppSend(s) \/ AppClose(s)
  BY <1>4 DEF LinkClose, AppSend, AppClose, Erased, socketVars, appVars, seen, lapses
<1> QED
  BY <1>1, <1>2, <1>3, <1>4, <1>5, <1>6 DEF SideStep, LoopStep

(* What a step does to a channel.                                             *)
Takes(s) == /\ link[s] = "up" /\ tunnel[s] = "wait" /\ chan[s] # <<>> /\ chan'[s] = Tail(chan[s])
            /\ \/ s = "S" /\ OnPipe /\ Head(chan[s])[1] = "REQ"
               \/ s = "C" /\ OnPipeOpen /\ Head(chan[s])[1] = "RESP"
               \/ OnPipePacket(s) /\ Head(chan[s])[1] = "DATA"
               \/ OnClosePacket(s) /\ Head(chan[s])[1] = "CLOSE"

Adds(s, m) == Up /\ chan'[Peer(s)] = Append(chan[Peer(s)], m)

AddsClose(s) == /\ Adds(s, <<"CLOSE">>)
                /\ SocketClose(s) \/ PipeClose(s) \/ (s = "C" /\ OnOpenExpired)
                /\ pipe[s] # "Closed" /\ pipe'[s] = "Closed" /\ loop[s] # "starting"

AddsData(s) == /\ Adds(s, <<"DATA", Head(kin[s])>>) /\ ReadSocket(s)
               /\ Head(kin[s]) # EOF /\ Alive(s) /\ sock[s] = "polled" /\ loop[s] = "wait"

AddsBoth(s) == /\ Up /\ PipeStart(s) /\ pipe'[s] = "Closed"
               /\ chan'[Peer(s)] = Append(Append(chan[Peer(s)], <<"RESP">>), <<"CLOSE">>)

AddsReq(s) == s = "C" /\ \E port \in Ports : OnAccept(port) /\ Adds(s, <<"REQ", port>>)

AddsResp(s) == PipeStart(s) /\ Adds(s, <<"RESP">>) /\ pipe'[s] = "Opened"

LEMMA OwnChannel ==
  ASSUME TypeInv, NEW s \in Sides, SideStep(s)
  PROVE  chan'[s] = chan[s] \/ Takes(s) \/ (LinkClose(s) /\ chan'[s] = <<>> /\ link'[s] = "down")
<1> USE TwoSides, SendsTo, TakesFrom, PacketKinds DEF TypeInv
<1>1. ASSUME NEW port \in Ports, s = "C", OnAccept(port) PROVE chan'[s] = chan[s]
  BY <1>1 DEF OnAccept, StartClient
<1>2. CASE s = "S" /\ OnPipe
  BY <1>2 DEF OnPipe, Receives, Takes
<1>3. CASE s = "C" /\ OnPipeOpen
  BY <1>3 DEF OnPipeOpen, Receives, Takes
<1>4. CASE OnPipePacket(s)
  BY <1>4 DEF OnPipePacket, Receives, Takes
<1>5. CASE OnClosePacket(s)
  BY <1>5 DEF OnClosePacket, Receives, Takes
<1>6. CASE SocketClose(s) \/ PipeClose(s) \/ (s = "C" /\ OnOpenExpired)
  <2>1. chan' = chan \/ chan' = Sends(s, <<"CLOSE">>)
    BY <1>6 DEF SocketClose, PipeClose, OnOpenExpired
  <2>2. Sends(s, <<"CLOSE">>)[s] = chan[s]
    OBVIOUS
  <2> QED
    BY ONLY <2>1, <2>2
<1>7. CASE PipeStart(s)
  <2>1. \/ chan' = Sends(s, <<"RESP">>)
        \/ chan' = [Sends(s, <<"RESP">>) EXCEPT ![Peer(s)] = Append(@, <<"CLOSE">>)]
    BY <1>7 DEF PipeStart
  <2>2. PICK c \in [Sides -> Seq(Packets)] : c = Sends(s, <<"RESP">>) /\ c[s] = chan[s]
    OBVIOUS
  <2>3. s \in Sides /\ Peer(s) \in Sides /\ Peer(s) # s
    OBVIOUS
  <2> QED
    BY ONLY <2>1, <2>2, <2>3
<1>8. CASE ReadSocket(s)
  <2>1. chan' = chan \/ chan' = Sends(s, <<"DATA", Head(kin[s])>>)
    BY <1>8 DEF ReadSocket
  <2>2. Head(kin[s]) \in Nat
    <3>1. kin[s] \in Seq(Nat) /\ kin[s] # <<>>
      BY <1>8 DEF ReadSocket
    <3> QED
      BY ONLY <3>1
  <2>3. Sends(s, <<"DATA", Head(kin[s])>>)[s] = chan[s]
    <3>1. <<"DATA", Head(kin[s])>> \in Packets
      BY ONLY <2>2, PacketKinds
    <3>2. chan \in [Sides -> Seq(Packets)]
      OBVIOUS
    <3> QED
      BY ONLY <3>1, <3>2, SendsTo, s \in Sides
  <2> QED
    BY ONLY <2>1, <2>3
<1>9. CASE LinkClose(s)
  <2>1. chan' = [chan EXCEPT ![s] = <<>>] /\ link' = [link EXCEPT ![s] = "down"]
    BY ONLY <1>9 DEF LinkClose
  <2>2. chan \in [Sides -> Seq(Packets)] /\ link \in [Sides -> {"up", "down"}]
    OBVIOUS
  <2> QED
    BY ONLY <1>9, <2>1, <2>2, s \in Sides
<1>10. CASE AddSocket(s) \/ ConnectEnds(s) \/ ExecClose(s) \/ AppSend(s) \/ AppClose(s)
  BY <1>10 DEF AddSocket, ConnectEnds, ExecClose, AppSend, AppClose
<1> QED
  BY <1>1, <1>2, <1>3, <1>4, <1>5, <1>6, <1>7, <1>8, <1>9, <1>10 DEF SideStep, TunnelStep, LoopStep

LEMMA PipeStartAdds ==
  ASSUME TypeInv, NEW s \in Sides, PipeStart(s)
  PROVE  IF Up THEN AddsBoth(s) \/ AddsResp(s) ELSE chan'[Peer(s)] = chan[Peer(s)]
<1>1. \/ chan' = Sends(s, <<"RESP">>) /\ pipe'[s] \in {"Opened", "Closed"} /\ (Up => pipe'[s] = "Opened")
      \/ /\ chan' = [Sends(s, <<"RESP">>) EXCEPT ![Peer(s)] = Append(@, <<"CLOSE">>)]
         /\ Up /\ pipe'[s] = "Closed"
  BY TwoSides DEF TypeInv, PipeStart, Up, Sides, Peer
<1>2. PICK c \in [Sides -> Seq(Packets)] :
           /\ c = Sends(s, <<"RESP">>)
           /\ c[Peer(s)] = IF Up THEN Append(chan[Peer(s)], <<"RESP">>) ELSE chan[Peer(s)]
  <2>1. chan \in [Sides -> Seq(Packets)] /\ <<"RESP">> \in Packets
    BY PacketKinds DEF TypeInv
  <2>2. Sends(s, <<"RESP">>) \in [Sides -> Seq(Packets)]
    BY <2>1, SendsTo
  <2> QED
    BY <2>1, <2>2, SendsTo
<1>3. Peer(s) \in Sides
  BY TwoSides
<1>4. PipeStart(s)
  OBVIOUS
<1> QED
  BY ONLY <1>1, <1>2, <1>3, <1>4 DEF AddsBoth, AddsResp, Adds

LEMMA OtherChannel ==
  ASSUME TypeInv, SideInv, NEW s \in Sides, SideStep(s)
  PROVE  \/ chan'[Peer(s)] = chan[Peer(s)]
         \/ AddsReq(s) \/ AddsClose(s) \/ AddsData(s) \/ AddsBoth(s) \/ AddsResp(s)
<1> USE TwoSides, SendsTo, TakesFrom, PacketKinds DEF TypeInv
<1>1. ASSUME NEW port \in Ports, s = "C", OnAccept(port)
      PROVE  chan'[Peer(s)] = chan[Peer(s)] \/ Adds(s, <<"REQ", port>>)
  BY <1>1 DEF OnAccept, StartClient, Adds
<1>2. CASE \/ (s = "S" /\ OnPipe) \/ (s = "C" /\ OnPipeOpen) \/ OnPipePacket(s) \/ OnClosePacket(s)
          \/ LinkClose(s) \/ AddSocket(s) \/ ConnectEnds(s) \/ ExecClose(s) \/ AppSend(s) \/ AppClose(s)
  <2>1. chan' = chan \/ chan' = Taken(s) \/ chan' = [chan EXCEPT ![s] = <<>>]
    BY ONLY <1>2 DEF OnPipe, OnPipeOpen, OnPipePacket, OnClosePacket, Receives, LinkClose, AddSocket, ConnectEnds, ExecClose,
                     AppSend, AppClose
  <2>2. chan \in [Sides -> Seq(Packets)] /\ s \in Sides /\ Peer(s) \in Sides /\ Peer(s) # s
    OBVIOUS
  <2> QED
    BY ONLY <2>1, <2>2 DEF Taken
<1>3. CASE SocketClose(s) \/ PipeClose(s) \/ (s = "C" /\ OnOpenExpired)
  <2>1. \/ chan' = chan
        \/ /\ chan' = Sends(s, <<"CLOSE">>)
           /\ pipe[s] # "Closed" /\ pipe'[s] = "Closed" /\ loop[s] # "starting"
    <3>1. CASE SocketClose(s)
      BY <3>1 DEF SocketClose, Dropped
    <3>2. CASE PipeClose(s)
      BY <3>2 DEF PipeClose
    <3>3. CASE s = "C" /\ OnOpenExpired
      BY <3>3 DEF OnOpenExpired, SideInv
    <3> QED
      BY <1>3, <3>1, <3>2, <3>3
  <2>2. Sends(s, <<"CLOSE">>)[Peer(s)]
          = IF Up THEN Append(chan[Peer(s)], <<"CLOSE">>) ELSE chan[Peer(s)]
    OBVIOUS
  <2> QED
    BY ONLY <1>3, <2>1, <2>2 DEF AddsClose, Adds
<1>4. CASE PipeStart(s)
  BY <1>4, PipeStartAdds
<1>5. CASE ReadSocket(s)
  <2>1. \/ chan' = chan
        \/ /\ chan' = Sends(s, <<"DATA", Head(kin[s])>>) /\ Head(kin[s]) # EOF /\ Alive(s)
           /\ sock[s] = "polled" /\ loop[s] = "wait"
    BY <1>5 DEF ReadSocket
  <2>2. Head(kin[s]) \in Nat
    <3>1. kin[s] \in Seq(Nat) /\ kin[s] # <<>>
      BY <1>5 DEF ReadSocket
    <3> QED
      BY ONLY <3>1
  <2>3. Sends(s, <<"DATA", Head(kin[s])>>)[Peer(s)]
          = IF Up THEN Append(chan[Peer(s)], <<"DATA", Head(kin[s])>>) ELSE chan[Peer(s)]
    <3>1. <<"DATA", Head(kin[s])>> \in Packets
      BY <2>2
    <3> QED
      BY ONLY <3>1, SendsTo, chan \in [Sides -> Seq(Packets)], s \in Sides
  <2> QED
    BY ONLY <1>5, <2>1, <2>3 DEF AddsData, Adds
<1> QED
  BY <1>1, <1>2, <1>3, <1>4, <1>5 DEF SideStep, TunnelStep, LoopStep, AddsReq

(* S gets the request before it has a route.                                  *)
LEMMA OnPipeFirst ==
  ASSUME TypeInv, ReqFirst, OnPipe
  PROVE  route["S"] = "none"
<1>1. chan["S"] \in Seq(Packets) /\ chan["S"] # <<>> /\ Head(chan["S"])[1] = "REQ"
  BY DEF OnPipe, Receives, TypeInv, Sides
<1>2. 1 \in 1..Len(chan["S"]) /\ chan["S"][1][1] = "REQ"
  BY ONLY <1>1
<1> QED
  BY <1>2 DEF ReqFirst

(* The other side after a step of s. *)
Still(t) ==
  /\ route'[t] = route[t] /\ pipe'[t] = pipe[t] /\ sock'[t] = sock[t]
  /\ closeReq'[t] = closeReq[t] /\ tunnel'[t] = tunnel[t] /\ loop'[t] = loop[t]
  /\ link'[t] = link[t] /\ kin'[t] = kin[t] /\ app'[t] = app[t] /\ sent'[t] = sent[t]
  /\ passed'[t] = passed[t] /\ got'[t] = got[t] /\ (t \in eof' <=> t \in eof)
  /\ unread'[t] = unread[t]

LEMMA SideKept ==
  ASSUME TypeInv, SideInv, AskInv, ChanInv, NEW s \in Sides, SideStep(s)
  PROVE  SideInv'
<1> DEFINE p == Peer(s)
<1>1. p \in Sides /\ p # s /\ Peer(p) = s /\ Peer(s) = p /\ Sides = {s, p} /\ s \in {"C", "S"}
      /\ (s = "C" => p = "S") /\ (s = "S" => p = "C")
  BY DEF Sides, Peer
<1>2. Still(p)
  BY <1>1, OtherSide DEF Still
<1>3. chan[s] = <<>> => chan'[s] = <<>>
  BY OwnChannel DEF Takes
<1> HIDE DEF p
<1> USE <1>1, <1>2, <1>3 DEF TypeInv, SideInv, Untouched, Still, Alive
<1>4. ASSUME NEW port \in Ports, s = "C", OnAccept(port) PROVE SideInv'
  BY <1>4 DEF OnAccept, StartClient, seen, lapses
<1>5. CASE s = "S" /\ OnPipe
  <2>1. route["S"] = "none" /\ route["C"] # "none" /\ s = "S"
    <3>1. chan["S"] # <<>>
      BY <1>5 DEF OnPipe, Receives
    <3> QED
      BY <1>5, <3>1, OnPipeFirst DEF ChanInv
  <2>2. /\ UNCHANGED <<timer, closeReq, tunnel, loop, link, app, kin, sent, got, eof, gaveUp>>
        /\ \/ UNCHANGED <<route, pipe, sock>>
           \/ StartServer
    BY <1>5 DEF OnPipe, appVars, seen, lapses
  <2>3. CASE UNCHANGED <<route, pipe, sock>>
    <3>1. chan'[p] = chan[p]
      BY <1>5 DEF OnPipe, Taken
    <3> QED
      BY <2>1, <2>2, <2>3, <3>1
  <2>4. CASE StartServer
    BY <2>1, <2>2, <2>4 DEF StartServer
  <2> QED
    BY <2>2, <2>3, <2>4
<1>6. CASE s = "C" /\ OnPipeOpen
  <2>1. /\ link["C"] = "up" /\ tunnel["C"] = "wait"
        /\ UNCHANGED <<route, timer, closeReq, tunnel, loop, link, kin, app, sent, got, eof, gaveUp>>
        /\ \/ UNCHANGED <<pipe, sock>>
           \/ /\ pipe["C"] = "OpenRequstSent"
              /\ pipe' = [pipe EXCEPT !["C"] = "Opened"] /\ sock' = [sock EXCEPT !["C"] = "added"]
    BY ONLY <1>6 DEF OnPipeOpen, Receives, appVars, seen, lapses
  <2>2. chan'[p] = chan[p]
    BY <1>6 DEF OnPipeOpen, Taken
  <2>3. CASE UNCHANGED <<pipe, sock>>
    BY <1>6, <2>1, <2>2, <2>3
  <2>4. CASE /\ pipe["C"] = "OpenRequstSent"
             /\ pipe' = [pipe EXCEPT !["C"] = "Opened"] /\ sock' = [sock EXCEPT !["C"] = "added"]
    <3>1. s = "C" /\ p = "S" /\ route["C"] = "listed" /\ loop["C"] = "wait" /\ pipe'["C"] = "Opened"
          /\ sock'["C"] = "added" /\ route' = route /\ loop' = loop /\ app' = app
          /\ eof' = eof /\ closeReq' = closeReq /\ tunnel' = tunnel /\ gaveUp' = gaveUp
      BY <1>6, <2>1, <2>4 DEF AskInv
    <3>2. \A q \in Sides : route'[q] = "none" => Untouched(q)'
      BY <2>1, <3>1
    <3> QED
      BY <3>1, <3>2
  <2> QED
    BY <2>1, <2>3, <2>4
<1>7. CASE s = "C" /\ OnOpenExpired
  <2>1. CASE pipe["C"] = "OpenRequstSent"
    <3>1. /\ pipe' = [pipe EXCEPT !["C"] = "Closed"] /\ timer' = FALSE
          /\ \/ ~Alive("C") /\ UNCHANGED <<route, tunnel>>
             \/ /\ route' = [route EXCEPT !["C"] = "erased"]
                /\ tunnel' = [tunnel EXCEPT !["C"] = "closing"]
          /\ tunnel["C"] = "wait"
          /\ UNCHANGED <<routers, sock, closeReq, loop, link, kin, app, sent, got, eof>>
      BY ONLY <1>7, <2>1 DEF OnOpenExpired, OnPipeClose, Erased, socketVars, appVars, seen, lapses
    <3> QED
      BY <1>7, <2>1, <3>1
  <2>2. CASE pipe["C"] # "OpenRequstSent"
    BY <1>7, <2>2 DEF OnOpenExpired, socketVars, appVars, seen, lapses
  <2> QED
    BY <2>1, <2>2
<1>8. CASE OnPipePacket(s)
  <2>1. UNCHANGED <<route, pipe, timer, sock, closeReq, tunnel, loop, link, app, kin, sent, eof, gaveUp>>
    BY <1>8 DEF OnPipePacket, Receives, socketVars, appVars, lapses
  <2>2. chan'[p] = chan[p]
    BY <1>8 DEF OnPipePacket, Taken
  <2>3. \A q \in Sides : route'[q] = "none" => Untouched(q)'
    BY <2>1, <2>2
  <2> QED
    BY <2>1, <2>3
<1>9. CASE OnClosePacket(s)
  <2>1. /\ UNCHANGED <<timer, sock, closeReq, loop, link, app, kin, sent, got, eof, gaveUp>>
        /\ pipe' = pipe \/ (pipe[s] # "None" /\ pipe' = [pipe EXCEPT ![s] = "Closed"])
        /\ \/ route' = route /\ tunnel' = tunnel
           \/ pipe[s] # "None" /\ Alive(s) /\ route' = [route EXCEPT ![s] = "erased"] /\ tunnel' = [tunnel EXCEPT ![s] = "closing"]
    <3>1. pipe' = pipe \/ (pipe[s] # "None" /\ pipe' = [pipe EXCEPT ![s] = "Closed"])
      BY <1>9 DEF OnClosePacket
    <3> QED
      BY <1>9, <3>1 DEF OnClosePacket, OnPipeClose, Erased, socketVars, appVars, seen, lapses
  <2>2. chan'[p] = chan[p]
    BY <1>9 DEF OnClosePacket, Taken
  <2>3. \A q \in Sides : route'[q] = "none" => Untouched(q)'
    BY <2>1, <2>2
  <2> QED
    BY <2>1, <2>3
<1>10. CASE SocketClose(s)
  BY <1>10 DEF SocketClose, appVars, seen, lapses
<1>11. CASE AddSocket(s)
  <2>1. /\ sock[s] = "added" /\ loop[s] = "wait"
        /\ UNCHANGED <<route, pipe, timer, chan, closeReq, tunnel, link, kin, sent, eof, gaveUp>>
    BY <1>11 DEF AddSocket, seen, lapses
  <2>2. CASE /\ sock' = [sock EXCEPT ![s] = "polled"]
             /\ IF s = "S" THEN app' \in {[app EXCEPT ![s] = a] : a \in {"connecting", "open"}}
                ELSE UNCHANGED app
             /\ loop' = [loop EXCEPT ![s] = IF s = "S" /\ Alive(s) /\ pipe[s] = "OpenRequstRecv"
                                            THEN "starting" ELSE @]
    <3>1. /\ sock'[s] = "polled" /\ sock'[p] = sock[p]
          /\ s = "S" => app'[s] \in {"connecting", "open"}
          /\ s = "C" => app' = app
          /\ loop'[s] = IF s = "S" /\ Alive(s) /\ pipe[s] = "OpenRequstRecv" THEN "starting" ELSE loop[s]
      BY <2>2
    <3> QED
      BY <2>1, <3>1
  <2>3. CASE s = "S" /\ sock' = [sock EXCEPT ![s] = "failed"] /\ UNCHANGED <<app, loop>>
    BY <2>1, <2>3
  <2> QED
    BY <1>11, <2>2, <2>3 DEF AddSocket
<1>19. CASE ConnectEnds(s)
  BY <1>19 DEF ConnectEnds, seen, lapses
<1>12. CASE PipeStart(s)
  BY <1>12 DEF PipeStart, socketVars, appVars, seen, lapses
<1>13. CASE ReadSocket(s)
  BY <1>13 DEF ReadSocket, seen, lapses
<1>14. CASE ExecClose(s)
  BY <1>14 DEF ExecClose, Erased, appVars
<1>15. CASE PipeClose(s)
  BY <1>15 DEF PipeClose, appVars, seen, lapses
<1>16. CASE LinkClose(s)
  BY <1>16 DEF LinkClose, Erased, appVars, seen, lapses
<1>17. CASE AppSend(s)
  BY <1>17 DEF AppSend, socketVars, seen, lapses
<1>18. CASE AppClose(s)
  BY <1>18 DEF AppClose, socketVars, seen, lapses
<1> QED
  BY <1>4, <1>5, <1>6, <1>7, <1>8, <1>9, <1>10, <1>11, <1>12, <1>13, <1>14, <1>15, <1>16, <1>17, <1>18, <1>19
     DEF SideStep, TunnelStep, LoopStep

LEMMA AskKept ==
  ASSUME TypeInv, SideInv, AskInv, NEW s \in Sides, SideStep(s)
  PROVE  AskInv'
<1>1. CASE s = "S"
  BY <1>1, OtherSide DEF AskInv, Sides
<1>2. CASE s = "C"
  <2> USE <1>2 DEF TypeInv, SideInv, Untouched, AskInv, Sides
  <2>1. ASSUME NEW port \in Ports, OnAccept(port) PROVE AskInv'
    BY <2>1 DEF OnAccept, StartClient, seen, lapses
  <2>2. CASE OnPipeOpen \/ OnOpenExpired
    BY <2>2 DEF OnPipeOpen, OnOpenExpired, OnPipeClose, Erased, socketVars
  <2>3. CASE OnPipePacket(s) \/ SocketClose(s)
    BY <2>3 DEF OnPipePacket, SocketClose, socketVars
  <2>4. CASE OnClosePacket(s)
    <3>1. IF pipe[s] = "None" THEN pipe'[s] = "None" ELSE pipe'[s] = "Closed"
      BY <2>4 DEF OnClosePacket
    <3> QED
      BY ONLY <1>2, <3>1 DEF AskInv
  <2>5. CASE LoopStep(s)
    BY <2>5 DEF LoopStep, AddSocket, ConnectEnds, PipeStart, ReadSocket, HangUp, ExecClose, PipeClose, socketVars
  <2>6. CASE LinkClose(s) \/ AppSend(s) \/ AppClose(s)
    BY <2>6 DEF LinkClose, AppSend, AppClose, Erased, socketVars
  <2> QED
    BY <2>1, <2>2, <2>3, <2>4, <2>5, <2>6 DEF SideStep, TunnelStep
<1> QED
  BY <1>1, <1>2 DEF Sides

(* Once its route has ended, a side does not live again.                      *)
LEMMA NoRevival ==
  ASSUME TypeInv, SideInv, ChanInv, NEW s \in Sides, SideStep(s), Alive(s)'
  PROVE  \/ Alive(s)
         \/ route[s] = "none" /\ ((s = "C" /\ sock'[s] = "associated") \/ (s = "S" /\ sock'[s] = "added"))
<1> USE DEF TypeInv, SideInv, Untouched, Alive
<1>1. ASSUME NEW port \in Ports, OnAccept(port), s = "C"
      PROVE  route[s] = "none" /\ sock'[s] = "associated"
  BY <1>1 DEF OnAccept, StartClient
<1>2. CASE s = "S" /\ OnPipe
  <2>1. route["S"] = "none"
    BY <1>2, OnPipeFirst DEF ChanInv
  <2> QED
    BY <1>2, <2>1 DEF OnPipe, StartServer
<1>3. CASE (s = "C" /\ (OnPipeOpen \/ OnOpenExpired)) \/ OnPipePacket(s) \/ OnClosePacket(s) \/ SocketClose(s)
  BY <1>3 DEF OnPipeOpen, OnOpenExpired, OnPipePacket, OnClosePacket, SocketClose, OnPipeClose, Erased
<1>4. CASE LoopStep(s)
  BY <1>4 DEF LoopStep, AddSocket, ConnectEnds, PipeStart, ReadSocket, HangUp, ExecClose, PipeClose, Erased
<1>5. CASE LinkClose(s) \/ AppSend(s) \/ AppClose(s)
  BY <1>5 DEF LinkClose, AppSend, AppClose, Erased
<1> QED
  BY <1>1, <1>2, <1>3, <1>4, <1>5 DEF SideStep, TunnelStep

(* Packets of a kind on a channel that grows or shrinks.                      *)
LEMMA HasAppend ==
  ASSUME NEW c \in Seq(Packets), NEW m \in Packets, NEW type
  PROVE  /\ Append(c, m) \in Seq(Packets) /\ Append(c, m) # <<>>
         /\ HasIn(Append(c, m), type) <=> HasIn(c, type) \/ m[1] = type
         /\ Head(Append(c, m)) = IF c = <<>> THEN m ELSE Head(c)
<1>1. Len(Append(c, m)) = Len(c) + 1 /\ Append(c, m)[Len(c) + 1] = m /\ Len(c) \in Nat
      /\ \A k \in 1..Len(c) : Append(c, m)[k] = c[k]
  OBVIOUS
<1>2. ASSUME HasIn(c, type) PROVE HasIn(Append(c, m), type)
  <2>1. PICK k \in 1..Len(c) : c[k][1] = type
    BY <1>2 DEF HasIn
  <2>2. k \in 1..Len(Append(c, m)) /\ Append(c, m)[k][1] = type
    BY <1>1, <2>1
  <2> QED
    BY <2>2 DEF HasIn
<1>3. ASSUME m[1] = type PROVE HasIn(Append(c, m), type)
  <2>1. Len(c) + 1 \in 1..Len(Append(c, m)) /\ Append(c, m)[Len(c) + 1][1] = type
    BY <1>1, <1>3
  <2> QED
    BY <2>1 DEF HasIn
<1>4. ASSUME HasIn(Append(c, m), type), m[1] # type PROVE HasIn(c, type)
  <2>1. PICK k \in 1..Len(Append(c, m)) : Append(c, m)[k][1] = type
    BY <1>4 DEF HasIn
  <2>2. k \in 1..Len(c) /\ c[k][1] = type
    BY <1>1, <1>4, <2>1
  <2> QED
    BY <2>2 DEF HasIn
<1>5. Append(c, m) \in Seq(Packets) /\ Append(c, m) # <<>>
      /\ Head(Append(c, m)) = IF c = <<>> THEN m ELSE Head(c)
  <2>1. CASE c = <<>>
    BY <2>1
  <2>2. CASE c # <<>>
    <3>1. Len(c) > 0 /\ Head(c) = c[1] /\ Head(Append(c, m)) = Append(c, m)[1]
      BY <2>2
    <3> QED
      BY <1>1, <2>2, <3>1
  <2> QED
    BY <2>1, <2>2
<1> QED
  BY <1>2, <1>3, <1>4, <1>5

LEMMA HasTail ==
  ASSUME NEW c \in Seq(Packets), c # <<>>, NEW type
  PROVE  /\ HasIn(c, type) <=> HasIn(Tail(c), type) \/ Head(c)[1] = type
         /\ Tail(c) \in Seq(Packets)
<1>1. Len(Tail(c)) = Len(c) - 1 /\ Len(c) \in Nat /\ Len(c) > 0 /\ Head(c) = c[1]
      /\ \A k \in 1..Len(Tail(c)) : Tail(c)[k] = c[k + 1]
  OBVIOUS
<1>2. ASSUME HasIn(c, type), Head(c)[1] # type PROVE HasIn(Tail(c), type)
  <2>1. PICK k \in 1..Len(c) : c[k][1] = type
    BY <1>2 DEF HasIn
  <2>2. k - 1 \in 1..Len(Tail(c)) /\ Tail(c)[k - 1][1] = type
    BY <1>1, <1>2, <2>1
  <2> QED
    BY <2>2 DEF HasIn
<1>3. ASSUME HasIn(Tail(c), type) PROVE HasIn(c, type)
  <2>1. PICK k \in 1..Len(Tail(c)) : Tail(c)[k][1] = type
    BY <1>3 DEF HasIn
  <2>2. k + 1 \in 1..Len(c) /\ c[k + 1][1] = type
    BY <1>1, <2>1
  <2> QED
    BY <2>2 DEF HasIn
<1>4. ASSUME Head(c)[1] = type PROVE HasIn(c, type)
  <2>1. 1 \in 1..Len(c) /\ c[1][1] = type
    BY <1>1, <1>4
  <2> QED
    BY <2>1 DEF HasIn
<1> QED
  BY <1>2, <1>3, <1>4

LEMMA HasNone ==
  ASSUME NEW type PROVE ~HasIn(<<>>, type)
BY DEF HasIn

LEMMA OwnHas ==
  ASSUME TypeInv, NEW s \in Sides, SideStep(s), NEW type
  PROVE  /\ Has(s, type)' => Has(s, type)
         /\ chan[s] = <<>> => chan'[s] = <<>>
<1>1. CASE chan'[s] = chan[s] \/ chan'[s] = <<>>
  BY <1>1, HasNone, OwnChannel DEF Has
<1>2. CASE Takes(s)
  <2>1. chan[s] \in Seq(Packets) /\ chan[s] # <<>> /\ chan'[s] = Tail(chan[s])
    BY <1>2 DEF TypeInv, Takes
  <2> QED
    BY <2>1, HasTail DEF Has
<1> QED
  BY <1>1, <1>2, OwnChannel

LEMMA OtherHas ==
  ASSUME TypeInv, SideInv, NEW s \in Sides, SideStep(s), NEW type
  PROVE  /\ Has(Peer(s), type)' => \/ Has(Peer(s), type) \/ (AddsReq(s) /\ type = "REQ")
                                  \/ (AddsClose(s) /\ type = "CLOSE") \/ (AddsData(s) /\ type = "DATA")
                                  \/ (AddsBoth(s) /\ type \in {"RESP", "CLOSE"})
                                  \/ (AddsResp(s) /\ type = "RESP")
         /\ chan[Peer(s)] # <<>> => chan'[Peer(s)] # <<>> /\ Head(chan'[Peer(s)]) = Head(chan[Peer(s)])
<1> DEFINE c == chan[Peer(s)]
           d == chan'[Peer(s)]
<1>1. c \in Seq(Packets)
  BY TwoSides DEF TypeInv
<1>2. CASE d = c
  BY <1>2 DEF Has
<1>3. ASSUME NEW m \in Packets, d = Append(c, m)
      PROVE  /\ Has(Peer(s), type)' <=> Has(Peer(s), type) \/ m[1] = type
             /\ c # <<>> => d # <<>> /\ Head(d) = Head(c)
  <2> HIDE DEF c, d
  <2>1. /\ HasIn(d, type) <=> HasIn(c, type) \/ m[1] = type
        /\ c # <<>> => d # <<>> /\ Head(d) = Head(c)
    BY <1>1, <1>3, HasAppend
  <2> QED
    BY <2>1 DEF Has, c, d
<1>4. CASE AddsReq(s)
  <2>1. PICK port \in Ports : d = Append(c, <<"REQ", port>>)
    BY <1>4 DEF AddsReq, Adds
  <2>2. <<"REQ", port>> \in Packets
    BY PacketKinds
  <2> QED
    BY ONLY <1>3, <1>4, <2>1, <2>2
<1>5. CASE AddsClose(s)
  <2>1. d = Append(c, <<"CLOSE">>) /\ <<"CLOSE">> \in Packets
    BY <1>5, PacketKinds DEF AddsClose, Adds
  <2> QED
    BY ONLY <1>3, <1>5, <2>1
<1>6. CASE AddsData(s)
  <2>1. d = Append(c, <<"DATA", Head(kin[s])>>)
    BY <1>6 DEF AddsData, Adds
  <2>2. <<"DATA", Head(kin[s])>> \in Packets
    <3>1. kin[s] \in Seq(Nat) /\ kin[s] # <<>>
      BY <1>6 DEF AddsData, ReadSocket, TypeInv
    <3>2. Head(kin[s]) \in Nat
      BY ONLY <3>1
    <3> QED
      BY <3>2, PacketKinds
  <2> QED
    BY ONLY <1>3, <1>6, <2>1, <2>2
<1>7. CASE AddsResp(s)
  <2>1. d = Append(c, <<"RESP">>) /\ <<"RESP">> \in Packets
    BY <1>7, PacketKinds DEF AddsResp, Adds
  <2> QED
    BY ONLY <1>3, <1>7, <2>1
<1>8. CASE AddsBoth(s)
  <2>1. /\ d = Append(Append(c, <<"RESP">>), <<"CLOSE">>)
        /\ <<"RESP">> \in Packets /\ <<"CLOSE">> \in Packets
    BY <1>8, PacketKinds DEF AddsBoth
  <2> HIDE DEF c, d
  <2> DEFINE e == Append(c, <<"RESP">>)
  <2>2. /\ e \in Seq(Packets) /\ e # <<>>
        /\ HasIn(e, type) => HasIn(c, type) \/ type = "RESP"
        /\ c # <<>> => Head(e) = Head(c)
    BY ONLY <1>1, <2>1, HasAppend
  <2> HIDE DEF e
  <2>3. /\ HasIn(d, type) => HasIn(e, type) \/ type = "CLOSE"
        /\ d # <<>> /\ Head(d) = Head(e)
    BY ONLY <2>1, <2>2, HasAppend DEF e
  <2>4. Has(Peer(s), type)' => Has(Peer(s), type) \/ type \in {"RESP", "CLOSE"}
    BY ONLY <2>2, <2>3 DEF Has, c, d
  <2>5. c # <<>> => d # <<>> /\ Head(d) = Head(c)
    BY ONLY <2>2, <2>3
  <2> QED
    BY ONLY <1>8, <2>4, <2>5 DEF c, d
<1> QED
  BY <1>2, <1>4, <1>5, <1>6, <1>7, <1>8, OtherChannel

(* A route begins with OnAccept or OnPipe. *)
LEMMA RouteBegins ==
  ASSUME TypeInv, NEW s \in Sides, SideStep(s), route[s] = "none", route'[s] # "none",
         SideInv
  PROVE  (s = "C" /\ \E port \in Ports : OnAccept(port)) \/ (s = "S" /\ OnPipe)
<1> USE DEF TypeInv, SideInv, Untouched
<1>1. CASE (s = "C" /\ (OnPipeOpen \/ OnOpenExpired)) \/ OnPipePacket(s) \/ OnClosePacket(s) \/ SocketClose(s)
  BY <1>1 DEF OnPipeOpen, OnOpenExpired, OnPipePacket, OnClosePacket, SocketClose, OnPipeClose, Erased, Alive
<1>2. CASE LoopStep(s)
  BY <1>2 DEF LoopStep, AddSocket, ConnectEnds, PipeStart, ReadSocket, HangUp, ExecClose, PipeClose, Erased, Alive
<1>3. CASE LinkClose(s) \/ AppSend(s) \/ AppClose(s)
  BY <1>3 DEF LinkClose, AppSend, AppClose, Erased
<1> QED
  BY <1>1, <1>2, <1>3 DEF SideStep, TunnelStep

LEMMA ReqFirstKept ==
  ASSUME TypeInv, SideInv, ReqFirst, NEW s \in Sides, SideStep(s)
  PROVE  ReqFirst'
<1>1. chan["S"] \in Seq(Packets) /\ {"C", "S"} \subseteq Sides
  BY DEF TypeInv, Sides
<1>2. CASE s = "S"
  <2>1. CASE Takes("S")
    <3>1. chan["S"] # <<>> /\ chan'["S"] = Tail(chan["S"])
      BY <2>1 DEF Takes
    <3>2. \A k \in 1..Len(chan'["S"]) : k + 1 \in 1..Len(chan["S"]) /\ chan'["S"][k] = chan["S"][k + 1] /\ k + 1 # 1
      BY ONLY <1>1, <3>1
    <3> QED
      BY <3>2 DEF ReqFirst
  <2>2. CASE chan'["S"] = <<>>
    BY <2>2 DEF ReqFirst
  <2>3. CASE chan'["S"] = chan["S"] /\ chan["S"] # <<>> /\ chan["S"][1][1] = "REQ"
    <3>1. ~OnPipe
      <4> SUFFICES ASSUME OnPipe PROVE FALSE
        OBVIOUS
      <4>1. chan["S"] # <<>> /\ chan'["S"] = Tail(chan["S"])
        BY <1>1 DEF OnPipe, Receives, Taken, TypeInv
      <4>2. PICK n \in Nat : n = Len(chan["S"])
        BY ONLY <1>1
      <4>3. Len(Tail(chan["S"])) = n - 1
        BY ONLY <1>1, <4>1, <4>2
      <4>4. PICK c : c = Tail(chan["S"])
        OBVIOUS
      <4>5. Len(c) = n - 1 /\ c = chan["S"]
        BY <2>3, <4>1, <4>3, <4>4
      <4> QED
        BY ONLY <4>2, <4>5
    <3>2. 1 \in 1..Len(chan["S"])
      BY ONLY <1>1, <2>3
    <3>3. route["S"] = "none"
      BY <2>3, <3>2 DEF ReqFirst
    <3>4. route'["S"] = "none"
      BY <1>2, <3>1, <3>3, RouteBegins
    <3> QED
      BY <2>3, <3>4 DEF ReqFirst
  <2>4. CASE chan'["S"] = chan["S"] /\ chan["S"] # <<>> /\ chan["S"][1][1] # "REQ"
    BY <2>4 DEF ReqFirst
  <2> QED
    BY <1>2, <2>1, <2>2, <2>3, <2>4, OwnChannel
<1>3. CASE s = "C"
  <2>1. route'["S"] = route["S"] /\ Peer(s) = "S"
    BY <1>1, <1>3, OtherSide, TwoSides
  <2>2. CASE AddsReq(s)
    <3>1. route["C"] = "none"
      BY <2>2 DEF AddsReq, OnAccept
    <3>2. chan["S"] = <<>> /\ route["S"] = "none"
      BY <3>1, TwoSides, <1>1 DEF SideInv, Untouched
    <3>3. PICK m : chan'["S"] = Append(<<>>, m)
      BY <2>1, <2>2, <3>2 DEF AddsReq, Adds
    <3>4. Len(chan'["S"]) = 1
      BY ONLY <3>3
    <3> QED
      BY <2>1, <3>2, <3>4 DEF ReqFirst
  <2>3. ASSUME NEW m \in Packets, m[1] # "REQ", chan'["S"] = Append(chan["S"], m) PROVE ReqFirst'
    <3>1. \A k \in 1..Len(chan'["S"]) : \/ k \in 1..Len(chan["S"]) /\ chan'["S"][k] = chan["S"][k]
                                      \/ chan'["S"][k] = m
      BY ONLY <1>1, <2>3
    <3> QED
      BY <2>1, <2>3, <3>1 DEF ReqFirst
  <2>4. CASE AddsClose(s)
    BY <2>1, <2>3, <2>4, PacketKinds DEF AddsClose, Adds
  <2>5. CASE AddsData(s)
    <3>1. kin[s] \in Seq(Nat) /\ kin[s] # <<>>
      BY <2>5 DEF AddsData, ReadSocket, TypeInv
    <3>2. Head(kin[s]) \in Nat
      BY ONLY <3>1
    <3>3. <<"DATA", Head(kin[s])>> \in Packets /\ chan'["S"] = Append(chan["S"], <<"DATA", Head(kin[s])>>)
      BY <2>1, <2>5, <3>2, PacketKinds DEF AddsData, Adds
    <3> QED
      BY ONLY <2>3, <3>3
  <2>6. ~PipeStart(s)
    BY <1>3 DEF PipeStart, SideInv
  <2>7. CASE chan'["S"] = chan["S"]
    BY <2>1, <2>7 DEF ReqFirst
  <2> QED
    BY <2>1, <2>2, <2>4, <2>5, <2>6, <2>7, OtherChannel DEF AddsBoth, AddsResp
<1> QED
  BY <1>2, <1>3 DEF Sides

LEMMA ChanInvKept ==
  ASSUME Base, NEW s \in Sides, SideStep(s)
  PROVE  ChanInv'
<1> DEFINE p == Peer(s)
<1>1. /\ p \in Sides /\ p # s /\ Peer(p) = s /\ Peer(s) = p /\ Sides = {s, p} /\ s \in {"C", "S"}
      /\ s = "C" => p = "S"
      /\ s = "S" => p = "C"
  BY DEF Sides, Peer
<1>2. TypeInv /\ SideInv /\ AskInv /\ ChanInv /\ AnswerInv
  BY DEF Base
<1>3. Still(p)
  BY <1>1, <1>2, OtherSide DEF Still
<1>4. s = "C" => ~PipeStart(s)
  BY <1>2 DEF PipeStart, SideInv
<1>5. ReqFirst'
  BY <1>2, ReqFirstKept DEF ChanInv
<1>6. ~Has("C", "REQ")' /\ ~Has("S", "RESP")'
  <2>1. ~Has("C", "REQ") /\ ~Has("S", "RESP")
    BY <1>2 DEF ChanInv
  <2>2. CASE s = "C"
    BY <1>1, <1>2, <1>4, <2>1, <2>2, OwnHas, OtherHas DEF AddsBoth, AddsResp
  <2>3. CASE s = "S"
    BY <1>1, <1>2, <2>1, <2>3, OwnHas, OtherHas DEF AddsReq
  <2> QED
    BY <1>1, <2>2, <2>3
<1>7. (pipe["S"] \in {"None", "OpenRequstRecv"} \/ loop["S"] = "starting" => chan["C"] = <<>>)'
  <2>1. CASE s = "C"
    BY <1>1, <1>2, <1>3, <2>1, OwnHas DEF ChanInv, Still
  <2>2. CASE s = "S"
    <3>1. CASE AddsClose(s) \/ AddsBoth(s) \/ AddsResp(s)
      BY <1>2, <2>2, <3>1 DEF AddsClose, AddsBoth, AddsResp, SocketClose, PipeClose, PipeStart, TypeInv, Sides
    <3>2. CASE AddsData(s)
      BY <1>2, <2>2, <3>2 DEF AddsData, ReadSocket, SideInv
    <3>3. CASE chan'[p] = chan[p]
      <4>1. chan'["C"] = chan["C"]
        BY <1>1, <2>2, <3>3
      <4>2. ASSUME pipe'["S"] \in {"None", "OpenRequstRecv"} \/ loop'["S"] = "starting"
            PROVE  pipe["S"] \in {"None", "OpenRequstRecv"} \/ loop["S"] = "starting"
        <5> USE <1>2, <2>2, <4>2 DEF TypeInv, Sides
        <5>1. CASE OnPipe
          BY <5>1, OnPipeFirst DEF SideInv, Untouched, ChanInv
        <5>2. CASE OnPipePacket(s) \/ OnClosePacket(s) \/ SocketClose(s)
          BY <5>2 DEF OnPipePacket, OnClosePacket, SocketClose
        <5>3. CASE LoopStep(s)
          BY <5>3 DEF LoopStep, AddSocket, ConnectEnds, PipeStart, ReadSocket, HangUp, ExecClose, PipeClose
        <5>4. CASE LinkClose(s) \/ AppSend(s) \/ AppClose(s)
          BY <5>4 DEF LinkClose, AppSend, AppClose
        <5> QED
          BY <5>1, <5>2, <5>3, <5>4 DEF SideStep, TunnelStep
      <4> QED
        BY <1>2, <4>1, <4>2 DEF ChanInv
    <3> QED
      BY <1>2, <2>2, <3>1, <3>2, <3>3, OtherChannel DEF AddsReq
  <2> QED
    BY <1>1, <2>1, <2>2
<1>8. (pipe["C"] = "OpenRequstSent" /\ chan["C"] # <<>> => Head(chan["C"]) = <<"RESP">>)'
  <2> SUFFICES ASSUME pipe'["C"] = "OpenRequstSent", chan'["C"] # <<>>
               PROVE  Head(chan'["C"]) = <<"RESP">>
    OBVIOUS
  <2>1. CASE s = "C"
    <3>1. CASE \E port \in Ports : OnAccept(port)
      <4>1. route["C"] = "none"
        BY <3>1 DEF OnAccept
      <4>2. chan["C"] = <<>>
        BY <1>1, <1>2, <2>1, <4>1 DEF SideInv, Untouched
      <4> QED
        BY <1>2, <2>1, <4>2, OwnHas
    <3>2. CASE pipe["C"] = "OpenRequstSent" /\ Takes(s)
      <4>1. Head(chan["C"]) = <<"RESP">>
        BY <1>2, <2>1, <3>2 DEF ChanInv, Takes
      <4>2. OnPipeOpen
        BY <2>1, <3>2, <4>1 DEF Takes
      <4> QED
        BY <1>2, <3>2, <4>2 DEF OnPipeOpen, TypeInv, Sides
    <3>3. pipe["C"] = "OpenRequstSent" \/ \E port \in Ports : OnAccept(port)
      <4> USE <1>2, <2>1 DEF TypeInv, Sides
      <4>1. CASE OnPipeOpen \/ OnOpenExpired \/ OnPipePacket(s) \/ OnClosePacket(s) \/ SocketClose(s)
        BY <4>1 DEF OnPipeOpen, OnOpenExpired, OnPipePacket, OnClosePacket, SocketClose
      <4>2. CASE LoopStep(s)
        BY <4>2 DEF LoopStep, AddSocket, ConnectEnds, PipeStart, ReadSocket, HangUp, ExecClose, PipeClose
      <4>3. CASE LinkClose(s) \/ AppSend(s) \/ AppClose(s)
        BY <4>3 DEF LinkClose, AppSend, AppClose
      <4> QED
        BY <4>1, <4>2, <4>3 DEF SideStep, TunnelStep
    <3>4. CASE pipe["C"] = "OpenRequstSent" /\ chan'["C"] = chan["C"]
      BY <1>2, <3>4 DEF ChanInv
    <3> QED
      BY <1>2, <2>1, <3>1, <3>2, <3>3, <3>4, OwnChannel
  <2>2. CASE s = "S"
    <3>1. pipe["C"] = "OpenRequstSent"
      BY <1>1, <1>3, <2>2 DEF Still
    <3>2. CASE chan["C"] # <<>>
      BY <1>1, <1>2, <2>2, <3>1, <3>2, OtherHas DEF ChanInv
    <3>3. CASE chan["C"] = <<>>
      <4>1. ~AddsClose(s)
        BY <1>2, <2>2, <3>1, <3>3 DEF AddsClose, Adds, SocketClose, PipeClose, AnswerInv, SideInv, Alive, Sides
      <4>2. ~AddsData(s)
        BY <1>2, <2>2, <3>1, <3>3 DEF AddsData, Adds, AnswerInv
      <4>3. CASE AddsResp(s)
        <5>1. chan'["C"] = Append(<<>>, <<"RESP">>)
          BY <1>1, <2>2, <3>3, <4>3 DEF AddsResp, Adds
        <5> QED
          BY ONLY <5>1
      <4>4. CASE AddsBoth(s)
        <5>1. chan'["C"] = Append(Append(<<>>, <<"RESP">>), <<"CLOSE">>)
          BY <1>1, <2>2, <3>3, <4>4 DEF AddsBoth
        <5> QED
          BY ONLY <5>1
      <4> QED
        BY <1>1, <1>2, <2>2, <3>3, <4>1, <4>2, <4>3, <4>4, OtherChannel DEF AddsReq
    <3> QED
      BY <3>2, <3>3
  <2> QED
    BY <1>1, <2>1, <2>2
<1>9. Has(p, "CLOSE")' => pipe'[s] = "Closed" /\ loop'[s] # "starting"
  <2>1. CASE AddsClose(s) \/ AddsBoth(s)
    BY <1>1, <1>2, <2>1 DEF AddsClose, AddsBoth, SocketClose, PipeClose, PipeStart, OnOpenExpired, TypeInv, SideInv, Sides
  <2>2. CASE Has(p, "CLOSE")
    <3>1. pipe[s] = "Closed" /\ loop[s] # "starting"
      BY <1>1, <1>2, <2>2 DEF ChanInv
    <3> USE <1>2, <3>1 DEF TypeInv
    <3>2. CASE (s = "S" /\ OnPipe) \/ (s = "C" /\ \E port \in Ports : OnAccept(port))
      <4>1. route[s] # "none"
        BY DEF SideInv, Untouched
      <4>2. ~ \E port \in Ports : OnAccept(port) /\ s = "C"
        BY <4>1 DEF OnAccept
      <4>3. OnPipe /\ s = "S"
        BY <3>2, <4>2
      <4> QED
        BY <4>1, <4>3, OnPipeFirst DEF ChanInv
    <3>3. CASE (s = "C" /\ (OnPipeOpen \/ OnOpenExpired)) \/ OnPipePacket(s) \/ OnClosePacket(s) \/ SocketClose(s)
      BY <3>3 DEF OnPipeOpen, OnOpenExpired, OnPipePacket, OnClosePacket, SocketClose
    <3>4. CASE LoopStep(s)
      BY <3>4 DEF LoopStep, AddSocket, ConnectEnds, PipeStart, ReadSocket, HangUp, ExecClose, PipeClose
    <3>5. CASE LinkClose(s) \/ AppSend(s) \/ AppClose(s)
      BY <3>5 DEF LinkClose, AppSend, AppClose
    <3> QED
      BY <3>2, <3>3, <3>4, <3>5 DEF SideStep, TunnelStep
  <2> QED
    BY <1>1, <1>2, <2>1, <2>2, OtherHas
<1>10. Has(s, "CLOSE")' => pipe'[p] = "Closed" /\ loop'[p] # "starting"
  BY <1>1, <1>2, <1>3, OwnHas DEF ChanInv, Still
<1> QED
  BY <1>1, <1>5, <1>6, <1>7, <1>8, <1>9, <1>10 DEF ChanInv, ReqFirst, Has, HasIn

LEMMA HasHead ==
  ASSUME TypeInv, NEW s \in Sides, chan[s] # <<>>
  PROVE  Has(s, Head(chan[s])[1])
<1>1. chan[s] \in Seq(Packets)
  BY DEF TypeInv
<1> QED
  BY <1>1, HasTail DEF Has

LEMMA PastRequestKept ==
  ASSUME Base, NEW s \in Sides, SideStep(s), PastRequest'
  PROVE  Answered'
<1>1. TypeInv /\ SideInv /\ AskInv /\ ChanInv /\ AnswerInv
  BY DEF Base
<1>2. Answered => Answered'
  <2>1. CASE s = "C"
    BY <1>1, <2>1, OtherSide DEF Answered, Sides
  <2>2. CASE s = "S"
    <3> SUFFICES ASSUME Answered PROVE Answered'
      OBVIOUS
    <3> USE <1>1, <2>2 DEF TypeInv, Sides, Answered
    <3>1. CASE OnPipe
      BY <3>1, OnPipeFirst DEF ChanInv, SideInv, Untouched
    <3>2. CASE OnPipePacket(s) \/ OnClosePacket(s) \/ SocketClose(s)
      BY <3>2 DEF OnPipePacket, OnClosePacket, SocketClose, socketVars
    <3>3. CASE LoopStep(s)
      BY <3>3 DEF LoopStep, AddSocket, ConnectEnds, PipeStart, ReadSocket, HangUp, ExecClose, PipeClose, socketVars
    <3>4. CASE LinkClose(s) \/ AppSend(s) \/ AppClose(s)
      BY <3>4 DEF LinkClose, AppSend, AppClose, socketVars
    <3> QED
      BY <3>1, <3>2, <3>3, <3>4 DEF SideStep, TunnelStep
  <2> QED
    BY <2>1, <2>2 DEF Sides
<1>3. CASE s = "C"
  <2>0. "C" \in Sides /\ "S" \in Sides /\ Peer(s) = "S"
    BY <1>3 DEF Sides, Peer
  <2>1. ASSUME Has("C", "RESP")' \/ Has("C", "CLOSE")' PROVE PastRequest
    BY <1>1, <1>3, <2>1, OwnHas DEF PastRequest
  <2>2. ASSUME Has("S", "DATA")' PROVE PastRequest
    <3>1. Has("S", "DATA") \/ AddsData(s)
      BY <1>1, <1>3, <2>0, <2>2, OtherHas
    <3> QED
      BY <1>3, <3>1 DEF PastRequest, AddsData
  <2>3. ASSUME sock'["C"] \in {"added", "polled"} \/ pipe'["C"] = "Opened" \/ loop'["C"] = "closing"
               \/ (pipe'["C"] = "Closed" /\ ~gaveUp')
        PROVE  PastRequest
    <3> USE <1>1, <1>3, <2>0, <2>3 DEF TypeInv, PastRequest
    <3>1. CASE OnPipeOpen
      <4>1. Has("C", "RESP")
        BY <3>1, HasHead DEF OnPipeOpen, Receives
      <4> QED
        BY <4>1
    <3>2. CASE OnClosePacket(s)
      <4>1. Has("C", "CLOSE")
        BY <3>2, HasHead DEF OnClosePacket, Receives
      <4> QED
        BY <4>1
    <3>3. CASE \E port \in Ports : OnAccept(port)
      BY <3>3 DEF OnAccept, StartClient, SideInv, Untouched
    <3>4. CASE OnOpenExpired \/ OnPipePacket(s) \/ SocketClose(s)
      BY <3>4 DEF OnOpenExpired, OnPipePacket, SocketClose, socketVars, lapses, Dropped
    <3>5. CASE LoopStep(s)
      BY <3>5 DEF LoopStep, AddSocket, ConnectEnds, PipeStart, ReadSocket, HangUp, ExecClose, PipeClose, socketVars, lapses, SideInv
    <3>6. CASE LinkClose(s) \/ AppSend(s) \/ AppClose(s)
      BY <3>6 DEF LinkClose, AppSend, AppClose, socketVars, lapses
    <3> QED
      BY <3>1, <3>2, <3>3, <3>4, <3>5, <3>6 DEF SideStep, TunnelStep
  <2>4. PastRequest
    BY <2>1, <2>2, <2>3 DEF PastRequest
  <2> QED
    BY <1>1, <1>2, <2>4 DEF AnswerInv
<1>4. CASE s = "S"
  <2>0. "C" \in Sides /\ "S" \in Sides /\ Peer(s) = "C" /\ "C" # s
    BY <1>4 DEF Sides, Peer
  <2>1. CASE AddsClose(s) \/ AddsBoth(s) \/ AddsResp(s)
    <3> USE <1>1, <1>4, <2>0 DEF TypeInv, SideInv, Answered
    <3>1. CASE AddsClose(s)
      BY <3>1 DEF AddsClose, SocketClose, PipeClose, Dropped
    <3>2. CASE AddsBoth(s) \/ AddsResp(s)
      BY <3>2 DEF AddsBoth, AddsResp, PipeStart, socketVars
    <3> QED
      BY <2>1, <3>1, <3>2
  <2>2. CASE ~AddsClose(s) /\ ~AddsBoth(s) /\ ~AddsResp(s)
    <3>1. Has("S", "DATA")' => Has("S", "DATA")
      BY <1>1, <1>4, OwnHas
    <3>2. (Has("C", "RESP")' => Has("C", "RESP")) /\ (Has("C", "CLOSE")' => Has("C", "CLOSE"))
      BY <1>1, <1>4, <2>0, <2>2, OtherHas
    <3>3. sock'["C"] = sock["C"] /\ pipe'["C"] = pipe["C"] /\ loop'["C"] = loop["C"]
      BY <1>1, <2>0, OtherSide
    <3>4. gaveUp' = gaveUp
      BY <1>1, <1>4 DEF SideStep, TunnelStep, LoopStep, OnPipe, OnPipePacket, OnClosePacket, SocketClose,
                        AddSocket, ConnectEnds, PipeStart, ReadSocket, HangUp, ExecClose, PipeClose, LinkClose, AppSend, AppClose,
                        lapses
    <3> QED
      BY <1>1, <1>2, <3>1, <3>2, <3>3, <3>4 DEF PastRequest, AnswerInv
  <2> QED
    BY <2>1, <2>2
<1> QED
  BY <1>3, <1>4 DEF Sides

LEMMA AnswerInvKept ==
  ASSUME Base, NEW s \in Sides, SideStep(s)
  PROVE  AnswerInv'
<1>1. TypeInv /\ SideInv /\ AskInv /\ ChanInv /\ AnswerInv
  BY DEF Base
<1>2. (PastRequest => Answered)'
  BY PastRequestKept
<1>3. ~Up => ~Up'
  BY <1>1 DEF Up, SideStep, TunnelStep, LoopStep, OnAccept, OnPipe, OnPipeOpen, OnOpenExpired, OnPipePacket,
              OnClosePacket, SocketClose, AddSocket, ConnectEnds, PipeStart, ReadSocket, HangUp, ExecClose, PipeClose, LinkClose,
              AppSend, AppClose, TypeInv
<1>4. CASE s = "C"
  <2>0. "C" \in Sides /\ "S" \in Sides /\ Peer(s) = "S" /\ "S" # s
    BY <1>4 DEF Sides, Peer
  <2>1. Still("S")
    BY <1>1, <2>0, OtherSide DEF Still
  <2>2. CASE \E port \in Ports : OnAccept(port)
    <3>1. route["C"] = "none" /\ route["S"] = "none"
      BY <1>1, <2>2 DEF OnAccept, SideInv
    <3>2. pipe["S"] = "None" /\ sock["S"] = "none" /\ tunnel["S"] = "wait"
      BY <1>1, <2>0, <3>1 DEF SideInv, Untouched
    <3> QED
      BY <1>2, <2>1, <3>1, <3>2 DEF AnswerInv, Still
  <2>3. CASE ~ \E port \in Ports : OnAccept(port)
    <3>1. /\ pipe["C"] = "Closed" => pipe'["C"] = "Closed"
          /\ pipe'["C"] = "OpenRequstSent" => pipe["C"] = "OpenRequstSent" /\ ~OnPipeOpen
      <4> USE <1>1, <1>4, <2>0 DEF TypeInv
      <4>1. CASE OnPipeOpen \/ OnOpenExpired \/ OnPipePacket(s) \/ OnClosePacket(s) \/ SocketClose(s)
        BY <4>1 DEF OnPipeOpen, OnOpenExpired, OnPipePacket, OnClosePacket, SocketClose
      <4>2. CASE LoopStep(s)
        BY <4>2 DEF LoopStep, AddSocket, ConnectEnds, PipeStart, ReadSocket, HangUp, ExecClose, PipeClose, SideInv, OnPipeOpen
      <4>3. CASE LinkClose(s) \/ AppSend(s) \/ AppClose(s)
        BY <4>3 DEF LinkClose, AppSend, AppClose, OnPipeOpen
      <4> QED
        BY <2>3, <4>1, <4>2, <4>3 DEF SideStep, TunnelStep
    <3>2. (route["S"] = "erased" \/ tunnel["S"] = "closing" \/ pipe["S"] = "Closed"
            => pipe["C"] = "Closed" \/ ~Up \/ sock["S"] = "closed")'
      BY <1>1, <1>3, <2>1, <3>1 DEF AnswerInv, Still
    <3>3. (/\ pipe["C"] = "OpenRequstSent" /\ Up /\ Alive("S")
           /\ sock["S"] \in {"polled", "closed"} /\ loop["S"] # "starting"
           => chan["C"] # <<>>)'
      <4> SUFFICES ASSUME pipe'["C"] = "OpenRequstSent", Up', Alive("S")',
                          sock'["S"] \in {"polled", "closed"}, loop'["S"] # "starting"
                   PROVE  chan'["C"] # <<>>
        OBVIOUS
      <4>1. pipe["C"] = "OpenRequstSent" /\ chan["C"] # <<>>
        BY <1>1, <1>3, <2>1, <3>1 DEF AnswerInv, Still, Alive
      <4>2. Head(chan["C"]) = <<"RESP">>
        BY <1>1, <4>1 DEF ChanInv
      <4>3. ~Takes(s)
        BY <1>4, <3>1, <4>2 DEF Takes
      <4>4. ~LinkClose(s) \/ link'[s] # "down"
        BY DEF Up
      <4> QED
        BY <1>1, <1>4, <4>1, <4>3, <4>4, OwnChannel
    <3> QED
      BY <1>2, <3>2, <3>3 DEF AnswerInv
  <2> QED
    BY <2>2, <2>3
<1>5. CASE s = "S"
  <2>0. "C" \in Sides /\ "S" \in Sides /\ Peer(s) = "C" /\ "C" # s
    BY <1>5 DEF Sides, Peer
  <2>1. Still("C")
    BY <1>1, <2>0, OtherSide DEF Still
  <2>2. (route["S"] = "erased" \/ tunnel["S"] = "closing" \/ pipe["S"] = "Closed"
          => pipe["C"] = "Closed" \/ ~Up \/ sock["S"] = "closed")'
    <3> SUFFICES ASSUME Up'
                 PROVE  route'["S"] = "erased" \/ tunnel'["S"] = "closing" \/ pipe'["S"] = "Closed"
                          => pipe["C"] = "Closed" \/ sock'["S"] = "closed"
      BY <2>1 DEF Still
    <3> USE <1>1, <1>3, <1>5, <2>0 DEF TypeInv, AnswerInv
    <3>1. CASE OnPipe
      <4>1. route["S"] = "none" /\ pipe["S"] = "None" /\ tunnel["S"] = "wait"
        BY <3>1, OnPipeFirst DEF ChanInv, SideInv, Untouched
      <4> QED
        BY <3>1, <4>1 DEF OnPipe, StartServer
    <3>2. CASE OnPipePacket(s) \/ SocketClose(s)
      BY <3>2 DEF OnPipePacket, SocketClose, socketVars, Dropped
    <3>3. CASE OnClosePacket(s)
      <4>1. Has("S", "CLOSE")
        BY <3>3, HasHead DEF OnClosePacket, Receives
      <4> QED
        BY <4>1 DEF ChanInv, Peer
    <3>4. CASE LoopStep(s)
      BY <3>4 DEF LoopStep, AddSocket, ConnectEnds, PipeStart, ReadSocket, HangUp, ExecClose, PipeClose, Erased, SideInv, socketVars
    <3>5. CASE LinkClose(s)
      BY <3>5 DEF LinkClose, Up
    <3>6. CASE AppSend(s) \/ AppClose(s)
      BY <3>6 DEF AppSend, AppClose, socketVars
    <3> QED
      BY <3>1, <3>2, <3>3, <3>4, <3>5, <3>6 DEF SideStep, TunnelStep
  <2>3. (/\ pipe["C"] = "OpenRequstSent" /\ Up /\ Alive("S")
         /\ sock["S"] \in {"polled", "closed"} /\ loop["S"] # "starting"
         => chan["C"] # <<>>)'
    <3> SUFFICES ASSUME pipe'["C"] = "OpenRequstSent", Up', Alive("S")',
                        sock'["S"] \in {"polled", "closed"}, loop'["S"] # "starting"
                 PROVE  chan'["C"] # <<>>
      OBVIOUS
    <3>1. Up /\ pipe["C"] = "OpenRequstSent"
      BY <1>3, <2>1 DEF Still
    <3>2. Alive("S")
      BY <1>1, <1>5, <2>0, NoRevival
    <3>3. CASE sock["S"] \in {"polled", "closed"} /\ loop["S"] # "starting"
      <4>1. chan["C"] # <<>>
        BY <1>1, <3>1, <3>2, <3>3 DEF AnswerInv
      <4> QED
        BY <1>1, <1>5, <2>0, <4>1, OtherHas
    <3>4. CASE loop["S"] = "starting"
      <4>1. PipeStart(s)
        <5> USE <1>1, <1>5, <2>0, <3>4 DEF TypeInv
        <5>1. CASE OnPipe \/ OnPipePacket(s) \/ OnClosePacket(s) \/ SocketClose(s)
          BY <5>1 DEF OnPipe, OnPipePacket, OnClosePacket, SocketClose
        <5>2. CASE AddSocket(s) \/ ConnectEnds(s) \/ ReadSocket(s) \/ ExecClose(s) \/ PipeClose(s)
          BY <5>2 DEF AddSocket, ConnectEnds, ReadSocket, HangUp, ExecClose, PipeClose
        <5>3. CASE LinkClose(s) \/ AppSend(s) \/ AppClose(s)
          BY <5>3 DEF LinkClose, AppSend, AppClose
        <5> QED
          BY <5>1, <5>2, <5>3 DEF SideStep, TunnelStep, LoopStep
      <4>2. AddsBoth(s) \/ AddsResp(s)
        BY <1>1, <3>1, <4>1, PipeStartAdds
      <4>3. chan["C"] \in Seq(Packets) /\ Append(chan["C"], <<"RESP">>) \in Seq(Packets)
        BY <1>1, <2>0, PacketKinds DEF TypeInv
      <4>4. \/ chan'["C"] = Append(chan["C"], <<"RESP">>)
            \/ chan'["C"] = Append(Append(chan["C"], <<"RESP">>), <<"CLOSE">>)
        BY <2>0, <4>2 DEF AddsBoth, AddsResp, Adds
      <4> QED
        BY <4>3, <4>4, HasAppend, PacketKinds
    <3>5. CASE sock["S"] \notin {"polled", "closed"} /\ loop["S"] # "starting"
      <4> USE <1>1, <1>5, <2>0, <3>5 DEF TypeInv, SideInv
      <4>1. AddSocket(s)
        <5>1. CASE OnPipe \/ OnPipePacket(s) \/ OnClosePacket(s) \/ SocketClose(s)
          BY <5>1 DEF OnPipe, StartServer, OnPipePacket, OnClosePacket, SocketClose, socketVars
        <5>2. CASE ConnectEnds(s) \/ PipeStart(s) \/ ReadSocket(s) \/ ExecClose(s) \/ PipeClose(s)
          BY <5>2 DEF ConnectEnds, PipeStart, ReadSocket, ExecClose, PipeClose, socketVars
        <5>3. CASE LinkClose(s) \/ AppSend(s) \/ AppClose(s)
          BY <5>3 DEF LinkClose, AppSend, AppClose, socketVars
        <5> QED
          BY <5>1, <5>2, <5>3 DEF SideStep, TunnelStep, LoopStep
      <4>2. pipe["S"] # "OpenRequstRecv" /\ sock["S"] = "added"
        BY <3>2, <4>1 DEF AddSocket
      <4>3. pipe["S"] = "Closed"
        BY <4>2 DEF Untouched
      <4> QED
        BY <3>1, <4>2, <4>3 DEF AnswerInv, AskInv
    <3> QED
      BY <3>3, <3>4, <3>5
  <2> QED
    BY <1>2, <2>2, <2>3 DEF AnswerInv
<1> QED
  BY <1>4, <1>5 DEF Sides

LEMMA BaseKept ==
  ASSUME Base, [Next]_vars
  PROVE  Base'
<1>1. TypeInv'
  BY TypeKept DEF Base
<1>2. CASE UNCHANGED vars
  BY <1>1, <1>2 DEF vars, Base, SideInv, Untouched, Alive, AskInv, ChanInv, ReqFirst, Has, HasIn, AnswerInv,
                    PastRequest, Answered, Up
<1>3. ASSUME NEW s \in Sides, SideStep(s) PROVE Base'
  BY <1>1, <1>3, SideKept, AskKept, ChanInvKept, AnswerInvKept DEF Base
<1>4. Next => \E s \in Sides : SideStep(s)
  BY DEF Next, SideStep, Sides
<1> QED
  BY <1>2, <1>3, <1>4

-----------------------------------------------------------------------------
(* What a program wrote, and how far its socket has read it. *)

(* The packets among q, the end of the stream behind them.                    *)
Waiting(q, closed) == IF closed /\ q # <<>> THEN Len(q) - 1 ELSE Len(q)

(* Read of the packets sent, q is what is left. *)
Kin(q, n, closed) ==
  /\ Waiting(q, closed) <= n
  /\ \A k \in 1..Waiting(q, closed) : q[k] = n - Waiting(q, closed) + k
  /\ closed /\ q # <<>> => q[Len(q)] = EOF

(* All but what was dropped with the socket. *)
Readable(s) == sent[s] - unread[s]

Read(s) == Readable(s) - Waiting(kin[s], app[s] = "closed")

KinInv(s) ==
  /\ unread[s] <= sent[s] /\ (unread[s] # 0 => app[s] = "closed")
  /\ app[s] \notin {"open", "closed"} => kin[s] = <<>>
  /\ Kin(kin[s], Readable(s), app[s] = "closed")

LEMMA KinDropped ==
  ASSUME NEW q \in Seq(Nat), q # <<>>, NEW n \in Nat, NEW closed \in BOOLEAN, Kin(q, n, closed),
         Head(q) # EOF, q[Len(q)] = EOF
  PROVE  /\ closed /\ Len(q) - 2 \in Nat /\ Len(q) - 2 <= n
         /\ Waiting(q, closed) = (Len(q) - 2) + 1
         /\ Kin(<<>>, n - (Len(q) - 2), closed) /\ Waiting(<<>>, closed) = 0
<1>1. Len(q) \in Nat /\ Len(q) >= 2
  <2>1. Len(q) \in Nat /\ Len(q) >= 1 /\ (Len(q) = 1 => Head(q) = q[Len(q)])
    OBVIOUS
  <2> QED
    BY ONLY <2>1, Head(q) # EOF, q[Len(q)] = EOF
<1> DEFINE m == Len(q)
<1>2. closed
  <2> SUFFICES ASSUME ~closed PROVE FALSE
    OBVIOUS
  <2>1. m <= n /\ \A k \in 1..m : q[k] = n - m + k
    BY DEF Kin, Waiting
  <2>2. m \in 1..m
    BY <1>1
  <2>3. q[m] = n - m + m
    BY <2>1, <2>2
  <2> HIDE DEF m
  <2>4. q[m] # 0
    BY <1>1, <2>1, <2>3 DEF m
  <2> QED
    BY <2>4 DEF m, EOF
<1>3. Waiting(q, closed) = m - 1 /\ m - 1 <= n
  BY <1>2 DEF Waiting, Kin
<1> HIDE DEF m
<1>4. m \in Nat /\ m >= 2 /\ m = Len(q)
  BY <1>1 DEF m
<1>5. m - 2 \in Nat /\ m - 2 <= n /\ m - 1 = (m - 2) + 1 /\ n - (m - 2) \in Nat
  BY <1>3, <1>4
<1>6. Len(<<>>) = 0 /\ Waiting(<<>>, closed) = 0
  BY DEF Waiting
<1>7. Kin(<<>>, n - (m - 2), closed)
  BY <1>5, <1>6 DEF Kin
<1> QED
  BY <1>2, <1>3, <1>4, <1>5, <1>6, <1>7

LEMMA KinAppend ==
  ASSUME NEW q \in Seq(Nat), NEW n \in Nat, Kin(q, n, FALSE)
  PROVE  /\ Kin(Append(q, n + 1), n + 1, FALSE) /\ Waiting(Append(q, n + 1), FALSE) = Waiting(q, FALSE) + 1
         /\ Kin(Append(q, EOF), n, TRUE) /\ Waiting(Append(q, EOF), TRUE) = Waiting(q, FALSE)
<1>1. /\ Len(Append(q, n + 1)) = Len(q) + 1 /\ Append(q, n + 1)[Len(q) + 1] = n + 1
      /\ \A k \in 1..Len(q) : Append(q, n + 1)[k] = q[k]
      /\ Len(q) \in Nat
  OBVIOUS
<1>2. /\ Len(Append(q, EOF)) = Len(q) + 1 /\ Append(q, EOF)[Len(q) + 1] = EOF
      /\ \A k \in 1..Len(q) : Append(q, EOF)[k] = q[k]
      /\ Append(q, EOF) # <<>>
  BY DEF EOF
<1>3. /\ Len(q) <= n
      /\ \A k \in 1..Len(q) : q[k] = n - Len(q) + k
  BY DEF Kin, Waiting
<1>4. Kin(Append(q, n + 1), n + 1, FALSE) /\ Waiting(Append(q, n + 1), FALSE) = Waiting(q, FALSE) + 1
  BY <1>1, <1>3 DEF Kin, Waiting
<1>5. Kin(Append(q, EOF), n, TRUE) /\ Waiting(Append(q, EOF), TRUE) = Waiting(q, FALSE)
  BY <1>1, <1>2, <1>3 DEF Kin, Waiting
<1> QED
  BY <1>4, <1>5

LEMMA KinTail ==
  ASSUME NEW q \in Seq(Nat), q # <<>>, NEW n \in Nat, NEW closed \in BOOLEAN, Kin(q, n, closed)
  PROVE  /\ Kin(Tail(q), n, closed)
         /\ Waiting(q, closed) \in Nat /\ Waiting(Tail(q), closed) \in Nat
         /\ IF Head(q) = EOF THEN closed /\ Tail(q) = <<>> /\ Waiting(q, closed) = 0 /\ Waiting(Tail(q), closed) = 0
            ELSE Head(q) = n - Waiting(Tail(q), closed) /\ Waiting(Tail(q), closed) = Waiting(q, closed) - 1
<1> DEFINE r == Tail(q)
           m == Len(q)
<1>1. /\ m \in Nat /\ m > 0 /\ Head(q) = q[1]
      /\ Len(r) = m - 1 /\ r \in Seq(Nat)
      /\ \A k \in 1..(m - 1) : r[k] = q[k + 1]
  OBVIOUS
<1>2. r = <<>> <=> Len(r) = 0
  <2>1. \A c \in Seq(Nat) : c = <<>> <=> Len(c) = 0
    OBVIOUS
  <2>2. r \in Seq(Nat)
    OBVIOUS
  <2> HIDE DEF r
  <2> QED
    BY ONLY <2>1, <2>2
<1>3. /\ Waiting(q, closed) = IF closed THEN m - 1 ELSE m
      /\ Waiting(r, closed) = IF closed /\ m # 1 THEN m - 2 ELSE m - 1
  <2> HIDE DEF r, m
  <2> QED
    BY <1>1, <1>2 DEF Waiting, m
<1>4. /\ Waiting(q, closed) <= n
      /\ \A k \in 1..Waiting(q, closed) : q[k] = n - Waiting(q, closed) + k
      /\ closed => q[m] = EOF
  BY DEF Kin
<1> HIDE DEF r, m
<1>5. CASE closed /\ m = 1
  <2>1. Head(q) = EOF /\ r = <<>> /\ Waiting(q, closed) = 0 /\ Waiting(r, closed) = 0
    BY <1>1, <1>2, <1>3, <1>4, <1>5
  <2>2. Kin(r, n, closed)
    BY <2>1 DEF Kin
  <2>3. 0 \in Nat
    OBVIOUS
  <2> QED
    BY ONLY <1>5, <2>1, <2>2, <2>3 DEF r
<1>6. CASE ~(closed /\ m = 1)
  <2>1. PICK u \in Nat : u = Waiting(r, closed) /\ Waiting(q, closed) = u + 1
    BY <1>1, <1>3, <1>6
  <2>2. u + 1 <= n /\ \A k \in 1..(u + 1) : q[k] = n - (u + 1) + k
    BY <1>4, <2>1
  <2>3. Head(q) = n - u /\ Head(q) # EOF
    <3>1. 1 \in 1..(u + 1)
      BY <2>1
    <3>2. q[1] = n - (u + 1) + 1
      BY <2>2, <3>1
    <3>3. u + 1 <= n /\ n \in Nat /\ u \in Nat
      BY <2>1, <2>2
    <3>4. n - (u + 1) + 1 = n - u /\ n - u # 0
      BY ONLY <3>3
    <3> QED
      BY <1>1, <3>2, <3>4 DEF EOF
  <2>4. u <= m - 1
    BY <1>1, <1>3, <2>1
  <2>5. ASSUME NEW k \in 1..u PROVE r[k] = n - u + k
    <3>1. k \in 1..(m - 1) /\ k + 1 \in 1..(u + 1)
      BY <1>1, <2>1, <2>4
    <3>2. r[k] = q[k + 1] /\ q[k + 1] = n - (u + 1) + (k + 1)
      BY <1>1, <2>2, <3>1
    <3>3. n - (u + 1) + (k + 1) = n - u + k
      BY <2>1
    <3> QED
      BY <3>2, <3>3
  <2>6. closed => r[Len(r)] = EOF
    <3>1. closed => m - 1 \in 1..(m - 1)
      BY <1>1, <1>6
    <3> QED
      BY <1>1, <1>4, <3>1
  <2>7. Kin(r, n, closed)
    BY <2>1, <2>2, <2>5, <2>6 DEF Kin
  <2> QED
    BY <2>1, <2>3, <2>7 DEF r
<1> QED
  BY <1>5, <1>6

LEMMA KinBounds ==
  ASSUME TypeInv, NEW s \in Sides, KinInv(s)
  PROVE  /\ kin[s] \in Seq(Nat) /\ Readable(s) \in Nat /\ sent[s] \in Nat /\ unread[s] \in Nat
         /\ Readable(s) <= sent[s] /\ Readable(s) = sent[s] - unread[s]
         /\ Waiting(kin[s], app[s] = "closed") \in Nat /\ Waiting(kin[s], app[s] = "closed") <= Readable(s)
         /\ Read(s) \in 0..Readable(s) /\ Read(s) \in Nat
         /\ Read(s) = Readable(s) - Waiting(kin[s], app[s] = "closed")
<1> DEFINE q == kin[s]
           closed == app[s] = "closed"
           n == Readable(s)
<1>1. q \in Seq(Nat) /\ sent[s] \in Nat /\ unread[s] \in Nat /\ unread[s] <= sent[s] /\ Kin(q, n, closed)
  BY RouterConstants DEF TypeInv, KinInv
<1>2. n \in Nat /\ n <= sent[s] /\ n = sent[s] - unread[s]
  BY <1>1 DEF Readable
<1>3. Len(q) \in Nat /\ (q # <<>> => Len(q) > 0)
  BY <1>1
<1>4. Read(s) = n - Waiting(q, closed)
  BY DEF Read
<1> HIDE DEF q, n, closed
<1>5. Waiting(q, closed) \in Nat /\ Waiting(q, closed) <= n
  BY <1>1, <1>3 DEF Kin, Waiting
<1>6. Read(s) \in 0..n /\ Read(s) \in Nat
  BY <1>2, <1>4, <1>5
<1> QED
  BY <1>1, <1>2, <1>4, <1>5, <1>6 DEF q, n, closed

(* The socket of s closes with what it has read, the rest being dropped.      *)
ReadsEnd(s) == ReadSocket(s) /\ (Head(kin[s]) = EOF \/ HangUp(s))

(* What one step of s does to the stream that s reads.                        *)
LEMMA KinKept ==
  ASSUME Base, NEW s \in Sides, SideStep(s), KinInv(s)
  PROVE  /\ KinInv(s)'
         /\ IF ReadSocket(s) /\ Head(kin[s]) # EOF
              THEN Head(kin[s]) = Read(s) + 1 /\ Read(s)' = Read(s) + 1
              ELSE Read(s)' = Read(s)
         /\ ReadsEnd(s) => app[s] = "closed" /\ kin'[s] = <<>>
<1> DEFINE q == kin[s]
           n == Readable(s)
           closed == app[s] = "closed"
<1>1. TypeInv /\ SideInv
  BY DEF Base
<1>2. /\ q \in Seq(Nat) /\ n \in Nat /\ closed \in BOOLEAN /\ Kin(q, n, closed)
      /\ unread[s] \in Nat /\ sent[s] \in Nat /\ n = sent[s] - unread[s] /\ unread[s] <= sent[s]
      /\ Waiting(q, closed) \in Nat /\ Waiting(q, closed) <= n /\ Read(s) = n - Waiting(q, closed)
  BY <1>1, KinBounds DEF KinInv
<1>3. CASE kin'[s] = kin[s] /\ sent'[s] = sent[s] /\ unread'[s] = unread[s]
           /\ ((app'[s] = "closed") <=> (app[s] = "closed"))
           /\ (app'[s] \notin {"open", "closed"} => kin[s] = <<>>) /\ ~ReadSocket(s)
  <2>1. Readable(s)' = n
    BY <1>3 DEF Readable
  <2>2. KinInv(s)' /\ Read(s)' = Read(s)
    BY <1>2, <1>3, <2>1 DEF KinInv, Read
  <2> QED
    BY <1>3, <2>2 DEF ReadsEnd
<1>4. CASE ReadSocket(s) /\ ~HangUp(s)
  <2>1. q # <<>> /\ kin'[s] = Tail(q) /\ sent'[s] = sent[s] /\ app'[s] = app[s] /\ unread'[s] = unread[s]
    BY <1>1, <1>4 DEF ReadSocket, TypeInv
  <2>2. /\ Kin(Tail(q), n, closed) /\ Waiting(Tail(q), closed) \in Nat
        /\ IF Head(q) = EOF THEN closed /\ Tail(q) = <<>> /\ Waiting(q, closed) = 0 /\ Waiting(Tail(q), closed) = 0
           ELSE Head(q) = n - Waiting(Tail(q), closed) /\ Waiting(Tail(q), closed) = Waiting(q, closed) - 1
    BY <1>2, <2>1, KinTail
  <2>3. Readable(s)' = n
    BY <2>1 DEF Readable
  <2>4. app[s] \in {"open", "closed"}
    BY <2>1 DEF KinInv
  <2>5. KinInv(s)'
    BY <1>2, <2>1, <2>2, <2>3, <2>4 DEF KinInv
  <2>6. Read(s)' = n - Waiting(Tail(q), closed)
    BY <2>1, <2>3 DEF Read
  <2> HIDE DEF q, n, closed
  <2>7. IF Head(q) = EOF THEN closed /\ kin'[s] = <<>> /\ Read(s)' = Read(s)
        ELSE Head(q) = Read(s) + 1 /\ Read(s)' = Read(s) + 1
    BY <1>2, <2>1, <2>2, <2>6
  <2> QED
    BY ONLY <1>4, <2>5, <2>7 DEF q, closed, ReadsEnd
<1>5. CASE ReadSocket(s) /\ HangUp(s) /\ Head(q) # EOF
  <2>1. /\ q # <<>> /\ q[Len(q)] = EOF /\ kin'[s] = <<>> /\ sent'[s] = sent[s] /\ app'[s] = app[s]
        /\ unread'[s] = unread[s] + (Len(q) - 2)
    BY <1>1, <1>5 DEF ReadSocket, HangUp, TypeInv
  <2>2. /\ closed /\ Len(q) - 2 \in Nat /\ Len(q) - 2 <= n
        /\ Waiting(q, closed) = (Len(q) - 2) + 1
        /\ Kin(<<>>, n - (Len(q) - 2), closed) /\ Waiting(<<>>, closed) = 0
    BY <1>2, <1>5, <2>1, KinDropped
  <2>3. PICK d \in Nat : d = Len(q) - 2
    BY <2>2
  <2>4. Readable(s)' = n - d /\ unread'[s] <= sent'[s]
    <3>1. Readable(s)' = sent[s] - (unread[s] + d) /\ unread'[s] = unread[s] + d /\ sent'[s] = sent[s]
      BY <2>1, <2>3 DEF Readable
    <3>2. /\ sent[s] \in Nat /\ unread[s] \in Nat /\ n \in Nat /\ n = sent[s] - unread[s]
          /\ d \in Nat /\ d <= n
      BY <1>2, <2>2, <2>3
    <3>3. ASSUME NEW w \in Nat, NEW u \in Nat, NEW m \in Nat, m = w - u, d <= m
          PROVE  w - (u + d) = m - d /\ u + d <= w
      BY <3>3
    <3> HIDE DEF n
    <3>4. sent[s] - (unread[s] + d) = n - d /\ unread[s] + d <= sent[s]
      BY ONLY <3>2, <3>3
    <3> QED
      BY ONLY <3>1, <3>4
  <2>5. KinInv(s)'
    BY <2>1, <2>2, <2>3, <2>4 DEF KinInv
  <2>6. Read(s)' = (n - d) - 0
    BY <2>1, <2>2, <2>4 DEF Read
  <2>7. Kin(Tail(q), n, closed) /\ Waiting(Tail(q), closed) \in Nat
        /\ Head(q) = n - Waiting(Tail(q), closed) /\ Waiting(Tail(q), closed) = Waiting(q, closed) - 1
    BY <1>2, <1>5, <2>1, KinTail
  <2> HIDE DEF q, n, closed
  <2>9. n \in Nat /\ d \in Nat /\ d <= n /\ Waiting(q, closed) = d + 1 /\ Waiting(q, closed) <= n
    BY ONLY <1>2, <2>2, <2>3
  <2>10. Read(s) = n - (d + 1) /\ Head(q) = n - ((d + 1) - 1)
    BY ONLY <1>2, <2>7, <2>9
  <2>11. n - ((d + 1) - 1) = (n - (d + 1)) + 1 /\ (n - d) - 0 = (n - (d + 1)) + 1
    BY ONLY <2>9
  <2>8. Head(q) = Read(s) + 1 /\ Read(s)' = Read(s) + 1
    BY ONLY <2>6, <2>10, <2>11
  <2> QED
    BY ONLY <1>5, <2>1, <2>2, <2>5, <2>8 DEF q, closed, ReadsEnd
<1>6. CASE ReadSocket(s) /\ HangUp(s) /\ Head(q) = EOF
  <2>1. q # <<>> /\ kin'[s] = Tail(q) /\ kin'[s] = <<>> /\ sent'[s] = sent[s] /\ app'[s] = app[s]
        /\ unread'[s] = unread[s]
    BY <1>1, <1>6 DEF ReadSocket, HangUp, TypeInv
  <2>2. closed /\ Tail(q) = <<>> /\ Waiting(q, closed) = 0 /\ Waiting(Tail(q), closed) = 0 /\ Kin(Tail(q), n, closed)
    BY <1>2, <1>6, <2>1, KinTail
  <2>3. Readable(s)' = n
    BY <2>1 DEF Readable
  <2>4. KinInv(s)' /\ Read(s)' = n - Waiting(Tail(q), closed)
    BY <1>2, <2>1, <2>2, <2>3 DEF KinInv, Read
  <2> HIDE DEF q, n, closed
  <2>5. Read(s)' = Read(s)
    BY <1>2, <2>2, <2>4
  <2> QED
    BY ONLY <1>6, <2>1, <2>2, <2>4, <2>5 DEF q, closed, ReadsEnd
<1>7. CASE AppSend(s)
  <2>1. app[s] = "open" /\ app'[s] = app[s] /\ kin'[s] = Append(q, sent[s] + 1) /\ sent'[s] = sent[s] + 1
        /\ unread'[s] = unread[s] /\ unread[s] = 0
    BY <1>1, <1>7 DEF AppSend, TypeInv, KinInv, lapses
  <2>2. ~closed /\ (closed <=> FALSE) /\ n = sent[s]
    BY <1>2, <2>1
  <2>3. Kin(Append(q, n + 1), n + 1, FALSE) /\ Waiting(Append(q, n + 1), FALSE) = Waiting(q, FALSE) + 1
    BY <1>2, <2>2, KinAppend
  <2>4. Readable(s)' = n + 1
    BY <1>2, <2>1, <2>2 DEF Readable
  <2>8. unread'[s] = 0 /\ 0 <= sent'[s] /\ kin'[s] = Append(q, n + 1) /\ ((app'[s] = "closed") <=> FALSE)
    BY <1>2, <2>1, <2>2
  <2>9. KinInv(s)'
    BY <2>1, <2>3, <2>4, <2>8 DEF KinInv
  <2>5. KinInv(s)' /\ Read(s)' = (n + 1) - (Waiting(q, FALSE) + 1)
    BY <2>3, <2>4, <2>8, <2>9 DEF Read
  <2>6. ~ReadSocket(s)
    <3>1. sent' # sent
      BY <2>1, <1>2
    <3> QED
      BY <3>1 DEF ReadSocket
  <2> HIDE DEF q, n, closed
  <2>10. Read(s) = n - Waiting(q, FALSE) /\ Waiting(q, FALSE) \in Nat /\ n \in Nat
    <3>1. closed = FALSE
      BY <1>2, <2>2
    <3> QED
      BY ONLY <1>2, <3>1
  <2>11. \A w \in Nat : (n + 1) - (w + 1) = n - w
    BY <2>10
  <2>7. Read(s)' = Read(s)
    BY ONLY <2>5, <2>10, <2>11
  <2> QED
    BY <2>5, <2>6, <2>7 DEF ReadsEnd
<1>8. CASE AppClose(s)
  <2>1. app[s] = "open" /\ app'[s] = "closed" /\ kin'[s] = Append(q, EOF) /\ sent'[s] = sent[s] /\ unread'[s] = unread[s]
    BY <1>1, <1>8 DEF AppClose, TypeInv, lapses
  <2>2. ~closed /\ (closed <=> FALSE) /\ Readable(s)' = n
    BY <2>1 DEF Readable
  <2>3. Kin(Append(q, EOF), n, TRUE) /\ Waiting(Append(q, EOF), TRUE) = Waiting(q, FALSE)
    BY <1>2, <2>2, KinAppend
  <2>4. KinInv(s)' /\ Read(s)' = n - Waiting(q, FALSE) /\ Read(s) = n - Waiting(q, FALSE)
    BY <1>2, <2>1, <2>2, <2>3 DEF KinInv, Read
  <2>5. ~ReadSocket(s)
    BY <2>1, <1>8 DEF AppClose, ReadSocket
  <2> QED
    BY <2>4, <2>5 DEF ReadsEnd
<1>9. CASE TunnelStep(s) \/ LinkClose(s)
  <2>1. kin'[s] = kin[s] /\ sent'[s] = sent[s] /\ app'[s] = app[s] /\ unread'[s] = unread[s]
    BY <1>9 DEF TunnelStep, OnPipe, OnPipeOpen, OnOpenExpired, OnPipePacket, OnClosePacket, SocketClose, LinkClose,
                appVars, lapses
  <2> QED
    BY <1>3, <1>4, <1>5, <1>6, <2>1 DEF KinInv
<1>10. CASE AddSocket(s) \/ ConnectEnds(s) \/ PipeStart(s) \/ ExecClose(s) \/ PipeClose(s)
  <2>1. kin'[s] = kin[s] /\ sent'[s] = sent[s] /\ unread'[s] = unread[s]
    BY <1>10 DEF AddSocket, ConnectEnds, PipeStart, ExecClose, PipeClose, appVars, lapses
  <2>2. CASE app'[s] = app[s]
    BY <1>3, <1>4, <1>5, <1>6, <2>1, <2>2 DEF KinInv
  <2>3. CASE app'[s] # app[s]
    <3>1. CASE AddSocket(s)
      <4>1. app[s] = "away" /\ app'[s] \in {"connecting", "open"}
        <5>1. s = "S"
          BY <2>3, <3>1 DEF AddSocket, Sides
        <5>2. sock["S"] = "added"
          BY <3>1, <5>1 DEF AddSocket
        <5>3. app["S"] = "away"
          BY <1>1, <5>2 DEF SideInv
        <5>4. app' \in {[app EXCEPT ![s] = a] : a \in {"connecting", "open"}}
          BY <2>3, <3>1, <5>1 DEF AddSocket
        <5> QED
          BY <1>1, <5>1, <5>3, <5>4 DEF TypeInv
      <4> QED
        BY <1>3, <1>4, <1>5, <1>6, <2>1, <4>1 DEF KinInv
    <3>2. CASE ConnectEnds(s)
      <4>1. app[s] = "connecting" /\ app'[s] \in {"open", "refused"}
        BY <1>1, <3>2 DEF ConnectEnds, TypeInv
      <4> QED
        BY <1>3, <1>4, <1>5, <1>6, <2>1, <4>1 DEF KinInv
    <3> QED
      BY <1>10, <2>3, <3>1, <3>2 DEF PipeStart, ExecClose, PipeClose, appVars
  <2> QED
    BY <2>2, <2>3
<1>11. ASSUME NEW port \in Ports, OnAccept(port), s = "C"
       PROVE  kin'[s] = kin[s] /\ sent'[s] = sent[s] /\ unread'[s] = unread[s] /\ app[s] = "away" /\ app'[s] = "open"
  BY <1>1, <1>11 DEF OnAccept, SideInv, Untouched, TypeInv, lapses
<1>12. CASE s = "C" /\ \E port \in Ports : OnAccept(port)
  BY <1>3, <1>4, <1>5, <1>6, <1>11, <1>12
<1> QED
  BY <1>4, <1>5, <1>6, <1>7, <1>8, <1>9, <1>10, <1>12 DEF SideStep, LoopStep

-----------------------------------------------------------------------------
(* What has ended does not begin again *)

LEMMA Monotone ==
  ASSUME Base, NEW s \in Sides, SideStep(s), NEW t \in Sides
  PROVE  /\ ~Up => ~Up'
         /\ gaveUp => gaveUp'
         /\ app[t] = "closed" => app'[t] = "closed"
         /\ Gone(t) => Gone(t)'
         /\ route[t] # "none" => route'[t] # "none"
         /\ sock[t] \in {"closed", "failed"} => sock'[t] = sock[t]
         /\ link[t] = "down" => link'[t] = "down"
         /\ pipe[t] = "Closed" /\ t = "C" => pipe'[t] = "Closed"
<1>1. TypeInv /\ SideInv /\ AskInv /\ ChanInv
  BY DEF Base
<1> USE <1>1 DEF TypeInv
<1>2. ASSUME NEW port \in Ports, s = "C", OnAccept(port)
      PROVE  route[s] = "none" /\ Untouched(s) /\ app[s] = "away" /\ app'[s] = "open" /\ route'[s] # "none" /\ link' = link /\ gaveUp' = gaveUp
  <2>1. route[s] = "none" /\ route'[s] # "none" /\ app'[s] = "open" /\ link' = link /\ gaveUp' = gaveUp
    BY <1>2 DEF OnAccept, StartClient, lapses
  <2>2. Untouched(s)
    BY <2>1 DEF SideInv
  <2> QED
    BY <2>1, <2>2 DEF Untouched
<1>3. link[t] = "down" => link'[t] = "down"
  BY DEF SideStep, TunnelStep, LoopStep, OnAccept, OnPipe, OnPipeOpen, OnOpenExpired, OnPipePacket,
         OnClosePacket, SocketClose, AddSocket, ConnectEnds, PipeStart, ReadSocket, HangUp, ExecClose, PipeClose, LinkClose,
         AppSend, AppClose
<1>4. ~Up => ~Up'
  BY DEF Up, SideStep, TunnelStep, LoopStep, OnAccept, OnPipe, OnPipeOpen, OnOpenExpired, OnPipePacket,
         OnClosePacket, SocketClose, AddSocket, ConnectEnds, PipeStart, ReadSocket, HangUp, ExecClose, PipeClose, LinkClose,
         AppSend, AppClose
<1>5. gaveUp => gaveUp'
  BY DEF SideStep, TunnelStep, LoopStep, OnAccept, OnPipe, OnPipeOpen, OnOpenExpired, OnPipePacket,
         OnClosePacket, SocketClose, AddSocket, ConnectEnds, PipeStart, ReadSocket, HangUp, ExecClose, PipeClose, LinkClose,
         AppSend, AppClose, lapses
<1>6. CASE t # s
  BY <1>3, <1>4, <1>5, <1>6, OtherSide DEF Gone
<1>7. CASE t = s
  <2>1. (app[s] = "closed" => app'[s] = "closed") /\ (Gone(s) => Gone(s)')
    <3> USE DEF Gone
    <3>1. CASE TunnelStep(s) \/ LinkClose(s) \/ AppSend(s) \/ AppClose(s)
      BY <3>1 DEF TunnelStep, OnPipe, OnPipeOpen, OnOpenExpired, OnPipePacket, OnClosePacket, SocketClose,
                  LinkClose, AppSend, AppClose, appVars
    <3>2. CASE LoopStep(s)
      BY <3>2 DEF LoopStep, AddSocket, ConnectEnds, PipeStart, ReadSocket, HangUp, ExecClose, PipeClose, appVars, SideInv, Sides
    <3> QED
      BY <1>2, <3>1, <3>2 DEF SideStep, Untouched
  <2>2. route[s] # "none" => route'[s] # "none"
    <3>1. CASE TunnelStep(s) \/ LinkClose(s) \/ AppSend(s) \/ AppClose(s)
      BY <3>1 DEF TunnelStep, OnPipe, StartServer, OnPipeOpen, OnOpenExpired, OnPipePacket, OnClosePacket, SocketClose,
                  LinkClose, AppSend, AppClose, OnPipeClose, Erased
    <3>2. CASE LoopStep(s)
      BY <3>2 DEF LoopStep, AddSocket, ConnectEnds, PipeStart, ReadSocket, HangUp, ExecClose, PipeClose, Erased
    <3> QED
      BY <1>2, <3>1, <3>2 DEF SideStep
  <2>3. sock[s] \in {"closed", "failed"} => sock'[s] = sock[s]
    <3> SUFFICES ASSUME sock[s] \in {"closed", "failed"} PROVE sock'[s] = sock[s]
      OBVIOUS
    <3>1. CASE s = "S" /\ OnPipe
      BY <3>1, OnPipeFirst DEF ChanInv, SideInv, Untouched
    <3>2. CASE s = "C" /\ OnPipeOpen
      BY <3>2 DEF OnPipeOpen, Receives, AskInv
    <3>3. CASE (s = "C" /\ OnOpenExpired) \/ OnPipePacket(s) \/ OnClosePacket(s) \/ SocketClose(s)
               \/ LinkClose(s) \/ AppSend(s) \/ AppClose(s)
      BY <3>3 DEF OnOpenExpired, OnPipePacket, OnClosePacket, SocketClose, LinkClose, AppSend, AppClose, socketVars
    <3>4. CASE LoopStep(s)
      BY <3>4 DEF LoopStep, AddSocket, ConnectEnds, PipeStart, ReadSocket, HangUp, ExecClose, PipeClose, socketVars
    <3> QED
      BY <1>2, <3>1, <3>2, <3>3, <3>4 DEF SideStep, TunnelStep, Untouched
  <2>4. pipe[s] = "Closed" /\ s = "C" => pipe'[s] = "Closed"
    <3> SUFFICES ASSUME pipe[s] = "Closed", s = "C" PROVE pipe'[s] = "Closed"
      OBVIOUS
    <3>1. CASE TunnelStep(s) \/ LinkClose(s) \/ AppSend(s) \/ AppClose(s)
      BY <3>1 DEF TunnelStep, OnPipeOpen, OnOpenExpired, OnPipePacket, OnClosePacket, SocketClose,
                  LinkClose, AppSend, AppClose
    <3>2. CASE LoopStep(s)
      BY <3>2 DEF LoopStep, AddSocket, ConnectEnds, PipeStart, ReadSocket, HangUp, ExecClose, PipeClose, SideInv
    <3> QED
      BY <1>2, <3>1, <3>2 DEF SideStep, Untouched
  <2> QED
    BY <1>3, <1>4, <1>5, <1>7, <2>1, <2>2, <2>3, <2>4 DEF Gone
<1> QED
  BY <1>6, <1>7

(* The packets that reach s can still reach its program.                      *)
CanDeliver(s) == /\ app[s] # "closed" /\ sock[s] \notin {"closed", "failed"}
                 /\ route[s] = "none" \/ Alive(s)
                 /\ link[s] = "up"
                 /\ s = "C" => pipe[s] # "Closed"

(* What the socket of s reads goes nowhere, or nothing is read any more.      *)
Silent(s) == \/ route[s] = "erased" /\ ~Alive(s)
             \/ sock[s] \in {"closed", "failed"}
             \/ s = "C" /\ pipe[s] = "Closed" /\ sock[s] = "associated"
             \/ ~Up

LEMMA EndsForGood ==
  ASSUME Base, NEW s \in Sides, SideStep(s), NEW t \in Sides
  PROVE  /\ CanDeliver(t)' => CanDeliver(t)
         /\ Silent(t) => Silent(t)'
<1>1. /\ ~Up => ~Up'
      /\ app[t] = "closed" => app'[t] = "closed"
      /\ route[t] # "none" => route'[t] # "none"
      /\ sock[t] \in {"closed", "failed"} => sock'[t] = sock[t]
      /\ link[t] = "down" => link'[t] = "down"
      /\ pipe[t] = "Closed" /\ t = "C" => pipe'[t] = "Closed"
  BY Monotone
<1>2. TypeInv /\ SideInv /\ AskInv /\ ChanInv
  BY DEF Base
<1>3. Alive(t)' /\ route[t] # "none" => Alive(t)
  <2>1. CASE t = s
    BY <1>2, <2>1, NoRevival
  <2>2. CASE t # s
    BY <1>2, <2>2, OtherSide DEF Alive
  <2> QED
    BY <2>1, <2>2
<1>4. link[t] = "up" \/ link[t] = "down"
  BY <1>2 DEF TypeInv
<1>5. CanDeliver(t)' => CanDeliver(t)
  BY <1>1, <1>3, <1>4 DEF CanDeliver
<1>6. route[t] = "erased" /\ ~Alive(t) => route'[t] = "erased" /\ ~Alive(t)'
  <2> SUFFICES ASSUME route[t] = "erased", ~Alive(t) PROVE route'[t] = "erased" /\ ~Alive(t)'
    OBVIOUS
  <2>1. ~Alive(t)' /\ route'[t] # "none"
    BY <1>1, <1>3
  <2>2. route' \in [Sides -> {"none", "listed", "erased"}]
    BY <1>2, TypeKept DEF TypeInv, SideStep, Next, Sides
  <2> QED
    BY <2>1, <2>2 DEF Alive
<1>7. t = "C" /\ pipe[t] = "Closed" /\ sock[t] = "associated" =>
        pipe'[t] = "Closed" /\ sock'[t] \in {"associated", "closed"}
  <2> SUFFICES ASSUME t = "C", pipe[t] = "Closed", sock[t] = "associated"
               PROVE  sock'[t] \in {"associated", "closed"}
    BY <1>1
  <2>1. CASE s # t
    BY <1>2, <2>1, OtherSide
  <2>2. CASE s = t
    <3>1. ~ \E port \in Ports : OnAccept(port)
      BY <1>2 DEF OnAccept, SideInv, Untouched
    <3>2. CASE TunnelStep(s) \/ LinkClose(s) \/ AppSend(s) \/ AppClose(s)
      BY <1>2, <2>2, <3>2 DEF TunnelStep, OnPipeOpen, OnOpenExpired, OnPipePacket, OnClosePacket, SocketClose,
                              LinkClose, AppSend, AppClose, socketVars
    <3>3. CASE LoopStep(s)
      BY <1>2, <2>2, <3>3 DEF LoopStep, AddSocket, ConnectEnds, PipeStart, ReadSocket, HangUp, ExecClose, PipeClose, socketVars, TypeInv
    <3> QED
      BY <2>2, <3>1, <3>2, <3>3 DEF SideStep
  <2> QED
    BY <2>1, <2>2
<1>8. Silent(t) => Silent(t)'
  BY <1>1, <1>6, <1>7 DEF Silent
<1> QED
  BY <1>5, <1>8

-----------------------------------------------------------------------------
(* The packets on their way *)

(* A request or answer, then data that goes on from packet g, then CLOSE:     *)
(* a and b are where the first two end.                                       *)
Flow(c, g, a, b) ==
  /\ a \in 0..1 /\ b \in 0..Len(c) /\ a <= b
  /\ \A k \in 1..a : c[k][1] \in {"REQ", "RESP"}
  /\ \A k \in (a + 1)..b : c[k] = <<"DATA", g + k - a>>
  /\ \A k \in (b + 1)..Len(c) : c[k] = <<"CLOSE">>

LEMMA FlowTaken ==
  ASSUME NEW c \in Seq(Packets), c # <<>>, NEW g \in Nat, NEW a \in Nat, NEW b \in Nat, Flow(c, g, a, b)
  PROVE  /\ Len(c) \in Nat /\ Len(Tail(c)) = Len(c) - 1 /\ Len(c) > 0
         /\ Head(c)[1] \in {"REQ", "RESP"} => a = 1 /\ b >= 1 /\ Flow(Tail(c), g, 0, b - 1)
         /\ Head(c)[1] = "DATA" => a = 0 /\ b >= 1 /\ Head(c) = <<"DATA", g + 1>> /\ Flow(Tail(c), g + 1, 0, b - 1)
         /\ Head(c)[1] = "CLOSE" => a = 0 /\ b = 0 /\ Flow(Tail(c), g, 0, 0) /\ ~HasIn(Tail(c), "DATA")
<1> DEFINE r == Tail(c)
           n == Len(c)
<1>1. /\ n \in Nat /\ n > 0 /\ Head(c) = c[1]
      /\ Len(r) = n - 1 /\ r \in Seq(Packets)
      /\ \A k \in 1..(n - 1) : r[k] = c[k + 1]
  OBVIOUS
<1>2. /\ a \in 0..1 /\ b \in 0..n /\ a <= b
      /\ \A k \in 1..a : c[k][1] \in {"REQ", "RESP"}
      /\ \A k \in (a + 1)..b : c[k] = <<"DATA", g + k - a>>
      /\ \A k \in (b + 1)..n : c[k] = <<"CLOSE">>
  BY DEF Flow
<1> HIDE DEF r, n
<1>3. /\ a = 1 => c[1][1] \in {"REQ", "RESP"}
      /\ a = 0 /\ b >= 1 => c[1] = <<"DATA", g + 1>>
      /\ a = 0 /\ b = 0 => c[1] = <<"CLOSE">>
  <2>1. a = 1 => 1 \in 1..a
    OBVIOUS
  <2>2. a = 0 /\ b >= 1 => 1 \in (a + 1)..b /\ g + 1 - a = g + 1
    OBVIOUS
  <2>3. a = 0 /\ b = 0 => 1 \in (b + 1)..n
    BY <1>1
  <2> QED
    BY ONLY <1>2, <2>1, <2>2, <2>3
<1>4. \A k \in 1..(n - 1) : k + 1 \in 1..n /\ k + 1 \in Nat
  BY <1>1
<1>5. ASSUME Head(c)[1] \in {"REQ", "RESP"}
      PROVE  a = 1 /\ b >= 1 /\ Flow(r, g, 0, b - 1)
  <2>1. a = 1 /\ b >= 1
    BY <1>1, <1>2, <1>3, <1>5
  <2>2. ASSUME NEW k \in 1..(b - 1) PROVE r[k] = <<"DATA", g + k>>
    <3>1. k \in 1..(n - 1) /\ k + 1 \in (a + 1)..b /\ g + (k + 1) - a = g + k
      BY <1>1, <1>2, <2>1
    <3> QED
      BY ONLY <1>1, <1>2, <3>1
  <2>3. ASSUME NEW k \in b..(n - 1) PROVE r[k] = <<"CLOSE">>
    <3>1. k \in 1..(n - 1) /\ k + 1 \in (b + 1)..n
      BY <1>1, <1>2, <2>1
    <3> QED
      BY ONLY <1>1, <1>2, <3>1
  <2>4. b - 1 \in 0..Len(r) /\ 0 \in 0..1 /\ 0 <= b - 1 /\ 1..0 = {} /\ (b - 1) + 1 = b
        /\ \A k \in 1..(b - 1) : g + k - 0 = g + k
    BY <1>1, <1>2, <2>1
  <2> QED
    BY <1>1, <2>1, <2>2, <2>3, <2>4 DEF Flow
<1>6. ASSUME Head(c)[1] = "DATA"
      PROVE  a = 0 /\ b >= 1 /\ Head(c) = <<"DATA", g + 1>> /\ Flow(r, g + 1, 0, b - 1)
  <2>1. a = 0 /\ b >= 1 /\ Head(c) = <<"DATA", g + 1>>
    BY <1>1, <1>2, <1>3, <1>6
  <2>2. ASSUME NEW k \in 1..(b - 1) PROVE r[k] = <<"DATA", (g + 1) + k - 0>>
    <3>1. k \in 1..(n - 1) /\ k + 1 \in (a + 1)..b /\ g + (k + 1) - a = (g + 1) + k - 0
      BY <1>1, <1>2, <2>1
    <3> QED
      BY ONLY <1>1, <1>2, <3>1
  <2>3. ASSUME NEW k \in b..(n - 1) PROVE r[k] = <<"CLOSE">>
    <3>1. k \in 1..(n - 1) /\ k + 1 \in (b + 1)..n
      BY <1>1, <1>2, <2>1
    <3> QED
      BY ONLY <1>1, <1>2, <3>1
  <2>4. b - 1 \in 0..Len(r) /\ 0 \in 0..1 /\ 0 <= b - 1 /\ 1..0 = {} /\ (b - 1) + 1 = b /\ 0 + 1 = 1
    BY <1>1, <1>2, <2>1
  <2>5. Flow(r, g + 1, 0, b - 1)
    BY ONLY <1>1, <2>2, <2>3, <2>4 DEF Flow
  <2> QED
    BY <2>1, <2>5
<1>7. ASSUME Head(c)[1] = "CLOSE"
      PROVE  a = 0 /\ b = 0 /\ Flow(r, g, 0, 0) /\ ~HasIn(r, "DATA")
  <2>1. a = 0 /\ b = 0
    BY <1>1, <1>2, <1>3, <1>7
  <2>2. ASSUME NEW k \in 1..(n - 1) PROVE r[k] = <<"CLOSE">>
    <3>1. k + 1 \in (b + 1)..n
      BY <1>1, <2>1
    <3> QED
      BY <1>1, <1>2, <3>1
  <2>3. 0 \in 0..Len(r) /\ 0 \in 0..1 /\ 0 <= 0 /\ 1..0 = {} /\ (0 + 1)..0 = {} /\ 0 + 1 = 1
    BY <1>1
  <2>4. Flow(r, g, 0, 0)
    BY ONLY <1>1, <2>2, <2>3 DEF Flow
  <2> QED
    BY <1>1, <2>1, <2>2, <2>4 DEF HasIn
<1> QED
  BY <1>1, <1>5, <1>6, <1>7 DEF r, n

LEMMA FlowGrows ==
  ASSUME NEW c \in Seq(Packets), NEW g \in Nat, NEW a \in Nat, NEW b \in Nat, Flow(c, g, a, b)
  PROVE  /\ Flow(Append(c, <<"CLOSE">>), g, a, b)
         /\ b = Len(c) => Flow(Append(c, <<"DATA", g + (b - a) + 1>>), g, a, b + 1)
<1>1. /\ a \in 0..1 /\ b \in 0..Len(c) /\ a <= b
      /\ \A k \in 1..a : c[k][1] \in {"REQ", "RESP"}
      /\ \A k \in (a + 1)..b : c[k] = <<"DATA", g + k - a>>
      /\ \A k \in (b + 1)..Len(c) : c[k] = <<"CLOSE">>
  BY DEF Flow
<1>2. PICK n \in Nat : n = Len(c)
  OBVIOUS
<1>0. g \in Nat /\ a \in 0..1 /\ b \in 0..n /\ a <= b
  BY <1>1, <1>2
<1>3. ASSUME NEW m \in Packets
      PROVE  /\ Len(Append(c, m)) = n + 1 /\ Append(c, m)[n + 1] = m
             /\ \A k \in 1..n : Append(c, m)[k] = c[k]
  BY <1>2
<1>4. Flow(Append(c, <<"CLOSE">>), g, a, b)
  <2>1. PICK d : d = Append(c, <<"CLOSE">>)
    OBVIOUS
  <2>2. Len(d) = n + 1 /\ d[n + 1] = <<"CLOSE">> /\ \A k \in 1..n : d[k] = c[k]
    BY <1>3, <2>1, PacketKinds
  <2>3. /\ b \in 0..(n + 1) /\ \A k \in 1..a : k \in 1..n
        /\ \A k \in (a + 1)..b : k \in 1..n
        /\ \A k \in (b + 1)..(n + 1) : k = n + 1 \/ (k \in 1..n /\ k \in (b + 1)..n)
    BY ONLY <1>0, n \in Nat
  <2> QED
    BY ONLY <1>1, <1>2, <2>1, <2>2, <2>3 DEF Flow
<1>5. ASSUME b = Len(c) PROVE Flow(Append(c, <<"DATA", g + (b - a) + 1>>), g, a, b + 1)
  <2>0. g + (b - a) + 1 \in Nat /\ g + (b - a) + 1 = g + (b + 1) - a
    BY ONLY <1>0, n \in Nat
  <2>1. PICK x \in Nat : x = g + (b - a) + 1 /\ x = g + (b + 1) - a
    BY <2>0
  <2>2. PICK d : d = Append(c, <<"DATA", x>>)
    OBVIOUS
  <2>3. Len(d) = n + 1 /\ d[n + 1] = <<"DATA", x>> /\ \A k \in 1..n : d[k] = c[k]
    BY <1>3, <2>1, <2>2, PacketKinds
  <2>4. /\ b = n /\ b + 1 \in 0..(n + 1) /\ a <= b + 1 /\ \A k \in 1..a : k \in 1..n
        /\ \A k \in (a + 1)..(b + 1) : k = n + 1 \/ (k \in 1..n /\ k \in (a + 1)..b)
        /\ (b + 1 + 1)..(n + 1) = {}
    BY <1>1, <1>2, <1>5
  <2>5. \A k \in (a + 1)..(b + 1) : d[k] = <<"DATA", g + k - a>>
    BY ONLY <1>1, <2>1, <2>3, <2>4
  <2>6. Flow(d, g, a, b + 1)
    BY ONLY <1>1, <2>3, <2>4, <2>5 DEF Flow
  <2> QED
    BY <2>1, <2>2, <2>6
<1> QED
  BY <1>4, <1>5

LEMMA FlowBegins ==
  ASSUME NEW m \in Packets, m[1] \in {"REQ", "RESP"}, NEW g \in Nat
  PROVE  Flow(Append(<<>>, m), g, 1, 1) /\ Len(Append(<<>>, m)) = 1
         /\ Append(<<>>, m) \in Seq(Packets)
<1>1. PICK d \in Seq(Packets) : d = Append(<<>>, m) /\ Len(d) = 1 /\ d[1] = m
  <2>1. <<>> \in Seq(Packets) /\ Len(<<>>) = 0
    OBVIOUS
  <2>2. \A c \in Seq(Packets) : /\ Append(c, m) \in Seq(Packets) /\ Len(Append(c, m)) = Len(c) + 1
                               /\ Append(c, m)[Len(c) + 1] = m
    OBVIOUS
  <2>3. Append(<<>>, m) \in Seq(Packets) /\ Len(Append(<<>>, m)) = 1 /\ Append(<<>>, m)[1] = m
    BY ONLY <2>1, <2>2
  <2> QED
    BY <2>3
<1>2. /\ 1 \in 0..1 /\ 1 <= 1 /\ \A k \in 1..1 : k = 1
      /\ (1 + 1)..1 = {}
  OBVIOUS
<1>3. m[1] \in {"REQ", "RESP"}
  OBVIOUS
<1>4. Flow(d, g, 1, 1)
  BY ONLY <1>1, <1>2, <1>3 DEF Flow
<1> QED
  BY <1>1, <1>4

-----------------------------------------------------------------------------
(* The stream *)

(* Nothing but the program at the other side can end s.                       *)
Clean(s) == ~Gone(s) /\ ~gaveUp /\ Up

(* The packets on their way are the ones the peer read, from the next one     *)
(* that the program of s is to get to the last one, unless the socket of the  *)
(* peer is read in vain.                                                      *)
Account(s, a, b) ==
  /\ Flow(chan[s], passed[s], a, b)
  /\ passed[s] + (b - a) <= Read(Peer(s))
  /\ passed[s] + (b - a) = Read(Peer(s)) \/ (Silent(Peer(s)) /\ ~Clean(s))
  /\ b < Len(chan[s]) => Silent(Peer(s))
  /\ pipe[s] = "Closed" => b = 0 /\ Silent(Peer(s))

OrderInv(s) == CanDeliver(s) => \E a, b \in Nat : Account(s, a, b)

(* The program of s gets packets up to n in order and once. *)
InOrder(g, n) == \A j \in 1..Len(g) : g[j] \in 1..n /\ \A i \in 1..(j - 1) : g[i] < g[j]

GotInv(s) == InOrder(got[s], passed[s]) /\ passed[s] <= Read(Peer(s))

(* The socket of s was handed all that the other one had read at its end.     *)
Finished(s) == /\ Gone(Peer(s)) /\ kin[Peer(s)] = <<>>
               /\ passed[s] = Readable(Peer(s)) /\ ~Has(s, "DATA")

(* The connection of s has begun to end.                                      *)
Ended(s) == closeReq[s] \/ s \in eof \/ tunnel[s] = "closing" \/ loop[s] = "closing" \/ route[s] = "erased"
            \/ sock[s] = "closed" \/ pipe[s] = "Closed"

CleanInv(s) ==
  Clean(s) =>
    /\ Ended(s) => Finished(s)
    /\ Ended(Peer(s)) \/ Has(s, "CLOSE") => Gone(Peer(s)) /\ kin[Peer(s)] = <<>>

StreamInv == Base /\ \A s \in Sides : KinInv(s) /\ GotInv(s) /\ OrderInv(s) /\ CleanInv(s)

(* Data that comes before the pipe or the socket ends is handed to it.        *)
LEMMA Delivers ==
  ASSUME Base, NEW s \in Sides, OrderInv(s), OnPipePacket(s)
  PROVE  IF CanDeliver(s)
           THEN passed'[s] = passed[s] + 1 /\ got'[s] \in {got[s], Append(got[s], Head(chan[s])[2])}
           ELSE passed'[s] = passed[s] /\ got'[s] = got[s]
<1>1. TypeInv /\ SideInv /\ AskInv /\ ChanInv /\ AnswerInv
  BY DEF Base
<1>2. link[s] = "up" /\ chan[s] # <<>> /\ Head(chan[s])[1] = "DATA" /\ chan[s] \in Seq(Packets)
  BY <1>1 DEF OnPipePacket, Receives, TypeInv
<1> DEFINE delivers == pipe[s] = "Opened" /\ Alive(s) /\ app[s] # "closed"
                         /\ sock[s] \in {"associated", "added", "polled"} /\ (s = "S" => sock[s] = "polled")
<1>3. delivers => CanDeliver(s)
  BY <1>2 DEF CanDeliver
<1>4. ASSUME CanDeliver(s) PROVE delivers
  <2>1. route[s] # "none"
    <3>1. CASE s = "C"
      <4>1. route["C"] = "none" => chan["C"] = <<>>
        BY <1>1 DEF SideInv, Untouched, Sides, Peer
      <4> QED
        BY <1>2, <3>1, <4>1
    <3>2. CASE s = "S"
      <4>1. Has("S", "DATA")
        BY <1>1, <1>2, <3>2, HasHead
      <4>2. sock["S"] # "none"
        BY <1>1, <4>1 DEF AnswerInv, PastRequest, Answered
      <4> QED
        BY <1>1, <3>2, <4>2 DEF SideInv, Untouched, Sides
    <3> QED
      BY <3>1, <3>2 DEF Sides
  <2>2. Alive(s)
    BY <1>4, <2>1 DEF CanDeliver
  <2>3. CASE s = "C"
    <3>1. pipe["C"] # "OpenRequstSent"
      BY <1>1, <1>2, <2>3 DEF ChanInv
    <3>2. pipe["C"] = "Opened"
      BY <1>1, <1>4, <2>1, <2>3, <3>1 DEF CanDeliver, SideInv, TypeInv
    <3>3. app["C"] # "closed" /\ sock["C"] \in {"associated", "added", "polled"}
      BY <1>1, <1>4, <2>1, <2>3 DEF CanDeliver, SideInv, TypeInv
    <3> QED
      BY <2>2, <2>3, <3>2, <3>3
  <2>4. CASE s = "S"
    <3>1. Has("S", "DATA")
      BY <1>1, <1>2, <2>4, HasHead
    <3>2. sock["S"] = "polled" /\ pipe["S"] \in {"Opened", "Closed"}
      BY <1>1, <1>4, <2>4, <3>1 DEF AnswerInv, PastRequest, Answered, CanDeliver
    <3>3. app["S"] # "closed"
      BY <1>4, <2>4 DEF CanDeliver
    <3>4. pipe["S"] # "Closed"
      <4>1. PICK a \in Nat, b \in Nat : Account(s, a, b)
        BY <1>4 DEF OrderInv
      <4>2. passed[s] \in Nat
        BY <1>1 DEF TypeInv
      <4>3. b >= 1
        BY <1>2, <4>1, <4>2, FlowTaken DEF Account
      <4> QED
        BY <2>4, <4>1, <4>3 DEF Account
    <3> QED
      BY <2>2, <2>4, <3>2, <3>3, <3>4
  <2> QED
    BY <2>3, <2>4 DEF Sides
<1>5. IF delivers THEN SocketSend(s, Head(chan[s])[2]) ELSE UNCHANGED <<passed, got>>
  BY DEF OnPipePacket
<1>6. got \in [Sides -> Seq(Nat)] /\ passed \in [Sides -> Nat]
  BY <1>1 DEF TypeInv
<1> HIDE DEF delivers
<1> QED
  BY <1>3, <1>4, <1>5, <1>6 DEF SocketSend

LEMMA StillKin ==
  ASSUME NEW s \in Sides, Still(s)
  PROVE  (KinInv(s) => KinInv(s)') /\ Read(s)' = Read(s)
BY DEF Still, KinInv, Read, Readable

LEMMA CleanBack ==
  ASSUME Base, NEW s \in Sides, SideStep(s), NEW t \in Sides
  PROVE  Clean(t)' => Clean(t)
BY Monotone DEF Clean

(* A step of s that takes nothing off its channel delivers nothing.           *)
LEMMA GotStays ==
  ASSUME Base, NEW s \in Sides, SideStep(s), ~OnPipePacket(s)
  PROVE  got' = got /\ passed' = passed
BY DEF SideStep, TunnelStep, LoopStep, OnAccept, OnPipe, OnPipeOpen, OnOpenExpired, OnClosePacket, SocketClose,
       AddSocket, ConnectEnds, PipeStart, ReadSocket, HangUp, ExecClose, PipeClose, LinkClose, AppSend, AppClose, seen, lapses

(* A pipe that closes without a CLOSE packet has nobody to deliver to.        *)
LEMMA PipeEnds ==
  ASSUME Base, NEW s \in Sides, SideStep(s), ~OnClosePacket(s), pipe[s] # "Closed", pipe'[s] = "Closed"
  PROVE  ~CanDeliver(s)'
<1>1. TypeInv /\ SideInv
  BY DEF Base
<1> USE <1>1 DEF TypeInv, CanDeliver, Alive
<1>2. CASE s = "C"
  BY <1>2
<1>3. CASE s = "S"
  <2>1. CASE OnPipe \/ OnPipePacket(s)
    BY <1>3, <2>1 DEF OnPipe, StartServer, OnPipePacket
  <2>2. CASE SocketClose(s)
    <3>1. route[s] = "erased" /\ loop[s] = "wait" /\ route' = route /\ loop' = loop /\ tunnel'[s] = "wait"
      BY <2>2 DEF SocketClose, Dropped
    <3> QED
      BY <3>1
  <2>3. CASE PipeStart(s)
    <3>1. route[s] = "erased" /\ tunnel[s] # "closing" /\ route' = route /\ tunnel' = tunnel /\ loop'[s] = "wait"
      BY <2>3 DEF PipeStart
    <3> QED
      BY <3>1
  <2>4. CASE PipeClose(s)
    BY <2>4 DEF PipeClose, SideInv
  <2>5. CASE AddSocket(s) \/ ConnectEnds(s) \/ ReadSocket(s) \/ ExecClose(s) \/ LinkClose(s) \/ AppSend(s) \/ AppClose(s)
    BY <2>5 DEF AddSocket, ConnectEnds, ReadSocket, HangUp, ExecClose, LinkClose, AppSend, AppClose
  <2> QED
    BY <1>3, <2>1, <2>2, <2>3, <2>4, <2>5 DEF SideStep, TunnelStep, LoopStep
<1> QED
  BY <1>2, <1>3 DEF Sides

(* The packet after n, taken or not. *)
LEMMA OrderGrows ==
  ASSUME NEW g \in Seq(Nat), NEW n \in Nat, InOrder(g, n)
  PROVE  InOrder(g, n + 1) /\ InOrder(Append(g, n + 1), n + 1)
<1> DEFINE h == Append(g, n + 1)
<1>1. Len(h) = Len(g) + 1 /\ h[Len(g) + 1] = n + 1 /\ Len(g) \in Nat /\ \A j \in 1..Len(g) : h[j] = g[j]
  OBVIOUS
<1>2. InOrder(g, n + 1)
  BY DEF InOrder
<1> HIDE DEF h
<1>3. ASSUME NEW j \in 1..Len(h) PROVE h[j] \in 1..(n + 1) /\ \A i \in 1..(j - 1) : h[i] < h[j]
  <2>1. CASE j \in 1..Len(g)
    <3>1. h[j] = g[j] /\ g[j] \in 1..(n + 1)
      BY <1>1, <1>2, <2>1 DEF InOrder
    <3>2. \A i \in 1..(j - 1) : h[i] = g[i] /\ g[i] < g[j]
      <4>1. \A i \in 1..(j - 1) : i \in 1..Len(g)
        BY <1>1, <2>1
      <4> QED
        BY <1>1, <1>2, <2>1, <4>1 DEF InOrder
    <3> QED
      BY <3>1, <3>2
  <2>2. CASE j = Len(g) + 1
    <3>1. \A i \in 1..(j - 1) : i \in 1..Len(g) /\ h[i] = g[i] /\ g[i] \in 1..n
      BY <1>1, <2>2 DEF InOrder
    <3>2. h[j] = n + 1 /\ n + 1 \in 1..(n + 1)
      BY <1>1, <2>2
    <3>3. \A m \in 1..n : m < n + 1
      OBVIOUS
    <3>4. \A i \in 1..(j - 1) : h[i] < h[j]
      BY ONLY <3>1, <3>2, <3>3
    <3> QED
      BY ONLY <3>2, <3>4
  <2> QED
    BY <1>1, <2>1, <2>2
<1> QED
  BY <1>2, <1>3 DEF InOrder, h

LEMMA OwnOrder ==
  ASSUME StreamInv, NEW s \in Sides, SideStep(s)
  PROVE  OrderInv(s)' /\ GotInv(s)'
<1> DEFINE p == Peer(s)
           g == passed[s]
<1>1. /\ Base /\ TypeInv /\ SideInv /\ AskInv /\ ChanInv /\ AnswerInv
      /\ KinInv(p) /\ GotInv(s) /\ OrderInv(s)
      /\ p \in Sides /\ p # s
  BY TwoSides DEF StreamInv, Base
<1>2. Still(p) /\ Read(p)' = Read(p)
  BY <1>1, OtherSide, StillKin DEF Still
<1>3. (CanDeliver(s)' => CanDeliver(s)) /\ (Silent(p) => Silent(p)') /\ (Clean(s)' => Clean(s))
  BY <1>1, EndsForGood, CleanBack
<1>4. /\ chan[s] \in Seq(Packets) /\ got[s] \in Seq(Nat) /\ g \in Nat /\ Read(p) \in Nat
      /\ got \in [Sides -> Seq(Nat)]
  <2>2. Read(p) \in Nat
    BY <1>1, KinBounds
  <2> QED
    BY <1>1, <2>2 DEF TypeInv
<1> HIDE DEF p
<1>5. CASE OnPipePacket(s) /\ CanDeliver(s)
  <2>1. PICK a \in Nat, b \in Nat : Account(s, a, b)
    BY <1>1, <1>5 DEF OrderInv
  <2>2. chan[s] # <<>> /\ Head(chan[s])[1] = "DATA" /\ chan'[s] = Tail(chan[s]) /\ pipe' = pipe
    BY <1>1, <1>5 DEF OnPipePacket, Receives, Taken, TypeInv
  <2>3. /\ a = 0 /\ b >= 1 /\ Head(chan[s]) = <<"DATA", g + 1>> /\ Flow(chan'[s], g + 1, 0, b - 1)
        /\ Len(chan[s]) \in Nat /\ Len(chan'[s]) = Len(chan[s]) - 1
    <3>1. Flow(chan[s], g, a, b)
      BY <2>1 DEF Account
    <3>2. chan[s] \in Seq(Packets) /\ g \in Nat /\ chan[s] # <<>> /\ Head(chan[s])[1] = "DATA" /\ chan'[s] = Tail(chan[s])
      BY <1>4, <2>2
    <3> HIDE DEF g
    <3>3. /\ a = 0 /\ b >= 1 /\ Head(chan[s]) = <<"DATA", g + 1>> /\ Flow(Tail(chan[s]), g + 1, 0, b - 1)
          /\ Len(chan[s]) \in Nat /\ Len(Tail(chan[s])) = Len(chan[s]) - 1
      BY <3>1, <3>2, FlowTaken
    <3> QED
      BY <3>2, <3>3
  <2>4. got'[s] \in {got[s], Append(got[s], g + 1)}
    BY <1>1, <1>5, <2>3, Delivers
  <2>5. passed'[s] = g + 1
    BY <1>1, <1>5, Delivers
  <2>6. InOrder(got'[s], g + 1)
    BY <1>1, <1>4, <2>4, OrderGrows DEF GotInv
  <2>7. g + (b - a) <= Read(p)
    BY <2>1 DEF Account, p
  <2>8. g + 1 <= Read(p) /\ (g + 1) + ((b - 1) - 0) = g + (b - a) /\ b - 1 \in Nat
    <3>1. g \in Nat /\ Read(p) \in Nat /\ a = 0 /\ b >= 1 /\ b \in Nat
      BY <1>4, <2>3
    <3> HIDE DEF g
    <3> QED
      BY <2>7, <3>1
  <2>9. b - 1 < Len(chan'[s]) => b < Len(chan[s])
    BY <2>3
  <2>10. pipe[s] # "Closed"
    BY <2>1, <2>3 DEF Account
  <2>11. Account(s, 0, b - 1)'
    BY <1>2, <1>3, <2>1, <2>2, <2>3, <2>5, <2>7, <2>8, <2>9, <2>10 DEF Account, p
  <2> QED
    BY <1>2, <2>5, <2>6, <2>8, <2>11 DEF OrderInv, GotInv, p
<1>6. CASE OnPipePacket(s) /\ ~CanDeliver(s)
  <2>1. got'[s] = got[s] /\ passed'[s] = passed[s]
    BY <1>1, <1>6, Delivers
  <2> QED
    BY <1>1, <1>2, <1>3, <1>6, <2>1 DEF OrderInv, GotInv, p
<1>7. CASE ~OnPipePacket(s)
  <2>1. got' = got /\ passed' = passed
    BY <1>1, <1>7, GotStays
  <2>2. GotInv(s)'
    BY <1>1, <1>2, <2>1 DEF GotInv, p
  <2>3. ASSUME CanDeliver(s)' PROVE \E a, b \in Nat : Account(s, a, b)'
    <3>1. PICK a \in Nat, b \in Nat : Account(s, a, b)
      BY <1>1, <1>3, <2>3 DEF OrderInv
    <3>2. CASE OnClosePacket(s)
      <4>1. chan[s] # <<>> /\ Head(chan[s])[1] = "CLOSE" /\ chan'[s] = Tail(chan[s])
        BY <1>1, <3>2 DEF OnClosePacket, Receives, Taken, TypeInv
      <4>2. a = 0 /\ b = 0 /\ Flow(chan'[s], g, 0, 0) /\ Len(chan[s]) > 0
        BY <1>4, <3>1, <4>1, FlowTaken DEF Account
      <4>3. Silent(p)'
        BY <1>3, <3>1, <4>2 DEF Account, p
      <4>4. Account(s, 0, 0)'
        BY <1>2, <1>3, <2>1, <3>1, <4>2, <4>3 DEF Account, p
      <4> QED
        BY <4>4
    <3>3. CASE (s = "S" /\ OnPipe) \/ (s = "C" /\ OnPipeOpen)
      <4>1. chan[s] # <<>> /\ Head(chan[s])[1] \in {"REQ", "RESP"} /\ chan'[s] = Tail(chan[s])
        <5> USE <1>1 DEF OnPipe, OnPipeOpen, Receives, Taken, TypeInv
        <5>1. CASE s = "S" /\ OnPipe
          BY <5>1
        <5>2. CASE s = "C" /\ OnPipeOpen
          BY <5>2
        <5> QED
          BY <3>3, <5>1, <5>2
      <4>2. /\ a = 1 /\ b >= 1 /\ Flow(chan'[s], g, 0, b - 1)
            /\ Len(chan[s]) \in Nat /\ Len(chan'[s]) = Len(chan[s]) - 1
        BY <1>4, <3>1, <4>1, FlowTaken DEF Account
      <4>3. b - 1 \in Nat /\ g + ((b - 1) - 0) = g + (b - a) /\ (b - 1 < Len(chan'[s]) => b < Len(chan[s]))
        BY <1>4, <4>2
      <4>4. pipe'[s] # "Closed"
        <5>1. pipe[s] # "Closed"
          BY <3>1, <4>2 DEF Account
        <5> QED
          BY <1>1, <3>3, <5>1 DEF OnPipe, OnPipeOpen, StartServer, TypeInv
      <4>5. Account(s, 0, b - 1)'
        BY <1>2, <1>3, <2>1, <3>1, <4>2, <4>3, <4>4 DEF Account, p
      <4> QED
        BY <4>3, <4>5
    <3>4. CASE ~OnClosePacket(s) /\ ~(s = "S" /\ OnPipe) /\ ~(s = "C" /\ OnPipeOpen)
      <4>1. ~(LinkClose(s) /\ link'[s] = "down")
        BY <2>3 DEF CanDeliver
      <4>2. chan'[s] = chan[s]
        BY <1>1, <1>7, <3>4, <4>1, OwnChannel DEF Takes
      <4>3. pipe'[s] = "Closed" => pipe[s] = "Closed"
        BY <1>1, <2>3, <3>4, PipeEnds
      <4>4. Account(s, a, b)'
        BY <1>2, <1>3, <2>1, <3>1, <4>2, <4>3 DEF Account, p
      <4> QED
        BY <4>4
    <3> QED
      BY <3>2, <3>3, <3>4
  <2> QED
    BY <2>2, <2>3 DEF OrderInv
<1> QED
  BY <1>5, <1>6, <1>7

(* The socket of p is read in vain: s will miss what comes, and knows its     *)
(* program, the tunnel or the request has ended.                              *)
LEMMA ReadInVain ==
  ASSUME Base, NEW p \in Sides, ReadSocket(p), CleanInv(Peer(p)), ~(Alive(p) /\ Up)
  PROVE  Silent(p) /\ ~Clean(Peer(p))
<1>1. TypeInv /\ SideInv
  BY DEF Base
<1>2. sock[p] = "polled" /\ kin[p] # <<>> /\ route[p] # "none"
  BY <1>1 DEF ReadSocket, SideInv, Untouched
<1>3. CASE ~Up
  BY <1>3 DEF Silent, Clean
<1>4. CASE ~Alive(p)
  <2>1. route[p] = "erased"
    BY <1>1, <1>2, <1>4 DEF Alive, TypeInv
  <2> QED
    BY <1>2, <1>4, <2>1, TwoSides DEF Silent, CleanInv, Ended
<1> QED
  BY <1>3, <1>4

LEMMA PeerOrder ==
  ASSUME StreamInv, NEW p \in Sides, SideStep(p), NEW s \in Sides, s = Peer(p)
  PROVE  OrderInv(s)' /\ GotInv(s)'
<1> DEFINE g == passed[s]
<1>1. /\ Base /\ TypeInv /\ SideInv /\ AskInv /\ ChanInv /\ AnswerInv
      /\ KinInv(p) /\ GotInv(s) /\ OrderInv(s) /\ CleanInv(s)
      /\ p = Peer(s) /\ p # s
  BY TwoSides DEF StreamInv, Base
<1>2. Still(s)
  BY <1>1, OtherSide DEF Still
<1>3. (CanDeliver(s)' => CanDeliver(s)) /\ (Silent(p) => Silent(p)') /\ (Clean(s)' => Clean(s))
  BY <1>1, EndsForGood, CleanBack
<1>4. /\ chan[s] \in Seq(Packets) /\ g \in Nat /\ Len(chan[s]) \in Nat
  BY <1>1 DEF TypeInv
<1>5. /\ Read(p) \in Nat /\ Read(p)' \in Nat
      /\ IF ReadSocket(p) /\ Head(kin[p]) # EOF
           THEN Head(kin[p]) = Read(p) + 1 /\ Read(p)' = Read(p) + 1
           ELSE Read(p)' = Read(p)
  <2>1. Read(p) \in Nat
    BY <1>1, KinBounds
  <2> QED
    BY <1>1, <2>1, KinKept
<1>6. GotInv(s)'
  <2>1. Read(p) <= Read(p)' /\ g <= Read(p)
    BY <1>1, <1>4, <1>5 DEF GotInv
  <2>2. got'[s] = got[s] /\ passed'[s] = passed[s] /\ InOrder(got[s], passed[s]) /\ g <= Read(p)'
    BY <1>1, <1>2, <1>4, <1>5, <2>1 DEF Still, GotInv
  <2> QED
    BY ONLY <1>1, <2>2 DEF GotInv
<1>7. ASSUME CanDeliver(s)' PROVE \E a, b \in Nat : Account(s, a, b)'
  <2>1. PICK a \in Nat, b \in Nat : Account(s, a, b)
    BY <1>1, <1>3, <1>7 DEF OrderInv
  <2>2. /\ Flow(chan[s], g, a, b) /\ a <= b /\ b <= Len(chan[s]) /\ g + (b - a) <= Read(p)
        /\ g + (b - a) = Read(p) \/ (Silent(p) /\ ~Clean(s))
        /\ b < Len(chan[s]) => Silent(p)
        /\ pipe[s] = "Closed" => b = 0 /\ Silent(p)
    BY <1>1, <2>1 DEF Account, Flow
  <2>3. passed'[s] = passed[s] /\ pipe'[s] = pipe[s]
    BY <1>2 DEF Still
  <2>4. CASE chan'[s] = chan[s] /\ ~(ReadSocket(p) /\ Head(kin[p]) # EOF)
    <3>1. Account(s, a, b)'
      BY <1>1, <1>3, <1>5, <2>2, <2>3, <2>4 DEF Account
    <3> QED
      BY <3>1
  <2>5. CASE chan'[s] = chan[s] /\ ReadSocket(p) /\ Head(kin[p]) # EOF
    <3>1. ~(Alive(p) /\ Up)
      <4> SUFFICES ASSUME Alive(p), Up PROVE FALSE
        OBVIOUS
      <4>1. Head(kin[p]) \in Nat
        BY <1>5, <2>5
      <4>2. <<"DATA", Head(kin[p])>> \in Packets
        BY <4>1, PacketKinds
      <4>3. chan' = Sends(p, <<"DATA", Head(kin[p])>>)
        BY <2>5 DEF ReadSocket
      <4>4. chan'[s] = Append(chan[s], <<"DATA", Head(kin[p])>>)
        <5>1. chan \in [Sides -> Seq(Packets)]
          BY <1>1 DEF TypeInv
        <5> QED
          BY <4>2, <4>3, <5>1, SendsTo
      <4>5. Len(Append(chan[s], <<"DATA", Head(kin[p])>>)) = Len(chan[s]) + 1
        BY <1>4, <4>2
      <4> QED
        BY <1>4, <2>5, <4>4, <4>5
    <3>2. Silent(p) /\ ~Clean(s)
      BY <1>1, <2>5, <3>1, ReadInVain
    <3>3. Read(p)' = Read(p) + 1
      BY <1>5, <2>5
    <3>4. g + (b - a) <= Read(p)'
      BY <1>4, <1>5, <2>2, <3>3
    <3>5. Account(s, a, b)'
      BY <1>1, <1>3, <2>2, <2>3, <2>5, <3>2, <3>4 DEF Account
    <3> QED
      BY <3>5
  <2>6. CASE AddsData(p)
    <3>1. ~Silent(p)
      BY <1>1, <2>6 DEF AddsData, Adds, Silent
    <3>2. b = Len(chan[s]) /\ g + (b - a) = Read(p) /\ pipe[s] # "Closed"
      BY <1>4, <2>2, <3>1
    <3>3. ReadSocket(p) /\ Head(kin[p]) # EOF /\ chan'[s] = Append(chan[s], <<"DATA", Head(kin[p])>>)
      BY <2>6 DEF AddsData, Adds
    <3>4. chan'[s] = Append(chan[s], <<"DATA", g + (b - a) + 1>>) /\ Read(p)' = Read(p) + 1
      BY <1>5, <3>2, <3>3
    <3>5. Flow(chan'[s], g, a, b + 1)
      BY <1>4, <2>2, <3>2, <3>4, FlowGrows
    <3>6. b + 1 \in Nat /\ g + ((b + 1) - a) = Read(p)'
      <4> HIDE DEF g
      <4>1. g + ((b + 1) - a) = g + (b - a) + 1
        BY <1>4
      <4> QED
        BY <3>2, <3>4, <4>1
    <3>7. Len(chan'[s]) = b + 1
      <4> HIDE DEF g
      <4>1. PICK x \in Nat : x = g + (b - a) + 1
        BY <1>5, <3>2
      <4>2. <<"DATA", x>> \in Packets
        BY PacketKinds
      <4>3. \A m \in Packets : Len(Append(chan[s], m)) = Len(chan[s]) + 1
        BY <1>4
      <4> QED
        BY <3>2, <3>4, <4>1, <4>2, <4>3
    <3>8. ~(b + 1 < Len(chan'[s])) /\ Read(p)' <= Read(p)'
      BY <1>5, <3>6, <3>7
    <3>9. Account(s, a, b + 1)'
      BY ONLY <1>1, <2>3, <3>2, <3>5, <3>6, <3>8 DEF Account
    <3> QED
      BY <3>6, <3>9
  <2>7. CASE AddsClose(p)
    <3>1. chan'[s] = Append(chan[s], <<"CLOSE">>) /\ ~ReadSocket(p)
      <4>1. loop' = loop \/ loop[p] = "closing"
        BY <2>7 DEF AddsClose, SocketClose, PipeClose, OnOpenExpired
      <4>2. pipe' # pipe
        BY <2>7 DEF AddsClose
      <4> QED
        BY <2>7, <4>2 DEF AddsClose, Adds, ReadSocket
    <3>2. Silent(p)'
      <4> USE <1>1, <2>7 DEF TypeInv, Silent, AddsClose, Alive
      <4>1. CASE SocketClose(p)
        <5>1. Dropped(p) /\ loop[p] = "wait" /\ tunnel'[p] = "wait" /\ route' = route /\ loop' = loop
          BY <4>1 DEF SocketClose
        <5> QED
          BY <5>1 DEF Dropped
      <4>2. CASE PipeClose(p)
        BY <4>2 DEF PipeClose, SideInv
      <4>3. CASE p = "C" /\ OnOpenExpired
        <5>1. pipe["C"] = "OpenRequstSent" /\ link["C"] = "up" /\ sock' = sock
          BY <4>3 DEF OnOpenExpired, Adds, Up, socketVars
        <5> QED
          BY <4>3, <5>1 DEF AskInv
      <4> QED
        BY <4>1, <4>2, <4>3
    <3>3. Flow(chan'[s], g, a, b)
      BY <1>4, <2>2, <3>1, FlowGrows
    <3>4. Account(s, a, b)'
      BY <1>1, <1>3, <1>5, <2>2, <2>3, <3>1, <3>2, <3>3 DEF Account
    <3> QED
      BY <3>4
  <2>8. CASE chan[s] = <<>> /\ (AddsReq(p) \/ AddsResp(p) \/ AddsBoth(p))
    <3>1. Len(chan[s]) = 0 /\ a = 0 /\ b = 0
      BY <1>4, <2>2, <2>8
    <3>2. ~ReadSocket(p)
      BY <1>1, <2>8 DEF AddsReq, AddsResp, AddsBoth, PipeStart, ReadSocket, OnAccept, SideInv, Untouched
    <3>3. pipe[s] # "Closed"
      <4>1. CASE AddsReq(p)
        <5>1. route["C"] = "none" /\ s = "S"
          BY <1>1, <4>1, TwoSides DEF AddsReq, OnAccept
        <5> QED
          BY <1>1, <5>1 DEF SideInv, Untouched
      <4>2. CASE AddsResp(p) \/ AddsBoth(p)
        <5>1. p = "S" /\ s = "C"
          BY <1>1, <4>2, TwoSides DEF AddsResp, AddsBoth, PipeStart, SideInv
        <5> QED
          BY <1>3, <1>7, <5>1 DEF CanDeliver
      <4> QED
        BY <2>8, <4>1, <4>2
    <3>4. g + (1 - 1) = g + (b - a)
      BY <1>4, <3>1
    <3>5. CASE AddsReq(p) \/ AddsResp(p)
      <4>1. PICK m \in Packets : m[1] \in {"REQ", "RESP"} /\ chan'[s] = Append(<<>>, m)
        BY <2>8, <3>5, PacketKinds DEF AddsReq, AddsResp, Adds
      <4>2. Flow(chan'[s], g, 1, 1) /\ Len(chan'[s]) = 1
        BY <1>4, <4>1, FlowBegins
      <4>3. Read(p)' = Read(p) /\ ~(1 < Len(chan'[s])) /\ pipe'[s] # "Closed"
        BY <1>5, <2>3, <3>2, <3>3, <4>2
      <4>4. Account(s, 1, 1)'
        BY ONLY <1>1, <1>3, <2>2, <2>3, <3>4, <4>2, <4>3 DEF Account
      <4> QED
        BY <4>4
    <3>6. CASE AddsBoth(p)
      <4>1. PICK d : d = Append(<<>>, <<"RESP">>) /\ chan'[s] = Append(d, <<"CLOSE">>)
        BY <2>8, <3>6 DEF AddsBoth
      <4>2. Flow(d, g, 1, 1) /\ d \in Seq(Packets)
        BY <1>4, <4>1, FlowBegins, PacketKinds
      <4>3. Flow(chan'[s], g, 1, 1)
        BY <1>4, <4>1, <4>2, FlowGrows
      <4>4. Silent(p)'
        <5>1. route[p] = "erased" /\ tunnel[p] # "closing" /\ route' = route /\ tunnel' = tunnel /\ loop'[p] = "wait"
          BY <1>1, <3>6 DEF AddsBoth, PipeStart, TypeInv
        <5> QED
          BY <5>1 DEF Silent, Alive
      <4>5. Account(s, 1, 1)'
        BY <1>1, <1>3, <1>5, <2>2, <2>3, <3>2, <3>3, <3>4, <4>3, <4>4 DEF Account
      <4> QED
        BY <4>5
    <3> QED
      BY <2>8, <3>5, <3>6
  <2>9. AddsReq(p) \/ AddsResp(p) \/ AddsBoth(p) => chan[s] = <<>>
    <3>1. ASSUME AddsReq(p) PROVE chan[s] = <<>>
      <4>1. p = "C" /\ route["C"] = "none"
        BY <3>1 DEF AddsReq, OnAccept
      <4> QED
        BY <1>1, <4>1 DEF SideInv, Untouched
    <3>2. ASSUME AddsResp(p) \/ AddsBoth(p) PROVE chan[s] = <<>>
      <4>1. p = "S" /\ s = "C" /\ loop["S"] = "starting"
        BY <1>1, <3>2, TwoSides DEF AddsResp, AddsBoth, PipeStart, SideInv
      <4> QED
        BY <1>1, <4>1 DEF ChanInv
    <3> QED
      BY <3>1, <3>2
  <2> QED
    BY <1>1, <2>4, <2>5, <2>6, <2>7, <2>8, <2>9, OtherChannel
<1> QED
  BY <1>6, <1>7 DEF OrderInv

-----------------------------------------------------------------------------
(* The end of the stream *)

(* What begins to end a connection whose tunnel and request hold.             *)
LEMMA EndBegins ==
  ASSUME Base, NEW s \in Sides, SideStep(s), Ended(s)', ~Ended(s), ~gaveUp', Up'
  PROVE  \/ OnClosePacket(s) /\ pipe[s] # "None"
         \/ ReadsEnd(s)
         \/ ConnectEnds(s) /\ Gone(s)'
<1>1. TypeInv /\ SideInv
  BY DEF Base
<1> USE <1>1 DEF TypeInv, Ended
<1>2. ASSUME NEW port \in Ports, OnAccept(port), s = "C" PROVE FALSE
  BY <1>2 DEF OnAccept, StartClient, SideInv, Untouched, seen, lapses
<1>3. CASE s = "S" /\ OnPipe
  BY <1>3 DEF OnPipe, StartServer, SideInv, appVars, seen, lapses
<1>4. CASE s = "C" /\ (OnPipeOpen \/ OnOpenExpired)
  BY <1>4 DEF OnPipeOpen, OnOpenExpired, socketVars, seen, lapses
<1>5. CASE OnPipePacket(s) \/ SocketClose(s)
  BY <1>5 DEF OnPipePacket, SocketClose, socketVars, appVars, seen, lapses
<1>6. CASE OnClosePacket(s)
  <2>1. CASE pipe[s] = "None"
    <3>1. UNCHANGED <<route, tunnel, loop, sock, closeReq, eof>> /\ pipe'[s] = "None"
      BY <1>6, <2>1 DEF OnClosePacket, socketVars, appVars, seen, lapses
    <3> QED
      BY ONLY <3>1, <2>1, Ended(s)', ~Ended(s) DEF Ended
  <2> QED
    BY <1>6, <2>1
<1>7. CASE LinkClose(s)
  BY <1>7 DEF LinkClose, Up
<1>8. CASE AppSend(s) \/ AppClose(s)
  BY <1>8 DEF AppSend, AppClose, socketVars, seen, lapses
<1>9. CASE AddSocket(s) \/ PipeStart(s)
  BY <1>9 DEF AddSocket, PipeStart, socketVars, seen, lapses
<1>12. CASE ConnectEnds(s)
  BY <1>12 DEF ConnectEnds, Gone, seen, lapses
<1>10. CASE ReadSocket(s)
  BY <1>10 DEF ReadSocket, ReadsEnd, seen
<1>11. CASE ExecClose(s) \/ PipeClose(s)
  BY <1>11 DEF ExecClose, PipeClose
<1> QED
  BY <1>2, <1>3, <1>4, <1>5, <1>6, <1>7, <1>8, <1>9, <1>10, <1>11, <1>12 DEF SideStep, TunnelStep, LoopStep

LEMMA OwnClean ==
  ASSUME StreamInv, NEW s \in Sides, SideStep(s)
  PROVE  CleanInv(s)'
<1> DEFINE p == Peer(s)
<1> SUFFICES ASSUME Clean(s)'
             PROVE  /\ Ended(s)' => Finished(s)'
                    /\ Ended(p)' \/ Has(s, "CLOSE")' => Gone(p)' /\ kin'[p] = <<>>
  BY DEF CleanInv
<1>1. /\ Base /\ TypeInv /\ SideInv /\ AskInv /\ ChanInv /\ AnswerInv
      /\ KinInv(p) /\ OrderInv(s) /\ CleanInv(s)
      /\ p \in Sides /\ p # s /\ Peer(p) = s
  BY TwoSides DEF StreamInv, Base
<1>2. Still(p)
  BY <1>1, OtherSide DEF Still
<1>3. Clean(s) /\ ~gaveUp' /\ Up'
  BY <1>1, CleanBack DEF Clean
<1>4. /\ Ended(s) => Finished(s)
      /\ Ended(p) \/ Has(s, "CLOSE") => Gone(p) /\ kin[p] = <<>>
  BY <1>1, <1>3 DEF CleanInv
<1> HIDE DEF p
<1>5. Ended(p)' \/ Has(s, "CLOSE")' => Gone(p)' /\ kin'[p] = <<>>
  <2>1. Ended(p)' => Ended(p)
    BY <1>1, <1>2, OtherSide DEF Ended, Still
  <2>2. Has(s, "CLOSE")' => Has(s, "CLOSE")
    BY <1>1, OwnHas
  <2> QED
    BY <1>2, <1>4, <2>1, <2>2 DEF Still, Gone
<1>6. Finished(s) => Finished(s)'
  <2> SUFFICES ASSUME Finished(s) PROVE Finished(s)'
    OBVIOUS
  <2>1. ~Has(s, "DATA") /\ ~Has(s, "DATA")'
    BY <1>1, OwnHas DEF Finished
  <2>2. ~OnPipePacket(s)
    BY <1>1, <2>1, HasHead DEF OnPipePacket, Receives
  <2>3. passed' = passed
    BY <1>1, <2>2, GotStays
  <2> QED
    BY <1>2, <2>1, <2>3 DEF Finished, Readable, Gone, Still, p
<1>7. ASSUME Ended(s)', ~Ended(s) PROVE Finished(s)'
  <2>1. CASE ReadsEnd(s)
    <3>1. app[s] = "closed"
      BY <1>1, <2>1, KinKept DEF StreamInv
    <3> QED
      BY <1>3, <3>1 DEF Clean, Gone
  <2>3. ~(ConnectEnds(s) /\ Gone(s)')
    BY DEF Clean
  <2>2. CASE OnClosePacket(s) /\ pipe[s] # "None"
    <3>1. /\ chan[s] # <<>> /\ Head(chan[s])[1] = "CLOSE" /\ chan'[s] = Tail(chan[s])
          /\ chan[s] \in Seq(Packets) /\ passed' = passed /\ passed[s] \in Nat
      BY <1>1, <2>2 DEF OnClosePacket, Receives, Taken, TypeInv, seen, lapses
    <3>2. Has(s, "CLOSE")
      BY <1>1, <3>1, HasHead
    <3>3. Gone(p) /\ kin[p] = <<>>
      BY <1>4, <3>2
    <3>4. CanDeliver(s)
      <4>1. route[s] = "listed" /\ Alive(s)
        BY <1>1, <1>7, <2>2 DEF SideInv, Untouched, Ended, Alive, TypeInv
      <4>2. sock[s] # "failed"
        <5>1. CASE s = "C"
          BY <1>1, <5>1 DEF SideInv
        <5>2. CASE s = "S"
          <6>1. Has("S", "CLOSE") /\ "C" \in Sides /\ Peer("C") = "S"
            BY <3>2, <5>2 DEF Sides, Peer
          <6>2. pipe["C"] = "Closed"
            BY <1>1, <6>1 DEF ChanInv
          <6>3. ~gaveUp
            BY <1>3 DEF Clean
          <6> QED
            BY <1>1, <5>2, <6>2, <6>3 DEF AnswerInv, PastRequest, Answered
        <5> QED
          BY <5>1, <5>2 DEF Sides
      <4>3. link[s] = "up" /\ app[s] # "closed"
        BY <1>3 DEF Clean, Gone, Up
      <4> QED
        BY <1>7, <4>1, <4>2, <4>3 DEF CanDeliver, Ended
    <3>5. PICK a \in Nat, b \in Nat : Account(s, a, b)
      BY <1>1, <3>4 DEF OrderInv
    <3>7. a = 0 /\ b = 0 /\ ~HasIn(chan'[s], "DATA")
      <4>1. Flow(chan[s], passed[s], a, b)
        BY <3>5 DEF Account
      <4> QED
        BY <3>1, <4>1, FlowTaken
    <3>8. passed[s] = Readable(p)
      <4>1. passed[s] + (b - a) = Read(p)
        BY <1>3, <3>5 DEF Account, p
      <4>2. Waiting(kin[p], app[p] = "closed") = 0
        BY <3>3 DEF Waiting
      <4>3. Read(p) = Readable(p) - Waiting(kin[p], app[p] = "closed") /\ Readable(p) \in Nat
        BY <1>1, KinBounds
      <4> QED
        BY <3>1, <3>7, <4>1, <4>2, <4>3
    <3> QED
      BY <1>2, <3>1, <3>3, <3>7, <3>8 DEF Finished, Readable, Gone, Has, Still, p
  <2> QED
    BY <1>1, <1>3, <1>7, <2>1, <2>2, <2>3, EndBegins
<1> QED
  BY <1>4, <1>5, <1>6, <1>7

LEMMA PeerClean ==
  ASSUME StreamInv, NEW p \in Sides, SideStep(p), NEW s \in Sides, s = Peer(p)
  PROVE  CleanInv(s)'
<1> SUFFICES ASSUME Clean(s)'
             PROVE  /\ Ended(s)' => Finished(s)'
                    /\ Ended(p)' \/ Has(s, "CLOSE")' => Gone(p)' /\ kin'[p] = <<>>
  BY TwoSides DEF CleanInv
<1>1. /\ Base /\ TypeInv /\ SideInv /\ AskInv /\ ChanInv /\ AnswerInv
      /\ KinInv(p) /\ CleanInv(s)
      /\ p = Peer(s) /\ p # s
  BY TwoSides DEF StreamInv, Base
<1>2. Still(s)
  BY <1>1, OtherSide DEF Still
<1>3. Clean(s) /\ ~gaveUp' /\ Up'
  BY <1>1, CleanBack DEF Clean
<1>4. /\ Ended(s) => Finished(s)
      /\ Ended(p) \/ Has(s, "CLOSE") => Gone(p) /\ kin[p] = <<>>
  BY <1>1, <1>3 DEF CleanInv
<1>5. ASSUME Gone(p), kin[p] = <<>>
      PROVE  Gone(p)' /\ kin'[p] = <<>> /\ Readable(p)' = Readable(p) /\ ~ReadSocket(p)
  <2>1. Gone(p)'
    BY <1>1, <1>5, Monotone
  <2>2. kin' = kin /\ sent' = sent /\ unread' = unread /\ ~ReadSocket(p)
    BY <1>5 DEF SideStep, TunnelStep, LoopStep, OnAccept, OnPipe, OnPipeOpen, OnOpenExpired, OnPipePacket,
                OnClosePacket, SocketClose, AddSocket, ConnectEnds, PipeStart, ReadSocket, HangUp, ExecClose, PipeClose, LinkClose,
                AppSend, AppClose, Gone, appVars, lapses
  <2>3. kin'[p] = <<>> /\ Readable(p)' = Readable(p)
    BY <1>5, <2>2 DEF Readable
  <2> QED
    BY <2>1, <2>2, <2>3
<1>6. Finished(s) => Finished(s)'
  <2> SUFFICES ASSUME Finished(s) PROVE Finished(s)'
    OBVIOUS
  <2>1. Gone(p)' /\ kin'[p] = <<>> /\ Readable(p)' = Readable(p) /\ ~ReadSocket(p)
    BY <1>1, <1>5 DEF Finished
  <2>2. ~Has(s, "DATA")'
    <3>1. ~Has(s, "DATA") /\ ~AddsData(p)
      BY <2>1 DEF Finished, AddsData
    <3> QED
      BY <1>1, <3>1, OtherHas
  <2> QED
    BY <1>1, <1>2, <2>1, <2>2 DEF Finished, Still
<1>7. Ended(s)' => Ended(s)
  BY <1>1, <1>2, OtherSide DEF Ended, Still
<1>8. ASSUME Ended(p)' \/ Has(s, "CLOSE")' PROVE Gone(p)' /\ kin'[p] = <<>>
  <2>1. CASE Ended(p) \/ Has(s, "CLOSE")
    BY <1>4, <1>5, <2>1
  <2>2. CASE Has(s, "CLOSE")' /\ ~Has(s, "CLOSE")
    <3>1. AddsClose(p) \/ AddsBoth(p)
      BY <1>1, <2>2, OtherHas
    <3>2. CASE AddsBoth(p)
      <4>1. route[p] = "erased"
        BY <1>1, <3>2 DEF AddsBoth, PipeStart, TypeInv
      <4> QED
        BY <2>1, <4>1 DEF Ended
    <3>3. CASE AddsClose(p)
      <4>1. CASE SocketClose(p) \/ PipeClose(p)
        BY <2>1, <4>1 DEF SocketClose, PipeClose, Ended
      <4>2. CASE p = "C" /\ OnOpenExpired
        BY <1>1, <1>3, <3>3, <4>2 DEF OnOpenExpired, AddsClose
      <4> QED
        BY <3>3, <4>1, <4>2 DEF AddsClose
    <3> QED
      BY <3>1, <3>2, <3>3
  <2>3. CASE Ended(p)' /\ ~Ended(p)
    <3>1. CASE ReadsEnd(p)
      <4>1. app[p] = "closed" /\ kin'[p] = <<>>
        BY <1>1, <3>1, KinKept
      <4> QED
        BY <1>1, <4>1, Monotone DEF Gone
    <3>3. CASE ConnectEnds(p) /\ Gone(p)'
      <4>1. app[p] = "connecting" /\ kin' = kin
        BY <3>3 DEF ConnectEnds
      <4> QED
        BY <1>1, <3>3, <4>1 DEF KinInv
    <3>2. CASE OnClosePacket(p)
      <4>1. Has(p, "CLOSE")
        <5>1. chan[p] # <<>> /\ Head(chan[p])[1] = "CLOSE"
          BY <3>2 DEF OnClosePacket, Receives
        <5> QED
          BY <1>1, <5>1, HasHead
      <4>2. Ended(s)
        BY <1>1, <4>1 DEF ChanInv, Ended
      <4> QED
        BY <1>1, <1>4, <1>5, <4>2 DEF Finished
    <3> QED
      BY <1>1, <1>3, <2>3, <3>1, <3>2, <3>3, EndBegins
  <2> QED
    BY <1>8, <2>1, <2>2, <2>3
<1> QED
  BY <1>4, <1>6, <1>7, <1>8

-----------------------------------------------------------------------------
(* The theorems *)

LEMMA StreamInvKept ==
  ASSUME StreamInv, [Next]_vars
  PROVE  StreamInv'
<1>1. Base /\ Base'
  BY BaseKept DEF StreamInv
<1>2. CASE UNCHANGED vars
  <2>1. ASSUME NEW t \in Sides
        PROVE  /\ Read(t)' = Read(t) /\ (Silent(t)' <=> Silent(t)) /\ (Clean(t)' <=> Clean(t))
               /\ (CanDeliver(t)' <=> CanDeliver(t)) /\ (Ended(t)' <=> Ended(t))
               /\ (Finished(t)' <=> Finished(t)) /\ (Has(t, "CLOSE")' <=> Has(t, "CLOSE"))
               /\ (KinInv(t)' <=> KinInv(t))
    BY <1>2 DEF vars, Read, Readable, Gone, Silent, Clean, CanDeliver, Alive, Up, Ended, Finished, Has, HasIn, KinInv
  <2>2. ASSUME NEW s \in Sides PROVE GotInv(s)' /\ CleanInv(s)'
    <3>1. Peer(s) \in Sides /\ Peer(s) # s
      BY TwoSides
    <3>2. got' = got /\ passed' = passed /\ Read(Peer(s))' = Read(Peer(s))
      BY <1>2, <2>1, <3>1 DEF vars
    <3>3. GotInv(s)'
      BY <3>2 DEF StreamInv, GotInv
    <3>4. CleanInv(s)'
      <4>1. kin' = kin /\ (Gone(Peer(s))' <=> Gone(Peer(s)))
        BY <1>2 DEF vars, Gone
      <4> QED
        BY <2>1, <3>1, <4>1 DEF StreamInv, CleanInv
    <3> QED
      BY <3>3, <3>4
  <2>3. ASSUME NEW s \in Sides, CanDeliver(s)' PROVE \E a, b \in Nat : Account(s, a, b)'
    <3>1. PICK a \in Nat, b \in Nat : Account(s, a, b)
      BY <2>1, <2>3 DEF StreamInv, OrderInv
    <3>2. Account(s, a, b)'
      BY <1>2, <2>1, <3>1, TwoSides DEF vars, Account
    <3> QED
      BY <3>2
  <2> QED
    BY <1>1, <2>1, <2>2, <2>3 DEF StreamInv, OrderInv
<1>3. ASSUME NEW s \in Sides, SideStep(s) PROVE StreamInv'
  <2> DEFINE p == Peer(s)
  <2>1. p \in Sides /\ Peer(p) = s /\ p # s /\ Sides = {s, p}
    BY DEF Sides, Peer
  <2>2. KinInv(s)'
    BY <1>1, <1>3, KinKept DEF StreamInv
  <2>3. KinInv(p)'
    BY <1>1, <1>3, <2>1, OtherSide, StillKin DEF StreamInv, Still, Base
  <2>4. OrderInv(s)' /\ GotInv(s)' /\ CleanInv(s)'
    BY <1>3, OwnOrder, OwnClean
  <2>5. OrderInv(p)' /\ GotInv(p)' /\ CleanInv(p)'
    BY <1>3, <2>1, PeerOrder, PeerClean
  <2> HIDE DEF p
  <2> QED
    BY <1>1, <2>1, <2>2, <2>3, <2>4, <2>5 DEF StreamInv
<1>4. Next => \E s \in Sides : SideStep(s)
  BY DEF Next, SideStep, Sides
<1> QED
  BY <1>2, <1>3, <1>4

LEMMA StreamInvInit == Init => StreamInv
<1> SUFFICES ASSUME Init PROVE StreamInv
  OBVIOUS
<1>1. \A s \in Sides : /\ route[s] = "none" /\ pipe[s] = "None" /\ chan[s] = <<>> /\ sock[s] = "none" /\ ~closeReq[s]
                       /\ tunnel[s] = "wait" /\ loop[s] = "wait" /\ link[s] = "up" /\ kin[s] = <<>>
                       /\ app[s] = "away" /\ got[s] = <<>> /\ passed[s] = 0 /\ s \notin eof
                       /\ sent[s] = 0 /\ unread[s] = 0
  BY DEF Init, Both
<1>2. TypeInv
  <2>1. <<>> \in Seq(Packets) /\ <<>> \in Seq(Nat) /\ 0 \in 0..MaxData
    BY RouterConstants
  <2> QED
    BY <2>1 DEF Init, Both, TypeInv
<1>3. ~gaveUp /\ Up /\ "C" \in Sides /\ "S" \in Sides
  BY <1>1 DEF Init, Up, Sides
<1>4. \A s \in Sides : Len(chan[s]) = 0 /\ Len(kin[s]) = 0 /\ Len(got[s]) = 0 /\ ~Has(s, "REQ") /\ ~Has(s, "RESP")
                       /\ ~Has(s, "DATA") /\ ~Has(s, "CLOSE")
  BY <1>1, HasNone DEF Has
<1>5. Base
  <2>1. SideInv
    BY <1>1, <1>3, TwoSides DEF SideInv, Untouched, Alive
  <2>2. AskInv /\ ChanInv
    BY <1>1, <1>3, <1>4, TwoSides DEF AskInv, ChanInv, ReqFirst
  <2>3. AnswerInv
    BY <1>1, <1>3, <1>4 DEF AnswerInv, PastRequest
  <2> QED
    BY <1>2, <2>1, <2>2, <2>3 DEF Base
<1>6. ASSUME NEW s \in Sides PROVE KinInv(s) /\ GotInv(s) /\ OrderInv(s) /\ CleanInv(s)
  <2>1. Peer(s) \in Sides
    BY TwoSides
  <2>2. \A t \in Sides : Waiting(kin[t], app[t] = "closed") = 0 /\ Read(t) = 0
    BY <1>1, <1>4 DEF Waiting, Read, Readable
  <2>3. KinInv(s)
    BY <1>1, <1>4, <2>2 DEF KinInv, Kin, Readable
  <2>4. GotInv(s)
    <3>1. Len(got[s]) = 0 /\ passed[s] = 0 /\ Read(Peer(s)) = 0
      BY <1>1, <1>4, <2>1, <2>2
    <3> QED
      BY <3>1 DEF GotInv, InOrder
  <2>5. Account(s, 0, 0)
    <3>1. Len(chan[s]) = 0 /\ passed[s] = 0 /\ Read(Peer(s)) = 0 /\ pipe[s] # "Closed"
      BY <1>1, <1>4, <2>1, <2>2
    <3>2. Flow(chan[s], passed[s], 0, 0)
      <4>1. 0 \in 0..1 /\ 0 \in 0..0 /\ 0 <= 0 /\ 1..0 = {} /\ (0 + 1)..0 = {}
        OBVIOUS
      <4> QED
        BY <3>1, <4>1 DEF Flow
    <3> QED
      BY <3>1, <3>2 DEF Account
  <2>6. CleanInv(s)
    BY <1>1, <1>4, <2>1 DEF CleanInv, Ended
  <2> QED
    BY <2>3, <2>4, <2>5, <2>6 DEF OrderInv
<1> QED
  BY <1>5, <1>6 DEF StreamInv

LEMMA StreamInvariance == Spec => []StreamInv
<1>1. StreamInv /\ [Next]_vars => StreamInv'
  BY StreamInvKept
<1> QED
  BY StreamInvInit, <1>1, PTL DEF Spec

(* What the routes, pipes, sockets, threads and programs of both sides keep   *)
(* their types, and a side that has a route has a pipe and a socket for it    *)
(* (router.cpp start_client(), start_server()).                               *)
THEOREM RoutesTypesCorrect == Spec => []TypeOK
<1>1. StreamInv => TypeOK
  BY DEF StreamInv, Base, TypeInv, SideInv, TypeOK
<1> QED
  BY <1>1, StreamInvariance, PTL

(* A program receives what the program at the other side wrote in order and   *)
(* once.  As long as the tunnel is up and the request did not expire it sees  *)
(* the end of the stream only because the other one has closed or refused its *)
(* connection, and only after all that was read of it has been handed to its  *)
(* socket: for any number of packets, ports and allowed ports, however the    *)
(* handlers of the tunnel thread and of the router thread interleave on the   *)
(* two sides, whether or not a socket takes what it is handed, is connected   *)
(* in time, or drops what it has not read when it closes (router.cpp          *)
(* on_socket_packet(), on_pipe_packet(), on_socket_close(), on_pipe_close()). *)
THEOREM StreamStaysIntact == Spec => []StreamIntact
<1>1. StreamInv => StreamIntact
  <2> SUFFICES ASSUME StreamInv, NEW s \in Sides
               PROVE  /\ InOrder(got[s], passed[s]) /\ passed[s] <= Readable(Peer(s))
                      /\ s \in eof /\ app[s] = "open" /\ ~gaveUp /\ Up =>
                           Gone(Peer(s)) /\ passed[s] = Readable(Peer(s))
    BY DEF StreamIntact, InOrder, Readable
  <2> DEFINE p == Peer(s)
  <2>1. TypeInv /\ GotInv(s) /\ CleanInv(s) /\ KinInv(p) /\ p \in Sides
    BY TwoSides DEF StreamInv, Base
  <2>2. Read(p) \in 0..Readable(p) /\ Readable(p) \in Nat /\ passed[s] \in Nat
    BY <2>1, KinBounds DEF TypeInv
  <2> HIDE DEF p
  <2>3. InOrder(got[s], passed[s]) /\ passed[s] <= Readable(p)
    BY <2>1, <2>2 DEF GotInv, p
  <2>4. s \in eof /\ app[s] = "open" /\ ~gaveUp /\ Up => Gone(p) /\ passed[s] = Readable(p)
    BY <2>1 DEF CleanInv, Clean, Gone, Ended, Finished, p
  <2> QED
    BY <2>3, <2>4 DEF p
<1> QED
  BY <1>1, StreamInvariance, PTL

=============================================================================
