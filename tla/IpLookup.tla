------------------------------ MODULE IpLookup ------------------------------
(***************************************************************************)
(* The address lookup (common/endpoint/ip_client, ip_server) over OPTTCP: a *)
(* client connects, the server packs the address it sees into two records,  *)
(* sends them and closes.  The program waits for the client's close.        *)
(*                                                                         *)
(* "C" and "S" are the ends of the connection, each with the thread of its  *)
(* emitter; TCP delivers the bytes in order, in chunks cut anywhere, and    *)
(* then the end of the stream.  Of the key exchange that opens the sessions *)
(* there are five packets, sent as in the code: one, two, two (OptSession   *)
(* has it in full).  An end may hang for good.                              *)
(***************************************************************************)
EXTENDS OptTcp

CONSTANTS Address,   \* the bytes of get_remote().get_addr()
          Port,      \* the two bytes of get_port()
          OtherReplies, \* what a server may send that packs something else
          ChunkMax   \* _recvbuf_len

Ends == {"C", "S"}
Peer(e) == IF e = "C" THEN "S" ELSE "C"

VARIABLES
  sock,        \* per end: "none", "polled", "closed", "failed"
  closeReq,    \* per end: the socket is to be closed
  stream,      \* per end: bytes on their way to it
  fin,         \* ends to which the end of the stream was sent
  list,        \* per end: _reassamble_list
  total,       \* per end: _reassamble_total_len
  got,         \* per end: packets handed on by OPTTCP
  timer,       \* ends whose 10 s timer is pending
  connections, \* the endpoint of S is in _connections
  result,      \* _success, _my_ip and _my_port
  woken,       \* _waker
  hung,        \* ends whose program has stopped without closing anything
  reply,       \* what this server sends
  (* histories *)
  sent,        \* per end: packets sent
  timedOut     \* ends that a timer has closed

vars == <<sock, closeReq, stream, fin, list, total, got, timer, connections, result, woken, hung, reply, sent, timedOut>>

Packet(type, data) == [type |-> type, data |-> data]

(* What IPServerEndpoint::on_open() packs and sends. *)
IpReply == Packet(PktNormal, Content(AddRecord(AddRecord(NullBlob, Address), Port)))

Kex(i) == Packet(PktNormal, <<i>>)

(* The constants are bytes and packets of bytes, the port is two of them, the *)
(* reply fits into a packet, and where a reader of another reply looks for a  *)
(* length field, it finds a number in the first cell.                         *)
ASSUME LookupConstants ==
  /\ Address \in Seq(Nat) /\ Port \in Seq(Nat) /\ Len(Port) = 2
  /\ OtherReplies \subseteq [type : Nat, data : Seq(Nat)]
  /\ 2 * LenSize + Len(Address) + Len(Port) < MaxPacketSize
  /\ ChunkMax \in Nat
  /\ \A p \in OtherReplies : \A at \in {0, NextRecord(p.data, 0).cursor} :
       at + LenSize <= Len(p.data) => SubSeq(p.data, at + 1, at + LenSize) = LenField(p.data[at + 1])

(* The bytes of a packet. *)
Frame == [p \in OtherReplies \cup {IpReply} \cup {Kex(i) : i \in 1..5} |-> Content(Wrap(p.type, p.data))]

Framed(packets) == FlattenSeq([i \in DOMAIN packets |-> Frame[packets[i]]])

-----------------------------------------------------------------------------
(* Connecting *)

(* start() of the client: the first address is connected to and the session  *)
(* starts, or the error callback is called and the socket forgotten.         *)
Connect ==
  /\ sock["C"] = "none" /\ "C" \notin hung
  /\ timer' = timer \cup {"C"}
  /\ \/ /\ sock' = [sock EXCEPT !["C"] = "polled"]
        /\ stream' = [stream EXCEPT !["S"] = Framed(<<Kex(1)>>)]
        /\ sent' = [sent EXCEPT !["C"] = <<Kex(1)>>]
     \/ sock' = [sock EXCEPT !["C"] = "failed"] /\ UNCHANGED <<stream, sent>>
  /\ UNCHANGED <<closeReq, fin, list, total, got, connections, result, woken, hung, reply, timedOut>>

(* on_accept() and start() of the endpoint *)
OnAccept ==
  /\ sock["C"] \in {"polled", "closed"} /\ sock["S"] = "none" /\ "S" \notin hung
  /\ sock' = [sock EXCEPT !["S"] = "polled"]
  /\ timer' = timer \cup {"S"}
  /\ connections' = TRUE
  /\ UNCHANGED <<closeReq, stream, fin, list, total, got, result, woken, hung, reply, sent, timedOut>>

-----------------------------------------------------------------------------
(* Packets.  What the n-th packet that an end gets is answered with: both     *)
(* hellos and new keys, then the identity of the client, and that opens the   *)
(* session of the server.                                                     *)

Answer(e, n) == CASE e = "S" /\ n = 1 -> <<Kex(2), Kex(3)>>
                  [] e = "C" /\ n = 2 -> <<Kex(4), Kex(5)>>
                  [] e = "S" /\ n = 3 -> <<reply>>
                  [] OTHER -> <<>>

NoResult == [success |-> FALSE, ip |-> <<>>, port |-> <<>>]

(* IPClient::on_packet() *)
Parsed(p) ==
  LET ip == NextRecord(p.data, 0)
      port == NextRecord(p.data, ip.cursor)
  IN IF ip.ok /\ port.ok /\ port.cursor >= Len(p.data) /\ Len(port.data) = 2
       THEN [success |-> TRUE, ip |-> ip.data, port |-> port.data]
       ELSE NoResult

(* recv() of k bytes, with all the packets that are complete now.  Either end *)
(* closes with its third packet : the address was sent, or read; nobody      *)
(* listens to a raw one.                                                      *)
Receive(e, k) ==
  /\ sock[e] = "polled" /\ ~closeReq[e] /\ k <= Len(stream[e])
  /\ \E chunks \in {WithChunk(list[e], SubSeq(stream[e], 1, k))} : \E r \in {OnReceive(chunks)} :
       LET n == Len(got[e])
           m == n + Len(r.packets)
           answers == FlattenSeq([i \in 1..Len(r.packets) |-> Answer(e, n + i)])
           closes == n < 3 /\ m >= 3 /\ r.packets[3 - n].type = PktNormal
           read == IF e = "C" /\ closes THEN Parsed(r.packets[3 - n]) ELSE NoResult
       IN /\ list' = [list EXCEPT ![e] = TakeCells(chunks, r.end)]
          /\ total' = [total EXCEPT ![e] = @ + k - r.end]
          /\ got' = [got EXCEPT ![e] = @ \o r.packets]
          /\ closeReq' = [closeReq EXCEPT ![e] = r.close \/ closes]
          /\ stream' = [stream EXCEPT ![e] = SubSeq(@, k + 1, Len(@)),
                                      ![Peer(e)] = IF sock[Peer(e)] = "closed" THEN @ ELSE @ \o Framed(answers)]
          /\ sent' = [sent EXCEPT ![e] = @ \o answers]
          /\ result' = IF read.success THEN read ELSE result
  /\ UNCHANGED <<sock, fin, timer, connections, woken, hung, reply, timedOut>>

(* recv() of 0 bytes. *)
ReceiveEnd(e) ==
  /\ sock[e] = "polled" /\ ~closeReq[e] /\ stream[e] = <<>> /\ e \in fin
  /\ closeReq' = [closeReq EXCEPT ![e] = TRUE]
  /\ UNCHANGED <<sock, stream, fin, list, total, got, timer, connections, result, woken, hung, reply, sent, timedOut>>

(* on_close(): the program is woken; the endpoint leaves _connections. *)
OnClose(e) ==
  IF e = "C" THEN woken' = TRUE /\ UNCHANGED connections
             ELSE connections' = FALSE /\ UNCHANGED woken

(* The loop closes the socket. *)
ExecClose(e) ==
  /\ closeReq[e]
  /\ closeReq' = [closeReq EXCEPT ![e] = FALSE]
  /\ IF sock[e] = "polled"
       THEN /\ sock' = [sock EXCEPT ![e] = "closed"]
            /\ fin' = fin \cup {Peer(e)}
            /\ stream' = [stream EXCEPT ![e] = <<>>]
            /\ OnClose(e)
       ELSE UNCHANGED <<sock, fin, stream, connections, woken>>
  /\ UNCHANGED <<list, total, got, timer, result, hung, reply, sent, timedOut>>

(* Mutant: the server has no timer. *)
OnTimeoutClient(e) ==
  /\ e \in timer /\ e = "C"
  /\ timer' = timer \ {e}
  /\ closeReq' = [closeReq EXCEPT ![e] = sock[e] # "closed"]
  /\ timedOut' = IF sock[e] = "polled" /\ ~closeReq[e] THEN timedOut \cup {e} ELSE timedOut
  /\ UNCHANGED <<sock, stream, fin, list, total, got, connections, result, woken, hung, reply, sent>>

(* on_timeout() *)
OnTimeout(e) ==
  /\ e \in timer
  /\ timer' = timer \ {e}
  /\ closeReq' = [closeReq EXCEPT ![e] = sock[e] # "closed"]
  /\ timedOut' = IF sock[e] = "polled" /\ ~closeReq[e] THEN timedOut \cup {e} ELSE timedOut
  /\ UNCHANGED <<sock, stream, fin, list, total, got, connections, result, woken, hung, reply, sent>>

-----------------------------------------------------------------------------
Init ==
  /\ sock = [e \in Ends |-> "none"] /\ closeReq = [e \in Ends |-> FALSE]
  /\ stream = [e \in Ends |-> <<>>] /\ fin = {}
  /\ list = [e \in Ends |-> <<>>] /\ total = [e \in Ends |-> 0]
  /\ got = [e \in Ends |-> <<>>] /\ sent = [e \in Ends |-> <<>>]
  /\ timer = {} /\ timedOut = {} /\ connections = FALSE
  /\ result = NoResult /\ woken = FALSE /\ hung = {}
  /\ reply \in OtherReplies \cup {IpReply}

(* The program of an end stops; nothing more comes from it. *)
Hang(e) ==
  /\ e \notin hung
  /\ hung' = hung \cup {e}
  /\ UNCHANGED <<sock, closeReq, stream, fin, list, total, got, timer, connections, result, woken, reply, sent, timedOut>>

Step(e) == e \notin hung /\ ((\E k \in 1..ChunkMax : Receive(e, k)) \/ ReceiveEnd(e) \/ ExecClose(e) \/ OnTimeout(e))

Next == Connect \/ OnAccept \/ \E e \in Ends : Step(e) \/ Hang(e)

Spec == Init /\ [][Next]_vars

(* The loops run on, the timers expire, the server accepts. *)
Fairness == /\ WF_vars(OnAccept)
            /\ \A e \in Ends : WF_vars(Step(e)) /\ WF_vars(e \notin hung /\ OnTimeout(e))

FairSpec == Spec /\ Fairness

-----------------------------------------------------------------------------
(* Properties *)

(* Types; every chunk that is kept is a sound buffer that is not used up      *)
(* (dbg_self_test() of blob.h).                                               *)
TypeOK ==
  /\ sock \in [Ends -> {"none", "polled", "closed", "failed"}]
  /\ closeReq \in [Ends -> BOOLEAN]
  /\ fin \subseteq Ends /\ timer \subseteq Ends /\ timedOut \subseteq Ends /\ hung \subseteq Ends
  /\ connections \in BOOLEAN /\ woken \in BOOLEAN
  /\ \A e \in Ends : \A i \in DOMAIN list[e] : SelfTest(list[e][i]) /\ list[e][i].size > 0

(* However TCP cuts the stream, the packets come out as they were sent, whole *)
(* and in order, each as soon as its last byte is there: what waits in the    *)
(* list is less than the next one, and the total length says how much it is   *)
(* ("_reassamble_total_len must have lied. Fatal bug"; opt_tcp.cpp send(),    *)
(* on_receive(), opt_tcp.h read_from_reassamble_list()).                      *)
WholePackets ==
  \A e \in Ends :
    LET next == Len(got[e]) + 1
    IN /\ IsPrefix(got[e], sent[Peer(e)])
       /\ total[e] = Len(Flat(list[e]))
       /\ sock[e] = "polled" /\ ~closeReq[e] /\ total[e] > 0 =>
            next <= Len(sent[Peer(e)]) /\ total[e] < Len(Frame[sent[Peer(e)][next]])

(* The address arrives although the server closes as soon as it has sent it:  *)
(* a client that is woken has it, unless a timer came first.  It has a result *)
(* only if the server sent two records, no more, the second of two bytes, and *)
(* then it is what the server packed (ip_server.cpp on_open(), ip_client.cpp  *)
(* on_packet(), blob.h).                                                      *)
AddressArrives ==
  /\ woken /\ reply = IpReply /\ timedOut = {} => result.success
  /\ result.success =>
       /\ Len(result.port) = 2
       /\ reply.data = Content(AddRecord(AddRecord(NullBlob, result.ip), result.port))

(* The program that waits for the lookup is woken, whatever the server sends  *)
(* and also when it hangs, except when the connection attempt itself fails;   *)
(* and the server forgets every connection it has accepted, also one on which *)
(* nothing is said (ip_client.cpp and ip_server.cpp on_close(), on_timeout()). *)
BothLetGo ==
  /\ sock["C"] = "polled" ~> (woken \/ "C" \in hung)
  /\ connections ~> (~connections \/ "S" \in hung)
=============================================================================
