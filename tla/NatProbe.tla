------------------------------ MODULE NatProbe ------------------------------
(***************************************************************************)
(* The NAT probe (common/endpoint/nat_client, nat_server): from one UDP      *)
(* socket a client asks several servers which address they see; a server    *)
(* answers from the socket that was asked and from one that was not.  The   *)
(* socket of the client is shared by one route per server (UDPMultiplexed,  *)
(* common/network/network).                                                *)
(*                                                                         *)
(* The program starts the probe, waits, and reads the results, while its    *)
(* emitter runs the handlers.  The network loses, duplicates and reorders;  *)
(* the NAT may show a different address to every destination; programs      *)
(* that are not NAT servers may be asked, or speak unasked.                 *)
(***************************************************************************)
EXTENDS Naturals, Sequences, FiniteSets

CONSTANTS Queries,     \* positions in _query_addrs
          Servers,     \* addresses of the NATServerI sockets
          Out,         \* address of the NATServerO socket
          Others,      \* addresses of other programs
          Mapped,      \* per address: the address under which it sees the client
          RequestLen,  \* length of what the client sends
          ReplyLen,    \* length of two packed records
          MaxForeign,  \* bound: results of unasked senders
          MaxExtra     \* bound: duplicates, and datagrams sent unasked by other programs

Client == "client"
Unresolved == "unresolved"
NoAddress == "no address"       \* NetworkAddress()
Malformed == "malformed"        \* not two records, or no port of two bytes
BadName == "bad name"           \* two records, of which the first does not resolve

(* The programs have different addresses; what a server sees is an address;   *)
(* a request is large enough for the server, a reply is not ("Require a large *)
(* inbound packet", nat_server.cpp).                                          *)
ASSUME NatConstants ==
  /\ Servers \cap Others = {} /\ Out \notin Servers \cup Others
  /\ {Client, Unresolved} \cap (Servers \cup Others \cup {Out}) = {}
  /\ \A s \in Servers : Mapped[s] \notin {Malformed, BadName}
  /\ RequestLen \in Nat /\ ReplyLen \in 1..100 /\ 100 < RequestLen
  /\ IsFiniteSet(Queries)

VARIABLES
  phase,    \* "new", "started", "aborted"
  natSock,     \* the client's socket: "none", "starting", "polled", "closed"
  addr,     \* per query: the resolved address, that of its route
  results,  \* per query: its LookupResult
  foreign,  \* results of unasked senders, appended to _results
  waitCnt,  \* _wait_cnt
  natTimer,    \* on_timeout() is pending
  done,     \* _done
  natWoken,    \* _waker
  handed,   \* what get_results() has returned, <<>> before
  serving,  \* the server: "new", "on", "stopped", "aborted"
  up,       \* its sockets that are polled
  net,      \* datagrams on their way
  extra,    \* count of duplicates and unasked datagrams
  lost      \* history: addresses from or to which a datagram was lost

routeVars == <<phase, natSock, addr>>

lookupVars == <<results, foreign, waitCnt, natTimer, done, natWoken, handed>>

clientVars == <<routeVars, lookupVars>>

serverVars == <<serving, up>>

natVars == <<clientVars, serverVars, net, extra, lost>>

Datagram(from, to, len, says) == [from |-> from, to |-> to, len |-> len, says |-> says]

(* A datagram that arrives may arrive again. *)
Arrives(d, new) ==
  /\ d \in net
  /\ \/ net' = (net \ {d}) \cup new /\ UNCHANGED extra
     \/ net' = net \cup new /\ extra < MaxExtra /\ extra' = extra + 1

-----------------------------------------------------------------------------
(* The client *)

(* resolve() of every host: the address of some program, or an error. *)
Resolved == [Queries -> Servers \cup Others \cup {Unresolved}]

(* The queries that have a route: add_remote() *)
Routed == {q \in Queries : addr[q] # Unresolved}

(* start(): the socket is bound, every host resolved or not, the timer set;  *)
(* an exception ends the program if the port is taken.                       *)
Start ==
  /\ phase = "new"
  /\ \/ /\ phase' = "aborted"
        /\ UNCHANGED <<natSock, addr, results, waitCnt, natTimer>>
     \/ /\ phase' = "started" /\ natSock' = "starting" /\ natTimer' = TRUE
        /\ addr' \in Resolved
        /\ results' = [q \in Queries |->
             [done |-> FALSE, my |-> NoAddress,
              code |-> IF addr'[q] = Unresolved THEN "RESOLVE" ELSE "TIMEOUT"]]
        /\ waitCnt' = Cardinality({q \in Queries : addr'[q] # Unresolved})
  /\ UNCHANGED <<foreign, done, natWoken, handed, serverVars, net, extra, lost>>

(* on_open(): the same request on every route *)
Requests == {Datagram(Mapped[addr[q]], addr[q], RequestLen, Malformed) : q \in Routed}

(* The loop adds the socket; UDPMultiplexed::on_start() calls on_open().     *)
OnStart ==
  /\ natSock = "starting"
  /\ natSock' = "polled"
  /\ net' = net \cup Requests
  /\ UNCHANGED <<phase, addr, results, foreign, waitCnt, natTimer, done, natWoken, handed, serverVars, extra, lost>>

(* Mutant: every route takes what the socket receives. *)
MatchesAll(d) == Routed

(* UDPMultiplexed::on_unfiltered_packet(): the routes to the sender.         *)
Matches(d) == {q \in Routed : addr[q] = d.from}

(* The reader: two records and no more, the second of two bytes; whether the *)
(* first one resolves is not looked at.                                      *)
Read(says) == IF says = BadName THEN NoAddress ELSE says

(* Mutant: a late answer is still written. *)
OnPacketLate(d) ==
  /\ results' = [q \in Queries |->
       IF q \notin Matches(d) THEN results[q]
       ELSE [done |-> TRUE,
             my |-> IF d.says = Malformed THEN results[q].my ELSE Read(d.says),
             code |-> IF d.says = Malformed THEN "MALFORMED" ELSE "OK"]]
  /\ waitCnt' = waitCnt - Cardinality({q \in Matches(d) : ~results[q].done})
  /\ UNCHANGED foreign

(* on_packet() of every route to the sender *)
OnPacket(d) ==
  IF done THEN UNCHANGED <<results, waitCnt, foreign>>
  ELSE /\ results' = [q \in Queries |->
            IF q \notin Matches(d) THEN results[q]
            ELSE [done |-> TRUE,
                  my |-> IF d.says = Malformed THEN results[q].my ELSE Read(d.says),
                  code |-> IF d.says = Malformed THEN "MALFORMED" ELSE "OK"]]
       /\ waitCnt' = waitCnt - Cardinality({q \in Matches(d) : ~results[q].done})
       /\ UNCHANGED foreign

(* on_unknown_packet() *)
OnUnknownPacket(d) ==
  /\ foreign' = IF done \/ d.says = Malformed THEN foreign
                ELSE Append(foreign, [remote |-> d.from, my |-> Read(d.says)])
  /\ UNCHANGED <<results, waitCnt>>

(* recvfrom(): an empty datagram closes the socket.  The multiplexer lives as *)
(* long as one of its routes: with none, nobody hears.                        *)
ClientReceive(d) ==
  /\ natSock = "polled" /\ d.to = Client
  /\ Matches(d) # {} \/ Len(foreign) < MaxForeign
  /\ Arrives(d, {})
  /\ natSock' = IF d.len = 0 THEN "closed" ELSE natSock
  /\ IF d.len = 0 \/ Routed = {} THEN UNCHANGED <<results, waitCnt, foreign>>
     ELSE IF Matches(d) # {} THEN OnPacket(d) ELSE OnUnknownPacket(d)
  /\ UNCHANGED <<phase, addr, natTimer, done, natWoken, handed, serverVars, lost>>

(* on_timeout(): the only place that sets _done. *)
NatOnTimeout ==
  /\ natTimer
  /\ natTimer' = FALSE /\ done' = TRUE /\ natWoken' = TRUE
  /\ UNCHANGED <<phase, natSock, addr, results, foreign, waitCnt, handed, serverVars, net, extra, lost>>

(* The program: wait() returns, get_results() hands out the list. *)
GetResults ==
  /\ natWoken /\ handed = <<>>
  /\ handed' = IF done THEN <<results, foreign>> ELSE <<>>
  /\ UNCHANGED <<phase, natSock, addr, results, foreign, waitCnt, natTimer, done, natWoken, serverVars, net, extra, lost>>

-----------------------------------------------------------------------------
(* The server *)

(* The socket that NATServerO::start() opens, only to send from it, *)
OutSockets == {Out}

(* and those of every NATServerI::start(). *)
InSockets == Servers

(* start(): the sockets are bound, or an exception ends the program. *)
ServerStart ==
  /\ serving = "new"
  /\ \/ serving' = "on" /\ up' = OutSockets \cup InSockets
     \/ serving' = "aborted" /\ UNCHANGED up
  /\ UNCHANGED <<clientVars, net, extra, lost>>

(* stop(): its loop ends. *)
ServerStop ==
  /\ serving = "on"
  /\ serving' = "stopped"
  /\ UNCHANGED <<clientVars, up, net, extra, lost>>

(* Mutant: the boundary is off by what the client sends. *)
LargeEnoughMore(d) == d.len > RequestLen

(* "Require a large inbound packet" *)
LargeEnough(d) == d.len > 100

(* NATServerI::on_unfiltered_packet(): the address of the sender, from the   *)
(* socket that was asked and from the other one.                             *)
Replies(d) ==
  IF d.to \in OutSockets \/ ~LargeEnough(d) THEN {}
  ELSE {Datagram(s, Client, ReplyLen, d.from) : s \in ({d.to} \cup OutSockets) \cap up}

ServerReceive(d) ==
  /\ serving = "on" /\ d.to \in up
  /\ Arrives(d, IF d.len = 0 THEN {} ELSE Replies(d))
  /\ up' = IF d.len = 0 THEN up \ {d.to} ELSE up
  /\ UNCHANGED <<clientVars, serving, lost>>

-----------------------------------------------------------------------------
(* The network and the other programs *)

NatInit ==
  /\ phase = "new" /\ natSock = "none" /\ addr = [q \in Queries |-> Unresolved]
  /\ results = [q \in Queries |-> [done |-> FALSE, my |-> NoAddress, code |-> "TIMEOUT"]]
  /\ foreign = <<>> /\ waitCnt = 0 /\ natTimer = FALSE /\ done = FALSE /\ natWoken = FALSE
  /\ handed = <<>> /\ serving = "new" /\ up = {} /\ net = {} /\ extra = 0 /\ lost = {}

Lose(d) ==
  /\ d \in net
  /\ net' = net \ {d}
  /\ lost' = lost \cup {IF d.to = Client THEN d.from ELSE d.to}
  /\ UNCHANGED <<clientVars, serverVars, extra>>

(* A program that is not a NAT server answers, *)
OtherAnswers(d) ==
  /\ d \in net /\ d.to \in Others
  /\ \E says \in {Malformed, BadName} : net' = (net \ {d}) \cup {Datagram(d.to, Client, ReplyLen, says)}
  /\ UNCHANGED <<clientVars, serverVars, extra, lost>>

(* or speaks unasked. *)
Stray(o) ==
  /\ extra < MaxExtra
  /\ extra' = extra + 1
  /\ \E to \in {Client, Out} \cup Servers, d \in {<<0, Malformed>>, <<ReplyLen, Malformed>>, <<ReplyLen, BadName>>} :
       net' = net \cup {Datagram(o, to, d[1], d[2])}
  /\ UNCHANGED <<clientVars, serverVars, lost>>

NatNext ==
  \/ Start \/ OnStart \/ NatOnTimeout \/ GetResults \/ ServerStart \/ ServerStop
  \/ \E d \in net : ClientReceive(d) \/ ServerReceive(d) \/ Lose(d) \/ OtherAnswers(d)
  \/ \E o \in Others : Stray(o)

NatSpec == NatInit /\ [][NatNext]_natVars

(* The timer expires and the program runs on. *)
NatFairness == WF_natVars(NatOnTimeout) /\ WF_natVars(GetResults)

-----------------------------------------------------------------------------
(* Properties *)

Programs == Servers \cup Others \cup {Out}
Says == {Malformed, BadName, NoAddress} \cup {Mapped[a] : a \in Programs}

NatTypeOK ==
  /\ phase \in {"new", "started", "aborted"} /\ natSock \in {"none", "starting", "polled", "closed"}
  /\ addr \in Resolved
  /\ results \in [Queries -> [done : BOOLEAN, my : Says, code : {"RESOLVE", "TIMEOUT", "OK", "MALFORMED"}]]
  /\ foreign \in Seq([remote : Programs, my : Says])
  /\ waitCnt \in Nat /\ extra \in Nat
  /\ natTimer \in BOOLEAN /\ done \in BOOLEAN /\ natWoken \in BOOLEAN
  /\ serving \in {"new", "on", "stopped", "aborted"} /\ up \subseteq Servers \cup {Out}
  /\ net \subseteq [from : Programs \cup Says, to : Programs \cup {Client}, len : Nat, says : Says]

Asked == {addr[q] : q \in Routed}

(* A result says what its own server saw, whatever arrives at the shared      *)
(* socket, in whatever order and from whom; "unexpected" replies come from    *)
(* addresses that were not asked (nat_client.cpp on_packet(),                 *)
(* on_unknown_packet(), network.cpp on_unfiltered_packet()).                  *)
MappingPerServer ==
  /\ \A q \in Queries : addr[q] \in Servers /\ results[q].done =>
       results[q].code = "OK" /\ results[q].my = Mapped[addr[q]]
  /\ \A i \in DOMAIN foreign :
       /\ foreign[i].remote \notin Asked
       /\ foreign[i].remote = Out => \E s \in Asked \cap Servers : foreign[i].my = Mapped[s]

(* Up to the time-out a server counts as silent only if the question or the   *)
(* answer was lost or is still on its way (nat_server.cpp                     *)
(* on_unfiltered_packet(), nat_client.cpp on_open(), on_packet()).            *)
SilentOnlyIfLost ==
  \A q \in Queries : ~done /\ addr[q] \in Servers \ lost /\ results[q].code = "TIMEOUT" =>
    \/ natSock = "starting"
    \/ \E d \in net : d.to = addr[q] \/ (d.to = Client /\ d.from = addr[q])

(* The program that waits for the probe gets its results, whatever happens to *)
(* servers, datagrams and sockets; and since it gets pointers to the results, *)
(* not copies, the emitter, which still receives, never writes to them again  *)
(* (nat_client.cpp on_timeout(), get_results(), on_packet()).                 *)
ResultsHandedOut == phase = "started" ~> [](handed = <<results, foreign>>)
=============================================================================
