--------------------------------- MODULE C2 ---------------------------------
(***************************************************************************)
(* The command and control server (common/endpoint/c2_server): the register *)
(* of the clients that are logged in, and the routes that join a pipe of    *)
(* one client to a pipe of another, with the clients' half of the pipe      *)
(* handshake (c2_client, opt_c2.h).                                         *)
(*                                                                         *)
(* The handlers of all clients run on the one thread of _client_emitter,    *)
(* each as one step, a chain of callbacks included; connections are         *)
(* accepted on the thread of _server_emitter.  A connection carries its     *)
(* packets in order.  Pipe r has the half "a", requested by a client, and,  *)
(* once it is forwarded, the half "b"; a route refers to its pipes for      *)
(* ever, so that a half is in the map of its connection until it is Closed. *)
(***************************************************************************)
EXTENDS Integers, Sequences

CONSTANTS Conns,    \* TCP connections, each used once
          Users,    \* fingerprints of keys
          NoFp,     \* the empty fingerprint of a key that has none
          Pipes,    \* pipes the clients ask for, each used once
          MaxData,  \* bound: packets sent by one end of a pipe
          None

Names == Users \cup {NoFp}

Halves == {"a", "b"}
PipeStates == {"None", "OpenRequstSent", "OpenRequstRecv", "Opened", "Closed"}

Requests == [by : Conns, to : Users]
Routes == [conn : [Halves -> Conns], state : [Halves -> PipeStates], timer : BOOLEAN]

ASSUME C2Constants == /\ NoFp \notin Users
                      /\ None \notin Conns \cup Names \cup Requests \cup Routes
                      /\ MaxData \in Nat

VARIABLES
  conn,        \* per connection: "none", "accepted", "open" or "closed"
  connections, \* _connections
  lookup,      \* _connection_lookup: per fingerprint a connection, or None
  selfLu,      \* per connection: _self_lu, "unset", "own" entry or "end"
  name,        \* per connection: _identity_fingerprint
  closing,     \* connections whose socket is to be closed
  route,       \* per pipe: the C2ServerRoute in _routes, or None
  up, down,    \* per connection: packets to and from the server
  end,         \* per pipe and half: the pipe object of the client
  server,      \* "run", or why the client thread no longer does
  (* histories *)
  want,        \* per pipe: who asked whom, or None
  latest,      \* per fingerprint: the connection of the last login
  sent,        \* per pipe and half: packets sent by the client
  lost         \* a packet was dropped by a route that is not closed

register == <<connections, lookup, selfLu, name>>
ends == <<end, want, sent>>
vars == <<conn, connections, lookup, selfLu, name, closing, route, up, down, end, server,
          want, latest, sent, lost>>

Other(h) == IF h = "a" THEN "b" ELSE "a"

Packet(type, r, h) == [type |-> type, pipe |-> r, half |-> h]

(* The queue of a connection after the server has sent it ms. *)
Sent(c, ms) == [down EXCEPT ![c] = IF conn[c] = "closed" THEN @ ELSE @ \o ms]

-----------------------------------------------------------------------------
(* C2Server and C2ServerEndpoint: connections *)

(* start() of an endpoint *)
EndpointStart(c) == connections' = connections \cup {c}

(* on_accept(), on the server thread. *)
OnAccept(c) ==
  /\ conn[c] = "none"
  /\ conn' = [conn EXCEPT ![c] = "accepted"]
  /\ EndpointStart(c)
  /\ UNCHANGED <<lookup, selfLu, name, closing, route, up, down, ends, server, latest, lost>>

(* _self_lu of the connection that logs in and of the one it ejects. *)
LookupIterators(c, old) ==
  [d \in Conns |-> IF d = c THEN "own" ELSE IF d = old THEN "end" ELSE selfLu[d]]

(* on_open(): the session knows the user.  A previous client with the same    *)
(* key is ejected; one without a fingerprint is closed, and registered too.   *)
OnOpen(c, u) ==
  LET old == lookup[u]
  IN /\ server = "run" /\ conn[c] = "accepted"
     /\ conn' = [conn EXCEPT ![c] = "open"]
     /\ name' = [name EXCEPT ![c] = u]
     /\ lookup' = [lookup EXCEPT ![u] = c]
     /\ selfLu' = LookupIterators(c, old)
     /\ closing' = closing \cup ({old} \ {None}) \cup (IF u = NoFp THEN {c} ELSE {})
     /\ latest' = [latest EXCEPT ![u] = c]
     /\ UNCHANGED <<connections, route, up, down, ends, server, lost>>

(* The remote ends the connection, or the key exchange fails. *)
Disconnect(c) ==
  /\ conn[c] \in {"accepted", "open"} /\ c \notin closing
  /\ closing' = closing \cup {c}
  /\ UNCHANGED <<conn, register, route, up, down, ends, server, latest, lost>>

(* The pipes of routes that are in the map of connection c. *)
Registered(c) ==
  {p \in Pipes \X Halves : LET r == p[1]
                                h == p[2]
                            IN route[r] # None /\ route[r].conn[h] = c /\ route[r].state[h] # "Closed"}

(* Mutant: the entry of the register stays. *)
EndpointOnCloseLeaves(c) ==
  /\ connections' = connections \ {c}
  /\ UNCHANGED <<lookup, server, route, down>>

(* on_close() of an endpoint whose connection has no pipes.  _self_lu has no  *)
(* value before on_open(): its use is undefined and ends the process.  An     *)
(* iterator whose entry is gone may not be erased.                            *)
EndpointOnClose(c) ==
  /\ connections' = connections \ {c}
  /\ lookup' = IF selfLu[c] = "own" THEN [lookup EXCEPT ![name[c]] = None] ELSE lookup
  /\ server' = CASE selfLu[c] = "unset" -> "crashed"
                 [] selfLu[c] = "own" /\ lookup[name[c]] # c -> "dangling"
                 [] OTHER -> server
  /\ UNCHANGED <<route, down>>

(* on_close() of OPTPipes: the first pipe is told with _pipe_lock held.  Its  *)
(* route closes the other half, whose close callback closes the first one,    *)
(* which waits for _pipe_lock in erase(); a half on the same connection waits *)
(* at once.                                                                   *)
PipesOnClose(c, p) ==
  LET r == p[1]
      h == Other(p[2])
      d == route[r].conn[h]
  IN /\ server' = "selflock"
     /\ IF d # c THEN /\ route' = [route EXCEPT ![r].state[h] = "Closed"]
                      /\ down' = Sent(d, <<Packet("CLOSE", r, h)>>)
                 ELSE UNCHANGED <<route, down>>
     /\ UNCHANGED <<connections, lookup>>

(* The loop closes the socket. *)
OnClose(c) ==
  /\ server = "run" /\ c \in closing /\ conn[c] # "closed"
  /\ conn' = [conn EXCEPT ![c] = "closed"]
  /\ closing' = closing \ {c}
  /\ IF Registered(c) = {} THEN EndpointOnClose(c)
                           ELSE \E p \in Registered(c) : PipesOnClose(c, p)
  /\ UNCHANGED <<selfLu, name, up, ends, latest, lost>>

-----------------------------------------------------------------------------
(* C2ServerRoute: packets of the clients *)

Takes(c, type) == /\ server = "run" /\ conn[c] = "open"
                  /\ up[c] # <<>> /\ Head(up[c]).type = type
                  /\ up' = [up EXCEPT ![c] = Tail(@)]

(* start() of the route: it joins the pipe of c to a new one of d, to whose   *)
(* client the request goes on.                                                *)
RouteStart(r, c, d) ==
  /\ route' = [route EXCEPT ![r] =
       [conn  |-> [h \in Halves |-> IF h = "a" THEN c ELSE d],
        state |-> [h \in Halves |-> IF h = "a" THEN "OpenRequstRecv" ELSE "OpenRequstSent"],
        timer |-> TRUE]]
  /\ down' = Sent(d, <<[type |-> "REQ", pipe |-> r, from |-> name[c]]>>)

(* on_pipe(): the client that has the fingerprint is asked, or the pipe is    *)
(* dropped, which tells nobody.                                               *)
OnPipe(c) ==
  LET d == lookup[Head(up[c]).to]
  IN /\ Takes(c, "REQ")
     /\ IF d # None THEN RouteStart(Head(up[c]).pipe, c, d) ELSE UNCHANGED <<route, down>>
     /\ UNCHANGED <<conn, register, closing, ends, server, latest, lost>>

(* Mutant: the half that was asked for is not accepted. *)
RouteOnOpenSilent(r) ==
  /\ route' = [route EXCEPT ![r].state["b"] = "Opened"]
  /\ UNCHANGED down

(* The other client has accepted: on_open() accepts the pipe of the first. *)
RouteOnOpen(r) ==
  LET accepts == route[r].state["a"] = "OpenRequstRecv"
  IN /\ route' = [route EXCEPT ![r].state = [h \in Halves |-> IF h = "b" \/ accepts THEN "Opened" ELSE @[h]]]
     /\ down' = IF accepts THEN Sent(route[r].conn["a"], <<Packet("RESP", r, "a")>>) ELSE down

OnResp(c) ==
  LET r == Head(up[c]).pipe
  IN /\ Takes(c, "RESP")
     /\ IF route[r].state["b"] = "OpenRequstSent" THEN RouteOnOpen(r) ELSE UNCHANGED <<route, down>>
     /\ UNCHANGED <<conn, register, closing, ends, server, latest, lost>>

(* on_packet_a(), on_packet_b() *)
OnData(c) ==
  LET r == Head(up[c]).pipe
      h == Head(up[c]).half
      opened == route[r] # None /\ route[r].state[h] = "Opened"
  IN /\ Takes(c, "DATA")
     /\ down' = IF opened THEN Sent(route[r].conn[Other(h)], <<Packet("DATA", r, Other(h))>>) ELSE down
     /\ lost' = (lost \/ route[r] = None \/ route[r].state[h] \notin {"Opened", "Closed"})
     /\ UNCHANGED <<conn, register, closing, route, ends, server, latest>>

(* Mutant: nobody is told. *)
HalfClosesSilent(r, h, tell) ==
  /\ route' = [route EXCEPT ![r].state = [k \in Halves |-> "Closed"]]
  /\ UNCHANGED down

(* Half h closes, with a packet to its client if the server closes it.  Its   *)
(* close callback on_close_a() or on_close_b() closes the other half, the     *)
(* callback of which finds h Closed.                                          *)
HalfCloses(r, h, tell) ==
  LET q == Other(h)
      told == [k \in Halves |-> IF k = h THEN tell ELSE route[r].state[q] # "Closed"]
      To(c) == LET M(k) == IF told[k] /\ route[r].conn[k] = c THEN <<Packet("CLOSE", r, k)>> ELSE <<>>
               IN M(h) \o M(q)
  IN /\ route' = [route EXCEPT ![r].state = [k \in Halves |-> "Closed"]]
     /\ down' = [c \in Conns |-> Sent(c, To(c))[c]]

OnClosePacket(c) ==
  LET r == Head(up[c]).pipe
      h == Head(up[c]).half
  IN /\ Takes(c, "CLOSE")
     /\ IF route[r] # None /\ route[r].state[h] # "Closed"
          THEN HalfCloses(r, h, FALSE)
          ELSE UNCHANGED <<route, down>>
     /\ UNCHANGED <<conn, register, closing, ends, server, latest, lost>>

(* on_open_expired() of the pipe to the other client. *)
OnOpenExpired(r) ==
  /\ server = "run" /\ route[r] # None /\ route[r].timer
  /\ IF route[r].state["b"] = "OpenRequstSent"
       THEN HalfCloses(r, "b", TRUE)
       ELSE route' = [route EXCEPT ![r].timer = FALSE] /\ UNCHANGED down
  /\ UNCHANGED <<conn, register, closing, up, ends, server, latest, lost>>

-----------------------------------------------------------------------------
(* The clients: C2Client and its pipes *)

Alive(c) == conn[c] = "open" /\ c \notin closing

(* The connection of a client's half. *)
At(r, h) == IF h = "a" THEN want[r].by ELSE route[r].conn["b"]

Says(r, h, m) == up' = [up EXCEPT ![At(r, h)] = Append(@, m)]

(* openPipe() *)
ClientOpenPipe(c, r, u) ==
  /\ Alive(c) /\ want[r] = None
  /\ want' = [want EXCEPT ![r] = [by |-> c, to |-> u]]
  /\ end' = [end EXCEPT ![r]["a"] = "OpenRequstSent"]
  /\ up' = [up EXCEPT ![c] = Append(@, [type |-> "REQ", pipe |-> r, to |-> u])]
  /\ UNCHANGED <<conn, register, closing, route, down, server, latest, sent, lost>>

Hears(c, type) == /\ Alive(c)
                  /\ down[c] # <<>> /\ Head(down[c]).type = type
                  /\ down' = [down EXCEPT ![c] = Tail(@)]

(* on_pipe(): the requester is among the authorised clients, a puncher is     *)
(* started and its session accepts the pipe; or the pipe is dropped.          *)
ClientOnPipe(c) ==
  LET r == Head(down[c]).pipe
  IN /\ Hears(c, "REQ")
     /\ \/ /\ end' = [end EXCEPT ![r]["b"] = "Opened"]
           /\ Says(r, "b", Packet("RESP", r, "b"))
        \/ end' = [end EXCEPT ![r]["b"] = "Closed"] /\ UNCHANGED up
     /\ UNCHANGED <<conn, register, closing, route, server, want, latest, sent, lost>>

ClientOnResp(c) ==
  LET r == Head(down[c]).pipe
  IN /\ Hears(c, "RESP")
     /\ end' = IF end[r]["a"] = "OpenRequstSent" THEN [end EXCEPT ![r]["a"] = "Opened"] ELSE end
     /\ UNCHANGED <<conn, register, closing, route, up, server, want, latest, sent, lost>>

ClientOnData(c) ==
  /\ Hears(c, "DATA")
  /\ lost' = (lost \/ end[Head(down[c]).pipe][Head(down[c]).half] \notin {"Opened", "Closed"})
  /\ UNCHANGED <<conn, register, closing, route, up, ends, server, latest>>

ClientOnClose(c) ==
  LET r == Head(down[c]).pipe
  IN /\ Hears(c, "CLOSE")
     /\ end' = [end EXCEPT ![r][Head(down[c]).half] = "Closed"]
     /\ UNCHANGED <<conn, register, closing, route, up, server, want, latest, sent, lost>>

(* The session over the pipe sends, on an opened pipe. *)
ClientSend(r, h) ==
  /\ end[r][h] = "Opened" /\ Alive(At(r, h)) /\ sent[r][h] < MaxData
  /\ sent' = [sent EXCEPT ![r][h] = @ + 1]
  /\ Says(r, h, Packet("DATA", r, h))
  /\ UNCHANGED <<conn, register, closing, route, down, end, server, want, latest, lost>>

(* close() by the puncher, or the expiry of the open request. *)
ClientClose(r, h) ==
  /\ end[r][h] \in {"OpenRequstSent", "Opened"} /\ Alive(At(r, h))
  /\ end' = [end EXCEPT ![r][h] = "Closed"]
  /\ Says(r, h, Packet("CLOSE", r, h))
  /\ UNCHANGED <<conn, register, closing, route, down, server, want, latest, sent, lost>>

-----------------------------------------------------------------------------
Init ==
  /\ conn = [c \in Conns |-> "none"]
  /\ connections = {}
  /\ lookup = [u \in Names |-> None]
  /\ selfLu = [c \in Conns |-> "unset"]
  /\ name = [c \in Conns |-> None]
  /\ closing = {}
  /\ route = [r \in Pipes |-> None]
  /\ up = [c \in Conns |-> <<>>] /\ down = [c \in Conns |-> <<>>]
  /\ end = [r \in Pipes |-> [h \in Halves |-> "None"]]
  /\ server = "run"
  /\ want = [r \in Pipes |-> None]
  /\ latest = [u \in Names |-> None]
  /\ sent = [r \in Pipes |-> [h \in Halves |-> 0]]
  /\ lost = FALSE

ServerHandles(c) == OnPipe(c) \/ OnResp(c) \/ OnData(c) \/ OnClosePacket(c)
ClientHandles(c) == ClientOnPipe(c) \/ ClientOnResp(c) \/ ClientOnData(c) \/ ClientOnClose(c)
ClientActs(r, h) == ClientSend(r, h) \/ ClientClose(r, h)

Next == \/ \E c \in Conns : \/ OnAccept(c) \/ Disconnect(c) \/ OnClose(c)
                            \/ \E u \in Names : OnOpen(c, u)
                            \/ ServerHandles(c) \/ ClientHandles(c)
                            \/ \E r \in Pipes, u \in Users : ClientOpenPipe(c, r, u)
        \/ \E r \in Pipes : OnOpenExpired(r) \/ \E h \in Halves : ClientActs(r, h)

Spec == Init /\ [][Next]_vars

(* The client thread runs on and its timers expire; so do the clients'. *)
Fairness == /\ \A c \in Conns : /\ WF_vars(ServerHandles(c))
                                /\ WF_vars(ClientHandles(c))
                                /\ WF_vars(OnClose(c))
            /\ \A r \in Pipes : WF_vars(OnOpenExpired(r))

FairSpec == Spec /\ Fairness

-----------------------------------------------------------------------------
(* Properties *)

(* Types; a route holds two pipes of connections that were logged in. *)
TypeOK ==
  /\ conn \in [Conns -> {"none", "accepted", "open", "closed"}]
  /\ connections \subseteq Conns /\ closing \subseteq Conns
  /\ lookup \in [Names -> Conns \cup {None}]
  /\ selfLu \in [Conns -> {"unset", "own", "end"}]
  /\ name \in [Conns -> Names \cup {None}]
  /\ \A r \in Pipes : route[r] # None =>
       /\ route[r].conn \in [Halves -> {c \in Conns : conn[c] \in {"open", "closed"}}]
       /\ route[r].state \in [Halves -> PipeStates] /\ route[r].timer \in BOOLEAN
  /\ end \in [Pipes -> [Halves -> PipeStates]]
  /\ server \in {"run", "crashed", "selflock", "dangling"}
  /\ sent \in [Pipes -> [Halves -> 0..MaxData]] /\ lost \in BOOLEAN

(* A fingerprint leads to the client that logged in last with it, until that  *)
(* one's connection closes, however its earlier connections end and in        *)
(* whatever order: the late close of an ejected client does not remove the    *)
(* entry of its successor, nor is an entry erased by an iterator whose entry  *)
(* was erased before (c2_server.cpp on_open(), on_close()).                   *)
LookupIsLatest ==
  /\ server # "dangling"
  /\ server = "run" =>
       \A u \in Names :
         lookup[u] = IF latest[u] # None /\ conn[latest[u]] = "open" THEN latest[u] ELSE None

(* A pipe that is open is open from end to end: the client that asked sees it *)
(* open only when the other client has accepted it, and that is the one it    *)
(* asked for; and what is sent on it is dropped on its way through the server *)
(* only after one of the two ends was closed (c2_server.cpp on_pipe(),        *)
(* C2ServerRoute on_open(), on_packet_a(), on_packet_b()).                    *)
OpenEndToEnd ==
  /\ \A r \in Pipes : end[r]["a"] = "Opened" =>
       end[r]["b"] \in {"Opened", "Closed"} /\ name[route[r].conn["b"]] = want[r].to
  /\ ~lost

(* A pipe that one client closes, or whose request expires there, is closed   *)
(* at the other client too, as long as both stay connected and the server     *)
(* runs (c2_server.cpp C2ServerRoute, opt_pipes.cpp).                         *)
Reachable(r) == server = "run" /\ route[r] # None /\ \A h \in Halves : Alive(route[r].conn[h])

BothClientsClose ==
  \A r \in Pipes : \A h \in Halves :
    (route[r] # None /\ end[r][h] = "Closed")
      ~> (end[r][Other(h)] \in {"None", "Closed"} \/ ~Reachable(r))
=============================================================================
