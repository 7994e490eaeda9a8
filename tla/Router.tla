------------------------------- MODULE Router -------------------------------
(***************************************************************************)
(* Port forwarding (common/endpoint/router): one TCP connection carried     *)
(* over a pipe of the tunnel between two peers.  Side "C" accepted it from  *)
(* a local program and asked for a pipe; side "S" got the request and       *)
(* connected to a local port.  Each side has a RouterTCPRoute, held only by *)
(* _open_routes and by the handlers that run, and reached by weak pointers. *)
(*                                                                         *)
(* A side has two threads: the tunnel thread runs the events of the pipe,   *)
(* the router thread those of the socket.  A handler is one step up to the  *)
(* point where it gives up _route_lock, or uses a state it has read without *)
(* a lock.  The tunnel delivers in order until it closes.                   *)
(***************************************************************************)
EXTENDS Naturals, Sequences

CONSTANTS Ports,    \* ports asked for
          Allowed,  \* the ports the user may push to
          MaxData   \* bound: packets sent by a local program

ASSUME RouterConstants == Allowed \subseteq Ports /\ MaxData \in Nat

Sides == {"C", "S"}
Peer(s) == IF s = "C" THEN "S" ELSE "C"
EOF == 0  \* the end of what a program wrote; its packets are 1, 2, ...

VARIABLES
  routers,  \* sides with their Router in _open_routers
  route,    \* per side: "none", "listed" in _open_routes, or "erased"
  pipe,     \* per side: _open_state of the pipe
  timer,    \* the open timer of the pipe of C is pending, and holds it
  chan,     \* per side: packets on their way to it
  sock,     \* per side: "none", "associated", "added", "polled", "closed", "failed"
  closeReq, \* per side: the socket is in _closed_socket_objects
  tunnel,   \* per side: step of the tunnel thread
  loop,     \* per side: step of the router thread
  link,     \* per side: the tunnel is "up" or "down"
  kin,      \* per side: what the program wrote and the socket did not read
  app,      \* per side: the program "away", "connecting", "open", "refused" or "closed"
  (* histories *)
  passed,   \* per side: packets handed to send() of the socket
  got,      \* per side: what the program received of them
  eof,      \* sides whose program saw the end of the stream
  sent,     \* per side: packets written by the program
  unread,   \* per side: packets dropped with the socket that closed
  overtaken,\* sides where a request to close the socket came before its start
  gaveUp    \* the open request expired

socketVars == <<sock, closeReq>>
appVars == <<kin, app, sent>>
seen == <<passed, got, eof>>
lapses == <<unread, overtaken, gaveUp>>
vars == <<routers, route, pipe, timer, chan, sock, closeReq, tunnel, loop, link, kin, app,
          passed, got, eof, sent, unread, overtaken, gaveUp>>

(* Mutant: CLOSE goes ahead of the packets on their way. *)
SendsUrgent(s, m) ==
  [chan EXCEPT ![Peer(s)] = IF link[s] = "up" /\ link[Peer(s)] = "up"
                              THEN IF m = <<"CLOSE">> THEN <<m>> \o @ ELSE Append(@, m)
                              ELSE @]

(* What reaches the peer once s has sent m. *)
Sends(s, m) == [chan EXCEPT ![Peer(s)] = IF link[s] = "up" /\ link[Peer(s)] = "up" THEN Append(@, m) ELSE @]

Alive(s) == route[s] = "listed" \/ tunnel[s] = "closing" \/ loop[s] # "wait"

Erased(s) == [route EXCEPT ![s] = "erased"]

-----------------------------------------------------------------------------
(* RouterTCPS *)

(* start_client(): the route is registered, the request for a pipe goes out. *)
StartClient(port) ==
  /\ route' = [route EXCEPT !["C"] = "listed"]
  /\ pipe' = [pipe EXCEPT !["C"] = "OpenRequstSent"]
  /\ chan' = Sends("C", <<"REQ", port>>)
  /\ timer' = TRUE

(* on_accept() of a listener for the port: the socket waits for the pipe. *)
OnAccept(port) ==
  /\ route["C"] = "none"
  /\ sock' = [sock EXCEPT !["C"] = "associated"]
  /\ app' = [app EXCEPT !["C"] = "open"]
  /\ StartClient(port)
  /\ UNCHANGED <<routers, closeReq, tunnel, loop, link, kin, seen, sent, lapses>>

-----------------------------------------------------------------------------
(* The tunnel thread *)

Receives(s, type) == /\ link[s] = "up" /\ tunnel[s] = "wait"
                     /\ chan[s] # <<>> /\ Head(chan[s])[1] = type

Taken(s) == [chan EXCEPT ![s] = Tail(@)]

(* start_server(): the route is registered and its socket started; the pipe   *)
(* waits for the connection.                                                  *)
StartServer ==
  /\ route' = [route EXCEPT !["S"] = "listed"]
  /\ pipe' = [pipe EXCEPT !["S"] = "OpenRequstRecv"]
  /\ sock' = [sock EXCEPT !["S"] = "added"]

(* Router::on_pipe(): a route to an allowed port, or the pipe is dropped. *)
OnPipe ==
  LET port == Head(chan["S"])[2]
  IN /\ Receives("S", "REQ")
     /\ IF port \in Allowed THEN StartServer ELSE UNCHANGED <<route, pipe, sock>>
     /\ chan' = Taken("S")
     /\ UNCHANGED <<routers, timer, closeReq, tunnel, loop, link, appVars, seen, lapses>>

(* on_pipe_open(): only now does the socket of C start. *)
OnPipeOpen ==
  /\ Receives("C", "RESP")
  /\ chan' = Taken("C")
  /\ IF pipe["C"] = "OpenRequstSent"
       THEN /\ pipe' = [pipe EXCEPT !["C"] = "Opened"]
            /\ sock' = [sock EXCEPT !["C"] = "added"]
       ELSE UNCHANGED <<pipe, sock>>
  /\ UNCHANGED <<routers, route, timer, closeReq, tunnel, loop, link, appVars, seen, lapses>>

(* Sending to the socket, whose result is ignored: what it does not take, as  *)
(* a socket that is full or not yet connected does, is lost.                  *)
SocketSend(s, m) ==
  /\ passed' = [passed EXCEPT ![s] = @ + 1]
  /\ \/ app[s] = "open" /\ got' = [got EXCEPT ![s] = Append(@, m)]
     \/ UNCHANGED got

(* on_pipe_packet() *)
OnPipePacket(s) ==
  LET delivers == pipe[s] = "Opened" /\ Alive(s) /\ app[s] # "closed"
                    /\ sock[s] \in {"associated", "added", "polled"} /\ (s = "S" => sock[s] = "polled")
  IN /\ Receives(s, "DATA")
     /\ chan' = Taken(s)
     /\ IF delivers THEN SocketSend(s, Head(chan[s])[2]) ELSE UNCHANGED <<passed, got>>
     /\ UNCHANGED <<routers, route, pipe, timer, socketVars, tunnel, loop, link, appVars, eof, lapses>>

(* Mutant: on_pipe_close() does not close the socket. *)
OnPipeCloseForgets(s, next) == route' = Erased(s) /\ UNCHANGED tunnel

(* on_pipe_close(), first half: the route is erased, under _route_lock. *)
OnPipeClose(s, next) ==
  /\ route' = Erased(s)
  /\ tunnel' = [tunnel EXCEPT ![s] = next]

(* A CLOSE packet. *)
OnClosePacket(s) ==
  /\ Receives(s, "CLOSE")
  /\ chan' = Taken(s)
  /\ pipe' = [pipe EXCEPT ![s] = IF @ = "None" THEN @ ELSE "Closed"]
  /\ IF pipe[s] \notin {"None", "Closed"} /\ Alive(s)
       THEN OnPipeClose(s, "closing")
       ELSE UNCHANGED <<route, tunnel>>
  /\ UNCHANGED <<routers, timer, socketVars, loop, link, appVars, seen, lapses>>

(* on_open_expired() *)
OnOpenExpired ==
  /\ timer /\ tunnel["C"] = "wait"
  /\ timer' = FALSE
  /\ IF pipe["C"] = "OpenRequstSent"
       THEN /\ pipe' = [pipe EXCEPT !["C"] = "Closed"]
            /\ chan' = Sends("C", <<"CLOSE">>)
            /\ IF Alive("C") THEN OnPipeClose("C", "closing") ELSE UNCHANGED <<route, tunnel>>
            /\ gaveUp' = TRUE
       ELSE UNCHANGED <<pipe, chan, route, tunnel, gaveUp>>
  /\ UNCHANGED <<routers, socketVars, loop, link, appVars, seen, unread, overtaken>>

(* The last reference to a pipe that is open closes it: ~OPTPipe(). *)
Dropped(s) == pipe[s] = "Opened" /\ route[s] = "erased"

(* on_pipe_close(), second half: _socket->close().  The pipe may be open      *)
(* again, by pipe->start(); the route's end closes it.                        *)
SocketClose(s) ==
  /\ tunnel[s] = "closing"
  /\ tunnel' = [tunnel EXCEPT ![s] = "wait"]
  /\ closeReq' = [closeReq EXCEPT ![s] = TRUE]
  /\ IF Dropped(s) /\ loop[s] = "wait"
       THEN pipe' = [pipe EXCEPT ![s] = "Closed"] /\ chan' = Sends(s, <<"CLOSE">>)
       ELSE UNCHANGED <<pipe, chan>>
  /\ UNCHANGED <<routers, route, timer, sock, loop, link, appVars, seen, lapses>>

(* The tunnel closes: on_close() of OPTPipes tells the route with _pipe_lock  *)
(* held.  If nothing else holds the pipe, its destructor waits for that lock  *)
(* on the same thread; else Router::on_close() ends the Router.               *)
LinkClose(s) ==
  LET told == route[s] = "listed" /\ pipe[s] # "Closed"
      stuck == told /\ loop[s] = "wait" /\ ~(s = "C" /\ timer)
  IN /\ link[s] = "up" /\ tunnel[s] = "wait"
     /\ link' = [link EXCEPT ![s] = "down"]
     /\ chan' = [chan EXCEPT ![s] = <<>>]
     /\ tunnel' = [tunnel EXCEPT ![s] = IF stuck THEN "stuck" ELSE @]
     /\ routers' = IF stuck THEN routers ELSE routers \ {s}
     /\ route' = IF told THEN Erased(s) ELSE route
     /\ closeReq' = [closeReq EXCEPT ![s] = @ \/ told]
     /\ UNCHANGED <<pipe, timer, sock, loop, appVars, seen, lapses>>

-----------------------------------------------------------------------------
(* The router thread: wait() of the socket provider *)

(* The added socket is polled, once there is nothing left to close.  The one  *)
(* of S may still be connecting; pipe->start() reads the state of the pipe.   *)
AddSocket(s) ==
  /\ loop[s] = "wait" /\ sock[s] = "added" /\ ~closeReq[s]
  /\ \/ /\ sock' = [sock EXCEPT ![s] = "polled"]
        /\ IF s = "S" THEN app' \in {[app EXCEPT ![s] = a] : a \in {"connecting", "open"}}
           ELSE UNCHANGED app
        /\ loop' = [loop EXCEPT ![s] = IF s = "S" /\ Alive(s) /\ pipe[s] = "OpenRequstRecv"
                                       THEN "starting" ELSE @]
     \/ s = "S" /\ sock' = [sock EXCEPT ![s] = "failed"] /\ UNCHANGED <<app, loop>>
  /\ UNCHANGED <<routers, route, pipe, timer, chan, closeReq, tunnel, link, kin, seen, sent, lapses>>

(* The connection succeeds, or fails at the last address: _callback_error()   *)
(* and a close request.                                                       *)
ConnectEnds(s) ==
  /\ loop[s] = "wait" /\ sock[s] = "polled" /\ app[s] = "connecting"
  /\ \/ app' = [app EXCEPT ![s] = "open"] /\ UNCHANGED closeReq
     \/ app' = [app EXCEPT ![s] = "refused"] /\ closeReq' = [closeReq EXCEPT ![s] = TRUE]
  /\ UNCHANGED <<routers, route, pipe, timer, chan, sock, tunnel, loop, link, kin, seen, sent, lapses>>

(* pipe->start() writes it and answers; the route may have ended meanwhile. *)
PipeStart(s) ==
  LET ends == route[s] = "erased" /\ tunnel[s] # "closing"
      answered == Sends(s, <<"RESP">>)
  IN /\ loop[s] = "starting"
     /\ loop' = [loop EXCEPT ![s] = "wait"]
     /\ pipe' = [pipe EXCEPT ![s] = IF ends THEN "Closed" ELSE "Opened"]
     /\ chan' = IF ends /\ link[s] = "up" /\ link[Peer(s)] = "up"
                  THEN [answered EXCEPT ![Peer(s)] = Append(@, <<"CLOSE">>)] ELSE answered
     /\ UNCHANGED <<routers, route, timer, socketVars, tunnel, link, appVars, seen, lapses>>

(* Windows: FD_CLOSE comes with FD_READ, which reads one buffer, and closes   *)
(* the socket with the rest unread.                                           *)
HangUp(s) ==
  /\ kin[s][Len(kin[s])] = EOF
  /\ kin' = [kin EXCEPT ![s] = <<>>]
  /\ unread' = [unread EXCEPT ![s] = @ + (Len(kin[s]) - 2)]
  /\ closeReq' = [closeReq EXCEPT ![s] = TRUE]

(* on_socket_packet(), or the end of the stream. *)
ReadSocket(s) ==
  /\ loop[s] = "wait" /\ sock[s] = "polled" /\ kin[s] # <<>>
  /\ IF Head(kin[s]) = EOF
       THEN /\ closeReq' = [closeReq EXCEPT ![s] = TRUE]
            /\ kin' = [kin EXCEPT ![s] = Tail(@)]
            /\ UNCHANGED <<chan, unread>>
       ELSE /\ chan' = IF Alive(s) THEN Sends(s, <<"DATA", Head(kin[s])>>) ELSE chan
            /\ \/ kin' = [kin EXCEPT ![s] = Tail(@)] /\ UNCHANGED <<closeReq, unread>>
               \/ HangUp(s)
  /\ UNCHANGED <<routers, route, pipe, timer, sock, tunnel, loop, link, app, seen, sent, overtaken, gaveUp>>

(* A close request.  A polled socket is closed and on_socket_close() erases   *)
(* the route; one that was never started ends with its last reference; for    *)
(* one that is still to be added the request is lost.                         *)
ExecClose(s) ==
  LET closes == sock[s] \in {"polled", "associated"}
  IN /\ loop[s] = "wait" /\ closeReq[s]
     /\ closeReq' = [closeReq EXCEPT ![s] = FALSE]
     /\ sock' = IF closes THEN [sock EXCEPT ![s] = "closed"] ELSE sock
     /\ eof' = IF closes THEN eof \cup {s} ELSE eof
     /\ overtaken' = IF sock[s] = "added" THEN overtaken \cup {s} ELSE overtaken
     /\ IF sock[s] = "polled" /\ Alive(s)
          THEN route' = Erased(s) /\ loop' = [loop EXCEPT ![s] = "closing"]
          ELSE UNCHANGED <<route, loop>>
     /\ UNCHANGED <<routers, pipe, timer, chan, tunnel, link, appVars, passed, got, unread, gaveUp>>

(* on_socket_close(), second half: _pipe->close(), whose callback             *)
(* on_pipe_close() asks to close the socket once more.                        *)
PipeClose(s) ==
  /\ loop[s] = "closing"
  /\ loop' = [loop EXCEPT ![s] = "wait"]
  /\ IF pipe[s] # "Closed"
       THEN /\ pipe' = [pipe EXCEPT ![s] = "Closed"]
            /\ chan' = Sends(s, <<"CLOSE">>)
            /\ closeReq' = [closeReq EXCEPT ![s] = TRUE]
       ELSE UNCHANGED <<pipe, chan, closeReq>>
  /\ UNCHANGED <<routers, route, timer, sock, tunnel, link, appVars, seen, lapses>>

-----------------------------------------------------------------------------
(* The local programs *)

AppSend(s) ==
  /\ app[s] = "open" /\ sent[s] < MaxData /\ s \notin eof
  /\ sent' = [sent EXCEPT ![s] = @ + 1]
  /\ kin' = [kin EXCEPT ![s] = Append(@, sent[s] + 1)]
  /\ UNCHANGED <<routers, route, pipe, timer, chan, socketVars, tunnel, loop, link, app, seen, lapses>>

AppClose(s) ==
  /\ app[s] = "open"
  /\ app' = [app EXCEPT ![s] = "closed"]
  /\ kin' = [kin EXCEPT ![s] = Append(@, EOF)]
  /\ UNCHANGED <<routers, route, pipe, timer, chan, socketVars, tunnel, loop, link, seen, sent, lapses>>

-----------------------------------------------------------------------------
Both(v) == [s \in Sides |-> v]

Init ==
  /\ routers = Sides
  /\ route = Both("none") /\ pipe = Both("None") /\ timer = FALSE
  /\ chan = Both(<<>>)
  /\ sock = Both("none") /\ closeReq = Both(FALSE)
  /\ tunnel = Both("wait") /\ loop = Both("wait")
  /\ link = Both("up")
  /\ kin = Both(<<>>) /\ app = Both("away")
  /\ passed = Both(0) /\ got = Both(<<>>) /\ eof = {} /\ sent = Both(0)
  /\ unread = Both(0) /\ overtaken = {} /\ gaveUp = FALSE

TunnelStep(s) == \/ s = "S" /\ OnPipe
                 \/ s = "C" /\ (OnPipeOpen \/ OnOpenExpired)
                 \/ OnPipePacket(s) \/ OnClosePacket(s) \/ SocketClose(s)

LoopStep(s) == AddSocket(s) \/ ConnectEnds(s) \/ PipeStart(s) \/ ReadSocket(s) \/ ExecClose(s) \/ PipeClose(s)

Next == \/ \E port \in Ports : OnAccept(port)
        \/ \E s \in Sides : TunnelStep(s) \/ LoopStep(s) \/ LinkClose(s) \/ AppSend(s) \/ AppClose(s)

Spec == Init /\ [][Next]_vars

(* Both loops run on; a tunnel that is closed at one end closes at the other. *)
Fairness == \A s \in Sides : /\ WF_vars(TunnelStep(s)) /\ WF_vars(LoopStep(s))
                             /\ WF_vars(link[Peer(s)] = "down" /\ LinkClose(s))

FairSpec == Spec /\ Fairness

-----------------------------------------------------------------------------
(* Properties *)

(* Types.  A route is registered with a pipe and a socket. *)
TypeOK ==
  /\ routers \subseteq Sides /\ eof \subseteq Sides /\ overtaken \subseteq Sides
  /\ route \in [Sides -> {"none", "listed", "erased"}]
  /\ pipe \in [Sides -> {"None", "OpenRequstSent", "OpenRequstRecv", "Opened", "Closed"}]
  /\ timer \in BOOLEAN /\ closeReq \in [Sides -> BOOLEAN] /\ gaveUp \in BOOLEAN
  /\ sock \in [Sides -> {"none", "associated", "added", "polled", "closed", "failed"}]
  /\ tunnel \in [Sides -> {"wait", "closing", "stuck"}]
  /\ loop \in [Sides -> {"wait", "starting", "closing"}]
  /\ link \in [Sides -> {"up", "down"}]
  /\ app \in [Sides -> {"away", "connecting", "open", "refused", "closed"}]
  /\ sent \in [Sides -> 0..MaxData] /\ unread \in [Sides -> Nat]
  /\ \A s \in Sides : route[s] # "none" => pipe[s] # "None" /\ sock[s] # "none"

Up == \A s \in Sides : link[s] = "up"

(* Its program has closed the connection, or did not take it. *)
Gone(s) == app[s] \in {"refused", "closed"}

(* What a program receives comes in the order in which the program at the     *)
(* other side wrote it, nothing twice, and nothing is lost in between the two *)
(* sockets.  If it did not close its connection it sees it end, as long as    *)
(* the tunnel is up and the request did not expire, only because the other    *)
(* one closed or refused it, and only after all of what the other wrote was   *)
(* handed to its socket, except for what the socket of the other one dropped  *)
(* unread when it closed: the close of one side does not overtake its data on *)
(* any of the threads (router.cpp on_socket_packet(), on_pipe_packet(),       *)
(* on_socket_close(), on_pipe_close()).                                       *)
StreamIntact ==
  \A s \in Sides :
    LET readable == sent[Peer(s)] - unread[Peer(s)]
    IN /\ \A j \in 1..Len(got[s]) : /\ got[s][j] \in 1..passed[s]
                                   /\ \A i \in 1..(j - 1) : got[s][i] < got[s][j]
       /\ passed[s] <= readable
       /\ s \in eof /\ app[s] = "open" /\ ~gaveUp /\ Up => Gone(Peer(s)) /\ passed[s] = readable

(* The route and the pipe of s have ended, or its tunnel thread is stuck. *)
Over(s) == (route[s] # "listed" /\ (link[s] = "up" => pipe[s] # "Opened")) \/ tunnel[s] = "stuck"

(* When one of the programs has closed or refused its connection both routes  *)
(* leave _open_routes and both pipes end for good, although start() may       *)
(* reopen one, whether or not the pipe was opened, the other side connected   *)
(* or the tunnel broke.  The other program sees its connection end, except    *)
(* where the request to close its socket was overtaken by the start of the    *)
(* socket and at a side whose tunnel thread is stuck (router.cpp              *)
(* on_socket_close(), on_pipe_close(), on_close()).                           *)
CloseReachesAll ==
  /\ (\E s \in Sides : Gone(s)) ~> [](\A s \in Sides : Over(s))
  /\ \A s \in Sides : (Gone(Peer(s)) /\ app[s] = "open")
                      ~> (s \in eof \/ Gone(s) \/ s \in overtaken \/ tunnel[s] = "stuck")
=============================================================================
