----------------------------- MODULE SocketsWin -----------------------------
(***************************************************************************)
(* The socket provider on Windows (network_win.cpp).  Requests, connection  *)
(* attempts and the two vectors are those of Sockets.  What differs is the  *)
(* wait: an alertable one, interrupted by an APC of the calling thread      *)
(* instead of an event fd, that reports one socket at a time, with the      *)
(* network events recorded for it, and the handling of errors and of the    *)
(* end of a connection.                                                     *)
(*                                                                         *)
(* Of the names of Sockets, wake stands for the pending APC, "in" for       *)
(* FD_READ or FD_ACCEPT, "out" for FD_CONNECT; "hup" is FD_CLOSE.           *)
(***************************************************************************)
EXTENDS Sockets

(* Network events: of a socket that connects, FD_CONNECT is the first; of a   *)
(* connection, data and its close.                                            *)
EventsWin(i) ==
  IF events[i].out THEN {{"out"}, {"out", "in"}}
  ELSE IF objects[i] \in Streams THEN {{"in"}, {"hup"}, {"in", "hup"}}
  ELSE {{"in"}}

(* The wait ends: the APC, or a time-out, or the events of one socket, in     *)
(* which case a pending APC stays for the next wait.                          *)
WaitWin ==
  /\ lpc = "poll"
  /\ \/ /\ wake' = FALSE /\ lpc' = "closing"
        /\ UNCHANGED <<revents, idx>>
     \/ \E i \in 1..Len(objects) : \E r \in EventsWin(i) :
          /\ revents' = [j \in 1..Len(objects) |-> IF j = i THEN r ELSE {}]
          /\ idx' = i
          /\ lpc' = "dispatch"
          /\ UNCHANGED wake
  /\ Quiet /\ NoEnd
  /\ UNCHANGED <<os, addrs, added, closed, vectors, push, calls, told>>

(* FD_CONNECT; data may come with a connection, not with an error. *)
ConnectEvent ==
  \/ Connected
  \/ Ready("out") /\ revents[idx] = {"out"} /\ (Reconnect \/ ConnectFailed)

(* FD_READ.  The result of WSARecv() is not looked at: after an error the     *)
(* length is indeterminate, and the outcome is either of the two.             *)
ReadEvent == Receive \/ EndOfStream

(* WSARecvFrom() fails: a reset is passed over, anything else is an           *)
(* assert(false).                                                             *)
DatagramError ==
  /\ Ready("in") /\ Here \in Datagrams
  /\ \/ Done("in") /\ UNCHANGED lpc
     \/ lpc' = "aborted" /\ UNCHANGED revents
  /\ Quiet /\ NoEnd
  /\ UNCHANGED <<os, addrs, requests, vectors, idx, push, calls, told>>

(* FD_ACCEPT; an error other than a reset closes the listener. *)
AcceptEvent ==
  \/ Accept
  \/ /\ Ready("in") /\ Here \in Listeners
     /\ Done("in")
     /\ closed' = Append(closed, Here) /\ wake' = TRUE
     /\ End(Here)
     /\ Quiet
     /\ UNCHANGED <<os, addrs, added, vectors, idx, lpc, push, calls, told>>

(* Mutant: the close is left to the read that returns 0. *)
CloseEventIgnored ==
  /\ Ready("hup") /\ revents[idx] = {"hup"}
  /\ Done("hup")
  /\ End(Here)
  /\ Quiet
  /\ UNCHANGED <<os, addrs, requests, vectors, idx, lpc, push, calls, told>>

(* FD_CLOSE, after the other events *)
CloseEvent ==
  /\ Ready("hup") /\ revents[idx] = {"hup"}
  /\ Done("hup")
  /\ closed' = Append(closed, Here)
  /\ End(Here)
  /\ Quiet
  /\ UNCHANGED <<os, addrs, added, wake, vectors, idx, lpc, push, calls, told>>

DispatchEndWin ==
  /\ lpc = "dispatch" /\ pushing = None /\ revents[idx] = {}
  /\ lpc' = "closing"
  /\ revents' = <<>> /\ idx' = 1
  /\ Quiet /\ NoEnd
  /\ UNCHANGED <<os, addrs, requests, vectors, push, calls, told>>

(* The execution of requests to close and *)
ClosingWin == CloseOne \/ ClosingEnd

(* to start. *)
AddingWin == AddOne \/ AddFailed \/ AddingEnd

DispatchWin == ConnectEvent \/ ReadEvent \/ DatagramError \/ AcceptEvent \/ CloseEvent \/ DispatchEndWin

RequestsWin == PushBegin \/ PushEnd \/ ClosingWin \/ AddingWin

(* start_socket() and close_socket() *)
CallsWin(s) == Start(s) \/ Close(s)

NextWin == (\E s \in Socks : CallsWin(s)) \/ WaitWin \/ DispatchWin \/ RequestsWin

SpecWin == SocketInit /\ [][NextWin]_socketVars

(* The loop thread keeps running, and a pending APC ends the wait. *)
FairSpecWin == SpecWin /\ WF_socketVars(DispatchWin \/ RequestsWin) /\ WF_socketVars(wake /\ WaitWin)
=============================================================================
