------------------------------ MODULE Sockets ------------------------------
(***************************************************************************)
(* The socket provider (network.h, network_linux.cpp).  The loop thread     *)
(* polls the sockets it has been given, dispatches what the poll reports    *)
(* and then executes the requests of start() and close(), which any thread  *)
(* and any callback may make: both put the socket in a list under           *)
(* _system_lock and set the event fd.                                       *)
(*                                                                         *)
(* objects and events are the two vectors the poll works on, without the    *)
(* entry of the event fd.  A socket has one OS socket in its life, which    *)
(* stands for its number too.  Callbacks are recorded in last: what they    *)
(* call are steps of their own, since every call is possible at any time.   *)
(***************************************************************************)
EXTENDS Integers, Sequences

CONSTANTS Clients,    \* TCPC that connect
          Accepted,   \* TCPC that a listener will accept
          Listeners,  \* TCPS
          Datagrams,  \* UDP
          MaxAddrs,   \* bound: addresses a name resolves to
          None

Streams == Clients \cup Accepted
Socks == Streams \cup Listeners \cup Datagrams

ASSUME SocketConstants ==
  /\ Clients \cap (Accepted \cup Listeners \cup Datagrams) = {}
  /\ Accepted \cap (Listeners \cup Datagrams) = {}
  /\ Listeners \cap Datagrams = {}
  /\ MaxAddrs \in Nat
  /\ None \notin Socks

VARIABLES
  os,       \* per socket: "none", "connecting", "open" or "closed"
  addrs,    \* per client: addresses left to try
  assoc,    \* sockets in the lists of SocketEventEmitterProvider
  added,    \* _added_socket_objects
  closed,   \* _closed_socket_objects
  wake,     \* the event fd is set
  objects,  \* _socket_objects
  events,   \* _socket_events[1..]: the socket polled, and whether for writing
  revents,  \* what the poll reported and is not dispatched yet
  idx,      \* index in the dispatch loop
  lpc,      \* where the loop thread is
  pushing,  \* the socket the loop thread will put in closed without the lock
  racy,     \* it is doing so
  (* histories *)
  started,  \* sockets start() was called for
  last,     \* the callback issued by the last step
  opened,   \* sockets that have had their start callback
  finished, \* sockets that have had their close callback
  ended,    \* closed by remote or local, or by an error
  due       \* those of them that were polled at the time

requests == <<added, closed, wake>>
vectors == <<objects, events>>
calls == <<assoc, started>>
told == <<opened, finished>>
push == <<pushing, racy>>
socketVars == <<os, addrs, assoc, added, closed, wake, objects, events, revents, idx, lpc, pushing, racy,
          started, last, opened, finished, ended, due>>

ElementsOf(s) == {s[i] : i \in 1..Len(s)}
Callback(kind, s) == [kind |-> kind, sock |-> s]
Quiet == last' = None
Polled(s) == s \in ElementsOf(objects)

(* The process is gone (assert), or a list was corrupted by a data race. *)
Broken == lpc \in {"aborted", "corrupt"}

End(s) == ended' = ended \cup {s} /\ due' = IF Polled(s) THEN due \cup {s} ELSE due
NoEnd == UNCHANGED <<ended, due>>

-----------------------------------------------------------------------------
(* Calls, by any thread *)

(* Mutant: the request does not interrupt the poll. *)
StartSilent(s) ==
  /\ s \in assoc \ started /\ ~Broken
  /\ started' = started \cup {s}
  /\ added' = Append(added, s)
  /\ Quiet /\ NoEnd
  /\ UNCHANGED <<os, addrs, assoc, closed, wake, vectors, revents, idx, lpc, push, told>>

(* start(), once and before close(), as every caller in the code does. *)
Start(s) ==
  /\ s \in assoc \ started /\ ~Broken
  /\ started' = started \cup {s}
  /\ added' = Append(added, s)
  /\ wake' = TRUE
  /\ Quiet /\ NoEnd
  /\ UNCHANGED <<os, addrs, assoc, closed, vectors, revents, idx, lpc, push, told>>

(* close(), once per association.  It races with the loop thread if that is   *)
(* changing the same list without the lock.                                   *)
Close(s) ==
  /\ s \in assoc /\ ~Broken
  /\ assoc' = assoc \ {s}
  /\ closed' = Append(closed, s)
  /\ wake' = TRUE
  /\ lpc' = IF racy THEN "corrupt" ELSE lpc
  /\ IF s \in started THEN End(s) ELSE NoEnd
  /\ Quiet
  /\ UNCHANGED <<os, addrs, added, vectors, revents, idx, push, started, told>>

-----------------------------------------------------------------------------
(* wait(): the poll and the dispatch of what it reported *)

Reportable(i) == IF events[i].out THEN {"in", "out"} ELSE {"in"}

(* ppoll() returns; the event fd is read. *)
Poll ==
  /\ lpc = "poll"
  /\ \E r \in [1..Len(objects) -> SUBSET {"in", "out"}] :
       (\A i \in 1..Len(objects) : r[i] \subseteq Reportable(i)) /\ revents' = r
  /\ wake' = FALSE
  /\ idx' = 1
  /\ lpc' = "dispatch"
  /\ Quiet /\ NoEnd
  /\ UNCHANGED <<os, addrs, added, closed, vectors, push, calls, told>>

Here == objects[idx]
Ready(kind) == /\ lpc = "dispatch" /\ pushing = None
               /\ idx <= Len(objects) /\ kind \in revents[idx]
Done(kind) == revents' = [revents EXCEPT ![idx] = @ \ {kind}]

(* The connection is there: the socket is no longer polled for writing. *)
Connected ==
  /\ Ready("out") /\ os[Here] = "connecting"
  /\ Done("out")
  /\ os' = [os EXCEPT ![Here] = "open"]
  /\ events' = [events EXCEPT ![idx].out = FALSE]
  /\ last' = Callback("connect", Here)
  /\ NoEnd
  /\ UNCHANGED <<addrs, requests, objects, idx, lpc, push, calls, told>>

(* next_connect_attempt() for s, in all the ways it can end.  socket() and    *)
(* connect() are external.                                                    *)
AttemptFails(s) ==
  \/ addrs[s] = 0 /\ UNCHANGED <<os, addrs>>
  \/ addrs[s] > 0 /\ addrs' = [addrs EXCEPT ![s] = 0]
     /\ \/ os[s] = "none" /\ UNCHANGED os              \* socket()
        \/ os' = [os EXCEPT ![s] = "closed"]           \* connect()

AttemptGoesOn(s) ==
  /\ addrs[s] > 0
  /\ os' = [os EXCEPT ![s] = "connecting"]
  /\ \/ addrs' = [addrs EXCEPT ![s] = 0]               \* connected
     \/ addrs' = [addrs EXCEPT ![s] = @ - 1]           \* in progress

(* The connection failed, and the next address is tried. *)
Reconnect ==
  /\ Ready("out") /\ os[Here] = "connecting"
  /\ Done("out")
  /\ AttemptGoesOn(Here)
  /\ Quiet /\ NoEnd
  /\ UNCHANGED <<requests, vectors, idx, lpc, push, calls, told>>

(* The connection failed and there is no other: the error callback. *)
ConnectFailed ==
  /\ Ready("out") /\ os[Here] = "connecting"
  /\ Done("out")
  /\ AttemptFails(Here)
  /\ pushing' = Here /\ UNCHANGED racy
  /\ last' = Callback("error", Here)
  /\ NoEnd
  /\ UNCHANGED <<requests, vectors, idx, lpc, calls, told>>

(* The push after the error callback, here and in the addition of sockets,    *)
(* without _system_lock: it has a beginning and an end.                       *)
PushBegin ==
  /\ pushing # None /\ ~racy
  /\ racy' = TRUE
  /\ Quiet /\ NoEnd
  /\ UNCHANGED <<os, addrs, requests, vectors, revents, idx, lpc, pushing, calls, told>>

PushEnd ==
  /\ racy /\ ~Broken
  /\ closed' = Append(closed, pushing)
  /\ pushing' = None /\ racy' = FALSE
  /\ End(pushing)
  /\ Quiet
  /\ UNCHANGED <<os, addrs, added, wake, vectors, revents, idx, lpc, calls, told>>

(* recv() or recvfrom() has data. *)
Receive ==
  /\ Ready("in") /\ "out" \notin revents[idx]
  /\ Here \notin Listeners /\ os[Here] = "open"
  /\ Done("in")
  /\ last' = Callback("packet", Here)
  /\ NoEnd
  /\ UNCHANGED <<os, addrs, requests, vectors, idx, lpc, push, calls, told>>

(* recv() or recvfrom() returns 0. *)
EndOfStream ==
  /\ Ready("in") /\ "out" \notin revents[idx]
  /\ Here \notin Listeners /\ os[Here] # "closed"
  /\ Done("in")
  /\ closed' = Append(closed, Here)
  /\ End(Here)
  /\ Quiet
  /\ UNCHANGED <<os, addrs, added, wake, vectors, idx, lpc, push, calls, told>>

(* accept().  The accept callbacks associate the socket they are given. *)
Accept ==
  /\ Ready("in") /\ Here \in Listeners
  /\ Done("in")
  /\ \/ \E a \in Accepted : /\ os[a] = "none"
                            /\ os' = [os EXCEPT ![a] = "open"]
                            /\ assoc' = assoc \cup {a}
                            /\ last' = Callback("accept", Here)
     \/ Quiet /\ UNCHANGED <<os, assoc>>
  /\ NoEnd
  /\ UNCHANGED <<addrs, requests, vectors, idx, lpc, push, started, told>>

(* recv(), recvfrom() or accept() fails: assert(false). *)
Abort ==
  /\ Ready("in") /\ "out" \notin revents[idx]
  /\ lpc' = "aborted"
  /\ Quiet /\ NoEnd
  /\ UNCHANGED <<os, addrs, requests, vectors, revents, idx, push, calls, told>>

NextSocket ==
  /\ lpc = "dispatch" /\ pushing = None
  /\ idx <= Len(objects) /\ revents[idx] = {}
  /\ idx' = idx + 1
  /\ Quiet /\ NoEnd
  /\ UNCHANGED <<os, addrs, requests, vectors, revents, lpc, push, calls, told>>

DispatchEnd ==
  /\ lpc = "dispatch" /\ pushing = None /\ idx > Len(objects)
  /\ lpc' = "closing"
  /\ revents' = <<>> /\ idx' = 1
  /\ Quiet /\ NoEnd
  /\ UNCHANGED <<os, addrs, requests, vectors, push, calls, told>>

-----------------------------------------------------------------------------
(* wait(): the requests *)

(* Mutant: the entry of the wrong socket is removed from the events. *)
RemoveAtShifted(i) ==
  LET n == Len(objects)
      Moved(s, k) == SubSeq([s EXCEPT ![k] = s[n]], 1, n - 1)
  IN objects' = Moved(objects, i) /\ events' = Moved(events, IF i > 1 THEN i - 1 ELSE i)

(* The last entry takes the place of entry i, in both vectors. *)
RemoveAt(i) ==
  LET n == Len(objects)
      Moved(s) == SubSeq([s EXCEPT ![i] = s[n]], 1, n - 1)
  IN objects' = Moved(objects) /\ events' = Moved(events)

(* Mutant: a socket is closed again for every request. *)
CloseOneUnchecked ==
  /\ lpc = "closing" /\ closed # <<>>
  /\ closed' = Tail(closed)
  /\ os' = [os EXCEPT ![Head(closed)] = "closed"]
  /\ last' = Callback("close", Head(closed))
  /\ finished' = finished \cup {Head(closed)}
  /\ IF Polled(Head(closed)) THEN \E i \in 1..Len(objects) : objects[i] = Head(closed) /\ RemoveAt(i)
                             ELSE UNCHANGED vectors
  /\ NoEnd
  /\ UNCHANGED <<addrs, added, wake, revents, idx, lpc, push, calls, opened>>

(* One request to close; nothing is done for a socket that is not polled. *)
CloseOne ==
  /\ lpc = "closing" /\ closed # <<>>
  /\ closed' = Tail(closed)
  /\ \/ \E i \in 1..Len(objects) :
          /\ objects[i] = Head(closed)
          /\ \A j \in 1..(i - 1) : objects[j] # Head(closed)
          /\ os' = [os EXCEPT ![Head(closed)] = "closed"]
          /\ last' = Callback("close", Head(closed))
          /\ finished' = finished \cup {Head(closed)}
          /\ RemoveAt(i)
     \/ ~Polled(Head(closed)) /\ Quiet /\ UNCHANGED <<os, finished, vectors>>
  /\ NoEnd
  /\ UNCHANGED <<addrs, added, wake, revents, idx, lpc, push, calls, opened>>

ClosingEnd ==
  /\ lpc = "closing" /\ closed = <<>>
  /\ lpc' = "adding"
  /\ Quiet /\ NoEnd
  /\ UNCHANGED <<os, addrs, requests, vectors, revents, idx, push, calls, told>>

(* One request to start. *)
MustConnect(s) == s \in Clients /\ os[s] = "none"

AddOne ==
  /\ lpc = "adding" /\ pushing = None /\ added # <<>>
  /\ LET s == Head(added)
     IN /\ IF MustConnect(s) THEN AttemptGoesOn(s) ELSE UNCHANGED <<os, addrs>>
        /\ objects' = Append(objects, s)
        /\ events' = Append(events, [fd |-> s, out |-> MustConnect(s)])
        /\ last' = Callback("start", s)
        /\ opened' = opened \cup {s}
  /\ added' = Tail(added)
  /\ NoEnd
  /\ UNCHANGED <<closed, wake, revents, idx, lpc, push, calls, finished>>

(* The first connection attempt fails: the error callback, and the socket is  *)
(* not added.                                                                 *)
AddFailed ==
  /\ lpc = "adding" /\ pushing = None /\ added # <<>>
  /\ MustConnect(Head(added)) /\ AttemptFails(Head(added))
  /\ pushing' = Head(added) /\ UNCHANGED racy
  /\ last' = Callback("error", Head(added))
  /\ added' = Tail(added)
  /\ NoEnd
  /\ UNCHANGED <<closed, wake, vectors, revents, idx, lpc, calls, told>>

AddingEnd ==
  /\ lpc = "adding" /\ pushing = None /\ added = <<>>
  /\ lpc' = IF closed = <<>> THEN "poll" ELSE "closing"
  /\ Quiet /\ NoEnd
  /\ UNCHANGED <<os, addrs, requests, vectors, revents, idx, push, calls, told>>

-----------------------------------------------------------------------------
(* A resolved client has a list of addresses, an unresolved one has none;     *)
(* listeners and datagram sockets are bound.                                  *)
SocketInit ==
  /\ os = [s \in Socks |-> IF s \in Streams THEN "none" ELSE "open"]
  /\ addrs \in [Clients -> 0..MaxAddrs]
  /\ assoc = Socks \ Accepted
  /\ added = <<>> /\ closed = <<>> /\ wake = FALSE
  /\ objects = <<>> /\ events = <<>> /\ revents = <<>>
  /\ idx = 1 /\ lpc = "poll" /\ pushing = None /\ racy = FALSE
  /\ started = {} /\ last = None /\ opened = {} /\ finished = {}
  /\ ended = {} /\ due = {}

Dispatch == \/ Connected \/ Reconnect \/ ConnectFailed
            \/ Receive \/ EndOfStream \/ Accept \/ Abort
            \/ NextSocket \/ DispatchEnd

Requests == PushBegin \/ PushEnd \/ CloseOne \/ ClosingEnd \/ AddOne \/ AddFailed \/ AddingEnd

SocketNext ==
  \/ \E s \in Socks : Start(s) \/ Close(s)
  \/ Poll \/ Dispatch \/ Requests

SocketSpec == SocketInit /\ [][SocketNext]_socketVars

(* The loop thread keeps running, and the poll returns once the event fd is   *)
(* set.                                                                       *)
FairSpec == /\ SocketSpec
            /\ WF_socketVars(Dispatch \/ Requests)
            /\ WF_socketVars(wake /\ Poll)

-----------------------------------------------------------------------------
(* Properties *)

SocketTypeOK ==
  /\ os \in [Socks -> {"none", "connecting", "open", "closed"}]
  /\ addrs \in [Clients -> 0..MaxAddrs]
  /\ assoc \subseteq Socks /\ started \subseteq Socks /\ opened \subseteq Socks
  /\ finished \subseteq Socks /\ due \subseteq ended /\ ended \subseteq Socks
  /\ added \in Seq(Socks) /\ closed \in Seq(Socks) /\ objects \in Seq(Socks)
  /\ events \in Seq([fd : Socks, out : BOOLEAN])
  /\ wake \in BOOLEAN /\ racy \in BOOLEAN /\ idx \in 1..(Len(objects) + 1)
  /\ lpc \in {"poll", "dispatch", "closing", "adding", "aborted", "corrupt"}
  /\ pushing \in Socks \cup {None}

(* "assert(_socket_events.size() == (1 + _socket_objects.size()))", and more: *)
(* whatever was opened, failed and closed before, each entry of the poll is   *)
(* the one of the socket at its index, no socket is there twice, and none     *)
(* whose OS socket is closed, whose number may mean something else by now     *)
(* (network_linux.cpp wait()).                                                *)
PollSetMatches ==
  lpc = "poll" =>
    /\ Len(events) = Len(objects)
    /\ \A i \in 1..Len(objects) :
         /\ events[i].fd = objects[i]
         /\ os[objects[i]] \in {"connecting", "open"}
         /\ os[objects[i]] = "connecting" => events[i].out
         /\ \A j \in 1..Len(objects) : objects[i] = objects[j] => i = j

(* The loop thread does not poll with a request it has not executed, unless   *)
(* the event fd is set (network_linux.cpp start_socket(), close_socket(),     *)
(* wait()).                                                                   *)
NoRequestForgotten == lpc = "poll" /\ (added # <<>> \/ closed # <<>>) => wake

(* The start callback of a socket is its first, but for the error of a first  *)
(* connection attempt, and the close callback, if it comes, is the last, and  *)
(* comes once, however often local, remote and errors close it                *)
(* (network_linux.cpp wait()).                                                *)
CallbackOrder ==
  [][last' # None =>
       /\ last'.sock \notin finished
       /\ last'.kind \notin {"start", "error"} => last'.sock \in opened
       /\ last'.kind = "start" => last'.sock \notin opened]_socketVars

(* "Called from any socket, when closed by remote or local": a socket that    *)
(* was started and has ended gets its close callback (network.h               *)
(* CloseCallback).                                                            *)
EveryCloseHeard == \A s \in Socks : (s \in ended) ~> (s \in finished \/ Broken)

(* The same for a socket that had been added when it was closed.              *)
CloseHeard == \A s \in Socks : (s \in due) ~> (s \in finished \/ Broken)
=============================================================================
