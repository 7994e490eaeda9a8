-------------------------------- MODULE Punch --------------------------------
(***************************************************************************)
(* Hole punching (common/punch): two clients of the C2 server exchange      *)
(* magic values over a session on a pipe through it (Puncher), then search, *)
(* each on a thread of its own, for a pair of UDP sockets whose NAT         *)
(* mappings lead to each other (HolepunchSym).  End "A" called punch(), end *)
(* "B" got the pipe.                                                        *)
(*                                                                         *)
(* The session delivers in order until it closes; datagrams are lost,       *)
(* delayed and reordered, and others arrive that do not belong to the       *)
(* attempt.  A socket aims at one port and has one port outside, so that    *)
(* the sockets that reach each other are paired one to one.                 *)
(***************************************************************************)
EXTENDS Naturals, Sequences, FiniteSets

CONSTANTS NumPorts,  \* sockets a search may open
          Pairings,  \* which sockets of A and B may reach each other
          MaxBad,    \* bound: packets on the session that do not follow the exchange
          None

Ends == {"A", "B"}
Peer(e) == IF e = "A" THEN "B" ELSE "A"
Socks == 1..NumPorts
OneToOne(r) == \A p, q \in r : (p[1] = q[1] \/ p[2] = q[2]) => p = q

ASSUME PunchConstants == /\ NumPorts \in Nat /\ MaxBad \in Nat
                         /\ \A r \in Pairings : r \subseteq Socks \X Socks /\ OneToOne(r)

Stranger == 0   \* the sender of what is not part of the attempt

VARIABLES
  pipe,       \* the pipe: "none", "requested", "answered", "open", "missed"
  installed,  \* the callbacks of the session of A are set
  registered, \* ends whose Puncher is in _open_punchers
  state,      \* per end: _state of the Puncher
  chan,       \* per end: packets of the session on their way to it
  ib,         \* per end: _magic_ib, the end whose magic it is, or None
  thread,     \* per end: the thread of HolepunchSym
  opened,     \* per end: sockets opened
  found,      \* per end: found_socket with its remote, or None
  tunnel,     \* per end: the sockets of the session given to C2Client, or None
  flight,     \* datagrams
  (* the environment *)
  pairing,    \* the pairs of sockets of A and B that reach each other
  bad,        \* packets so far that do not follow the exchange
  extra,      \* per end: the descriptions and starts among those sent to it
  lost        \* the magic that was sent again is lost

session == <<pipe, installed, registered>>
search == <<thread, opened, found, tunnel, flight>>
outside == <<pairing, bad, extra, lost>>
vars == <<pipe, installed, registered, state, chan, ib, thread, opened, found, tunnel, flight, pairing, bad, extra, lost>>

(* The socket of the peer that socket i of e reaches. *)
Partner(e, i) == {j \in Socks : (IF e = "A" THEN <<i, j>> ELSE <<j, i>>) \in pairing}

Datagram(to, sock, from, magic, again) ==
  [to |-> to, sock |-> sock, from |-> from, magic |-> magic, again |-> again]

-----------------------------------------------------------------------------
(* C2Client: the pipe and the session over it *)

(* punch() on the thread of the program: the request for the pipe goes out *)
OpenPipe ==
  /\ pipe = "none"
  /\ pipe' = "requested"
  /\ UNCHANGED <<installed, registered, state, chan, ib, search, outside>>

(* and then the Puncher and its session are created and started. *)
PuncherStart ==
  /\ pipe # "none" /\ ~installed
  /\ installed' = TRUE
  /\ registered' = registered \cup {"A"}
  /\ UNCHANGED <<pipe, state, chan, ib, search, outside>>

(* on_pipe(): the user is authorised; its session accepts the pipe. *)
OnPipe ==
  /\ pipe = "requested"
  /\ pipe' = "answered"
  /\ registered' = registered \cup {"B"}
  /\ UNCHANGED <<installed, state, chan, ib, search, outside>>

(* The pipe opens; if no callback is set yet nobody hears of it. *)
OnPipeOpen ==
  /\ pipe = "answered"
  /\ pipe' = IF installed THEN "open" ELSE "missed"
  /\ UNCHANGED <<installed, registered, state, chan, ib, search, outside>>

(* The session of e closes: on_close(). *)
Closes(e) ==
  /\ registered' = registered \ {e}
  /\ chan' = [chan EXCEPT ![e] = <<>>, ![Peer(e)] = 
      IF Peer(e) \in registered \/ pipe = "requested" THEN Append(@, <<"CLOSE">>) ELSE @]

SessionClose(e) ==
  /\ e \in registered
  /\ Closes(e)
  /\ UNCHANGED <<pipe, installed, state, ib, search, outside>>

-----------------------------------------------------------------------------
(* Puncher *)

(* on_open() of the client: its description, with its magic. *)
OnOpen ==
  /\ pipe = "open" /\ "A" \in registered /\ state["A"] = "S0_New"
  /\ chan' = [chan EXCEPT !["B"] = Append(@, <<"DESCRIBE", "A">>)]
  /\ state' = [state EXCEPT !["A"] = "S1_CHello"]
  /\ UNCHANGED <<session, ib, search, outside>>

Gets(e, s) == e \in registered /\ chan[e] # <<>> /\ state[e] = s

Taken(e) == [chan EXCEPT ![e] = Tail(@)]

(* async_launch().  To replace a thread object that has its thread ends the   *)
(* process; a search that is done detaches itself, and is started again (what *)
(* a second search does is not followed).                                     *)
Launch(e) ==
  \E t \in IF thread[e] = "none" THEN {"search"}
            ELSE IF thread[e] = "done" THEN {"again", "terminated"} ELSE {"terminated"} :
    thread' = [thread EXCEPT ![e] = t]

Fail(e) == state' = [state EXCEPT ![e] = "SF_Error"] /\ Closes(e)

(* Mutant: the client stays in the state in which it expects a description. *)
ClientOnDescribeStays ==
  LET p == Head(chan["A"])
  IN /\ Gets("A", "S1_CHello") /\ p[1] = "DESCRIBE"
     /\ ib' = [ib EXCEPT !["A"] = p[2]]
     /\ chan' = [Taken("A") EXCEPT !["B"] = Append(@, <<"START">>)]
     /\ Launch("A")
     /\ UNCHANGED <<session, state, opened, found, tunnel, flight, outside>>

(* The client gets the description of the server: it tells it to start, and  *)
(* starts.                                                                   *)
ClientOnDescribe ==
  LET p == Head(chan["A"])
  IN /\ Gets("A", "S1_CHello") /\ p[1] # "CLOSE"
     /\ IF p[1] = "DESCRIBE"
          THEN /\ ib' = [ib EXCEPT !["A"] = p[2]]
               /\ chan' = [Taken("A") EXCEPT !["B"] = Append(@, <<"START">>)]
               /\ Launch("A")
               /\ state' = [state EXCEPT !["A"] = "S3_CStart"]
               /\ UNCHANGED registered
          ELSE Fail("A") /\ UNCHANGED <<ib, thread>>
     /\ UNCHANGED <<pipe, installed, opened, found, tunnel, flight, outside>>

(* Mutant: the server does not answer. *)
ServerOnDescribeSilent ==
  LET p == Head(chan["B"])
  IN /\ Gets("B", "S0_New") /\ p[1] = "DESCRIBE"
     /\ ib' = [ib EXCEPT !["B"] = p[2]]
     /\ chan' = Taken("B")
     /\ state' = [state EXCEPT !["B"] = "S1_CHello"]
     /\ UNCHANGED <<session, search, outside>>

(* The server gets the description of the client, and answers. *)
ServerOnDescribe ==
  LET p == Head(chan["B"])
  IN /\ Gets("B", "S0_New") /\ p[1] # "CLOSE"
     /\ IF p[1] = "DESCRIBE"
          THEN /\ ib' = [ib EXCEPT !["B"] = p[2]]
               /\ chan' = [Taken("B") EXCEPT !["A"] = Append(@, <<"DESCRIBE", "B">>)]
               /\ state' = [state EXCEPT !["B"] = "S2_SHello"]
               /\ UNCHANGED registered
          ELSE Fail("B") /\ UNCHANGED ib
     /\ UNCHANGED <<pipe, installed, search, outside>>

(* The server is told to start; its state stays, so that it may be again. *)
ServerOnStart ==
  LET p == Head(chan["B"])
  IN /\ Gets("B", "S2_SHello") /\ p[1] # "CLOSE"
     /\ IF p[1] = "START"
          THEN /\ Launch("B")
               /\ IF thread'["B"] = "terminated" THEN Closes("B") ELSE chan' = Taken("B") /\ UNCHANGED registered
               /\ UNCHANGED state
          ELSE Fail("B") /\ UNCHANGED thread
     /\ UNCHANGED <<pipe, installed, ib, opened, found, tunnel, flight, outside>>

(* In the other states a packet is ignored, unless it is empty. *)
OnIgnored(e) ==
  /\ e \in registered /\ chan[e] # <<>> /\ Head(chan[e])[1] # "CLOSE"
  /\ IF e = "A" THEN state[e] # "S1_CHello" ELSE state[e] \notin {"S0_New", "S2_SHello"}
  /\ IF Head(chan[e])[1] = "EMPTY" THEN Closes(e) ELSE chan' = Taken(e) /\ UNCHANGED registered
  /\ UNCHANGED <<pipe, installed, state, ib, search, outside>>

OnClosePacket(e) ==
  /\ e \in registered /\ chan[e] # <<>> /\ Head(chan[e])[1] = "CLOSE"
  /\ registered' = registered \ {e}
  /\ chan' = [chan EXCEPT ![e] = <<>>]
  /\ UNCHANGED <<pipe, installed, state, ib, search, outside>>

(* What does not follow the exchange: another type or length ("BAD", as a     *)
(* start is to A), nothing, or a description or start twice or not yet due.   *)
OutOfTurn(e) == {<<"BAD">>, <<"EMPTY">>, <<"DESCRIBE", Peer(e)>>} \cup IF e = "B" THEN {<<"START">>} ELSE {}

(* A peer of another version sends it.  Bound: once one end searches, only a  *)
(* start; the others do no more then than SessionClose.                       *)
Malformed(e) ==
  /\ pipe = "open" /\ e \in registered /\ bad < MaxBad
  /\ bad' = bad + 1
  /\ \E p \in OutOfTurn(e) :
       /\ (\A x \in Ends : thread[x] = "none") \/ p = <<"START">>
       /\ chan' = [chan EXCEPT ![e] = Append(@, p)]
       /\ extra' = [extra EXCEPT ![e] = @ \cup ({p[1]} \cap {"DESCRIBE", "START"})]
  /\ UNCHANGED <<session, state, ib, search, pairing, lost>>

-----------------------------------------------------------------------------
(* HolepunchSym: sync_launch() *)

(* A new socket, whose magic opens the mapping of its NAT and reaches the     *)
(* partner if there is one.                                                   *)
Spawn(e) ==
  LET i == opened[e] + 1
  IN /\ thread[e] = "search" /\ found[e] = None /\ i \in Socks
     /\ opened' = [opened EXCEPT ![e] = i]
     /\ flight' = flight \cup {Datagram(Peer(e), j, i, e, FALSE) : j \in Partner(e, i)}
     /\ UNCHANGED <<session, state, chan, ib, thread, found, tunnel, outside>>

(* Mutant: any datagram will do. *)
IsMagicAny(e, d) == TRUE

(* data == _magic_ib *)
IsMagic(e, d) == d.magic = ib[e]

(* Mutant: the magic is not sent again. *)
AgainNever(e, d) == {}

(* The magic once more: the peer's socket may have been opened after ours. *)
Again(e, d) == {Datagram(Peer(e), d.from, d.sock, e, TRUE)}

(* A datagram in one wait(); a later one of the same wait() takes its place. *)
OnDatagram(e) ==
  /\ thread[e] = "search"
  /\ \E d \in flight :
       /\ d.to = e /\ d.sock <= opened[e]
       /\ IF IsMagic(e, d)
            THEN /\ found' = [found EXCEPT ![e] = [own |-> d.sock, remote |-> d.from]]
                 /\ flight' = (flight \ {d}) \cup Again(e, d)
            ELSE flight' = flight \ {d} /\ UNCHANGED found
  /\ UNCHANGED <<session, state, chan, ib, thread, opened, tunnel, outside>>

(* on_punch(): a session over the socket, and from it a Router; the Puncher   *)
(* may be gone, and the socket with it.                                       *)
Done(e) ==
  /\ thread[e] = "search" /\ found[e] # None
  /\ thread' = [thread EXCEPT ![e] = "done"]
  /\ tunnel' = [tunnel EXCEPT ![e] = IF e \in registered THEN found[e] ELSE None]
  /\ UNCHANGED <<session, state, chan, ib, opened, found, flight, outside>>

(* Timeout, or no socket: the null found_socket is used, the process ends. *)
GiveUp(e) ==
  /\ thread[e] = "search" /\ found[e] = None
  /\ thread' = [thread EXCEPT ![e] = "crashed"]
  /\ IF e \in registered THEN Closes(e) ELSE UNCHANGED <<registered, chan>>
  /\ UNCHANGED <<pipe, installed, state, ib, opened, found, tunnel, flight, outside>>

(* Datagrams are lost; others are not part of the attempt. *)
Lose ==
  /\ \E d \in flight : flight' = flight \ {d} /\ lost' = (lost \/ d.again)
  /\ UNCHANGED <<session, state, chan, ib, thread, opened, found, tunnel, pairing, bad, extra>>

Stray(e, i) ==
  /\ thread[e] = "search" /\ flight = {}
  /\ flight' = {Datagram(e, i, Stranger, "other", FALSE)}
  /\ UNCHANGED <<session, state, chan, ib, thread, opened, found, tunnel, outside>>

-----------------------------------------------------------------------------
Init ==
  /\ pipe = "none" /\ installed = FALSE /\ registered = {}
  /\ state = [e \in Ends |-> "S0_New"]
  /\ chan = [e \in Ends |-> <<>>]
  /\ ib = [e \in Ends |-> None]
  /\ thread = [e \in Ends |-> "none"]
  /\ opened = [e \in Ends |-> 0]
  /\ found = [e \in Ends |-> None] /\ tunnel = [e \in Ends |-> None]
  /\ flight = {}
  /\ pairing \in Pairings
  /\ bad = 0 /\ extra = [e \in Ends |-> {}] /\ lost = FALSE

Handshake == \/ PuncherStart \/ OnPipe \/ OnPipeOpen \/ OnOpen
             \/ ClientOnDescribe \/ ServerOnDescribe \/ ServerOnStart

Next == \/ OpenPipe \/ Handshake \/ Lose
        \/ \E e \in Ends : \/ SessionClose(e) \/ OnIgnored(e) \/ OnClosePacket(e) \/ Malformed(e)
                           \/ Spawn(e) \/ OnDatagram(e) \/ Done(e) \/ GiveUp(e)
                           \/ \E i \in Socks : Stray(e, i)

Spec == Init /\ [][Next]_vars

(* The threads run on; no fairness for timeouts, losses and failures.  A      *)
(* datagram that is in flight and is not lost arrives.                        *)
Fairness == /\ WF_vars(Handshake)
            /\ \A e \in Ends : WF_vars(OnIgnored(e)) /\ WF_vars(OnDatagram(e)) /\ WF_vars(Done(e))

FairSpec == Spec /\ Fairness

-----------------------------------------------------------------------------
(* Properties *)

(* Types; a Puncher that searches has a magic to look for. *)
SocketPair == [own : Socks, remote : Socks \cup {Stranger}]

TypeOK ==
  /\ pipe \in {"none", "requested", "answered", "open", "missed"} /\ installed \in BOOLEAN
  /\ registered \subseteq Ends
  /\ state \in [Ends -> {"S0_New", "S1_CHello", "S2_SHello", "S3_CStart", "SF_Error"}]
  /\ ib \in [Ends -> Ends \cup {None}]
  /\ thread \in [Ends -> {"none", "search", "done", "again", "crashed", "terminated"}]
  /\ opened \in [Ends -> 0..NumPorts]
  /\ \A e \in Ends : found[e] \in SocketPair \cup {None} /\ tunnel[e] \in {None, found[e]}
  /\ flight \subseteq [to : Ends, sock : Socks \cup {Stranger}, from : Socks \cup {Stranger},
                       magic : Ends \cup {"other"}, again : BOOLEAN]
  /\ bad \in 0..MaxBad /\ extra \in [Ends -> SUBSET {"DESCRIBE", "START"}] /\ lost \in BOOLEAN

(* The packet on which e starts to search. *)
Cue(e) == IF e = "A" THEN "DESCRIBE" ELSE "START"

(* An end sends its magic to the world only when the other end knows it and   *)
(* so can recognise it: the three packets of the handshake are enough, on     *)
(* whatever of them one of the ends gives up, unless the other sent the last  *)
(* of them out of its turn.  An end searches once, and keeps its process,     *)
(* whatever packets come twice, but for the server that is told to start a    *)
(* second time (punch.cpp on_packet(), sym_sym.cpp async_launch()).           *)
MagicsCrossed ==
  \A e \in Ends :
    /\ thread[e] # "none" => ib[Peer(e)] = e \/ Cue(e) \in extra[e]
    /\ thread[e] \in {"again", "terminated"} => e = "B" /\ "START" \in extra[e]

(* A tunnel is laid to a socket of the other end that reaches this one, never *)
(* to the sender of a datagram of something else (sym_sym.cpp on_packet).     *)
PunchedToPeer ==
  \A e \in Ends : found[e] # None => found[e].remote \in Partner(e, found[e].own)

(* When one end has found a pair, the other finds one too, even if its socket *)
(* was opened after the magic had passed: unless its process has ended, or    *)
(* the magic that is sent again is lost (sym_sym.cpp on_packet).              *)
BothFind ==
  \A e \in Ends : thread[e] = "done" ~> (thread[Peer(e)] \in {"done", "again", "crashed", "terminated"} \/ lost)

(* Once the pipe is open both searches start, unless the session closes       *)
(* (punch.cpp on_open(), on_packet()).                                        *)
BothSearch ==
  pipe = "open" ~> ((\A e \in Ends : thread[e] # "none") \/ registered # Ends)
=============================================================================
