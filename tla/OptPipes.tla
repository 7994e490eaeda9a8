------------------------------ MODULE OptPipes ------------------------------
(***************************************************************************)
(* Pipes multiplexed over one ordered transport (common/transport/          *)
(* opt_pipes): the two ends, their maps of pipes, the open and close        *)
(* handshakes, the open timeout and the lifetime of the pipe objects.       *)
(*                                                                         *)
(* Each end has its emitter thread, which runs the handlers, and an         *)
(* application thread, which calls the pipes it holds; what a callback      *)
(* calls is a call of the application while the emitter thread is idle.  A  *)
(* pipe object lives while somebody refers to it: the user, the timer of    *)
(* its open request, a handler that has locked it.  Handlers and calls that *)
(* read _open_state and then write it take two steps.                       *)
(***************************************************************************)
EXTENDS Integers, Sequences

CONSTANTS Ids,        \* the pipe ids in use, odd ones opened by the client
          MaxData,    \* bound: packets sent on a pipe by one end
          LinkMayFail \* the transport below may close

ASSUME PipesConstants == /\ Ids \subseteq Nat
                         /\ MaxData \in Nat
                         /\ LinkMayFail \in BOOLEAN

Ends == {"client", "server"}
Peer(e) == IF e = "client" THEN "server" ELSE "client"

(* (id % 2 == 1) == is_client *)
OwnParity(e, i) == (i % 2 = 1) <=> (e = "client")

VARIABLES
  next,     \* per end: _next_pipe_id
  pipes,    \* per end: the keys of _pipes
  state,    \* per end and id: _open_state
  refs,     \* per end and id: who holds a shared_ptr to the pipe
  chan,     \* per end: packets on their way to it, in order
  link,     \* per end: the transport below
  pc,       \* per end and thread: the call or handler it is in
  (* histories *)
  opens, closes, \* per end and id: callbacks issued
  dsent,    \* per end and id: packets sent
  crossed,  \* per end: ids that both threads were in a call or handler of at once
  lost      \* a packet sent on an opened pipe was dropped by a live pipe

vars == <<next, pipes, state, refs, chan, link, pc, opens, closes, dsent, crossed, lost>>

Idle == [at |-> "idle", id |-> 0, who |-> "none", left |-> {}]
In(at, i, who) == [at |-> at, id |-> i, who |-> who, left |-> {}]

Threads == {"emitter", "app"}

Other(th) == IF th = "app" THEN "emitter" ELSE "app"

(* The place is in a call or a handler of pipe i. *)
About(p, i) == p.at \notin {"idle", "linkclose"} /\ p.id = i

Busy(e, th) == pc[e][th].at # "idle"
BusyOn(e, th, i) == About(pc[e][th], i)

(* No call or handler of the pipe is under way. *)
Settled(e, i) == \A th \in Threads : ~BusyOn(e, th, i)

(* The place of a thread, and what the other one is in the middle of. *)
Goes(e, th, p) ==
  /\ pc' = [pc EXCEPT ![e][th] = p]
  /\ crossed' = [crossed EXCEPT ![e] = @ \cup
                   {i \in Ids : About(p, i) /\ BusyOn(e, Other(th), i)}]

(* What is sent when the transport below of either end has closed is lost. *)
Sends(e, m) == chan' = IF \A x \in Ends : link[x] = "up"
                         THEN [chan EXCEPT ![Peer(e)] = Append(@, m)] ELSE chan
Packet(type, i) == [type |-> type, id |-> i, opened |-> FALSE]

(* std::unique_lock on _pipe_lock: on_close() holds it shared all along. *)
PipeLockFree(e) == pc[e]["emitter"].at \notin {"linkclose", "selflock"}

-----------------------------------------------------------------------------
(* The life of a pipe object *)

NotifiesPeer == {"Opened", "OpenRequstSent"}

(* Mutant: the destructor only takes the pipe out of the map. *)
DropRefSilent(e, th, i, who) ==
  /\ refs' = [refs EXCEPT ![e][i] = @ \ {who}]
  /\ Goes(e, th, Idle)
  /\ pipes' = IF refs'[e][i] = {} THEN [pipes EXCEPT ![e] = @ \ {i}] ELSE pipes

(* Thread th lets go of a reference.  The last one runs ~OPTPipe(): drop()    *)
(* closes the pipe, or only takes it out of the map.                          *)
DropRef(e, th, i, who) ==
  /\ refs' = [refs EXCEPT ![e][i] = @ \ {who}]
  /\ LET last == refs'[e][i] = {}
         closing == last /\ state'[e][i] \in NotifiesPeer
     IN /\ Goes(e, th, IF closing THEN In("erase", i, "none") ELSE Idle)
        /\ last /\ ~closing => PipeLockFree(e)
        /\ pipes' = IF last /\ ~closing THEN [pipes EXCEPT ![e] = @ \ {i}] ELSE pipes

(* _next_pipe_id += 2 *)
NextId(i) == i + 2

(* openPipe() *)
OpenPipe(e) ==
  LET i == next[e]
  IN /\ ~Busy(e, "app") /\ PipeLockFree(e)
     /\ i \in Ids
     /\ next' = [next EXCEPT ![e] = NextId(i)]
     /\ pipes' = [pipes EXCEPT ![e] = @ \cup {i}]
     /\ state' = [state EXCEPT ![e][i] = "None"]
     /\ refs' = [refs EXCEPT ![e][i] = {"user"}]
     /\ UNCHANGED <<chan, link, pc, opens, closes, dsent, lost, crossed>>

(* The user lets go of its pipe. *)
Release(e, i) ==
  /\ ~Busy(e, "app")
  /\ "user" \in refs[e][i]
  /\ UNCHANGED state
  /\ DropRef(e, "app", i, "user")
  /\ UNCHANGED <<next, chan, link, opens, closes, dsent, lost>>

(* start() or start_client() of a pipe of one's own; its timer holds it. *)
StartClient(e, i) ==
  /\ ~Busy(e, "app")
  /\ "user" \in refs[e][i] /\ state[e][i] = "None"
  /\ state' = [state EXCEPT ![e][i] = "OpenRequstSent"]
  /\ Sends(e, Packet("OPEN_REQ", i))
  /\ refs' = [refs EXCEPT ![e][i] = @ \cup {"timer"}]
  /\ UNCHANGED <<next, pipes, link, pc, opens, closes, dsent, lost, crossed>>

(* start() of a pipe the peer asked for: the state is read ... *)
StartServer(e, i) ==
  /\ ~Busy(e, "app")
  /\ "user" \in refs[e][i] /\ state[e][i] = "OpenRequstRecv"
  /\ Goes(e, "app", In("accept", i, "none"))
  /\ UNCHANGED <<next, pipes, state, refs, chan, link, opens, closes, dsent, lost>>

(* Mutant: the pipe stays in its state. *)
AcceptUnopened(e) ==
  /\ pc[e]["app"].at = "accept"
  /\ Goes(e, "app", In("respond", pc[e]["app"].id, "none"))
  /\ UNCHANGED <<next, pipes, state, refs, chan, link, opens, closes, dsent, lost>>

(* ... and written ... *)
Accept(e) ==
  /\ pc[e]["app"].at = "accept"
  /\ state' = [state EXCEPT ![e][pc[e]["app"].id] = "Opened"]
  /\ Goes(e, "app", In("respond", pc[e]["app"].id, "none"))
  /\ UNCHANGED <<next, pipes, refs, chan, link, opens, closes, dsent, lost>>

(* ... and the response sent. *)
Respond(e) ==
  /\ pc[e]["app"].at = "respond"
  /\ Sends(e, Packet("OPEN_RESP", pc[e]["app"].id))
  /\ Goes(e, "app", Idle)
  /\ UNCHANGED <<next, pipes, state, refs, link, opens, closes, dsent, lost>>

(* send(), of either thread, whatever the state of the pipe. *)
Send(e, i) ==
  /\ \E th \in Threads : ~Busy(e, th)
  /\ "user" \in refs[e][i]
  /\ dsent[e][i] < MaxData
  /\ dsent' = [dsent EXCEPT ![e][i] = @ + 1]
  /\ Sends(e, [type |-> "DATA", id |-> i, opened |-> state[e][i] = "Opened" /\ Settled(e, i)])
  /\ UNCHANGED <<next, pipes, state, refs, link, pc, opens, closes, lost, crossed>>

-----------------------------------------------------------------------------
(* close() *)

CloseCall(e, i) ==
  /\ ~Busy(e, "app")
  /\ "user" \in refs[e][i]
  /\ Goes(e, "app", In("erase", i, "none"))
  /\ UNCHANGED <<next, pipes, state, refs, chan, link, opens, closes, dsent, lost>>

(* on_open_expired(), on the emitter thread; afterwards the timer is gone. *)
OpenExpired(e, i) ==
  /\ ~Busy(e, "emitter")
  /\ "timer" \in refs[e][i]
  /\ IF state[e][i] = "OpenRequstSent"
       THEN Goes(e, "emitter", In("erase", i, "timer")) /\ UNCHANGED <<refs, pipes, state>>
       ELSE UNCHANGED state /\ DropRef(e, "emitter", i, "timer")
  /\ UNCHANGED <<next, chan, link, opens, closes, dsent, lost>>

(* Mutant: the pipe stays in the map. *)
EraseNothing(e, i) == UNCHANGED pipes

(* erase() *)
Erase(e, i) == pipes' = [pipes EXCEPT ![e] = @ \ {i}]

CloseErase(e, th) ==
  /\ pc[e][th].at = "erase" /\ PipeLockFree(e)
  /\ Erase(e, pc[e][th].id)
  /\ Goes(e, th, In("check", pc[e][th].id, pc[e][th].who))
  /\ UNCHANGED <<next, state, refs, chan, link, opens, closes, dsent, lost>>

(* close() returns; the callback of the timer lets go of the pipe. *)
CloseReturns(e, th) ==
  IF pc[e][th].who = "timer" THEN DropRef(e, th, pc[e][th].id, "timer")
                             ELSE Goes(e, th, Idle) /\ UNCHANGED <<refs, pipes>>

(* Mutant: close() does not look at the state. *)
MustCloseAlways(e, i) == TRUE

MustClose(e, i) == state[e][i] # "Closed"

CloseCheck(e, th) ==
  /\ pc[e][th].at = "check"
  /\ UNCHANGED state
  /\ IF MustClose(e, pc[e][th].id)
       THEN Goes(e, th, In("commit", pc[e][th].id, pc[e][th].who)) /\ UNCHANGED <<refs, pipes>>
       ELSE CloseReturns(e, th)
  /\ UNCHANGED <<next, chan, link, opens, closes, dsent, lost>>

CloseCommit(e, th) ==
  LET i == pc[e][th].id
  IN /\ pc[e][th].at = "commit"
     /\ state' = [state EXCEPT ![e][i] = "Closed"]
     /\ Sends(e, Packet("CLOSE", i))
     /\ closes' = [closes EXCEPT ![e][i] = @ + 1]
     /\ CloseReturns(e, th)
     /\ UNCHANGED <<next, link, opens, dsent, lost>>

-----------------------------------------------------------------------------
(* on_packet(): the emitter thread takes the next packet m *)

Takes(e, type) == /\ ~Busy(e, "emitter") /\ link[e] = "up"
                  /\ chan[e] # <<>> /\ Head(chan[e]).type = type
                  /\ chan' = [chan EXCEPT ![e] = Tail(@)]

Msg(e) == Head(chan[e])
Found(e, i) == i \in pipes[e] /\ refs[e][i] # {}

OnOpenReq(e) ==
  /\ Takes(e, "OPEN_REQ")
  /\ LET i == Msg(e).id
     IN IF ~OwnParity(e, i) /\ i \notin pipes[e]
          THEN /\ pipes' = [pipes EXCEPT ![e] = @ \cup {i}]
               /\ state' = [state EXCEPT ![e][i] = "OpenRequstRecv"]
               /\ refs' = [refs EXCEPT ![e][i] = {"user"}]
          ELSE UNCHANGED <<pipes, state, refs>>
  /\ UNCHANGED <<next, link, pc, opens, closes, dsent, lost, crossed>>

(* The state is read with the pipe locked ... *)
OnOpenResp(e) ==
  /\ Takes(e, "OPEN_RESP")
  /\ LET i == Msg(e).id
     IN IF OwnParity(e, i) /\ Found(e, i) /\ state[e][i] = "OpenRequstSent"
          THEN /\ refs' = [refs EXCEPT ![e][i] = @ \cup {"emitter"}]
               /\ Goes(e, "emitter", In("resp", i, "emitter"))
          ELSE UNCHANGED <<refs, pc, crossed>>
  /\ UNCHANGED <<next, pipes, state, link, opens, closes, dsent, lost>>

(* ... and written, and the open callback issued. *)
OpenDone(e) ==
  LET i == pc[e]["emitter"].id
  IN /\ pc[e]["emitter"].at = "resp"
     /\ state' = [state EXCEPT ![e][i] = "Opened"]
     /\ opens' = [opens EXCEPT ![e][i] = @ + 1]
     /\ DropRef(e, "emitter", i, "emitter")
     /\ UNCHANGED <<next, chan, link, closes, dsent, lost>>

OnClosePacket(e) ==
  /\ Takes(e, "CLOSE")
  /\ LET i == Msg(e).id
     IN IF i \in pipes[e]
          THEN /\ Erase(e, i)
               /\ IF refs[e][i] # {} /\ state[e][i] # "Closed"
                    THEN /\ refs' = [refs EXCEPT ![e][i] = @ \cup {"emitter"}]
                         /\ Goes(e, "emitter", In("closed", i, "emitter"))
                    ELSE UNCHANGED <<refs, pc, crossed>>
          ELSE UNCHANGED <<pipes, refs, pc, crossed>>
  /\ UNCHANGED <<next, state, link, opens, closes, dsent, lost>>

ClosedByPeer(e) ==
  LET i == pc[e]["emitter"].id
  IN /\ pc[e]["emitter"].at = "closed"
     /\ state' = [state EXCEPT ![e][i] = "Closed"]
     /\ closes' = [closes EXCEPT ![e][i] = @ + 1]
     /\ DropRef(e, "emitter", i, "emitter")
     /\ UNCHANGED <<next, chan, link, opens, dsent, lost>>

OnData(e) ==
  /\ Takes(e, "DATA")
  /\ LET i == Msg(e).id
     IN lost' = (lost \/ /\ Msg(e).opened
                         /\ Settled(e, i) /\ i \notin crossed[e]
                         /\ refs[e][i] # {} /\ state[e][i] # "Closed"
                         /\ ~(Found(e, i) /\ state[e][i] = "Opened"))
  /\ UNCHANGED <<next, pipes, state, refs, link, pc, opens, closes, dsent, crossed>>

-----------------------------------------------------------------------------
(* The transport below closes: nothing more arrives, and what it had not      *)
(* delivered to the other end is lost.  Then on_close() tells the pipes one   *)
(* after the other with _pipe_lock held; a callback that closes its pipe, or  *)
(* lets go of it, waits in erase() for the lock of its own thread.            *)

LinkCloses(e) ==
  /\ LinkMayFail
  /\ ~Busy(e, "emitter") /\ link[e] = "up"
  /\ link' = [link EXCEPT ![e] = "closing"]
  /\ Goes(e, "emitter", [at |-> "linkclose", id |-> 0, who |-> "none", left |-> pipes[e]])
  /\ \E k \in 0..Len(chan[Peer(e)]) :
       chan' = [x \in Ends |-> IF x = e THEN <<>> ELSE SubSeq(chan[x], 1, k)]
  /\ UNCHANGED <<next, pipes, state, refs, opens, closes, dsent, lost>>

(* it.second.lock() *)
Told(e, i) == refs[e][i] # {}

LinkCloseCallback(e) ==
  LET p == pc[e]["emitter"]
  IN /\ p.at = "linkclose"
     /\ \E i \in p.left :
          /\ \A j \in p.left : i <= j
          /\ IF Told(e, i)
               THEN /\ closes' = [closes EXCEPT ![e][i] = @ + 1]
                    /\ \/ Goes(e, "emitter", [p EXCEPT !.left = @ \ {i}])
                       \/ Goes(e, "emitter", In("selflock", i, "none"))
               ELSE /\ Goes(e, "emitter", [p EXCEPT !.left = @ \ {i}])
                    /\ UNCHANGED closes
     /\ UNCHANGED <<next, pipes, state, refs, chan, link, opens, dsent, lost>>

LinkCloseEnd(e) ==
  /\ pc[e]["emitter"].at = "linkclose" /\ pc[e]["emitter"].left = {}
  /\ link' = [link EXCEPT ![e] = "down"]
  /\ Goes(e, "emitter", Idle)
  /\ UNCHANGED <<next, pipes, state, refs, chan, opens, closes, dsent, lost>>

-----------------------------------------------------------------------------
Init ==
  /\ next = [e \in Ends |-> IF e = "client" THEN 1 ELSE 0]
  /\ pipes = [e \in Ends |-> {}]
  /\ state = [e \in Ends |-> [i \in Ids |-> "None"]]
  /\ refs = [e \in Ends |-> [i \in Ids |-> {}]]
  /\ chan = [e \in Ends |-> <<>>]
  /\ link = [e \in Ends |-> "up"]
  /\ pc = [e \in Ends |-> [th \in Threads |-> Idle]]
  /\ opens = [e \in Ends |-> [i \in Ids |-> 0]]
  /\ closes = [e \in Ends |-> [i \in Ids |-> 0]]
  /\ dsent = [e \in Ends |-> [i \in Ids |-> 0]]
  /\ crossed = [e \in Ends |-> {}]
  /\ lost = FALSE

AppBegins(e) == \/ OpenPipe(e)
                \/ \E i \in Ids : \/ Release(e, i) \/ StartClient(e, i) \/ StartServer(e, i)
                                  \/ Send(e, i) \/ CloseCall(e, i)

(* Steps of a call or a handler that has begun. *)
AppContinues(e) == Accept(e) \/ Respond(e)
EmitterContinues(e) == OpenDone(e) \/ ClosedByPeer(e) \/ LinkCloseCallback(e) \/ LinkCloseEnd(e)
CloseContinues(e, th) == CloseErase(e, th) \/ CloseCheck(e, th) \/ CloseCommit(e, th)

EmitterBegins(e) == \/ OnOpenReq(e) \/ OnOpenResp(e) \/ OnClosePacket(e) \/ OnData(e)

Next == \E e \in Ends : \/ AppBegins(e) \/ AppContinues(e)
                        \/ EmitterBegins(e) \/ EmitterContinues(e)
                        \/ \E th \in Threads : CloseContinues(e, th)
                        \/ \E i \in Ids : OpenExpired(e, i)
                        \/ LinkCloses(e)

Spec == Init /\ [][Next]_vars

(* Calls that have begun go on, the emitter threads keep running and the open *)
(* timer expires.  An end whose transport is gone is missed by the other one, *)
(* whose transport closes too (external: on_pong_timeout_timer() of OPTUDP,   *)
(* the end of the stream of TCP).                                             *)
Fairness ==
  \A e \in Ends : /\ WF_vars(AppContinues(e) \/ CloseContinues(e, "app"))
                  /\ WF_vars(EmitterContinues(e) \/ CloseContinues(e, "emitter"))
                  /\ WF_vars(EmitterBegins(e))
                  /\ WF_vars(link[Peer(e)] # "up" /\ LinkCloses(e))
                  /\ \A i \in Ids : WF_vars(OpenExpired(e, i))

FairSpec == Spec /\ Fairness

-----------------------------------------------------------------------------
(* Properties *)

(* Types; the two ends hand out ids of different parity. *)
States == {"None", "OpenRequstSent", "OpenRequstRecv", "Opened", "Closed"}

TypeOK ==
  /\ next \in [Ends -> Nat] /\ \A e \in Ends : OwnParity(e, next[e])
  /\ pipes \in [Ends -> SUBSET Ids]
  /\ state \in [Ends -> [Ids -> States]]
  /\ refs \in [Ends -> [Ids -> SUBSET {"user", "timer", "emitter"}]]
  /\ \A e \in Ends : \A k \in 1..Len(chan[e]) :
       chan[e][k] \in [type : {"OPEN_REQ", "OPEN_RESP", "CLOSE", "DATA"},
                       id : Ids, opened : BOOLEAN]
  /\ link \in [Ends -> {"up", "closing", "down"}]
  /\ \A e \in Ends : \A th \in Threads :
       /\ pc[e][th].at \in {"idle", "erase", "check", "commit", "accept", "respond",
                            "resp", "closed", "linkclose", "selflock"}
       /\ Busy(e, th) /\ pc[e][th].at # "linkclose" => pc[e][th].id \in Ids
  /\ opens \in [Ends -> [Ids -> Nat]] /\ closes \in [Ends -> [Ids -> Nat]]
  /\ crossed \in [Ends -> SUBSET Ids] /\ lost \in BOOLEAN

(* close() "Will issue a close callback unless one has already been issued":  *)
(* while the transport below is up the close callback of a pipe is issued at  *)
(* most once, whichever of the two ends closes, the two close at once or the  *)
(* open request expires, and whatever thread closes, as long as the two       *)
(* threads of the end were never in a call and a handler of the pipe at once  *)
(* (opt_pipes.cpp close(), on_packet()).                                      *)
ClosedOnce ==
  \A e \in Ends : \A i \in Ids \ crossed[e] : link[e] = "up" => closes[e][i] <= 1

(* _pipes holds the pipes that can still receive, and no other: a pipe that   *)
(* is under way or open can be reached by the packets of the peer, a closed   *)
(* or destroyed one cannot (opt_pipes.cpp erase(), on_packet(), openPipe()).  *)
RegistryExact ==
  \A e \in Ends : \A i \in Ids \ crossed[e] :
    Settled(e, i) => (i \in pipes[e] <=> refs[e][i] # {} /\ state[e][i] # "Closed")

(* What is sent on an opened pipe is dropped only by a pipe that was closed,  *)
(* is being closed, or that the two threads of its end were in at once: an    *)
(* end that sees its pipe open, outside a call, knows the other end open, in  *)
(* both directions of the handshake, whatever threads open, send and close    *)
(* (opt_pipes.cpp start(), on_packet()).                                      *)
OpenDataNotLost == ~lost

(* No half-open pipe: when one end is closed or destroyed the other end is    *)
(* closed, destroyed or told, in the end, even if the request was never       *)
(* answered, threads close at the same time, or a transport below closes and  *)
(* the packets are lost; unless the thread that tells it waits for itself     *)
(* (opt_pipes.cpp close(), drop(), on_open_expired(), on_close()).            *)
Gone(e, i) == refs[e][i] = {} \/ state[e][i] = "Closed"

BothEndsClose ==
  \A e \in Ends : \A i \in Ids :
    (state[e][i] # "None" /\ Gone(e, i)) ~>
      \/ Gone(Peer(e), i) \/ closes[Peer(e)][i] > 0
      \/ pc[Peer(e)]["emitter"].at = "selflock"

(* close() is "Safe to call from any thread, even during a callback": no      *)
(* thread waits for a lock it holds itself (opt_pipes.cpp on_close(),         *)
(* erase()).                                                                  *)
NoSelfDeadlock == \A e \in Ends : pc[e]["emitter"].at # "selflock"
=============================================================================
