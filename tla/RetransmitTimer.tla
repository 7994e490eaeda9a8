-------------------------- MODULE RetransmitTimer --------------------------
(***************************************************************************)
(* The retransmit timer of OPTUDP on a real EventEmitter: the composition  *)
(* of common/transport/opt_udp with common/utils/event.h.  OptUdp.tla says  *)
(* of the timer only whether it is armed; here reset_retransmit_timer()     *)
(* makes its calls of cancel_timer() and add_timer(), one step each, with   *)
(* _tx_lock held, against the loop thread that runs the timers.  Of the     *)
(* transmit queue only matters whether it is empty.                         *)
(***************************************************************************)
EXTENDS EventEmitter

VARIABLES
  txLock,   \* the thread that holds _tx_lock, or None
  waiting,  \* _transmit_queue is not empty
  hwnd,     \* _retransmit_timer
  rpc       \* per thread: where it is in reset_retransmit_timer()

udpVars == <<txLock, waiting, hwnd, rpc>>
allVars == <<vars, udpVars>>

At(u, p) == rpc' = [rpc EXCEPT ![u] = p]

-----------------------------------------------------------------------------
(* The callers of reset_retransmit_timer(). *)

(* send() by an application thread. *)
Send(u) ==
  /\ u \in Users /\ rpc[u] = "out" /\ lpc # "off" /\ ~starting
  /\ txLock = None
  /\ waiting' = TRUE
  /\ At(u, "reset")
  /\ UNCHANGED <<vars, txLock, hwnd>>

(* on_receive() of an ACK, in a socket callback of the loop thread. *)
OnAck ==
  /\ lpc = "dispatch" /\ rpc[Loop] = "out"
  /\ txLock = None
  /\ waiting' \in {FALSE, waiting}
  /\ At(Loop, "reset")
  /\ UNCHANGED <<vars, txLock, hwnd>>

(* on_retransmit_timer() is the callback of every timer here; the frames it   *)
(* transmits again stay in the queue.                                         *)
FireRetransmit == Fire /\ At(Loop, "fired") /\ UNCHANGED <<txLock, waiting, hwnd>>

OnRetransmitTimer ==
  /\ rpc[Loop] = "fired"
  /\ txLock = None
  /\ At(Loop, "reset")
  /\ UNCHANGED <<vars, txLock, waiting, hwnd>>

-----------------------------------------------------------------------------
(* reset_retransmit_timer() *)

(* Mutant: the lock is not taken. *)
ResetLockUnlocked(u) ==
  /\ rpc[u] = "reset"
  /\ At(u, "cancel")
  /\ UNCHANGED <<vars, txLock, waiting, hwnd>>

ResetLock(u) ==
  /\ rpc[u] = "reset"
  /\ txLock = None
  /\ txLock' = u
  /\ At(u, "cancel")
  /\ UNCHANGED <<vars, waiting, hwnd>>

ResetCancel(u) ==
  /\ rpc[u] = "cancel"
  /\ \/ hwnd # None /\ CancelLock(u, hwnd) /\ At(u, "cancelling")
     \/ (hwnd = None \/ ~Alive(hwnd)) /\ At(u, "add") /\ UNCHANGED vars
  /\ UNCHANGED <<txLock, waiting, hwnd>>

ResetCancelCommit(u) == CancelCommit(u) /\ UNCHANGED udpVars

(* Mutant: the function returns after it has cancelled the timer. *)
ResetCancelOnly(u) ==
  CancelReturn(u) /\ At(u, "out") /\ txLock' = None /\ UNCHANGED <<waiting, hwnd>>

ResetCancelReturn(u) == CancelReturn(u) /\ At(u, "add") /\ UNCHANGED <<txLock, waiting, hwnd>>

ResetAdd(u) ==
  /\ rpc[u] = "add"
  /\ waiting
  /\ AddTimer(u)
  /\ At(u, "adding")
  /\ UNCHANGED <<txLock, waiting, hwnd>>

(* add_timer() returns the handle; the lock is released. *)
ResetAdded(u) ==
  /\ Interrupt(u)
  /\ hwnd' = hold[u]
  /\ txLock' = None
  /\ At(u, "out")
  /\ UNCHANGED waiting

(* Nothing to retransmit: no timer is added. *)
ResetIdle(u) ==
  /\ rpc[u] = "add"
  /\ ~waiting
  /\ txLock' = None
  /\ At(u, "out")
  /\ UNCHANGED <<vars, waiting, hwnd>>

ResetStep(u) == \/ ResetLock(u) \/ ResetCancel(u) \/ ResetCancelCommit(u)
                \/ ResetCancelReturn(u) \/ ResetAdd(u) \/ ResetAdded(u) \/ ResetIdle(u)

-----------------------------------------------------------------------------
(* The rest of the loop thread *)

LoopReturns == rpc[Loop] = "out" /\ (FireReturn \/ DispatchEnd) /\ UNCHANGED udpVars

LoopQuiet == (Bind \/ Check \/ Update \/ Skip \/ ScanEnd \/ WaitReturn) /\ UNCHANGED udpVars

Environment == (StartAsync \/ StartReturn \/ \E t \in Timers : Expire(t)) /\ UNCHANGED udpVars

UdpInit == /\ Init
           /\ txLock = None /\ waiting = FALSE /\ hwnd = None
           /\ rpc = [u \in Threads |-> "out"]

UdpNext == /\ dangling = {}
           /\ \/ \E u \in Threads : Send(u) \/ ResetStep(u)
              \/ OnAck \/ FireRetransmit \/ OnRetransmitTimer
              \/ LoopReturns \/ LoopQuiet \/ Environment

UdpSpec == UdpInit /\ [][UdpNext]_allVars

-----------------------------------------------------------------------------
(* Properties *)

(* The timer whose callback is running. *)
Firing == IF lpc = "callback" THEN {list[cursor]} ELSE {}

(* Whatever threads reset it, OPTUDP has at most one retransmit timer that    *)
(* can still fire: every other one in the emitter has been cancelled or is    *)
(* the one that is firing (opt_udp.cpp reset_retransmit_timer(), event.h).    *)
OneRetransmitTimer ==
  \A s, t \in Pending \ (asked \cup Firing) : s = t

(* While frames wait for their ACK and no thread is inside a function that    *)
(* resets the timer, the emitter has a retransmit timer that will fire        *)
(* (opt_udp.cpp send(), on_receive(), on_retransmit_timer()).                 *)
RetransmitTimerArmed ==
  waiting /\ (\A u \in Threads : rpc[u] = "out") =>
    \E t \in Pending : t = hwnd /\ t \notin asked /\ t \notin Firing
=============================================================================
