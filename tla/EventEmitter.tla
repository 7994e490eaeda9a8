---------------------------- MODULE EventEmitter ----------------------------
(***************************************************************************)
(* The event loop and its timers (common/utils/event.h).  One loop thread   *)
(* runs EventEmitter::loop(); other threads, and the callbacks the loop     *)
(* thread runs, call add_timer(), cancel_timer() and stop().                *)
(*                                                                         *)
(* A timer object is a number.  It lives while a shared_ptr owns it: the    *)
(* list it is in, or a call that has locked it (hold).  Its handle, a       *)
(* weak_ptr, may be used by any caller for ever.  Each critical section of  *)
(* _timer_lock is one step.  The clock only decides when a timer is due.    *)
(* The wait of the provider (external: eventfd and poll) returns when the   *)
(* event fd is set, when the next timer is due, or when a socket has        *)
(* something, and runs the callbacks of sockets before it returns.          *)
(***************************************************************************)
EXTENDS Integers, Sequences

CONSTANTS Users,       \* threads other than the loop thread
          Cancellers,  \* the threads that call cancel_timer()
          Timers,      \* the timers that can be created
          MaxRequests, \* bound: requests waiting in _timer_deletions
          None

Loop == "loop"
Threads == Users \cup {Loop}

ASSUME EmitterConstants == /\ Loop \notin Users
                           /\ Cancellers \subseteq Threads
                           /\ MaxRequests \in Nat
                           /\ None \notin Timers \cup Threads

VARIABLES
  starting,   \* start_async() holds _system_lock, waiting for the loop thread
  running,    \* _running
  additions,  \* _timer_additions
  deletions,  \* _timer_deletions (weak pointers)
  list,       \* timers, local to the loop
  active,     \* timers with the active flag set
  wake,       \* the event fd is set
  lpc,        \* where the loop thread is
  cursor,     \* its position in list
  due,        \* timers whose expiry has passed
  upc, hold,  \* per thread: the call it is in, the timer it has locked
  dangling,   \* timers whose iterator was erased when they were in no list
  (* histories *)
  created, fired,
  asked,      \* timers for which cancel_timer() has done its work
  silenced,   \* those of them for which it was done before this pass began
  overlapped  \* timers that one cancel_timer() locked while another had, or that
              \* the loop thread was done with while a call had them locked

callVars == <<upc, hold>>
loopVars == <<lpc, cursor, list>>
histories == <<created, fired, asked, silenced, overlapped>>
vars == <<starting, running, additions, deletions, list, active, wake, lpc, cursor, due,
          upc, hold, dangling, created, fired, asked, silenced, overlapped>>

ElementsOf(s) == {s[i] : i \in 1..Len(s)}

(* list::erase() of the element at position i. *)
EraseAt(s, i) == SubSeq(s, 1, i - 1) \o SubSeq(s, i + 1, Len(s))

(* The timers that are in one of the lists. *)
Pending == ElementsOf(additions) \cup ElementsOf(list)

(* A call has locked t. *)
Locked(t) == \E u \in Threads : hold[u] = t

(* weak_ptr::lock() succeeds. *)
Alive(t) == t \in Pending \/ Locked(t)

(* A thread may call: the emitter has been started, and the loop thread calls *)
(* from a timer callback or a socket callback.                                *)
MayCall(u) == /\ upc[u] = "idle"
              /\ lpc # "off" /\ ~starting
              /\ u = Loop => lpc \in {"callback", "dispatch"}

-----------------------------------------------------------------------------
(* Calls *)

(* Mutant: the addition does not interrupt the wait, as a cancellation does not. *)
AddTimerQuiet(u) ==
  /\ MayCall(u)
  /\ \E t \in Timers \ created : created' = created \cup {t} /\ additions' = Append(additions, t)
  /\ UNCHANGED <<starting, running, deletions, list, active, wake, lpc, cursor, due, upc, hold,
                 dangling, fired, asked, silenced, overlapped>>

(* add_timer(), first half. *)
AddTimer(u) ==
  /\ MayCall(u)
  /\ \E t \in Timers \ created :
       /\ created' = created \cup {t}
       /\ additions' = Append(additions, t)
       /\ hold' = [hold EXCEPT ![u] = t]
  /\ upc' = [upc EXCEPT ![u] = "interrupt"]
  /\ UNCHANGED <<starting, running, deletions, list, active, wake, lpc, cursor, due, dangling,
                 fired, asked, silenced, overlapped>>

(* stop(), first half. *)
Stop(u) ==
  /\ MayCall(u)
  /\ running
  /\ running' = FALSE
  /\ upc' = [upc EXCEPT ![u] = "interrupt"]
  /\ UNCHANGED <<starting, additions, deletions, list, active, wake, lpc, cursor, due, hold,
                 dangling, created, fired, asked, silenced, overlapped>>

(* _delay->interrupt(), the second half of both; the call returns. *)
Interrupt(u) ==
  /\ upc[u] = "interrupt"
  /\ wake' = TRUE
  /\ upc' = [upc EXCEPT ![u] = "idle"]
  /\ hold' = [hold EXCEPT ![u] = None]
  /\ UNCHANGED <<starting, running, additions, deletions, list, active, lpc, cursor, due, dangling,
                 created, fired, asked, silenced, overlapped>>

(* A caller has the handle of t: its add_timer() has returned. *)
Returned(t) == t \in created /\ ~ \E u \in Threads : upc[u] = "interrupt" /\ hold[u] = t

(* cancel_timer(): hwnd.lock().  If it fails the call does nothing. *)
CancelLock(u, t) ==
  /\ MayCall(u)
  /\ Returned(t) /\ Alive(t)
  /\ Len(deletions) < MaxRequests
  /\ hold' = [hold EXCEPT ![u] = t]
  /\ upc' = [upc EXCEPT ![u] = "cancel"]
  /\ overlapped' = overlapped \cup {s \in {t} : Locked(s)}
  /\ UNCHANGED <<starting, running, additions, deletions, list, active, wake, lpc, cursor, due,
                 dangling, created, fired, asked, silenced>>

(* The body of cancel_timer(): a request to the loop thread once the timer    *)
(* has been given to it, an erasure from the additions before that.           *)
RequestOrErase(t) ==
  \/ /\ t \in active
     /\ deletions' = Append(deletions, t)
     /\ UNCHANGED <<additions, dangling>>
  \/ /\ t \notin active
     /\ \/ \E i \in 1..Len(additions) :
             additions[i] = t /\ additions' = EraseAt(additions, i) /\ UNCHANGED dangling
        \/ t \notin ElementsOf(additions) /\ dangling' = {t} /\ UNCHANGED additions
     /\ UNCHANGED deletions

CancelCommit(u) ==
  /\ upc[u] = "cancel"
  /\ RequestOrErase(hold[u])
  /\ asked' = asked \cup {hold[u]}
  /\ upc' = [upc EXCEPT ![u] = "release"]
  /\ UNCHANGED <<starting, running, list, active, wake, lpc, cursor, due, hold,
                 created, fired, silenced, overlapped>>

(* The return of cancel_timer(): shwnd is destroyed after the lock is free. *)
CancelReturn(u) ==
  /\ upc[u] = "release"
  /\ upc' = [upc EXCEPT ![u] = "idle"]
  /\ hold' = [hold EXCEPT ![u] = None]
  /\ UNCHANGED <<starting, running, additions, deletions, list, active, wake, lpc, cursor, due,
                 dangling, created, fired, asked, silenced, overlapped>>

-----------------------------------------------------------------------------
(* Starting *)

(* start_async(): the thread is created with _system_lock held. *)
StartAsync ==
  /\ lpc = "off"
  /\ running' = TRUE
  /\ starting' = TRUE
  /\ lpc' = "bind"
  /\ UNCHANGED <<additions, deletions, list, active, wake, cursor, due, upc, hold, dangling,
                 histories>>

(* The first lines of loop(): bind() and _waker.wake(). *)
Bind ==
  /\ lpc = "bind"
  /\ lpc' = "check"
  /\ UNCHANGED <<starting, running, additions, deletions, list, active, wake, cursor, due,
                 upc, hold, dangling, histories>>

(* _waker.wait() returns, and start_async() with it. *)
StartReturn ==
  /\ starting /\ lpc # "bind"
  /\ starting' = FALSE
  /\ UNCHANGED <<running, additions, deletions, list, active, wake, lpc, cursor, due,
                 upc, hold, dangling, histories>>

-----------------------------------------------------------------------------
(* One pass of loop() *)

(* Mutant: the pass is skipped instead of the loop left. *)
CheckContinues ==
  /\ lpc = "check" /\ ~starting
  /\ IF running THEN lpc' = "update" ELSE lpc' = "check"
  /\ UNCHANGED <<starting, running, additions, deletions, list, active, wake, cursor, due,
                 upc, hold, dangling, histories>>

(* The running flag, read under _system_lock. *)
Check ==
  /\ lpc = "check" /\ ~starting
  /\ IF running THEN lpc' = "update" /\ UNCHANGED list
                ELSE lpc' = "done" /\ list' = <<>>
  /\ UNCHANGED <<starting, running, additions, deletions, active, wake, cursor, due,
                 upc, hold, dangling, histories>>

(* Mutant: the deletions own their timers. *)
LockableOwning(now, t) == TRUE

(* it.lock() for a deletion, when the list of the loop owns the timers now. *)
Lockable(now, t) == t \in now \/ Locked(t)

(* Mutant: deletions are cleared before they are executed. *)
UpdateCleared ==
  LET all == list \o additions
  IN list' = all /\ UNCHANGED dangling

(* The deletions, in order: the iterator of each one whose timer is alive is  *)
(* erased, valid or not; the timers left (numbered by f) stay in their order. *)
(* The list that erased an element does not keep its timer alive for the next *)
(* deletion.                                                                  *)
ExecuteDeletions ==
  LET all == list \o additions
      kept == {i \in 1..Len(all) : all[i] \notin ElementsOf(deletions)}
  IN /\ \E m \in 0..Len(all) : \E f \in [1..m -> kept] :
          /\ \A j, k \in 1..m : j < k => f[j] < f[k]
          /\ \A i \in kept : \E k \in 1..m : f[k] = i
          /\ list' = [k \in 1..m |-> all[f[k]]]
     /\ dangling' = {deletions[i] : i \in {k \in 1..Len(deletions) :
                       LET now == Pending \ {deletions[j] : j \in 1..(k - 1)}
                       IN Lockable(now, deletions[k]) /\ deletions[k] \notin now}}

(* The timer updates, under _timer_lock. *)
Update ==
  /\ lpc = "update"
  /\ active' = active \cup ElementsOf(additions)
  /\ ExecuteDeletions
  /\ additions' = <<>>
  /\ deletions' = <<>>
  /\ silenced' = asked
  /\ overlapped' = overlapped \cup {t \in Pending \cap ElementsOf(deletions) : Locked(t)}
  /\ lpc' = "scan"
  /\ UNCHANGED <<starting, running, wake, cursor, due, upc, hold, created, fired, asked>>

(* A timer that is due: call_and_clear(). *)
Fire ==
  /\ lpc = "scan" /\ cursor <= Len(list)
  /\ list[cursor] \in due
  /\ lpc' = "callback"
  /\ fired' = fired \cup {list[cursor]}
  /\ UNCHANGED <<starting, running, additions, deletions, list, active, wake, cursor, due,
                 upc, hold, dangling, created, asked, silenced, overlapped>>

(* The callback returns and its timer is erased. *)
FireReturn ==
  /\ lpc = "callback" /\ upc[Loop] = "idle"
  /\ list' = EraseAt(list, cursor)
  /\ lpc' = "scan"
  /\ overlapped' = overlapped \cup {t \in {list[cursor]} : Locked(t)}
  /\ UNCHANGED <<starting, running, additions, deletions, active, wake, cursor, due,
                 upc, hold, dangling, created, fired, asked, silenced>>

(* A timer that is not due: it bounds the wait. *)
Skip ==
  /\ lpc = "scan" /\ cursor <= Len(list)
  /\ list[cursor] \notin due
  /\ cursor' = cursor + 1
  /\ UNCHANGED <<starting, running, additions, deletions, list, active, wake, lpc, due,
                 upc, hold, dangling, histories>>

ScanEnd ==
  /\ lpc = "scan" /\ cursor > Len(list)
  /\ lpc' = "wait"
  /\ cursor' = 1
  /\ UNCHANGED <<starting, running, additions, deletions, list, active, wake, due,
                 upc, hold, dangling, histories>>

(* Mutant: the timers do not bound the wait. *)
WakeReasonNoTimer == wake

(* Why the wait of the provider must return. *)
WakeReason == wake \/ \E i \in 1..Len(list) : list[i] \in due

(* wait() returns from the poll; it reads the event fd and runs callbacks. *)
WaitReturn ==
  /\ lpc = "wait"
  /\ wake' = FALSE
  /\ lpc' = "dispatch"
  /\ UNCHANGED <<starting, running, additions, deletions, list, active, cursor, due,
                 upc, hold, dangling, histories>>

DispatchEnd ==
  /\ lpc = "dispatch" /\ upc[Loop] = "idle"
  /\ lpc' = "check"
  /\ UNCHANGED <<starting, running, additions, deletions, list, active, wake, cursor, due,
                 upc, hold, dangling, histories>>

(* Time passes (external). *)
Expire(t) ==
  /\ t \in created \ due
  /\ due' = due \cup {t}
  /\ UNCHANGED <<starting, running, additions, deletions, list, active, wake, lpc, cursor,
                 upc, hold, dangling, histories>>

-----------------------------------------------------------------------------
Init ==
  /\ starting = FALSE /\ running = FALSE
  /\ additions = <<>> /\ deletions = <<>> /\ list = <<>>
  /\ active = {} /\ due = {}
  /\ wake = FALSE
  /\ lpc = "off" /\ cursor = 1
  /\ upc = [u \in Threads |-> "idle"]
  /\ hold = [u \in Threads |-> None]
  /\ dangling = {}
  /\ created = {} /\ fired = {} /\ asked = {} /\ silenced = {} /\ overlapped = {}

Call(u) == \/ AddTimer(u) \/ Stop(u) \/ Interrupt(u)
           \/ u \in Cancellers /\ \E t \in Timers : CancelLock(u, t)
           \/ CancelCommit(u) \/ CancelReturn(u)

LoopStep == \/ Bind \/ Check \/ Update \/ Fire \/ FireReturn \/ Skip \/ ScanEnd
            \/ WaitReturn \/ DispatchEnd

(* Nothing is said of what follows an erasure that is undefined behaviour. *)
Next == /\ dangling = {}
        /\ \/ StartAsync \/ StartReturn
           \/ LoopStep
           \/ \E u \in Threads : Call(u)
           \/ \E t \in Timers : Expire(t)

Spec == Init /\ [][Next]_vars

(* Threads inside a call and the loop thread keep running, the wait returns   *)
(* when it has a reason to, and every expiry is passed.                       *)
Fairness ==
  /\ WF_vars(StartReturn)
  /\ \A u \in Threads : WF_vars(Interrupt(u)) /\ WF_vars(CancelCommit(u)) /\ WF_vars(CancelReturn(u))
  /\ WF_vars(Bind \/ Check \/ Update \/ Fire \/ FireReturn \/ Skip \/ ScanEnd \/ DispatchEnd)
  /\ WF_vars(WakeReason /\ WaitReturn)
  /\ \A t \in Timers : WF_vars(Expire(t))

FairSpec == Spec /\ Fairness

-----------------------------------------------------------------------------
(* Properties *)

TypeOK ==
  /\ starting \in BOOLEAN /\ running \in BOOLEAN /\ wake \in BOOLEAN
  /\ additions \in Seq(Timers) /\ deletions \in Seq(Timers) /\ list \in Seq(Timers)
  /\ active \in SUBSET Timers /\ due \in SUBSET Timers
  /\ lpc \in {"off", "bind", "check", "update", "scan", "callback", "wait", "dispatch", "done"}
  /\ cursor \in 1..(Len(list) + 1)
  /\ upc \in [Threads -> {"idle", "interrupt", "cancel", "release"}]
  /\ hold \in [Threads -> Timers \cup {None}]
  /\ created \in SUBSET Timers /\ fired \in SUBSET Timers
  /\ asked \in SUBSET Timers /\ silenced \in SUBSET Timers
  /\ dangling \in SUBSET Timers /\ overlapped \in SUBSET Timers

(* cancel_timer() "Can call from any thread": it and the loop thread only     *)
(* erase iterators of timers that are still in the list they are erased from, *)
(* as long as the calls for one timer do not overlap: neither two of them,    *)
(* nor one of them and the end of the timer in the loop thread (event.h       *)
(* loop(), cancel_timer()).                                                   *)
NoDanglingErase == dangling \subseteq overlapped

(* No lost wake-up: while the loop thread is past the timer updates of its    *)
(* pass, an addition or a stop() it has not seen has set the event fd, or the *)
(* call is about to (event.h add_timer(), stop(), loop()).                    *)
InterruptDue == wake \/ \E u \in Threads : upc[u] = "interrupt"

NoLostWakeup ==
  /\ lpc \in {"scan", "callback", "wait"} /\ additions # <<>> => InterruptDue
  /\ lpc \in {"update", "scan", "callback", "wait"} /\ ~running => InterruptDue

(* A timer whose cancellation was done before a pass of the loop began does   *)
(* not fire in that pass or later (event.h cancel_timer(), loop()).           *)
SilentOnceCancelled == [][\A t \in fired' \ fired : t \notin silenced]_vars

(* A timer fires once it is due, unless it is cancelled or the emitter is     *)
(* stopped (event.h loop()).                                                  *)
EveryTimerFires ==
  \A t \in Timers : (t \in created) ~> (t \in fired \/ t \in asked \/ ~running)

(* stop() ends the loop thread (event.h stop(), loop()). *)
StopEndsLoop == (lpc # "off" /\ ~running) ~> (lpc = "done")
=============================================================================
