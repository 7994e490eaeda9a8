---------------------------- MODULE UtilsProofs ----------------------------
(***************************************************************************)
(* What holds of the two classes of common/utils that everything else is   *)
(* built on, for every value of the constants: the event loop (EventEmitter *)
(* and, on it, the retransmit timer of OPTUDP), and then the callback slot  *)
(* (Callback), for every number of threads and functors and every depth of *)
(* nested calls.                                                           *)
(***************************************************************************)
EXTENDS RetransmitTimer, Callback, TLAPS

(* The types of the state that the wake-up depends on. *)
WakeTypes ==
  /\ wake \in BOOLEAN /\ running \in BOOLEAN
  /\ additions \in Seq(Timers)
  /\ upc \in [Threads -> {"idle", "interrupt", "cancel", "release"}]
  /\ hold \in [Threads -> Timers \cup {None}]

(* Inductive: the loop thread learns of an addition or of a stop() by reading *)
(* the list or the flag, or from the event fd, which only it clears, and      *)
(* between clearing it and waiting again it reads both.                       *)
IInv == WakeTypes /\ NoLostWakeup

(* Erasing from an empty list of additions leaves it empty. *)
LEMMA EraseAtType ==
  ASSUME NEW s \in Seq(Timers), NEW i \in 1..Len(s)
  PROVE  EraseAt(s, i) \in Seq(Timers) /\ s # <<>>
<1>1. SubSeq(s, 1, i - 1) \in Seq(Timers) /\ SubSeq(s, i + 1, Len(s)) \in Seq(Timers)
  OBVIOUS
<1> QED
  BY <1>1 DEF EraseAt

-----------------------------------------------------------------------------
(* Calls *)

(* A call that leaves the event fd and the flag alone, adds no timer and is   *)
(* not about to interrupt, before or after.                                   *)
LEMMA QuietCall ==
  ASSUME IInv, NEW u \in Threads, upc[u] # "interrupt",
         NEW p \in {"idle", "cancel", "release"}, upc' = [upc EXCEPT ![u] = p],
         UNCHANGED <<wake, running, lpc>>,
         additions' \in Seq(Timers), additions' # <<>> => additions # <<>>,
         hold' \in [Threads -> Timers \cup {None}]
  PROVE  IInv'
<1>1. WakeTypes'
  BY DEF IInv, WakeTypes
<1>2. InterruptDue => InterruptDue'
  BY DEF IInv, WakeTypes, InterruptDue
<1>3. NoLostWakeup'
  BY <1>2 DEF IInv, NoLostWakeup
<1> QED
  BY <1>1, <1>3 DEF IInv

LEMMA CallKeeps ==
  ASSUME IInv, NEW u \in Threads, Call(u)
  PROVE  IInv'
<1> USE DEF IInv, WakeTypes
<1>1. CASE AddTimer(u) \/ Stop(u)
  <2>1. additions' \in Seq(Timers) /\ hold' \in [Threads -> Timers \cup {None}]
    <3>1. CASE AddTimer(u)
      <4>1. PICK t \in Timers : additions' = Append(additions, t) /\ hold' = [hold EXCEPT ![u] = t]
        BY <3>1 DEF AddTimer
      <4>2. additions' \in Seq(Timers)
        BY <4>1
      <4>3. hold' \in [Threads -> Timers \cup {None}]
        BY <4>1
      <4> QED
        BY <4>2, <4>3
    <3>2. CASE Stop(u)
      BY <3>2 DEF Stop
    <3> QED
      BY <1>1, <3>1, <3>2
  <2>2. upc' \in [Threads -> {"idle", "interrupt", "cancel", "release"}]
    BY <1>1 DEF AddTimer, Stop
  <2>3. wake' \in BOOLEAN /\ running' \in BOOLEAN
    BY <1>1 DEF AddTimer, Stop
  <2>4. InterruptDue'
    BY <1>1 DEF AddTimer, Stop, InterruptDue
  <2> QED
    BY <2>1, <2>2, <2>3, <2>4 DEF NoLostWakeup
<1>2. CASE Interrupt(u)
  BY <1>2 DEF Interrupt, NoLostWakeup, InterruptDue
<1>3. CASE \E t \in Timers : CancelLock(u, t)
  <2>1. PICK t \in Timers : CancelLock(u, t)
    BY <1>3
  <2>2. /\ upc[u] # "interrupt" /\ upc' = [upc EXCEPT ![u] = "cancel"]
        /\ UNCHANGED <<wake, running, lpc, additions>>
        /\ hold' \in [Threads -> Timers \cup {None}]
    BY <2>1 DEF CancelLock, MayCall
  <2> QED
    BY <2>2, QuietCall
<1>4. CASE CancelCommit(u)
  <2>1. /\ upc[u] # "interrupt" /\ upc' = [upc EXCEPT ![u] = "release"]
        /\ UNCHANGED <<wake, running, lpc, hold>>
    BY <1>4 DEF CancelCommit
  <2>2. \/ UNCHANGED additions
        \/ \E i \in 1..Len(additions) : additions' = EraseAt(additions, i)
    BY <1>4 DEF CancelCommit, RequestOrErase
  <2>3. additions' \in Seq(Timers) /\ (additions' # <<>> => additions # <<>>)
    BY <2>2, EraseAtType
  <2> QED
    BY <2>1, <2>3, QuietCall
<1>5. CASE CancelReturn(u)
  <2>1. /\ upc[u] # "interrupt" /\ upc' = [upc EXCEPT ![u] = "idle"]
        /\ UNCHANGED <<wake, running, lpc, additions>>
        /\ hold' \in [Threads -> Timers \cup {None}]
    BY <1>5 DEF CancelReturn
  <2> QED
    BY <2>1, QuietCall
<1> QED
  BY <1>1, <1>2, <1>3, <1>4, <1>5 DEF Call

-----------------------------------------------------------------------------
(* The loop thread *)

LEMMA LoopKeeps ==
  ASSUME IInv, LoopStep \/ StartAsync \/ StartReturn
  PROVE  IInv'
<1> USE DEF IInv, WakeTypes, NoLostWakeup, InterruptDue
<1>1. CASE StartAsync
  BY <1>1 DEF StartAsync
<1>2. CASE StartReturn
  BY <1>2 DEF StartReturn
<1>3. CASE Bind
  BY <1>3 DEF Bind
<1>4. CASE Check
  BY <1>4 DEF Check
<1>5. CASE Update
  BY <1>5 DEF Update
<1>6. CASE Fire
  BY <1>6 DEF Fire
<1>7. CASE FireReturn
  BY <1>7 DEF FireReturn
<1>8. CASE Skip
  BY <1>8 DEF Skip
<1>9. CASE ScanEnd
  BY <1>9 DEF ScanEnd
<1>10. CASE WaitReturn
  BY <1>10 DEF WaitReturn
<1>11. CASE DispatchEnd
  BY <1>11 DEF DispatchEnd
<1> QED
  BY <1>1, <1>2, <1>3, <1>4, <1>5, <1>6, <1>7, <1>8, <1>9, <1>10, <1>11 DEF LoopStep

-----------------------------------------------------------------------------
(* No interleaving of add_timer(), stop() and cancel_timer() with the loop    *)
(* leaves the loop thread waiting for an addition or a stop() that nothing    *)
(* will wake it for (event.h add_timer(), stop(), loop()).                    *)
THEOREM WakeupNeverLost == Spec => []NoLostWakeup
<1>1. Init => IInv
  <2> SUFFICES ASSUME Init PROVE IInv
    OBVIOUS
  <2>1. WakeTypes
    <3>1. wake \in BOOLEAN /\ running \in BOOLEAN
      BY Zenon DEF Init
    <3>2. additions \in Seq(Timers)
      BY DEF Init
    <3>3. /\ upc \in [Threads -> {"idle", "interrupt", "cancel", "release"}]
          /\ hold \in [Threads -> Timers \cup {None}]
      BY DEF Init
    <3> QED
      BY <3>1, <3>2, <3>3 DEF WakeTypes
  <2>2. lpc = "off"
    BY DEF Init
  <2> QED
    BY <2>1, <2>2 DEF IInv, NoLostWakeup
<1>2. IInv /\ [Next]_vars => IInv'
  <2> SUFFICES ASSUME IInv, [Next]_vars PROVE IInv'
    OBVIOUS
  <2>1. ASSUME NEW t \in Timers, Expire(t) PROVE IInv'
    BY <2>1 DEF Expire, IInv, WakeTypes, NoLostWakeup, InterruptDue
  <2>2. CASE UNCHANGED vars
    BY <2>2 DEF vars, IInv, WakeTypes, NoLostWakeup, InterruptDue
  <2> QED
    BY <2>1, <2>2, CallKeeps, LoopKeeps DEF Next
<1>3. IInv => NoLostWakeup
  BY DEF IInv
<1> QED
  BY <1>1, <1>2, <1>3, PTL DEF Spec
-----------------------------------------------------------------------------
(* Who owns a timer, whatever threads cancel *)

Distinct(s) == \A i, j \in 1..Len(s) : s[i] = s[j] => i = j

(* A timer is given to the loop thread once, and a cancellation takes it out  *)
(* of the list it is in, or asks the loop thread to.                          *)
OwnInv ==
  /\ Distinct(list) /\ Distinct(additions)
  /\ ElementsOf(list) \subseteq active /\ ElementsOf(additions) \cap active = {}
  /\ ElementsOf(additions) \cup active \cup asked \subseteq created
  /\ ElementsOf(deletions) \subseteq asked /\ silenced \subseteq asked
  /\ ElementsOf(additions) \cap asked = {}
  /\ ElementsOf(list) \cap asked \subseteq ElementsOf(deletions)
  /\ ElementsOf(list) \cap silenced = {}

(* The timer a call has locked, and the one add_timer() has not yet returned. *)
CallInv ==
  /\ \A u \in Threads : upc[u] = "idle" => hold[u] = None
  /\ \A u \in Threads : upc[u] \in {"cancel", "release"} => hold[u] # None
  /\ \A u \in Threads : hold[u] # None => hold[u] \in created
  /\ \A u \in Threads : upc[u] = "interrupt" => hold[u] \notin asked
  /\ \A u, v \in Threads :
       upc[u] = "interrupt" /\ hold[u] # None /\ hold[u] = hold[v] => u = v

(* The loop thread calls from its callbacks only, and scans from the first.   *)
LoopInv ==
  /\ lpc \notin {"callback", "dispatch"} => upc[Loop] = "idle"
  /\ lpc \notin {"scan", "callback"} => cursor = 1
  /\ lpc = "callback" => cursor <= Len(list)

BaseInv == TypeOK /\ OwnInv /\ CallInv /\ LoopInv

(* Erasing one element of a list without repetitions removes that element.    *)
LEMMA EraseOne ==
  ASSUME NEW s \in Seq(Timers), Distinct(s), NEW i \in 1..Len(s)
  PROVE  /\ EraseAt(s, i) \in Seq(Timers) /\ Len(EraseAt(s, i)) = Len(s) - 1
         /\ Distinct(EraseAt(s, i))
         /\ ElementsOf(EraseAt(s, i)) = ElementsOf(s) \ {s[i]}
<1> DEFINE e == EraseAt(s, i)
           at(k) == IF k < i THEN k ELSE k + 1
<1> DEFINE l == SubSeq(s, 1, i - 1)
           r == SubSeq(s, i + 1, Len(s))
<1>0. /\ l \in Seq(Timers) /\ Len(l) = i - 1 /\ \A k \in 1..(i - 1) : l[k] = s[k]
      /\ r \in Seq(Timers) /\ Len(r) = Len(s) - i /\ \A k \in 1..(Len(s) - i) : r[k] = s[k + i]
      /\ e = l \o r
  <2>1. l \in Seq(Timers) /\ Len(l) = i - 1 /\ \A k \in 1..(i - 1) : l[k] = s[k]
    OBVIOUS
  <2>2. r \in Seq(Timers) /\ Len(r) = Len(s) - i
    OBVIOUS
  <2>3. \A k \in 1..(Len(s) - i) : r[k] = s[k + i]
    OBVIOUS
  <2>4. e = l \o r
    BY DEF EraseAt
  <2> QED
    BY <2>1, <2>2, <2>3, <2>4
<1> HIDE DEF l, r, e
<1>1. e \in Seq(Timers) /\ Len(e) = Len(s) - 1
  BY <1>0
<1>2. \A k \in 1..Len(e) : e[k] = s[at(k)] /\ at(k) \in 1..Len(s) /\ at(k) # i
  <2> SUFFICES ASSUME NEW k \in 1..Len(e)
               PROVE  e[k] = s[at(k)] /\ at(k) \in 1..Len(s) /\ at(k) # i
    OBVIOUS
  <2>1. CASE k < i
    BY <2>1, <1>0, <1>1
  <2>2. CASE k >= i
    <3>1. k - (i - 1) \in 1..(Len(s) - i) /\ k - (i - 1) + i = k + 1
      BY <2>2, <1>1
    <3>2. e[k] = r[k - (i - 1)]
      <4>1. l \in Seq(Timers) /\ r \in Seq(Timers) /\ Len(l) = i - 1
        BY <1>0
      <4>2. k \in Len(l) + 1..Len(l) + Len(r)
        BY <2>2, <1>0, <1>1
      <4>3. (l \o r)[k] = r[k - Len(l)]
        BY ONLY <4>1, <4>2
      <4> QED
        BY <4>1, <4>3, <1>0
    <3>3. r[k - (i - 1)] = s[k + 1]
      BY <3>1, <1>0
    <3>4. at(k) = k + 1
      BY <2>2
    <3>5. k + 1 \in 1..Len(s)
      BY <1>1
    <3> QED
      BY <3>2, <3>3, <3>4, <3>5, <2>2
  <2> QED
    BY <2>1, <2>2
<1>3. \A j \in 1..Len(s) : j # i => \E k \in 1..Len(e) : at(k) = j
  <2> SUFFICES ASSUME NEW j \in 1..Len(s), j # i PROVE \E k \in 1..Len(e) : at(k) = j
    OBVIOUS
  <2>1. CASE j < i
    BY <2>1, <1>1
  <2>2. CASE j > i
    <3>1. j - 1 \in 1..Len(e) /\ at(j - 1) = j
      BY <2>2, <1>1
    <3> QED
      BY <3>1
  <2> QED
    BY <2>1, <2>2
<1>4. \A j, k \in 1..Len(e) : at(j) = at(k) => j = k
  BY <1>1
<1> HIDE DEF at
<1>5. Distinct(e)
  BY <1>2, <1>4 DEF Distinct
<1>6. ElementsOf(e) \subseteq ElementsOf(s) \ {s[i]}
  BY <1>2 DEF Distinct, ElementsOf
<1>7. ElementsOf(s) \ {s[i]} \subseteq ElementsOf(e)
  <2> SUFFICES ASSUME NEW j \in 1..Len(s), s[j] # s[i] PROVE s[j] \in ElementsOf(e)
    BY DEF ElementsOf
  <2>1. PICK k \in 1..Len(e) : at(k) = j
    BY <1>3
  <2> QED
    BY <2>1, <1>2 DEF ElementsOf
<1> QED
  BY <1>1, <1>5, <1>6, <1>7 DEF e

(* What joins a list at its end. *)
LEMMA AppendElements ==
  ASSUME NEW s \in Seq(Timers), NEW t \in Timers
  PROVE  /\ Append(s, t) \in Seq(Timers)
         /\ ElementsOf(Append(s, t)) = ElementsOf(s) \cup {t}
         /\ Distinct(s) /\ t \notin ElementsOf(s) => Distinct(Append(s, t))
<1> DEFINE a == Append(s, t)
<1>1. /\ a \in Seq(Timers) /\ Len(a) = Len(s) + 1 /\ a[Len(s) + 1] = t
      /\ \A k \in 1..Len(s) : a[k] = s[k]
  OBVIOUS
<1> HIDE DEF a
<1>2. ElementsOf(a) = ElementsOf(s) \cup {t}
  <2>1. ElementsOf(a) \subseteq ElementsOf(s) \cup {t}
    <3> SUFFICES ASSUME NEW k \in 1..Len(a) PROVE a[k] \in ElementsOf(s) \cup {t}
      BY DEF ElementsOf
    <3> QED
      BY <1>1 DEF ElementsOf
  <2>2. ElementsOf(s) \cup {t} \subseteq ElementsOf(a)
    <3>1. ElementsOf(s) \subseteq ElementsOf(a)
      <4> SUFFICES ASSUME NEW k \in 1..Len(s) PROVE s[k] \in ElementsOf(a)
        BY DEF ElementsOf
      <4> QED
        BY <1>1 DEF ElementsOf
    <3>2. Len(s) + 1 \in 1..Len(a)
      BY <1>1
    <3> QED
      BY <3>1, <3>2, <1>1 DEF ElementsOf
  <2> QED
    BY <2>1, <2>2
<1>3. ASSUME Distinct(s), t \notin ElementsOf(s) PROVE Distinct(a)
  BY <1>1, <1>3 DEF Distinct, ElementsOf
<1> QED
  BY <1>1, <1>2, <1>3 DEF a

(* The updates leave the timers of both lists whose deletion is not asked,    *)
(* each once.                                                                 *)
LEMMA UpdateList ==
  ASSUME list \in Seq(Timers), additions \in Seq(Timers), deletions \in Seq(Timers),
         Distinct(list), Distinct(additions),
         ElementsOf(list) \cap ElementsOf(additions) = {},
         ExecuteDeletions
  PROVE  /\ list' \in Seq(Timers) /\ Distinct(list)'
         /\ ElementsOf(list)' = (ElementsOf(list) \cup ElementsOf(additions)) \ ElementsOf(deletions)
<1> DEFINE all == list \o additions
           kept == {i \in 1..Len(all) : all[i] \notin ElementsOf(deletions)}
<1>1. /\ all \in Seq(Timers) /\ Len(all) = Len(list) + Len(additions)
      /\ \A i \in 1..Len(list) : all[i] = list[i]
      /\ \A i \in 1..Len(additions) : all[Len(list) + i] = additions[i]
  OBVIOUS
<1>2. PICK m \in 0..Len(all) : \E f \in [1..m -> kept] :
          /\ \A j, k \in 1..m : j < k => f[j] < f[k]
          /\ \A i \in kept : \E k \in 1..m : f[k] = i
          /\ list' = [k \in 1..m |-> all[f[k]]]
  BY DEF ExecuteDeletions
<1>3. PICK f \in [1..m -> kept] :
          /\ \A j, k \in 1..m : j < k => f[j] < f[k]
          /\ \A i \in kept : \E k \in 1..m : f[k] = i
          /\ list' = [k \in 1..m |-> all[f[k]]]
  BY <1>2
<1>4. \A i \in kept : i \in 1..Len(all) /\ all[i] \notin ElementsOf(deletions)
  OBVIOUS
<1>5. \A i \in 1..Len(all) : all[i] \notin ElementsOf(deletions) => i \in kept
  OBVIOUS
<1> HIDE DEF all, kept
<1>6. \A i \in 1..Len(all) : \/ i \in 1..Len(list) /\ all[i] = list[i]
                            \/ /\ i - Len(list) \in 1..Len(additions)
                               /\ all[i] = additions[i - Len(list)]
  <2> SUFFICES ASSUME NEW i \in 1..Len(all), i \notin 1..Len(list)
               PROVE  /\ i - Len(list) \in 1..Len(additions)
                      /\ all[i] = additions[i - Len(list)]
    BY <1>1
  <2>1. i - Len(list) \in 1..Len(additions) /\ Len(list) + (i - Len(list)) = i
    BY <1>1
  <2> QED
    BY <2>1, <1>1
<1>7. Distinct(all)
  <2> SUFFICES ASSUME NEW i \in 1..Len(all), NEW j \in 1..Len(all), all[i] = all[j] PROVE i = j
    BY DEF Distinct
  <2>1. CASE i \in 1..Len(list) /\ all[i] = list[i] /\ j \in 1..Len(list) /\ all[j] = list[j]
    BY <2>1 DEF Distinct
  <2>2. CASE /\ i - Len(list) \in 1..Len(additions) /\ all[i] = additions[i - Len(list)]
             /\ j - Len(list) \in 1..Len(additions) /\ all[j] = additions[j - Len(list)]
    <3>1. i - Len(list) = j - Len(list)
      BY <2>2 DEF Distinct
    <3> QED
      BY <3>1
  <2>3. ASSUME NEW a \in 1..Len(list), NEW b \in 1..Len(additions), list[a] = additions[b]
        PROVE  FALSE
    BY <2>3 DEF ElementsOf
  <2> QED
    BY <2>1, <2>2, <2>3, <1>6
<1>8. ElementsOf(all) = ElementsOf(list) \cup ElementsOf(additions)
  <2>1. ElementsOf(all) \subseteq ElementsOf(list) \cup ElementsOf(additions)
    BY <1>6 DEF ElementsOf
  <2>2. ElementsOf(list) \subseteq ElementsOf(all)
    <3> SUFFICES ASSUME NEW i \in 1..Len(list) PROVE list[i] \in ElementsOf(all)
      BY DEF ElementsOf
    <3>1. i \in 1..Len(all) /\ all[i] = list[i]
      BY <1>1
    <3> QED
      BY <3>1 DEF ElementsOf
  <2>3. ElementsOf(additions) \subseteq ElementsOf(all)
    <3> SUFFICES ASSUME NEW i \in 1..Len(additions) PROVE additions[i] \in ElementsOf(all)
      BY DEF ElementsOf
    <3>1. Len(list) + i \in 1..Len(all) /\ all[Len(list) + i] = additions[i]
      BY <1>1
    <3> QED
      BY <3>1 DEF ElementsOf
  <2> QED
    BY <2>1, <2>2, <2>3
<1>9. \A k \in 1..m : f[k] \in 1..Len(all) /\ all[f[k]] \in Timers
                     /\ all[f[k]] \notin ElementsOf(deletions)
  BY <1>1, <1>4
<1>10. list' \in Seq(Timers) /\ Len(list') = m /\ \A k \in 1..m : list'[k] = all[f[k]]
  <2>1. m \in Nat
    BY <1>1
  <2> QED
    BY <2>1, <1>3, <1>9
<1>11. Distinct(list)'
  <2> SUFFICES ASSUME NEW i \in 1..m, NEW j \in 1..m, list'[i] = list'[j] PROVE i = j
    BY <1>10 DEF Distinct
  <2>1. f[i] = f[j]
    <3>1. all[f[i]] = all[f[j]]
      BY <1>10
    <3>2. f[i] \in 1..Len(all) /\ f[j] \in 1..Len(all)
      BY <1>9
    <3>3. \A x, y \in 1..Len(all) : all[x] = all[y] => x = y
      BY <1>7 DEF Distinct
    <3> QED
      BY ONLY <3>1, <3>2, <3>3
  <2>2. f[i] \in Nat /\ f[j] \in Nat /\ i \in Nat /\ j \in Nat
    BY <1>9, <1>1
  <2> QED
    BY <2>1, <2>2, <1>3
<1>12. ElementsOf(list)' = ElementsOf(all) \ ElementsOf(deletions)
  <2>1. ElementsOf(list)' \subseteq ElementsOf(all) \ ElementsOf(deletions)
    <3> SUFFICES ASSUME NEW k \in 1..m
                 PROVE  list'[k] \in ElementsOf(all) \ ElementsOf(deletions)
      BY <1>10 DEF ElementsOf
    <3>1. all[f[k]] \in ElementsOf(all)
      BY <1>9 DEF ElementsOf
    <3> QED
      BY <3>1, <1>9, <1>10
  <2>2. ElementsOf(all) \ ElementsOf(deletions) \subseteq ElementsOf(list)'
    <3> SUFFICES ASSUME NEW i \in 1..Len(all), all[i] \notin ElementsOf(deletions)
                 PROVE  all[i] \in ElementsOf(list)'
      BY DEF ElementsOf
    <3>1. PICK k \in 1..m : f[k] = i
      BY <1>3, <1>5
    <3> QED
      BY <3>1, <1>10 DEF ElementsOf
  <2> QED
    BY <2>1, <2>2
<1> QED
  BY <1>8, <1>10, <1>11, <1>12
-----------------------------------------------------------------------------
(* The steps of the emitter, whoever may cancel *)

AnyCall(u) == \/ AddTimer(u) \/ Stop(u) \/ Interrupt(u)
              \/ \E t \in Timers : CancelLock(u, t)
              \/ CancelCommit(u) \/ CancelReturn(u)

Step == \/ StartAsync \/ StartReturn \/ LoopStep
        \/ \E u \in Threads : AnyCall(u)
        \/ \E t \in Timers : Expire(t)
        \/ UNCHANGED vars

(* What cancel_timer() does to the lists. *)
LEMMA CommitLists ==
  ASSUME BaseInv, NEW u \in Threads, CancelCommit(u)
  PROVE  /\ hold[u] \in created /\ hold[u] \in Timers
         /\ additions' \in Seq(Timers) /\ Distinct(additions)'
         /\ ElementsOf(additions)' = ElementsOf(additions) \ {hold[u]}
         /\ deletions' \in Seq(Timers)
         /\ ElementsOf(deletions)' =
               ElementsOf(deletions) \cup (IF hold[u] \in active THEN {hold[u]} ELSE {})
<1>1. hold[u] \in created /\ hold[u] \in Timers
  BY DEF BaseInv, TypeOK, CallInv, CancelCommit
<1>2. /\ additions \in Seq(Timers) /\ deletions \in Seq(Timers) /\ Distinct(additions)
      /\ ElementsOf(additions) \cap active = {}
  BY DEF BaseInv, TypeOK, OwnInv
<1>3. CASE hold[u] \in active
  <2>1. deletions' = Append(deletions, hold[u]) /\ additions' = additions
    BY <1>3 DEF CancelCommit, RequestOrErase
  <2>2. /\ deletions' \in Seq(Timers)
        /\ ElementsOf(deletions)' = ElementsOf(deletions) \cup {hold[u]}
    <3>1. ElementsOf(deletions)' = ElementsOf(deletions')
      BY DEF ElementsOf
    <3> QED
      BY <3>1, <2>1, <1>1, <1>2, AppendElements
  <2>3. Distinct(additions)' /\ ElementsOf(additions)' = ElementsOf(additions)
    BY <2>1, <1>2 DEF Distinct, ElementsOf
  <2>4. hold[u] \notin ElementsOf(additions)
    BY <1>2, <1>3
  <2> QED
    BY <1>1, <1>2, <1>3, <2>1, <2>2, <2>3, <2>4
<1>4. CASE hold[u] \notin active
  <2>1. deletions' = deletions
    BY <1>4 DEF CancelCommit, RequestOrErase
  <2>2. ElementsOf(deletions)' = ElementsOf(deletions)
    BY <2>1 DEF ElementsOf
  <2>3. ElementsOf(additions)' = ElementsOf(additions') /\ (Distinct(additions)' <=> Distinct(additions'))
    BY DEF ElementsOf, Distinct
  <2>4. CASE \E i \in 1..Len(additions) :
                additions[i] = hold[u] /\ additions' = EraseAt(additions, i)
    BY <2>4, <2>1, <2>2, <2>3, <1>1, <1>2, <1>4, EraseOne
  <2>5. CASE hold[u] \notin ElementsOf(additions) /\ UNCHANGED additions
    <3>1. Distinct(additions)' /\ ElementsOf(additions)' = ElementsOf(additions)
      BY <2>5, <1>2, <2>3
    <3> QED
      BY <3>1, <2>5, <2>1, <2>2, <1>1, <1>2, <1>4
  <2> QED
    BY <2>4, <2>5, <1>4 DEF CancelCommit, RequestOrErase
<1> QED
  BY <1>3, <1>4

(* What the other steps do to the list of the loop thread. *)
LEMMA LoopLists ==
  ASSUME BaseInv
  PROVE  /\ Update => /\ list' \in Seq(Timers) /\ Distinct(list)'
                      /\ ElementsOf(list)' =
                           (ElementsOf(list) \cup ElementsOf(additions)) \ ElementsOf(deletions)
                      /\ ElementsOf(additions)' = {} /\ ElementsOf(deletions)' = {}
                      /\ Distinct(additions)'
         /\ FireReturn => /\ list' \in Seq(Timers) /\ Distinct(list)'
                          /\ Len(list') = Len(list) - 1 /\ cursor \in 1..Len(list)
                          /\ ElementsOf(list)' = ElementsOf(list) \ {list[cursor]}
         /\ Check => /\ list' \in Seq(Timers) /\ Distinct(list)'
                     /\ list' # list => list' = <<>> /\ ElementsOf(list)' = {}
<1>1. /\ additions \in Seq(Timers) /\ deletions \in Seq(Timers) /\ list \in Seq(Timers)
      /\ Distinct(list) /\ Distinct(additions)
      /\ ElementsOf(list) \cap ElementsOf(additions) = {}
      /\ lpc = "callback" => cursor \in 1..Len(list)
  BY DEF BaseInv, TypeOK, OwnInv, LoopInv
<1>2. ASSUME Update PROVE /\ ElementsOf(additions)' = {} /\ ElementsOf(deletions)' = {}
                          /\ Distinct(additions)' /\ ExecuteDeletions
  BY <1>2 DEF Update, ElementsOf, Distinct
<1>3. ASSUME FireReturn PROVE /\ list' \in Seq(Timers) /\ Distinct(list)'
                              /\ Len(list') = Len(list) - 1 /\ cursor \in 1..Len(list)
                              /\ ElementsOf(list)' = ElementsOf(list) \ {list[cursor]}
  <2>1. list' = EraseAt(list, cursor) /\ cursor \in 1..Len(list)
    BY <1>1, <1>3 DEF FireReturn
  <2>2. ElementsOf(list)' = ElementsOf(list') /\ (Distinct(list)' <=> Distinct(list'))
    BY DEF ElementsOf, Distinct
  <2> QED
    BY <1>1, <2>1, <2>2, EraseOne
<1>4. ASSUME Check PROVE /\ list' \in Seq(Timers) /\ Distinct(list)'
                         /\ list' # list => list' = <<>> /\ ElementsOf(list)' = {}
  <2>1. CASE list' = list
    BY <1>1, <2>1 DEF Distinct
  <2>2. CASE list' = <<>>
    BY <2>2 DEF Distinct, ElementsOf
  <2> QED
    BY <1>4, <2>1, <2>2 DEF Check
<1> QED
  BY <1>1, <1>2, <1>3, <1>4, UpdateList

LEMMA TypesKept ==
  ASSUME BaseInv, Step
  PROVE  TypeOK'
<1> USE DEF BaseInv, TypeOK, LoopInv
<1>1. CASE LoopStep
  <2>1. CASE Update
    <3>1. dangling' \in SUBSET Timers /\ overlapped' \in SUBSET Timers
      <4>1. \A i \in 1..Len(deletions) : deletions[i] \in Timers
        OBVIOUS
      <4>2. \A t \in Pending : t \in Timers
        BY DEF Pending, ElementsOf
      <4>3. \A t \in dangling' : \E k \in 1..Len(deletions) : t = deletions[k]
        BY <2>1, Zenon DEF Update, ExecuteDeletions
      <4> QED
        BY <2>1, <4>1, <4>2, <4>3 DEF Update
    <3>2. cursor = 1
      BY <2>1 DEF Update
    <3>3. list' \in Seq(Timers) /\ active' \in SUBSET Timers
      BY <2>1, LoopLists DEF Update, ElementsOf
    <3> QED
      BY <2>1, <3>1, <3>2, <3>3 DEF Update
  <2>2. CASE FireReturn
    <3>1. overlapped' \in SUBSET Timers
      BY <2>2, LoopLists DEF FireReturn
    <3> QED
      BY <2>2, <3>1, LoopLists DEF FireReturn
  <2>3. CASE Check
    <3>1. list' \in Seq(Timers) /\ cursor \in 1..(Len(list') + 1)
      BY <2>3, LoopLists DEF Check
    <3> QED
      BY <2>3, <3>1 DEF Check, histories
  <2>4. CASE Bind \/ WaitReturn \/ DispatchEnd
    BY <2>4 DEF Bind, WaitReturn, DispatchEnd, histories
  <2>5. CASE Fire \/ Skip \/ ScanEnd
    <3>1. list \in Seq(Timers) /\ (cursor <= Len(list) => list[cursor] \in Timers)
      OBVIOUS
    <3> QED
      BY <2>5, <3>1 DEF Fire, Skip, ScanEnd, histories
  <2> QED
    BY <1>1, <2>1, <2>2, <2>3, <2>4, <2>5 DEF LoopStep
<1>2. CASE StartAsync \/ StartReturn
  BY <1>2 DEF StartAsync, StartReturn, histories
<1>3. ASSUME NEW u \in Threads, AnyCall(u) PROVE TypeOK'
  <2>1. CASE AddTimer(u)
    BY <2>1, AppendElements DEF AddTimer
  <2>2. CASE Stop(u) \/ Interrupt(u) \/ CancelReturn(u)
    BY <2>2 DEF Stop, Interrupt, CancelReturn
  <2>3. CASE \E t \in Timers : CancelLock(u, t)
    BY <2>3 DEF CancelLock
  <2>4. CASE CancelCommit(u)
    <3>1. dangling' \in SUBSET Timers
      BY <2>4, CommitLists DEF CancelCommit, RequestOrErase
    <3> QED
      BY <2>4, <3>1, CommitLists DEF CancelCommit
  <2> QED
    BY <1>3, <2>1, <2>2, <2>3, <2>4 DEF AnyCall
<1>4. CASE \E t \in Timers : Expire(t)
  BY <1>4 DEF Expire, histories
<1>5. CASE UNCHANGED vars
  BY <1>5 DEF vars
<1> QED
  BY <1>1, <1>2, <1>3, <1>4, <1>5 DEF Step

LEMMA OwnKept ==
  ASSUME BaseInv, Step
  PROVE  OwnInv'
<1>1. BaseInv /\ OwnInv
  BY DEF BaseInv
<1>2. ASSUME UNCHANGED <<list, additions, deletions, active, created, asked, silenced>>
      PROVE  OwnInv'
  BY <1>1, <1>2 DEF OwnInv, Distinct, ElementsOf
<1>3. CASE Update
  <2>1. /\ active' = active \cup ElementsOf(additions) /\ silenced' = asked
        /\ UNCHANGED <<created, asked>>
    BY <1>3 DEF Update
  <2> QED
    BY <1>1, <1>3, <2>1, LoopLists DEF OwnInv
<1>4. ASSUME Check \/ FireReturn PROVE OwnInv'
  <2>1. UNCHANGED <<additions, deletions, active, created, asked, silenced>>
    BY <1>4 DEF Check, FireReturn, histories
  <2>2. /\ ElementsOf(additions)' = ElementsOf(additions)
        /\ ElementsOf(deletions)' = ElementsOf(deletions)
        /\ Distinct(additions)'
    BY <2>1, <1>1 DEF OwnInv, ElementsOf, Distinct
  <2>3. Distinct(list)' /\ ElementsOf(list)' \subseteq ElementsOf(list)
    BY <1>1, <1>4, LoopLists DEF ElementsOf
  <2> QED
    BY <1>1, <2>1, <2>2, <2>3 DEF OwnInv
<1>5. ASSUME NEW u \in Threads, AddTimer(u) PROVE OwnInv'
  <2>1. PICK t \in Timers \ created : created' = created \cup {t} /\ additions' = Append(additions, t)
    BY <1>5 DEF AddTimer
  <2>2. UNCHANGED <<list, deletions, active, asked, silenced>>
    BY <1>5 DEF AddTimer
  <2>3. /\ Distinct(list)' /\ ElementsOf(list)' = ElementsOf(list)
        /\ ElementsOf(deletions)' = ElementsOf(deletions)
        /\ ElementsOf(additions)' = ElementsOf(additions')
        /\ (Distinct(additions)' <=> Distinct(additions'))
    BY <1>1, <2>2 DEF OwnInv, Distinct, ElementsOf
  <2>4. /\ ElementsOf(additions') = ElementsOf(additions) \cup {t}
        /\ Distinct(additions')
    BY <1>1, <2>1, AppendElements DEF BaseInv, TypeOK, OwnInv
  <2> QED
    BY <1>1, <2>1, <2>2, <2>3, <2>4 DEF OwnInv
<1>6. ASSUME NEW u \in Threads, CancelCommit(u) PROVE OwnInv'
  <2>1. asked' = asked \cup {hold[u]} /\ UNCHANGED <<list, active, created, silenced>>
    BY <1>6 DEF CancelCommit
  <2>2. Distinct(list)' /\ ElementsOf(list)' = ElementsOf(list)
    BY <1>1, <2>1 DEF OwnInv, Distinct, ElementsOf
  <2> QED
    BY <1>1, <1>6, <2>1, <2>2, CommitLists DEF OwnInv
<1>7. ASSUME NEW u \in Threads,
             Stop(u) \/ Interrupt(u) \/ (\E t \in Timers : CancelLock(u, t)) \/ CancelReturn(u)
      PROVE  OwnInv'
  BY <1>2, <1>7 DEF Stop, Interrupt, CancelLock, CancelReturn
<1>8. CASE StartAsync \/ StartReturn \/ \E t \in Timers : Expire(t)
  BY <1>2, <1>8 DEF StartAsync, StartReturn, Expire, histories
<1>9. CASE Bind \/ Fire \/ Skip \/ ScanEnd \/ WaitReturn \/ DispatchEnd
  BY <1>2, <1>9 DEF Bind, Fire, Skip, ScanEnd, WaitReturn, DispatchEnd, histories
<1>10. CASE UNCHANGED vars
  BY <1>2, <1>10 DEF vars
<1> QED
  BY <1>3, <1>4, <1>5, <1>6, <1>7, <1>8, <1>9, <1>10 DEF Step, LoopStep, AnyCall

LEMMA CallsKept ==
  ASSUME BaseInv, Step
  PROVE  CallInv'
<1>1. /\ CallInv /\ asked \in SUBSET Timers /\ created \in SUBSET Timers
      /\ upc \in [Threads -> {"idle", "interrupt", "cancel", "release"}]
      /\ hold \in [Threads -> Timers \cup {None}]
      /\ None \notin Timers /\ asked \subseteq created
  BY EmitterConstants DEF BaseInv, TypeOK, OwnInv
<1>2. ASSUME UNCHANGED <<upc, hold, asked, created>> PROVE CallInv'
  BY <1>1, <1>2 DEF CallInv
<1>3. CASE StartAsync \/ StartReturn \/ LoopStep
  BY <1>2, <1>3 DEF StartAsync, StartReturn, LoopStep, Bind, Check, Update, Fire, FireReturn, Skip,
                    ScanEnd, WaitReturn, DispatchEnd, histories
<1>4. CASE UNCHANGED vars \/ \E t \in Timers : Expire(t)
  BY <1>2, <1>4 DEF vars, Expire, histories
<1>5. ASSUME NEW u \in Threads, AddTimer(u) PROVE CallInv'
  <2>1. PICK t \in Timers \ created : created' = created \cup {t} /\ hold' = [hold EXCEPT ![u] = t]
    BY <1>5 DEF AddTimer
  <2>2. upc' = [upc EXCEPT ![u] = "interrupt"] /\ asked' = asked
    BY <1>5 DEF AddTimer
  <2>3. /\ upc'[u] = "interrupt" /\ hold'[u] = t
        /\ \A v \in Threads \ {u} : upc'[v] = upc[v] /\ hold'[v] = hold[v] /\ hold[v] # t
    BY <1>1, <2>1, <2>2 DEF CallInv
  <2> QED
    BY <1>1, <2>1, <2>2, <2>3 DEF CallInv
<1>6. ASSUME NEW u \in Threads, Stop(u) PROVE CallInv'
  <2>1. /\ upc[u] = "idle" /\ hold' = hold /\ asked' = asked /\ created' = created
        /\ upc' = [upc EXCEPT ![u] = "interrupt"]
    BY <1>6 DEF Stop, MayCall
  <2>2. upc'[u] = "interrupt" /\ hold[u] = None /\ \A v \in Threads \ {u} : upc'[v] = upc[v]
    BY <1>1, <2>1 DEF CallInv
  <2> QED
    BY <1>1, <2>1, <2>2 DEF CallInv
<1>7. ASSUME NEW u \in Threads, Interrupt(u) \/ CancelReturn(u) PROVE CallInv'
  <2>1. /\ hold' = [hold EXCEPT ![u] = None] /\ asked' = asked /\ created' = created
        /\ upc' = [upc EXCEPT ![u] = "idle"]
    BY <1>7 DEF Interrupt, CancelReturn
  <2>2. /\ upc'[u] = "idle" /\ hold'[u] = None
        /\ \A v \in Threads \ {u} : upc'[v] = upc[v] /\ hold'[v] = hold[v]
    BY <1>1, <2>1
  <2> QED
    BY <1>1, <2>1, <2>2 DEF CallInv
<1>8. ASSUME NEW u \in Threads, NEW t \in Timers, CancelLock(u, t) PROVE CallInv'
  <2>1. /\ hold' = [hold EXCEPT ![u] = t] /\ asked' = asked /\ created' = created
        /\ upc' = [upc EXCEPT ![u] = "cancel"]
        /\ t \in created /\ ~ \E v \in Threads : upc[v] = "interrupt" /\ hold[v] = t
    BY <1>8 DEF CancelLock, Returned
  <2>2. /\ upc'[u] = "cancel" /\ hold'[u] = t
        /\ \A v \in Threads \ {u} : upc'[v] = upc[v] /\ hold'[v] = hold[v]
    BY <1>1, <2>1
  <2> QED
    BY <1>1, <2>1, <2>2 DEF CallInv
<1>9. ASSUME NEW u \in Threads, CancelCommit(u) PROVE CallInv'
  <2>1. /\ hold' = hold /\ asked' = asked \cup {hold[u]} /\ created' = created
        /\ upc[u] = "cancel" /\ upc' = [upc EXCEPT ![u] = "release"]
    BY <1>9 DEF CancelCommit
  <2>2. upc'[u] = "release" /\ \A v \in Threads \ {u} : upc'[v] = upc[v]
    BY <1>1, <2>1
  <2>3. \A v \in Threads : upc[v] = "interrupt" => hold[v] # hold[u]
    BY <1>1, <2>1 DEF CallInv
  <2> QED
    BY <1>1, <2>1, <2>2, <2>3 DEF CallInv
<1> QED
  BY <1>3, <1>4, <1>5, <1>6, <1>7, <1>8, <1>9 DEF Step, AnyCall

LEMMA LoopKept ==
  ASSUME BaseInv, Step
  PROVE  LoopInv'
<1>1. /\ LoopInv /\ list \in Seq(Timers) /\ cursor \in 1..(Len(list) + 1) /\ Loop \in Threads
      /\ upc \in [Threads -> {"idle", "interrupt", "cancel", "release"}]
  BY DEF BaseInv, TypeOK, Threads
<1>2. ASSUME NEW u \in Threads, AnyCall(u) PROVE LoopInv'
  <2>1. UNCHANGED <<lpc, cursor, list>>
    BY <1>2 DEF AnyCall, AddTimer, Stop, Interrupt, CancelLock, CancelCommit, CancelReturn
  <2>2. \/ MayCall(u) /\ \E p \in {"interrupt", "cancel"} : upc' = [upc EXCEPT ![u] = p]
        \/ upc[u] # "idle" /\ \E p \in {"idle", "release"} : upc' = [upc EXCEPT ![u] = p]
    BY <1>2 DEF AnyCall, AddTimer, Stop, Interrupt, CancelLock, CancelCommit, CancelReturn
  <2>3. lpc \notin {"callback", "dispatch"} => upc'[Loop] = "idle"
    BY <1>1, <2>2 DEF MayCall, LoopInv
  <2> QED
    BY <1>1, <2>1, <2>3 DEF LoopInv
<1>3. CASE LoopStep
  <2>1. upc' = upc
    BY <1>3 DEF LoopStep, Bind, Check, Update, Fire, FireReturn, Skip, ScanEnd, WaitReturn, DispatchEnd
  <2> QED
    BY <1>1, <1>3, <2>1 DEF LoopInv, LoopStep, Bind, Check, Update, Fire, FireReturn, Skip, ScanEnd,
                            WaitReturn, DispatchEnd
<1>4. CASE StartAsync \/ StartReturn \/ \E t \in Timers : Expire(t)
  BY <1>1, <1>4 DEF LoopInv, StartAsync, StartReturn, Expire
<1>5. CASE UNCHANGED vars
  BY <1>1, <1>5 DEF LoopInv, vars
<1> QED
  BY <1>2, <1>3, <1>4, <1>5 DEF Step

LEMMA BaseKept ==
  ASSUME BaseInv, Step
  PROVE  BaseInv'
BY TypesKept, OwnKept, CallsKept, LoopKept DEF BaseInv
LEMMA BaseInit ==
  ASSUME Init
  PROVE  BaseInv
<1>1. TypeOK
  <2>1. starting \in BOOLEAN /\ running \in BOOLEAN /\ wake \in BOOLEAN
    BY Zenon DEF Init
  <2>2. /\ additions \in Seq(Timers) /\ deletions \in Seq(Timers) /\ list \in Seq(Timers)
        /\ cursor \in 1..(Len(list) + 1)
    BY DEF Init
  <2> QED
    BY <2>1, <2>2 DEF Init, TypeOK
<1>2. OwnInv
  BY DEF Init, OwnInv, Distinct, ElementsOf
<1>3. CallInv
  BY DEF Init, CallInv
<1>4. LoopInv
  BY DEF Init, LoopInv, Threads
<1> QED
  BY <1>1, <1>2, <1>3, <1>4 DEF BaseInv

LEMMA NextStep ==
  ASSUME [Next]_vars
  PROVE  Step
BY DEF Next, Call, Step, AnyCall

LEMMA BaseInvariant == Spec => []BaseInv
BY BaseInit, NextStep, BaseKept, PTL DEF Spec

(* The state of the emitter keeps its type. *)
THEOREM TypesCorrect == Spec => []TypeOK
<1>1. BaseInv => TypeOK
  BY DEF BaseInv
<1> QED
  BY <1>1, BaseInvariant, PTL

(* A timer whose cancellation was done before a pass of the loop began does   *)
(* not fire in that pass or later, whatever threads cancel and whenever the   *)
(* loop thread is in its updates (event.h cancel_timer(), loop()).            *)
THEOREM CancelledStaysSilent == Spec => SilentOnceCancelled
<1>1. ASSUME BaseInv, [Next]_vars PROVE [\A t \in fired' \ fired : t \notin silenced]_vars
  <2>1. CASE Fire
    <3>1. fired' = fired \cup {list[cursor]} /\ cursor \in 1..Len(list)
      BY <1>1, <2>1 DEF Fire, BaseInv, TypeOK
    <3>2. list[cursor] \in ElementsOf(list)
      BY <3>1 DEF ElementsOf
    <3> QED
      BY <1>1, <3>1, <3>2 DEF BaseInv, OwnInv
  <2>2. CASE ~Fire
    <3>1. fired' = fired
      BY <1>1, <2>2 DEF Next, Call, LoopStep, StartAsync, StartReturn, Bind, Check, Update, FireReturn,
                        Skip, ScanEnd, WaitReturn, DispatchEnd, AddTimer, Stop, Interrupt, CancelLock,
                        CancelCommit, CancelReturn, Expire, vars, histories
    <3> QED
      BY <3>1
  <2> QED
    BY <2>1, <2>2
<1> QED
  BY <1>1, BaseInvariant, PTL DEF Spec, SilentOnceCancelled

-----------------------------------------------------------------------------
(* Which iterators are erased, whatever threads cancel *)

Cancelling(u) == upc[u] \in {"cancel", "release"}

(* A timer that a call of cancel_timer() has locked is still in a list,       *)
(* unless it overlapped another call or its end in the loop thread, or the    *)
(* call itself has erased it before it was handed over, or the loop has ended *)
(* with it.  Only timers that were handed over are requested.                 *)
HeldInv ==
  /\ dangling \subseteq overlapped
  /\ ElementsOf(deletions) \subseteq active
  /\ \A u, v \in Threads :
       Cancelling(u) /\ Cancelling(v) /\ u # v /\ hold[u] = hold[v] => hold[u] \in overlapped
  /\ \A u \in Threads : Cancelling(u) /\ hold[u] \notin Pending \cup overlapped =>
       IF hold[u] \in active THEN lpc = "done" ELSE upc[u] = "release"

(* A call that has locked a timer whose deletion is asked is cancel_timer().  *)
LEMMA LockedCancelling ==
  ASSUME BaseInv, NEW u \in Threads, NEW t \in Timers, hold[u] = t,
         t \in asked \/ ~ \E v \in Threads : upc[v] = "interrupt" /\ hold[v] = t
  PROVE  Cancelling(u)
<1>1. t # None /\ upc[u] \in {"idle", "interrupt", "cancel", "release"}
  BY EmitterConstants DEF BaseInv, TypeOK
<1> QED
  BY <1>1 DEF BaseInv, CallInv, Cancelling

(* The loop thread executes the deletions.                                    *)
LEMMA UpdateHeld ==
  ASSUME BaseInv, HeldInv, Update
  PROVE  HeldInv'
<1>1. /\ ElementsOf(list)' = (ElementsOf(list) \cup ElementsOf(additions)) \ ElementsOf(deletions)
      /\ ElementsOf(additions)' = {} /\ ElementsOf(deletions)' = {}
  BY LoopLists
<1>2. /\ upc' = upc /\ hold' = hold /\ lpc = "update"
      /\ active' = active \cup ElementsOf(additions)
      /\ overlapped' = overlapped \cup {t \in Pending \cap ElementsOf(deletions) : Locked(t)}
  BY DEF Update
<1>3. Pending' = Pending \ ElementsOf(deletions) /\ ElementsOf(additions) \subseteq Pending
  BY <1>1 DEF Pending
<1>4. \A u \in Threads : Cancelling(u)' <=> Cancelling(u)
  BY <1>2 DEF Cancelling
<1>5. dangling' \subseteq overlapped'
  <2> SUFFICES ASSUME NEW t \in dangling' PROVE t \in overlapped'
    OBVIOUS
  <2>1. PICK k \in 1..Len(deletions) :
          LET now == Pending \ {deletions[j] : j \in 1..(k - 1)}
          IN t = deletions[k] /\ Lockable(now, deletions[k]) /\ deletions[k] \notin now
    BY Zenon DEF Update, ExecuteDeletions
  <2>2. t \in ElementsOf(deletions) /\ Locked(t)
    BY <2>1 DEF Lockable, ElementsOf
  <2>3. t \in asked /\ t \in Timers /\ t \in active
    BY <2>2 DEF BaseInv, OwnInv, TypeOK, HeldInv
  <2>4. PICK u \in Threads : hold[u] = t
    BY <2>2 DEF Locked
  <2>5. Cancelling(u)
    BY <2>3, <2>4, LockedCancelling
  <2>6. t \in Pending \cup overlapped
    BY <2>3, <2>4, <2>5, <1>2 DEF HeldInv
  <2> QED
    BY <2>2, <2>6, <1>2
<1>6. ASSUME NEW u \in Threads, Cancelling(u), hold[u] \notin (Pending \cup overlapped)'
      PROVE  hold[u] \notin active' /\ upc[u] = "release"
  <2>1. Locked(hold[u])
    BY DEF Locked
  <2>2. hold[u] \notin Pending \cup overlapped
    BY <1>2, <1>3, <1>6, <2>1
  <2> QED
    BY <1>2, <1>3, <1>6, <2>2 DEF HeldInv
<1> QED
  BY <1>1, <1>2, <1>4, <1>5, <1>6 DEF HeldInv

(* The callback of a timer returns, or the loop ends with its list.           *)
LEMMA EndHeld ==
  ASSUME BaseInv, HeldInv, FireReturn \/ Check
  PROVE  HeldInv'
<1>1. /\ UNCHANGED <<upc, hold, dangling, additions, deletions, active>> /\ lpc # "done"
      /\ overlapped \subseteq overlapped'
  BY DEF FireReturn, Check, histories
<1>2. /\ ElementsOf(additions)' = ElementsOf(additions)
      /\ ElementsOf(deletions)' = ElementsOf(deletions)
      /\ \A u \in Threads : Cancelling(u)' <=> Cancelling(u)
  BY <1>1 DEF ElementsOf, Cancelling
<1>3. ASSUME NEW u \in Threads, Cancelling(u), hold[u] \in Pending, hold[u] \notin (Pending \cup overlapped)'
      PROVE  hold[u] \in active /\ lpc' = "done"
  <2>1. hold[u] \in ElementsOf(list) /\ hold[u] \notin ElementsOf(list)'
    BY <1>2, <1>3 DEF Pending
  <2>2. hold[u] \in active
    BY <2>1 DEF BaseInv, OwnInv
  <2>3. CASE FireReturn
    <3>1. hold[u] = list[cursor]
      BY <2>1, <2>3, LoopLists
    <3>2. hold[u] \in overlapped'
      BY <2>3, <3>1 DEF FireReturn, Locked
    <3> QED
      BY <3>2, <1>3
  <2>4. CASE Check
    <3>1. list' # list
      BY <2>1 DEF ElementsOf
    <3> QED
      BY <3>1, <2>2, <2>4 DEF Check
  <2> QED
    BY <2>3, <2>4
<1> QED
  BY <1>1, <1>2, <1>3 DEF HeldInv

(* The calls.                                                                 *)
LEMMA CallHeld ==
  ASSUME BaseInv, HeldInv, NEW u \in Threads, AnyCall(u)
  PROVE  HeldInv'
<1>1. /\ upc \in [Threads -> {"idle", "interrupt", "cancel", "release"}]
      /\ hold \in [Threads -> Timers \cup {None}] /\ None \notin Timers
      /\ additions \in Seq(Timers) /\ HeldInv
  BY EmitterConstants DEF BaseInv, TypeOK
<1>2. CASE AddTimer(u)
  <2>1. PICK t \in Timers : additions' = Append(additions, t) /\ hold' = [hold EXCEPT ![u] = t]
    BY <1>2 DEF AddTimer
  <2>2. Pending \subseteq Pending'
    <3>1. ElementsOf(additions') = ElementsOf(additions) \cup {t}
      BY <1>1, <2>1, AppendElements
    <3>2. ElementsOf(additions)' = ElementsOf(additions') /\ ElementsOf(list)' = ElementsOf(list)
      BY <1>2 DEF AddTimer, ElementsOf
    <3> QED
      BY <3>1, <3>2 DEF Pending
  <2>3. /\ upc' = [upc EXCEPT ![u] = "interrupt"]
        /\ UNCHANGED <<dangling, overlapped, active, lpc, deletions>>
    BY <1>2 DEF AddTimer
  <2> QED
    BY <1>1, <2>1, <2>2, <2>3 DEF HeldInv, Cancelling, ElementsOf
<1>3. CASE Stop(u) \/ Interrupt(u) \/ CancelReturn(u)
  <2>1. UNCHANGED <<dangling, overlapped, active, lpc, deletions, Pending>>
    BY <1>3 DEF Stop, Interrupt, CancelReturn, Pending, ElementsOf
  <2>2. /\ upc'[u] \in {"idle", "interrupt"}
        /\ \A v \in Threads \ {u} : upc'[v] = upc[v] /\ hold'[v] = hold[v]
    BY <1>1, <1>3 DEF Stop, Interrupt, CancelReturn
  <2>3. ElementsOf(deletions)' = ElementsOf(deletions)
    BY <2>1 DEF ElementsOf
  <2> QED
    BY <1>1, <2>1, <2>2, <2>3 DEF HeldInv, Cancelling
<1>4. ASSUME NEW t \in Timers, CancelLock(u, t) PROVE HeldInv'
  <2>1. /\ upc' = [upc EXCEPT ![u] = "cancel"] /\ hold' = [hold EXCEPT ![u] = t]
        /\ overlapped' = overlapped \cup {s \in {t} : Locked(s)}
        /\ Alive(t)
    BY <1>4 DEF CancelLock
  <2>2. UNCHANGED <<dangling, active, lpc, deletions, Pending>>
    BY <1>4 DEF CancelLock, Pending, ElementsOf
  <2>3. /\ upc'[u] = "cancel" /\ hold'[u] = t
        /\ \A v \in Threads \ {u} : upc'[v] = upc[v] /\ hold'[v] = hold[v]
    BY <1>1, <2>1
  <2>4. \A v \in Threads \ {u} : hold'[v] = t => t \in overlapped'
    BY <2>1, <2>3 DEF Locked
  <2>5. t \in Pending' \cup overlapped'
    BY <2>1, <2>2 DEF Alive
  <2>6. ElementsOf(deletions)' = ElementsOf(deletions)
    BY <2>2 DEF ElementsOf
  <2> QED
    BY <1>1, <2>1, <2>2, <2>3, <2>4, <2>5, <2>6 DEF HeldInv, Cancelling
<1>5. CASE CancelCommit(u)
  <2> DEFINE t == hold[u]
  <2>1. /\ upc[u] = "cancel" /\ upc' = [upc EXCEPT ![u] = "release"] /\ hold' = hold
        /\ UNCHANGED <<overlapped, active, lpc, list>>
    BY <1>5 DEF CancelCommit
  <2>2. /\ ElementsOf(additions)' = ElementsOf(additions) \ {t}
        /\ ElementsOf(deletions)' = ElementsOf(deletions) \cup (IF t \in active THEN {t} ELSE {})
    BY <1>5, CommitLists
  <2>3. /\ upc'[u] = "release"
        /\ \A v \in Threads : Cancelling(v)' <=> Cancelling(v)
        /\ Cancelling(u)
        /\ \A v \in Threads \ {u} : upc'[v] = upc[v]
    BY <1>1, <2>1 DEF Cancelling
  <2>4. ElementsOf(list)' = ElementsOf(list)
    BY <2>1 DEF ElementsOf
  <2>5. ElementsOf(list) \subseteq active /\ ElementsOf(additions) \cap active = {}
    BY DEF BaseInv, OwnInv
  <2>6. dangling' \subseteq overlapped
    <3>1. CASE dangling' = dangling
      BY <1>1, <3>1 DEF HeldInv
    <3>2. CASE t \notin active /\ t \notin ElementsOf(additions) /\ dangling' = {t}
      <4>1. t \notin Pending
        BY <2>5, <3>2 DEF Pending
      <4> QED
        BY <1>1, <2>1, <2>3, <3>2, <4>1 DEF HeldInv
    <3> QED
      BY <1>5, <3>1, <3>2 DEF CancelCommit, RequestOrErase
  <2>7. ASSUME NEW v \in Threads, Cancelling(v), hold[v] \notin (Pending \cup overlapped)'
        PROVE  IF hold[v] \in active THEN lpc = "done" ELSE upc'[v] = "release"
    <3>1. CASE hold[v] \notin Pending
      BY <1>1, <2>1, <2>3, <2>7, <3>1 DEF HeldInv
    <3>2. CASE hold[v] \in Pending
      <4>1. hold[v] = t /\ t \in ElementsOf(additions)
        BY <2>2, <2>4, <2>7, <3>2 DEF Pending
      <4>2. v = u
        BY <1>1, <2>1, <2>3, <2>7, <4>1 DEF HeldInv
      <4> QED
        BY <2>3, <2>5, <4>1, <4>2
    <3> QED
      BY <3>1, <3>2
  <2> QED
    BY <1>1, <2>1, <2>2, <2>3, <2>6, <2>7 DEF HeldInv
<1> QED
  BY <1>2, <1>3, <1>4, <1>5 DEF AnyCall

(* Every step.                                                                *)
LEMMA HeldKept ==
  ASSUME BaseInv, HeldInv, Step
  PROVE  HeldInv'
<1>1. ASSUME UNCHANGED <<upc, hold, dangling, overlapped, additions, deletions, list, active>>,
             lpc = "done" => lpc' = "done"
      PROVE  HeldInv'
  <2>1. ElementsOf(deletions)' = ElementsOf(deletions) /\ Pending' = Pending
    BY <1>1 DEF ElementsOf, Pending
  <2> QED
    BY <1>1, <2>1 DEF HeldInv, Cancelling
<1>2. CASE Bind \/ Fire \/ Skip \/ ScanEnd \/ WaitReturn \/ DispatchEnd
  BY <1>1, <1>2 DEF Bind, Fire, Skip, ScanEnd, WaitReturn, DispatchEnd, histories
<1>3. CASE StartAsync \/ StartReturn \/ (\E t \in Timers : Expire(t)) \/ UNCHANGED vars
  BY <1>1, <1>3 DEF StartAsync, StartReturn, Expire, vars, histories
<1> QED
  BY <1>2, <1>3, UpdateHeld, EndHeld, CallHeld DEF Step, LoopStep

(* Whatever threads cancel, add or stop, an iterator that is in no list is    *)
(* erased only for a timer whose calls overlapped: two calls of               *)
(* cancel_timer(), or one of them and the end of the timer in the loop thread *)
(* (event.h loop(), cancel_timer()).                                          *)
THEOREM ErasesOnlyMembers == Spec => []NoDanglingErase
<1>1. Init => HeldInv
  BY DEF Init, HeldInv, Cancelling, ElementsOf
<1>2. BaseInv /\ HeldInv /\ [Next]_vars => HeldInv'
  BY NextStep, HeldKept
<1>3. HeldInv => NoDanglingErase
  BY DEF HeldInv, NoDanglingErase
<1> QED
  BY <1>1, <1>2, <1>3, BaseInvariant, PTL DEF Spec
-----------------------------------------------------------------------------
(* The retransmit timer *)

(* The timers of the emitter that will still fire. *)
Live == Pending \ (asked \cup Firing)

UdpTypes ==
  /\ txLock \in Threads \cup {None} /\ waiting \in BOOLEAN /\ hwnd \in Timers \cup {None}
  /\ rpc \in [Threads -> {"out", "fired", "reset", "cancel", "cancelling", "add", "adding"}]

(* reset_retransmit_timer() makes its calls with _tx_lock held, in order, and *)
(* no other thread is inside the emitter.                                     *)
ResetInv ==
  /\ \A u \in Threads : rpc[u] \in {"cancel", "cancelling", "add", "adding"} <=> txLock = u
  /\ \A u \in Threads : upc[u] \in {"cancel", "release"} <=> rpc[u] = "cancelling"
  /\ \A u \in Threads : upc[u] = "interrupt" <=> rpc[u] = "adding"
  /\ \A u \in Threads : rpc[u] = "cancelling" => hold[u] = hwnd
  /\ \A u \in Threads : rpc[u] = "adding" => hold[u] # None
  /\ rpc[Loop] # "out" => lpc \in {"callback", "dispatch"}
  /\ lpc # "off" => running

(* A timer is added when none is left to fire, and until the handle is stored *)
(* it is the one its adder holds; while frames wait there is such a timer, or *)
(* a thread that will add one.                                                *)
LiveInv ==
  /\ \A u \in Threads : rpc[u] = "add" \/ upc[u] = "release" => Live = {}
  /\ \A u \in Threads : rpc[u] = "adding" => Live \subseteq {hold[u]}
  /\ (\A u \in Threads : rpc[u] \notin {"add", "adding"}) => Live \subseteq {hwnd}
  /\ waiting => \/ hwnd \in Live
                \/ \E u \in Threads : rpc[u] = "adding" /\ hold[u] \in Live
                \/ \E u \in Threads : rpc[u] \notin {"out", "adding"}

UdpInv == BaseInv /\ UdpTypes /\ ResetInv /\ LiveInv

(* Every step of the composition is a step of the emitter, or leaves it alone. *)
LEMMA UdpStep ==
  ASSUME UdpInv, [UdpNext]_allVars
  PROVE  Step
<1> USE DEF Step, AnyCall, LoopStep
<1>1. ASSUME NEW u \in Threads, ResetCancel(u) PROVE Step
  <2>1. hwnd # None => hwnd \in Timers
    BY DEF UdpInv, UdpTypes
  <2> QED
    BY <1>1, <2>1 DEF ResetCancel
<1>2. ASSUME NEW u \in Threads, Send(u) \/ ResetLock(u) \/ ResetIdle(u) PROVE Step
  BY <1>2 DEF Send, ResetLock, ResetIdle
<1>3. ASSUME NEW u \in Threads,
             ResetCancelCommit(u) \/ ResetCancelReturn(u) \/ ResetAdd(u) \/ ResetAdded(u)
      PROVE  Step
  BY <1>3 DEF ResetCancelCommit, ResetCancelReturn, ResetAdd, ResetAdded
<1>4. CASE OnAck \/ FireRetransmit \/ OnRetransmitTimer \/ LoopReturns \/ LoopQuiet \/ Environment
  BY <1>4 DEF OnAck, FireRetransmit, OnRetransmitTimer, LoopReturns, LoopQuiet, Environment
<1>5. CASE UNCHANGED allVars
  BY <1>5 DEF allVars
<1> QED
  BY <1>1, <1>2, <1>3, <1>4, <1>5 DEF UdpNext, ResetStep

(* What the steps of the emitter do to the timers that will fire.             *)
LEMMA LiveSame ==
  ASSUME UNCHANGED <<list, additions, asked>>,
         (lpc # "callback" /\ lpc' # "callback") \/ UNCHANGED <<lpc, cursor>>
  PROVE  Live' = Live
BY DEF Live, Pending, Firing, ElementsOf

LEMMA LiveAdd ==
  ASSUME BaseInv, NEW u \in Threads, AddTimer(u)
  PROVE  hold'[u] \in Timers /\ Live' = Live \cup {hold'[u]}
<1>1. PICK t \in Timers \ created : additions' = Append(additions, t) /\ hold' = [hold EXCEPT ![u] = t]
  BY DEF AddTimer
<1>2. hold'[u] = t
  BY <1>1 DEF BaseInv, TypeOK
<1>3. ElementsOf(additions)' = ElementsOf(additions) \cup {t}
  <2>1. ElementsOf(additions)' = ElementsOf(additions')
    BY DEF ElementsOf
  <2> QED
    BY <2>1, <1>1, AppendElements DEF BaseInv, TypeOK
<1>4. Firing' = Firing /\ ElementsOf(list)' = ElementsOf(list) /\ asked' = asked
  BY DEF AddTimer, Firing, ElementsOf
<1>5. Firing \subseteq ElementsOf(list)
  BY DEF Firing, ElementsOf, BaseInv, TypeOK, LoopInv
<1>6. t \notin asked \cup Firing
  BY <1>5 DEF BaseInv, OwnInv
<1> QED
  BY <1>2, <1>3, <1>4, <1>6 DEF Live, Pending

LEMMA LiveCommit ==
  ASSUME BaseInv, NEW u \in Threads, CancelCommit(u)
  PROVE  Live' = Live \ {hold[u]}
<1>1. /\ Firing' = Firing /\ ElementsOf(list)' = ElementsOf(list)
      /\ asked' = asked \cup {hold[u]}
  BY DEF CancelCommit, Firing, ElementsOf
<1> QED
  BY <1>1, CommitLists DEF Live, Pending

LEMMA LiveLoop ==
  ASSUME BaseInv, LoopStep, lpc # "off" => running
  PROVE  Live' \subseteq Live /\ (~Fire => Live' = Live)
<1>1. CASE Bind \/ Skip \/ ScanEnd \/ WaitReturn \/ DispatchEnd \/ Check
  <2>1. /\ UNCHANGED <<list, additions, asked>>
        /\ lpc # "callback" /\ lpc' # "callback"
    BY <1>1 DEF Bind, Skip, ScanEnd, WaitReturn, DispatchEnd, Check, histories
  <2> QED
    BY <2>1, LiveSame
<1>2. CASE Update
  <2>1. Firing = {} /\ Firing' = {} /\ asked' = asked
    BY <1>2 DEF Update, Firing
  <2>2. /\ ElementsOf(list)' = (ElementsOf(list) \cup ElementsOf(additions)) \ ElementsOf(deletions)
        /\ ElementsOf(additions)' = {} /\ ElementsOf(deletions) \subseteq asked
    BY <1>2, LoopLists DEF BaseInv, OwnInv
  <2> QED
    BY <2>1, <2>2 DEF Live, Pending
<1>3. CASE Fire
  <2>1. UNCHANGED <<list, additions, asked, cursor>> /\ lpc = "scan" /\ lpc' = "callback"
    BY <1>3 DEF Fire
  <2> QED
    BY <1>3, <2>1 DEF Live, Pending, Firing, ElementsOf
<1>4. CASE FireReturn
  <2>1. /\ Firing = {list[cursor]} /\ Firing' = {} /\ asked' = asked
        /\ ElementsOf(additions)' = ElementsOf(additions)
    BY <1>4 DEF FireReturn, Firing, ElementsOf, histories
  <2>2. cursor \in 1..Len(list) /\ ElementsOf(list)' = ElementsOf(list) \ {list[cursor]}
    BY <1>4, LoopLists
  <2>3. list[cursor] \in ElementsOf(list)
    BY <2>2 DEF ElementsOf
  <2>4. list[cursor] \notin ElementsOf(additions)
    BY <2>3 DEF BaseInv, OwnInv
  <2> QED
    BY <2>1, <2>2, <2>4 DEF Live, Pending
<1> QED
  BY <1>1, <1>2, <1>3, <1>4 DEF LoopStep
(* What the proofs of the steps use of the invariant. *)
LEMMA UdpShape ==
  ASSUME UdpInv
  PROVE  /\ UdpTypes /\ ResetInv /\ LiveInv /\ BaseInv
         /\ Loop \in Threads /\ None \notin Timers /\ None \notin Threads
         /\ upc \in [Threads -> {"idle", "interrupt", "cancel", "release"}]
         /\ hold \in [Threads -> Timers \cup {None}]
         /\ Live \subseteq Timers
<1>1. ElementsOf(additions) \subseteq Timers /\ ElementsOf(list) \subseteq Timers
  BY DEF UdpInv, BaseInv, TypeOK, ElementsOf
<1> QED
  BY <1>1, EmitterConstants DEF UdpInv, BaseInv, TypeOK, Threads, Live, Pending

(* A caller on its way to reset_retransmit_timer(). *)
LEMMA ComingKept ==
  ASSUME UdpInv, (\E u \in Threads : Send(u)) \/ OnAck \/ OnRetransmitTimer
  PROVE  UdpTypes' /\ ResetInv' /\ LiveInv'
<1>1. PICK u \in Threads :
        /\ rpc[u] \in {"out", "fired"} /\ rpc' = [rpc EXCEPT ![u] = "reset"]
        /\ UNCHANGED <<vars, txLock, hwnd>> /\ waiting' \in {TRUE, FALSE, waiting}
        /\ u = Loop => lpc \in {"callback", "dispatch"}
  <2>1. ASSUME NEW u \in Threads, Send(u)
        PROVE  /\ rpc[u] \in {"out", "fired"} /\ rpc' = [rpc EXCEPT ![u] = "reset"]
               /\ UNCHANGED <<vars, txLock, hwnd>> /\ waiting' \in {TRUE, FALSE, waiting}
               /\ u # Loop
    BY <2>1, EmitterConstants DEF Send, At
  <2>2. CASE OnAck \/ OnRetransmitTimer
    BY <2>2, UdpShape DEF OnAck, OnRetransmitTimer, At, ResetInv
  <2> QED
    BY <2>1, <2>2
<1>2. Live' = Live /\ UNCHANGED <<upc, hold, lpc, running>>
  BY <1>1, LiveSame DEF vars
<1>3. rpc'[u] = "reset" /\ \A v \in Threads \ {u} : rpc'[v] = rpc[v]
  BY <1>1, UdpShape DEF UdpTypes
<1>4. UdpTypes'
  BY <1>1, UdpShape DEF UdpTypes
<1>5. ResetInv'
  BY <1>1, <1>2, <1>3, UdpShape DEF ResetInv
<1>6. LiveInv'
  BY <1>1, <1>2, <1>3, UdpShape DEF LiveInv
<1> QED
  BY <1>4, <1>5, <1>6

(* The steps inside reset_retransmit_timer(). *)
LEMMA ResetKept ==
  ASSUME UdpInv, NEW u \in Threads, ResetStep(u)
  PROVE  UdpTypes' /\ ResetInv' /\ LiveInv'
<1>1. CASE ResetLock(u)
  <2>1. /\ rpc[u] = "reset" /\ txLock = None /\ txLock' = u
        /\ rpc' = [rpc EXCEPT ![u] = "cancel"]
        /\ UNCHANGED <<vars, waiting, hwnd>>
    BY <1>1 DEF ResetLock, At
  <2>2. Live' = Live /\ UNCHANGED <<upc, hold, lpc, running>>
    BY <2>1, LiveSame DEF vars
  <2>3. rpc'[u] = "cancel" /\ \A v \in Threads \ {u} : rpc'[v] = rpc[v]
    BY <2>1, UdpShape DEF UdpTypes
  <2>4. UdpTypes'
    BY <2>1, UdpShape DEF UdpTypes
  <2>5. ResetInv'
    BY <2>1, <2>2, <2>3, UdpShape DEF ResetInv
  <2>6. LiveInv'
    BY <2>1, <2>2, <2>3, UdpShape DEF LiveInv
  <2> QED
    BY <2>4, <2>5, <2>6
<1>2. CASE ResetCancel(u)
  <2>1. rpc[u] = "cancel" /\ UNCHANGED <<txLock, waiting, hwnd>> /\ txLock = u
    BY <1>2, UdpShape DEF ResetCancel, ResetInv
  <2>2. Live \subseteq {hwnd}
    BY <2>1, UdpShape DEF ResetInv, LiveInv
  <2>3. CASE hwnd # None /\ CancelLock(u, hwnd) /\ At(u, "cancelling")
    <3>1. /\ rpc' = [rpc EXCEPT ![u] = "cancelling"]
          /\ upc' = [upc EXCEPT ![u] = "cancel"] /\ hold' = [hold EXCEPT ![u] = hwnd]
          /\ UNCHANGED <<lpc, running>>
      BY <2>3 DEF CancelLock, At
    <3>2. Live' = Live
      BY <2>3, LiveSame DEF CancelLock
    <3>3. /\ rpc'[u] = "cancelling" /\ upc'[u] = "cancel" /\ hold'[u] = hwnd
          /\ \A v \in Threads \ {u} : rpc'[v] = rpc[v] /\ upc'[v] = upc[v] /\ hold'[v] = hold[v]
      BY <3>1, UdpShape DEF UdpTypes
    <3>4. UdpTypes'
      BY <2>1, <3>1, UdpShape DEF UdpTypes
    <3>5. ResetInv'
      BY <2>1, <3>1, <3>3, UdpShape DEF ResetInv
    <3>6. LiveInv'
      BY <2>1, <2>2, <3>2, <3>3, UdpShape DEF LiveInv
    <3> QED
      BY <3>4, <3>5, <3>6
  <2>4. CASE (hwnd = None \/ ~Alive(hwnd)) /\ At(u, "add") /\ UNCHANGED vars
    <3>1. Live' = Live /\ UNCHANGED <<upc, hold, lpc, running>> /\ rpc' = [rpc EXCEPT ![u] = "add"]
      BY <2>4, LiveSame DEF vars, At
    <3>2. Live = {}
      BY <2>2, <2>4, UdpShape DEF Live, Pending, Alive
    <3>3. rpc'[u] = "add" /\ \A v \in Threads \ {u} : rpc'[v] = rpc[v]
      BY <3>1, UdpShape DEF UdpTypes
    <3>4. UdpTypes'
      BY <2>1, <3>1, UdpShape DEF UdpTypes
    <3>5. ResetInv'
      BY <2>1, <3>1, <3>3, UdpShape DEF ResetInv
    <3>6. LiveInv'
      BY <2>1, <3>1, <3>2, <3>3, UdpShape DEF LiveInv
    <3> QED
      BY <3>4, <3>5, <3>6
  <2> QED
    BY <1>2, <2>3, <2>4 DEF ResetCancel
<1>3. CASE ResetCancelCommit(u)
  <2>1. /\ upc[u] = "cancel" /\ upc' = [upc EXCEPT ![u] = "release"]
        /\ UNCHANGED <<hold, lpc, running, txLock, waiting, hwnd, rpc>>
    BY <1>3 DEF ResetCancelCommit, CancelCommit, udpVars
  <2>2. rpc[u] = "cancelling" /\ hold[u] = hwnd /\ txLock = u
    BY <2>1, UdpShape DEF ResetInv
  <2>3. Live \subseteq {hwnd}
    BY <2>2, UdpShape DEF ResetInv, LiveInv
  <2>4. Live' = {}
    <3>1. Live' = Live \ {hold[u]}
      BY <1>3, UdpShape, LiveCommit DEF ResetCancelCommit
    <3> QED
      BY <3>1, <2>2, <2>3
  <2>5. upc'[u] = "release" /\ \A v \in Threads \ {u} : upc'[v] = upc[v]
    BY <2>1, UdpShape
  <2>6. UdpTypes'
    BY <2>1, UdpShape DEF UdpTypes
  <2>7. ResetInv'
    BY <2>1, <2>2, <2>5, UdpShape DEF ResetInv
  <2>8. LiveInv'
    BY <2>1, <2>2, <2>4, UdpShape DEF LiveInv
  <2> QED
    BY <2>6, <2>7, <2>8
<1>4. CASE ResetCancelReturn(u)
  <2>1. /\ upc[u] = "release" /\ upc' = [upc EXCEPT ![u] = "idle"]
        /\ hold' = [hold EXCEPT ![u] = None] /\ rpc' = [rpc EXCEPT ![u] = "add"]
        /\ UNCHANGED <<lpc, running, txLock, waiting, hwnd>>
    BY <1>4 DEF ResetCancelReturn, CancelReturn, At
  <2>2. rpc[u] = "cancelling" /\ txLock = u /\ Live = {}
    BY <2>1, UdpShape DEF ResetInv, LiveInv
  <2>3. Live' = {}
    <3>1. Live' = Live
      BY <1>4, LiveSame DEF ResetCancelReturn, CancelReturn
    <3> QED
      BY <3>1, <2>2
  <2>4. /\ upc'[u] = "idle" /\ rpc'[u] = "add"
        /\ \A v \in Threads \ {u} : upc'[v] = upc[v] /\ rpc'[v] = rpc[v] /\ hold'[v] = hold[v]
    BY <2>1, UdpShape DEF UdpTypes
  <2>5. UdpTypes'
    BY <2>1, UdpShape DEF UdpTypes
  <2>6. ResetInv'
    BY <2>1, <2>2, <2>4, UdpShape DEF ResetInv
  <2>7. LiveInv'
    BY <2>1, <2>2, <2>3, <2>4, UdpShape DEF LiveInv
  <2> QED
    BY <2>5, <2>6, <2>7
<1>5. CASE ResetAdd(u)
  <2>1. /\ rpc[u] = "add" /\ waiting /\ rpc' = [rpc EXCEPT ![u] = "adding"]
        /\ upc[u] = "idle" /\ upc' = [upc EXCEPT ![u] = "interrupt"]
        /\ \E t \in Timers : hold' = [hold EXCEPT ![u] = t]
        /\ UNCHANGED <<lpc, running, txLock, waiting, hwnd>>
    BY <1>5 DEF ResetAdd, AddTimer, MayCall, At
  <2>2. txLock = u /\ Live = {}
    BY <2>1, UdpShape DEF ResetInv, LiveInv
  <2>3. hold'[u] \in Timers /\ Live' = {hold'[u]}
    <3>1. hold'[u] \in Timers /\ Live' = Live \cup {hold'[u]}
      BY <1>5, UdpShape, LiveAdd DEF ResetAdd
    <3> QED
      BY <3>1, <2>2
  <2>4. /\ upc'[u] = "interrupt" /\ rpc'[u] = "adding"
        /\ \A v \in Threads \ {u} : upc'[v] = upc[v] /\ rpc'[v] = rpc[v] /\ hold'[v] = hold[v]
    BY <2>1, UdpShape DEF UdpTypes
  <2>5. UdpTypes'
    BY <2>1, UdpShape DEF UdpTypes
  <2>6. ResetInv'
    BY <2>1, <2>2, <2>3, <2>4, UdpShape DEF ResetInv
  <2>7. LiveInv'
    BY <2>1, <2>2, <2>3, <2>4, UdpShape DEF LiveInv, ResetInv
  <2> QED
    BY <2>5, <2>6, <2>7
<1>6. CASE ResetAdded(u)
  <2>1. /\ upc[u] = "interrupt" /\ upc' = [upc EXCEPT ![u] = "idle"]
        /\ hold' = [hold EXCEPT ![u] = None] /\ rpc' = [rpc EXCEPT ![u] = "out"]
        /\ hwnd' = hold[u] /\ txLock' = None
        /\ UNCHANGED <<lpc, running, waiting>>
    BY <1>6 DEF ResetAdded, Interrupt, At
  <2>2. rpc[u] = "adding" /\ txLock = u /\ hold[u] \in Timers /\ Live \subseteq {hold[u]}
    BY <2>1, UdpShape DEF ResetInv, LiveInv
  <2>3. Live' = Live
    BY <1>6, LiveSame DEF ResetAdded, Interrupt
  <2>4. /\ upc'[u] = "idle" /\ rpc'[u] = "out"
        /\ \A v \in Threads \ {u} : upc'[v] = upc[v] /\ rpc'[v] = rpc[v] /\ hold'[v] = hold[v]
    BY <2>1, UdpShape DEF UdpTypes
  <2>5. UdpTypes'
    BY <2>1, <2>2, UdpShape DEF UdpTypes
  <2>6. ResetInv'
    BY <2>1, <2>2, <2>4, UdpShape DEF ResetInv
  <2>7. LiveInv'
    BY <2>1, <2>2, <2>3, <2>4, UdpShape DEF LiveInv, ResetInv
  <2> QED
    BY <2>5, <2>6, <2>7
<1>7. CASE ResetIdle(u)
  <2>1. /\ rpc[u] = "add" /\ ~waiting /\ txLock' = None /\ rpc' = [rpc EXCEPT ![u] = "out"]
        /\ UNCHANGED <<vars, waiting, hwnd>>
    BY <1>7 DEF ResetIdle, At
  <2>2. Live' = Live /\ UNCHANGED <<upc, hold, lpc, running>>
    BY <2>1, LiveSame DEF vars
  <2>3. txLock = u /\ Live = {}
    BY <2>1, UdpShape DEF ResetInv, LiveInv
  <2>4. rpc'[u] = "out" /\ \A v \in Threads \ {u} : rpc'[v] = rpc[v]
    BY <2>1, UdpShape DEF UdpTypes
  <2>5. UdpTypes'
    BY <2>1, UdpShape DEF UdpTypes
  <2>6. ResetInv'
    BY <2>1, <2>2, <2>3, <2>4, UdpShape DEF ResetInv
  <2>7. LiveInv'
    BY <2>1, <2>2, <2>3, <2>4, UdpShape DEF LiveInv
  <2> QED
    BY <2>5, <2>6, <2>7
<1> QED
  BY <1>1, <1>2, <1>3, <1>4, <1>5, <1>6, <1>7 DEF ResetStep

(* The rest of the loop thread, and its environment. *)
LEMMA RestKept ==
  ASSUME UdpInv, FireRetransmit \/ LoopReturns \/ LoopQuiet \/ Environment \/ UNCHANGED allVars
  PROVE  UdpTypes' /\ ResetInv' /\ LiveInv'
<1>0. lpc # "off" => running
  BY UdpShape DEF ResetInv
<1>1. CASE FireRetransmit
  <2>1. /\ lpc = "scan" /\ lpc' = "callback" /\ rpc' = [rpc EXCEPT ![Loop] = "fired"]
        /\ UNCHANGED <<upc, hold, running, txLock, waiting, hwnd>>
    BY <1>1 DEF FireRetransmit, Fire, At
  <2>2. rpc[Loop] = "out"
    BY <2>1, UdpShape DEF ResetInv
  <2>3. Live' \subseteq Live
    BY <1>0, <1>1, UdpShape, LiveLoop DEF FireRetransmit, LoopStep
  <2>4. rpc'[Loop] = "fired" /\ \A v \in Threads \ {Loop} : rpc'[v] = rpc[v]
    BY <2>1, UdpShape DEF UdpTypes
  <2>5. UdpTypes'
    BY <2>1, UdpShape DEF UdpTypes
  <2>6. ResetInv'
    BY <2>1, <2>2, <2>4, UdpShape DEF ResetInv
  <2>7. LiveInv'
    BY <2>1, <2>2, <2>3, <2>4, UdpShape DEF LiveInv
  <2> QED
    BY <2>5, <2>6, <2>7
<1>2. ASSUME Live' = Live, UNCHANGED <<upc, hold, txLock, waiting, hwnd, rpc>>,
             rpc[Loop] # "out" => lpc' \in {"callback", "dispatch"}, lpc' # "off" => running'
      PROVE  UdpTypes' /\ ResetInv' /\ LiveInv'
  <2>1. UdpTypes'
    BY <1>2, UdpShape DEF UdpTypes
  <2>2. ResetInv'
    BY <1>2, UdpShape DEF ResetInv
  <2>3. LiveInv'
    BY <1>2, UdpShape DEF LiveInv
  <2> QED
    BY <2>1, <2>2, <2>3
<1>3. CASE LoopReturns \/ LoopQuiet
  <2>1. LoopStep /\ ~Fire /\ UNCHANGED <<upc, hold, running, txLock, waiting, hwnd, rpc>>
    BY <1>3 DEF LoopReturns, LoopQuiet, LoopStep, Bind, Check, Update, Fire, FireReturn, Skip, ScanEnd,
                WaitReturn, DispatchEnd, udpVars
  <2>2. rpc[Loop] # "out" => lpc' \in {"callback", "dispatch"}
    <3>1. CASE LoopReturns
      BY <3>1 DEF LoopReturns
    <3>2. CASE LoopQuiet
      BY <3>2, UdpShape DEF LoopQuiet, ResetInv, Bind, Check, Update, Skip, ScanEnd, WaitReturn
    <3> QED
      BY <1>3, <3>1, <3>2
  <2>3. lpc # "off"
    BY <1>3 DEF LoopReturns, LoopQuiet, Bind, Check, Update, FireReturn, Skip, ScanEnd, WaitReturn,
                DispatchEnd
  <2>4. Live' = Live
    BY <1>0, <2>1, UdpShape, LiveLoop
  <2> QED
    BY <1>0, <1>2, <2>1, <2>2, <2>3, <2>4
<1>4. CASE Environment
  <2>1. /\ UNCHANGED <<list, additions, asked, upc, hold, txLock, waiting, hwnd, rpc>>
        /\ \/ lpc = "off" /\ lpc' = "bind" /\ running'
           \/ UNCHANGED <<lpc, cursor, running>>
    BY <1>4 DEF Environment, StartAsync, StartReturn, Expire, udpVars, histories
  <2>2. Live' = Live
    BY <2>1, LiveSame
  <2>3. rpc[Loop] # "out" => lpc' \in {"callback", "dispatch"}
    BY <2>1, UdpShape DEF ResetInv
  <2>4. lpc' # "off" => running'
    BY <1>0, <2>1
  <2> QED
    BY <1>2, <2>1, <2>2, <2>3, <2>4
<1>5. CASE UNCHANGED allVars
  <2>1. /\ UNCHANGED <<list, additions, asked, upc, hold, txLock, waiting, hwnd, rpc>>
        /\ UNCHANGED <<lpc, cursor, running>>
    BY <1>5 DEF allVars, vars, udpVars
  <2>2. Live' = Live
    BY <2>1, LiveSame
  <2>3. rpc[Loop] # "out" => lpc' \in {"callback", "dispatch"}
    BY <2>1, UdpShape DEF ResetInv
  <2> QED
    BY <1>0, <1>2, <2>1, <2>2, <2>3
<1> QED
  BY <1>1, <1>3, <1>4, <1>5

LEMMA UdpInvariant == UdpSpec => []UdpInv
<1>1. UdpInit => UdpInv
  <2> SUFFICES ASSUME UdpInit PROVE UdpInv
    OBVIOUS
  <2>1. BaseInv /\ Live = {}
    <3>1. BaseInv
      BY BaseInit DEF UdpInit
    <3>2. additions = <<>> /\ list = <<>>
      BY DEF UdpInit, Init
    <3>3. Pending = {}
      BY <3>2 DEF Pending, ElementsOf
    <3> QED
      BY <3>1, <3>3 DEF Live
  <2>2. UdpTypes
    <3>1. waiting \in BOOLEAN
      BY Zenon DEF UdpInit
    <3> QED
      BY <3>1 DEF UdpInit, UdpTypes
  <2>3. ResetInv
    BY EmitterConstants DEF UdpInit, Init, ResetInv, Threads
  <2>4. LiveInv
    BY <2>1 DEF UdpInit, Init, LiveInv
  <2> QED
    BY <2>1, <2>2, <2>3, <2>4 DEF UdpInv
<1>2. UdpInv /\ [UdpNext]_allVars => UdpInv'
  <2> SUFFICES ASSUME UdpInv, [UdpNext]_allVars PROVE UdpInv'
    OBVIOUS
  <2>1. BaseInv'
    BY UdpStep, BaseKept DEF UdpInv
  <2>2. UdpTypes' /\ ResetInv' /\ LiveInv'
    BY ComingKept, ResetKept, RestKept DEF UdpNext
  <2> QED
    BY <2>1, <2>2 DEF UdpInv
<1> QED
  BY <1>1, <1>2, PTL DEF UdpSpec

(* Whatever threads reset it, and however their calls and the passes of the   *)
(* loop thread interleave, OPTUDP has at most one retransmit timer that can   *)
(* still fire (opt_udp.cpp reset_retransmit_timer(), event.h).                *)
THEOREM OneTimerFires == UdpSpec => []OneRetransmitTimer
<1>1. UdpInv => OneRetransmitTimer
  <2> SUFFICES ASSUME UdpInv, NEW s \in Live, NEW t \in Live PROVE s = t
    BY DEF OneRetransmitTimer, Live
  <2>1. CASE \E u \in Threads : rpc[u] = "adding"
    BY <2>1 DEF UdpInv, LiveInv
  <2>2. CASE \E u \in Threads : rpc[u] = "add"
    BY <2>2 DEF UdpInv, LiveInv
  <2>3. CASE \A u \in Threads : rpc[u] \notin {"add", "adding"}
    BY <2>3 DEF UdpInv, LiveInv
  <2> QED
    BY <2>1, <2>2, <2>3
<1> QED
  BY <1>1, UdpInvariant, PTL

(* While frames wait for their ACK and no thread is inside a function that    *)
(* resets the timer, the emitter has a retransmit timer that will fire: no    *)
(* interleaving of senders, ACKs and firings leaves the queue without one     *)
(* (opt_udp.cpp send(), on_receive(), on_retransmit_timer()).                 *)
THEOREM WaitingIsTimed == UdpSpec => []RetransmitTimerArmed
<1>1. UdpInv => RetransmitTimerArmed
  <2> SUFFICES ASSUME UdpInv, waiting, \A u \in Threads : rpc[u] = "out"
               PROVE  \E t \in Pending : t = hwnd /\ t \notin asked /\ t \notin Firing
    BY DEF RetransmitTimerArmed
  <2>1. hwnd \in Live
    BY DEF UdpInv, LiveInv
  <2> QED
    BY <2>1 DEF Live
<1> QED
  BY <1>1, UdpInvariant, PTL

-----------------------------------------------------------------------------
(* Callback *)

(* The functor that the i-th call on the stack of u runs. *)
FnAt(S, u, i) == IF i \in 1..Len(S[u]) THEN S[u][i].fn ELSE Null

(* One owner, for a slot that holds c, deleted functors d, functors given to  *)
(* the slot ins and stacks S.  Inductive: unlike OneOwner it also says that   *)
(* nothing but what was given to the slot is in it, runs or is deleted.       *)
Owned(c, d, ins, S) ==
  /\ c \in ins \cup {Null, Checkout}
  /\ d \subseteq ins
  /\ \A u \in Callers, i \in Nat : FnAt(S, u, i) \in ins \cup {Null}
  /\ \A f \in ins :
       /\ f \in d => c # f /\ \A u \in Callers, i \in Nat : FnAt(S, u, i) # f
       /\ f \notin d => c = f \/ \E u \in Callers, i \in Nat : FnAt(S, u, i) = f
       /\ c = f => \A u \in Callers, i \in Nat : FnAt(S, u, i) # f
  /\ \A u, v \in Callers, i, j \in Nat :
       FnAt(S, u, i) = FnAt(S, v, j) => FnAt(S, u, i) = Null \/ (u = v /\ i = j)

SlotInv == SlotTypeOK /\ Owned(cb, deleted, installed, stack)

-----------------------------------------------------------------------------
(* The stacks *)

(* A call that begins adds one running functor, above the others. *)
LEMMA PushFnAt ==
  ASSUME SlotTypeOK, NEW t \in Callers, NEW f \in Functors \cup {Null}, NEW k \in {"call", "once"},
         Push(t, f, k)
  PROVE  /\ stack' \in [Callers -> Seq(CallInProgress)]
         /\ \A u \in Callers, i \in Nat :
              FnAt(stack', u, i) = IF u = t /\ i = Len(stack[t]) + 1 THEN f ELSE FnAt(stack, u, i)
         /\ FnAt(stack, t, Len(stack[t]) + 1) = Null
         /\ Len(stack[t]) + 1 \in Nat
<1> DEFINE c == [fn |-> f, kind |-> k]
<1>1. c \in CallInProgress /\ c.fn = f
  BY DEF CallInProgress
<1>2. stack \in [Callers -> Seq(CallInProgress)] /\ stack[t] \in Seq(CallInProgress) /\ Len(stack[t]) \in Nat
  BY DEF SlotTypeOK
<1>3. stack' = [stack EXCEPT ![t] = Append(stack[t], c)]
  BY DEF Push
<1> HIDE DEF c
<1>4. Append(stack[t], c) \in Seq(CallInProgress)
  BY <1>1, <1>2
<1>5. stack' \in [Callers -> Seq(CallInProgress)]
  BY <1>2, <1>3, <1>4
<1>6. ASSUME NEW i \in Nat
      PROVE  FnAt(stack', t, i) = IF i = Len(stack[t]) + 1 THEN f ELSE FnAt(stack, t, i)
  <2>1. stack'[t] = Append(stack[t], c)
    BY <1>2, <1>3
  <2>2. CASE i = Len(stack[t]) + 1
    BY <1>1, <1>2, <2>1, <2>2 DEF FnAt
  <2>3. CASE i # Len(stack[t]) + 1
    BY <1>1, <1>2, <2>1, <2>3 DEF FnAt
  <2> QED
    BY <2>2, <2>3
<1>7. ASSUME NEW u \in Callers, u # t, NEW i \in Nat
      PROVE  FnAt(stack', u, i) = FnAt(stack, u, i)
  BY <1>2, <1>3, <1>7 DEF FnAt
<1>8. FnAt(stack, t, Len(stack[t]) + 1) = Null
  BY <1>2 DEF FnAt
<1> QED
  BY <1>2, <1>5, <1>6, <1>7, <1>8

(* A call that ends removes the functor at the top, and only that one. *)
LEMMA PopFnAt ==
  ASSUME SlotTypeOK, NEW t \in Callers, stack[t] # <<>>, Pop(t)
  PROVE  /\ stack' \in [Callers -> Seq(CallInProgress)]
         /\ \A u \in Callers, i \in Nat :
              FnAt(stack', u, i) = IF u = t /\ i = Len(stack[t]) THEN Null ELSE FnAt(stack, u, i)
         /\ FnAt(stack, t, Len(stack[t])) = Top(t).fn
         /\ Len(stack[t]) \in Nat
         /\ Top(t).fn \in Functors \cup {Null}
<1>1. /\ stack \in [Callers -> Seq(CallInProgress)] /\ stack[t] \in Seq(CallInProgress)
      /\ Len(stack[t]) \in Nat /\ Len(stack[t]) > 0
  BY DEF SlotTypeOK
<1>2. stack' = [stack EXCEPT ![t] = SubSeq(stack[t], 1, Len(stack[t]) - 1)]
  BY DEF Pop
<1>3. SubSeq(stack[t], 1, Len(stack[t]) - 1) \in Seq(CallInProgress)
  BY <1>1
<1>4. stack' \in [Callers -> Seq(CallInProgress)]
  BY <1>1, <1>2, <1>3
<1>5. ASSUME NEW i \in Nat
      PROVE  FnAt(stack', t, i) = IF i = Len(stack[t]) THEN Null ELSE FnAt(stack, t, i)
  <2>1. stack'[t] = SubSeq(stack[t], 1, Len(stack[t]) - 1)
    BY <1>1, <1>2
  <2>2. CASE i = Len(stack[t])
    BY <1>1, <2>1, <2>2 DEF FnAt
  <2>3. CASE i # Len(stack[t])
    BY <1>1, <2>1, <2>3 DEF FnAt
  <2> QED
    BY <2>2, <2>3
<1>6. ASSUME NEW u \in Callers, u # t, NEW i \in Nat
      PROVE  FnAt(stack', u, i) = FnAt(stack, u, i)
  BY <1>1, <1>2, <1>6 DEF FnAt
<1>7. FnAt(stack, t, Len(stack[t])) = Top(t).fn
  BY <1>1 DEF FnAt, Top
<1>8. Top(t).fn \in Functors \cup {Null}
  <2>1. Top(t) \in CallInProgress
    BY <1>1 DEF Top
  <2> QED
    BY <2>1 DEF CallInProgress
<1> QED
  BY <1>1, <1>4, <1>5, <1>6, <1>7, <1>8

-----------------------------------------------------------------------------
(* The actions *)

(* What dispose() does to the set of deleted functors. *)
LEMMA Disposed ==
  ASSUME SlotTypeOK, NEW f \in Functors \cup {Null, Checkout}, Dispose(f)
  PROVE  /\ deleted' \in SUBSET Functors
         /\ f \in Functors => deleted' = deleted \cup {f}
         /\ f \notin Functors => deleted' = deleted
BY DEF SlotTypeOK, Dispose, Valid

LEMMA ReplaceOwned ==
  ASSUME SlotInv, NEW t \in Callers, NEW f \in Functors, Replace(t, f)
  PROVE  SlotInv'
<1>1. /\ f \notin installed /\ installed' = installed \cup {f}
      /\ cb' = f /\ latest' = f /\ stack' = stack /\ overlap' = overlap
  BY DEF Replace
<1>2. SlotTypeOK /\ cb \in Functors \cup {Null, Checkout} /\ installed \in SUBSET Functors
  BY DEF SlotInv, SlotTypeOK
<1>3. /\ deleted' \in SUBSET Functors
      /\ cb \in Functors => deleted' = deleted \cup {cb}
      /\ cb \notin Functors => deleted' = deleted
  BY <1>2, Disposed DEF Replace
<1>4. SlotTypeOK'
  BY <1>1, <1>2, <1>3 DEF SlotTypeOK
<1>5. Owned(cb', deleted', installed', stack')
  BY <1>1, <1>2, <1>3, CallbackConstants DEF SlotInv, Owned
<1> QED
  BY <1>4, <1>5 DEF SlotInv

LEMMA ClearOwned ==
  ASSUME SlotInv, NEW t \in Callers, Clear(t)
  PROVE  SlotInv'
<1>1. cb' = Null /\ latest' = Null /\ stack' = stack /\ installed' = installed /\ overlap' = overlap
  BY DEF Clear
<1>2. SlotTypeOK /\ cb \in Functors \cup {Null, Checkout} /\ installed \in SUBSET Functors
  BY DEF SlotInv, SlotTypeOK
<1>3. /\ deleted' \in SUBSET Functors
      /\ cb \in Functors => deleted' = deleted \cup {cb}
      /\ cb \notin Functors => deleted' = deleted
  BY <1>2, Disposed DEF Clear
<1>4. SlotTypeOK'
  BY <1>1, <1>2, <1>3 DEF SlotTypeOK
<1>5. Owned(cb', deleted', installed', stack')
  BY <1>1, <1>2, <1>3, CallbackConstants DEF SlotInv, Owned
<1> QED
  BY <1>4, <1>5 DEF SlotInv

(* checkout(), or the extraction of call_and_clear(): the functor moves from  *)
(* the slot to the call.                                                      *)
LEMMA BeginOwned ==
  ASSUME SlotInv, NEW t \in Callers, CallBegin(t) \/ OnceBegin(t)
  PROVE  SlotInv'
<1> DEFINE f == IF cb = Checkout THEN Null ELSE cb
<1>1. SlotTypeOK /\ cb \in Functors \cup {Null, Checkout} /\ installed \in SUBSET Functors
  BY DEF SlotInv, SlotTypeOK
<1>2. f \in Functors \cup {Null} /\ (cb \in Functors => f = cb) /\ (cb \notin Functors => f = Null)
  BY <1>1, CallbackConstants
<1>3. /\ cb' \in {Null, Checkout} /\ latest' \in {latest, Null}
      /\ deleted' = deleted /\ installed' = installed
      /\ Push(t, f, "call") \/ Push(t, f, "once")
  BY DEF CallBegin, OnceBegin, checkout
<1>4. overlap' \in {"none", "nested", "threads"}
  BY <1>1 DEF CallBegin, OnceBegin, Overlaps, SlotTypeOK
<1> HIDE DEF f
<1>5. /\ stack' \in [Callers -> Seq(CallInProgress)]
      /\ \A u \in Callers, i \in Nat :
           FnAt(stack', u, i) = IF u = t /\ i = Len(stack[t]) + 1 THEN f ELSE FnAt(stack, u, i)
      /\ FnAt(stack, t, Len(stack[t]) + 1) = Null
      /\ Len(stack[t]) + 1 \in Nat
  BY <1>1, <1>2, <1>3, PushFnAt
<1>6. SlotTypeOK'
  BY <1>1, <1>3, <1>4, <1>5 DEF SlotTypeOK
<1>7. Owned(cb', deleted', installed', stack')
  <2> DEFINE n == Len(stack[t]) + 1
  <2>1. Owned(cb, deleted, installed, stack)
    BY DEF SlotInv
  <2>2. /\ n \in Nat /\ FnAt(stack, t, n) = Null
        /\ \A u \in Callers, i \in Nat :
             FnAt(stack', u, i) = IF u = t /\ i = n THEN f ELSE FnAt(stack, u, i)
    BY <1>5
  <2> HIDE DEF n
  <2> QED
    BY <1>1, <1>2, <1>3, <2>1, <2>2, CallbackConstants DEF Owned
<1> QED
  BY <1>6, <1>7 DEF SlotInv

(* checkback(), or the deletion after call_and_clear(): the functor moves     *)
(* from the call to the slot, or is deleted.                                  *)
LEMMA EndOwned ==
  ASSUME SlotInv, NEW t \in Callers, CallEnd(t) \/ OnceEnd(t)
  PROVE  SlotInv'
<1> DEFINE f == Top(t).fn
           n == Len(stack[t])
<1>1. SlotTypeOK /\ cb \in Functors \cup {Null, Checkout} /\ installed \in SUBSET Functors
  BY DEF SlotInv, SlotTypeOK
<1>2. /\ stack[t] # <<>> /\ Pop(t)
      /\ installed' = installed /\ latest' = latest /\ overlap' = overlap
      /\ \/ cb = Checkout /\ cb' = f /\ deleted' = deleted
         \/ cb' = cb /\ Dispose(f)
  BY DEF CallEnd, OnceEnd, checkback
<1>3. /\ stack' \in [Callers -> Seq(CallInProgress)]
      /\ \A u \in Callers, i \in Nat :
           FnAt(stack', u, i) = IF u = t /\ i = n THEN Null ELSE FnAt(stack, u, i)
      /\ FnAt(stack, t, n) = f
      /\ n \in Nat
      /\ f \in Functors \cup {Null}
  BY <1>1, <1>2, PopFnAt
<1> HIDE DEF f, n
<1>4. \/ cb = Checkout /\ cb' = f /\ deleted' = deleted
      \/ /\ cb' = cb
         /\ deleted' \in SUBSET Functors
         /\ f \in Functors => deleted' = deleted \cup {f}
         /\ f \notin Functors => deleted' = deleted
  BY <1>1, <1>2, <1>3, Disposed
<1>5. SlotTypeOK'
  BY <1>1, <1>2, <1>3, <1>4 DEF SlotTypeOK
<1>6. Owned(cb', deleted', installed', stack')
  <2>1. Owned(cb, deleted, installed, stack)
    BY DEF SlotInv
  <2>2. CASE cb = Checkout /\ cb' = f /\ deleted' = deleted
    BY <1>1, <1>2, <1>3, <2>1, <2>2, CallbackConstants DEF Owned
  <2>3. CASE /\ cb' = cb
             /\ f \in Functors => deleted' = deleted \cup {f}
             /\ f \notin Functors => deleted' = deleted
    BY <1>1, <1>2, <1>3, <2>1, <2>3, CallbackConstants DEF Owned
  <2> QED
    BY <1>4, <2>2, <2>3
<1> QED
  BY <1>5, <1>6 DEF SlotInv

-----------------------------------------------------------------------------
LEMMA SlotInvariance == SlotSpec => []SlotInv
<1>1. SlotInit => SlotInv
  <2> SUFFICES ASSUME SlotInit PROVE SlotInv
    OBVIOUS
  <2>1. SlotTypeOK
    BY DEF SlotInit, SlotTypeOK
  <2>2. \A u \in Callers, i \in Nat : FnAt(stack, u, i) = Null
    BY DEF SlotInit, FnAt
  <2>3. Owned(cb, deleted, installed, stack)
    BY <2>2 DEF SlotInit, Owned
  <2> QED
    BY <2>1, <2>3 DEF SlotInv
<1>2. SlotInv /\ [SlotNext]_slotVars => SlotInv'
  <2> SUFFICES ASSUME SlotInv, [SlotNext]_slotVars PROVE SlotInv'
    OBVIOUS
  <2>1. CASE SlotNext
    BY <2>1, ReplaceOwned, ClearOwned, BeginOwned, EndOwned DEF SlotNext
  <2>2. CASE UNCHANGED slotVars
    BY <2>2 DEF slotVars, SlotInv, SlotTypeOK, Owned, FnAt
  <2> QED
    BY <2>1, <2>2
<1> QED
  BY <1>1, <1>2, PTL DEF SlotSpec

(* Every functor given to the slot is owned by the slot, by one call, or has  *)
(* been deleted: however threads and functors call, replace and clear, none   *)
(* is deleted twice, run after its deletion or leaked (callbacks.h, Callback).*)
THEOREM FunctorHasOneOwner == SlotSpec => []OneOwner
<1>1. SlotInv => OneOwner
  <2> SUFFICES ASSUME SlotInv PROVE OneOwner
    OBVIOUS
  <2>1. Owned(cb, deleted, installed, stack) /\ installed \in SUBSET Functors
    BY DEF SlotInv, SlotTypeOK
  <2>2. \A t \in Callers : Len(stack[t]) \in Nat
    BY DEF SlotInv, SlotTypeOK
  <2>3. ASSUME NEW f \in installed
        PROVE  \A t \in Callers, i \in Nat :
                 (i \in 1..Len(stack[t]) /\ Runs(t, i, f)) <=> FnAt(stack, t, i) = f
    BY <2>1, <2>2, CallbackConstants DEF Runs, FnAt
  <2>4. \A t \in Callers : \A i \in 1..Len(stack[t]) : i \in Nat
    BY <2>2
  <2>5. ASSUME NEW f \in installed
        PROVE  /\ f \in deleted => cb # f /\ ~ \E t \in Callers : \E i \in 1..Len(stack[t]) : Runs(t, i, f)
               /\ f \notin deleted => cb = f \/ \E t \in Callers : \E i \in 1..Len(stack[t]) : Runs(t, i, f)
               /\ cb = f => ~ \E t \in Callers : \E i \in 1..Len(stack[t]) : Runs(t, i, f)
    BY <2>1, <2>3, <2>4 DEF Owned
  <2>6. ASSUME NEW f \in installed, NEW t \in Callers, NEW u \in Callers,
               NEW i \in 1..Len(stack[t]), NEW j \in 1..Len(stack[u]),
               Runs(t, i, f), Runs(u, j, f)
        PROVE  t = u /\ i = j
    <3>1. FnAt(stack, t, i) = f /\ FnAt(stack, u, j) = f /\ i \in Nat /\ j \in Nat
      BY <2>3, <2>4, <2>6
    <3> QED
      BY <2>1, <3>1, CallbackConstants DEF Owned
  <2> QED
    BY <2>5, <2>6 DEF OneOwner
<1> QED
  BY <1>1, SlotInvariance, PTL

(* The slot, the calls in progress and the histories of Callback keep their   *)
(* types: no thread that replaces, clears or calls the slot ever deletes the  *)
(* mark of a call in progress, or a null functor (callbacks.h dispose()).     *)
THEOREM SlotTypeCorrect == SlotSpec => []SlotTypeOK
<1>1. SlotInv => SlotTypeOK
  BY DEF SlotInv
<1> QED
  BY <1>1, SlotInvariance, PTL

-----------------------------------------------------------------------------
(* Which functor the calls run *)

(* As long as no two threads were in calls at once, the slot holds the functor *)
(* installed last, nothing, or the mark of the innermost call in progress,     *)
(* which runs that functor or nothing and puts it back.  As long as no calls   *)
(* overlapped at all, it holds exactly what was left in it last.  Neither  *)
(* InstalledStays nor OnlyLatestRuns is inductive: they do not say what the    *)
(* call in progress, which has taken the functor out, will put back.           *)
InOrder ==
  /\ overlap # "threads" =>
       /\ \A t, u \in Callers : stack[t] # <<>> /\ stack[u] # <<>> => t = u
       /\ cb \in {latest, Null, Checkout}
       /\ cb = Checkout => \E t \in Callers : stack[t] # <<>>
       /\ \A t \in Callers : cb = Checkout /\ stack[t] # <<>> =>
            Top(t).kind = "call" /\ Top(t).fn \in {latest, Null}
  /\ overlap = "none" =>
       /\ cb \in {latest, Checkout}
       /\ \A t \in Callers : stack[t] # <<>> => Len(stack[t]) = 1
       /\ \A t \in Callers : cb = Checkout /\ stack[t] # <<>> => Top(t).fn = latest

(* The stacks after a call has begun. *)
LEMMA PushTop ==
  ASSUME SlotTypeOK, NEW t \in Callers, NEW f \in Functors \cup {Null}, NEW k \in {"call", "once"},
         Push(t, f, k)
  PROVE  /\ stack'[t] # <<>> /\ Top(t)'.fn = f /\ Top(t)'.kind = k
         /\ stack[t] = <<>> => Len(stack'[t]) = 1
         /\ \A u \in Callers \ {t} : stack'[u] = stack[u]
<1> DEFINE c == [fn |-> f, kind |-> k]
<1>1. c \in CallInProgress /\ c.fn = f /\ c.kind = k
  BY DEF CallInProgress
<1>2. stack \in [Callers -> Seq(CallInProgress)] /\ stack[t] \in Seq(CallInProgress) /\ Len(stack[t]) \in Nat
  BY DEF SlotTypeOK
<1>3. stack' = [stack EXCEPT ![t] = Append(stack[t], c)]
  BY DEF Push
<1> HIDE DEF c
<1>4. stack'[t] = Append(stack[t], c) /\ \A u \in Callers \ {t} : stack'[u] = stack[u]
  BY <1>2, <1>3
<1>5. /\ Len(Append(stack[t], c)) = Len(stack[t]) + 1
      /\ Append(stack[t], c)[Len(stack[t]) + 1] = c
      /\ Append(stack[t], c) # <<>>
  BY <1>1, <1>2
<1>6. stack[t] = <<>> => Len(stack[t]) = 0
  OBVIOUS
<1>7. Top(t)' = c
  BY <1>4, <1>5 DEF Top
<1> QED
  BY <1>1, <1>2, <1>4, <1>5, <1>6, <1>7

(* The stacks after a call has returned. *)
LEMMA PopTop ==
  ASSUME SlotTypeOK, NEW t \in Callers, stack[t] # <<>>, Pop(t)
  PROVE  /\ Len(stack'[t]) < Len(stack[t])
         /\ Len(stack[t]) = 1 => stack'[t] = <<>>
         /\ \A u \in Callers \ {t} : stack'[u] = stack[u]
         /\ Top(t).fn \in Functors \cup {Null}
<1>1. /\ stack \in [Callers -> Seq(CallInProgress)] /\ stack[t] \in Seq(CallInProgress)
      /\ Len(stack[t]) \in Nat /\ Len(stack[t]) > 0
  BY DEF SlotTypeOK
<1>2. stack' = [stack EXCEPT ![t] = SubSeq(stack[t], 1, Len(stack[t]) - 1)]
  BY DEF Pop
<1>3. stack'[t] = SubSeq(stack[t], 1, Len(stack[t]) - 1) /\ \A u \in Callers \ {t} : stack'[u] = stack[u]
  BY <1>1, <1>2
<1>4. Len(SubSeq(stack[t], 1, Len(stack[t]) - 1)) = Len(stack[t]) - 1
  <2> DEFINE m == Len(stack[t]) - 1
  <2>0. m \in Nat /\ m < Len(stack[t])
    BY <1>1
  <2> HIDE DEF m
  <2>1. PICK n \in Nat : n = m
    BY <2>0
  <2>2. n <= Len(stack[t]) /\ \A i \in 1..n : i \in 1..Len(stack[t])
    BY <1>1, <2>0, <2>1
  <2>3. Len(SubSeq(stack[t], 1, n)) = n
    BY <1>1, <2>1, <2>2
  <2> QED
    BY <2>1, <2>3 DEF m
<1>5. Len(stack[t]) = 1 => SubSeq(stack[t], 1, Len(stack[t]) - 1) = <<>>
  BY <1>1, <1>4
<1>6. Top(t).fn \in Functors \cup {Null}
  <2>1. Top(t) \in CallInProgress
    BY <1>1 DEF Top
  <2> QED
    BY <2>1 DEF CallInProgress
<1> QED
  BY <1>1, <1>3, <1>4, <1>5, <1>6

LEMMA ReplaceInOrder ==
  ASSUME SlotTypeOK, InOrder, NEW t \in Callers, NEW f \in Functors, Replace(t, f) \/ Clear(t)
  PROVE  InOrder'
<1>1. /\ cb' = latest' /\ cb' # Checkout
      /\ stack' = stack /\ overlap' = overlap
  BY CallbackConstants DEF Replace, Clear
<1> QED
  BY <1>1 DEF InOrder, Top

LEMMA BeginInOrder ==
  ASSUME SlotTypeOK, InOrder, NEW t \in Callers, CallBegin(t) \/ OnceBegin(t)
  PROVE  InOrder'
<1> DEFINE f == IF cb = Checkout THEN Null ELSE cb
<1>1. /\ f \in Functors \cup {Null}
      /\ f \notin {Checkout}
      /\ cb = Checkout => f = Null
      /\ cb # Checkout => f = cb
  BY CallbackConstants DEF SlotTypeOK
<1>2. \/ Push(t, f, "call") /\ cb' = Checkout /\ latest' = latest
      \/ Push(t, f, "once") /\ cb' = Null /\ latest' = Null
  BY DEF CallBegin, OnceBegin, checkout
<1>3. PICK k \in {"call", "once"} :
        /\ Push(t, f, k)
        /\ k = "call" => cb' = Checkout /\ latest' = latest
        /\ k = "once" => cb' = Null /\ latest' = Null
  BY <1>2
<1> HIDE DEF f
<1>4. /\ stack'[t] # <<>> /\ Top(t)'.fn = f /\ Top(t)'.kind = k
      /\ stack[t] = <<>> => Len(stack'[t]) = 1
      /\ \A u \in Callers \ {t} : stack'[u] = stack[u]
  BY <1>1, <1>3, PushTop
<1>5. /\ overlap' # "threads" => overlap # "threads" /\ \A u \in Callers \ {t} : stack[u] = <<>>
      /\ overlap' = "none" => overlap = "none" /\ stack[t] = <<>>
  BY DEF CallBegin, OnceBegin, Overlaps
<1>6. ASSUME overlap' # "threads"
      PROVE  /\ \A v, u \in Callers : stack'[v] # <<>> /\ stack'[u] # <<>> => v = u
             /\ cb' \in {latest', Null, Checkout}
             /\ cb' = Checkout => \E u \in Callers : stack'[u] # <<>>
             /\ \A u \in Callers : cb' = Checkout /\ stack'[u] # <<>> =>
                  Top(u)'.kind = "call" /\ Top(u)'.fn \in {latest', Null}
  <2>1. \A u \in Callers : stack'[u] # <<>> => u = t
    BY <1>4, <1>5, <1>6
  <2>2. f \in {latest, Null}
    BY <1>1, <1>5, <1>6 DEF InOrder
  <2> QED
    BY <1>3, <1>4, <2>1, <2>2, CallbackConstants
<1>7. ASSUME overlap' = "none"
      PROVE  /\ cb' \in {latest', Checkout}
             /\ \A u \in Callers : stack'[u] # <<>> => Len(stack'[u]) = 1
             /\ \A u \in Callers : cb' = Checkout /\ stack'[u] # <<>> => Top(u)'.fn = latest'
  <2>1. \A u \in Callers : stack'[u] # <<>> => u = t
    BY <1>4, <1>5, <1>7
  <2>2. cb # Checkout /\ cb = latest
    BY <1>5, <1>7 DEF InOrder
  <2> QED
    BY <1>1, <1>3, <1>4, <1>5, <1>7, <2>1, <2>2, CallbackConstants
<1> QED
  BY <1>6, <1>7 DEF InOrder

LEMMA EndInOrder ==
  ASSUME SlotTypeOK, InOrder, NEW t \in Callers, CallEnd(t) \/ OnceEnd(t)
  PROVE  InOrder'
<1>1. /\ stack[t] # <<>> /\ Pop(t)
      /\ latest' = latest /\ overlap' = overlap
      /\ \/ Top(t).kind = "call" /\ cb = Checkout /\ cb' = Top(t).fn
         \/ Top(t).kind = "call" /\ cb # Checkout /\ cb' = cb
         \/ Top(t).kind = "once" /\ cb' = cb
  BY DEF CallEnd, OnceEnd, checkback
<1>2. /\ Len(stack[t]) = 1 => stack'[t] = <<>>
      /\ \A u \in Callers \ {t} : stack'[u] = stack[u]
      /\ Top(t).fn \in Functors \cup {Null}
  BY <1>1, PopTop
<1>3. overlap # "threads" =>
        /\ cb' # Checkout /\ cb' \in {latest, Null}
        /\ \A u \in Callers : stack'[u] # <<>> => u = t
  BY <1>1, <1>2, CallbackConstants DEF InOrder
<1>4. overlap = "none" => cb' = latest /\ \A u \in Callers : stack'[u] = <<>>
  BY <1>1, <1>2, <1>3, CallbackConstants DEF InOrder
<1> QED
  BY <1>1, <1>3, <1>4 DEF InOrder

LEMMA OrderInvariance == SlotSpec => [](SlotTypeOK /\ InOrder)
<1>1. SlotInit => InOrder
  <2> SUFFICES ASSUME SlotInit PROVE InOrder
    OBVIOUS
  <2>1. cb = Null /\ latest = Null /\ \A t \in Callers : stack[t] = <<>>
    BY DEF SlotInit
  <2> QED
    BY <2>1, CallbackConstants DEF InOrder
<1>2. SlotTypeOK /\ InOrder /\ [SlotNext]_slotVars => InOrder'
  <2> SUFFICES ASSUME SlotTypeOK, InOrder, [SlotNext]_slotVars PROVE InOrder'
    OBVIOUS
  <2>1. ASSUME NEW t \in Callers, NEW f \in Functors, Replace(t, f) PROVE InOrder'
    BY <2>1, ReplaceInOrder
  <2>2. ASSUME NEW t \in Callers, Clear(t) PROVE InOrder'
    <3>1. cb' = latest' /\ cb' # Checkout /\ stack' = stack /\ overlap' = overlap
      BY <2>2, CallbackConstants DEF Clear
    <3> QED
      BY <3>1 DEF InOrder, Top
  <2>3. CASE UNCHANGED slotVars
    BY <2>3 DEF slotVars, InOrder, Top
  <2> QED
    BY <2>1, <2>2, <2>3, BeginInOrder, EndInOrder DEF SlotNext
<1> QED
  BY <1>1, <1>2, SlotTypeCorrect, PTL DEF SlotSpec

(* While no call is under way and none has overlapped another one, the slot   *)
(* is empty only if clear() or call_and_clear() emptied it: call() takes the  *)
(* functor out and puts back the same one (callbacks.h call(), checkback()).  *)
THEOREM FunctorStaysInstalled == SlotSpec => []InstalledStays
<1>1. InOrder => InstalledStays
  BY CallbackConstants DEF InOrder, InstalledStays, CallsKeepFunctor
<1> QED
  BY <1>1, OrderInvariance, PTL

(* A replaced or cleared functor is not run by a later call, however deep     *)
(* functors call, replace and clear their own slot, as long as no two threads *)
(* were in calls at once (callbacks.h operator=, call(), call_and_clear()).   *)
THEOREM LatestRuns == SlotSpec => OnlyLatestRuns
<1> DEFINE A == \A t \in Callers :
                  Len(stack'[t]) > Len(stack[t]) /\ overlap' # "threads" =>
                    stack'[t][Len(stack'[t])].fn \in {latest, Null}
<1>1. SlotTypeOK /\ InOrder /\ [SlotNext]_slotVars => [A]_slotVars
  <2> SUFFICES ASSUME SlotTypeOK, InOrder, SlotNext,
                      NEW t \in Callers, Len(stack'[t]) > Len(stack[t]), overlap' # "threads"
               PROVE  Top(t)'.fn \in {latest, Null}
    BY DEF Top
  <2>1. \A u \in Callers : Len(stack[u]) \in Nat
    BY DEF SlotTypeOK
  <2>2. ASSUME NEW u \in Callers, CallBegin(u) \/ OnceBegin(u)
        PROVE  Top(t)'.fn \in {latest, Null}
    <3> DEFINE f == IF cb = Checkout THEN Null ELSE cb
    <3>1. /\ f \in Functors \cup {Null}
          /\ Push(u, f, "call") \/ Push(u, f, "once")
          /\ overlap # "threads"
      BY <2>2, CallbackConstants DEF SlotTypeOK, CallBegin, OnceBegin, Overlaps
    <3>2. f \in {latest, Null}
      BY <3>1 DEF InOrder
    <3> HIDE DEF f
    <3>3. Top(u)'.fn = f /\ \A v \in Callers \ {u} : stack'[v] = stack[v]
      BY <3>1, PushTop
    <3>4. t = u
      BY <2>1, <3>3
    <3> QED
      BY <3>2, <3>3, <3>4
  <2>3. ASSUME NEW u \in Callers, CallEnd(u) \/ OnceEnd(u)
        PROVE  FALSE
    <3>1. stack[u] # <<>> /\ Pop(u)
      BY <2>3 DEF CallEnd, OnceEnd
    <3>2. Len(stack'[u]) < Len(stack[u]) /\ \A v \in Callers \ {u} : stack'[v] = stack[v]
      BY <3>1, PopTop
    <3>3. stack' \in [Callers -> Seq(CallInProgress)]
      BY <3>1, PopFnAt
    <3>4. Len(stack'[t]) \in Nat
      BY <3>3
    <3> QED
      BY <2>1, <3>2, <3>4
  <2>4. ASSUME NEW u \in Callers, Clear(u) \/ \E f \in Functors : Replace(u, f)
        PROVE  FALSE
    BY <2>1, <2>4 DEF Clear, Replace
  <2> QED
    BY <2>2, <2>3, <2>4 DEF SlotNext
<1> QED
  BY <1>1, OrderInvariance, PTL DEF SlotSpec, OnlyLatestRuns
=============================================================================
