------------------------------ MODULE Callback ------------------------------
(***************************************************************************)
(* A callback slot (common/utils/callbacks.h, class Callback): an atomic    *)
(* pointer to a heap-allocated functor that the slot owns.  call() checks   *)
(* the functor out, runs it and checks it back; call_and_clear() extracts   *)
(* it, runs it and deletes it; replacing and clearing exchange the pointer. *)
(* Each atomic operation on the pointer is a step.  The functor that runs   *)
(* may itself use the slot, so a thread has a stack of calls.               *)
(***************************************************************************)
EXTENDS Integers, Sequences

CONSTANTS Callers,   \* threads that use the slot
          Functors,  \* the functors that can be installed
          MaxDepth,  \* bound: calls of the slot nested in one thread
          Null, Checkout

ASSUME CallbackConstants == /\ Null \notin Functors
                            /\ Checkout \notin Functors
                            /\ Null # Checkout
                            /\ MaxDepth \in Nat

VARIABLES
  cb,        \* _cb
  stack,     \* per thread: the calls it is in, the innermost last
  deleted,   \* functors that have been deleted
  (* histories *)
  installed, \* functors that have been given to the slot
  latest,    \* what the last replacement, clear() or call_and_clear() left
  overlap    \* calls overlapped: "none", "nested" in one thread, of two "threads"

slotVars == <<cb, stack, deleted, installed, latest, overlap>>

Valid(f) == f \in Functors

(* dispose() *)
Dispose(f) == deleted' = IF Valid(f) THEN deleted \cup {f} ELSE deleted

Top(t) == stack[t][Len(stack[t])]
Push(t, f, kind) == stack' = [stack EXCEPT ![t] = Append(stack[t], [fn |-> f, kind |-> kind])]
Pop(t) == stack' = [stack EXCEPT ![t] = SubSeq(stack[t], 1, Len(stack[t]) - 1)]

(* A thread uses the slot from outside, or from the functor it is running. *)
MayUse(t) == stack[t] # <<>> => Valid(Top(t).fn)

(* operator=: _cb.exchange() and dispose(). *)
Replace(t, f) ==
  /\ MayUse(t)
  /\ f \notin installed
  /\ installed' = installed \cup {f}
  /\ cb' = f
  /\ latest' = f
  /\ Dispose(cb)
  /\ UNCHANGED <<stack, overlap>>

(* clear() *)
Clear(t) ==
  /\ MayUse(t)
  /\ cb' = Null
  /\ latest' = Null
  /\ Dispose(cb)
  /\ UNCHANGED <<stack, installed, overlap>>

MayNest(t) == MayUse(t) /\ Len(stack[t]) < MaxDepth

Overlaps(t) ==
  overlap' = IF \E u \in Callers \ {t} : stack[u] # <<>> THEN "threads"
             ELSE IF stack[t] # <<>> /\ overlap = "none" THEN "nested" ELSE overlap

(* Mutant: the functor is left in the slot while it runs. *)
checkoutShared == UNCHANGED cb

(* checkout(): the pointer left in the slot says that a call is under way. *)
checkout == cb' = Checkout

(* call() up to the functor: null if another call has checked it out. *)
CallBegin(t) ==
  /\ MayNest(t)
  /\ Push(t, IF cb = Checkout THEN Null ELSE cb, "call")
  /\ checkout
  /\ Overlaps(t)
  /\ UNCHANGED <<deleted, installed, latest>>

(* Mutant: a functor is put back whatever the slot holds. *)
checkbackAlways(f) ==
  IF Valid(f) \/ cb = Checkout THEN cb' = f /\ Dispose(IF cb = f THEN Null ELSE cb)
                               ELSE UNCHANGED <<cb, deleted>>

(* Mutant: the functor is deleted after its call, as by call_and_clear(). *)
checkbackDropped(f) == Dispose(f) /\ cb' = IF cb = Checkout THEN Null ELSE cb

(* checkback(): compare_exchange, and dispose() if it fails. *)
checkback(f) ==
  IF cb = Checkout THEN cb' = f /\ UNCHANGED deleted
                   ELSE Dispose(f) /\ UNCHANGED cb

(* The functor has returned. *)
CallEnd(t) ==
  /\ stack[t] # <<>> /\ Top(t).kind = "call"
  /\ checkback(Top(t).fn)
  /\ Pop(t)
  /\ UNCHANGED <<installed, latest, overlap>>

(* call_and_clear() up to the functor. *)
OnceBegin(t) ==
  /\ MayNest(t)
  /\ Push(t, IF cb = Checkout THEN Null ELSE cb, "once")
  /\ cb' = Null
  /\ latest' = Null
  /\ Overlaps(t)
  /\ UNCHANGED <<deleted, installed>>

OnceEnd(t) ==
  /\ stack[t] # <<>> /\ Top(t).kind = "once"
  /\ Dispose(Top(t).fn)
  /\ Pop(t)
  /\ UNCHANGED <<cb, installed, latest, overlap>>

SlotInit ==
  /\ cb = Null
  /\ stack = [t \in Callers |-> <<>>]
  /\ deleted = {}
  /\ installed = {}
  /\ latest = Null
  /\ overlap = "none"

SlotNext ==
  \E t \in Callers :
    \/ \E f \in Functors : Replace(t, f)
    \/ Clear(t)
    \/ CallBegin(t) \/ CallEnd(t)
    \/ OnceBegin(t) \/ OnceEnd(t)

SlotSpec == SlotInit /\ [][SlotNext]_slotVars

-----------------------------------------------------------------------------
(* Properties *)

CallInProgress == [fn : Functors \cup {Null}, kind : {"call", "once"}]

SlotTypeOK ==
  /\ cb \in Functors \cup {Null, Checkout}
  /\ stack \in [Callers -> Seq(CallInProgress)]
  /\ deleted \in SUBSET Functors
  /\ installed \in SUBSET Functors
  /\ latest \in Functors \cup {Null}
  /\ overlap \in {"none", "nested", "threads"}

(* The calls that run functor f, as pairs of a thread and a depth. *)
Runs(t, i, f) == t \in Callers /\ i \in 1..Len(stack[t]) /\ stack[t][i].fn = f

(* Every functor given to the slot has one owner at any time: the slot, one   *)
(* call that runs it, or nobody, once it has been deleted.  So no call runs a *)
(* deleted functor, none is deleted twice and none leaks, however threads and *)
(* functors call, replace and clear (callbacks.h replace(), checkback()).     *)
OneOwner ==
  \A f \in installed :
    /\ f \in deleted => cb # f /\ ~ \E t \in Callers : \E i \in 1..Len(stack[t]) : Runs(t, i, f)
    /\ f \notin deleted => cb = f \/ \E t \in Callers : \E i \in 1..Len(stack[t]) : Runs(t, i, f)
    /\ cb = f => ~ \E t \in Callers : \E i \in 1..Len(stack[t]) : Runs(t, i, f)
    /\ \A t, u \in Callers : \A i \in 1..Len(stack[t]) : \A j \in 1..Len(stack[u]) :
         Runs(t, i, f) /\ Runs(u, j, f) => t = u /\ i = j

(* call() is "Complety threadsafe": calls do not lose the functor; while no   *)
(* call is under way the slot is empty only if it was emptied by clear() or   *)
(* call_and_clear() (callbacks.h call(), checkback()).                        *)
CallsKeepFunctor ==
  (\A t \in Callers : stack[t] = <<>>) /\ latest # Null => cb # Null

(* The same, as long as no call of the slot began inside another one.         *)
InstalledStays == overlap = "none" => CallsKeepFunctor

(* A replaced or cleared functor is not run by a later call, as long as no    *)
(* two threads were in a call at the same time: a call runs the functor       *)
(* installed last, or none, even if the functors call, replace and clear      *)
(* their own slot (callbacks.h operator=, call()).                            *)
OnlyLatestRuns ==
  [][\A t \in Callers :
       Len(stack'[t]) > Len(stack[t]) /\ overlap' # "threads" =>
         stack'[t][Len(stack'[t])].fn \in {latest, Null}]_slotVars
=============================================================================
