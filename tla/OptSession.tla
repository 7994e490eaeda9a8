----------------------------- MODULE OptSession -----------------------------
(***************************************************************************)
(* The encrypted session (common/transport/opt_session) and the key         *)
(* exchange it runs when the transport opens (common/transport/kex_v1): the *)
(* client A and the server B over an ordered transport, with application    *)
(* threads that send while the emitter thread switches keys.                *)
(*                                                                         *)
(* Both ends follow the protocol.  They may disagree: on the version, and   *)
(* on whether the key of the other is one of the known remotes (trusts).    *)
(* A key is the letter it is derived with, a ciphertext is the packet with  *)
(* the key and the packet counter that were used, and it decrypts with the  *)
(* same key and counter.  The cryptography itself is external.              *)
(***************************************************************************)
EXTENDS Integers, Sequences

CONSTANT MaxData    \* bound: packets an application sends

ASSUME SessionConstants == MaxData \in Nat

A == "A"
B == "B"
Ends == {A, B}
Peer(e) == IF e = A THEN B ELSE A

VARIABLES
  major,    \* per end: version_v.field.major of its version
  trusts,   \* per end: the key of the other is a known remote, or all are
  early,    \* applications do not wait for their open callback
  kst,      \* per end: _state of the key exchange
  step,     \* per end: what recv() still has to do for the packet it took
  inKey,    \* per end: key of _inbound, "off" while _enc_on_ib is false
  outKey,   \* per end: key of _outbound, "off" while _enc_on_ob is false
  inCtr, outCtr, \* per end: _sequential_packet_counter
  lock,     \* per end: the emitter thread holds _out_encryption_lock
  ready,    \* per end: _first_kex_ok, set with the open callback
  chan,     \* per end: ordered packets on their way to it
  raw,      \* raw packets on their way
  link,     \* per end: "up", "closing" after close(), "down"
  (* histories *)
  sent, delivered, \* per end: application packets
  garbage,  \* states of the key exchange in which a packet did not decrypt
  rawSent, rawGot  \* per end: raw packets given to sendRaw(), to the callback

vars == <<major, trusts, early, kst, step, inKey, outKey, inCtr, outCtr, lock, ready, chan, raw, link,
          sent, delivered, garbage, rawSent, rawGot>>
config == <<major, trusts, early>>
keys == <<inKey, outKey>>
appVars == <<sent, delivered, rawSent, rawGot>>

KexTypes == {"C_VERSION", "S_VERSION", "C_HELLO", "S_HELLO", "S_NEWKEYS", "C_NEWKEYS", "C_IDENTITY"}

-----------------------------------------------------------------------------
(* Sending *)

(* What send_internal() makes of packet m: a ciphertext once _enc_on_ob is set. *)
Sealed(e, type, val) == [type |-> type, val |-> val, key |-> outKey[e],
                         ctr |-> IF outKey[e] = "off" THEN 0 ELSE outCtr[e]]

SendInternal(e, type, val) ==
  /\ chan' = [chan EXCEPT ![Peer(e)] = Append(@, Sealed(e, type, val))]
  /\ outCtr' = IF outKey[e] = "off" THEN outCtr ELSE [outCtr EXCEPT ![e] = @ + 1]

(* Mutant: send_internal() does not take the lock. *)
OutLockIgnored(e) == TRUE

(* _out_encryption_lock is free, for another thread than the emitter thread. *)
OutLockFree(e) == ~lock[e]

(* send() by an application thread. *)
Send(e) ==
  /\ link[e] = "up"
  /\ ready[e] \/ early
  /\ Len(sent[e]) < MaxData
  /\ OutLockFree(e)
  /\ SendInternal(e, "DATA", Len(sent[e]) + 1)
  /\ sent' = [sent EXCEPT ![e] = Append(@, Len(@) + 1)]
  /\ UNCHANGED <<config, kst, step, keys, inCtr, lock, ready, raw, link, delivered, garbage,
                 rawSent, rawGot>>

(* sendRaw(): with _enc_raw false, nothing is written to the blob that is     *)
(* sent in place of the packet once _enc_on_ob is set.  Never blocks.         *)
SendRaw(e) ==
  /\ link[e] = "up" /\ ready[e]
  /\ Len(rawSent[e]) < MaxData
  /\ LET n == Len(rawSent[e]) + 1
     IN /\ rawSent' = [rawSent EXCEPT ![e] = Append(@, n)]
        /\ raw' = raw \cup {[to |-> Peer(e), val |-> IF outKey[e] = "off" THEN n ELSE 0]}
  /\ UNCHANGED <<config, kst, step, keys, inCtr, outCtr, lock, ready, chan, link, sent, delivered,
                 garbage, rawGot>>

(* on_raw(): packets are only handed on after the first key exchange. *)
OnRaw(e) ==
  \E p \in raw :
    /\ p.to = e /\ link[e] # "down"
    /\ raw' = raw \ {p}
    /\ rawGot' = IF ready[e] THEN [rawGot EXCEPT ![e] = @ \cup {p.val}] ELSE rawGot
    /\ UNCHANGED <<config, kst, step, keys, inCtr, outCtr, lock, ready, chan, link, sent, delivered,
                   garbage, rawSent>>

-----------------------------------------------------------------------------
(* Receiving: on_packet() takes and decrypts a packet. *)

Next1(e) == Head(chan[e])

(* decrypt() succeeds. *)
Decrypts(e) == /\ Next1(e).key = inKey[e]
               /\ inKey[e] # "off" => Next1(e).ctr = inCtr[e]

Takes(e) == /\ chan[e] # <<>> /\ link[e] # "down" /\ step[e] = "none"

Taken(e) == inCtr' = IF inKey[e] = "off" THEN inCtr ELSE [inCtr EXCEPT ![e] = @ + 1]

Consumed(e) == chan' = [chan EXCEPT ![e] = Tail(@)]

Close(e) == link' = [link EXCEPT ![e] = IF @ = "up" THEN "closing" ELSE @]

(* A packet that does not decrypt: the result of decrypt() is not looked at,  *)
(* so its type and content are arbitrary bytes.  DATA is handed on after the  *)
(* first key exchange; KEX fails; everything else closes.                     *)
OnGarbage(e) ==
  /\ Takes(e) /\ ~Decrypts(e)
  /\ Taken(e) /\ Consumed(e)
  /\ garbage' = garbage \cup {kst[e]}
  /\ \/ Close(e) /\ UNCHANGED <<kst, delivered>>
     \/ Close(e) /\ kst' = [kst EXCEPT ![e] = "KF_Err"] /\ UNCHANGED delivered
     \/ /\ ready[e]
        /\ delivered' = [delivered EXCEPT ![e] = Append(@, 0)]
        /\ UNCHANGED <<kst, link>>
  /\ UNCHANGED <<config, step, keys, outCtr, lock, ready, raw, sent, rawSent, rawGot>>

(* Mutant: data is handed on in every state. *)
AcceptsDataAlways(e) == TRUE

AcceptsData(e) == ready[e]

(* DATA: only after the first key exchange, an error before. *)
OnData(e) ==
  /\ Takes(e) /\ Decrypts(e) /\ Next1(e).type = "DATA"
  /\ Taken(e) /\ Consumed(e)
  /\ IF AcceptsData(e)
       THEN delivered' = [delivered EXCEPT ![e] = Append(@, Next1(e).val)] /\ UNCHANGED link
       ELSE Close(e) /\ UNCHANGED delivered
  /\ UNCHANGED <<config, kst, step, keys, outCtr, lock, ready, raw, sent, garbage, rawSent, rawGot>>

(* A KEX packet of the type the state expects. *)
TakesKex(e, state, type) ==
  /\ Takes(e) /\ Decrypts(e)
  /\ kst[e] = state /\ Next1(e).type = type
  /\ Taken(e)

(* recv() returns an error: KF_Err, and the session is closed. *)
Fails(e) == /\ kst' = [kst EXCEPT ![e] = "KF_Err"]
            /\ Close(e)
            /\ Consumed(e)
            /\ UNCHANGED <<outCtr, step>>

(* recv() answers with a packet and goes to another state. *)
Answers(e, type, val, state) ==
  /\ chan' = [chan EXCEPT ![e] = Tail(@), ![Peer(e)] = Append(@, Sealed(e, type, val))]
  /\ outCtr' = IF outKey[e] = "off" THEN outCtr ELSE [outCtr EXCEPT ![e] = @ + 1]
  /\ kst' = [kst EXCEPT ![e] = state]

Continue(e, s) == step' = [step EXCEPT ![e] = s]

Expected == {<<A, "S1_M1", "S_VERSION">>, <<A, "K1_CHello", "S_HELLO">>,
             <<A, "K2_SHello", "S_NEWKEYS">>, <<B, "S0_New", "C_VERSION">>,
             <<B, "S2_M2", "C_HELLO">>, <<B, "KF_Done", "C_HELLO">>,
             <<B, "K3_SEnc", "C_NEWKEYS">>, <<B, "K4_CEnc", "C_IDENTITY">>}

(* A KEX packet in a state that does not expect it: ErrorState. *)
OnUnexpected(e) ==
  /\ Takes(e) /\ Decrypts(e) /\ Next1(e).type \in KexTypes
  /\ <<e, kst[e], Next1(e).type>> \notin Expected
  /\ Taken(e)
  /\ Fails(e)
  /\ UNCHANGED <<config, keys, lock, ready, raw, appVars, garbage>>

-----------------------------------------------------------------------------
(* KEXV1_A *)

(* on_open() and init_kex(). *)
InitKex ==
  /\ kst[A] = "S0_New" /\ link[A] = "up"
  /\ SendInternal(A, "C_VERSION", major[A])
  /\ kst' = [kst EXCEPT ![A] = "S1_M1"]
  /\ UNCHANGED <<config, step, keys, inCtr, lock, ready, raw, link, appVars, garbage>>

(* Mutant: the answer is not sent. *)
RecvServerVersionSilent ==
  /\ TakesKex(A, "S1_M1", "S_VERSION")
  /\ IF Next1(A).val = 1
       THEN /\ kst' = [kst EXCEPT ![A] = "K1_CHello"]
            /\ Consumed(A)
            /\ UNCHANGED <<link, step, outCtr>>
       ELSE Fails(A)
  /\ UNCHANGED <<config, keys, lock, ready, raw, appVars, garbage>>

RecvServerVersion ==
  /\ TakesKex(A, "S1_M1", "S_VERSION")
  /\ IF Next1(A).val = 1
       THEN Answers(A, "C_HELLO", 0, "K1_CHello") /\ UNCHANGED <<link, step>>
       ELSE Fails(A)
  /\ UNCHANGED <<config, keys, lock, ready, raw, appVars, garbage>>

(* The long term key is a member of the known remotes, and the signature is   *)
(* its own.                                                                   *)
KnownRemote(e) == trusts[e]

RecvServerHello ==
  /\ TakesKex(A, "K1_CHello", "S_HELLO")
  /\ IF KnownRemote(A)
       THEN kst' = [kst EXCEPT ![A] = "K2_SHello"] /\ Consumed(A) /\ UNCHANGED <<link, outCtr, step>>
       ELSE Fails(A)
  /\ UNCHANGED <<config, keys, lock, ready, raw, appVars, garbage>>

(* The inbound key is set; then, with the lock held, the last packet under    *)
(* the old outbound key is sent ...                                           *)
RecvServerNewKeys ==
  /\ TakesKex(A, "K2_SHello", "S_NEWKEYS")
  /\ ~lock[A]
  /\ inKey' = [inKey EXCEPT ![A] = "A"]
  /\ lock' = [lock EXCEPT ![A] = TRUE]
  /\ Answers(A, "C_NEWKEYS", 0, "K3_SEnc")
  /\ Continue(A, "keys")
  /\ UNCHANGED <<config, outKey, ready, raw, link, appVars, garbage>>

(* ... and the outbound key is set. *)
ClientKeys ==
  /\ step[A] = "keys"
  /\ outKey' = [outKey EXCEPT ![A] = "B"]
  /\ lock' = [lock EXCEPT ![A] = FALSE]
  /\ kst' = [kst EXCEPT ![A] = "K4_CEnc"]
  /\ Continue(A, "identity")
  /\ UNCHANGED <<config, inKey, inCtr, outCtr, ready, chan, raw, link, appVars, garbage>>

(* The identity is sent; OK_Done issues the open callback. *)
ClientIdentity ==
  /\ step[A] = "identity"
  /\ SendInternal(A, "C_IDENTITY", 0)
  /\ kst' = [kst EXCEPT ![A] = "KF_Done"]
  /\ ready' = [ready EXCEPT ![A] = TRUE]
  /\ Continue(A, "none")
  /\ UNCHANGED <<config, keys, inCtr, lock, raw, link, appVars, garbage>>

-----------------------------------------------------------------------------
(* KEXV1_B *)

RecvClientVersion ==
  /\ TakesKex(B, "S0_New", "C_VERSION")
  /\ IF Next1(B).val = 1
       THEN Answers(B, "S_VERSION", major[B], "S2_M2") /\ UNCHANGED <<link, step>>
       ELSE Fails(B)
  /\ UNCHANGED <<config, keys, lock, ready, raw, appVars, garbage>>

RecvClientHello ==
  /\ \E s \in {"S2_M2", "KF_Done"} : TakesKex(B, s, "C_HELLO")
  /\ Answers(B, "S_HELLO", 0, "K2_SHello")
  /\ Continue(B, "newkeys")
  /\ UNCHANGED <<config, keys, lock, ready, raw, link, appVars, garbage>>

(* With the lock held: the last packet under the old outbound key ... *)
ServerNewKeys ==
  /\ step[B] = "newkeys" /\ ~lock[B]
  /\ lock' = [lock EXCEPT ![B] = TRUE]
  /\ SendInternal(B, "S_NEWKEYS", 0)
  /\ Continue(B, "keys")
  /\ UNCHANGED <<config, kst, keys, inCtr, ready, raw, link, appVars, garbage>>

(* ... and the outbound key is set. *)
ServerKeys ==
  /\ step[B] = "keys"
  /\ outKey' = [outKey EXCEPT ![B] = "A"]
  /\ lock' = [lock EXCEPT ![B] = FALSE]
  /\ kst' = [kst EXCEPT ![B] = "K3_SEnc"]
  /\ Continue(B, "none")
  /\ UNCHANGED <<config, inKey, inCtr, outCtr, ready, chan, raw, link, appVars, garbage>>

RecvClientNewKeys ==
  /\ TakesKex(B, "K3_SEnc", "C_NEWKEYS")
  /\ inKey' = [inKey EXCEPT ![B] = "B"]
  /\ kst' = [kst EXCEPT ![B] = "K4_CEnc"]
  /\ Consumed(B)
  /\ UNCHANGED <<config, step, outKey, outCtr, lock, ready, raw, link, appVars, garbage>>

RecvClientIdentity ==
  /\ TakesKex(B, "K4_CEnc", "C_IDENTITY")
  /\ IF KnownRemote(B)
       THEN /\ kst' = [kst EXCEPT ![B] = "KF_Done"]
            /\ ready' = [ready EXCEPT ![B] = TRUE]
            /\ Consumed(B)
            /\ UNCHANGED <<link, outCtr, step>>
       ELSE Fails(B) /\ UNCHANGED ready
  /\ UNCHANGED <<config, keys, lock, raw, appVars, garbage>>

-----------------------------------------------------------------------------
(* The transport (external): close() takes effect, and the other end may hear *)
(* of it.  Packets may still be taken between close() and that.               *)
LinkDown(e) ==
  /\ step[e] = "none"
  /\ link[e] = "closing" \/ (link[e] = "up" /\ link[Peer(e)] = "down")
  /\ link' = [link EXCEPT ![e] = "down"]
  /\ UNCHANGED <<config, kst, step, keys, inCtr, outCtr, lock, ready, chan, raw, appVars, garbage>>

Init ==
  /\ major \in [Ends -> {1, 2}]
  /\ trusts \in [Ends -> BOOLEAN]
  /\ early \in BOOLEAN
  /\ kst = [e \in Ends |-> "S0_New"]
  /\ step = [e \in Ends |-> "none"]
  /\ inKey = [e \in Ends |-> "off"] /\ outKey = [e \in Ends |-> "off"]
  /\ inCtr = [e \in Ends |-> 0] /\ outCtr = [e \in Ends |-> 0]
  /\ lock = [e \in Ends |-> FALSE]
  /\ ready = [e \in Ends |-> FALSE]
  /\ chan = [e \in Ends |-> <<>>]
  /\ raw = {}
  /\ link = [e \in Ends |-> "up"]
  /\ sent = [e \in Ends |-> <<>>] /\ delivered = [e \in Ends |-> <<>>]
  /\ garbage = {}
  /\ rawSent = [e \in Ends |-> <<>>] /\ rawGot = [e \in Ends |-> {}]

Kex == \/ InitKex \/ RecvServerVersion \/ RecvServerHello \/ RecvServerNewKeys
       \/ ClientKeys \/ ClientIdentity
       \/ RecvClientVersion \/ RecvClientHello \/ ServerNewKeys \/ ServerKeys
       \/ RecvClientNewKeys \/ RecvClientIdentity

Packets(e) == OnData(e) \/ OnUnexpected(e) \/ OnGarbage(e)

Application(e) == Send(e) \/ SendRaw(e) \/ OnRaw(e)

Next == \/ Kex
        \/ \E e \in Ends : Packets(e) \/ Application(e) \/ LinkDown(e)

Spec == Init /\ [][Next]_vars

(* The emitter threads keep running and the transport delivers. *)
FairSpec == Spec /\ WF_vars(Kex) /\ \A e \in Ends : WF_vars(Packets(e))

-----------------------------------------------------------------------------
(* Properties *)

Key == {"off", A, B}

Packet == [type : KexTypes \cup {"DATA"}, val : Nat, key : Key, ctr : Nat]

KexStates == {"S0_New", "S1_M1", "S2_M2", "K1_CHello", "K2_SHello", "K3_SEnc", "K4_CEnc", "KF_Done", "KF_Err"}
Steps == {"none", "newkeys", "keys", "identity"}
LinkStates == {"up", "closing", "down"}

TypeOK ==
  /\ major \in [Ends -> {1, 2}] /\ trusts \in [Ends -> BOOLEAN] /\ early \in BOOLEAN
  /\ kst \in [Ends -> KexStates] /\ step \in [Ends -> Steps] /\ link \in [Ends -> LinkStates]
  /\ inKey \in [Ends -> Key] /\ outKey \in [Ends -> Key]
  /\ inCtr \in [Ends -> Nat] /\ outCtr \in [Ends -> Nat]
  /\ lock \in [Ends -> BOOLEAN] /\ ready \in [Ends -> BOOLEAN]
  /\ chan \in [Ends -> Seq(Packet)]
  /\ sent \in [Ends -> Seq(Nat)] /\ delivered \in [Ends -> Seq(Nat)]

(* Every packet decrypts: the two ends switch to each key at the same place   *)
(* of the stream and their counters agree, although applications send while   *)
(* the keys are switched.  The exception is an end whose key exchange failed: *)
(* it no longer follows the keys, and still takes packets until its close()   *)
(* has taken effect (kex_v1.cpp KEXS_NEWKEYS and KEXC_NEWKEYS,                *)
(* opt_session.cpp send_internal(), on_packet()).                             *)
EveryPacketDecrypts == garbage \subseteq {"KF_Err"}

(* Data reaches the application, and the open callback is issued, only at an  *)
(* end that knows the key of the other; the server opens only if each knows   *)
(* the other (opt_session.cpp on_packet(), kex_v1.cpp KEXC_IDENTITY).         *)
OnlyKnownRemotes ==
  /\ \A e \in Ends : ready[e] \/ delivered[e] # <<>> => trusts[e]
  /\ ready[B] => trusts[A]

Compatible == ~early /\ \A e \in Ends : trusts[e] /\ major[e] = 1

(* Between ends that know each other the key exchange ends, both open         *)
(* callbacks are issued, and the exchange never closes the session: nothing   *)
(* an application sends after its open callback arrives at an end that is not *)
(* ready for it (kex_v1.cpp recv(), opt_session.cpp on_open(), on_packet()).  *)
BothOpen == Compatible ~> []((\A e \in Ends : ready[e] /\ link[e] = "up") \/ ~Compatible)

(* sendRaw(), "Send raw fasttrack packet, passed stright to the underlying    *)
(* inderface": what the raw callback gets is what sendRaw() was given         *)
(* (opt_session.cpp sendRaw(), on_raw()).                                     *)
RawIntact == \A e \in Ends : \A v \in rawGot[e] : \E k \in 1..Len(rawSent[Peer(e)]) : rawSent[Peer(e)][k] = v
=============================================================================
