---------------------------- MODULE OptPipesProofs ----------------------------
(***************************************************************************)
(* What holds of any number of pipes over one transport, called by the      *)
(* emitter thread and an application thread of each end, whether or not the *)
(* transport below closes.                                                  *)
(***************************************************************************)
EXTENDS OptPipes, TLAPS

-----------------------------------------------------------------------------
(* Packets on their way *)

Msgs == [type : {"OPEN_REQ", "OPEN_RESP", "CLOSE", "DATA"}, id : Ids, opened : BOOLEAN]

Is(m, type, i) == m.type = type /\ m.id = i
Says(m, i) == Is(m, "DATA", i) /\ m.opened

Has(s, type, i) == \E k \in 1..Len(s) : Is(s[k], type, i)
Once(s, type, i) == \A k, l \in 1..Len(s) : Is(s[k], type, i) /\ Is(s[l], type, i) => k = l

(* Something was sent on pipe i when it was open; *)
Saying(s, i) == \E k \in 1..Len(s) : Says(s[k], i)

(* it comes after the answer. *)
Answered(s, i) == \A k \in 1..Len(s) : Says(s[k], i) => \E l \in 1..(k - 1) : Is(s[l], "OPEN_RESP", i)

-----------------------------------------------------------------------------
(* The inductive invariant *)

Closing == {"erase", "check", "commit"}
Places == Closing \cup {"accept", "respond", "resp", "closed", "selflock"}

(* Where a thread is in a call or a handler of pipe i. *)
Does(e, th, i) == IF BusyOn(e, th, i) THEN pc[e][th].at ELSE "free"

(* At most one thread is in one, *)
Alone(e, i) == Does(e, "emitter", i) = "free" \/ Does(e, "app", i) = "free"

(* here. *)
Place(e, i) == IF Does(e, "emitter", i) # "free" THEN Does(e, "emitter", i) ELSE Does(e, "app", i)

(* What a thread can be at. *)
Fits(th, p) ==
  /\ p.at \in Closing \cup {"idle"} \cup
       IF th = "app" THEN {"accept", "respond"} ELSE {"resp", "closed", "selflock", "linkclose"}
  /\ p.at \in Places => p.id \in Ids
  /\ p.at = "linkclose" =>
       p.left \subseteq Ids /\ p = [at |-> "linkclose", id |-> 0, who |-> "none", left |-> p.left]

PcInv ==
  /\ pc = [e \in Ends |-> [th \in Threads |-> pc[e][th]]]
  /\ \A e \in Ends, th \in Threads : Fits(th, pc[e][th])

ShapeInv ==
  /\ chan \in [Ends -> Seq(Msgs)]
  /\ PcInv
  /\ \A e \in Ends : pc[e]["emitter"].at = "linkclose" => link[e] # "up"

(* The variables that are tables, or a flag. *)
TablesOK ==
  /\ next \in [Ends -> Nat] /\ \A e \in Ends : OwnParity(e, next[e])
  /\ pipes \in [Ends -> SUBSET Ids]
  /\ state \in [Ends -> [Ids -> States]]
  /\ refs \in [Ends -> [Ids -> SUBSET {"user", "timer", "emitter"}]]
  /\ link \in [Ends -> {"up", "closing", "down"}]
  /\ opens \in [Ends -> [Ids -> Nat]] /\ closes \in [Ends -> [Ids -> Nat]]
  /\ crossed \in [Ends -> SUBSET Ids] /\ lost \in BOOLEAN

(* A pipe of an end that its two threads were never in at once: what its call *)
(* or handler has seen of it is still true, whatever short calls the other    *)
(* thread makes; without one it is in the map if it can receive               *)
(* (RegistryExact); if nobody holds it the peer is told, and its close is     *)
(* counted.                                                                   *)
Local(e, i) ==
  /\ Alone(e, i)
  /\ Place(e, i) \in {"check", "commit", "closed"} => i \notin pipes[e]
  /\ Place(e, i) \in {"commit", "closed"} => state[e][i] # "Closed"
  /\ Place(e, i) = "accept" =>
       i \in pipes[e] /\ "user" \in refs[e][i] /\ state[e][i] = "OpenRequstRecv"
  /\ Place(e, i) = "respond" =>
       i \in pipes[e] /\ "user" \in refs[e][i] /\ state[e][i] = "Opened"
  /\ Place(e, i) = "resp" => i \in pipes[e] /\ state[e][i] = "OpenRequstSent"
  /\ Place(e, i) \in {"resp", "closed"} => "emitter" \in refs[e][i]
  /\ Place(e, i) = "free" => (i \in pipes[e] <=> refs[e][i] # {} /\ state[e][i] # "Closed")
  /\ refs[e][i] = {} /\ state[e][i] \in NotifiesPeer => Place(e, i) \in Closing \cup {"selflock"}
  /\ link[e] = "up" => closes[e][i] = IF state[e][i] = "Closed" THEN 1 ELSE 0

Unused(e, i) ==
  /\ state[e][i] = "None" /\ refs[e][i] = {} /\ i \notin pipes[e]
  /\ Does(e, "emitter", i) = "free" /\ Does(e, "app", i) = "free"

WasOpened(e, i) == state[e][i] \in {"Opened", "Closed"}

(* No thread is in pipe i, which still waits for the answer. *)
Waits(e, i) == i \notin crossed[e] /\ Place(e, i) = "free" /\ state[e][i] = "OpenRequstSent"

(* The two ends of a pipe, of which e has opened it: ids are used once, the   *)
(* peer hears of a pipe once, an end is open only after the other has been    *)
(* opened, and the answer comes before what is sent on the opened pipe.       *)
Paired(e, i) ==
  LET a == Peer(e)
  IN /\ i >= next[e] => Unused(e, i)
     /\ state[e][i] # "OpenRequstRecv" /\ state[a][i] # "OpenRequstSent"
     /\ Does(e, "app", i) \notin {"accept", "respond"} /\ Does(a, "emitter", i) # "resp"
     /\ state[e][i] = "None" => state[a][i] = "None" /\ ~Has(chan[a], "OPEN_REQ", i)
     /\ state[a][i] = "None" => Unused(a, i)
     /\ Has(chan[a], "OPEN_REQ", i) => state[a][i] = "None"
     /\ Once(chan[a], "OPEN_REQ", i)
     /\ \/ Has(chan[e], "OPEN_RESP", i) \/ state[e][i] = "Opened" \/ Does(e, "emitter", i) = "resp"
        \/ Does(a, "app", i) = "respond" \/ Saying(chan[a], i) \/ Saying(chan[e], i)
        => WasOpened(a, i)
     /\ Waits(e, i) =>
          /\ state[a][i] = "Opened" /\ (\A x \in Ends : link[x] = "up")
             => Has(chan[e], "OPEN_RESP", i) \/ Does(a, "app", i) = "respond"
          /\ Answered(chan[e], i)

PipesInv ==
  \A e \in Ends : \A i \in Ids :
    /\ i \notin crossed[e] => Local(e, i)
    /\ OwnParity(e, i) => Paired(e, i)

IInv == TypeOK /\ ShapeInv /\ PipesInv /\ OpenDataNotLost

-----------------------------------------------------------------------------
(* A packet is sent, or taken *)

(* What a packet added at the end changes. *)
LEMMA AppendMsg ==
  ASSUME NEW s \in Seq(Msgs), NEW m \in Msgs
  PROVE  /\ Append(s, m) \in Seq(Msgs)
         /\ \A type, i : Has(Append(s, m), type, i) <=> Has(s, type, i) \/ Is(m, type, i)
         /\ \A i : Saying(Append(s, m), i) <=> Saying(s, i) \/ Says(m, i)
         /\ \A type, i : Once(s, type, i) /\ ~(Is(m, type, i) /\ Has(s, type, i)) => Once(Append(s, m), type, i)
         /\ \A i : Answered(s, i) /\ (Says(m, i) => Has(s, "OPEN_RESP", i)) => Answered(Append(s, m), i)
<1> DEFINE r == Append(s, m)
           n == Len(s)
<1>1. /\ r \in Seq(Msgs) /\ Len(r) = n + 1 /\ n \in Nat /\ r[n + 1] = m
      /\ \A k \in 1..n : r[k] = s[k]
  OBVIOUS
<1> HIDE DEF r, n
<1>2. /\ \A k \in 1..Len(r) : k \in 1..n \/ k = n + 1
      /\ \A k \in 1..n : k \in 1..Len(r) /\ k # n + 1
      /\ n + 1 \in 1..Len(r) /\ 1..(n + 1 - 1) = 1..n
  BY <1>1
<1>3. \A type, i : Has(r, type, i) <=> Has(s, type, i) \/ Is(m, type, i)
  BY <1>1, <1>2 DEF Has, n
<1>4. \A i : Saying(r, i) <=> Saying(s, i) \/ Says(m, i)
  BY <1>1, <1>2 DEF Saying, n
<1>5. ASSUME NEW type, NEW i, Once(s, type, i), ~(Is(m, type, i) /\ Has(s, type, i))
      PROVE  Once(r, type, i)
  BY <1>1, <1>2, <1>5 DEF Once, Has, n
<1>6. ASSUME NEW i, Answered(s, i), Says(m, i) => Has(s, "OPEN_RESP", i),
             NEW k \in 1..Len(r), Says(r[k], i)
      PROVE  \E l \in 1..(k - 1) : Is(r[l], "OPEN_RESP", i)
  <2>1. CASE k \in 1..n
    <3>1. PICK l \in 1..(k - 1) : Is(s[l], "OPEN_RESP", i)
      BY <1>1, <1>6, <2>1 DEF Answered, n
    <3>2. l \in 1..n
      BY <1>1, <2>1
    <3> QED
      BY <1>1, <3>1, <3>2
  <2>2. CASE k = n + 1
    <3>1. PICK l \in 1..n : Is(s[l], "OPEN_RESP", i)
      BY <1>1, <1>6, <2>2 DEF Has, n
    <3>2. l \in 1..(k - 1)
      BY <1>1, <2>2
    <3> QED
      BY <1>1, <3>1, <3>2
  <2> QED
    BY <1>2, <2>1, <2>2
<1>7. \A i : Answered(s, i) /\ (Says(m, i) => Has(s, "OPEN_RESP", i)) => Answered(r, i)
  BY <1>6 DEF Answered
<1> QED
  BY <1>1, <1>3, <1>4, <1>5, <1>7 DEF r

(* What a packet taken from the front changes. *)
LEMMA TailMsg ==
  ASSUME NEW s \in Seq(Msgs), s # <<>>
  PROVE  /\ Tail(s) \in Seq(Msgs) /\ Head(s) \in Msgs
         /\ \A type, i : Has(s, type, i) <=> Has(Tail(s), type, i) \/ Is(Head(s), type, i)
         /\ \A i : Saying(s, i) <=> Saying(Tail(s), i) \/ Says(Head(s), i)
         /\ \A type, i : Once(s, type, i) =>
              Once(Tail(s), type, i) /\ ~(Is(Head(s), type, i) /\ Has(Tail(s), type, i))
         /\ \A i : Answered(s, i) =>
              ~Says(Head(s), i) /\ (~Is(Head(s), "OPEN_RESP", i) => Answered(Tail(s), i))
<1> DEFINE r == Tail(s)
           h == Head(s)
           n == Len(s)
<1>1. /\ r \in Seq(Msgs) /\ h \in Msgs /\ Len(r) = n - 1 /\ n \in Nat \ {0} /\ h = s[1]
      /\ \A k \in 1..Len(r) : r[k] = s[k + 1]
  OBVIOUS
<1> HIDE DEF r, h, n
<1>2. /\ 1 \in 1..n /\ \A k \in 1..Len(r) : k + 1 \in 1..n /\ k + 1 # 1
      /\ \A k \in 1..n : k = 1 \/ (k - 1 \in 1..Len(r) /\ r[k - 1] = s[k])
  BY <1>1
<1>3. \A type, i : Has(s, type, i) <=> Has(r, type, i) \/ Is(h, type, i)
  BY <1>1, <1>2 DEF Has, n
<1>4. \A i : Saying(s, i) <=> Saying(r, i) \/ Says(h, i)
  BY <1>1, <1>2 DEF Saying, n
<1>5. ASSUME NEW type, NEW i, Once(s, type, i)
      PROVE  Once(r, type, i) /\ ~(Is(h, type, i) /\ Has(r, type, i))
  <2>1. ASSUME NEW k \in 1..Len(r), NEW l \in 1..Len(r), Is(r[k], type, i), Is(r[l], type, i)
        PROVE  k = l
    <3>1. k + 1 = l + 1
      BY <1>1, <1>2, <1>5, <2>1 DEF Once, n
    <3> QED
      BY <3>1
  <2>2. ~(Is(h, type, i) /\ Has(r, type, i))
    BY <1>1, <1>2, <1>5 DEF Once, Has, n
  <2> QED
    BY <2>1, <2>2 DEF Once
<1>6. ASSUME NEW i, Answered(s, i)
      PROVE  ~Says(h, i)
  BY <1>1, <1>2, <1>6 DEF Answered, n
<1>7. ASSUME NEW i, Answered(s, i), ~Is(h, "OPEN_RESP", i), NEW k \in 1..Len(r), Says(r[k], i)
      PROVE  \E l \in 1..(k - 1) : Is(r[l], "OPEN_RESP", i)
  <2>1. PICK l \in 1..(k + 1 - 1) : Is(s[l], "OPEN_RESP", i)
    BY <1>1, <1>2, <1>7 DEF Answered, n
  <2>2. l # 1 /\ l - 1 \in 1..(k - 1) /\ l - 1 \in 1..Len(r) /\ (l - 1) + 1 = l
    BY <1>1, <1>7, <2>1
  <2> QED
    BY <1>1, <2>1, <2>2
<1>8. \A i : Answered(s, i) => ~Says(h, i) /\ (~Is(h, "OPEN_RESP", i) => Answered(r, i))
  BY <1>6, <1>7 DEF Answered
<1> QED
  BY <1>1, <1>3, <1>4, <1>5, <1>8 DEF r, h

(* When nothing was sent on the opened pipe there is nothing to answer first. *)
LEMMA Quiet == ASSUME NEW s, NEW i, ~Saying(s, i) PROVE Answered(s, i)
  BY DEF Saying, Answered

(* What is left of the packets on their way when the transport closes. *)
LEMMA PrefixMsg ==
  ASSUME NEW s \in Seq(Msgs), NEW k \in 0..Len(s), NEW i
  PROVE  LET r == SubSeq(s, 1, k)
         IN /\ r \in Seq(Msgs)
            /\ \A type : Has(r, type, i) => Has(s, type, i)
            /\ Saying(r, i) => Saying(s, i)
            /\ \A type : Once(s, type, i) => Once(r, type, i)
            /\ Answered(s, i) => Answered(r, i)
<1> DEFINE r == SubSeq(s, 1, k)
<1>1. r \in Seq(Msgs) /\ Len(r) = k /\ \A l \in 1..k : r[l] = s[l] /\ l \in 1..Len(s)
  OBVIOUS
<1> HIDE DEF r
<1>2. \A type : (Has(r, type, i) => Has(s, type, i)) /\ (Once(s, type, i) => Once(r, type, i))
  BY <1>1 DEF Has, Once
<1>3. Saying(r, i) => Saying(s, i)
  BY <1>1 DEF Saying
<1>4. ASSUME Answered(s, i), NEW l \in 1..Len(r), Says(r[l], i)
      PROVE  \E n \in 1..(l - 1) : Is(r[n], "OPEN_RESP", i)
  <2>1. PICK n \in 1..(l - 1) : Is(s[n], "OPEN_RESP", i)
    BY <1>1, <1>4 DEF Answered
  <2>2. n \in 1..k
    BY <1>1
  <2> QED
    BY <1>1, <2>1, <2>2
<1> QED
  BY <1>1, <1>2, <1>3, <1>4 DEF Answered, r

-----------------------------------------------------------------------------
(* What a step leaves alone *)

(* The two ends have ids of different parity. *)
LEMMA Parity ==
  ASSUME NEW e \in Ends
  PROVE  /\ Peer(e) \in Ends /\ Peer(e) # e /\ Peer(Peer(e)) = e
         /\ \A x \in Ends : x = e \/ x = Peer(e)
         /\ \A i : OwnParity(e, i) <=> ~OwnParity(Peer(e), i)
  BY DEF Ends, Peer, OwnParity

(* A thread that is in no call or handler is in none of any pipe; *)
LEMMA Rests ==
  ASSUME NEW e, NEW th, pc[e][th].at \in {"idle", "linkclose"}
  PROVE  pc[e][th].at \notin Places /\ \A j : Does(e, th, j) = "free"
  BY DEF Does, BusyOn, About, Places, Closing

(* one that is, is in one of one pipe. *)
LEMMA Works ==
  ASSUME PcInv, NEW e \in Ends, NEW th \in Threads, pc[e][th].at \in Places
  PROVE  pc[e][th].id \in Ids /\ Does(e, th, pc[e][th].id) = pc[e][th].at
<1>1. Fits(th, pc[e][th])
  BY DEF PcInv
<1> QED
  BY <1>1 DEF Fits, Does, BusyOn, About, Places, Closing

(* Thread th of end e goes to a place of pipe i, or leaves it. *)
Moved(e, th, i, at) ==
  /\ PcInv' /\ crossed' \in [Ends -> SUBSET Ids]
  /\ \A x \in Ends : pc'[x]["emitter"].at = "linkclose" => pc[x]["emitter"].at = "linkclose"
  /\ Does(e, th, i)' = at
  /\ \A x \in Ends, u \in Threads, j \in Ids : x # e \/ u # th \/ j # i => Does(x, u, j)' = Does(x, u, j)
  /\ \A x \in Ends, j \in Ids : x # e \/ j # i => (j \in crossed'[x] <=> j \in crossed[x])
  /\ i \in crossed'[e] <=> i \in crossed[e] \/ (at # "free" /\ Does(e, Other(th), i) # "free")

LEMMA Moves ==
  ASSUME PcInv, TablesOK, NEW e \in Ends, NEW th \in Threads, NEW i \in Ids, NEW p, Goes(e, th, p), Fits(th, p),
         pc[e][th].at \in Places => pc[e][th].id = i,
         p.at \in Places => p.id = i,
         p.at = "linkclose" => pc[e][th].at = "linkclose"
  PROVE  Moved(e, th, i, IF p.at \in Places THEN p.at ELSE "free")
<1> DEFINE at == IF p.at \in Places THEN p.at ELSE "free"
<1>1. pc = [x \in Ends |-> [u \in Threads |-> pc[x][u]]] /\ pc' = [pc EXCEPT ![e][th] = p]
  BY DEF PcInv, Goes
<1>2. \A x \in Ends, u \in Threads : pc'[x][u] = IF x = e /\ u = th THEN p ELSE pc[x][u]
  BY <1>1
<1>3. pc' = [x \in Ends |-> [u \in Threads |-> pc'[x][u]]]
  BY <1>1, <1>2
<1>4. \A x \in Ends, u \in Threads : Fits(u, pc'[x][u]) /\ Fits(u, pc[x][u])
  BY <1>2 DEF PcInv
<1>5. PcInv'
  BY <1>3, <1>4 DEF PcInv, Fits
<1>6. \A x \in Ends, u \in Threads, j \in Ids : x # e \/ u # th => Does(x, u, j)' = Does(x, u, j)
  BY <1>2 DEF Does, BusyOn, About
<1>7. \A j \in Ids : About(p, j) <=> p.at \in Places /\ p.id = j
  <2>1. Fits(th, p)
    OBVIOUS
  <2> QED
    BY <2>1 DEF About, Fits, Places, Closing
<1>8. \A j \in Ids : Does(e, th, j)' = IF j = i THEN at ELSE "free"
  <2>1. \A j \in Ids : Does(e, th, j)' = IF About(p, j) THEN p.at ELSE "free"
    BY <1>2 DEF Does, BusyOn, About
  <2> QED
    BY <1>7, <2>1
<1>9. \A j \in Ids : j # i => Does(e, th, j) = "free"
  <2>1. Fits(th, pc[e][th])
    BY <1>4
  <2> QED
    BY <2>1 DEF Does, BusyOn, About, Fits, Places, Closing
<1>10. /\ crossed \in [Ends -> SUBSET Ids]
       /\ crossed' = [crossed EXCEPT ![e] = @ \cup {j \in Ids : About(p, j) /\ BusyOn(e, Other(th), j)}]
  BY DEF Goes, TablesOK
<1>11. /\ crossed' \in [Ends -> SUBSET Ids]
       /\ \A x \in Ends : x # e => crossed'[x] = crossed[x]
       /\ \A j \in Ids : j \in crossed'[e] <=> j \in crossed[e] \/ (About(p, j) /\ BusyOn(e, Other(th), j))
  BY <1>10
<1>12. \A j : Does(e, Other(th), j) # "free" <=> BusyOn(e, Other(th), j)
  <2>1. Other(th) \in Threads
    BY DEF Other, Threads
  <2>2. Fits(Other(th), pc[e][Other(th)])
    BY <1>4, <2>1
  <2>3. pc[e][Other(th)].at # "free"
    BY <2>2 DEF Fits, Closing
  <2> QED
    BY <2>3 DEF Does
<1>13. \A x \in Ends : pc'[x]["emitter"].at = "linkclose" => pc[x]["emitter"].at = "linkclose"
  BY <1>2 DEF Threads
<1>14. /\ \A x \in Ends, j \in Ids : x # e \/ j # i => (j \in crossed'[x] <=> j \in crossed[x])
       /\ i \in crossed'[e] <=> i \in crossed[e] \/ (at # "free" /\ Does(e, Other(th), i) # "free")
  <2>1. "free" \notin Places
    BY DEF Places, Closing
  <2>2. \A j \in Ids : j # i => ~About(p, j)
    BY <1>7
  <2>3. About(p, i) <=> at # "free"
    BY <1>7, <2>1
  <2> QED
    BY <1>11, <1>12, <2>2, <2>3
<1> HIDE DEF at
<1> QED
  <2>1. \A x \in Ends, u \in Threads, j \in Ids : x # e \/ u # th \/ j # i => Does(x, u, j)' = Does(x, u, j)
    BY <1>6, <1>8, <1>9
  <2> QED
    BY <1>5, <1>8, <1>11, <1>13, <1>14, <2>1 DEF Moved, at

(* No thread takes a step. *)
LEMMA Stays ==
  ASSUME UNCHANGED <<pc, crossed>>
  PROVE  (PcInv => PcInv') /\ \A x, u, j : Does(x, u, j)' = Does(x, u, j)
  BY DEF PcInv, Fits, Does, BusyOn, About

(* Where the pipe is then, if its threads were never in it at once. *)
LEMMA Placed ==
  ASSUME NEW e \in Ends, NEW th \in Threads, NEW i \in Ids, NEW at, Moved(e, th, i, at),
         i \notin crossed'[e], Alone(e, i)
  PROVE  /\ i \notin crossed[e] /\ Alone(e, i)'
         /\ Place(e, i)' = IF at # "free" THEN at
                           ELSE IF Does(e, th, i) # "free" THEN "free" ELSE Place(e, i)
         /\ Does(e, th, i) # "free" => Place(e, i) = Does(e, th, i)
         /\ at # "free" => Place(e, i) = Does(e, th, i)
<1>1. CASE th = "app"
  <2>1. /\ Does(e, "emitter", i)' = Does(e, "emitter", i) /\ Does(e, "app", i)' = at
        /\ i \in crossed'[e] <=> i \in crossed[e] \/ (at # "free" /\ Does(e, "emitter", i) # "free")
    BY <1>1 DEF Moved, Other, Threads
  <2> QED
    BY <1>1, <2>1 DEF Alone, Place
<1>2. CASE th = "emitter"
  <2>1. /\ Does(e, "app", i)' = Does(e, "app", i) /\ Does(e, "emitter", i)' = at
        /\ i \in crossed'[e] <=> i \in crossed[e] \/ (at # "free" /\ Does(e, "app", i) # "free")
    BY <1>2 DEF Moved, Other, Threads
  <2> QED
    BY <1>2, <2>1 DEF Alone, Place
<1> QED
  BY <1>1, <1>2 DEF Threads

(* Nothing but pipe i of end e is touched, *)
OnlyTables(e, i) ==
  /\ \A x \in Ends, j \in Ids : x # e \/ j # i =>
       /\ state'[x][j] = state[x][j] /\ refs'[x][j] = refs[x][j] /\ closes'[x][j] = closes[x][j]
       /\ j \in pipes'[x] <=> j \in pipes[x]
  /\ \A x \in Ends : (link'[x] = "up" => link[x] = "up")
  /\ \A x \in Ends, j \in Ids : j # i /\ j >= next'[x] => j >= next[x]

(* no thread is elsewhere in another pipe, *)
OnlyPlaces(e, i) ==
  \A x \in Ends, j \in Ids : x # e \/ j # i =>
    /\ Does(x, "emitter", j)' = Does(x, "emitter", j) /\ Does(x, "app", j)' = Does(x, "app", j)
    /\ j \in crossed'[x] <=> j \in crossed[x]

(* and no packet of another pipe is added or taken. *)
OnlyPackets(i) ==
  \A x \in Ends, j \in Ids : j # i =>
    /\ Has(chan'[x], "OPEN_REQ", j) => Has(chan[x], "OPEN_REQ", j)
    /\ Has(chan'[x], "OPEN_RESP", j) <=> Has(chan[x], "OPEN_RESP", j)
    /\ Saying(chan'[x], j) => Saying(chan[x], j)
    /\ Once(chan[x], "OPEN_REQ", j) => Once(chan'[x], "OPEN_REQ", j)
    /\ Answered(chan[x], j) => Answered(chan'[x], j)

LEMMA MovedOnly == ASSUME NEW e, NEW th, NEW i, NEW at, Moved(e, th, i, at) PROVE OnlyPlaces(e, i)
  BY DEF Moved, OnlyPlaces, Threads

LEMMA StaysOnly == ASSUME UNCHANGED <<pc, crossed>>, NEW e, NEW i PROVE OnlyPlaces(e, i)
  BY Stays DEF OnlyPlaces

(* Then the other pipes are as they were. *)
LEMMA Frame ==
  ASSUME PipesInv, NEW e \in Ends, NEW i \in Ids, OnlyTables(e, i), OnlyPlaces(e, i), OnlyPackets(i),
         i \notin crossed'[e] => Local(e, i)',
         \A x \in Ends : OwnParity(x, i) => Paired(x, i)'
  PROVE  PipesInv'
<1>1. ASSUME NEW x \in Ends, NEW j \in Ids, x # e \/ j # i, j \notin crossed'[x]
      PROVE  Local(x, j)'
  <2>1. /\ state'[x][j] = state[x][j] /\ refs'[x][j] = refs[x][j] /\ closes'[x][j] = closes[x][j]
        /\ j \in pipes'[x] <=> j \in pipes[x]
        /\ link'[x] = "up" => link[x] = "up"
    BY <1>1 DEF OnlyTables
  <2>2. /\ Does(x, "emitter", j)' = Does(x, "emitter", j) /\ Does(x, "app", j)' = Does(x, "app", j)
        /\ j \notin crossed[x]
    BY <1>1 DEF OnlyPlaces
  <2>3. Place(x, j)' = Place(x, j) /\ (Alone(x, j)' <=> Alone(x, j))
    BY <2>2 DEF Place, Alone
  <2>4. Local(x, j)
    BY <2>2 DEF PipesInv
  <2> QED
    BY <2>1, <2>3, <2>4 DEF Local
<1>2. ASSUME NEW x \in Ends, NEW j \in Ids, j # i, OwnParity(x, j)
      PROVE  Paired(x, j)'
  <2>0. Peer(x) \in Ends
    BY Parity
  <2>1. Paired(x, j)
    BY <1>2 DEF PipesInv
  <2>2. ASSUME NEW y \in Ends
        PROVE  /\ state'[y][j] = state[y][j] /\ refs'[y][j] = refs[y][j]
               /\ (j \in pipes'[y] <=> j \in pipes[y]) /\ (link'[y] = "up" => link[y] = "up")
               /\ (j >= next'[y] => j >= next[y])
    BY <1>2 DEF OnlyTables
  <2>3. ASSUME NEW y \in Ends
        PROVE  /\ Has(chan'[y], "OPEN_REQ", j) => Has(chan[y], "OPEN_REQ", j)
               /\ Has(chan'[y], "OPEN_RESP", j) <=> Has(chan[y], "OPEN_RESP", j)
               /\ Saying(chan'[y], j) => Saying(chan[y], j)
               /\ Once(chan[y], "OPEN_REQ", j) => Once(chan'[y], "OPEN_REQ", j)
               /\ Answered(chan[y], j) => Answered(chan'[y], j)
    BY <1>2 DEF OnlyPackets
  <2>4. ASSUME NEW y \in Ends
        PROVE  /\ Does(y, "emitter", j)' = Does(y, "emitter", j) /\ Does(y, "app", j)' = Does(y, "app", j)
               /\ (Waits(y, j)' <=> Waits(y, j))
    BY <1>2, <2>2 DEF OnlyPlaces, Waits, Place
  <2> QED
    BY <2>0, <2>1, <2>2, <2>3, <2>4 DEF Paired, Unused, WasOpened
<1> QED
  BY <1>1, <1>2 DEF PipesInv

(* No packet is sent or taken. *)
LEMMA NoPacket == ASSUME UNCHANGED chan, NEW i PROVE OnlyPackets(i)
  BY DEF OnlyPackets

(* A packet of pipe i is added to what is on its way from end e; *)
Added(e, i, m) ==
  /\ chan' \in [Ends -> Seq(Msgs)] /\ OnlyPackets(i) /\ chan'[e] = chan[e]
  /\ LET c == chan[Peer(e)]
         d == chan'[Peer(e)]
     IN /\ \A type : Has(d, type, i) <=> Has(c, type, i) \/ m.type = type
        /\ Saying(d, i) <=> Saying(c, i) \/ (m.type = "DATA" /\ m.opened)
        /\ Once(c, "OPEN_REQ", i) /\ ~(m.type = "OPEN_REQ" /\ Has(c, "OPEN_REQ", i)) => Once(d, "OPEN_REQ", i)
        /\ Answered(c, i) /\ (m.type = "DATA" /\ m.opened => Has(c, "OPEN_RESP", i)) => Answered(d, i)

LEMMA Adds ==
  ASSUME ShapeInv, NEW e \in Ends, NEW i \in Ids, NEW m \in Msgs, m.id = i,
         chan' = [chan EXCEPT ![Peer(e)] = Append(@, m)]
  PROVE  Added(e, i, m)
<1> DEFINE c == chan[Peer(e)]
           d == chan'[Peer(e)]
<1>1. Peer(e) \in Ends /\ Peer(e) # e /\ (\A x \in Ends : x = e \/ x = Peer(e))
  BY Parity
<1>2. chan \in [Ends -> Seq(Msgs)] /\ chan' = [chan EXCEPT ![Peer(e)] = Append(c, m)]
  BY DEF ShapeInv
<1>3. c \in Seq(Msgs) /\ d = Append(c, m) /\ chan'[e] = chan[e]
  BY <1>1, <1>2
<1>4. /\ Append(c, m) \in Seq(Msgs)
      /\ \A type, j : Has(Append(c, m), type, j) <=> Has(c, type, j) \/ Is(m, type, j)
      /\ \A j : Saying(Append(c, m), j) <=> Saying(c, j) \/ Says(m, j)
      /\ \A type, j : Once(c, type, j) /\ ~(Is(m, type, j) /\ Has(c, type, j)) => Once(Append(c, m), type, j)
      /\ \A j : Answered(c, j) /\ (Says(m, j) => Has(c, "OPEN_RESP", j)) => Answered(Append(c, m), j)
  BY <1>3, AppendMsg
<1>5. /\ \A type, j : Is(m, type, j) <=> m.type = type /\ j = i
      /\ \A j : Says(m, j) <=> m.type = "DATA" /\ m.opened /\ j = i
  BY DEF Is, Says
<1>6. chan' \in [Ends -> Seq(Msgs)]
  BY <1>1, <1>2, <1>4
<1> HIDE DEF c, d
<1>7. ASSUME NEW x \in Ends, NEW j \in Ids, j # i
      PROVE  /\ Has(chan'[x], "OPEN_REQ", j) => Has(chan[x], "OPEN_REQ", j)
             /\ Has(chan'[x], "OPEN_RESP", j) <=> Has(chan[x], "OPEN_RESP", j)
             /\ Saying(chan'[x], j) => Saying(chan[x], j)
             /\ Once(chan[x], "OPEN_REQ", j) => Once(chan'[x], "OPEN_REQ", j)
             /\ Answered(chan[x], j) => Answered(chan'[x], j)
  <2>1. ~Is(m, "OPEN_REQ", j) /\ ~Is(m, "OPEN_RESP", j) /\ ~Says(m, j)
    BY <1>5, <1>7
  <2>2. CASE x = e
    BY <1>3, <2>2
  <2>3. CASE x = Peer(e)
    BY <1>3, <1>4, <2>1, <2>3 DEF c, d
  <2> QED
    BY <1>1, <2>2, <2>3
<1>8. /\ \A type : Has(d, type, i) <=> Has(c, type, i) \/ m.type = type
      /\ Saying(d, i) <=> Saying(c, i) \/ (m.type = "DATA" /\ m.opened)
      /\ Once(c, "OPEN_REQ", i) /\ ~(m.type = "OPEN_REQ" /\ Has(c, "OPEN_REQ", i)) => Once(d, "OPEN_REQ", i)
      /\ Answered(c, i) /\ (m.type = "DATA" /\ m.opened => Has(c, "OPEN_RESP", i)) => Answered(d, i)
  BY <1>3, <1>4, <1>5
<1> QED
  BY <1>3, <1>6, <1>7, <1>8 DEF Added, OnlyPackets, c, d

(* which is what sending does, unless a transport has closed. *)
Sent(e, i, m) ==
  /\ chan' \in [Ends -> Seq(Msgs)] /\ OnlyPackets(i) /\ chan'[e] = chan[e]
  /\ LET c == chan[Peer(e)]
         d == chan'[Peer(e)]
         up == \A x \in Ends : link[x] = "up"
     IN /\ \A type : Has(d, type, i) <=> Has(c, type, i) \/ (up /\ m.type = type)
        /\ Saying(d, i) => Saying(c, i) \/ (m.type = "DATA" /\ m.opened)
        /\ Once(c, "OPEN_REQ", i) /\ ~(m.type = "OPEN_REQ" /\ Has(c, "OPEN_REQ", i)) => Once(d, "OPEN_REQ", i)
        /\ Answered(c, i) /\ (m.type = "DATA" /\ m.opened /\ up => Has(c, "OPEN_RESP", i)) => Answered(d, i)

LEMMA SendsOne ==
  ASSUME ShapeInv, NEW e \in Ends, NEW i \in Ids, NEW m \in Msgs, m.id = i, Sends(e, m)
  PROVE  Sent(e, i, m)
<1> DEFINE c == chan[Peer(e)]
           d == chan'[Peer(e)]
           up == \A x \in Ends : link[x] = "up"
<1>1. CASE up
  <2>1. /\ chan' \in [Ends -> Seq(Msgs)] /\ OnlyPackets(i) /\ chan'[e] = chan[e]
        /\ \A type : Has(d, type, i) <=> Has(c, type, i) \/ m.type = type
        /\ Saying(d, i) <=> Saying(c, i) \/ (m.type = "DATA" /\ m.opened)
        /\ Once(c, "OPEN_REQ", i) /\ ~(m.type = "OPEN_REQ" /\ Has(c, "OPEN_REQ", i)) => Once(d, "OPEN_REQ", i)
        /\ Answered(c, i) /\ (m.type = "DATA" /\ m.opened => Has(c, "OPEN_RESP", i)) => Answered(d, i)
    <3>1. chan' = [chan EXCEPT ![Peer(e)] = Append(@, m)]
      BY <1>1 DEF Sends
    <3>2. Added(e, i, m)
      BY <3>1, Adds
    <3> QED
      BY <3>2 DEF Added
  <2> HIDE DEF c, d, up
  <2> QED
    BY <1>1, <2>1 DEF Sent, c, d, up
<1>2. CASE ~up
  <2>1. chan' = chan /\ chan \in [Ends -> Seq(Msgs)] /\ OnlyPackets(i)
    BY <1>2, NoPacket DEF Sends, ShapeInv
  <2> QED
    BY <1>2, <2>1 DEF Sent
<1> QED
  BY <1>1, <1>2

(* End e takes the next packet. *)
LEMMA TakesOne ==
  ASSUME ShapeInv, NEW e \in Ends, NEW type, Takes(e, type)
  PROVE  /\ Msg(e) \in Msgs /\ Msg(e).type = type /\ Msg(e).id \in Ids
         /\ chan' \in [Ends -> Seq(Msgs)] /\ OnlyPackets(Msg(e).id) /\ chan'[Peer(e)] = chan[Peer(e)]
         /\ LET c == chan[e]
                d == chan'[e]
                i == Msg(e).id
            IN /\ \A t : Has(c, t, i) <=> Has(d, t, i) \/ type = t
               /\ Saying(c, i) <=> Saying(d, i) \/ (type = "DATA" /\ Msg(e).opened)
               /\ Once(c, "OPEN_REQ", i) => Once(d, "OPEN_REQ", i) /\ (type = "OPEN_REQ" => ~Has(d, "OPEN_REQ", i))
               /\ Answered(c, i) => ~(type = "DATA" /\ Msg(e).opened) /\ (type # "OPEN_RESP" => Answered(d, i))
<1> DEFINE c == chan[e]
           d == chan'[e]
           m == Msg(e)
           i == m.id
<1>1. Peer(e) \in Ends /\ Peer(e) # e /\ (\A x \in Ends : x = e \/ x = Peer(e))
  BY Parity
<1>2. chan \in [Ends -> Seq(Msgs)] /\ chan' = [chan EXCEPT ![e] = Tail(c)] /\ c # <<>> /\ m = Head(c) /\ m.type = type
  BY DEF ShapeInv, Takes, Msg
<1>3. c \in Seq(Msgs) /\ d = Tail(c) /\ chan'[Peer(e)] = chan[Peer(e)]
  BY <1>1, <1>2
<1>4. /\ Tail(c) \in Seq(Msgs) /\ Head(c) \in Msgs
      /\ \A t, j : Has(c, t, j) <=> Has(Tail(c), t, j) \/ Is(Head(c), t, j)
      /\ \A j : Saying(c, j) <=> Saying(Tail(c), j) \/ Says(Head(c), j)
      /\ \A t, j : Once(c, t, j) => Once(Tail(c), t, j) /\ ~(Is(Head(c), t, j) /\ Has(Tail(c), t, j))
      /\ \A j : Answered(c, j) => ~Says(Head(c), j) /\ (~Is(Head(c), "OPEN_RESP", j) => Answered(Tail(c), j))
  BY <1>2, <1>3, TailMsg
<1>5. /\ \A t, j : Is(m, t, j) <=> type = t /\ j = i
      /\ \A j : Says(m, j) <=> type = "DATA" /\ m.opened /\ j = i
  BY <1>2 DEF Is, Says
<1>6. chan' \in [Ends -> Seq(Msgs)]
  BY <1>1, <1>2, <1>4
<1>7. m \in Msgs /\ i \in Ids
  BY <1>2, <1>4 DEF Msgs
<1> HIDE DEF c, d, m, i
<1>8. ASSUME NEW x \in Ends, NEW j \in Ids, j # i
      PROVE  /\ Has(chan'[x], "OPEN_REQ", j) => Has(chan[x], "OPEN_REQ", j)
             /\ Has(chan'[x], "OPEN_RESP", j) <=> Has(chan[x], "OPEN_RESP", j)
             /\ Saying(chan'[x], j) => Saying(chan[x], j)
             /\ Once(chan[x], "OPEN_REQ", j) => Once(chan'[x], "OPEN_REQ", j)
             /\ Answered(chan[x], j) => Answered(chan'[x], j)
  BY <1>1, <1>2, <1>3, <1>4, <1>5, <1>8 DEF c, d
<1>9. /\ \A t : Has(c, t, i) <=> Has(d, t, i) \/ type = t
      /\ Saying(c, i) <=> Saying(d, i) \/ (type = "DATA" /\ m.opened)
      /\ Once(c, "OPEN_REQ", i) => Once(d, "OPEN_REQ", i) /\ (type = "OPEN_REQ" => ~Has(d, "OPEN_REQ", i))
      /\ Answered(c, i) => ~(type = "DATA" /\ m.opened) /\ (type # "OPEN_RESP" => Answered(d, i))
  BY <1>2, <1>3, <1>4, <1>5
<1> QED
  BY <1>2, <1>3, <1>6, <1>7, <1>8, <1>9 DEF OnlyPackets, c, d, m, i


(* The last reference that is let go of destroys the pipe: it leaves the map, *)
(* or is closed first if the peer has to hear of it.                          *)
LEMMA Drops ==
  ASSUME TablesOK, PcInv, NEW e \in Ends, NEW th \in Threads, NEW i \in Ids, NEW who, DropRef(e, th, i, who),
         pc[e][th].at \in Places => pc[e][th].id = i
  PROVE  LET last == refs[e][i] \ {who} = {}
             closing == last /\ state'[e][i] \in NotifiesPeer
         IN /\ Moved(e, th, i, IF closing THEN "erase" ELSE "free")
            /\ refs' \in [Ends -> [Ids -> SUBSET {"user", "timer", "emitter"}]]
            /\ refs'[e][i] = refs[e][i] \ {who}
            /\ \A x \in Ends, j \in Ids : x # e \/ j # i => refs'[x][j] = refs[x][j]
            /\ pipes' \in [Ends -> SUBSET Ids]
            /\ i \in pipes'[e] <=> i \in pipes[e] /\ ~(last /\ ~closing)
            /\ \A x \in Ends, j \in Ids : x # e \/ j # i => (j \in pipes'[x] <=> j \in pipes[x])
<1> DEFINE last == refs[e][i] \ {who} = {}
           closing == last /\ state'[e][i] \in NotifiesPeer
           p == IF closing THEN In("erase", i, "none") ELSE Idle
<1>1. /\ refs \in [Ends -> [Ids -> SUBSET {"user", "timer", "emitter"}]]
      /\ refs' = [refs EXCEPT ![e][i] = refs[e][i] \ {who}]
      /\ pipes \in [Ends -> SUBSET Ids]
  BY DEF TablesOK, DropRef
<1>2. /\ refs' \in [Ends -> [Ids -> SUBSET {"user", "timer", "emitter"}]]
      /\ refs'[e][i] = refs[e][i] \ {who}
      /\ \A x \in Ends, j \in Ids : x # e \/ j # i => refs'[x][j] = refs[x][j]
  BY <1>1
<1>3. Goes(e, th, p) /\ pipes' = IF last /\ ~closing THEN [pipes EXCEPT ![e] = @ \ {i}] ELSE pipes
  BY <1>2 DEF DropRef
<1>4. /\ pipes' \in [Ends -> SUBSET Ids]
      /\ i \in pipes'[e] <=> i \in pipes[e] /\ ~(last /\ ~closing)
      /\ \A x \in Ends, j \in Ids : x # e \/ j # i => (j \in pipes'[x] <=> j \in pipes[x])
  BY <1>1, <1>3
<1>5. /\ p.at = IF closing THEN "erase" ELSE "idle"
      /\ p.at = "erase" => p.id = i
  BY DEF In, Idle
<1> HIDE DEF p, closing, last
<1>6. Fits(th, p) /\ (p.at \in Places <=> closing) /\ (p.at \in Places => p.id = i) /\ p.at # "linkclose"
  BY <1>5 DEF Fits, Places, Closing
<1>7. Moved(e, th, i, IF p.at \in Places THEN p.at ELSE "free")
  BY <1>3, <1>6, Moves
<1>8. Moved(e, th, i, IF closing THEN "erase" ELSE "free")
  BY <1>5, <1>6, <1>7
<1> QED
  BY <1>2, <1>4, <1>8 DEF last, closing

(* The types follow from the shapes and the tables. *)
LEMMA Typed == ASSUME ShapeInv', TablesOK' PROVE TypeOK'
<1>1. ASSUME NEW e \in Ends, NEW k \in 1..Len(chan'[e])
      PROVE  chan'[e][k] \in Msgs
  <2>1. chan'[e] \in Seq(Msgs)
    BY DEF ShapeInv
  <2> QED
    BY <2>1
<1>2. \A e \in Ends, th \in Threads : Fits(th, pc'[e][th])
  BY DEF ShapeInv, PcInv, Fits
<1>3. ASSUME NEW e \in Ends, NEW th \in {"emitter", "app"}
      PROVE  /\ pc'[e][th].at \in {"idle", "erase", "check", "commit", "accept", "respond", "resp",
                                   "closed", "linkclose", "selflock"}
             /\ pc'[e][th].at # "idle" /\ pc'[e][th].at # "linkclose" => pc'[e][th].id \in Ids
  BY <1>2, <1>3 DEF Fits, Places, Closing, Threads
<1> QED
  BY <1>1, <1>3 DEF TypeOK, TablesOK, Busy, Msgs, Threads

-----------------------------------------------------------------------------
(* Each step preserves the invariant *)

Keeps == TablesOK' /\ ShapeInv' /\ PipesInv' /\ OpenDataNotLost'

(* What is known of pipe i of end e before a step about it, *)
LEMMA Before ==
  ASSUME IInv, NEW e \in Ends, NEW i \in Ids
  PROVE  /\ TablesOK /\ ShapeInv /\ PcInv /\ PipesInv /\ OpenDataNotLost
         /\ Peer(e) \in Ends /\ Peer(e) # e /\ Peer(Peer(e)) = e
         /\ \A x \in Ends : x = e \/ x = Peer(e)
         /\ next[e] \in Nat /\ next[Peer(e)] \in Nat /\ i \in Nat
         /\ i \notin crossed[e] => Local(e, i)
         /\ OwnParity(e, i) => Paired(e, i)
         /\ ~OwnParity(e, i) => Paired(Peer(e), i)
         /\ Does(e, "emitter", i) \notin {"accept", "respond"}
         /\ Does(e, "app", i) \notin {"resp", "closed", "selflock"}
<1>1. TablesOK /\ ShapeInv /\ PcInv /\ PipesInv /\ OpenDataNotLost
  BY DEF IInv, TypeOK, TablesOK, ShapeInv
<1>2. Fits("emitter", pc[e]["emitter"]) /\ Fits("app", pc[e]["app"])
  BY <1>1 DEF PcInv, Threads
<1>3. /\ Does(e, "emitter", i) \notin {"accept", "respond"}
      /\ Does(e, "app", i) \notin {"resp", "closed", "selflock"}
  BY <1>2 DEF Fits, Does, Closing
<1> QED
  BY <1>1, <1>3, Parity, PipesConstants DEF PipesInv, TablesOK

(* and what is enough afterwards. *)
LEMMA After ==
  ASSUME IInv, NEW e \in Ends, NEW i \in Ids, OnlyTables(e, i), OnlyPlaces(e, i), OnlyPackets(i),
         i \notin crossed'[e] => Local(e, i)',
         OwnParity(e, i) => Paired(e, i)',
         ~OwnParity(e, i) => Paired(Peer(e), i)'
  PROVE  PipesInv'
<1>1. /\ \A x \in Ends : x = e \/ x = Peer(e)
      /\ OwnParity(e, i) <=> ~OwnParity(Peer(e), i)
  BY Parity
<1>2. \A x \in Ends : OwnParity(x, i) => Paired(x, i)'
  BY <1>1
<1> QED
  BY <1>2, Frame DEF IInv

(* The threads are where they fit when one of them has moved. *)
LEMMA MovedShape ==
  ASSUME ShapeInv, NEW e, NEW th, NEW i, NEW at, Moved(e, th, i, at),
         chan' \in [Ends -> Seq(Msgs)], UNCHANGED link
  PROVE  ShapeInv'
  BY DEF ShapeInv, Moved

(* What both ends of pipe i see of the move. *)
LEMMA MovedEnds ==
  ASSUME NEW e \in Ends, NEW th \in Threads, NEW i \in Ids, NEW at, Moved(e, th, i, at)
  PROVE  /\ Does(e, th, i)' = at /\ Does(e, Other(th), i)' = Does(e, Other(th), i)
         /\ Does(Peer(e), "emitter", i)' = Does(Peer(e), "emitter", i)
         /\ Does(Peer(e), "app", i)' = Does(Peer(e), "app", i)
         /\ Place(Peer(e), i)' = Place(Peer(e), i)
         /\ i \in crossed'[Peer(e)] <=> i \in crossed[Peer(e)]
         /\ (th = "app" /\ Other(th) = "emitter") \/ (th = "emitter" /\ Other(th) = "app")
<1>1. Peer(e) \in Ends /\ Peer(e) # e
  BY Parity
<1>2. (th = "app" /\ Other(th) = "emitter") \/ (th = "emitter" /\ Other(th) = "app")
  <2>1. th = "app" \/ th = "emitter"
    BY DEF Threads
  <2> QED
    BY <2>1 DEF Other
<1> QED
  BY <1>1, <1>2 DEF Moved, Threads, Place

(* A thread moves, and at most the map and the references of the pipe change. *)
LEMMA MovedKeeps ==
  ASSUME IInv, NEW e \in Ends, NEW th \in Threads, NEW i \in Ids, NEW at, Moved(e, th, i, at),
         UNCHANGED <<next, chan, link, lost>>, TablesOK', OnlyTables(e, i),
         state'[e][i] = state[e][i], ~Unused(e, i),
         at \notin {"respond", "resp"}, at = "accept" => ~OwnParity(e, i),
         th = "app" => Does(e, "app", i) # "respond",
         i \notin crossed'[e] => Local(e, i)',
         Waits(e, i)' => Waits(e, i)
  PROVE  Keeps
<1> DEFINE a == Peer(e)
<1>1. /\ TablesOK /\ ShapeInv /\ PcInv /\ PipesInv /\ OpenDataNotLost
      /\ a \in Ends /\ a # e /\ Peer(a) = e
      /\ next[e] \in Nat /\ next[a] \in Nat /\ i \in Nat
      /\ OwnParity(e, i) => Paired(e, i)
      /\ ~OwnParity(e, i) => Paired(a, i)
  BY Before
<1>2. /\ Does(e, th, i)' = at /\ Does(e, Other(th), i)' = Does(e, Other(th), i)
      /\ Does(a, "emitter", i)' = Does(a, "emitter", i) /\ Does(a, "app", i)' = Does(a, "app", i)
      /\ Place(a, i)' = Place(a, i)
      /\ i \in crossed'[a] <=> i \in crossed[a]
      /\ (th = "app" /\ Other(th) = "emitter") \/ (th = "emitter" /\ Other(th) = "app")
  BY MovedEnds
<1>3. ShapeInv' /\ OpenDataNotLost'
  BY <1>1, MovedShape DEF ShapeInv, OpenDataNotLost
<1>4. OnlyPlaces(e, i) /\ OnlyPackets(i)
  BY MovedOnly, NoPacket
<1>5. /\ state'[a][i] = state[a][i] /\ refs'[a][i] = refs[a][i]
      /\ i \in pipes'[a] <=> i \in pipes[a]
  BY <1>1 DEF OnlyTables
<1>6. OwnParity(e, i) => Paired(e, i)'
  <2> SUFFICES ASSUME OwnParity(e, i) PROVE Paired(e, i)'
    OBVIOUS
  <2>1. Paired(e, i) /\ i < next[e]
    BY <1>1 DEF Paired
  <2>2. Unused(a, i)' <=> Unused(a, i)
    BY <1>2, <1>5 DEF Unused
  <2> QED
    BY <1>1, <1>2, <1>5, <2>1, <2>2 DEF Paired, WasOpened
<1>7. ~OwnParity(e, i) => Paired(a, i)'
  <2> SUFFICES ASSUME ~OwnParity(e, i) PROVE Paired(a, i)'
    OBVIOUS
  <2>1. Paired(a, i) /\ state[e][i] # "None"
    BY <1>1 DEF Paired
  <2>2. Unused(a, i)' <=> Unused(a, i)
    BY <1>2, <1>5 DEF Unused
  <2>3. Waits(a, i)' <=> Waits(a, i)
    BY <1>2, <1>5 DEF Waits
  <2> QED
    BY <1>1, <1>2, <1>5, <2>1, <2>2, <2>3 DEF Paired, WasOpened
<1> QED
  BY <1>3, <1>4, <1>6, <1>7, After DEF Keeps

(* openPipe() uses an id that nobody knows. *)
LEMMA OpenPipeKeeps ==
  ASSUME IInv, NEW e \in Ends, OpenPipe(e), NEW i, i = next[e]
  PROVE  Keeps
<1>1. /\ TablesOK /\ ShapeInv /\ PcInv /\ PipesInv /\ OpenDataNotLost
      /\ i \in Ids /\ OwnParity(e, i) /\ ~OwnParity(Peer(e), i)
      /\ \A x \in Ends : x = e \/ x = Peer(e)
  BY Parity DEF IInv, TypeOK, TablesOK, ShapeInv, OpenPipe
<1>2. UNCHANGED <<chan, link, pc, opens, closes, dsent, lost, crossed>>
  BY DEF OpenPipe
<1>3. Paired(e, i) /\ Unused(e, i)
  <2>1. next[e] \in Nat
    BY <1>1 DEF TablesOK
  <2>2. Paired(e, i)
    BY <1>1 DEF PipesInv
  <2> QED
    BY <2>1, <2>2 DEF Paired
<1>4. /\ next' \in [Ends -> Nat] /\ next'[e] = i + 2
      /\ \A x \in Ends : OwnParity(x, next'[x])
      /\ \A x \in Ends, j \in Ids : j >= next'[x] => j >= next[x]
  <2>1. /\ next \in [Ends -> Nat] /\ next' = [next EXCEPT ![e] = i + 2]
        /\ \A x \in Ends : OwnParity(x, next[x])
    BY <1>1 DEF TablesOK, OpenPipe, NextId
  <2>2. i \in Nat /\ (i + 2) % 2 = i % 2
    BY <2>1
  <2>3. OwnParity(e, i + 2)
    BY <1>1, <2>2 DEF OwnParity
  <2>4. Ids \subseteq Nat
    BY PipesConstants
    <2> QED
    BY <2>1, <2>2, <2>3, <2>4
<1>5. /\ pipes' \in [Ends -> SUBSET Ids] /\ i \in pipes'[e]
      /\ \A x \in Ends, j \in Ids : x # e \/ j # i => (j \in pipes'[x] <=> j \in pipes[x])
  BY <1>1 DEF TablesOK, OpenPipe
<1>6. /\ state' \in [Ends -> [Ids -> States]] /\ state'[e][i] = "None"
      /\ \A x \in Ends, j \in Ids : x # e \/ j # i => state'[x][j] = state[x][j]
  BY <1>1 DEF TablesOK, OpenPipe, States
<1>7. /\ refs' \in [Ends -> [Ids -> SUBSET {"user", "timer", "emitter"}]] /\ refs'[e][i] = {"user"}
      /\ \A x \in Ends, j \in Ids : x # e \/ j # i => refs'[x][j] = refs[x][j]
  BY <1>1 DEF TablesOK, OpenPipe
<1>8. PcInv' /\ \A x, u, j : Does(x, u, j)' = Does(x, u, j)
  BY <1>1, <1>2, Stays
<1>9. TablesOK' /\ ShapeInv' /\ OpenDataNotLost'
  <2>1. TablesOK'
    BY <1>1, <1>2, <1>4, <1>5, <1>6, <1>7, <1>8 DEF TablesOK
  <2>2. ShapeInv'
    BY <1>1, <1>2, <1>4, <1>5, <1>6, <1>7, <1>8 DEF ShapeInv
  <2> QED
    BY <1>1, <1>2, <1>4, <1>5, <1>6, <1>7, <1>8, <2>1, <2>2 DEF OpenDataNotLost
<1>10. OnlyTables(e, i) /\ OnlyPlaces(e, i) /\ OnlyPackets(i)
  <2>1. OnlyTables(e, i)
    BY <1>2, <1>4, <1>5, <1>6, <1>7 DEF OnlyTables
  <2> QED
    BY <1>2, <2>1, StaysOnly, NoPacket
<1>11. i \notin crossed'[e] => Local(e, i)'
  <2> SUFFICES ASSUME i \notin crossed'[e] PROVE Local(e, i)'
    OBVIOUS
  <2>1. Local(e, i)
    BY <1>1, <1>2 DEF PipesInv
  <2>2. Place(e, i)' = "free" /\ Alone(e, i)'
    BY <1>3, <1>8 DEF Unused, Place, Alone
  <2>3. closes'[e][i] = closes[e][i] /\ state[e][i] = "None" /\ link' = link
    BY <1>2, <1>3 DEF Unused
  <2> QED
    BY <1>5, <1>6, <1>7, <2>1, <2>2, <2>3 DEF Local, NotifiesPeer
<1>12. Paired(e, i)'
  <2>1. next[e] \in Nat /\ Peer(e) \in Ends /\ Peer(e) # e
    BY <1>1, Parity DEF TablesOK
  <2>2. /\ ~(i >= next'[e]) /\ state'[e][i] = state[e][i] /\ state'[Peer(e)][i] = state[Peer(e)][i]
        /\ refs'[Peer(e)][i] = refs[Peer(e)][i] /\ (i \in pipes'[Peer(e)] <=> i \in pipes[Peer(e)])
        /\ state[e][i] = "None"
    BY <1>1, <1>3, <1>4, <1>5, <1>6, <1>7, <2>1 DEF Unused
  <2> QED
    BY <1>2, <1>3, <1>8, <2>1, <2>2 DEF Paired, Unused, WasOpened, Waits
<1> QED
  BY <1>1, <1>9, <1>10, <1>11, <1>12, Frame DEF Keeps, OwnParity

(* A reference is let go of, beside what the other thread does or after a     *)
(* close() that had nothing to do, and nothing else happens.                  *)
LEMMA LetsGo ==
  ASSUME IInv, NEW e \in Ends, NEW i \in Ids, NEW th \in Threads, NEW who, DropRef(e, th, i, who),
         UNCHANGED <<next, chan, link, opens, closes, lost, state>>,
         pc[e][th].at \in Places => pc[e][th].id = i,
         (th = "app" /\ who = "user") \/ who = "timer",
         (Does(e, th, i) = "free" /\ refs[e][i] # {}) \/ (Does(e, th, i) = "check" /\ state[e][i] = "Closed")
  PROVE  Keeps
<1> DEFINE a == Peer(e)
           last == refs[e][i] \ {who} = {}
           closing == last /\ state'[e][i] \in NotifiesPeer
<1>1. /\ TablesOK /\ ShapeInv /\ PcInv /\ PipesInv /\ OpenDataNotLost
      /\ a \in Ends /\ a # e /\ Peer(a) = e
      /\ next[e] \in Nat /\ next[a] \in Nat /\ i \in Nat
      /\ i \notin crossed[e] => Local(e, i)
      /\ OwnParity(e, i) => Paired(e, i)
      /\ ~OwnParity(e, i) => Paired(a, i)
      /\ Does(e, "emitter", i) \notin {"accept", "respond"}
      /\ Does(e, "app", i) \notin {"resp", "closed", "selflock"}
  BY Before
<1>2. /\ Moved(e, th, i, IF closing THEN "erase" ELSE "free")
      /\ refs' \in [Ends -> [Ids -> SUBSET {"user", "timer", "emitter"}]]
      /\ refs'[e][i] = refs[e][i] \ {who}
      /\ \A x \in Ends, j \in Ids : x # e \/ j # i => refs'[x][j] = refs[x][j]
      /\ pipes' \in [Ends -> SUBSET Ids]
      /\ i \in pipes'[e] <=> i \in pipes[e] /\ ~(last /\ ~closing)
      /\ \A x \in Ends, j \in Ids : x # e \/ j # i => (j \in pipes'[x] <=> j \in pipes[x])
  BY <1>1, Drops
<1>3. TablesOK'
  BY <1>1, <1>2 DEF TablesOK, Moved
<1>4. OnlyTables(e, i)
  BY <1>2 DEF OnlyTables
<1>5. state'[e][i] = state[e][i] /\ ~Unused(e, i)
  <2>1. th = "app" \/ th = "emitter"
    BY DEF Threads
  <2> QED
    BY <2>1 DEF Unused
<1> DEFINE at == IF closing THEN "erase" ELSE "free"
<1>6. at \in {"erase", "free"} /\ (at = "erase" <=> closing)
  OBVIOUS
<1>7. Moved(e, th, i, at)
  BY <1>2
<1> HIDE DEF at, closing
<1>8. ASSUME i \notin crossed'[e]
      PROVE  /\ Local(e, i) /\ Alone(e, i)'
             /\ Place(e, i)' = IF closing THEN "erase"
                               ELSE IF Does(e, th, i) # "free" THEN "free" ELSE Place(e, i)
             /\ Does(e, th, i) # "free" => Place(e, i) = Does(e, th, i)
             /\ closing => Place(e, i) = Does(e, th, i)
             /\ Place(e, i) \in {"accept", "respond"} => who = "timer"
  <2>0. i \notin crossed[e]
    BY <1>7, <1>8 DEF Moved
  <2>1. Local(e, i) /\ Alone(e, i)
    BY <1>1, <2>0 DEF Local
  <2>2. /\ Alone(e, i)'
        /\ Place(e, i)' = IF at # "free" THEN at
                          ELSE IF Does(e, th, i) # "free" THEN "free" ELSE Place(e, i)
        /\ Does(e, th, i) # "free" => Place(e, i) = Does(e, th, i)
        /\ at # "free" => Place(e, i) = Does(e, th, i)
    BY <1>7, <1>8, <2>1, Placed
  <2>3. Place(e, i) \in {"accept", "respond"} => th # "app"
    BY <1>1, <2>1 DEF Place, Alone
  <2> QED
    BY <1>6, <2>1, <2>2, <2>3
<1>9. i \notin crossed'[e] => Local(e, i)'
  <2> SUFFICES ASSUME i \notin crossed'[e] PROVE Local(e, i)'
    OBVIOUS
  <2>1. CASE closing
    BY <1>2, <1>5, <1>8, <2>1 DEF Local, Closing
  <2>2. CASE ~closing /\ Does(e, th, i) = "free"
    BY <1>2, <1>5, <1>8, <2>2 DEF Local, closing
  <2>3. CASE ~closing /\ Does(e, th, i) = "check"
    BY <1>2, <1>5, <1>8, <2>3 DEF Local, NotifiesPeer
  <2> QED
    BY <2>1, <2>2, <2>3
<1>10. Waits(e, i)' => Waits(e, i)
  <2> SUFFICES ASSUME Waits(e, i)' PROVE Waits(e, i)
    OBVIOUS
  <2>1. i \notin crossed'[e] /\ Place(e, i)' = "free" /\ state[e][i] = "OpenRequstSent"
    BY <1>5 DEF Waits
  <2>2. i \notin crossed[e]
    BY <1>7, <2>1 DEF Moved
  <2> QED
    BY <1>8, <2>1, <2>2 DEF Waits
<1> QED
  BY <1>3, <1>4, <1>5, <1>6, <1>7, <1>9, <1>10, MovedKeeps

(* The user lets go of a pipe. *)
LEMMA ReleaseKeeps ==
  ASSUME IInv, NEW e \in Ends, NEW i \in Ids, Release(e, i)
  PROVE  Keeps
<1>1. /\ UNCHANGED <<next, chan, link, opens, closes, lost, state>>
      /\ DropRef(e, "app", i, "user") /\ refs[e][i] # {} /\ pc[e]["app"].at = "idle"
  BY DEF Release, Busy
<1>2. pc[e]["app"].at \notin Places /\ Does(e, "app", i) = "free" /\ "app" \in Threads
  BY <1>1, Rests DEF Threads
<1> QED
  BY <1>1, <1>2, LetsGo

(* start() of a pipe of one's own: the request is the first that the peer     *)
(* hears of it.                                                               *)
LEMMA StartClientKeeps ==
  ASSUME IInv, NEW e \in Ends, NEW i \in Ids, StartClient(e, i)
  PROVE  Keeps
<1> DEFINE a == Peer(e)
           m == Packet("OPEN_REQ", i)
<1>1. /\ TablesOK /\ ShapeInv /\ PcInv /\ PipesInv /\ OpenDataNotLost
      /\ a \in Ends /\ a # e /\ Peer(a) = e
      /\ next[e] \in Nat /\ next[a] \in Nat /\ i \in Nat
      /\ i \notin crossed[e] => Local(e, i)
      /\ OwnParity(e, i) => Paired(e, i)
      /\ ~OwnParity(e, i) => Paired(a, i)
      /\ Does(e, "emitter", i) \notin {"accept", "respond"}
      /\ Does(e, "app", i) \notin {"resp", "closed", "selflock"}
  BY Before
<1>2. /\ UNCHANGED <<next, pipes, link, pc, opens, closes, dsent, lost, crossed>>
      /\ "user" \in refs[e][i] /\ state[e][i] = "None" /\ Sends(e, m)
  BY DEF StartClient
<1>3. OwnParity(e, i)
  BY <1>1, <1>2 DEF Paired, Unused
<1>4. /\ refs' \in [Ends -> [Ids -> SUBSET {"user", "timer", "emitter"}]]
      /\ refs'[e][i] = refs[e][i] \cup {"timer"}
      /\ \A x \in Ends, j \in Ids : x # e \/ j # i => refs'[x][j] = refs[x][j]
  BY <1>1 DEF TablesOK, StartClient
<1>5. /\ state' \in [Ends -> [Ids -> States]] /\ state'[e][i] = "OpenRequstSent"
      /\ \A x \in Ends, j \in Ids : x # e \/ j # i => state'[x][j] = state[x][j]
  BY <1>1 DEF TablesOK, StartClient, States
<1>6. m \in Msgs /\ m.id = i /\ m.type = "OPEN_REQ"
  BY DEF Msgs, Packet
<1> HIDE DEF m
<1>7. /\ chan' \in [Ends -> Seq(Msgs)] /\ OnlyPackets(i) /\ chan'[e] = chan[e]
      /\ \A type : Has(chan'[a], type, i) => Has(chan[a], type, i) \/ type = "OPEN_REQ"
      /\ Saying(chan'[a], i) => Saying(chan[a], i)
      /\ Once(chan[a], "OPEN_REQ", i) /\ ~Has(chan[a], "OPEN_REQ", i) => Once(chan'[a], "OPEN_REQ", i)
  <2>1. Sent(e, i, m)
    BY <1>1, <1>2, <1>6, SendsOne
  <2> QED
    BY <1>6, <2>1 DEF Sent
<1>8. PcInv' /\ \A x, u, j : Does(x, u, j)' = Does(x, u, j)
  BY <1>1, <1>2, Stays
<1>9. TablesOK' /\ ShapeInv' /\ OpenDataNotLost'
  <2>1. TablesOK'
    BY <1>1, <1>2, <1>4, <1>5, <1>7, <1>8 DEF TablesOK
  <2>2. ShapeInv'
    BY <1>1, <1>2, <1>4, <1>5, <1>7, <1>8 DEF ShapeInv
  <2> QED
    BY <1>1, <1>2, <1>4, <1>5, <1>7, <1>8, <2>1, <2>2 DEF OpenDataNotLost
<1>10. OnlyTables(e, i) /\ OnlyPlaces(e, i)
  <2>1. OnlyTables(e, i)
    BY <1>2, <1>4, <1>5 DEF OnlyTables
  <2> QED
    BY <1>2, <2>1, StaysOnly
<1>11. i \notin crossed'[e] => Local(e, i)'
  <2> SUFFICES ASSUME i \notin crossed'[e] PROVE Local(e, i)'
    OBVIOUS
  <2>1. Local(e, i)
    BY <1>1, <1>2
  <2>2. Place(e, i)' = Place(e, i) /\ (Alone(e, i)' <=> Alone(e, i))
    BY <1>8 DEF Place, Alone
  <2> QED
    BY <1>1, <1>2, <1>4, <1>5, <2>1, <2>2 DEF Local
<1>12. Paired(e, i)'
  <2>1. Paired(e, i) /\ state[a][i] = "None" /\ Unused(a, i)
    BY <1>1, <1>2, <1>3 DEF Paired
  <2>2. ~Saying(chan[e], i) /\ ~Has(chan[a], "OPEN_REQ", i) /\ ~Saying(chan[a], i)
    BY <1>2, <2>1 DEF Paired, WasOpened
  <2>3. Answered(chan[e], i)
    BY <2>2, Quiet
  <2>4. ~(i >= next[e])
    BY <1>2, <2>1 DEF Paired, Unused
  <2>5. Unused(a, i)' /\ state'[a][i] = "None"
    BY <1>1, <1>2, <1>4, <1>5, <1>8, <2>1 DEF Unused
  <2> QED
    BY <1>1, <1>2, <1>5, <1>7, <1>8, <2>1, <2>2, <2>3, <2>4, <2>5 DEF Paired, Unused, WasOpened
<1> QED
  BY <1>3, <1>7, <1>9, <1>10, <1>11, <1>12, After DEF Keeps

(* start() of a pipe the peer asked for: while no other call or handler is in *)
(* it, it is still open when it is written.                                   *)
LEMMA StartServerKeeps ==
  ASSUME IInv, NEW e \in Ends, NEW i \in Ids, StartServer(e, i)
  PROVE  Keeps
<1> DEFINE a == Peer(e)
           p == In("accept", i, "none")
<1>1. /\ TablesOK /\ ShapeInv /\ PcInv /\ PipesInv /\ OpenDataNotLost
      /\ a \in Ends /\ a # e /\ Peer(a) = e
      /\ next[e] \in Nat /\ next[a] \in Nat /\ i \in Nat
      /\ i \notin crossed[e] => Local(e, i)
      /\ OwnParity(e, i) => Paired(e, i)
      /\ ~OwnParity(e, i) => Paired(a, i)
      /\ Does(e, "emitter", i) \notin {"accept", "respond"}
      /\ Does(e, "app", i) \notin {"resp", "closed", "selflock"}
  BY Before
<1>2. /\ UNCHANGED <<next, pipes, state, refs, chan, link, opens, closes, lost>>
      /\ "user" \in refs[e][i] /\ state[e][i] = "OpenRequstRecv" /\ Goes(e, "app", p)
      /\ pc[e]["app"].at = "idle"
  BY DEF StartServer, Busy
<1>3. pc[e]["app"].at \notin Places /\ Does(e, "app", i) = "free" /\ "app" \in Threads
  BY <1>2, Rests DEF Threads
<1>4. Fits("app", p) /\ p.at = "accept" /\ p.id = i /\ "accept" \in Places
  BY DEF Fits, In, Places, Closing
<1> HIDE DEF p
<1>5. Moved(e, "app", i, "accept")
  BY <1>1, <1>2, <1>3, <1>4, Moves
<1>6. TablesOK' /\ OnlyTables(e, i) /\ state'[e][i] = state[e][i] /\ ~Unused(e, i)
  BY <1>1, <1>2, <1>5 DEF TablesOK, OnlyTables, Moved, Unused
<1>7. ~OwnParity(e, i)
  BY <1>1, <1>2 DEF Paired
<1>8. ASSUME i \notin crossed'[e]
      PROVE  Local(e, i)'
  <2>0. i \notin crossed[e]
    BY <1>5, <1>8 DEF Moved
  <2>1. Local(e, i) /\ Alone(e, i)
    BY <1>1, <2>0 DEF Local
  <2>2. /\ Alone(e, i)' /\ Place(e, i)' = "accept" /\ Place(e, i) = "free"
    BY <1>3, <1>5, <1>8, <2>1, Placed
  <2> QED
    BY <1>2, <2>1, <2>2 DEF Local, NotifiesPeer
<1>9. ~Waits(e, i)'
  BY <1>2 DEF Waits
<1> QED
  BY <1>2, <1>3, <1>5, <1>6, <1>7, <1>8, <1>9, MovedKeeps

(* The pipe is open before the answer is sent, *)
LEMMA AcceptKeeps ==
  ASSUME IInv, NEW e \in Ends, Accept(e), NEW i, i = pc[e]["app"].id
  PROVE  Keeps
<1> DEFINE a == Peer(e)
           p == In("respond", i, "none")
<1>0. PcInv /\ pc[e]["app"].at = "accept" /\ "app" \in Threads /\ "accept" \in Places
  BY DEF IInv, ShapeInv, Accept, Threads, Places
<1>01. i \in Ids /\ Does(e, "app", i) = "accept"
  BY <1>0, Works
<1>1. /\ TablesOK /\ ShapeInv /\ PcInv /\ PipesInv /\ OpenDataNotLost
      /\ a \in Ends /\ a # e /\ Peer(a) = e
      /\ next[e] \in Nat /\ next[a] \in Nat /\ i \in Nat
      /\ i \notin crossed[e] => Local(e, i)
      /\ OwnParity(e, i) => Paired(e, i)
      /\ ~OwnParity(e, i) => Paired(a, i)
      /\ Does(e, "emitter", i) \notin {"accept", "respond"}
      /\ Does(e, "app", i) \notin {"resp", "closed", "selflock"}
  BY <1>01, Before
<1>2. /\ UNCHANGED <<next, pipes, refs, chan, link, opens, closes, lost>>
      /\ Goes(e, "app", p)
      /\ state' = [state EXCEPT ![e][i] = "Opened"]
  BY DEF Accept
<1>3. ~OwnParity(e, i)
  BY <1>1, <1>01 DEF Paired
<1>4. Fits("app", p) /\ p.at = "respond" /\ p.id = i /\ "respond" \in Places
  BY <1>01 DEF Fits, In, Places, Closing
<1> HIDE DEF p
<1>5. Moved(e, "app", i, "respond")
  BY <1>0, <1>01, <1>1, <1>2, <1>4, Moves
<1>6. /\ state' \in [Ends -> [Ids -> States]] /\ state'[e][i] = "Opened"
      /\ \A x \in Ends, j \in Ids : x # e \/ j # i => state'[x][j] = state[x][j]
  BY <1>01, <1>1, <1>2 DEF TablesOK, States
<1>7. TablesOK' /\ ShapeInv' /\ OpenDataNotLost' /\ OnlyTables(e, i)
  <2>1. TablesOK' /\ OnlyTables(e, i)
    BY <1>1, <1>2, <1>5, <1>6 DEF TablesOK, OnlyTables, Moved
  <2>2. ShapeInv'
    BY <1>1, <1>2, <1>5, MovedShape DEF ShapeInv
  <2> QED
    BY <1>1, <1>2, <2>1, <2>2 DEF OpenDataNotLost
<1>8. OnlyPlaces(e, i) /\ OnlyPackets(i)
  BY <1>2, <1>5, MovedOnly, NoPacket
<1>9. ASSUME i \notin crossed'[e]
      PROVE  Local(e, i)'
  <2>0. i \notin crossed[e]
    BY <1>5, <1>9, <1>01 DEF Moved
  <2>1. Local(e, i) /\ Alone(e, i)
    BY <1>1, <2>0 DEF Local
  <2>2. /\ Alone(e, i)' /\ Place(e, i)' = "respond" /\ Place(e, i) = "accept"
    BY <1>01, <1>5, <1>9, <2>1, Placed DEF Threads
  <2> QED
    BY <1>2, <1>6, <2>1, <2>2 DEF Local, NotifiesPeer
<1>10. Paired(a, i)'
  <2>1. /\ Does(e, "app", i)' = "respond" /\ Does(e, "emitter", i)' = Does(e, "emitter", i)
        /\ Does(a, "emitter", i)' = Does(a, "emitter", i) /\ Does(a, "app", i)' = Does(a, "app", i)
        /\ Place(a, i)' = Place(a, i)
        /\ i \in crossed'[a] <=> i \in crossed[a]
    BY <1>0, <1>01, <1>5, MovedEnds DEF Other
  <2>2. Paired(a, i) /\ state[e][i] # "None" /\ ~Unused(e, i)
    BY <1>01, <1>1, <1>3 DEF Paired, Unused
  <2>3. /\ state'[a][i] = state[a][i] /\ refs'[a][i] = refs[a][i] /\ pipes' = pipes
    BY <1>1, <1>2, <1>6, <1>01
  <2>4. (Waits(a, i)' <=> Waits(a, i)) /\ (Unused(a, i)' <=> Unused(a, i))
    BY <2>1, <2>3 DEF Waits, Unused
  <2> QED
    BY <1>1, <1>2, <1>6, <2>1, <2>2, <2>3, <2>4 DEF Paired, WasOpened
<1> QED
  BY <1>01, <1>3, <1>7, <1>8, <1>9, <1>10, After DEF Keeps

(* which goes from the end that was asked to the end that asked. *)
LEMMA RespondKeeps ==
  ASSUME IInv, NEW e \in Ends, Respond(e), NEW i, i = pc[e]["app"].id
  PROVE  Keeps
<1> DEFINE a == Peer(e)
           m == Packet("OPEN_RESP", i)
           up == \A x \in Ends : link[x] = "up"
<1>0. PcInv /\ pc[e]["app"].at = "respond" /\ "app" \in Threads /\ "respond" \in Places
  BY DEF IInv, ShapeInv, Respond, Threads, Places
<1>01. i \in Ids /\ Does(e, "app", i) = "respond"
  BY <1>0, Works
<1>1. /\ TablesOK /\ ShapeInv /\ PcInv /\ PipesInv /\ OpenDataNotLost
      /\ a \in Ends /\ a # e /\ Peer(a) = e
      /\ next[e] \in Nat /\ next[a] \in Nat /\ i \in Nat
      /\ i \notin crossed[e] => Local(e, i)
      /\ OwnParity(e, i) => Paired(e, i)
      /\ ~OwnParity(e, i) => Paired(a, i)
      /\ Does(e, "emitter", i) \notin {"accept", "respond"}
      /\ Does(e, "app", i) \notin {"resp", "closed", "selflock"}
  BY <1>01, Before
<1>2. /\ UNCHANGED <<next, pipes, state, refs, link, opens, closes, lost>>
      /\ Sends(e, m) /\ Goes(e, "app", Idle)
  BY DEF Respond
<1>3. ~OwnParity(e, i)
  BY <1>1, <1>01 DEF Paired
<1>4. Fits("app", Idle) /\ Idle.at = "idle" /\ "idle" \notin Places
  BY DEF Fits, Idle, Places, Closing
<1>5. Moved(e, "app", i, "free")
  BY <1>0, <1>01, <1>1, <1>2, <1>4, Moves
<1>6. m \in Msgs /\ m.id = i /\ m.type = "OPEN_RESP"
  BY <1>01 DEF Msgs, Packet
<1> HIDE DEF m
<1>7. /\ chan' \in [Ends -> Seq(Msgs)] /\ OnlyPackets(i) /\ chan'[e] = chan[e]
      /\ \A type : Has(chan'[a], type, i) <=> Has(chan[a], type, i) \/ (up /\ type = "OPEN_RESP")
      /\ Saying(chan'[a], i) => Saying(chan[a], i)
      /\ Answered(chan[a], i) => Answered(chan'[a], i)
  <2>1. Sent(e, i, m)
    BY <1>01, <1>1, <1>2, <1>6, SendsOne
  <2> QED
    BY <1>6, <2>1 DEF Sent
<1> HIDE DEF up
<1>8. TablesOK' /\ ShapeInv' /\ OpenDataNotLost' /\ OnlyTables(e, i) /\ OnlyPlaces(e, i)
  <2>1. TablesOK' /\ OnlyTables(e, i)
    BY <1>1, <1>2, <1>5 DEF TablesOK, OnlyTables, Moved
  <2>2. ShapeInv'
    BY <1>1, <1>2, <1>5, <1>7, MovedShape
  <2> QED
    BY <1>1, <1>2, <1>5, <2>1, <2>2, MovedOnly DEF OpenDataNotLost
<1>9. ASSUME i \notin crossed'[e]
      PROVE  Local(e, i)'
  <2>0. i \notin crossed[e]
    BY <1>5, <1>9, <1>01 DEF Moved
  <2>1. Local(e, i) /\ Alone(e, i)
    BY <1>1, <2>0 DEF Local
  <2>2. /\ Alone(e, i)' /\ Place(e, i)' = "free" /\ Place(e, i) = "respond"
    BY <1>01, <1>5, <1>9, <2>1, Placed DEF Threads
  <2> QED
    BY <1>2, <2>1, <2>2 DEF Local, NotifiesPeer
<1>10. Paired(a, i)'
  <2>1. /\ Does(e, "app", i)' = "free" /\ Does(e, "emitter", i)' = Does(e, "emitter", i)
        /\ Does(a, "emitter", i)' = Does(a, "emitter", i) /\ Does(a, "app", i)' = Does(a, "app", i)
        /\ Place(a, i)' = Place(a, i)
        /\ i \in crossed'[a] <=> i \in crossed[a]
    BY <1>0, <1>01, <1>5, MovedEnds DEF Other
  <2>2. Paired(a, i) /\ state[e][i] # "None" /\ ~Unused(e, i)
    BY <1>01, <1>1, <1>3 DEF Paired, Unused
  <2>4. (Waits(a, i)' <=> Waits(a, i)) /\ (Unused(a, i)' <=> Unused(a, i))
    BY <1>2, <2>1 DEF Waits, Unused
  <2> QED
    BY <1>01, <1>1, <1>2, <1>7, <2>1, <2>2, <2>4 DEF Paired, WasOpened, up
<1> QED
  BY <1>01, <1>3, <1>7, <1>8, <1>9, <1>10, After DEF Keeps

(* send() may be called in any state: what is said to be sent on an opened    *)
(* pipe comes after the answer.                                               *)
LEMMA SendKeeps ==
  ASSUME IInv, NEW e \in Ends, NEW i \in Ids, Send(e, i)
  PROVE  Keeps
<1> DEFINE a == Peer(e)
           opened == state[e][i] = "Opened" /\ Settled(e, i)
           m == [type |-> "DATA", id |-> i, opened |-> opened]
           up == \A x \in Ends : link[x] = "up"
<1>1. /\ TablesOK /\ ShapeInv /\ PcInv /\ PipesInv /\ OpenDataNotLost
      /\ a \in Ends /\ a # e /\ Peer(a) = e
      /\ next[e] \in Nat /\ next[a] \in Nat /\ i \in Nat
      /\ i \notin crossed[e] => Local(e, i)
      /\ OwnParity(e, i) => Paired(e, i)
      /\ ~OwnParity(e, i) => Paired(a, i)
      /\ Does(e, "emitter", i) \notin {"accept", "respond"}
      /\ Does(e, "app", i) \notin {"resp", "closed", "selflock"}
  BY Before
<1>2. /\ UNCHANGED <<next, pipes, state, refs, link, pc, opens, closes, lost, crossed>>
      /\ refs[e][i] # {} /\ Sends(e, m)
  BY DEF Send
<1>3. m \in Msgs /\ m.id = i /\ m.type = "DATA" /\ (m.opened <=> opened)
  BY DEF Msgs
<1>4. opened => state[e][i] = "Opened" /\ Does(e, "app", i) = "free"
  BY DEF Settled, Does, Threads
<1> HIDE DEF m, opened
<1>5. /\ chan' \in [Ends -> Seq(Msgs)] /\ OnlyPackets(i) /\ chan'[e] = chan[e]
      /\ \A type : Has(chan'[a], type, i) <=> Has(chan[a], type, i) \/ (up /\ type = "DATA")
      /\ Saying(chan'[a], i) => Saying(chan[a], i) \/ opened
      /\ Once(chan[a], "OPEN_REQ", i) => Once(chan'[a], "OPEN_REQ", i)
      /\ Answered(chan[a], i) /\ (opened /\ up => Has(chan[a], "OPEN_RESP", i)) => Answered(chan'[a], i)
  <2>1. Sent(e, i, m)
    BY <1>1, <1>2, <1>3, SendsOne
  <2> QED
    BY <1>3, <2>1 DEF Sent
<1>6. PcInv' /\ \A x, u, j : Does(x, u, j)' = Does(x, u, j)
  BY <1>1, <1>2, Stays
<1>7. TablesOK' /\ ShapeInv' /\ OpenDataNotLost' /\ OnlyTables(e, i) /\ OnlyPlaces(e, i)
  <2>1. TablesOK' /\ OnlyTables(e, i)
    BY <1>1, <1>2 DEF TablesOK, OnlyTables
  <2>2. ShapeInv'
    BY <1>1, <1>2, <1>5, <1>6 DEF ShapeInv
  <2> QED
    BY <1>1, <1>2, <2>1, <2>2, StaysOnly DEF OpenDataNotLost
<1>8. i \notin crossed'[e] => Local(e, i)'
  BY <1>1, <1>2, <1>6 DEF Local, Place, Alone
<1>9. \A x \in Ends : (Waits(x, i)' <=> Waits(x, i)) /\ (Unused(x, i)' <=> Unused(x, i))
  BY <1>2, <1>6 DEF Waits, Unused, Place
<1>10. OwnParity(e, i) => Paired(e, i)'
  BY <1>1, <1>2, <1>4, <1>5, <1>6, <1>9 DEF Paired, WasOpened
<1>11. ~OwnParity(e, i) => Paired(a, i)'
  <2> SUFFICES ASSUME ~OwnParity(e, i) PROVE Paired(a, i)'
    OBVIOUS
  <2>1. Paired(a, i)
    BY <1>1
  <2>2. Waits(a, i)' => Answered(chan'[a], i)
    BY <1>1, <1>4, <1>5, <1>9, <2>1 DEF Paired, up
  <2> QED
    BY <1>1, <1>2, <1>4, <1>5, <1>6, <1>9, <2>1, <2>2 DEF Paired, WasOpened
<1> QED
  BY <1>5, <1>7, <1>8, <1>10, <1>11, After DEF Keeps

-----------------------------------------------------------------------------
(* close() *)

(* close() begins by taking the pipe out of the map. *)
LEMMA CloseBegins ==
  ASSUME IInv, NEW e \in Ends, NEW i \in Ids, NEW th \in Threads, NEW who, refs[e][i] # {},
         pc[e][th].at = "idle", Goes(e, th, In("erase", i, who)),
         UNCHANGED <<next, pipes, state, refs, chan, link, opens, closes, lost>>
  PROVE  Keeps
<1> DEFINE a == Peer(e)
           p == In("erase", i, who)
<1>1. /\ TablesOK /\ ShapeInv /\ PcInv /\ PipesInv /\ OpenDataNotLost
      /\ a \in Ends /\ a # e /\ Peer(a) = e
      /\ next[e] \in Nat /\ next[a] \in Nat /\ i \in Nat
      /\ i \notin crossed[e] => Local(e, i)
      /\ OwnParity(e, i) => Paired(e, i)
      /\ ~OwnParity(e, i) => Paired(a, i)
      /\ Does(e, "emitter", i) \notin {"accept", "respond"}
      /\ Does(e, "app", i) \notin {"resp", "closed", "selflock"}
  BY Before
<1>2. pc[e][th].at \notin Places /\ Does(e, th, i) = "free"
  BY Rests
<1>3. Fits(th, p) /\ p.at = "erase" /\ p.id = i /\ "erase" \in Places
  BY DEF Fits, In, Places, Closing
<1> HIDE DEF p
<1>4. Goes(e, th, p)
  BY DEF p
<1>5. Moved(e, th, i, "erase")
  BY <1>1, <1>2, <1>3, <1>4, Moves
<1>6. TablesOK' /\ OnlyTables(e, i) /\ state'[e][i] = state[e][i] /\ ~Unused(e, i)
  BY <1>1, <1>2, <1>5 DEF TablesOK, OnlyTables, Moved, Unused
<1>7. ASSUME i \notin crossed'[e]
      PROVE  Local(e, i)' /\ ~Waits(e, i)'
  <2>0. i \notin crossed[e]
    BY <1>5, <1>7 DEF Moved
  <2>1. Local(e, i) /\ Alone(e, i)
    BY <1>1, <2>0 DEF Local
  <2>2. /\ Alone(e, i)' /\ Place(e, i)' = "erase" /\ Place(e, i) = "free"
    BY <1>2, <1>5, <1>7, <2>1, Placed
  <2> QED
    BY <2>1, <2>2 DEF Local, Closing, Waits
<1>8. ~Waits(e, i)'
  BY <1>7 DEF Waits
<1> QED
  BY <1>2, <1>5, <1>6, <1>7, <1>8, MovedKeeps

LEMMA CloseCallKeeps ==
  ASSUME IInv, NEW e \in Ends, NEW i \in Ids, CloseCall(e, i)
  PROVE  Keeps
<1>1. refs[e][i] # {} /\ pc[e]["app"].at = "idle" /\ "app" \in Threads
  BY DEF CloseCall, Busy, Threads
<1> QED
  BY <1>1, CloseBegins DEF CloseCall

(* The timer of the open request closes the pipe, or only lets go of it. *)
LEMMA OpenExpiredKeeps ==
  ASSUME IInv, NEW e \in Ends, NEW i \in Ids, OpenExpired(e, i)
  PROVE  Keeps
<1>1. refs[e][i] # {} /\ pc[e]["emitter"].at = "idle" /\ "emitter" \in Threads
  BY DEF OpenExpired, Busy, Threads
<1>2. pc[e]["emitter"].at \notin Places /\ Does(e, "emitter", i) = "free"
  BY <1>1, Rests
<1>3. CASE Goes(e, "emitter", In("erase", i, "timer")) /\ UNCHANGED <<refs, pipes, state>>
  BY <1>1, <1>3, CloseBegins DEF OpenExpired
<1>4. CASE DropRef(e, "emitter", i, "timer") /\ UNCHANGED state
  <2>1. UNCHANGED <<next, chan, link, opens, closes, lost, state>>
    BY <1>4 DEF OpenExpired
  <2> QED
    BY <1>1, <1>2, <1>4, <2>1, LetsGo
<1> QED
  BY <1>3, <1>4 DEF OpenExpired

(* erase(): from here on the peer's packets do not reach the pipe. *)
LEMMA CloseEraseKeeps ==
  ASSUME IInv, NEW e \in Ends, NEW th \in Threads, CloseErase(e, th), NEW i, i = pc[e][th].id
  PROVE  Keeps
<1> DEFINE a == Peer(e)
           p == In("check", i, pc[e][th].who)
<1>0. PcInv /\ pc[e][th].at = "erase" /\ "erase" \in Places
  BY DEF IInv, ShapeInv, CloseErase, Places, Closing
<1>01. i \in Ids /\ Does(e, th, i) = "erase"
  BY <1>0, Works
<1>1. /\ TablesOK /\ ShapeInv /\ PcInv /\ PipesInv /\ OpenDataNotLost
      /\ a \in Ends /\ a # e /\ Peer(a) = e
      /\ next[e] \in Nat /\ next[a] \in Nat /\ i \in Nat
      /\ i \notin crossed[e] => Local(e, i)
      /\ OwnParity(e, i) => Paired(e, i)
      /\ ~OwnParity(e, i) => Paired(a, i)
      /\ Does(e, "emitter", i) \notin {"accept", "respond"}
      /\ Does(e, "app", i) \notin {"resp", "closed", "selflock"}
  BY <1>01, Before
<1>2. /\ UNCHANGED <<next, state, refs, chan, link, opens, closes, lost>>
      /\ Goes(e, th, p) /\ pipes' = [pipes EXCEPT ![e] = @ \ {i}]
  BY DEF CloseErase, Erase
<1>3. Fits(th, p) /\ p.at = "check" /\ p.at \in Places /\ p.id = i
  BY <1>01 DEF Fits, In, Places, Closing
<1> HIDE DEF p
<1>4. Moved(e, th, i, "check")
  BY <1>0, <1>01, <1>1, <1>2, <1>3, Moves
<1>5. /\ pipes' \in [Ends -> SUBSET Ids] /\ i \notin pipes'[e]
      /\ \A x \in Ends, j \in Ids : x # e \/ j # i => (j \in pipes'[x] <=> j \in pipes[x])
  BY <1>1, <1>2 DEF TablesOK
<1>6. TablesOK' /\ OnlyTables(e, i) /\ state'[e][i] = state[e][i] /\ ~Unused(e, i)
  <2>1. th = "app" \/ th = "emitter"
    BY DEF Threads
  <2> QED
    BY <1>01, <1>1, <1>2, <1>4, <1>5, <2>1 DEF TablesOK, OnlyTables, Moved, Unused
<1>7. ASSUME i \notin crossed'[e]
      PROVE  Local(e, i)' /\ ~Waits(e, i)'
  <2>0. i \notin crossed[e]
    BY <1>01, <1>4, <1>7 DEF Moved
  <2>1. Local(e, i) /\ Alone(e, i)
    BY <1>1, <2>0 DEF Local
  <2>2. /\ Alone(e, i)' /\ Place(e, i)' = "check" /\ Place(e, i) = "erase"
    BY <1>01, <1>4, <1>7, <2>1, Placed
  <2> QED
    BY <1>2, <1>5, <2>1, <2>2 DEF Local, Closing, Waits
<1>8. ~Waits(e, i)'
  BY <1>7 DEF Waits
<1> QED
  BY <1>01, <1>2, <1>4, <1>6, <1>7, <1>8, MovedKeeps

(* The state is read. *)
LEMMA CloseCheckKeeps ==
  ASSUME IInv, NEW e \in Ends, NEW th \in Threads, CloseCheck(e, th), NEW i, i = pc[e][th].id
  PROVE  Keeps
<1> DEFINE a == Peer(e)
           p == In("commit", i, pc[e][th].who)
<1>0. PcInv /\ pc[e][th].at = "check" /\ "check" \in Places
  BY DEF IInv, ShapeInv, CloseCheck, Places, Closing
<1>01. i \in Ids /\ Does(e, th, i) = "check"
  BY <1>0, Works
<1>1. /\ TablesOK /\ ShapeInv /\ PcInv /\ PipesInv /\ OpenDataNotLost
      /\ a \in Ends /\ a # e /\ Peer(a) = e
      /\ next[e] \in Nat /\ next[a] \in Nat /\ i \in Nat
      /\ i \notin crossed[e] => Local(e, i)
      /\ OwnParity(e, i) => Paired(e, i)
      /\ ~OwnParity(e, i) => Paired(a, i)
      /\ Does(e, "emitter", i) \notin {"accept", "respond"}
      /\ Does(e, "app", i) \notin {"resp", "closed", "selflock"}
  BY <1>01, Before
<1>2. /\ UNCHANGED <<next, chan, link, opens, closes, lost, state>>
      /\ \/ state[e][i] # "Closed" /\ Goes(e, th, p) /\ UNCHANGED <<refs, pipes>>
         \/ state[e][i] = "Closed" /\ DropRef(e, th, i, "timer")
         \/ state[e][i] = "Closed" /\ Goes(e, th, Idle) /\ UNCHANGED <<refs, pipes>>
  BY DEF CloseCheck, CloseReturns, MustClose
<1>3. CASE state[e][i] = "Closed" /\ DropRef(e, th, i, "timer")
  BY <1>01, <1>0, <1>2, <1>3, LetsGo
<1> DEFINE at == IF state[e][i] # "Closed" THEN "commit" ELSE "free"
<1>4. ASSUME UNCHANGED <<refs, pipes>>, Moved(e, th, i, at)
      PROVE  Keeps
  <2>1. at \in {"commit", "free"} /\ (at = "commit" <=> state[e][i] # "Closed")
    OBVIOUS
  <2> HIDE DEF at
  <2>2. TablesOK' /\ OnlyTables(e, i) /\ state'[e][i] = state[e][i] /\ ~Unused(e, i)
    <3>1. th = "app" \/ th = "emitter"
      BY DEF Threads
    <3> QED
      BY <1>01, <1>1, <1>2, <1>4, <3>1 DEF TablesOK, OnlyTables, Moved, Unused
  <2>3. ASSUME i \notin crossed'[e]
        PROVE  Local(e, i)' /\ ~Waits(e, i)'
    <3>0. i \notin crossed[e]
      BY <1>01, <1>4, <2>3 DEF Moved
    <3>1. Local(e, i) /\ Alone(e, i)
      BY <1>1, <3>0 DEF Local
    <3>2. /\ Alone(e, i)' /\ Place(e, i)' = at /\ Place(e, i) = "check"
      BY <1>01, <1>4, <2>3, <3>1, Placed
    <3> QED
      BY <1>2, <1>4, <2>1, <3>1, <3>2 DEF Local, Closing, Waits, NotifiesPeer
  <2>4. ~Waits(e, i)'
    BY <2>3 DEF Waits
  <2> QED
    BY <1>01, <1>2, <1>4, <2>1, <2>2, <2>3, <2>4, MovedKeeps
<1>5. /\ Fits(th, p) /\ p.at = "commit" /\ p.id = i /\ "commit" \in Places
      /\ Fits(th, Idle) /\ Idle.at = "idle" /\ "idle" \notin Places
  BY <1>01 DEF Fits, In, Idle, Places, Closing
<1> HIDE DEF p, Idle
<1>6. CASE state[e][i] # "Closed" /\ Goes(e, th, p) /\ UNCHANGED <<refs, pipes>>
  <2>1. Moved(e, th, i, "commit")
    BY <1>0, <1>01, <1>1, <1>5, <1>6, Moves
  <2> QED
    BY <1>4, <1>6, <2>1
<1>7. CASE state[e][i] = "Closed" /\ Goes(e, th, Idle) /\ UNCHANGED <<refs, pipes>>
  <2>1. Moved(e, th, i, "free")
    BY <1>0, <1>01, <1>1, <1>5, <1>7, Moves
  <2> QED
    BY <1>4, <1>7, <2>1
<1> QED
  BY <1>2, <1>3, <1>6, <1>7

(* The pipe is closed, and the peer is told. *)
LEMMA CloseCommitKeeps ==
  ASSUME IInv, NEW e \in Ends, NEW th \in Threads, CloseCommit(e, th), NEW i, i = pc[e][th].id
  PROVE  Keeps
<1> DEFINE a == Peer(e)
           m == Packet("CLOSE", i)
           up == \A x \in Ends : link[x] = "up"
<1>0. PcInv /\ pc[e][th].at = "commit" /\ "commit" \in Places
  BY DEF IInv, ShapeInv, CloseCommit, Places, Closing
<1>01. i \in Ids /\ Does(e, th, i) = "commit"
  BY <1>0, Works
<1>1. /\ TablesOK /\ ShapeInv /\ PcInv /\ PipesInv /\ OpenDataNotLost
      /\ a \in Ends /\ a # e /\ Peer(a) = e
      /\ next[e] \in Nat /\ next[a] \in Nat /\ i \in Nat
      /\ i \notin crossed[e] => Local(e, i)
      /\ OwnParity(e, i) => Paired(e, i)
      /\ ~OwnParity(e, i) => Paired(a, i)
      /\ Does(e, "emitter", i) \notin {"accept", "respond"}
      /\ Does(e, "app", i) \notin {"resp", "closed", "selflock"}
  BY <1>01, Before
<1>2. /\ UNCHANGED <<next, link, opens, lost>>
      /\ Sends(e, m) /\ state' = [state EXCEPT ![e][i] = "Closed"]
      /\ closes' = [closes EXCEPT ![e][i] = @ + 1]
      /\ \/ DropRef(e, th, i, "timer")
         \/ Goes(e, th, Idle) /\ UNCHANGED <<refs, pipes>>
  BY DEF CloseCommit, CloseReturns
<1>3. m \in Msgs /\ m.id = i /\ m.type = "CLOSE"
  BY <1>01 DEF Msgs, Packet
<1>4. Fits(th, Idle) /\ Idle.at = "idle" /\ "idle" \notin Places
  BY DEF Fits, Idle, Places, Closing
<1> HIDE DEF m, Idle
<1>5. /\ state' \in [Ends -> [Ids -> States]] /\ state'[e][i] = "Closed"
      /\ \A x \in Ends, j \in Ids : x # e \/ j # i => state'[x][j] = state[x][j]
  BY <1>01, <1>1, <1>2 DEF TablesOK, States
<1>6. /\ Moved(e, th, i, "free")
      /\ refs' \in [Ends -> [Ids -> SUBSET {"user", "timer", "emitter"}]]
      /\ \A x \in Ends, j \in Ids : x # e \/ j # i => refs'[x][j] = refs[x][j]
      /\ pipes' \in [Ends -> SUBSET Ids] /\ (i \notin pipes[e] => i \notin pipes'[e])
      /\ \A x \in Ends, j \in Ids : x # e \/ j # i => (j \in pipes'[x] <=> j \in pipes[x])
  <2>1. CASE DropRef(e, th, i, "timer")
    <3>1. state'[e][i] \notin NotifiesPeer
      BY <1>5 DEF NotifiesPeer
    <3> QED
      BY <1>01, <1>1, <2>1, <3>1, Drops
  <2>2. CASE Goes(e, th, Idle) /\ UNCHANGED <<refs, pipes>>
    <3>1. Moved(e, th, i, "free")
      BY <1>01, <1>1, <1>4, <2>2, Moves
    <3> QED
      BY <1>1, <2>2, <3>1 DEF TablesOK
  <2> QED
    BY <1>2, <2>1, <2>2
<1>7. /\ closes' \in [Ends -> [Ids -> Nat]] /\ closes'[e][i] = closes[e][i] + 1
      /\ \A x \in Ends, j \in Ids : x # e \/ j # i => closes'[x][j] = closes[x][j]
  BY <1>01, <1>1, <1>2 DEF TablesOK
<1>8. /\ chan' \in [Ends -> Seq(Msgs)] /\ OnlyPackets(i) /\ chan'[e] = chan[e]
      /\ \A type : Has(chan'[a], type, i) => Has(chan[a], type, i) \/ type = "CLOSE"
      /\ Has(chan[a], "OPEN_RESP", i) => Has(chan'[a], "OPEN_RESP", i)
      /\ Saying(chan'[a], i) => Saying(chan[a], i)
      /\ Once(chan[a], "OPEN_REQ", i) => Once(chan'[a], "OPEN_REQ", i)
      /\ Answered(chan[a], i) => Answered(chan'[a], i)
  <2>1. Sent(e, i, m)
    BY <1>01, <1>1, <1>2, <1>3, SendsOne
  <2> QED
    BY <1>3, <2>1 DEF Sent
<1>9. TablesOK' /\ ShapeInv' /\ OpenDataNotLost' /\ OnlyTables(e, i) /\ OnlyPlaces(e, i)
  <2>1. TablesOK'
    BY <1>1, <1>2, <1>5, <1>6, <1>7 DEF TablesOK, Moved
  <2>2. OnlyTables(e, i)
    BY <1>2, <1>5, <1>6, <1>7 DEF OnlyTables
  <2>3. ShapeInv'
    BY <1>1, <1>2, <1>6, <1>8, MovedShape
  <2> QED
    BY <1>1, <1>2, <1>6, <2>1, <2>2, <2>3, MovedOnly DEF OpenDataNotLost
<1>10. ASSUME i \notin crossed'[e]
       PROVE  Local(e, i)'
  <2>0. i \notin crossed[e]
    BY <1>01, <1>6, <1>10 DEF Moved
  <2>1. Local(e, i) /\ Alone(e, i)
    BY <1>1, <2>0 DEF Local
  <2>2. /\ Alone(e, i)' /\ Place(e, i)' = "free" /\ Place(e, i) = "commit"
    BY <1>01, <1>6, <1>10, <2>1, Placed
  <2>3. i \notin pipes[e] /\ state[e][i] # "Closed" /\ link' = link
    BY <1>2, <2>1, <2>2 DEF Local
  <2> QED
    BY <1>5, <1>6, <1>7, <2>1, <2>2, <2>3 DEF Local, NotifiesPeer
<1>11. /\ Does(e, th, i)' = "free" /\ Does(e, Other(th), i)' = Does(e, Other(th), i)
       /\ Does(a, "emitter", i)' = Does(a, "emitter", i) /\ Does(a, "app", i)' = Does(a, "app", i)
       /\ Place(a, i)' = Place(a, i)
       /\ i \in crossed'[a] <=> i \in crossed[a]
       /\ (th = "app" /\ Other(th) = "emitter") \/ (th = "emitter" /\ Other(th) = "app")
  BY <1>01, <1>6, MovedEnds
<1>12. /\ state'[a][i] = state[a][i] /\ refs'[a][i] = refs[a][i]
       /\ i \in pipes'[a] <=> i \in pipes[a]
  BY <1>01, <1>1, <1>5, <1>6
<1>13. (Unused(a, i)' <=> Unused(a, i)) /\ (Waits(a, i)' <=> Waits(a, i)) /\ ~Unused(e, i)
  BY <1>01, <1>11, <1>12 DEF Unused, Waits
<1>14. OwnParity(e, i) => Paired(e, i)'
  <2> SUFFICES ASSUME OwnParity(e, i) PROVE Paired(e, i)'
    OBVIOUS
  <2>1. Paired(e, i) /\ ~(i >= next'[e]) /\ ~Waits(e, i)'
    BY <1>1, <1>2, <1>5, <1>13 DEF Paired, Waits
  <2> QED
    BY <1>1, <1>5, <1>8, <1>11, <1>12, <1>13, <2>1 DEF Paired, WasOpened
<1>15. ~OwnParity(e, i) => Paired(a, i)'
  <2> SUFFICES ASSUME ~OwnParity(e, i) PROVE Paired(a, i)'
    OBVIOUS
  <2>1. Paired(a, i) /\ state[e][i] # "None" /\ next' = next
    BY <1>1, <1>2, <1>13 DEF Paired
  <2> QED
    BY <1>1, <1>5, <1>8, <1>11, <1>12, <1>13, <2>1 DEF Paired, WasOpened
<1> QED
  BY <1>01, <1>8, <1>9, <1>10, <1>14, <1>15, After DEF Keeps

-----------------------------------------------------------------------------
(* on_packet() *)

(* A packet is taken by end e. *)
Taken(e, i, type, opened) ==
  /\ chan' \in [Ends -> Seq(Msgs)] /\ OnlyPackets(i) /\ chan'[Peer(e)] = chan[Peer(e)]
  /\ \A t : Has(chan[e], t, i) <=> Has(chan'[e], t, i) \/ type = t
  /\ Saying(chan[e], i) <=> Saying(chan'[e], i) \/ (type = "DATA" /\ opened)
  /\ Once(chan[e], "OPEN_REQ", i) => Once(chan'[e], "OPEN_REQ", i) /\ (type = "OPEN_REQ" => ~Has(chan'[e], "OPEN_REQ", i))
  /\ Answered(chan[e], i) => ~(type = "DATA" /\ opened) /\ (type # "OPEN_RESP" => Answered(chan'[e], i))

LEMMA TakenOne ==
  ASSUME ShapeInv, NEW e \in Ends, NEW type, Takes(e, type), NEW i, i = Msg(e).id
  PROVE  /\ i \in Ids /\ Msg(e) \in Msgs /\ Taken(e, i, type, Msg(e).opened)
         /\ ~Busy(e, "emitter") /\ pc[e]["emitter"].at = "idle" /\ pc[e]["emitter"].at \notin Places
         /\ Does(e, "emitter", i) = "free" /\ "emitter" \in Threads
<1>1. i \in Ids /\ Msg(e) \in Msgs /\ Taken(e, i, type, Msg(e).opened)
  BY TakesOne DEF Taken
<1>2. ~Busy(e, "emitter") /\ pc[e]["emitter"].at = "idle"
  BY DEF Takes, Busy
<1> QED
  BY <1>1, <1>2, Rests DEF Threads

(* A packet is taken, and at most the map loses its pipe.  The answer is not  *)
(* taken from a pipe that waits for it.                                       *)
LEMMA OnlyTakes ==
  ASSUME IInv, NEW e \in Ends, NEW type, Takes(e, type), NEW i, i = Msg(e).id,
         UNCHANGED <<next, pipes, state, refs, link, pc, opens, closes, lost, crossed>>,
         type = "OPEN_RESP" => ~(OwnParity(e, i) /\ Waits(e, i))
  PROVE  Keeps
<1> DEFINE a == Peer(e)
           opened == Msg(e).opened
<1>0. ShapeInv
  BY DEF IInv
<1>01. i \in Ids /\ Taken(e, i, type, opened)
  BY <1>0, TakenOne
<1> HIDE DEF opened
<1>1. /\ TablesOK /\ ShapeInv /\ PcInv /\ PipesInv /\ OpenDataNotLost
      /\ a \in Ends /\ a # e /\ Peer(a) = e
      /\ next[e] \in Nat /\ next[a] \in Nat /\ i \in Nat
      /\ i \notin crossed[e] => Local(e, i)
      /\ OwnParity(e, i) => Paired(e, i)
      /\ ~OwnParity(e, i) => Paired(a, i)
      /\ Does(e, "emitter", i) \notin {"accept", "respond"}
      /\ Does(e, "app", i) \notin {"resp", "closed", "selflock"}
  BY <1>01, Before
<1>2. PcInv' /\ \A x, u, j : Does(x, u, j)' = Does(x, u, j)
  BY <1>1, Stays
<1>3. TablesOK' /\ ShapeInv' /\ OpenDataNotLost' /\ OnlyTables(e, i) /\ OnlyPlaces(e, i)
  <2>1. TablesOK' /\ OnlyTables(e, i)
    BY <1>1 DEF TablesOK, OnlyTables
  <2>2. ShapeInv'
    BY <1>01, <1>1, <1>2 DEF ShapeInv, Taken
  <2> QED
    BY <1>1, <2>1, <2>2, StaysOnly DEF OpenDataNotLost
<1>4. i \notin crossed'[e] => Local(e, i)'
  BY <1>1, <1>2 DEF Local, Place, Alone
<1>5. \A x \in Ends : (Waits(x, i)' <=> Waits(x, i)) /\ (Unused(x, i)' <=> Unused(x, i))
  BY <1>2 DEF Waits, Unused, Place
<1>6. OwnParity(e, i) => Paired(e, i)'
  BY <1>01, <1>1, <1>2, <1>5 DEF Paired, WasOpened, Taken
<1>7. ~OwnParity(e, i) => Paired(a, i)'
  BY <1>01, <1>1, <1>2, <1>5 DEF Paired, WasOpened, Taken
<1> QED
  BY <1>01, <1>3, <1>4, <1>6, <1>7, After DEF Keeps, Taken

(* The first packet about a pipe of the peer makes the pipe. *)
LEMMA OnOpenReqKeeps ==
  ASSUME IInv, NEW e \in Ends, OnOpenReq(e), NEW i, i = Msg(e).id
  PROVE  Keeps
<1> DEFINE a == Peer(e)
           opened == Msg(e).opened
<1>0. ShapeInv /\ Takes(e, "OPEN_REQ")
  BY DEF IInv, OnOpenReq
<1>01. i \in Ids /\ Taken(e, i, "OPEN_REQ", opened)
  BY <1>0, TakenOne
<1> HIDE DEF opened
<1>1. /\ TablesOK /\ ShapeInv /\ PcInv /\ PipesInv /\ OpenDataNotLost
      /\ a \in Ends /\ a # e /\ Peer(a) = e
      /\ next[e] \in Nat /\ next[a] \in Nat /\ i \in Nat
      /\ i \notin crossed[e] => Local(e, i)
      /\ OwnParity(e, i) => Paired(e, i)
      /\ ~OwnParity(e, i) => Paired(a, i)
      /\ Does(e, "emitter", i) \notin {"accept", "respond"}
      /\ Does(e, "app", i) \notin {"resp", "closed", "selflock"}
  BY <1>01, Before
<1>2. UNCHANGED <<next, link, pc, opens, closes, lost, crossed>>
  BY DEF OnOpenReq
<1>3. CASE ~(~OwnParity(e, i) /\ i \notin pipes[e])
  <2>1. UNCHANGED <<pipes, state, refs>>
    BY <1>3 DEF OnOpenReq
  <2> QED
    BY <1>0, <1>2, <2>1, OnlyTakes
<1>4. CASE ~OwnParity(e, i) /\ i \notin pipes[e]
  <2>1. /\ pipes' = [pipes EXCEPT ![e] = @ \cup {i}]
        /\ state' = [state EXCEPT ![e][i] = "OpenRequstRecv"]
        /\ refs' = [refs EXCEPT ![e][i] = {"user"}]
    BY <1>4 DEF OnOpenReq
  <2>2. /\ pipes' \in [Ends -> SUBSET Ids] /\ i \in pipes'[e]
        /\ \A x \in Ends, j \in Ids : x # e \/ j # i => (j \in pipes'[x] <=> j \in pipes[x])
    BY <1>01, <1>1, <2>1 DEF TablesOK
  <2>3. /\ state' \in [Ends -> [Ids -> States]] /\ state'[e][i] = "OpenRequstRecv"
        /\ \A x \in Ends, j \in Ids : x # e \/ j # i => state'[x][j] = state[x][j]
    BY <1>01, <1>1, <2>1 DEF TablesOK, States
  <2>4. /\ refs' \in [Ends -> [Ids -> SUBSET {"user", "timer", "emitter"}]] /\ refs'[e][i] = {"user"}
        /\ \A x \in Ends, j \in Ids : x # e \/ j # i => refs'[x][j] = refs[x][j]
    BY <1>01, <1>1, <2>1 DEF TablesOK
  <2>5. PcInv' /\ \A x, u, j : Does(x, u, j)' = Does(x, u, j)
    BY <1>1, <1>2, Stays
  <2>6. TablesOK' /\ ShapeInv' /\ OpenDataNotLost' /\ OnlyTables(e, i) /\ OnlyPlaces(e, i)
    <3>1. TablesOK'
      BY <1>1, <1>2, <2>2, <2>3, <2>4 DEF TablesOK
    <3>2. ShapeInv'
      BY <1>01, <1>1, <1>2, <2>5 DEF ShapeInv, Taken
    <3>3. OnlyTables(e, i)
      BY <1>2, <2>2, <2>3, <2>4 DEF OnlyTables
    <3> QED
      BY <1>1, <1>2, <3>1, <3>2, <3>3, StaysOnly DEF OpenDataNotLost
  <2>7. Paired(a, i) /\ state[e][i] = "None" /\ Unused(e, i) /\ ~Has(chan'[e], "OPEN_REQ", i)
    BY <1>01, <1>1, <1>4 DEF Paired, Taken
  <2>8. i \notin crossed'[e] => Local(e, i)'
    <3> SUFFICES ASSUME i \notin crossed'[e] PROVE Local(e, i)'
      OBVIOUS
    <3>1. Local(e, i)
      BY <1>1, <1>2
    <3>2. Place(e, i)' = "free" /\ Alone(e, i)'
      BY <2>5, <2>7 DEF Unused, Place, Alone
    <3> QED
      BY <1>2, <2>2, <2>3, <2>4, <2>7, <3>1, <3>2 DEF Local, NotifiesPeer
  <2>9. Paired(a, i)'
    <3>1. ~WasOpened(e, i) /\ state[a][i] # "None"
      BY <1>01, <1>1, <2>7 DEF WasOpened, Paired, Taken
    <3>2. /\ state'[a][i] = state[a][i] /\ refs'[a][i] = refs[a][i] /\ (i \in pipes'[a] <=> i \in pipes[a])
          /\ next' = next /\ link' = link
      BY <1>01, <1>1, <1>2, <2>2, <2>3, <2>4
    <3>3. (Waits(a, i)' <=> Waits(a, i)) /\ (Unused(a, i)' <=> Unused(a, i))
      BY <1>2, <2>5, <3>2 DEF Waits, Unused, Place
    <3> QED
      BY <1>01, <1>1, <2>3, <2>5, <2>7, <3>1, <3>2, <3>3 DEF Paired, WasOpened, Taken
  <2> QED
    BY <1>01, <1>4, <2>6, <2>8, <2>9, After DEF Keeps, Taken
<1> QED
  BY <1>3, <1>4

(* The answer reaches the pipe that waits for it. *)
LEMMA OnOpenRespKeeps ==
  ASSUME IInv, NEW e \in Ends, OnOpenResp(e), NEW i, i = Msg(e).id
  PROVE  Keeps
<1> DEFINE a == Peer(e)
           p == In("resp", i, "emitter")
           takes == OwnParity(e, i) /\ Found(e, i) /\ state[e][i] = "OpenRequstSent"
           opened == Msg(e).opened
<1>0. ShapeInv /\ Takes(e, "OPEN_RESP")
  BY DEF IInv, OnOpenResp
<1>01. /\ i \in Ids /\ Taken(e, i, "OPEN_RESP", opened) /\ "emitter" \in Threads
       /\ pc[e]["emitter"].at \notin Places /\ Does(e, "emitter", i) = "free"
  BY <1>0, TakenOne
<1> HIDE DEF opened
<1>1. /\ TablesOK /\ ShapeInv /\ PcInv /\ PipesInv /\ OpenDataNotLost
      /\ a \in Ends /\ a # e /\ Peer(a) = e
      /\ next[e] \in Nat /\ next[a] \in Nat /\ i \in Nat
      /\ i \notin crossed[e] => Local(e, i)
      /\ OwnParity(e, i) => Paired(e, i)
      /\ ~OwnParity(e, i) => Paired(a, i)
      /\ Does(e, "emitter", i) \notin {"accept", "respond"}
      /\ Does(e, "app", i) \notin {"resp", "closed", "selflock"}
  BY <1>01, Before
<1>2. UNCHANGED <<next, pipes, state, link, opens, closes, lost>>
  BY DEF OnOpenResp
<1>3. CASE ~takes
  <2>1. UNCHANGED <<refs, pc, crossed>>
    BY <1>3 DEF OnOpenResp
  <2>2. ~(OwnParity(e, i) /\ Waits(e, i))
    BY <1>1, <1>3 DEF Local, Found, NotifiesPeer, Closing, Waits
  <2> QED
    BY <1>0, <1>2, <2>1, <2>2, OnlyTakes
<1>4. CASE takes
  <2>1. refs' = [refs EXCEPT ![e][i] = @ \cup {"emitter"}] /\ Goes(e, "emitter", p)
    BY <1>4 DEF OnOpenResp
  <2>2. Fits("emitter", p) /\ p.at = "resp" /\ p.at \in Places /\ p.id = i
    BY <1>01 DEF Fits, In, Places, Closing
  <2> HIDE DEF p
  <2>3. /\ refs' \in [Ends -> [Ids -> SUBSET {"user", "timer", "emitter"}]] /\ "emitter" \in refs'[e][i]
        /\ \A x \in Ends, j \in Ids : x # e \/ j # i => refs'[x][j] = refs[x][j]
    BY <1>01, <1>1, <2>1 DEF TablesOK
  <2>4. Moved(e, "emitter", i, "resp")
    BY <1>01, <1>1, <2>1, <2>2, Moves
  <2>5. TablesOK' /\ ShapeInv' /\ OpenDataNotLost' /\ OnlyTables(e, i) /\ OnlyPlaces(e, i)
    <3>1. TablesOK' /\ OnlyTables(e, i)
      BY <1>1, <1>2, <2>3, <2>4 DEF TablesOK, Moved, OnlyTables
    <3>2. ShapeInv'
      BY <1>01, <1>1, <1>2, <2>4, MovedShape DEF Taken
    <3> QED
      BY <1>1, <1>2, <2>4, <3>1, <3>2, MovedOnly DEF OpenDataNotLost
  <2>6. ASSUME i \notin crossed'[e]
        PROVE  Local(e, i)' /\ ~Waits(e, i)'
    <3>0. i \notin crossed[e]
      BY <1>01, <2>4, <2>6 DEF Moved
    <3>1. Local(e, i) /\ Alone(e, i)
      BY <1>1, <3>0 DEF Local
    <3>2. /\ Alone(e, i)' /\ Place(e, i)' = "resp" /\ Place(e, i) = "free"
      BY <1>01, <2>4, <2>6, <3>1, Placed
    <3> QED
      BY <1>2, <1>4, <2>3, <3>1, <3>2 DEF Local, Found, NotifiesPeer, Closing, Waits
  <2>7. /\ Does(e, "emitter", i)' = "resp" /\ Does(e, "app", i)' = Does(e, "app", i)
        /\ Does(a, "emitter", i)' = Does(a, "emitter", i) /\ Does(a, "app", i)' = Does(a, "app", i)
        /\ Place(a, i)' = Place(a, i)
        /\ i \in crossed'[a] <=> i \in crossed[a]
    BY <1>01, <2>4, MovedEnds DEF Other
  <2>8. Paired(e, i)'
    <3>1. Paired(e, i) /\ WasOpened(a, i) /\ ~Waits(e, i)' /\ state[e][i] = "OpenRequstSent"
      BY <1>01, <1>1, <1>4, <2>6 DEF Paired, Taken, Waits
    <3>2. (Unused(a, i)' <=> Unused(a, i)) /\ ~Unused(e, i) /\ refs'[a][i] = refs[a][i]
      BY <1>01, <1>1, <1>2, <2>3, <2>7, <3>1 DEF Unused
    <3> QED
      BY <1>01, <1>1, <1>2, <2>7, <3>1, <3>2 DEF Paired, WasOpened, Taken
  <2> QED
    BY <1>01, <1>4, <2>5, <2>6, <2>8, After DEF Keeps, Taken
<1> QED
  BY <1>3, <1>4

(* The close of the peer takes the pipe out of the map. *)
LEMMA OnClosePacketKeeps ==
  ASSUME IInv, NEW e \in Ends, OnClosePacket(e), NEW i, i = Msg(e).id
  PROVE  Keeps
<1> DEFINE a == Peer(e)
           p == In("closed", i, "emitter")
           told == refs[e][i] # {} /\ state[e][i] # "Closed"
           opened == Msg(e).opened
<1>0. ShapeInv /\ Takes(e, "CLOSE")
  BY DEF IInv, OnClosePacket
<1>01. /\ i \in Ids /\ Taken(e, i, "CLOSE", opened) /\ "emitter" \in Threads
       /\ pc[e]["emitter"].at \notin Places /\ Does(e, "emitter", i) = "free"
  BY <1>0, TakenOne
<1> HIDE DEF opened
<1>1. /\ TablesOK /\ ShapeInv /\ PcInv /\ PipesInv /\ OpenDataNotLost
      /\ a \in Ends /\ a # e /\ Peer(a) = e
      /\ next[e] \in Nat /\ next[a] \in Nat /\ i \in Nat
      /\ i \notin crossed[e] => Local(e, i)
      /\ OwnParity(e, i) => Paired(e, i)
      /\ ~OwnParity(e, i) => Paired(a, i)
      /\ Does(e, "emitter", i) \notin {"accept", "respond"}
      /\ Does(e, "app", i) \notin {"resp", "closed", "selflock"}
  BY <1>01, Before
<1>2. UNCHANGED <<next, state, link, opens, closes, lost>>
  BY DEF OnClosePacket
<1>3. CASE i \notin pipes[e]
  <2>1. UNCHANGED <<pipes, refs, pc, crossed>>
    BY <1>3 DEF OnClosePacket
  <2> QED
    BY <1>0, <1>2, <2>1, OnlyTakes
<1>4. CASE i \in pipes[e]
  <2>1. pipes' \in [Ends -> SUBSET Ids] /\ i \notin pipes'[e]
        /\ \A x \in Ends, j \in Ids : x # e \/ j # i => (j \in pipes'[x] <=> j \in pipes[x])
    <3>1. pipes' = [pipes EXCEPT ![e] = @ \ {i}]
      BY <1>4 DEF OnClosePacket, Erase
    <3> QED
      BY <1>1, <3>1 DEF TablesOK
  <2>2. /\ refs' \in [Ends -> [Ids -> SUBSET {"user", "timer", "emitter"}]]
        /\ \A x \in Ends, j \in Ids : x # e \/ j # i => refs'[x][j] = refs[x][j]
        /\ told => "emitter" \in refs'[e][i]
        /\ ~told => refs' = refs
    <3>1. CASE told
      <4>1. refs' = [refs EXCEPT ![e][i] = @ \cup {"emitter"}]
        BY <1>4, <3>1 DEF OnClosePacket
      <4> QED
        BY <1>01, <1>1, <3>1, <4>1 DEF TablesOK
    <3>2. CASE ~told
      BY <1>1, <1>4, <3>2 DEF OnClosePacket, TablesOK
    <3> QED
      BY <3>1, <3>2
  <2>3. CASE told
    <3>1. Goes(e, "emitter", p)
      BY <1>4, <2>3 DEF OnClosePacket
    <3>2. Fits("emitter", p) /\ p.at = "closed" /\ p.at \in Places /\ p.id = i
      BY <1>01 DEF Fits, In, Places, Closing
    <3> HIDE DEF p
    <3>3. Moved(e, "emitter", i, "closed")
      BY <1>01, <1>1, <3>1, <3>2, Moves
    <3>4. TablesOK' /\ ShapeInv' /\ OpenDataNotLost' /\ OnlyTables(e, i) /\ OnlyPlaces(e, i)
      <4>1. TablesOK' /\ OnlyTables(e, i)
        BY <1>1, <1>2, <2>1, <2>2, <3>3 DEF TablesOK, Moved, OnlyTables
      <4>2. ShapeInv'
        BY <1>01, <1>1, <1>2, <3>3, MovedShape DEF Taken
      <4> QED
        BY <1>1, <1>2, <3>3, <4>1, <4>2, MovedOnly DEF OpenDataNotLost
    <3>5. ASSUME i \notin crossed'[e]
          PROVE  Local(e, i)' /\ ~Waits(e, i)'
      <4>0. i \notin crossed[e]
        BY <1>01, <3>3, <3>5 DEF Moved
      <4>1. Local(e, i) /\ Alone(e, i)
        BY <1>1, <4>0 DEF Local
      <4>2. /\ Alone(e, i)' /\ Place(e, i)' = "closed" /\ Place(e, i) = "free"
        BY <1>01, <3>3, <3>5, <4>1, Placed
      <4> QED
        BY <1>2, <2>1, <2>2, <2>3, <4>1, <4>2 DEF Local, NotifiesPeer, Closing, Waits
    <3>6. /\ Does(e, "emitter", i)' = "closed" /\ Does(e, "app", i)' = Does(e, "app", i)
          /\ Does(a, "emitter", i)' = Does(a, "emitter", i) /\ Does(a, "app", i)' = Does(a, "app", i)
          /\ Place(a, i)' = Place(a, i)
          /\ i \in crossed'[a] <=> i \in crossed[a]
      BY <1>01, <3>3, MovedEnds DEF Other
    <3>7. /\ state'[a][i] = state[a][i] /\ refs'[a][i] = refs[a][i] /\ (i \in pipes'[a] <=> i \in pipes[a])
          /\ ~Unused(e, i) /\ next' = next /\ link' = link /\ state'[e][i] = state[e][i]
      BY <1>01, <1>1, <1>2, <1>4, <2>1, <2>2 DEF Unused
    <3>8. /\ (Unused(a, i)' <=> Unused(a, i)) /\ (Waits(a, i)' <=> Waits(a, i))
          /\ ~Waits(e, i)'
      BY <3>5, <3>6, <3>7 DEF Unused, Waits
    <3>9. OwnParity(e, i) => Paired(e, i)'
      BY <1>01, <1>1, <3>6, <3>7, <3>8 DEF Paired, WasOpened, Taken
    <3>10. ~OwnParity(e, i) => Paired(a, i)'
      BY <1>01, <1>1, <3>6, <3>7, <3>8 DEF Paired, WasOpened, Taken
    <3> QED
      BY <1>01, <3>4, <3>5, <3>9, <3>10, After DEF Keeps, Taken
  <2>4. CASE ~told
    <3>1. UNCHANGED <<pc, crossed, refs>>
      BY <1>4, <2>4 DEF OnClosePacket
    <3>2. PcInv' /\ \A x, u, j : Does(x, u, j)' = Does(x, u, j)
      BY <1>1, <3>1, Stays
    <3>3. TablesOK' /\ ShapeInv' /\ OpenDataNotLost' /\ OnlyTables(e, i) /\ OnlyPlaces(e, i)
      <4>1. TablesOK' /\ OnlyTables(e, i)
        BY <1>1, <1>2, <2>1, <3>1 DEF TablesOK, OnlyTables
      <4>2. ShapeInv'
        BY <1>01, <1>1, <1>2, <3>1, <3>2 DEF ShapeInv, Taken
      <4> QED
        BY <1>1, <1>2, <3>1, <4>1, <4>2, StaysOnly DEF OpenDataNotLost
    <3>4. i \notin crossed'[e] => Local(e, i)'
      <4> SUFFICES ASSUME i \notin crossed'[e] PROVE Local(e, i)'
        OBVIOUS
      <4>1. Local(e, i)
        BY <1>1, <3>1
      <4>2. Place(e, i)' = Place(e, i) /\ (Alone(e, i)' <=> Alone(e, i))
        BY <3>2 DEF Place, Alone
      <4>3. Place(e, i) \notin {"free", "accept", "respond", "resp"}
        BY <1>4, <2>4, <4>1 DEF Local
      <4> QED
        BY <1>2, <2>1, <3>1, <4>1, <4>2, <4>3 DEF Local
    <3>5. /\ state'[a][i] = state[a][i] /\ refs'[a][i] = refs[a][i] /\ (i \in pipes'[a] <=> i \in pipes[a])
          /\ ~Unused(e, i) /\ next' = next /\ link' = link /\ state' = state
      BY <1>1, <1>2, <1>4, <1>01, <2>1, <3>1 DEF Unused
    <3>6. /\ (Unused(a, i)' <=> Unused(a, i))
          /\ (Waits(a, i)' <=> Waits(a, i)) /\ (Waits(e, i)' <=> Waits(e, i))
      BY <3>1, <3>2, <3>5 DEF Unused, Waits, Place
    <3>7. OwnParity(e, i) => Paired(e, i)'
      BY <1>01, <1>1, <3>2, <3>5, <3>6 DEF Paired, WasOpened, Taken
    <3>8. ~OwnParity(e, i) => Paired(a, i)'
      BY <1>01, <1>1, <3>2, <3>5, <3>6 DEF Paired, WasOpened, Taken
    <3> QED
      BY <1>01, <3>3, <3>4, <3>7, <3>8, After DEF Keeps, Taken
  <2> QED
    BY <2>3, <2>4
<1> QED
  BY <1>3, <1>4

(* What was sent on the opened pipe finds it open, or closed, unless the two  *)
(* threads were in it.                                                        *)
LEMMA OnDataKeeps ==
  ASSUME IInv, NEW e \in Ends, OnData(e), NEW i, i = Msg(e).id
  PROVE  Keeps
<1> DEFINE a == Peer(e)
           opened == Msg(e).opened
<1>0. ShapeInv /\ Takes(e, "DATA")
  BY DEF IInv, OnData
<1>01. i \in Ids /\ Taken(e, i, "DATA", opened)
  BY <1>0, TakenOne
<1>2. UNCHANGED <<next, pipes, state, refs, link, pc, opens, closes, crossed>>
  BY DEF OnData
<1>3. lost' = (lost \/ /\ opened /\ Settled(e, i) /\ i \notin crossed[e]
                       /\ refs[e][i] # {} /\ state[e][i] # "Closed"
                       /\ ~(Found(e, i) /\ state[e][i] = "Opened"))
  BY DEF OnData
<1> HIDE DEF opened
<1>1. /\ TablesOK /\ ShapeInv /\ PcInv /\ PipesInv /\ OpenDataNotLost
      /\ a \in Ends /\ a # e /\ Peer(a) = e
      /\ next[e] \in Nat /\ next[a] \in Nat /\ i \in Nat
      /\ i \notin crossed[e] => Local(e, i)
      /\ OwnParity(e, i) => Paired(e, i)
      /\ ~OwnParity(e, i) => Paired(a, i)
      /\ Does(e, "emitter", i) \notin {"accept", "respond"}
      /\ Does(e, "app", i) \notin {"resp", "closed", "selflock"}
  BY <1>01, Before
<1>4. ASSUME opened, Settled(e, i), i \notin crossed[e], refs[e][i] # {}, state[e][i] # "Closed"
      PROVE  Found(e, i) /\ state[e][i] = "Opened"
  <2>1. Place(e, i) = "free"
    BY <1>4 DEF Settled, Place, Does, Threads
  <2>2. i \in pipes[e]
    BY <1>1, <1>4, <2>1 DEF Local
  <2>3. state[e][i] \in States
    BY <1>01, <1>1 DEF TablesOK
  <2>4. Saying(chan[e], i) /\ ~Answered(chan[e], i)
    BY <1>01, <1>4 DEF Taken
  <2>5. OwnParity(e, i) => state[e][i] = "Opened"
    BY <1>1, <1>4, <2>1, <2>3, <2>4 DEF Paired, WasOpened, States, Waits
  <2>6. ~OwnParity(e, i) => state[e][i] = "Opened"
    BY <1>1, <1>4, <2>4 DEF Paired, WasOpened
  <2> QED
    BY <1>4, <2>2, <2>5, <2>6 DEF Found
<1>5. lost' = lost /\ lost = FALSE
  BY <1>1, <1>3, <1>4 DEF TablesOK, OpenDataNotLost
<1> QED
  BY <1>0, <1>2, <1>5, OnlyTakes

(* The pipe is open once the answer has been taken, *)
LEMMA OpenDoneKeeps ==
  ASSUME IInv, NEW e \in Ends, OpenDone(e), NEW i, i = pc[e]["emitter"].id
  PROVE  Keeps
<1> DEFINE a == Peer(e)
           last == refs[e][i] \ {"emitter"} = {}
<1>0. PcInv /\ pc[e]["emitter"].at = "resp" /\ "resp" \in Places /\ "emitter" \in Threads
  BY DEF IInv, ShapeInv, OpenDone, Places, Threads
<1>01. i \in Ids /\ Does(e, "emitter", i) = "resp"
  BY <1>0, Works
<1>1. /\ TablesOK /\ ShapeInv /\ PcInv /\ PipesInv /\ OpenDataNotLost
      /\ a \in Ends /\ a # e /\ Peer(a) = e
      /\ next[e] \in Nat /\ next[a] \in Nat /\ i \in Nat
      /\ i \notin crossed[e] => Local(e, i)
      /\ OwnParity(e, i) => Paired(e, i)
      /\ ~OwnParity(e, i) => Paired(a, i)
      /\ Does(e, "emitter", i) \notin {"accept", "respond"}
      /\ Does(e, "app", i) \notin {"resp", "closed", "selflock"}
  BY <1>01, Before
<1>2. /\ UNCHANGED <<next, chan, link, closes, lost>> /\ DropRef(e, "emitter", i, "emitter")
      /\ state' = [state EXCEPT ![e][i] = "Opened"]
      /\ opens' = [opens EXCEPT ![e][i] = @ + 1]
  BY DEF OpenDone
<1>3. /\ state' \in [Ends -> [Ids -> States]] /\ state'[e][i] = "Opened"
      /\ \A x \in Ends, j \in Ids : x # e \/ j # i => state'[x][j] = state[x][j]
  BY <1>01, <1>1, <1>2 DEF TablesOK, States
<1>4. /\ opens' \in [Ends -> [Ids -> Nat]] /\ opens'[e][i] = opens[e][i] + 1
      /\ \A x \in Ends, j \in Ids : x # e \/ j # i => opens'[x][j] = opens[x][j]
  BY <1>01, <1>1, <1>2 DEF TablesOK
<1>5. /\ Moved(e, "emitter", i, IF last THEN "erase" ELSE "free")
      /\ refs' \in [Ends -> [Ids -> SUBSET {"user", "timer", "emitter"}]]
      /\ refs'[e][i] = refs[e][i] \ {"emitter"}
      /\ \A x \in Ends, j \in Ids : x # e \/ j # i => refs'[x][j] = refs[x][j]
      /\ pipes' \in [Ends -> SUBSET Ids]
      /\ \A x \in Ends, j \in Ids : j \in pipes'[x] <=> j \in pipes[x]
  <2>1. state'[e][i] \in NotifiesPeer
    BY <1>3 DEF NotifiesPeer
  <2> QED
    BY <1>0, <1>01, <1>1, <1>2, <2>1, Drops
<1> DEFINE at == IF last THEN "erase" ELSE "free"
<1>6. at \in {"erase", "free"} /\ (at = "free" <=> refs'[e][i] # {}) /\ Moved(e, "emitter", i, at)
  BY <1>5
<1> HIDE DEF last, at
<1>7. TablesOK' /\ ShapeInv' /\ OpenDataNotLost' /\ OnlyTables(e, i) /\ OnlyPlaces(e, i) /\ OnlyPackets(i)
  <2>1. TablesOK'
    BY <1>1, <1>2, <1>3, <1>4, <1>5, <1>6 DEF TablesOK, Moved
  <2>2. OnlyTables(e, i)
    BY <1>2, <1>3, <1>5 DEF OnlyTables
  <2>3. ShapeInv'
    <3>1. chan' \in [Ends -> Seq(Msgs)]
      BY <1>1, <1>2 DEF ShapeInv
    <3> QED
      BY <1>1, <1>2, <1>6, <3>1, MovedShape
  <2> QED
    BY <1>1, <1>2, <1>6, <2>1, <2>2, <2>3, MovedOnly, NoPacket DEF OpenDataNotLost
<1>8. ASSUME i \notin crossed'[e]
      PROVE  Local(e, i)'
  <2>0. i \notin crossed[e]
    BY <1>01, <1>6, <1>8 DEF Moved
  <2>1. Local(e, i) /\ Alone(e, i)
    BY <1>1, <2>0 DEF Local
  <2>2. /\ Alone(e, i)' /\ Place(e, i)' = at /\ Place(e, i) = "resp"
    BY <1>0, <1>01, <1>6, <1>8, <2>1, Placed
  <2>3. i \in pipes[e] /\ state[e][i] = "OpenRequstSent" /\ link' = link /\ closes' = closes
    BY <1>2, <2>1, <2>2 DEF Local
  <2> QED
    BY <1>01, <1>3, <1>5, <1>6, <2>1, <2>2, <2>3 DEF Local, NotifiesPeer, Closing
<1>9. OwnParity(e, i)
  BY <1>01, <1>1 DEF Paired
<1>10. /\ Does(e, "emitter", i)' = at /\ Does(e, "app", i)' = Does(e, "app", i)
       /\ Does(a, "emitter", i)' = Does(a, "emitter", i) /\ Does(a, "app", i)' = Does(a, "app", i)
       /\ Place(a, i)' = Place(a, i)
       /\ i \in crossed'[a] <=> i \in crossed[a]
  BY <1>0, <1>01, <1>6, MovedEnds DEF Other
<1>11. /\ state'[a][i] = state[a][i] /\ refs'[a][i] = refs[a][i]
       /\ i \in pipes'[a] <=> i \in pipes[a]
       /\ next' = next /\ chan' = chan
  BY <1>01, <1>1, <1>2, <1>3, <1>5
<1>12. (Unused(a, i)' <=> Unused(a, i)) /\ ~Unused(e, i) /\ ~Waits(e, i)'
  BY <1>01, <1>3, <1>10, <1>11 DEF Unused, Waits
<1>13. Paired(e, i)'
  <2>1. Paired(e, i) /\ WasOpened(a, i)
    BY <1>01, <1>1, <1>9 DEF Paired
  <2> QED
    BY <1>1, <1>3, <1>6, <1>10, <1>11, <1>12, <2>1 DEF Paired, WasOpened
<1> QED
  BY <1>01, <1>7, <1>8, <1>9, <1>13, After DEF Keeps

(* and closed once the close of the peer has. *)
LEMMA ClosedByPeerKeeps ==
  ASSUME IInv, NEW e \in Ends, ClosedByPeer(e), NEW i, i = pc[e]["emitter"].id
  PROVE  Keeps
<1> DEFINE a == Peer(e)
           last == refs[e][i] \ {"emitter"} = {}
<1>0. PcInv /\ pc[e]["emitter"].at = "closed" /\ "closed" \in Places /\ "emitter" \in Threads
  BY DEF IInv, ShapeInv, ClosedByPeer, Places, Threads
<1>01. i \in Ids /\ Does(e, "emitter", i) = "closed"
  BY <1>0, Works
<1>1. /\ TablesOK /\ ShapeInv /\ PcInv /\ PipesInv /\ OpenDataNotLost
      /\ a \in Ends /\ a # e /\ Peer(a) = e
      /\ next[e] \in Nat /\ next[a] \in Nat /\ i \in Nat
      /\ i \notin crossed[e] => Local(e, i)
      /\ OwnParity(e, i) => Paired(e, i)
      /\ ~OwnParity(e, i) => Paired(a, i)
      /\ Does(e, "emitter", i) \notin {"accept", "respond"}
      /\ Does(e, "app", i) \notin {"resp", "closed", "selflock"}
  BY <1>01, Before
<1>2. /\ UNCHANGED <<next, chan, link, opens, lost>> /\ DropRef(e, "emitter", i, "emitter")
      /\ state' = [state EXCEPT ![e][i] = "Closed"]
      /\ closes' = [closes EXCEPT ![e][i] = @ + 1]
  BY DEF ClosedByPeer
<1>3. /\ state' \in [Ends -> [Ids -> States]] /\ state'[e][i] = "Closed"
      /\ \A x \in Ends, j \in Ids : x # e \/ j # i => state'[x][j] = state[x][j]
  BY <1>01, <1>1, <1>2 DEF TablesOK, States
<1>4. /\ closes' \in [Ends -> [Ids -> Nat]] /\ closes'[e][i] = closes[e][i] + 1
      /\ \A x \in Ends, j \in Ids : x # e \/ j # i => closes'[x][j] = closes[x][j]
  BY <1>01, <1>1, <1>2 DEF TablesOK
<1>5. /\ Moved(e, "emitter", i, "free")
      /\ refs' \in [Ends -> [Ids -> SUBSET {"user", "timer", "emitter"}]]
      /\ \A x \in Ends, j \in Ids : x # e \/ j # i => refs'[x][j] = refs[x][j]
      /\ pipes' \in [Ends -> SUBSET Ids] /\ (i \notin pipes[e] => i \notin pipes'[e])
      /\ \A x \in Ends, j \in Ids : x # e \/ j # i => (j \in pipes'[x] <=> j \in pipes[x])
  <2>1. state'[e][i] \notin NotifiesPeer
    BY <1>3 DEF NotifiesPeer
  <2> QED
    BY <1>0, <1>01, <1>1, <1>2, <2>1, Drops
<1> HIDE DEF last
<1>7. TablesOK' /\ ShapeInv' /\ OpenDataNotLost' /\ OnlyTables(e, i) /\ OnlyPlaces(e, i) /\ OnlyPackets(i)
  <2>1. TablesOK'
    BY <1>1, <1>2, <1>3, <1>4, <1>5 DEF TablesOK, Moved
  <2>2. OnlyTables(e, i)
    BY <1>2, <1>3, <1>4, <1>5 DEF OnlyTables
  <2>3. ShapeInv'
    <3>1. chan' \in [Ends -> Seq(Msgs)]
      BY <1>1, <1>2 DEF ShapeInv
    <3> QED
      BY <1>1, <1>2, <1>5, <3>1, MovedShape
  <2> QED
    BY <1>1, <1>2, <1>5, <2>1, <2>2, <2>3, MovedOnly, NoPacket DEF OpenDataNotLost
<1>8. ASSUME i \notin crossed'[e]
      PROVE  Local(e, i)'
  <2>0. i \notin crossed[e]
    BY <1>01, <1>5, <1>8 DEF Moved
  <2>1. Local(e, i) /\ Alone(e, i)
    BY <1>1, <2>0 DEF Local
  <2>2. /\ Alone(e, i)' /\ Place(e, i)' = "free" /\ Place(e, i) = "closed"
    BY <1>0, <1>01, <1>5, <1>8, <2>1, Placed
  <2>3. i \notin pipes[e] /\ state[e][i] # "Closed" /\ link' = link
    BY <1>2, <2>1, <2>2 DEF Local
  <2> QED
    BY <1>3, <1>4, <1>5, <2>1, <2>2, <2>3 DEF Local, NotifiesPeer
<1>9. /\ Does(e, "emitter", i)' = "free" /\ Does(e, "app", i)' = Does(e, "app", i)
      /\ Does(a, "emitter", i)' = Does(a, "emitter", i) /\ Does(a, "app", i)' = Does(a, "app", i)
      /\ Place(a, i)' = Place(a, i)
      /\ i \in crossed'[a] <=> i \in crossed[a]
  BY <1>0, <1>01, <1>5, MovedEnds DEF Other
<1>10. /\ state'[a][i] = state[a][i] /\ refs'[a][i] = refs[a][i]
       /\ i \in pipes'[a] <=> i \in pipes[a]
       /\ next' = next /\ chan' = chan
  BY <1>01, <1>1, <1>2, <1>3, <1>5
<1>11. (Unused(a, i)' <=> Unused(a, i)) /\ (Waits(a, i)' <=> Waits(a, i)) /\ ~Unused(e, i) /\ ~Waits(e, i)'
  BY <1>01, <1>3, <1>9, <1>10 DEF Unused, Waits
<1>12. OwnParity(e, i) => Paired(e, i)'
  <2> SUFFICES ASSUME OwnParity(e, i) PROVE Paired(e, i)'
    OBVIOUS
  <2>1. Paired(e, i)
    BY <1>1
  <2> QED
    BY <1>1, <1>3, <1>9, <1>10, <1>11, <2>1 DEF Paired, WasOpened
<1>13. ~OwnParity(e, i) => Paired(a, i)'
  <2> SUFFICES ASSUME ~OwnParity(e, i) PROVE Paired(a, i)'
    OBVIOUS
  <2>1. Paired(a, i) /\ state[e][i] # "None"
    BY <1>1, <1>11 DEF Paired
  <2> QED
    BY <1>1, <1>3, <1>9, <1>10, <1>11, <2>1 DEF Paired, WasOpened
<1> QED
  BY <1>01, <1>7, <1>8, <1>12, <1>13, After DEF Keeps

-----------------------------------------------------------------------------
(* on_close() *)

(* Nothing but the transports and the packets on their way is touched: those  *)
(* that are left are as they were, and some transport has closed.             *)
OnlyLost ==
  /\ \A x \in Ends : link'[x] = "up" => link[x] = "up"
  /\ \A x \in Ends, j \in Ids :
       /\ \A type : Has(chan'[x], type, j) => Has(chan[x], type, j)
       /\ Saying(chan'[x], j) => Saying(chan[x], j)
       /\ Once(chan[x], "OPEN_REQ", j) => Once(chan'[x], "OPEN_REQ", j)
       /\ Answered(chan[x], j) => Answered(chan'[x], j)
  /\ chan' = chan \/ \E x \in Ends : link'[x] # "up"

LEMMA NoPipe ==
  ASSUME PipesInv, UNCHANGED <<next, pipes, state, refs, closes, crossed>>, OnlyLost,
         \A x \in Ends, j \in Ids : /\ Does(x, "emitter", j)' = Does(x, "emitter", j)
                                    /\ Does(x, "app", j)' = Does(x, "app", j)
  PROVE  PipesInv'
<1>1. ASSUME NEW x \in Ends, NEW j \in Ids
      PROVE  /\ Place(x, j)' = Place(x, j) /\ (Alone(x, j)' <=> Alone(x, j))
             /\ (Unused(x, j)' <=> Unused(x, j)) /\ (Waits(x, j)' <=> Waits(x, j))
  BY <1>1 DEF Place, Alone, Unused, Waits
<1>2. ASSUME NEW x \in Ends, NEW j \in Ids, j \notin crossed'[x]
      PROVE  Local(x, j)'
  <2>1. Local(x, j)
    BY <1>2 DEF PipesInv
  <2> QED
    BY <1>1, <2>1 DEF Local, OnlyLost
<1>3. ASSUME NEW x \in Ends, NEW j \in Ids, OwnParity(x, j)
      PROVE  Paired(x, j)'
  <2>1. Peer(x) \in Ends /\ Paired(x, j)
    BY <1>3, Parity DEF PipesInv
  <2>2. /\ \A type : Has(chan'[Peer(x)], type, j) => Has(chan[Peer(x)], type, j)
        /\ \A type : Has(chan'[x], type, j) => Has(chan[x], type, j)
        /\ Saying(chan'[Peer(x)], j) => Saying(chan[Peer(x)], j)
        /\ Saying(chan'[x], j) => Saying(chan[x], j)
        /\ Once(chan[Peer(x)], "OPEN_REQ", j) => Once(chan'[Peer(x)], "OPEN_REQ", j)
        /\ Answered(chan[x], j) => Answered(chan'[x], j)
        /\ (\A y \in Ends : link'[y] = "up") => chan' = chan /\ \A y \in Ends : link[y] = "up"
    BY <2>1 DEF OnlyLost
  <2> QED
    BY <1>1, <2>1, <2>2 DEF Paired, WasOpened
<1> QED
  BY <1>2, <1>3 DEF PipesInv

(* The emitter thread begins to tell the pipes, goes on, or ends. *)
LEMMA Tells ==
  ASSUME PcInv, NEW e \in Ends, NEW p, Goes(e, "emitter", p), Fits("emitter", p), p.at \in {"idle", "linkclose"},
         pc[e]["emitter"].at \in {"idle", "linkclose"}, crossed \in [Ends -> SUBSET Ids]
  PROVE  /\ PcInv' /\ pc'[e]["emitter"] = p /\ crossed' = crossed
         /\ \A x \in Ends, u \in Threads : x # e \/ u # "emitter" => pc'[x][u] = pc[x][u]
         /\ \A x \in Ends, j \in Ids : /\ Does(x, "emitter", j)' = Does(x, "emitter", j)
                                       /\ Does(x, "app", j)' = Does(x, "app", j)
<1>1. pc = [x \in Ends |-> [u \in Threads |-> pc[x][u]]] /\ pc' = [pc EXCEPT ![e]["emitter"] = p]
  BY DEF PcInv, Goes
<1>2. "emitter" \in Threads /\ "app" \in Threads
  BY DEF Threads
<1>3. \A x \in Ends, u \in Threads : pc'[x][u] = IF x = e /\ u = "emitter" THEN p ELSE pc[x][u]
  BY <1>1, <1>2
<1>4. pc' = [x \in Ends |-> [u \in Threads |-> pc'[x][u]]]
  BY <1>1, <1>3
<1>5. \A x \in Ends, u \in Threads : Fits(u, pc'[x][u])
  BY <1>2, <1>3 DEF PcInv
<1>6. PcInv'
  BY <1>4, <1>5 DEF PcInv, Fits
<1>7. /\ \A x \in Ends, j \in Ids : x # e => Does(x, "emitter", j)' = Does(x, "emitter", j)
      /\ \A x \in Ends, j \in Ids : Does(x, "app", j)' = Does(x, "app", j)
  BY <1>2, <1>3 DEF Does, BusyOn, About
<1>8. \A j \in Ids : Does(e, "emitter", j)' = "free" /\ Does(e, "emitter", j) = "free"
  BY <1>2, <1>3 DEF Does, BusyOn, About
<1>9. crossed' = crossed
  <2>1. {j \in Ids : About(p, j) /\ BusyOn(e, Other("emitter"), j)} = {}
    BY DEF About
  <2>2. crossed' = [crossed EXCEPT ![e] = crossed[e] \cup {}]
    BY <2>1 DEF Goes
  <2> QED
    BY <2>2
<1> QED
  BY <1>2, <1>3, <1>6, <1>7, <1>8, <1>9

(* A step of on_close() that is about no pipe. *)
LEMMA TellsKeeps ==
  ASSUME IInv, NEW e \in Ends, NEW p, Goes(e, "emitter", p), Fits("emitter", p), p.at \in {"idle", "linkclose"},
         pc[e]["emitter"].at \in {"idle", "linkclose"},
         UNCHANGED <<next, pipes, state, refs, opens, closes, lost>>, OnlyLost,
         chan' \in [Ends -> Seq(Msgs)], link' \in [Ends -> {"up", "closing", "down"}], link'[e] # "up"
  PROVE  Keeps
<1>1. TablesOK /\ ShapeInv /\ PcInv /\ PipesInv /\ OpenDataNotLost /\ crossed \in [Ends -> SUBSET Ids]
  BY DEF IInv, TypeOK, TablesOK, ShapeInv
<1>2. /\ PcInv' /\ pc'[e]["emitter"] = p /\ crossed' = crossed
      /\ \A x \in Ends, u \in Threads : x # e \/ u # "emitter" => pc'[x][u] = pc[x][u]
      /\ \A x \in Ends, j \in Ids : /\ Does(x, "emitter", j)' = Does(x, "emitter", j)
                                    /\ Does(x, "app", j)' = Does(x, "app", j)
  BY <1>1, Tells
<1>3. PipesInv'
  BY <1>1, <1>2, NoPipe
<1>4. TablesOK'
  BY <1>1, <1>2 DEF TablesOK
<1>5. ShapeInv'
  <2>1. \A x \in Ends : x # e => pc'[x]["emitter"] = pc[x]["emitter"]
    BY <1>2 DEF Threads
  <2> QED
    BY <1>1, <1>2, <2>1 DEF ShapeInv, OnlyLost
<1> QED
  BY <1>1, <1>3, <1>4, <1>5 DEF Keeps, OpenDataNotLost

(* While the emitter thread tells the pipes, the transport below is not up.   *)
LEMMA Telling ==
  ASSUME IInv, NEW e \in Ends, pc[e]["emitter"].at = "linkclose"
  PROVE  pc[e]["emitter"].left \subseteq Ids /\ link[e] # "up"
<1>1. Fits("emitter", pc[e]["emitter"]) /\ link[e] # "up"
  BY DEF IInv, ShapeInv, PcInv, Threads
<1> QED
  BY <1>1 DEF Fits

LEMMA LinkClosesKeeps ==
  ASSUME IInv, NEW e \in Ends, LinkCloses(e)
  PROVE  Keeps
<1> DEFINE p == [at |-> "linkclose", id |-> 0, who |-> "none", left |-> pipes[e]]
           a == Peer(e)
<1>1. TablesOK /\ ShapeInv
  BY DEF IInv, TypeOK, TablesOK, ShapeInv
<1>2. /\ UNCHANGED <<next, pipes, state, refs, opens, closes, lost>>
      /\ Goes(e, "emitter", p) /\ pc[e]["emitter"].at = "idle" /\ link' = [link EXCEPT ![e] = "closing"]
  BY DEF LinkCloses, Busy
<1>3. PICK k \in 0..Len(chan[a]) : chan' = [x \in Ends |-> IF x = e THEN <<>> ELSE SubSeq(chan[x], 1, k)]
  BY DEF LinkCloses
<1>4. Fits("emitter", p) /\ p.at = "linkclose"
  BY <1>1 DEF TablesOK, Fits, Places, Closing
<1> HIDE DEF p
<1>5. link' \in [Ends -> {"up", "closing", "down"}] /\ link'[e] # "up" /\ \A x \in Ends : link'[x] = "up" => link[x] = "up"
  BY <1>1, <1>2 DEF TablesOK
<1>6. a \in Ends /\ a # e /\ (\A x \in Ends : x = e \/ x = a)
  BY Parity
<1>7. chan'[e] = <<>> /\ chan'[a] = SubSeq(chan[a], 1, k) /\ chan[e] \in Seq(Msgs) /\ chan[a] \in Seq(Msgs)
  BY <1>1, <1>3, <1>6 DEF ShapeInv
<1>8. ASSUME NEW x \in Ends, NEW j \in Ids
      PROVE  /\ chan'[x] \in Seq(Msgs)
             /\ \A type : Has(chan'[x], type, j) => Has(chan[x], type, j)
             /\ Saying(chan'[x], j) => Saying(chan[x], j)
             /\ Once(chan[x], "OPEN_REQ", j) => Once(chan'[x], "OPEN_REQ", j)
             /\ Answered(chan[x], j) => Answered(chan'[x], j)
  <2>1. CASE x = e
    <3>1. Len(chan'[e]) = 0 /\ 1..Len(chan'[e]) = {} /\ chan'[e] \in Seq(Msgs)
      BY <1>7
    <3> QED
      BY <2>1, <3>1 DEF Has, Saying, Once, Answered
  <2>2. CASE x = a
    <3> DEFINE r == SubSeq(chan[a], 1, k)
    <3>1. /\ r \in Seq(Msgs)
          /\ \A type : Has(r, type, j) => Has(chan[a], type, j)
          /\ Saying(r, j) => Saying(chan[a], j)
          /\ \A type : Once(chan[a], type, j) => Once(r, type, j)
          /\ Answered(chan[a], j) => Answered(r, j)
      BY <1>7, PrefixMsg
    <3> HIDE DEF r
    <3> QED
      BY <1>7, <2>2, <3>1 DEF r
  <2> QED
    BY <1>6, <2>1, <2>2
<1>9. chan' \in [Ends -> Seq(Msgs)]
  <2>1. chan' = [x \in Ends |-> chan'[x]]
    BY <1>3
  <2>2. \A x \in Ends : chan'[x] \in Seq(Msgs)
    <3>1. chan'[e] \in Seq(Msgs)
      BY <1>7
    <3>2. chan'[a] \in Seq(Msgs)
      <4>1. SubSeq(chan[a], 1, k) \in Seq(Msgs)
        BY <1>7
      <4> QED
        BY <1>7, <4>1
    <3> QED
      BY <1>6, <3>1, <3>2
  <2> QED
    BY <2>1, <2>2
<1>10. OnlyLost
  BY <1>5, <1>8 DEF OnlyLost
<1> QED
  BY <1>2, <1>4, <1>5, <1>9, <1>10, TellsKeeps

(* A transport is not up and no packet is lost. *)
LEMMA NothingLostYet ==
  ASSUME UNCHANGED chan, \A x \in Ends : link'[x] = "up" => link[x] = "up"
  PROVE  OnlyLost
  BY DEF OnlyLost

LEMMA LinkCloseEndKeeps ==
  ASSUME IInv, NEW e \in Ends, LinkCloseEnd(e)
  PROVE  Keeps
<1>1. TablesOK /\ ShapeInv
  BY DEF IInv, TypeOK, TablesOK, ShapeInv
<1>2. /\ UNCHANGED <<next, pipes, state, refs, chan, opens, closes, lost>> /\ pc[e]["emitter"].at = "linkclose"
      /\ Goes(e, "emitter", Idle) /\ link' = [link EXCEPT ![e] = "down"]
  BY DEF LinkCloseEnd
<1>3. Fits("emitter", Idle) /\ Idle.at = "idle"
  BY DEF Fits, Idle, Places, Closing
<1> HIDE DEF Idle
<1>4. link' \in [Ends -> {"up", "closing", "down"}] /\ link'[e] # "up" /\ \A x \in Ends : link'[x] = "up" => link[x] = "up"
  BY <1>1, <1>2 DEF TablesOK
<1>5. OnlyLost /\ chan' \in [Ends -> Seq(Msgs)]
  BY <1>1, <1>2, <1>4, NothingLostYet DEF ShapeInv
<1> QED
  BY <1>2, <1>3, <1>4, <1>5, TellsKeeps

(* Only pipes that live are told; their closes are no longer counted. *)
LEMMA LinkCloseCallbackKeeps ==
  ASSUME IInv, NEW e \in Ends, LinkCloseCallback(e)
  PROVE  Keeps
<1> DEFINE a == Peer(e)
           p == pc[e]["emitter"]
           told(i) == [p EXCEPT !.left = @ \ {i}]
           stuck(i) == In("selflock", i, "none")
<1>2. /\ PcInv /\ p.at = "linkclose" /\ "linkclose" \notin Places /\ "emitter" \in Threads
      /\ UNCHANGED <<next, pipes, state, refs, chan, link, opens, lost>>
  BY DEF IInv, ShapeInv, LinkCloseCallback, Places, Closing, Threads
<1>3. p.left \subseteq Ids /\ link[e] # "up"
  BY <1>2, Telling
<1>4. PICK i \in p.left :
        \/ /\ refs[e][i] # {} /\ closes' = [closes EXCEPT ![e][i] = @ + 1]
           /\ Goes(e, "emitter", told(i)) \/ Goes(e, "emitter", stuck(i))
        \/ UNCHANGED closes /\ Goes(e, "emitter", told(i))
  BY DEF LinkCloseCallback, Told
<1>01. i \in Ids
  BY <1>3, <1>4
<1>1. /\ TablesOK /\ ShapeInv /\ PcInv /\ PipesInv /\ OpenDataNotLost
      /\ a \in Ends /\ a # e /\ Peer(a) = e
      /\ next[e] \in Nat /\ next[a] \in Nat /\ i \in Nat
      /\ i \notin crossed[e] => Local(e, i)
      /\ OwnParity(e, i) => Paired(e, i)
      /\ ~OwnParity(e, i) => Paired(a, i)
      /\ Does(e, "emitter", i) \notin {"accept", "respond"}
      /\ Does(e, "app", i) \notin {"resp", "closed", "selflock"}
  BY <1>01, Before
<1>5. /\ Fits("emitter", told(i)) /\ told(i).at = "linkclose"
      /\ Fits("emitter", stuck(i)) /\ stuck(i).at = "selflock" /\ stuck(i).id = i /\ "selflock" \in Places
  <2>1. p = [at |-> "linkclose", id |-> 0, who |-> "none", left |-> p.left]
    BY <1>2 DEF PcInv, Fits
  <2>2. told(i) = [at |-> "linkclose", id |-> 0, who |-> "none", left |-> p.left \ {i}]
    BY <2>1
  <2> QED
    BY <1>01, <1>3, <2>2 DEF Fits, In, Places, Closing
<1> HIDE DEF told, stuck
<1>6. /\ closes' \in [Ends -> [Ids -> Nat]]
      /\ \A x \in Ends, j \in Ids : x # e \/ j # i => closes'[x][j] = closes[x][j]
  <2>1. CASE closes' = [closes EXCEPT ![e][i] = @ + 1]
    BY <1>01, <1>1, <2>1 DEF TablesOK
  <2>2. CASE UNCHANGED closes
    BY <1>1, <2>2 DEF TablesOK
  <2> QED
    BY <1>4, <2>1, <2>2
<1>7. Does(e, "emitter", i) = "free"
  BY <1>2, Rests
<1>8. CASE Goes(e, "emitter", told(i))
  <2>1. /\ PcInv' /\ pc'[e]["emitter"] = told(i) /\ crossed' = crossed
        /\ \A x \in Ends, u \in Threads : x # e \/ u # "emitter" => pc'[x][u] = pc[x][u]
        /\ \A x \in Ends, j \in Ids : /\ Does(x, "emitter", j)' = Does(x, "emitter", j)
                                      /\ Does(x, "app", j)' = Does(x, "app", j)
    <3>1. crossed \in [Ends -> SUBSET Ids]
      BY <1>1 DEF TablesOK
    <3> QED
      BY <1>2, <1>5, <1>8, <3>1, Tells
  <2>2. TablesOK'
    BY <1>1, <1>2, <1>6, <2>1 DEF TablesOK
  <2>3. ShapeInv'
    <3>1. \A x \in Ends : x # e => pc'[x]["emitter"] = pc[x]["emitter"]
      BY <2>1 DEF Threads
    <3> QED
      BY <1>1, <1>2, <1>3, <2>1, <3>1 DEF ShapeInv
  <2>4. OnlyTables(e, i) /\ OnlyPlaces(e, i) /\ OnlyPackets(i)
    <3>1. OnlyTables(e, i)
      BY <1>2, <1>6 DEF OnlyTables
    <3>2. OnlyPlaces(e, i)
      BY <2>1 DEF OnlyPlaces
    <3> QED
      BY <1>2, <3>1, <3>2, NoPacket
  <2>5. ASSUME NEW x \in Ends
        PROVE  /\ Place(x, i)' = Place(x, i) /\ (Alone(x, i)' <=> Alone(x, i))
               /\ (Unused(x, i)' <=> Unused(x, i)) /\ (Waits(x, i)' <=> Waits(x, i))
    BY <1>01, <1>2, <2>1 DEF Place, Alone, Unused, Waits
  <2>6. i \notin crossed'[e] => Local(e, i)'
    BY <1>1, <1>2, <1>3, <2>1, <2>5 DEF Local
  <2>7. \A x \in Ends : Paired(x, i) => Paired(x, i)'
    <3> SUFFICES ASSUME NEW x \in Ends, Paired(x, i) PROVE Paired(x, i)'
      OBVIOUS
    <3>1. Peer(x) \in Ends
      BY Parity
    <3> QED
      BY <1>01, <1>2, <2>1, <2>5, <3>1 DEF Paired, WasOpened
  <2> QED
    BY <1>01, <1>1, <1>2, <2>2, <2>3, <2>4, <2>6, <2>7, After DEF Keeps, OpenDataNotLost
<1>9. CASE Goes(e, "emitter", stuck(i)) /\ refs[e][i] # {}
  <2>1. Moved(e, "emitter", i, "selflock")
    BY <1>01, <1>1, <1>2, <1>5, <1>9, Moves
  <2>2. TablesOK' /\ OnlyTables(e, i) /\ state'[e][i] = state[e][i] /\ ~Unused(e, i)
    BY <1>1, <1>2, <1>6, <1>9, <2>1 DEF TablesOK, OnlyTables, Moved, Unused
  <2>3. ASSUME i \notin crossed'[e]
        PROVE  Local(e, i)' /\ ~Waits(e, i)'
    <3>0. i \notin crossed[e]
      BY <1>01, <2>1, <2>3 DEF Moved
    <3>1. Local(e, i) /\ Alone(e, i)
      BY <1>1, <3>0 DEF Local
    <3>2. Alone(e, i)' /\ Place(e, i)' = "selflock"
      BY <1>01, <1>2, <2>1, <2>3, <3>1, Placed
    <3> QED
      BY <1>2, <1>3, <1>9, <3>1, <3>2 DEF Local, Waits
  <2>4. ~Waits(e, i)'
    BY <2>3 DEF Waits
  <2> QED
    BY <1>01, <1>2, <2>1, <2>2, <2>3, <2>4, MovedKeeps
<1> QED
  BY <1>4, <1>8, <1>9

-----------------------------------------------------------------------------
(* The theorems *)

(* No pipe is in use, and nothing is on its way. *)
LEMMA InitIInv == ASSUME Init PROVE IInv
<1>1. \A e \in Ends, th \in Threads : pc[e][th] = Idle
  BY DEF Init, Threads
<1>2. PcInv
  <2>1. Idle.at = "idle" /\ \A th : Fits(th, Idle)
    BY DEF Idle, Fits, Places, Closing
  <2>2. pc = [e \in Ends |-> [th \in Threads |-> pc[e][th]]]
    BY DEF Init, Threads
  <2> QED
    BY <1>1, <2>1, <2>2 DEF PcInv
<1>3. \A e \in Ends : chan[e] = <<>> /\ Len(chan[e]) = 0 /\ 1..Len(chan[e]) = {}
  BY DEF Init
<1>4. \A e \in Ends : \A j : Does(e, "emitter", j) = "free" /\ Does(e, "app", j) = "free"
  BY <1>1 DEF Does, BusyOn, About, Idle, Threads
<1>5. ShapeInv
  BY <1>1, <1>2 DEF ShapeInv, Init, Idle, Threads
<1>6. TypeOK
  <2>1. next \in [Ends -> Nat] /\ \A e \in Ends : OwnParity(e, next[e])
    BY DEF Init, Ends, OwnParity
  <2>2. /\ pipes \in [Ends -> SUBSET Ids] /\ state \in [Ends -> [Ids -> States]]
        /\ refs \in [Ends -> [Ids -> SUBSET {"user", "timer", "emitter"}]]
        /\ link \in [Ends -> {"up", "closing", "down"}]
        /\ opens \in [Ends -> [Ids -> Nat]] /\ closes \in [Ends -> [Ids -> Nat]]
        /\ crossed \in [Ends -> SUBSET Ids] /\ lost \in BOOLEAN
    BY DEF Init, States
  <2>3. \A e \in Ends : \A th \in {"emitter", "app"} : pc[e][th].at = "idle"
    BY <1>1 DEF Threads, Idle
  <2> QED
    BY <1>3, <2>1, <2>2, <2>3 DEF TypeOK, Busy, Threads
<1>7. ASSUME NEW e \in Ends, NEW i \in Ids
      PROVE  /\ Local(e, i) /\ Unused(e, i) /\ ~Waits(e, i)
             /\ \A type : ~Has(chan[e], type, i)
             /\ Once(chan[e], "OPEN_REQ", i) /\ ~Saying(chan[e], i)
  <2>1. Place(e, i) = "free" /\ Alone(e, i)
    BY <1>4 DEF Place, Alone
  <2> QED
    BY <1>3, <1>4, <1>7, <2>1 DEF Init, Local, Unused, Waits, Has, Once, Saying, NotifiesPeer, Closing
<1>8. ASSUME NEW e \in Ends, NEW i \in Ids
      PROVE  Paired(e, i)
  BY <1>7, <1>8, Parity DEF Paired, Unused, WasOpened
<1>9. PipesInv
  BY <1>7, <1>8 DEF PipesInv
<1> QED
  BY <1>5, <1>6, <1>9 DEF IInv, OpenDataNotLost, Init

(* Every step keeps the invariant. *)
LEMMA NextIInv == ASSUME IInv, [Next]_vars PROVE IInv'
<1>1. Keeps => IInv'
  BY Typed DEF Keeps, IInv
<1>2. CASE UNCHANGED vars
  <2>1. UNCHANGED <<next, pipes, state, refs, chan, link, pc, opens, closes, lost, crossed>>
    BY <1>2 DEF vars
  <2>2. TablesOK /\ ShapeInv /\ PipesInv /\ OpenDataNotLost
    BY DEF IInv, TypeOK, TablesOK
  <2>3. (\A x, u, j : Does(x, u, j)' = Does(x, u, j)) /\ PcInv'
    BY <2>1, <2>2, Stays DEF ShapeInv
  <2>4. TablesOK' /\ ShapeInv' /\ OpenDataNotLost'
    <3>1. TablesOK'
      BY <2>1, <2>2, <2>3 DEF TablesOK
    <3>2. ShapeInv'
      BY <2>1, <2>2, <2>3 DEF ShapeInv
    <3> QED
      BY <2>1, <2>2, <2>3, <3>1, <3>2 DEF OpenDataNotLost
  <2>5. PipesInv'
    BY <2>1, <2>2, <2>3, NoPipe, NothingLostYet
  <2> QED
    BY <1>1, <2>4, <2>5 DEF Keeps
<1>3. ASSUME NEW e \in Ends, AppBegins(e) \/ AppContinues(e)
      PROVE  IInv'
  BY <1>1, <1>3, OpenPipeKeeps, ReleaseKeeps, StartClientKeeps, StartServerKeeps, SendKeeps, CloseCallKeeps,
     AcceptKeeps, RespondKeeps
     DEF AppBegins, AppContinues
<1>4. ASSUME NEW e \in Ends, EmitterBegins(e) \/ EmitterContinues(e)
      PROVE  IInv'
  BY <1>1, <1>4, OnOpenReqKeeps, OnOpenRespKeeps, OnClosePacketKeeps, OnDataKeeps, OpenDoneKeeps,
     ClosedByPeerKeeps, LinkCloseCallbackKeeps, LinkCloseEndKeeps
     DEF EmitterBegins, EmitterContinues
<1>5. ASSUME NEW e \in Ends, NEW th \in Threads, CloseContinues(e, th)
      PROVE  IInv'
  BY <1>1, <1>5, CloseEraseKeeps, CloseCheckKeeps, CloseCommitKeeps DEF CloseContinues
<1>6. ASSUME NEW e \in Ends, NEW i \in Ids, OpenExpired(e, i)
      PROVE  IInv'
  BY <1>1, <1>6, OpenExpiredKeeps
<1>7. ASSUME NEW e \in Ends, LinkCloses(e)
      PROVE  IInv'
  BY <1>1, <1>7, LinkClosesKeeps
<1> QED
  BY <1>2, <1>3, <1>4, <1>5, <1>6, <1>7 DEF Next

(* The inductive invariant holds, for any set of ids, any number of packets,  *)
(* whether or not the transport below may close, with an application thread   *)
(* and the emitter thread of each end in any order.                           *)
THEOREM Invariance == Spec => []IInv
<1>1. Init => IInv
  BY InitIInv
<1>2. IInv /\ [Next]_vars => IInv'
  BY NextIInv
<1> QED
  BY <1>1, <1>2, PTL DEF Spec

(* Type correctness; the ends hand out ids of different parity. *)
THEOREM TypesCorrect == Spec => []TypeOK
<1>1. IInv => TypeOK
  BY DEF IInv
<1> QED
  BY <1>1, Invariance, PTL

(* One close callback for each pipe whose two threads were never in it at     *)
(* once, while the transport below is up, whoever closes, whatever expires:   *)
(* what the state says when it is read and when it is written is the same     *)
(* (opt_pipes.cpp close(), on_packet()).                                      *)
THEOREM CloseCallbackOnce == Spec => []ClosedOnce
<1>1. IInv => ClosedOnce
  <2> SUFFICES ASSUME IInv, NEW e \in Ends, NEW i \in Ids \ crossed[e], link[e] = "up" PROVE closes[e][i] <= 1
    BY DEF ClosedOnce
  <2>1. Local(e, i)
    BY DEF IInv, PipesInv
  <2> QED
    BY <2>1 DEF Local
<1> QED
  BY <1>1, Invariance, PTL

(* The map has the pipes that can receive, and no other, for every pipe that  *)
(* no call or handler is in and that its threads were never in at once        *)
(* (opt_pipes.cpp erase(), on_packet(), openPipe()).                          *)
THEOREM RegistryCorrect == Spec => []RegistryExact
<1>1. IInv => RegistryExact
  <2> SUFFICES ASSUME IInv, NEW e \in Ends, NEW i \in Ids \ crossed[e], Settled(e, i)
               PROVE  i \in pipes[e] <=> refs[e][i] # {} /\ state[e][i] # "Closed"
    BY DEF RegistryExact
  <2>1. Local(e, i)
    BY DEF IInv, PipesInv
  <2>2. Place(e, i) = "free"
    BY DEF Settled, Place, Does, Threads
  <2> QED
    BY <2>1, <2>2 DEF Local
<1> QED
  BY <1>1, Invariance, PTL

(* What is sent on an opened pipe is never dropped by a live pipe: when one   *)
(* end is open, or what it sent when it was is on its way, the other end has  *)
(* been opened, and the answer has gone ahead, whatever thread opens, sends   *)
(* and closes; a pipe that its own threads were in at once promises nothing   *)
(* (opt_pipes.cpp start(), on_packet()).                                      *)
THEOREM NothingLost == Spec => []OpenDataNotLost
<1>1. IInv => OpenDataNotLost
  BY DEF IInv
<1> QED
  BY <1>1, Invariance, PTL
==============================================================================
