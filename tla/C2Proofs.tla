------------------------------ MODULE C2Proofs ------------------------------
(***************************************************************************)
(* What holds of C2 for any number of connections, users and pipes.         *)
(***************************************************************************)
EXTENDS C2, TLAPS

Messages == [type : {"RESP", "DATA", "CLOSE"}, pipe : Pipes, half : Halves]

(* What a client sends, and what it is sent. *)
UpMessages == Messages \cup [type : {"REQ"}, pipe : Pipes, to : Users]

DownMessages == Messages \cup [type : {"REQ"}, pipe : Pipes, from : Names \cup {None}]

TypeInv ==
  /\ conn \in [Conns -> {"none", "accepted", "open", "closed"}]
  /\ connections \subseteq Conns /\ closing \subseteq Conns
  /\ lookup \in [Names -> Conns \cup {None}] /\ latest \in [Names -> Conns \cup {None}]
  /\ selfLu \in [Conns -> {"unset", "own", "end"}]
  /\ name \in [Conns -> Names \cup {None}]
  /\ route \in [Pipes -> Routes \cup {None}]
  /\ up \in [Conns -> Seq(UpMessages)] /\ down \in [Conns -> Seq(DownMessages)]
  /\ end \in [Pipes -> [Halves -> PipeStates]]
  /\ server \in {"run", "crashed", "selflock", "dangling"}
  /\ want \in [Pipes -> Requests \cup {None}]
  /\ sent \in [Pipes -> [Halves -> 0..MaxData]] /\ lost \in BOOLEAN

-----------------------------------------------------------------------------
(* The register *)

LoggedIn(c) == conn[c] \in {"open", "closed"}

(* An entry of the register, the iterator to it that its connection keeps,    *)
(* and the fingerprint of that connection refer to each other.                *)
RegisterInv ==
  /\ server # "dangling"
  /\ \A c \in Conns : selfLu[c] = "own" => LoggedIn(c)
  /\ \A u \in Names : latest[u] # None => LoggedIn(latest[u])
  /\ server = "run" =>
       /\ \A u \in Names :
            lookup[u] = IF latest[u] # None /\ conn[latest[u]] = "open" THEN latest[u] ELSE None
       /\ \A u \in Names : lookup[u] # None => selfLu[lookup[u]] = "own" /\ name[lookup[u]] = u
       /\ \A c \in Conns : conn[c] = "open" /\ selfLu[c] = "own" => name[c] \in Names /\ lookup[name[c]] = c

-----------------------------------------------------------------------------
(* The pipes *)

In(m, q) == \E i \in 1..Len(q) : q[i] = m

(* No n in the queue without an m before it. *)
Precedes(m, n, q) == \A i \in 1..Len(q) : q[i] = n => \E j \in 1..Len(q) : j < i /\ q[j] = m

RequestOnce(r, q) ==
  \A i, j \in 1..Len(q) :
    q[i].type = "REQ" /\ q[i].pipe = r /\ q[j].type = "REQ" /\ q[j].pipe = r => i = j

(* The pipe object has been opened, and may have been closed since. *)
Done(s) == s \in {"Opened", "Closed"}

(* A message from client c says what the client, and the server, did before. *)
UpGood(c, m) ==
  LET r == m.pipe
  IN /\ m.type = "REQ" => /\ want[r] # None /\ c = want[r].by /\ m.to = want[r].to
                          /\ end[r]["a"] # "None" /\ route[r] = None
     /\ m.type = "RESP" => m.half = "b" /\ route[r] # None /\ Done(end[r]["b"])
     /\ m.type = "DATA" => route[r] # None /\ (m.half = "a" => Done(route[r].state["a"]))

(* A message to a client says what the server and the other client had done. *)
DownGood(m) ==
  LET r == m.pipe
  IN /\ route[r] # None
     /\ m.type = "RESP" => m.half = "a" /\ Done(end[r]["b"]) /\ Done(route[r].state["a"])
     /\ m.type = "DATA" /\ m.half = "b" => Done(end[r]["b"])

(* A pipe is asked for once, and the answer arrives before what is sent on it. *)
UpQueue(c) ==
  /\ \A m \in UpMessages : In(m, up[c]) => UpGood(c, m)
  /\ \A r \in Pipes : RequestOnce(r, up[c])
  /\ \A r \in Pipes : route[r] # None =>
       \/ Done(route[r].state["b"])
       \/ Precedes(Packet("RESP", r, "b"), Packet("DATA", r, "b"), up[c])

DownQueue(c) ==
  /\ \A m \in DownMessages : In(m, down[c]) => DownGood(m)
  /\ \A r \in Pipes :
       \/ Done(end[r]["a"])
       \/ Precedes(Packet("RESP", r, "a"), Packet("DATA", r, "a"), down[c])

(* The halves of a route open and close together. *)
Joined(s) == \/ s["a"] = "OpenRequstRecv" /\ s["b"] = "OpenRequstSent"
             \/ s["a"] = "Opened" /\ s["b"] = "Opened"
             \/ s["a"] = "Closed" /\ s["b"] = "Closed"

RouteGood(r) ==
  LET c == route[r].conn
      s == route[r].state
  IN /\ want[r] # None /\ end[r]["a"] # "None"
     /\ c["a"] = want[r].by /\ name[c["b"]] = want[r].to
     /\ \A h \in Halves : LoggedIn(c[h])
     /\ \A h \in Halves : s[h] = "Opened" => Done(end[r]["b"])
     /\ s["b"] = "Opened" => \/ Done(end[r]["a"])
                             \/ In(Packet("RESP", r, "a"), down[c["a"]])
                             \/ conn[c["a"]] = "closed"
     /\ server = "run" => Joined(s)

RouteInv == \A r \in Pipes : route[r] # None => RouteGood(r)

(* A client has opened its half because of what the server did, or is told. *)
EndGood(r) ==
  /\ end[r]["a"] \in {"None", "OpenRequstSent", "Opened", "Closed"}
  /\ end[r]["b"] \in {"None", "Opened", "Closed"}
  /\ end[r]["a"] = "None" <=> want[r] = None
  /\ end[r]["a"] = "Opened" => /\ route[r] # None
                               /\ Done(route[r].state["a"]) /\ Done(end[r]["b"])
  /\ end[r]["b"] = "Opened" => /\ route[r] # None
                               /\ \/ Done(route[r].state["b"])
                                  \/ In(Packet("RESP", r, "b"), up[route[r].conn["b"]])

EndInv == \A r \in Pipes : EndGood(r)

IInv == /\ TypeInv
        /\ RegisterInv
        /\ \A c \in Conns : UpQueue(c) /\ DownQueue(c)
        /\ RouteInv
        /\ EndInv
        /\ ~lost

-----------------------------------------------------------------------------
(* Queues *)

LEMMA TailQueue ==
  ASSUME NEW S, NEW q \in Seq(S), q # <<>>
  PROVE  /\ Tail(q) \in Seq(S) /\ Head(q) \in S /\ In(Head(q), q)
         /\ \A m : In(m, Tail(q)) => In(m, q)
         /\ \A m : In(m, q) => m = Head(q) \/ In(m, Tail(q))
         /\ \A m, n : Precedes(m, n, q) => Head(q) # n \/ m = n
         /\ \A m, n : Precedes(m, n, q) /\ Head(q) # m => Precedes(m, n, Tail(q))
         /\ \A r : RequestOnce(r, q) => RequestOnce(r, Tail(q))
         /\ \A r : RequestOnce(r, q) /\ Head(q).type = "REQ" /\ Head(q).pipe = r =>
              \A m : In(m, Tail(q)) => ~(m.type = "REQ" /\ m.pipe = r)
<1>1. /\ Tail(q) \in Seq(S) /\ Head(q) \in S /\ Head(q) = q[1]
      /\ Len(q) \in Nat /\ 1 \in 1..Len(q) /\ Len(Tail(q)) = Len(q) - 1
      /\ \A i \in 1..Len(Tail(q)) : i + 1 \in 1..Len(q) /\ Tail(q)[i] = q[i + 1] /\ i + 1 # 1
  OBVIOUS
<1>2. \A m : In(m, Tail(q)) => In(m, q)
  BY <1>1 DEF In
<1>3. In(Head(q), q)
  BY <1>1 DEF In
<1>4. \A m, n : Precedes(m, n, q) => Head(q) # n \/ m = n
  <2>1. \A j \in 1..Len(q) : ~(j < 1)
    BY <1>1
  <2> QED
    BY <1>1, <2>1 DEF Precedes
<1>5. ASSUME NEW m, NEW n, Precedes(m, n, q), Head(q) # m
      PROVE  Precedes(m, n, Tail(q))
  <2> SUFFICES ASSUME NEW i \in 1..Len(Tail(q)), Tail(q)[i] = n
               PROVE  \E j \in 1..Len(Tail(q)) : j < i /\ Tail(q)[j] = m
    BY DEF Precedes
  <2>1. PICK j \in 1..Len(q) : j < i + 1 /\ q[j] = m
    BY <1>1, <1>5 DEF Precedes
  <2>2. j # 1
    BY <1>1, <1>5, <2>1
  <2>3. j - 1 \in 1..Len(Tail(q)) /\ j - 1 < i /\ (j - 1) + 1 = j
    BY <1>1, <2>1, <2>2
  <2>4. Tail(q)[j - 1] = m
    BY <1>1, <2>1, <2>3
  <2> QED
    BY <2>3, <2>4
<1>6. \A r : RequestOnce(r, q) => RequestOnce(r, Tail(q))
  <2>1. \A i, j \in 1..Len(Tail(q)) : i + 1 = j + 1 => i = j
    BY <1>1
  <2> QED
    BY <1>1, <2>1 DEF RequestOnce
<1>7. ASSUME NEW m, In(m, q)
      PROVE  m = Head(q) \/ In(m, Tail(q))
  <2>1. PICK i \in 1..Len(q) : q[i] = m
    BY <1>7 DEF In
  <2>2. CASE i # 1
    <3>1. i - 1 \in 1..Len(Tail(q)) /\ (i - 1) + 1 = i
      BY <1>1, <2>2
    <3> QED
      BY <1>1, <2>1, <3>1 DEF In
  <2> QED
    BY <1>1, <2>1, <2>2
<1>8. \A r : RequestOnce(r, q) /\ Head(q).type = "REQ" /\ Head(q).pipe = r =>
        \A m : In(m, Tail(q)) => ~(m.type = "REQ" /\ m.pipe = r)
  BY <1>1 DEF RequestOnce, In
<1> QED
  BY <1>1, <1>2, <1>3, <1>4, <1>5, <1>6, <1>7, <1>8

LEMMA ConcatQueue ==
  ASSUME NEW S, NEW q \in Seq(S), NEW s \in Seq(S)
  PROVE  /\ q \o s \in Seq(S)
         /\ \A m : In(m, q \o s) <=> In(m, q) \/ In(m, s)
         /\ \A m, n : Precedes(m, n, q) /\ (In(n, s) => In(m, q)) => Precedes(m, n, q \o s)
<1> DEFINE t == q \o s
<1>1. /\ t \in Seq(S) /\ Len(q) \in Nat /\ Len(s) \in Nat /\ Len(t) = Len(q) + Len(s)
      /\ \A i \in 1..Len(q) : i \in 1..Len(t) /\ t[i] = q[i]
      /\ \A i \in 1..Len(s) : Len(q) + i \in 1..Len(t) /\ t[Len(q) + i] = s[i]
  OBVIOUS
<1> HIDE DEF t
<1>2. \A i \in 1..Len(t) : i \in 1..Len(q) \/ (i - Len(q) \in 1..Len(s) /\ Len(q) + (i - Len(q)) = i)
  BY <1>1
<1>3. ASSUME NEW m
      PROVE  In(m, t) <=> In(m, q) \/ In(m, s)
  <2>1. In(m, q) \/ In(m, s) => In(m, t)
    BY <1>1 DEF In
  <2>2. ASSUME NEW i \in 1..Len(t), t[i] = m
        PROVE  In(m, q) \/ In(m, s)
    <3>1. CASE i \in 1..Len(q)
      BY <1>1, <2>2, <3>1 DEF In
    <3>2. CASE i \notin 1..Len(q)
      <4>1. i - Len(q) \in 1..Len(s) /\ t[Len(q) + (i - Len(q))] = m
        BY <1>2, <2>2, <3>2
      <4> QED
        BY <1>1, <4>1 DEF In
    <3> QED
      BY <3>1, <3>2
  <2> QED
    BY <2>1, <2>2 DEF In
<1>4. ASSUME NEW m, NEW n, Precedes(m, n, q), In(n, s) => In(m, q)
      PROVE  Precedes(m, n, t)
  <2> SUFFICES ASSUME NEW i \in 1..Len(t), t[i] = n
               PROVE  \E j \in 1..Len(t) : j < i /\ t[j] = m
    BY DEF Precedes
  <2>1. CASE i \in 1..Len(q)
    BY <1>1, <1>4, <2>1 DEF Precedes
  <2>2. CASE i \notin 1..Len(q)
    <3>1. In(n, s)
      BY <1>1, <1>2, <2>2 DEF In
    <3>2. PICK j \in 1..Len(q) : q[j] = m
      BY <1>4, <3>1 DEF In
    <3>3. j < i
      BY <1>1, <2>2
    <3> QED
      BY <1>1, <3>2, <3>3
  <2> QED
    BY <2>1, <2>2
<1> QED
  BY <1>1, <1>3, <1>4 DEF t

LEMMA AppendQueue ==
  ASSUME NEW S, NEW q \in Seq(S), NEW x \in S
  PROVE  /\ Append(q, x) \in Seq(S)
         /\ \A m : In(m, Append(q, x)) <=> In(m, q) \/ m = x
         /\ \A m, n : Precedes(m, n, q) /\ (n = x => In(m, q)) => Precedes(m, n, Append(q, x))
         /\ \A r : RequestOnce(r, q) /\ (x.type = "REQ" /\ x.pipe = r =>
                      \A m : In(m, q) => ~(m.type = "REQ" /\ m.pipe = r)) =>
              RequestOnce(r, Append(q, x))
<1> DEFINE t == Append(q, x)
<1>1. /\ t \in Seq(S) /\ Len(q) \in Nat /\ Len(t) = Len(q) + 1 /\ t[Len(q) + 1] = x
      /\ \A i \in 1..Len(q) : i \in 1..Len(t) /\ t[i] = q[i] /\ i < Len(q) + 1
      /\ Len(q) + 1 \in 1..Len(t)
  OBVIOUS
<1> HIDE DEF t
<1>2. \A i \in 1..Len(t) : i \in 1..Len(q) \/ i = Len(q) + 1
  BY <1>1
<1>3. \A m : In(m, t) <=> In(m, q) \/ m = x
  BY <1>1, <1>2 DEF In
<1>4. \A m, n : Precedes(m, n, q) /\ (n = x => In(m, q)) => Precedes(m, n, t)
  BY <1>1, <1>2 DEF Precedes, In
<1>5. ASSUME NEW r, RequestOnce(r, q), 
             x.type = "REQ" /\ x.pipe = r => \A m : In(m, q) => ~(m.type = "REQ" /\ m.pipe = r)
      PROVE  RequestOnce(r, t)
  <2> SUFFICES ASSUME NEW i \in 1..Len(t), NEW j \in 1..Len(t),
                      t[i].type = "REQ" /\ t[i].pipe = r /\ t[j].type = "REQ" /\ t[j].pipe = r
               PROVE  i = j
    BY DEF RequestOnce
  <2>1. \A k \in 1..Len(q) : In(q[k], q)
    BY DEF In
  <2> QED
    BY <1>1, <1>2, <1>5, <2>1 DEF RequestOnce
<1> QED
  BY <1>1, <1>3, <1>4, <1>5 DEF t

LEMMA EmptyQueue ==
  /\ \A m : ~In(m, <<>>)
  /\ \A r : RequestOnce(r, <<>>)
  /\ \A m, n, q : ~In(n, q) => Precedes(m, n, q)
<1>1. \A i \in 1..Len(<<>>) : FALSE
  OBVIOUS
<1> QED
  BY <1>1 DEF In, Precedes, RequestOnce

-----------------------------------------------------------------------------
(* What a step does not undo *)

Advance ==
  /\ \A r \in Pipes : want[r] # None => want'[r] = want[r]
  /\ \A r \in Pipes : end[r]["a"] # "None" => end'[r]["a"] # "None"
  /\ \A r \in Pipes : \A h \in Halves : Done(end[r][h]) => Done(end'[r][h])
  /\ \A r \in Pipes : route[r] # None =>
       /\ route'[r] # None /\ route'[r].conn = route[r].conn
       /\ \A h \in Halves : Done(route[r].state[h]) => Done(route'[r].state[h])
  /\ \A c \in Conns : conn[c] = "closed" => conn'[c] = "closed"
  /\ \A c \in Conns : LoggedIn(c) => LoggedIn(c)' /\ name'[c] = name[c]

LEMMA MessageFacts ==
  /\ \A m \in UpMessages : m.pipe \in Pipes
  /\ \A m \in DownMessages : m.pipe \in Pipes
  /\ \A r \in Pipes : \A h \in Halves : \A type \in {"RESP", "DATA", "CLOSE"} :
       /\ Packet(type, r, h) \in Messages
       /\ Packet(type, r, h) \in UpMessages /\ Packet(type, r, h) \in DownMessages
  /\ \A type, r, h : Packet(type, r, h).type = type /\ Packet(type, r, h).pipe = r
                     /\ Packet(type, r, h).half = h
  /\ \A m \in UpMessages \cup DownMessages : m.type # "REQ" =>
       m.half \in Halves /\ m = Packet(m.type, m.pipe, m.half) /\ m.type \in {"RESP", "DATA", "CLOSE"}
  /\ \A m \in UpMessages : m.type = "REQ" => m.to \in Users
  /\ "a" \in Halves /\ "b" \in Halves
BY DEF UpMessages, DownMessages, Messages, Packet, Halves

LEMMA UpGoodStays ==
  ASSUME Advance, NEW c, NEW m \in UpMessages, UpGood(c, m),
         m.type = "REQ" => route'[m.pipe] = None
  PROVE  UpGood(c, m)'
BY MessageFacts DEF Advance, UpGood

LEMMA DownGoodStays ==
  ASSUME Advance, NEW m \in DownMessages, DownGood(m)
  PROVE  DownGood(m)'
BY MessageFacts DEF Advance, DownGood

LEMMA QueueTypes ==
  ASSUME TypeInv, NEW c \in Conns
  PROVE  up[c] \in Seq(UpMessages) /\ down[c] \in Seq(DownMessages)
BY DEF TypeInv

LEMMA UpUntouched ==
  ASSUME TypeInv, Advance, NEW c \in Conns, UpQueue(c), up'[c] = up[c],
         \A r \in Pipes : route[r] = None =>
           \/ route'[r] = None
           \/ \A m \in UpMessages : In(m, up[c]) => ~(m.type = "REQ" /\ m.pipe = r)
  PROVE  UpQueue(c)'
<1>1. ASSUME NEW m \in UpMessages, In(m, up'[c])
      PROVE  UpGood(c, m)'
  <2>1. UpGood(c, m) /\ (m.type = "REQ" => route'[m.pipe] = None)
    BY <1>1, MessageFacts DEF UpQueue, UpGood
  <2> QED
    BY <2>1, UpGoodStays
<1>2. ASSUME NEW r \in Pipes, route'[r] # None
      PROVE  \/ Done(route'[r].state["b"])
             \/ Precedes(Packet("RESP", r, "b"), Packet("DATA", r, "b"), up'[c])
  <2>1. CASE route[r] # None
    BY <2>1, MessageFacts DEF UpQueue, Advance
  <2>2. CASE route[r] = None
    <3>1. ~In(Packet("DATA", r, "b"), up[c])
      BY <2>2, MessageFacts DEF UpQueue, UpGood
    <3> QED
      BY <3>1, EmptyQueue
  <2> QED
    BY <2>1, <2>2
<1> QED
  BY <1>1, <1>2 DEF UpQueue

(* The server takes the next message of a client. *)
LEMMA UpTaken ==
  ASSUME TypeInv, Advance, NEW c \in Conns, UpQueue(c), up[c] # <<>>, up'[c] = Tail(up[c]),
         \A r \in Pipes : Head(up[c]) = Packet("RESP", r, "b") => Done(route'[r].state["b"]),
         \A r \in Pipes : route[r] = None =>
           route'[r] = None \/ (Head(up[c]).type = "REQ" /\ Head(up[c]).pipe = r)
  PROVE  UpQueue(c)'
<1>1. /\ \A m : In(m, Tail(up[c])) => In(m, up[c])
      /\ \A m, n : Precedes(m, n, up[c]) /\ Head(up[c]) # m => Precedes(m, n, Tail(up[c]))
      /\ \A r : RequestOnce(r, up[c]) => RequestOnce(r, Tail(up[c]))
      /\ \A r : RequestOnce(r, up[c]) /\ Head(up[c]).type = "REQ" /\ Head(up[c]).pipe = r =>
           \A m : In(m, Tail(up[c])) => ~(m.type = "REQ" /\ m.pipe = r)
  BY QueueTypes, TailQueue
<1>2. ASSUME NEW m \in UpMessages, In(m, up'[c])
      PROVE  UpGood(c, m)'
  <2>1. UpGood(c, m)
    BY <1>1, <1>2 DEF UpQueue
  <2>2. m.type = "REQ" => route'[m.pipe] = None
    BY <1>1, <1>2, <2>1, MessageFacts DEF UpQueue, UpGood
  <2> QED
    BY <2>1, <2>2, UpGoodStays
<1>3. ASSUME NEW r \in Pipes, route'[r] # None
      PROVE  \/ Done(route'[r].state["b"])
             \/ Precedes(Packet("RESP", r, "b"), Packet("DATA", r, "b"), up'[c])
  <2>1. CASE route[r] # None
    BY <1>1, <2>1, MessageFacts DEF UpQueue, Advance
  <2>2. CASE route[r] = None
    <3>1. ~In(Packet("DATA", r, "b"), up'[c])
      BY <1>1, <2>2, MessageFacts DEF UpQueue, UpGood
    <3> QED
      BY <3>1, EmptyQueue
  <2> QED
    BY <2>1, <2>2
<1>4. \A r \in Pipes : RequestOnce(r, up'[c])
  BY <1>1 DEF UpQueue
<1> QED
  BY <1>2, <1>3, <1>4 DEF UpQueue

(* A client sends a message. *)
LEMMA UpAdded ==
  ASSUME TypeInv, Advance, NEW c \in Conns, UpQueue(c), NEW m \in UpMessages,
         up'[c] = Append(up[c], m), UpGood(c, m)', UNCHANGED route,
         m.type = "REQ" =>
           \A n \in UpMessages : In(n, up[c]) => ~(n.type = "REQ" /\ n.pipe = m.pipe),
         \A r \in Pipes : m = Packet("DATA", r, "b") =>
           Done(route[r].state["b"]) \/ In(Packet("RESP", r, "b"), up[c])
  PROVE  UpQueue(c)'
<1> DEFINE q == Append(up[c], m)
<1>1. /\ \A n : In(n, q) <=> In(n, up[c]) \/ n = m
      /\ \A k, n : Precedes(k, n, up[c]) /\ (n = m => In(k, up[c])) => Precedes(k, n, q)
      /\ \A r : RequestOnce(r, up[c]) /\ (m.type = "REQ" /\ m.pipe = r =>
                   \A n : In(n, up[c]) => ~(n.type = "REQ" /\ n.pipe = r)) => RequestOnce(r, q)
  BY QueueTypes, AppendQueue
<1>2. up'[c] = q /\ \A n : In(n, up[c]) => n \in UpMessages
  BY QueueTypes DEF In
<1> HIDE DEF q
<1>3. ASSUME NEW n \in UpMessages, In(n, q)
      PROVE  UpGood(c, n)'
  <2>1. CASE n = m
    BY <2>1
  <2>2. CASE In(n, up[c])
    <3>1. UpGood(c, n)
      BY <2>2 DEF UpQueue
    <3>2. n.type = "REQ" => route'[n.pipe] = None
      BY <3>1 DEF UpGood
    <3> QED
      BY <3>1, <3>2, UpGoodStays
  <2> QED
    BY <1>1, <1>3, <2>1, <2>2
<1>4. \A r \in Pipes : RequestOnce(r, q)
  BY <1>1, <1>2 DEF UpQueue
<1>5. \A r \in Pipes : route'[r] # None =>
        \/ Done(route'[r].state["b"])
        \/ Precedes(Packet("RESP", r, "b"), Packet("DATA", r, "b"), q)
  BY <1>1 DEF UpQueue
<1> QED
  BY <1>2, <1>3, <1>4, <1>5 DEF UpQueue

LEMMA DownUntouched ==
  ASSUME Advance, NEW c \in Conns, DownQueue(c), down'[c] = down[c]
  PROVE  DownQueue(c)'
<1>1. \A m \in DownMessages : In(m, down'[c]) => DownGood(m)'
  BY DownGoodStays DEF DownQueue
<1>2. \A r \in Pipes : \/ Done(end'[r]["a"])
                       \/ Precedes(Packet("RESP", r, "a"), Packet("DATA", r, "a"), down'[c])
  BY MessageFacts DEF DownQueue, Advance
<1> QED
  BY <1>1, <1>2 DEF DownQueue

(* A client takes its next message. *)
LEMMA DownTaken ==
  ASSUME TypeInv, Advance, NEW c \in Conns, DownQueue(c), down[c] # <<>>, down'[c] = Tail(down[c]),
         \A r \in Pipes : Head(down[c]) = Packet("RESP", r, "a") => Done(end'[r]["a"])
  PROVE  DownQueue(c)'
<1>1. /\ \A m : In(m, Tail(down[c])) => In(m, down[c])
      /\ \A m, n : Precedes(m, n, down[c]) /\ Head(down[c]) # m => Precedes(m, n, Tail(down[c]))
  BY QueueTypes, TailQueue
<1>2. \A m \in DownMessages : In(m, down'[c]) => DownGood(m)'
  BY <1>1, DownGoodStays DEF DownQueue
<1>3. \A r \in Pipes : \/ Done(end'[r]["a"])
                       \/ Precedes(Packet("RESP", r, "a"), Packet("DATA", r, "a"), down'[c])
  BY <1>1, MessageFacts DEF DownQueue, Advance
<1> QED
  BY <1>2, <1>3 DEF DownQueue

(* The server sends messages. *)
LEMMA DownAdded ==
  ASSUME TypeInv, Advance, NEW c \in Conns, DownQueue(c),
         NEW s \in Seq(DownMessages), down'[c] = down[c] \o s,
         \A m \in DownMessages : In(m, s) => DownGood(m)',
         \A r \in Pipes : In(Packet("DATA", r, "a"), s) =>
           Done(end[r]["a"]) \/ In(Packet("RESP", r, "a"), down[c])
  PROVE  DownQueue(c)' /\ \A m : In(m, down'[c]) <=> In(m, down[c]) \/ In(m, s)
<1> DEFINE q == down[c] \o s
<1>1. /\ \A m : In(m, q) <=> In(m, down[c]) \/ In(m, s)
      /\ \A m, n : Precedes(m, n, down[c]) /\ (In(n, s) => In(m, down[c])) => Precedes(m, n, q)
  BY QueueTypes, ConcatQueue
<1> HIDE DEF q
<1>2. down'[c] = q
  BY DEF q
<1>3. \A m \in DownMessages : In(m, q) => DownGood(m)'
  BY <1>1, DownGoodStays DEF DownQueue
<1>4. \A r \in Pipes : \/ Done(end'[r]["a"])
                       \/ Precedes(Packet("RESP", r, "a"), Packet("DATA", r, "a"), q)
  BY <1>1, MessageFacts DEF DownQueue, Advance
<1> QED
  BY <1>1, <1>2, <1>3, <1>4 DEF DownQueue

(* The server sends one message. *)
LEMMA SentOne ==
  ASSUME TypeInv, Advance, \A c \in Conns : DownQueue(c),
         NEW d \in Conns, NEW m \in DownMessages, down' = Sent(d, <<m>>), DownGood(m)',
         \A r \in Pipes : m = Packet("DATA", r, "a") =>
           Done(end[r]["a"]) \/ In(Packet("RESP", r, "a"), down[d]) \/ conn[d] = "closed"
  PROVE  /\ down' \in [Conns -> Seq(DownMessages)]
         /\ \A c \in Conns : DownQueue(c)'
         /\ \A c \in Conns : \A n : In(n, down[c]) => In(n, down'[c])
         /\ conn[d] # "closed" => In(m, down'[d])
<1>1. <<m>> \in Seq(DownMessages) /\ \A n : In(n, <<m>>) <=> n = m
  <2>1. \A i \in 1..Len(<<m>>) : i = 1
    OBVIOUS
  <2>2. 1 \in 1..Len(<<m>>) /\ <<m>>[1] = m
    OBVIOUS
  <2> QED
    BY <2>1, <2>2 DEF In
<1>2. \A c \in Conns : down'[c] = IF c = d /\ conn[d] # "closed" THEN down[c] \o <<m>> ELSE down[c]
  BY DEF Sent, TypeInv
<1>3. down' \in [Conns -> Seq(DownMessages)]
  <2>1. down[d] \o <<m>> \in Seq(DownMessages)
    BY <1>1, QueueTypes, ConcatQueue
  <2>2. down \in [Conns -> Seq(DownMessages)]
    BY DEF TypeInv
  <2> QED
    BY <2>1, <2>2 DEF Sent
<1>4. ASSUME NEW c \in Conns
      PROVE  /\ DownQueue(c)'
             /\ \A n : In(n, down[c]) => In(n, down'[c])
             /\ c = d /\ conn[d] # "closed" => In(m, down'[d])
  <2>1. CASE c = d /\ conn[d] # "closed"
    <3>1. /\ down'[c] = down[c] \o <<m>>
          /\ \A n \in DownMessages : In(n, <<m>>) => DownGood(n)'
          /\ \A r \in Pipes : In(Packet("DATA", r, "a"), <<m>>) =>
               Done(end[r]["a"]) \/ In(Packet("RESP", r, "a"), down[c])
      BY <1>1, <1>2, <2>1
    <3>2. DownQueue(c)' /\ \A n : In(n, down'[c]) <=> In(n, down[c]) \/ In(n, <<m>>)
      BY <1>1, <3>1, DownAdded
    <3> QED
      BY <1>1, <2>1, <3>2
  <2>2. CASE ~(c = d /\ conn[d] # "closed")
    <3>1. down'[c] = down[c]
      BY <1>2, <2>2
    <3> QED
      BY <2>2, <3>1, DownUntouched
  <2> QED
    BY <2>1, <2>2
<1> QED
  BY <1>3, <1>4

(* The server closes the halves of a route. *)
LEMMA ClosesSent ==
  ASSUME TypeInv, Advance, \A c \in Conns : DownQueue(c),
         NEW r \in Pipes, route[r] # None, NEW h \in Halves, NEW tell \in BOOLEAN, HalfCloses(r, h, tell)
  PROVE  /\ down' \in [Conns -> Seq(DownMessages)]
         /\ \A c \in Conns : DownQueue(c)'
         /\ \A c \in Conns : \A n : In(n, down[c]) => In(n, down'[c])
<1> DEFINE q == Other(h)
           told == [k \in Halves |-> IF k = h THEN tell ELSE route[r].state[q] # "Closed"]
           M(c, k) == IF told[k] /\ route[r].conn[k] = c THEN <<Packet("CLOSE", r, k)>> ELSE <<>>
<1>1. h \in Halves /\ q \in Halves
  BY DEF Other, Halves
<1>2. \A c \in Conns : down'[c] = IF conn[c] = "closed" THEN down[c] ELSE down[c] \o (M(c, h) \o M(c, q))
  BY <1>1 DEF HalfCloses, Sent, TypeInv
<1>3. ASSUME NEW c, NEW k \in Halves
      PROVE  /\ M(c, k) \in Seq(DownMessages)
             /\ \A m : In(m, M(c, k)) => m.type = "CLOSE" /\ m.pipe = r
  <2>1. Packet("CLOSE", r, k) \in DownMessages
    BY MessageFacts
  <2>2. M(c, k) \in {<<>>, <<Packet("CLOSE", r, k)>>}
    OBVIOUS
  <2> HIDE DEF M
  <2>3. M(c, k) \in Seq(DownMessages)
    <3>1. \A m \in DownMessages : <<m>> \in Seq(DownMessages)
      OBVIOUS
    <3>2. <<>> \in Seq(DownMessages)
      OBVIOUS
    <3> QED
      BY <2>1, <2>2, <3>1, <3>2
  <2>4. \A m : In(m, <<Packet("CLOSE", r, k)>>) => m = Packet("CLOSE", r, k)
    <3>1. \A i \in 1..Len(<<Packet("CLOSE", r, k)>>) : <<Packet("CLOSE", r, k)>>[i] = Packet("CLOSE", r, k)
      OBVIOUS
    <3> QED
      BY <3>1 DEF In
  <2> QED
    BY <2>2, <2>3, <2>4, EmptyQueue, MessageFacts
<1> HIDE DEF M, q
<1>4. ASSUME NEW c \in Conns
      PROVE  /\ down'[c] \in Seq(DownMessages) /\ DownQueue(c)'
             /\ \A n : In(n, down[c]) => In(n, down'[c])
  <2> DEFINE s == M(c, h) \o M(c, q)
  <2>1. s \in Seq(DownMessages) /\ \A m : In(m, s) => m.type = "CLOSE" /\ m.pipe = r
    BY <1>1, <1>3, ConcatQueue
  <2> HIDE DEF s
  <2>2. CASE conn[c] = "closed"
    <3>1. down'[c] = down[c]
      BY <1>2, <2>2
    <3> QED
      BY <3>1, DownUntouched, QueueTypes
  <2>3. CASE conn[c] # "closed"
    <3>1. down'[c] = down[c] \o s
      BY <1>2, <2>3 DEF s
    <3>2. \A m \in DownMessages : In(m, s) => DownGood(m)'
      BY <2>1 DEF DownGood, Advance
    <3>3. \A k \in Pipes : ~In(Packet("DATA", k, "a"), s)
      BY <2>1, MessageFacts
    <3>4. DownQueue(c)' /\ \A n : In(n, down'[c]) <=> In(n, down[c]) \/ In(n, s)
      BY <2>1, <3>1, <3>2, <3>3, DownAdded
    <3>5. down'[c] \in Seq(DownMessages)
      BY <2>1, <3>1, QueueTypes, ConcatQueue
    <3> QED
      BY <3>4, <3>5
  <2> QED
    BY <2>2, <2>3
<1>5. down' \in [Conns -> Seq(DownMessages)]
  BY <1>4 DEF HalfCloses
<1> QED
  BY <1>4, <1>5

(* A route that does not open in the step. *)
LEMMA RouteKept ==
  ASSUME TypeInv, Advance, NEW r \in Pipes, route[r] # None, RouteGood(r),
         \A h \in Halves : route'[r].state[h] = "Opened" => route[r].state[h] = "Opened",
         In(Packet("RESP", r, "a"), down[route[r].conn["a"]]) =>
           In(Packet("RESP", r, "a"), down'[route[r].conn["a"]]) \/ Done(end'[r]["a"]),
         server' = "run" => Joined(route'[r].state)
  PROVE  RouteGood(r)'
<1>1. \A h \in Halves : route[r].conn[h] \in Conns
  BY DEF TypeInv, Routes
<1>2. "a" \in Halves /\ "b" \in Halves
  BY DEF Halves
<1> QED
  BY <1>1, <1>2 DEF RouteGood, Advance

LEMMA RoutesUntouched ==
  ASSUME TypeInv, Advance, RouteInv, UNCHANGED route, server' = "run" => server = "run",
         \A r \in Pipes : route[r] # None => 
           (In(Packet("RESP", r, "a"), down[route[r].conn["a"]]) =>
             In(Packet("RESP", r, "a"), down'[route[r].conn["a"]]) \/ Done(end'[r]["a"]))
  PROVE  RouteInv'
<1> SUFFICES ASSUME NEW r \in Pipes, route'[r] # None
             PROVE  RouteGood(r)'
  BY DEF RouteInv
<1>1. route[r] # None /\ RouteGood(r) /\ route'[r] = route[r]
  BY DEF RouteInv
<1>2. server' = "run" => Joined(route'[r].state)
  BY <1>1 DEF RouteGood
<1> QED
  BY <1>1, <1>2, RouteKept

(* The ends of a pipe of which the clients do nothing in the step. *)
LEMMA EndKept ==
  ASSUME TypeInv, Advance, NEW r \in Pipes, EndGood(r),
         end'[r] = end[r], want'[r] = want[r],
         route[r] # None /\ In(Packet("RESP", r, "b"), up[route[r].conn["b"]]) =>
           In(Packet("RESP", r, "b"), up'[route[r].conn["b"]]) \/ Done(route'[r].state["b"])
  PROVE  EndGood(r)'
<1>1. "a" \in Halves /\ "b" \in Halves
  BY DEF Halves
<1> QED
  BY <1>1 DEF EndGood, Advance

LEMMA RegisterUntouched ==
  ASSUME RegisterInv, UNCHANGED <<conn, lookup, selfLu, name, latest, server>>
  PROVE  RegisterInv'
BY DEF RegisterInv, LoggedIn

-----------------------------------------------------------------------------
(* What a step does to all queues *)

LEMMA PipesUntouched ==
  ASSUME TypeInv, Advance, \A c \in Conns : UpQueue(c) /\ DownQueue(c), RouteInv, EndInv,
         UNCHANGED <<up, down, route, end, want>>, server' = "run" => server = "run"
  PROVE  (\A c \in Conns : UpQueue(c)' /\ DownQueue(c)') /\ RouteInv' /\ EndInv'
<1>1. \A c \in Conns : UpQueue(c)' /\ DownQueue(c)'
  BY UpUntouched, DownUntouched
<1>2. RouteInv'
  BY RoutesUntouched
<1>3. EndInv'
  BY EndKept DEF EndInv
<1> QED
  BY <1>1, <1>2, <1>3

(* The server takes the next message of c. *)
LEMMA ServerTook ==
  ASSUME TypeInv, Advance, \A d \in Conns : UpQueue(d), NEW c \in Conns, NEW type, Takes(c, type),
         \A r \in Pipes : Head(up[c]) = Packet("RESP", r, "b") => Done(route'[r].state["b"]),
         \A r \in Pipes : route[r] = None =>
           route'[r] = None \/ (Head(up[c]).type = "REQ" /\ Head(up[c]).pipe = r)
  PROVE  /\ up' \in [Conns -> Seq(UpMessages)]
         /\ \A d \in Conns : UpQueue(d)'
         /\ \A d \in Conns : \A n : In(n, up[d]) => In(n, up'[d]) \/ n = Head(up[c])
<1>1. /\ up[c] \in Seq(UpMessages) /\ up[c] # <<>> /\ Tail(up[c]) \in Seq(UpMessages)
      /\ Head(up[c]) \in UpMessages /\ In(Head(up[c]), up[c])
      /\ \A m : In(m, up[c]) => m = Head(up[c]) \/ In(m, Tail(up[c]))
  BY QueueTypes, TailQueue DEF Takes
<1>2. up' \in [Conns -> Seq(UpMessages)] /\ up'[c] = Tail(up[c]) /\ \A d \in Conns \ {c} : up'[d] = up[d]
  BY <1>1 DEF Takes, TypeInv
<1>3. UpQueue(c)'
  BY <1>1, <1>2, UpTaken
<1>4. ASSUME NEW d \in Conns \ {c}
      PROVE  UpQueue(d)'
  <2>1. \A r \in Pipes : route[r] = None /\ route'[r] # None =>
          \A m \in UpMessages : In(m, up[d]) => ~(m.type = "REQ" /\ m.pipe = r)
    BY <1>1 DEF UpQueue, UpGood
  <2> QED
    BY <1>2, <2>1, UpUntouched
<1> QED
  BY <1>1, <1>2, <1>3, <1>4

(* The client at c sends a message. *)
LEMMA ClientSaid ==
  ASSUME TypeInv, Advance, \A d \in Conns : UpQueue(d), NEW c \in Conns, NEW m \in UpMessages,
         up' = [up EXCEPT ![c] = Append(@, m)], UpGood(c, m)', UNCHANGED route,
         m.type = "REQ" =>
           \A n \in UpMessages : In(n, up[c]) => ~(n.type = "REQ" /\ n.pipe = m.pipe),
         \A r \in Pipes : m = Packet("DATA", r, "b") =>
           Done(route[r].state["b"]) \/ In(Packet("RESP", r, "b"), up[c])
  PROVE  /\ up' \in [Conns -> Seq(UpMessages)]
         /\ \A d \in Conns : UpQueue(d)'
         /\ \A d \in Conns : \A n : In(n, up[d]) => In(n, up'[d])
         /\ In(m, up'[c])
<1>1. Append(up[c], m) \in Seq(UpMessages) /\ \A n : In(n, Append(up[c], m)) <=> In(n, up[c]) \/ n = m
  BY QueueTypes, AppendQueue
<1>2. /\ up' \in [Conns -> Seq(UpMessages)]
      /\ up'[c] = Append(up[c], m) /\ \A d \in Conns \ {c} : up'[d] = up[d]
  BY <1>1 DEF TypeInv
<1>3. UpQueue(c)'
  BY <1>2, UpAdded
<1>4. \A d \in Conns \ {c} : UpQueue(d)'
  BY <1>2, UpUntouched
<1> QED
  BY <1>1, <1>2, <1>3, <1>4

(* The client at c takes its next message. *)
LEMMA ClientHeard ==
  ASSUME TypeInv, Advance, \A d \in Conns : DownQueue(d), NEW c \in Conns, NEW type, Hears(c, type),
         \A r \in Pipes : Head(down[c]) = Packet("RESP", r, "a") => Done(end'[r]["a"])
  PROVE  /\ down' \in [Conns -> Seq(DownMessages)]
         /\ \A d \in Conns : DownQueue(d)'
         /\ \A d \in Conns : \A n : In(n, down[d]) => In(n, down'[d]) \/ n = Head(down[c])
<1>1. /\ down[c] \in Seq(DownMessages) /\ down[c] # <<>> /\ Tail(down[c]) \in Seq(DownMessages)
      /\ \A m : In(m, down[c]) => m = Head(down[c]) \/ In(m, Tail(down[c]))
  BY QueueTypes, TailQueue DEF Hears
<1>2. /\ down' \in [Conns -> Seq(DownMessages)] /\ down'[c] = Tail(down[c])
      /\ \A d \in Conns \ {c} : down'[d] = down[d]
  BY <1>1 DEF Hears, TypeInv
<1>3. DownQueue(c)'
  BY <1>1, <1>2, DownTaken
<1>4. \A d \in Conns \ {c} : DownQueue(d)'
  BY <1>2, DownUntouched
<1> QED
  BY <1>1, <1>2, <1>3, <1>4

(* What the next message of a queue says. *)
LEMMA HeadSays ==
  ASSUME TypeInv, NEW c \in Conns
  PROVE  /\ UpQueue(c) /\ up[c] # <<>> =>
              /\ Head(up[c]) \in UpMessages /\ UpGood(c, Head(up[c]))
              /\ \A r \in Pipes : route[r] # None /\ Head(up[c]) = Packet("DATA", r, "b") =>
                   Done(route[r].state["b"])
         /\ DownQueue(c) /\ down[c] # <<>> =>
              /\ Head(down[c]) \in DownMessages /\ DownGood(Head(down[c]))
              /\ \A r \in Pipes : Head(down[c]) = Packet("DATA", r, "a") => Done(end[r]["a"])
<1>1. up[c] \in Seq(UpMessages) /\ down[c] \in Seq(DownMessages)
  BY QueueTypes
<1>2. \A r \in Pipes : \A h \in Halves : Packet("RESP", r, h) # Packet("DATA", r, h)
  BY MessageFacts
<1>3. "a" \in Halves /\ "b" \in Halves
  BY DEF Halves
<1>4. ASSUME UpQueue(c), up[c] # <<>>
      PROVE  /\ Head(up[c]) \in UpMessages /\ UpGood(c, Head(up[c]))
             /\ \A r \in Pipes : route[r] # None /\ Head(up[c]) = Packet("DATA", r, "b") =>
                  Done(route[r].state["b"])
  BY <1>1, <1>2, <1>3, <1>4, TailQueue DEF UpQueue
<1>5. ASSUME DownQueue(c), down[c] # <<>>
      PROVE  /\ Head(down[c]) \in DownMessages /\ DownGood(Head(down[c]))
             /\ \A r \in Pipes : Head(down[c]) = Packet("DATA", r, "a") => Done(end[r]["a"])
  BY <1>1, <1>2, <1>3, <1>5, TailQueue DEF DownQueue
<1> QED
  BY <1>4, <1>5

-----------------------------------------------------------------------------
(* Connections *)

(* A connection is accepted, its end is asked for, or nothing happens. *)
LEMMA OthersKeep ==
  ASSUME IInv, (\E c \in Conns : OnAccept(c) \/ Disconnect(c)) \/ UNCHANGED vars
  PROVE  IInv'
<1>0. /\ TypeInv /\ RegisterInv /\ RouteInv /\ EndInv /\ ~lost
      /\ \A d \in Conns : UpQueue(d) /\ DownQueue(d)
  BY DEF IInv
<1>1. TypeInv'
  BY <1>0 DEF TypeInv, OnAccept, EndpointStart, Disconnect, vars, register, ends
<1>2. Advance
  BY <1>0 DEF Advance, TypeInv, LoggedIn, OnAccept, EndpointStart, Disconnect, vars, register, ends
<1>3. RegisterInv'
  <2>1. /\ \A d \in Conns : conn'[d] = conn[d] \/ (conn[d] = "none" /\ conn'[d] = "accepted")
        /\ UNCHANGED <<lookup, selfLu, name, latest, server>>
    BY <1>0 DEF TypeInv, OnAccept, EndpointStart, Disconnect, vars, register, ends
  <2>2. \A d \in Conns : (LoggedIn(d)' <=> LoggedIn(d)) /\ (conn'[d] = "open" <=> conn[d] = "open")
    BY <2>1 DEF LoggedIn
  <2>3. \A v \in Names : latest[v] \in Conns \cup {None}
    BY <1>0 DEF TypeInv
  <2> QED
    BY ONLY <1>0, <2>1, <2>2, <2>3 DEF RegisterInv, LoggedIn
<1>4. UNCHANGED <<up, down, route, end, want, server, lost>>
  BY DEF OnAccept, EndpointStart, Disconnect, vars, register, ends
<1>5. (\A d \in Conns : UpQueue(d)' /\ DownQueue(d)') /\ RouteInv' /\ EndInv'
  BY <1>0, <1>2, <1>4, PipesUntouched
<1> QED
  BY <1>0, <1>1, <1>3, <1>4, <1>5 DEF IInv

(* A client logs in: its entry replaces that of the client it ejects. *)
LEMMA OnOpenKeeps ==
  ASSUME IInv, NEW c \in Conns, NEW u \in Names, OnOpen(c, u)
  PROVE  IInv'
<1>0. /\ TypeInv /\ RegisterInv /\ RouteInv /\ EndInv /\ ~lost
      /\ \A d \in Conns : UpQueue(d) /\ DownQueue(d)
  BY DEF IInv
<1>n. None \notin Conns \cup Names
  BY C2Constants
<1>1. TypeInv'
  <2>1. /\ conn' \in [Conns -> {"none", "accepted", "open", "closed"}]
        /\ name' \in [Conns -> Names \cup {None}] /\ lookup' \in [Names -> Conns \cup {None}]
        /\ latest' \in [Names -> Conns \cup {None}]
    BY <1>0 DEF TypeInv, OnOpen
  <2>2. selfLu' \in [Conns -> {"unset", "own", "end"}]
    BY <1>0 DEF TypeInv, OnOpen, LookupIterators
  <2>3. closing' \subseteq Conns
    BY <1>0 DEF TypeInv, OnOpen
  <2> QED
    BY <1>0, <2>1, <2>2, <2>3 DEF TypeInv, OnOpen, ends
<1>2. Advance
  BY <1>0 DEF Advance, TypeInv, LoggedIn, OnOpen, ends
<1>3. RegisterInv'
  <2>1. /\ server' = "run" /\ server = "run" /\ conn[c] = "accepted"
        /\ conn'[c] = "open" /\ \A d \in Conns \ {c} : conn'[d] = conn[d]
        /\ name'[c] = u /\ \A d \in Conns \ {c} : name'[d] = name[d]
        /\ lookup'[u] = c /\ \A v \in Names \ {u} : lookup'[v] = lookup[v]
        /\ latest'[u] = c /\ \A v \in Names \ {u} : latest'[v] = latest[v]
        /\ selfLu'[c] = "own"
        /\ \A d \in Conns \ {c} : selfLu'[d] = IF d = lookup[u] THEN "end" ELSE selfLu[d]
    BY <1>0 DEF TypeInv, OnOpen, LookupIterators
  <2>2. \A v \in Names : lookup[v] \in Conns \cup {None} /\ latest[v] \in Conns \cup {None}
    BY <1>0 DEF TypeInv
  <2>3. \A d \in Conns : selfLu'[d] = "own" => LoggedIn(d)'
    BY <1>0, <2>1 DEF RegisterInv, LoggedIn
  <2>4. \A v \in Names : latest'[v] # None => conn'[latest'[v]] \in {"open", "closed"}
    BY <1>0, <2>1, <2>2 DEF RegisterInv, LoggedIn
  <2>5. \A v \in Names :
          lookup'[v] = IF latest'[v] # None /\ conn'[latest'[v]] = "open" THEN latest'[v] ELSE None
    BY <1>0, <1>n, <2>1, <2>2 DEF RegisterInv, LoggedIn
  <2>6. \A v \in Names : lookup'[v] # None => selfLu'[lookup'[v]] = "own" /\ name'[lookup'[v]] = v
    BY <1>0, <2>1, <2>2 DEF RegisterInv, LoggedIn
  <2>7. \A d \in Conns : conn'[d] = "open" /\ selfLu'[d] = "own" => name'[d] \in Names /\ lookup'[name'[d]] = d
    BY <1>0, <2>1, <2>2 DEF RegisterInv, LoggedIn
  <2> QED
    BY <2>1, <2>3, <2>4, <2>5, <2>6, <2>7 DEF RegisterInv, LoggedIn
<1>4. UNCHANGED <<up, down, route, end, want, server, lost>>
  BY DEF OnOpen, ends
<1>5. (\A d \in Conns : UpQueue(d)' /\ DownQueue(d)') /\ RouteInv' /\ EndInv'
  BY <1>0, <1>2, <1>4, PipesUntouched
<1> QED
  BY <1>0, <1>1, <1>3, <1>4, <1>5 DEF IInv

(* A connection is closed: its entry of the register is erased, or, with a    *)
(* route over it, the server stops.                                           *)
LEMMA OnCloseKeeps ==
  ASSUME IInv, NEW c \in Conns, OnClose(c)
  PROVE  IInv'
<1>0. /\ TypeInv /\ RegisterInv /\ RouteInv /\ EndInv /\ ~lost
      /\ \A d \in Conns : UpQueue(d) /\ DownQueue(d)
  BY DEF IInv
<1>1. /\ conn' = [conn EXCEPT ![c] = "closed"] /\ conn[c] # "closed" /\ server = "run"
      /\ UNCHANGED <<selfLu, name, up, end, want, sent, latest, lost>> /\ closing' = closing \ {c}
  BY DEF OnClose, ends
<1>2. CASE Registered(c) = {} /\ EndpointOnClose(c)
  <2>1. /\ connections' = connections \ {c} /\ UNCHANGED <<route, down>>
        /\ lookup' = IF selfLu[c] = "own" THEN [lookup EXCEPT ![name[c]] = None] ELSE lookup
        /\ server' \in {"run", "crashed", "dangling"}
        /\ selfLu[c] = "unset" => server' = "crashed"
        /\ selfLu[c] = "own" => server' = IF lookup[name[c]] # c THEN "dangling" ELSE "run"
    BY <1>0, <1>1, <1>2 DEF EndpointOnClose
  <2>2. TypeInv'
    BY <1>0, <1>1, <2>1 DEF TypeInv
  <2>3. Advance
    BY <1>0, <1>1, <2>1 DEF Advance, TypeInv, LoggedIn
  <2>4. RegisterInv'
    <3>1. /\ conn'[c] = "closed" /\ \A d \in Conns \ {c} : conn'[d] = conn[d]
          /\ \A v \in Names : lookup[v] \in Conns \cup {None} /\ latest[v] \in Conns \cup {None}
          /\ selfLu[c] \in {"unset", "own", "end"}
      BY <1>0, <1>1 DEF TypeInv
    <3>2. CASE selfLu[c] = "own"
      <4>1. conn[c] = "open" /\ name[c] \in Names /\ lookup[name[c]] = c
        BY <1>0, <1>1, <3>2 DEF RegisterInv, LoggedIn
      <4>2. server' = "run" /\ lookup' = [lookup EXCEPT ![name[c]] = None]
        BY <2>1, <3>2, <4>1
      <4>3. lookup'[name[c]] = None /\ \A v \in Names \ {name[c]} : lookup'[v] = lookup[v]
        BY <1>0, <4>1, <4>2 DEF TypeInv
      <4>4. \A v \in Names \ {name[c]} : lookup[v] # c
        BY <1>0, <1>1, C2Constants DEF RegisterInv
      <4>5. \A v \in Names :
              lookup'[v] = IF latest'[v] # None /\ conn'[latest'[v]] = "open" THEN latest'[v] ELSE None
        BY <1>0, <1>1, <3>1, <4>1, <4>3, <4>4 DEF RegisterInv
      <4>6. \A v \in Names : lookup'[v] # None => selfLu'[lookup'[v]] = "own" /\ name'[lookup'[v]] = v
        BY <1>0, <1>1, <3>1, <4>3 DEF RegisterInv
      <4>7. \A d \in Conns : conn'[d] = "open" /\ selfLu'[d] = "own" =>
              name'[d] \in Names /\ lookup'[name'[d]] = d
        BY <1>0, <1>1, <3>1, <4>1, <4>3 DEF RegisterInv
      <4>8. /\ \A d \in Conns : selfLu'[d] = "own" => LoggedIn(d)'
            /\ \A v \in Names : latest'[v] # None => conn'[latest'[v]] \in {"open", "closed"}
        BY <1>0, <1>1, <3>1 DEF RegisterInv, LoggedIn
      <4> QED
        BY <4>2, <4>5, <4>6, <4>7, <4>8 DEF RegisterInv, LoggedIn
    <3>3. CASE selfLu[c] # "own"
      <4>1. lookup' = lookup /\ server' # "dangling"
        BY <1>0, <1>1, <1>2, <3>3 DEF EndpointOnClose
      <4>2. \A v \in Names : lookup[v] # c
        BY <1>0, <1>1, <3>1, <3>3, C2Constants DEF RegisterInv
      <4> QED
        BY <1>0, <1>1, <3>1, <4>1, <4>2 DEF RegisterInv, LoggedIn
    <3> QED
      BY <3>2, <3>3
  <2>5. (\A d \in Conns : UpQueue(d)' /\ DownQueue(d)') /\ RouteInv' /\ EndInv'
    BY <1>0, <1>1, <2>1, <2>3, PipesUntouched
  <2> QED
    BY <1>0, <1>1, <2>2, <2>4, <2>5 DEF IInv
<1>3. ASSUME NEW p \in Registered(c), PipesOnClose(c, p)
      PROVE  IInv'
  <2> DEFINE r == p[1]
             h == Other(p[2])
             d == route[r].conn[h]
  <2>1. /\ r \in Pipes /\ p[2] \in Halves /\ h \in Halves /\ route[r] # None /\ d \in Conns
        /\ route[r] \in Routes
    <3>1. r \in Pipes /\ p[2] \in Halves /\ route[r] # None
      BY DEF Registered
    <3>2. route[r] \in Routes /\ h \in Halves
      BY <1>0, <3>1 DEF TypeInv, Other, Halves
    <3> QED
      BY <3>1, <3>2 DEF Routes
  <2>2. /\ server' = "selflock" /\ UNCHANGED <<connections, lookup>>
        /\ IF d # c THEN /\ route' = [route EXCEPT ![r].state[h] = "Closed"]
                         /\ down' = Sent(d, <<Packet("CLOSE", r, h)>>)
                    ELSE UNCHANGED <<route, down>>
    BY <1>3 DEF PipesOnClose
  <2> HIDE DEF r, h, d
  <2>3. route' \in [Pipes -> Routes \cup {None}]
    <3>1. [route[r] EXCEPT !.state[h] = "Closed"] \in Routes
      BY <2>1 DEF Routes, PipeStates
    <3> QED
      BY <1>0, <2>1, <2>2, <3>1 DEF TypeInv
  <2>4. /\ \A k \in Pipes : route'[k] = None <=> route[k] = None
        /\ \A k \in Pipes : route[k] # None =>
             /\ route'[k].conn = route[k].conn
             /\ \A g \in Halves : route'[k].state[g] \in {route[k].state[g], "Closed"}
    <3>1. \A k \in Pipes : route[k] # None => route[k] \in Routes
      BY <1>0 DEF TypeInv
    <3>2. CASE d = c
      BY <2>2, <3>2
    <3>3. CASE d # c
      <4>1. route' = [route EXCEPT ![r] = [route[r] EXCEPT !.state[h] = "Closed"]]
        BY <2>2, <3>3
      <4>2. /\ route'[r] = [route[r] EXCEPT !.state[h] = "Closed"] /\ \A k \in Pipes \ {r} : route'[k] = route[k]
        BY <1>0, <2>1, <4>1 DEF TypeInv
      <4>3. /\ route'[r].conn = route[r].conn
            /\ \A g \in Halves : route'[r].state[g] \in {route[r].state[g], "Closed"}
        BY <2>1, <4>2 DEF Routes
      <4>4. route'[r] # None
        <5>1. route'[r] \in Routes
          BY <2>1, <4>2 DEF Routes, PipeStates
        <5> QED
          BY <5>1, C2Constants
      <4> QED
        BY <2>1, <4>2, <4>3, <4>4
    <3> QED
      BY <3>2, <3>3
  <2>5. Advance
    <3>1. \A k \in Pipes : route[k] # None =>
            \A g \in Halves : Done(route[k].state[g]) => Done(route'[k].state[g])
      BY <2>4 DEF Done
    <3> QED
      BY <1>0, <1>1, <2>4, <3>1 DEF Advance, TypeInv, LoggedIn
  <2>6. /\ down' \in [Conns -> Seq(DownMessages)]
        /\ \A e \in Conns : DownQueue(e)'
        /\ \A e \in Conns : \A n : In(n, down[e]) => In(n, down'[e])
    <3>1. CASE d = c
      BY <1>0, <2>2, <2>5, <3>1, DownUntouched DEF TypeInv
    <3>2. CASE d # c
      <4> DEFINE m == Packet("CLOSE", r, h)
      <4>1. m \in DownMessages /\ m.type = "CLOSE" /\ m.pipe = r /\ \A k : m # Packet("DATA", k, "a")
        BY <2>1, MessageFacts
      <4>2. DownGood(m)'
        BY <2>1, <2>4, <4>1 DEF DownGood
      <4>3. down' = Sent(d, <<m>>)
        BY <2>2, <3>2
      <4> HIDE DEF m
      <4> QED
        BY <1>0, <2>1, <2>5, <4>1, <4>2, <4>3, SentOne
    <3> QED
      BY <3>1, <3>2
  <2>7. TypeInv'
    BY <1>0, <1>1, <2>2, <2>3, <2>6 DEF TypeInv
  <2>8. RegisterInv'
    BY <1>0, <1>1, <2>2 DEF RegisterInv, LoggedIn, TypeInv
  <2>9. \A e \in Conns : UpQueue(e)'
    BY <1>0, <1>1, <2>4, <2>5, UpUntouched
  <2>10. RouteInv'
    <3> SUFFICES ASSUME NEW k \in Pipes, route'[k] # None
                 PROVE  RouteGood(k)'
      BY DEF RouteInv
    <3>1. route[k] # None /\ RouteGood(k) /\ route[k].conn["a"] \in Conns
      BY <1>0, <2>4 DEF RouteInv, TypeInv, Routes, Halves
    <3>2. /\ \A g \in Halves : route'[k].state[g] = "Opened" => route[k].state[g] = "Opened"
          /\ server' # "run"
      BY <2>2, <2>4, <3>1
    <3> QED
      BY <1>0, <2>5, <2>6, <3>1, <3>2, RouteKept
  <2>11. EndInv'
    BY <1>0, <1>1, <2>5, EndKept DEF EndInv
  <2> QED
    BY <1>0, <1>1, <2>6, <2>7, <2>8, <2>9, <2>10, <2>11 DEF IInv
<1> QED
  BY <1>2, <1>3 DEF OnClose

-----------------------------------------------------------------------------
(* The server *)

LEMMA RouteTypes ==
  ASSUME TypeInv, NEW r \in Pipes, route[r] # None
  PROVE  /\ route[r] \in Routes
         /\ \A h \in Halves : route[r].conn[h] \in Conns /\ route[r].state[h] \in PipeStates
BY DEF TypeInv, Routes

(* The halves of a route close. *)
LEMMA ClosedRoute ==
  ASSUME TypeInv, NEW r \in Pipes, route[r] # None, NEW h, NEW tell, HalfCloses(r, h, tell)
  PROVE  /\ route' \in [Pipes -> Routes \cup {None}]
         /\ route'[r] # None /\ route'[r].conn = route[r].conn
         /\ \A k \in Halves : route'[r].state[k] = "Closed"
         /\ \A k \in Pipes \ {r} : route'[k] = route[k]
<1> DEFINE new == [route[r] EXCEPT !.state = [k \in Halves |-> "Closed"]]
<1>1. /\ new \in Routes /\ new.conn = route[r].conn /\ \A k \in Halves : new.state[k] = "Closed"
  BY RouteTypes DEF Routes, PipeStates
<1>2. route' = [route EXCEPT ![r] = new]
  BY DEF HalfCloses
<1> HIDE DEF new
<1>3. route'[r] = new /\ \A k \in Pipes \ {r} : route'[k] = route[k]
  BY <1>2 DEF TypeInv
<1>4. route' \in [Pipes -> Routes \cup {None}]
  BY <1>1, <1>2 DEF TypeInv
<1>5. new # None
  BY <1>1, C2Constants
<1> QED
  BY <1>1, <1>3, <1>4, <1>5

(* The server takes a message of c, and nothing comes of it. *)
LEMMA TakesOnly ==
  ASSUME IInv, NEW c \in Conns, NEW type, Takes(c, type),
         UNCHANGED <<route, down, conn, register, closing, ends, server, latest, lost>>,
         \A r \in Pipes : Head(up[c]) = Packet("RESP", r, "b") => Done(route[r].state["b"])
  PROVE  IInv'
<1>0. /\ TypeInv /\ RegisterInv /\ RouteInv /\ EndInv /\ ~lost
      /\ \A d \in Conns : UpQueue(d) /\ DownQueue(d)
  BY DEF IInv
<1>1. Advance
  BY DEF Advance, register, ends, LoggedIn
<1>2. PICK m : m = Head(up[c])
  OBVIOUS
<1>3. /\ up' \in [Conns -> Seq(UpMessages)] /\ \A e \in Conns : UpQueue(e)'
      /\ \A e \in Conns : \A n : In(n, up[e]) => In(n, up'[e]) \/ n = m
  BY <1>0, <1>1, <1>2, ServerTook
<1>4. \A e \in Conns : DownQueue(e)'
  BY <1>0, <1>1, DownUntouched
<1>5. RouteInv'
  BY <1>0, <1>1, RoutesUntouched
<1>6. EndInv'
  <2> SUFFICES ASSUME NEW k \in Pipes
               PROVE  EndGood(k)'
    BY DEF EndInv
  <2>1. /\ route[k] # None => route[k].conn["b"] \in Conns
        /\ EndGood(k) /\ end'[k] = end[k] /\ want'[k] = want[k] /\ route'[k] = route[k]
    BY <1>0, RouteTypes, MessageFacts DEF EndInv, ends
  <2>2. m = Packet("RESP", k, "b") => Done(route[k].state["b"])
    BY <1>2
  <2> QED
    BY <1>0, <1>1, <1>3, <2>1, <2>2, EndKept
<1>7. TypeInv'
  BY <1>0, <1>3 DEF TypeInv, register, ends
<1>8. RegisterInv'
  BY <1>0, RegisterUntouched DEF register
<1> QED
  BY <1>0, <1>3, <1>4, <1>5, <1>6, <1>7, <1>8 DEF IInv

(* on_pipe(): a route starts, to the client that is registered. *)
LEMMA OnPipeKeeps ==
  ASSUME IInv, NEW c \in Conns, OnPipe(c)
  PROVE  IInv'
<1>0. /\ TypeInv /\ RegisterInv /\ RouteInv /\ EndInv /\ ~lost
      /\ \A d \in Conns : UpQueue(d) /\ DownQueue(d)
  BY DEF IInv
<1>m. PICK m : m = Head(up[c])
  OBVIOUS
<1>d. PICK d : d = lookup[m.to]
  OBVIOUS
<1> DEFINE r == m.pipe
<1>1. /\ m \in UpMessages /\ UpGood(c, m) /\ m.type = "REQ" /\ r \in Pipes /\ m.to \in Names
      /\ Takes(c, "REQ") /\ server = "run" /\ conn[c] = "open"
      /\ \A k \in Pipes : \A h \in Halves : m # Packet("RESP", k, h)
  BY <1>0, <1>m, HeadSays, MessageFacts DEF OnPipe, Takes, Names
<1>2. /\ want[r] # None /\ c = want[r].by /\ m.to = want[r].to /\ end[r]["a"] # "None" /\ route[r] = None
  BY <1>1 DEF UpGood
<1>3. /\ UNCHANGED <<conn, register, closing, ends, server, latest, lost>>
      /\ IF d # None THEN RouteStart(r, c, d) ELSE UNCHANGED <<route, down>>
  BY <1>m, <1>d DEF OnPipe
<1>4. CASE d = None
  <2>1. UNCHANGED <<route, down, conn, register, closing, ends, server, latest, lost>>
    BY <1>3, <1>4
  <2>2. \A k \in Pipes : Head(up[c]) # Packet("RESP", k, "b")
    BY <1>1, <1>m, MessageFacts
  <2> QED
    BY <1>1, <2>1, <2>2, TakesOnly
<1>5. CASE d # None
  <2>1. d \in Conns /\ conn[d] = "open" /\ name[d] = m.to
    <3>1. d = latest[m.to] /\ conn[d] = "open" /\ name[d] = m.to
      BY <1>0, <1>1, <1>5, <1>d DEF RegisterInv
    <3> QED
      BY <1>0, <1>1, <1>5, <1>d, <3>1 DEF TypeInv
  <2>f. PICK f : f = name[c]
    OBVIOUS
  <2> DEFINE new == [conn  |-> [h \in Halves |-> IF h = "a" THEN c ELSE d],
                     state |-> [h \in Halves |-> IF h = "a" THEN "OpenRequstRecv" ELSE "OpenRequstSent"],
                     timer |-> TRUE]
             q == [type |-> "REQ", pipe |-> r, from |-> f]
  <2>2. route' = [route EXCEPT ![r] = new] /\ down' = Sent(d, <<q>>)
    BY <1>3, <1>5, <2>f DEF RouteStart
  <2>3. /\ q \in DownMessages /\ q.type = "REQ" /\ q.pipe = r
        /\ \A k \in Pipes : \A h \in Halves : q # Packet("DATA", k, h)
    <3>1. f \in Names \cup {None}
      BY <1>0, <2>f DEF TypeInv
    <3>2. q \in DownMessages /\ q.type = "REQ" /\ q.pipe = r
      BY <1>1, <3>1 DEF DownMessages
    <3> QED
      BY <3>2, MessageFacts
  <2>4. /\ new \in Routes /\ new # None
        /\ new.conn["a"] = c /\ new.conn["b"] = d
        /\ new.state["a"] = "OpenRequstRecv" /\ new.state["b"] = "OpenRequstSent"
        /\ Halves = {"a", "b"}
    <3>1. new \in Routes
      BY <2>1 DEF Routes, Halves, PipeStates
    <3>2. new # None
      BY <3>1, C2Constants
    <3> QED
      BY <3>1, <3>2 DEF Halves
  <2> HIDE DEF new, q
  <2>5. /\ route' \in [Pipes -> Routes \cup {None}]
        /\ route'[r] = new /\ \A k \in Pipes \ {r} : route'[k] = route[k]
    BY <1>0, <1>1, <2>2, <2>4 DEF TypeInv
  <2>6. Advance
    BY <1>2, <1>3, <2>5 DEF Advance, register, ends, LoggedIn
  <2>7. /\ up' \in [Conns -> Seq(UpMessages)] /\ \A e \in Conns : UpQueue(e)'
        /\ \A e \in Conns : \A n : In(n, up[e]) => In(n, up'[e]) \/ n = m
    <3>1. \A k \in Pipes : route[k] = None => route'[k] = None \/ (m.type = "REQ" /\ m.pipe = k)
      BY <1>1, <2>5
    <3>2. \A k \in Pipes : Head(up[c]) # Packet("RESP", k, "b")
      BY <1>1, <1>m, MessageFacts
    <3>3. \A e \in Conns : UpQueue(e)
      BY <1>0
    <3> QED
      BY <1>0, <1>1, <1>m, <2>6, <3>1, <3>2, <3>3, ServerTook
  <2>8. /\ down' \in [Conns -> Seq(DownMessages)] /\ \A e \in Conns : DownQueue(e)'
        /\ \A e \in Conns : \A n : In(n, down[e]) => In(n, down'[e])
    <3>1. DownGood(q)'
      BY <2>3, <2>4, <2>5 DEF DownGood
    <3> QED
      BY <1>0, <2>1, <2>2, <2>3, <2>6, <3>1, MessageFacts, SentOne
  <2>9. RouteInv'
    <3> SUFFICES ASSUME NEW k \in Pipes, route'[k] # None
                 PROVE  RouteGood(k)'
      BY DEF RouteInv
    <3>1. CASE k = r
      <4>1. /\ want'[r] # None /\ end'[r]["a"] # "None" /\ name'[d] = want'[r].to /\ c = want'[r].by
            /\ LoggedIn(c)' /\ LoggedIn(d)'
        BY <1>1, <1>2, <1>3, <2>1 DEF register, ends, LoggedIn
      <4> QED
        BY <2>4, <2>5, <3>1, <4>1 DEF RouteGood, Joined
    <3>2. CASE k # r
      <4>1. /\ route[k] # None /\ RouteGood(k) /\ route'[k] = route[k] /\ server' = server
            /\ route[k].conn["a"] \in Conns
        BY <1>0, <1>3, <2>5, <3>2, RouteTypes, MessageFacts DEF RouteInv
      <4>2. server' = "run" => Joined(route'[k].state)
        BY <4>1 DEF RouteGood
      <4> QED
        BY <1>0, <2>6, <2>8, <4>1, <4>2, RouteKept
    <3> QED
      BY <3>1, <3>2
  <2>10. EndInv'
    <3> SUFFICES ASSUME NEW k \in Pipes
                 PROVE  EndGood(k)'
      BY DEF EndInv
    <3>1. route[k] # None => route[k].conn["b"] \in Conns
      BY <1>0, RouteTypes, MessageFacts
    <3>2. EndGood(k) /\ end'[k] = end[k] /\ want'[k] = want[k]
      BY <1>0, <1>3 DEF EndInv, ends
    <3> QED
      BY <1>0, <1>1, <2>6, <2>7, <3>1, <3>2, MessageFacts, EndKept
  <2>11. TypeInv'
    BY <1>0, <1>3, <2>5, <2>7, <2>8 DEF TypeInv, register, ends
  <2>12. RegisterInv'
    BY <1>0, <1>3, RegisterUntouched DEF register
  <2> QED
    BY <1>0, <1>3, <2>7, <2>8, <2>9, <2>10, <2>11, <2>12 DEF IInv
<1> QED
  BY <1>4, <1>5

(* The other client has accepted: the route opens. *)
LEMMA OnRespKeeps ==
  ASSUME IInv, NEW c \in Conns, OnResp(c)
  PROVE  IInv'
<1>0. /\ TypeInv /\ RegisterInv /\ RouteInv /\ EndInv /\ ~lost
      /\ \A d \in Conns : UpQueue(d) /\ DownQueue(d)
  BY DEF IInv
<1>m. PICK m : m = Head(up[c])
  OBVIOUS
<1> DEFINE r == m.pipe
<1>1. /\ m \in UpMessages /\ UpGood(c, m) /\ m.type = "RESP" /\ r \in Pipes
      /\ Takes(c, "RESP") /\ server = "run"
  BY <1>0, <1>m, HeadSays, MessageFacts DEF OnResp, Takes
<1>2. m = Packet("RESP", r, "b") /\ route[r] # None /\ Done(end[r]["b"])
  BY <1>1, MessageFacts DEF UpGood
<1>3. RouteGood(r) /\ Joined(route[r].state)
  BY <1>0, <1>1, <1>2 DEF RouteInv, RouteGood
<1>4. \A k \in Pipes : m = Packet("RESP", k, "b") => k = r
  BY MessageFacts
<1>5. /\ UNCHANGED <<conn, register, closing, ends, server, latest, lost>>
      /\ IF route[r].state["b"] = "OpenRequstSent" THEN RouteOnOpen(r) ELSE UNCHANGED <<route, down>>
  BY <1>m DEF OnResp
<1>6. CASE route[r].state["b"] # "OpenRequstSent"
  <2>1. Done(route[r].state["b"])
    BY <1>3, <1>6 DEF Joined, Done
  <2> QED
    BY <1>1, <1>4, <1>5, <1>6, <1>m, <2>1, TakesOnly
<1>7. CASE route[r].state["b"] = "OpenRequstSent"
  <2>1. PICK d : d = route[r].conn["a"]
    OBVIOUS
  <2>2. d \in Conns /\ route[r] \in Routes
    BY <1>0, <1>1, <1>2, <2>1, RouteTypes, MessageFacts
  <2> DEFINE new == [route[r] EXCEPT !.state = [h \in Halves |-> "Opened"]]
             q == Packet("RESP", r, "a")
  <2>3. route' = [route EXCEPT ![r] = new] /\ down' = Sent(d, <<q>>)
    <3>1. route[r].state["a"] = "OpenRequstRecv" /\ route[r].state \in [Halves -> PipeStates]
      BY <1>3, <1>7, <2>2 DEF Joined, Routes
    <3>2. [h \in Halves |-> IF h = "b" \/ TRUE THEN "Opened" ELSE route[r].state[h]] = [h \in Halves |-> "Opened"]
      OBVIOUS
    <3> QED
      BY <1>5, <1>7, <2>1, <3>1, <3>2 DEF RouteOnOpen
  <2>4. /\ new \in Routes /\ new # None /\ new.conn = route[r].conn
        /\ \A h \in Halves : new.state[h] = "Opened"
    <3>1. new \in Routes /\ new.conn = route[r].conn /\ \A h \in Halves : new.state[h] = "Opened"
      BY <2>2 DEF Routes, PipeStates
    <3> QED
      BY <3>1, C2Constants
  <2> HIDE DEF new
  <2>5. /\ route' \in [Pipes -> Routes \cup {None}]
        /\ route'[r] = new /\ \A k \in Pipes \ {r} : route'[k] = route[k]
    BY <1>0, <1>1, <2>3, <2>4 DEF TypeInv
  <2>6. /\ route'[r] # None /\ route'[r].conn = route[r].conn
        /\ \A h \in Halves : route'[r].state[h] = "Opened"
        /\ "a" \in Halves /\ "b" \in Halves
    BY <2>4, <2>5, MessageFacts
  <2>7. Advance
    BY <1>5, <2>5, <2>6 DEF Advance, register, ends, LoggedIn, Done
  <2>8. /\ up' \in [Conns -> Seq(UpMessages)] /\ \A e \in Conns : UpQueue(e)'
        /\ \A e \in Conns : \A n : In(n, up[e]) => In(n, up'[e]) \/ n = m
    <3>1. \A k \in Pipes : Head(up[c]) = Packet("RESP", k, "b") => Done(route'[k].state["b"])
      BY <1>4, <1>m, <2>6 DEF Done
    <3>2. \A k \in Pipes : route[k] = None => route'[k] = None
      BY <1>2, <2>5
    <3> QED
      BY <1>0, <1>1, <1>m, <2>7, <3>1, <3>2, ServerTook
  <2>9. /\ q \in DownMessages /\ q.type = "RESP" /\ q.pipe = r /\ q.half = "a"
        /\ \A k \in Pipes : q # Packet("DATA", k, "a")
    BY <1>1, MessageFacts
  <2>10. DownGood(q)'
    BY <1>1, <1>2, <1>5, <2>6, <2>9 DEF DownGood, Done, ends
  <2> HIDE DEF q
  <2>11. /\ down' \in [Conns -> Seq(DownMessages)] /\ \A e \in Conns : DownQueue(e)'
         /\ \A e \in Conns : \A n : In(n, down[e]) => In(n, down'[e])
         /\ conn[d] # "closed" => In(q, down'[d])
    BY <1>0, <2>2, <2>3, <2>7, <2>9, <2>10, SentOne
  <2>12. RouteInv'
    <3> SUFFICES ASSUME NEW k \in Pipes, route'[k] # None
                 PROVE  RouteGood(k)'
      BY DEF RouteInv
    <3>1. CASE k = r
      <4>1. /\ want'[r] = want[r] /\ end'[r] = end[r] /\ \A e \in Conns : name'[e] = name[e] /\ conn'[e] = conn[e]
            /\ \A h \in Halves : route[r].conn[h] \in Conns
        BY <1>1, <1>2, <1>0, <1>5, RouteTypes DEF register, ends
      <4>2. Joined(route'[r].state)
        BY <2>6 DEF Joined
      <4>3. conn'[d] = "closed" \/ In(Packet("RESP", r, "a"), down'[d])
        BY <2>2, <2>11, <4>1 DEF q
      <4> QED
        BY <1>2, <1>3, <2>1, <2>6, <3>1, <4>1, <4>2, <4>3 DEF RouteGood, LoggedIn
    <3>2. CASE k # r
      <4>1. /\ route[k] # None /\ RouteGood(k) /\ route'[k] = route[k] /\ server' = server
            /\ route[k].conn["a"] \in Conns
        BY <1>0, <1>5, <2>5, <3>2, RouteTypes, MessageFacts DEF RouteInv
      <4>2. server' = "run" => Joined(route'[k].state)
        BY <4>1 DEF RouteGood
      <4> QED
        BY <1>0, <2>7, <2>11, <4>1, <4>2, RouteKept
    <3> QED
      BY <3>1, <3>2
  <2>13. EndInv'
    <3> SUFFICES ASSUME NEW k \in Pipes
                 PROVE  EndGood(k)'
      BY DEF EndInv
    <3>1. route[k] # None => route[k].conn["b"] \in Conns
      BY <1>0, RouteTypes, MessageFacts
    <3>2. EndGood(k) /\ end'[k] = end[k] /\ want'[k] = want[k]
      BY <1>0, <1>5 DEF EndInv, ends
    <3>3. m = Packet("RESP", k, "b") => Done(route'[k].state["b"])
      BY <1>4, <2>6 DEF Done
    <3> QED
      BY <1>0, <2>7, <2>8, <3>1, <3>2, <3>3, EndKept
  <2>14. TypeInv'
    BY <1>0, <1>5, <2>5, <2>8, <2>11 DEF TypeInv, register, ends
  <2>15. RegisterInv'
    BY <1>0, <1>5, RegisterUntouched DEF register
  <2> QED
    BY <1>0, <1>5, <2>8, <2>11, <2>12, <2>13, <2>14, <2>15 DEF IInv
<1> QED
  BY <1>6, <1>7

(* A packet of a client goes to the other client: a half that can be sent on  *)
(* is open, and so is the other one.                                          *)
LEMMA OnDataKeeps ==
  ASSUME IInv, NEW c \in Conns, OnData(c)
  PROVE  IInv'
<1>0. /\ TypeInv /\ RegisterInv /\ RouteInv /\ EndInv /\ ~lost
      /\ \A d \in Conns : UpQueue(d) /\ DownQueue(d)
  BY DEF IInv
<1>m. PICK m : m = Head(up[c])
  OBVIOUS
<1> DEFINE r == m.pipe
           h == m.half
           g == Other(h)
<1>1. /\ m \in UpMessages /\ UpGood(c, m) /\ m.type = "DATA" /\ r \in Pipes
      /\ Takes(c, "DATA") /\ server = "run"
      /\ h \in Halves /\ m = Packet("DATA", r, h) /\ g \in Halves
      /\ \A k \in Pipes : m # Packet("RESP", k, "b")
  <2>1. /\ m \in UpMessages /\ UpGood(c, m) /\ m.type = "DATA" /\ r \in Pipes
        /\ Takes(c, "DATA") /\ server = "run"
    BY <1>0, <1>m, HeadSays, MessageFacts DEF OnData, Takes
  <2> QED
    BY <2>1, MessageFacts DEF Other, Halves
<1>2. route[r] # None /\ Done(route[r].state[h])
  <2>1. route[r] # None
    BY <1>1 DEF UpGood
  <2>2. CASE h = "a"
    BY <1>1, <2>1, <2>2 DEF UpGood
  <2>3. CASE h = "b"
    BY <1>0, <1>1, <1>m, <2>1, <2>3, HeadSays DEF Takes
  <2> QED
    BY <1>1, <2>1, <2>2, <2>3 DEF Halves
<1>3. /\ UNCHANGED <<conn, register, closing, route, ends, server, latest>>
      /\ lost' = lost
      /\ down' = IF route[r].state[h] = "Opened" THEN Sent(route[r].conn[g], <<Packet("DATA", r, g)>>) ELSE down
  <2>1. lost' = (lost \/ route[r] = None \/ route[r].state[h] \notin {"Opened", "Closed"})
    BY <1>m DEF OnData
  <2>2. lost' = FALSE
    BY <1>0, <1>2, <2>1 DEF Done
  <2>3. Head(up[c]).pipe = r /\ Head(up[c]).half = h
    BY <1>m
  <2>4. down' = IF route[r] # None /\ route[r].state[h] = "Opened"
                  THEN Sent(route[r].conn[g], <<Packet("DATA", r, g)>>) ELSE down
    BY <2>3 DEF OnData
  <2>5. UNCHANGED <<conn, register, closing, route, ends, server, latest>>
    BY DEF OnData
  <2>6. lost' = lost
    <3>1. lost \in BOOLEAN /\ ~lost
      BY <1>0 DEF TypeInv
    <3> QED
      BY <2>2, <3>1
  <2> QED
    BY <1>2, <2>4, <2>5, <2>6
<1>4. Advance
  BY <1>3 DEF Advance, register, ends, LoggedIn
<1>5. /\ up' \in [Conns -> Seq(UpMessages)] /\ \A e \in Conns : UpQueue(e)'
      /\ \A e \in Conns : \A n : In(n, up[e]) => In(n, up'[e]) \/ n = m
  BY <1>0, <1>1, <1>3, <1>4, <1>m, ServerTook
<1>6. /\ down' \in [Conns -> Seq(DownMessages)] /\ \A e \in Conns : DownQueue(e)'
      /\ \A e \in Conns : \A n : In(n, down[e]) => In(n, down'[e])
  <2>1. CASE route[r].state[h] # "Opened"
    BY <1>0, <1>3, <1>4, <2>1, DownUntouched DEF TypeInv
  <2>2. CASE route[r].state[h] = "Opened"
    <3>1. PICK d : d = route[r].conn[g]
      OBVIOUS
    <3> DEFINE q == Packet("DATA", r, g)
    <3>2. /\ RouteGood(r) /\ Joined(route[r].state) /\ d \in Conns
      BY <1>0, <1>1, <1>2, <3>1, RouteTypes DEF RouteInv, RouteGood
    <3>3. route[r].state["b"] = "Opened" /\ Done(end[r]["b"])
      BY <1>1, <2>2, <3>2, MessageFacts DEF Joined, RouteGood, Halves
    <3>4. /\ q \in DownMessages /\ q.type = "DATA" /\ q.pipe = r /\ q.half = g
          /\ down' = Sent(d, <<q>>)
      BY <1>1, <1>3, <2>2, <3>1, MessageFacts
    <3>5. DownGood(q)'
      BY <1>1, <1>2, <1>3, <3>3, <3>4 DEF DownGood, ends
    <3>6. \A k \in Pipes : q = Packet("DATA", k, "a") =>
            Done(end[k]["a"]) \/ In(Packet("RESP", k, "a"), down[d]) \/ conn[d] = "closed"
      <4> SUFFICES ASSUME NEW k \in Pipes, q = Packet("DATA", k, "a")
                   PROVE  Done(end[k]["a"]) \/ In(Packet("RESP", k, "a"), down[d]) \/ conn[d] = "closed"
        OBVIOUS
      <4>1. k = r /\ g = "a"
        BY <3>4, MessageFacts
      <4> QED
        BY <3>1, <3>2, <3>3, <4>1 DEF RouteGood
    <3> HIDE DEF q
    <3> QED
      BY <1>0, <1>4, <3>2, <3>4, <3>5, <3>6, SentOne
  <2> QED
    BY <2>1, <2>2
<1>7. RouteInv'
  <2>1. \A k \in Pipes : route[k] # None => route[k].conn["a"] \in Conns
    BY <1>0, RouteTypes, MessageFacts
  <2> QED
    BY <1>0, <1>3, <1>4, <1>6, <2>1, RoutesUntouched
<1>8. EndInv'
  <2> SUFFICES ASSUME NEW k \in Pipes
               PROVE  EndGood(k)'
    BY DEF EndInv
  <2>1. /\ route[k] # None => route[k].conn["b"] \in Conns
        /\ EndGood(k) /\ end'[k] = end[k] /\ want'[k] = want[k]
    BY <1>0, <1>3, RouteTypes, MessageFacts DEF EndInv, ends
  <2> QED
    BY <1>0, <1>1, <1>4, <1>5, <2>1, EndKept
<1>9. TypeInv'
  BY <1>0, <1>3, <1>5, <1>6 DEF TypeInv, register, ends
<1>10. RegisterInv'
  BY <1>0, <1>3, RegisterUntouched DEF register
<1> QED
  BY <1>0, <1>3, <1>5, <1>6, <1>7, <1>8, <1>9, <1>10 DEF IInv

(* The halves of a route close: the one that its client, or a timer, closes,  *)
(* and the other.                                                             *)
LEMMA ClosesKeep ==
  ASSUME IInv, NEW r \in Pipes, route[r] # None, NEW h \in Halves, NEW tell \in BOOLEAN,
         HalfCloses(r, h, tell), UNCHANGED <<conn, register, closing, ends, server, latest, lost>>,
         UNCHANGED up \/ \E c \in Conns : Takes(c, "CLOSE")
  PROVE  IInv'
<1>0. /\ TypeInv /\ RegisterInv /\ RouteInv /\ EndInv /\ ~lost
      /\ \A d \in Conns : UpQueue(d) /\ DownQueue(d)
  BY DEF IInv
<1>1. /\ route' \in [Pipes -> Routes \cup {None}]
      /\ route'[r] # None /\ route'[r].conn = route[r].conn
      /\ \A k \in Halves : route'[r].state[k] = "Closed"
      /\ \A k \in Pipes \ {r} : route'[k] = route[k]
  BY <1>0, ClosedRoute
<1>2. Advance
  BY <1>1 DEF Advance, register, ends, LoggedIn, Done
<1>3. \A k \in Pipes : route[k] = None => route'[k] = None
  BY <1>1
<1>4. /\ up' \in [Conns -> Seq(UpMessages)] /\ \A e \in Conns : UpQueue(e)'
      /\ \A e \in Conns : \A n : In(n, up[e]) => In(n, up'[e]) \/ n.type = "CLOSE"
  <2>1. CASE UNCHANGED up
    <3>1. \A e \in Conns : UpQueue(e)'
      BY <1>0, <1>2, <1>3, <2>1, UpUntouched
    <3> QED
      BY <1>0, <2>1, <3>1 DEF TypeInv
  <2>2. ASSUME NEW c \in Conns, Takes(c, "CLOSE")
        PROVE  /\ up' \in [Conns -> Seq(UpMessages)] /\ \A e \in Conns : UpQueue(e)'
               /\ \A e \in Conns : \A n : In(n, up[e]) => In(n, up'[e]) \/ n.type = "CLOSE"
    <3>1. Head(up[c]).type = "CLOSE"
      BY <2>2 DEF Takes
    <3>2. \A k \in Pipes : Head(up[c]) # Packet("RESP", k, "b")
      BY <3>1, MessageFacts
    <3>3. /\ up' \in [Conns -> Seq(UpMessages)] /\ \A e \in Conns : UpQueue(e)'
          /\ \A e \in Conns : \A n : In(n, up[e]) => In(n, up'[e]) \/ n = Head(up[c])
      BY <1>0, <1>2, <1>3, <2>2, <3>2, ServerTook
    <3> QED
      BY <3>1, <3>3
  <2> QED
    BY <2>1, <2>2
<1>5. /\ down' \in [Conns -> Seq(DownMessages)] /\ \A e \in Conns : DownQueue(e)'
      /\ \A e \in Conns : \A n : In(n, down[e]) => In(n, down'[e])
  BY <1>0, <1>2, ClosesSent
<1>6. RouteInv'
  <2> SUFFICES ASSUME NEW k \in Pipes, route'[k] # None
               PROVE  RouteGood(k)'
    BY DEF RouteInv
  <2>1. /\ route[k] # None /\ RouteGood(k) /\ route[k].conn["a"] \in Conns /\ server' = server
    BY <1>0, <1>1, RouteTypes, MessageFacts DEF RouteInv
  <2>2. /\ server' = "run" => Joined(route'[k].state)
        /\ \A g \in Halves : route'[k].state[g] = "Opened" => route[k].state[g] = "Opened"
    <3>1. CASE k = r
      BY <1>1, <3>1, MessageFacts DEF Joined
    <3>2. CASE k # r
      BY <1>1, <2>1, <3>2 DEF RouteGood
    <3> QED
      BY <3>1, <3>2
  <2> QED
    BY <1>0, <1>2, <1>5, <2>1, <2>2, RouteKept
<1>7. EndInv'
  <2> SUFFICES ASSUME NEW k \in Pipes
               PROVE  EndGood(k)'
    BY DEF EndInv
  <2>1. /\ route[k] # None => route[k].conn["b"] \in Conns
        /\ EndGood(k) /\ end'[k] = end[k] /\ want'[k] = want[k]
        /\ Packet("RESP", k, "b").type # "CLOSE"
    BY <1>0, RouteTypes, MessageFacts DEF EndInv, ends
  <2> QED
    BY <1>0, <1>2, <1>4, <2>1, EndKept
<1>8. TypeInv'
  BY <1>0, <1>1, <1>4, <1>5 DEF TypeInv, register, ends
<1>9. RegisterInv'
  BY <1>0, RegisterUntouched DEF register
<1> QED
  BY <1>0, <1>4, <1>5, <1>6, <1>7, <1>8, <1>9 DEF IInv

LEMMA OnClosePacketKeeps ==
  ASSUME IInv, NEW c \in Conns, OnClosePacket(c)
  PROVE  IInv'
<1>0. TypeInv /\ \A d \in Conns : UpQueue(d) /\ DownQueue(d)
  BY DEF IInv
<1>m. PICK m : m = Head(up[c])
  OBVIOUS
<1> DEFINE r == m.pipe
           h == m.half
<1>1. /\ m \in UpMessages /\ m.type = "CLOSE" /\ r \in Pipes /\ h \in Halves /\ Takes(c, "CLOSE")
      /\ \A k \in Pipes : m # Packet("RESP", k, "b")
  BY <1>0, <1>m, HeadSays, MessageFacts DEF OnClosePacket, Takes
<1>2. Head(up[c]).pipe = r /\ Head(up[c]).half = h
  BY <1>m
<1>3. /\ UNCHANGED <<conn, register, closing, ends, server, latest, lost>>
      /\ IF route[r] # None /\ route[r].state[h] # "Closed"
           THEN HalfCloses(r, h, FALSE) ELSE UNCHANGED <<route, down>>
  BY <1>2 DEF OnClosePacket
<1>4. CASE route[r] # None /\ route[r].state[h] # "Closed"
  <2>1. HalfCloses(r, h, FALSE)
    BY <1>3, <1>4
  <2> QED
    BY <1>1, <1>3, <1>4, <2>1, ClosesKeep
<1>5. CASE ~(route[r] # None /\ route[r].state[h] # "Closed")
  <2>1. UNCHANGED <<route, down, conn, register, closing, ends, server, latest, lost>>
    BY <1>3, <1>5
  <2>2. \A k \in Pipes : Head(up[c]) # Packet("RESP", k, "b")
    BY <1>1, <1>m
  <2> QED
    BY <1>1, <2>1, <2>2, TakesOnly
<1> QED
  BY <1>4, <1>5

LEMMA OnOpenExpiredKeeps ==
  ASSUME IInv, NEW r \in Pipes, OnOpenExpired(r)
  PROVE  IInv'
<1>0. /\ TypeInv /\ RegisterInv /\ RouteInv /\ EndInv /\ ~lost
      /\ \A d \in Conns : UpQueue(d) /\ DownQueue(d)
  BY DEF IInv
<1>1. /\ route[r] # None /\ route[r] \in Routes /\ "b" \in Halves
      /\ UNCHANGED <<conn, register, closing, up, ends, server, latest, lost>>
  BY <1>0, RouteTypes, MessageFacts DEF OnOpenExpired
<1>2. CASE route[r].state["b"] = "OpenRequstSent"
  <2>1. HalfCloses(r, "b", TRUE)
    BY <1>2 DEF OnOpenExpired
  <2> QED
    BY <1>1, <2>1, ClosesKeep
<1>3. CASE route[r].state["b"] # "OpenRequstSent"
  <2> DEFINE new == [route[r] EXCEPT !.timer = FALSE]
  <2>1. route' = [route EXCEPT ![r] = new] /\ UNCHANGED down
    BY <1>3 DEF OnOpenExpired
  <2>2. new \in Routes /\ new.conn = route[r].conn /\ new.state = route[r].state /\ new # None
    <3>1. new \in Routes /\ new.conn = route[r].conn /\ new.state = route[r].state
      BY <1>1 DEF Routes
    <3> QED
      BY <3>1, C2Constants
  <2> HIDE DEF new
  <2>3. /\ route' \in [Pipes -> Routes \cup {None}]
        /\ \A k \in Pipes : route'[k] = None <=> route[k] = None
        /\ \A k \in Pipes : route[k] # None =>
             route'[k].conn = route[k].conn /\ route'[k].state = route[k].state
    BY <1>0, <1>1, <2>1, <2>2 DEF TypeInv
  <2>4. Advance
    BY <1>1, <2>3 DEF Advance, register, ends, LoggedIn
  <2>5. \A e \in Conns : UpQueue(e)' /\ DownQueue(e)'
    BY <1>0, <1>1, <2>1, <2>3, <2>4, UpUntouched, DownUntouched
  <2>6. RouteInv'
    <3> SUFFICES ASSUME NEW k \in Pipes, route'[k] # None
                 PROVE  RouteGood(k)'
      BY DEF RouteInv
    <3>1. route[k] # None /\ RouteGood(k) /\ server' = server /\ route'[k].state = route[k].state
      BY <1>0, <1>1, <2>3 DEF RouteInv
    <3>2. server' = "run" => Joined(route'[k].state)
      BY <3>1 DEF RouteGood
    <3> QED
      BY <1>0, <2>1, <2>4, <3>1, <3>2, RouteKept
  <2>7. EndInv'
    BY <1>0, <1>1, <2>4, EndKept DEF EndInv, ends
  <2>8. TypeInv'
    BY <1>0, <1>1, <2>1, <2>3 DEF TypeInv, register, ends
  <2>9. RegisterInv'
    BY <1>0, <1>1, RegisterUntouched DEF register
  <2> QED
    BY <1>0, <1>1, <2>5, <2>6, <2>7, <2>8, <2>9 DEF IInv
<1> QED
  BY <1>2, <1>3

-----------------------------------------------------------------------------
(* The clients *)

(* One half of the pipe object of a client changes. *)
LEMMA EndSet ==
  ASSUME TypeInv, NEW r \in Pipes, NEW h \in Halves, NEW s \in PipeStates, end' = [end EXCEPT ![r][h] = s]
  PROVE  /\ end' \in [Pipes -> [Halves -> PipeStates]]
         /\ end'[r][h] = s /\ \A g \in Halves \ {h} : end'[r][g] = end[r][g]
         /\ \A k \in Pipes \ {r} : end'[k] = end[k]
BY DEF TypeInv

(* One client has changed what it has of pipe r, and nothing is taken from    *)
(* the queues to the server.                                                  *)
LEMMA EndsKept ==
  ASSUME TypeInv, Advance, EndInv, UNCHANGED route, NEW r \in Pipes, EndGood(r)',
         \A k \in Pipes \ {r} : end'[k] = end[k] /\ want'[k] = want[k],
         \A d \in Conns : \A n : In(n, up[d]) => In(n, up'[d])
  PROVE  EndInv'
<1> SUFFICES ASSUME NEW k \in Pipes \ {r}
             PROVE  EndGood(k)'
  BY DEF EndInv
<1>1. /\ route[k] # None => route[k].conn["b"] \in Conns
      /\ EndGood(k) /\ end'[k] = end[k] /\ want'[k] = want[k]
  BY RouteTypes, MessageFacts DEF EndInv
<1> QED
  BY <1>1, EndKept

(* The client that acts on its half of a pipe has a connection. *)
LEMMA EndAt ==
  ASSUME TypeInv, RouteInv, EndInv, NEW r \in Pipes, NEW h \in Halves,
         end[r][h] \in {"OpenRequstSent", "Opened"}
  PROVE  At(r, h) \in Conns /\ want[r] # None /\ (h = "b" => route[r] # None)
<1>1. EndGood(r) /\ "b" \in Halves
  BY MessageFacts DEF EndInv
<1>2. CASE h = "a"
  <2>1. want[r] # None /\ want[r] \in Requests
    BY <1>1, <1>2 DEF EndGood, TypeInv
  <2> QED
    BY <1>2, <2>1 DEF At, Requests
<1>3. CASE h = "b"
  <2>1. route[r] # None
    BY <1>1, <1>3 DEF EndGood
  <2> QED
    BY <1>1, <1>3, <2>1, RouteTypes DEF At, RouteInv, RouteGood
<1> QED
  BY <1>2, <1>3 DEF Halves

(* A pipe is asked for once: no request for it is on its way.                 *)
LEMMA ClientOpenPipeKeeps ==
  ASSUME IInv, NEW c \in Conns, NEW r \in Pipes, NEW u \in Users, ClientOpenPipe(c, r, u)
  PROVE  IInv'
<1>0. /\ TypeInv /\ RegisterInv /\ RouteInv /\ EndInv /\ ~lost
      /\ \A d \in Conns : UpQueue(d) /\ DownQueue(d)
  BY DEF IInv
<1> DEFINE m == [type |-> "REQ", pipe |-> r, to |-> u]
<1>1. /\ want[r] = None /\ end' = [end EXCEPT ![r]["a"] = "OpenRequstSent"]
      /\ want' = [want EXCEPT ![r] = [by |-> c, to |-> u]]
      /\ up' = [up EXCEPT ![c] = Append(@, m)]
      /\ UNCHANGED <<conn, register, closing, route, down, server, latest, sent, lost>>
  BY DEF ClientOpenPipe
<1>2. /\ end' \in [Pipes -> [Halves -> PipeStates]]
      /\ end'[r]["a"] = "OpenRequstSent" /\ end'[r]["b"] = end[r]["b"]
      /\ \A k \in Pipes \ {r} : end'[k] = end[k]
  <2>1. "OpenRequstSent" \in PipeStates /\ "a" \in Halves /\ "b" \in Halves \ {"a"}
    BY DEF PipeStates, Halves
  <2> QED
    BY <1>0, <1>1, <2>1, EndSet
<1>3. /\ want' \in [Pipes -> Requests \cup {None}]
      /\ want'[r] # None /\ want'[r].by = c /\ want'[r].to = u
      /\ \A k \in Pipes \ {r} : want'[k] = want[k]
  <2> DEFINE w == [by |-> c, to |-> u]
  <2>1. w \in Requests /\ w.by = c /\ w.to = u
    BY DEF Requests
  <2>2. want' = [want EXCEPT ![r] = w]
    BY <1>1
  <2> HIDE DEF w
  <2> QED
    BY <1>0, <2>1, <2>2, C2Constants DEF TypeInv
<1>4. /\ m \in UpMessages /\ m.type = "REQ" /\ m.pipe = r /\ m.to = u
      /\ \A k \in Pipes : m # Packet("DATA", k, "b")
  <2>1. m \in UpMessages /\ m.type = "REQ" /\ m.pipe = r /\ m.to = u
    BY DEF UpMessages
  <2> QED
    BY <2>1, MessageFacts
<1> HIDE DEF m
<1>5. EndGood(r) /\ route[r] = None /\ end[r]["a"] = "None" /\ ~Done(end[r]["a"])
  BY <1>0, <1>1 DEF EndInv, EndGood, RouteInv, RouteGood, Done
<1>6. Advance
  <2>1. /\ \A k \in Pipes : want[k] # None => want'[k] = want[k]
        /\ \A k \in Pipes : end[k]["a"] # "None" => end'[k]["a"] # "None"
    BY <1>1, <1>2, <1>3
  <2>2. \A k \in Pipes : \A h \in Halves : Done(end[k][h]) => Done(end'[k][h])
    BY <1>2, <1>5 DEF Halves
  <2> QED
    BY <1>1, <2>1, <2>2 DEF Advance, register, LoggedIn
<1>7. /\ up' \in [Conns -> Seq(UpMessages)] /\ \A d \in Conns : UpQueue(d)'
      /\ \A d \in Conns : \A n : In(n, up[d]) => In(n, up'[d])
  <2>1. UpGood(c, m)'
    BY <1>1, <1>2, <1>3, <1>4, <1>5 DEF UpGood
  <2>2. \A n \in UpMessages : In(n, up[c]) => ~(n.type = "REQ" /\ n.pipe = r)
    BY <1>0, <1>1 DEF UpQueue, UpGood
  <2> QED
    BY <1>0, <1>1, <1>4, <1>6, <2>1, <2>2, ClientSaid
<1>8. \A d \in Conns : DownQueue(d)'
  BY <1>0, <1>1, <1>6, DownUntouched
<1>9. RouteInv'
  BY <1>0, <1>1, <1>6, RoutesUntouched
<1>10. EndInv'
  <2>1. EndGood(r)'
    BY <1>1, <1>2, <1>3, <1>5 DEF EndGood
  <2> QED
    BY <1>0, <1>1, <1>2, <1>3, <1>6, <1>7, <2>1, EndsKept
<1>11. TypeInv'
  BY <1>0, <1>1, <1>2, <1>3, <1>7 DEF TypeInv, register
<1>12. RegisterInv'
  BY <1>0, <1>1, RegisterUntouched DEF register
<1> QED
  BY <1>0, <1>1, <1>7, <1>8, <1>9, <1>10, <1>11, <1>12 DEF IInv

(* The client sends on a half that is open, behind the packet that opened it. *)
LEMMA ClientSendKeeps ==
  ASSUME IInv, NEW r \in Pipes, NEW h \in Halves, ClientSend(r, h)
  PROVE  IInv'
<1>0. /\ TypeInv /\ RegisterInv /\ RouteInv /\ EndInv /\ ~lost
      /\ \A d \in Conns : UpQueue(d) /\ DownQueue(d)
  BY DEF IInv
<1>m. PICK m : m = Packet("DATA", r, h)
  OBVIOUS
<1>c. PICK c : c = At(r, h)
  OBVIOUS
<1>1. /\ end[r][h] = "Opened" /\ sent' = [sent EXCEPT ![r][h] = @ + 1] /\ sent[r][h] < MaxData
      /\ up' = [up EXCEPT ![c] = Append(@, m)]
      /\ UNCHANGED <<conn, register, closing, route, down, end, server, want, latest, lost>>
  BY <1>m, <1>c DEF ClientSend, Says
<1>2. /\ c \in Conns /\ EndGood(r)
      /\ m \in UpMessages /\ m.type = "DATA" /\ m.pipe = r /\ m.half = h
      /\ \A k \in Pipes : m = Packet("DATA", k, "b") => k = r /\ h = "b"
  BY <1>0, <1>1, <1>m, <1>c, EndAt, MessageFacts DEF EndInv
<1>3. Advance
  BY <1>1 DEF Advance, register, LoggedIn
<1>4. route[r] # None /\ (h = "a" => Done(route[r].state["a"]))
      /\ (h = "b" => Done(route[r].state["b"]) \/ In(Packet("RESP", r, "b"), up[c]))
  BY <1>1, <1>2, <1>c DEF EndGood, Halves, At
<1>5. /\ up' \in [Conns -> Seq(UpMessages)] /\ \A d \in Conns : UpQueue(d)'
      /\ \A d \in Conns : \A n : In(n, up[d]) => In(n, up'[d])
  <2>1. UpGood(c, m)'
    BY <1>1, <1>2, <1>4 DEF UpGood
  <2> QED
    BY <1>0, <1>1, <1>2, <1>3, <1>4, <2>1, ClientSaid
<1>6. \A d \in Conns : DownQueue(d)'
  BY <1>0, <1>1, <1>3, DownUntouched
<1>7. RouteInv'
  BY <1>0, <1>1, <1>3, RoutesUntouched
<1>8. EndInv'
  <2>1. EndGood(r)'
    <3>1. route[r] # None => route[r].conn["b"] \in Conns
      BY <1>0, RouteTypes, MessageFacts
    <3> QED
      BY <1>0, <1>1, <1>2, <1>3, <1>5, <3>1, EndKept
  <2> QED
    BY <1>0, <1>1, <1>3, <1>5, <2>1, EndsKept
<1>9. TypeInv'
  <2>1. sent' \in [Pipes -> [Halves -> 0..MaxData]]
    <3>1. sent[r][h] + 1 \in 0..MaxData /\ sent \in [Pipes -> [Halves -> 0..MaxData]]
      BY <1>0, <1>1, C2Constants DEF TypeInv
    <3> QED
      BY <1>1, <3>1
  <2> QED
    BY <1>0, <1>1, <1>5, <2>1 DEF TypeInv, register
<1>10. RegisterInv'
  BY <1>0, <1>1, RegisterUntouched DEF register
<1> QED
  BY <1>0, <1>1, <1>5, <1>6, <1>7, <1>8, <1>9, <1>10 DEF IInv

LEMMA ClientCloseKeeps ==
  ASSUME IInv, NEW r \in Pipes, NEW h \in Halves, ClientClose(r, h)
  PROVE  IInv'
<1>0. /\ TypeInv /\ RegisterInv /\ RouteInv /\ EndInv /\ ~lost
      /\ \A d \in Conns : UpQueue(d) /\ DownQueue(d)
  BY DEF IInv
<1>m. PICK m : m = Packet("CLOSE", r, h)
  OBVIOUS
<1>c. PICK c : c = At(r, h)
  OBVIOUS
<1>1. /\ end[r][h] \in {"OpenRequstSent", "Opened"} /\ end' = [end EXCEPT ![r][h] = "Closed"]
      /\ up' = [up EXCEPT ![c] = Append(@, m)]
      /\ UNCHANGED <<conn, register, closing, route, down, server, want, latest, sent, lost>>
  BY <1>m, <1>c DEF ClientClose, Says
<1>2. /\ c \in Conns /\ EndGood(r) /\ want[r] # None
      /\ m \in UpMessages /\ m.type = "CLOSE" /\ m.pipe = r /\ m.half = h
      /\ \A k \in Pipes : m # Packet("DATA", k, "b")
  BY <1>0, <1>1, <1>m, <1>c, EndAt, MessageFacts DEF EndInv
<1>3. /\ end' \in [Pipes -> [Halves -> PipeStates]]
      /\ end'[r][h] = "Closed" /\ \A g \in Halves \ {h} : end'[r][g] = end[r][g]
      /\ \A k \in Pipes \ {r} : end'[k] = end[k]
  <2>1. "Closed" \in PipeStates
    BY DEF PipeStates
  <2> QED
    BY <1>0, <1>1, <2>1, EndSet
<1>4. Advance
  <2>1. \A k \in Pipes : end[k]["a"] # "None" => end'[k]["a"] # "None"
    BY <1>3, MessageFacts
  <2>2. \A k \in Pipes : \A g \in Halves : Done(end[k][g]) => Done(end'[k][g])
    BY <1>3 DEF Done
  <2> QED
    BY <1>1, <2>1, <2>2 DEF Advance, register, LoggedIn
<1>5. /\ up' \in [Conns -> Seq(UpMessages)] /\ \A d \in Conns : UpQueue(d)'
      /\ \A d \in Conns : \A n : In(n, up[d]) => In(n, up'[d])
  <2>1. UpGood(c, m)'
    BY <1>2 DEF UpGood
  <2> QED
    BY <1>0, <1>1, <1>2, <1>4, <2>1, ClientSaid
<1>6. \A d \in Conns : DownQueue(d)'
  BY <1>0, <1>1, <1>4, DownUntouched
<1>7. RouteInv'
  BY <1>0, <1>1, <1>4, RoutesUntouched
<1>8. EndInv'
  <2>1. EndGood(r)'
    <3>1. route[r] # None => route[r].conn["b"] \in Conns
      BY <1>0, RouteTypes, MessageFacts
    <3>2. CASE h = "a"
      <4>1. end'[r]["a"] = "Closed" /\ end'[r]["b"] = end[r]["b"]
        BY <1>3, <3>2 DEF Halves
      <4> QED
        BY <1>1, <1>2, <1>5, <3>1, <4>1 DEF EndGood
    <3>3. CASE h = "b"
      <4>1. end'[r]["b"] = "Closed" /\ end'[r]["a"] = end[r]["a"]
        BY <1>3, <3>3 DEF Halves
      <4> QED
        BY <1>1, <1>2, <4>1 DEF EndGood, Done
    <3> QED
      BY <3>2, <3>3 DEF Halves
  <2> QED
    BY <1>0, <1>1, <1>3, <1>4, <1>5, <2>1, EndsKept
<1>9. TypeInv'
  BY <1>0, <1>1, <1>3, <1>5 DEF TypeInv, register
<1>10. RegisterInv'
  BY <1>0, <1>1, RegisterUntouched DEF register
<1> QED
  BY <1>0, <1>1, <1>5, <1>6, <1>7, <1>8, <1>9, <1>10 DEF IInv

(* on_pipe(): the client that is asked accepts the pipe, or drops it.         *)
LEMMA ClientOnPipeKeeps ==
  ASSUME IInv, NEW c \in Conns, ClientOnPipe(c)
  PROVE  IInv'
<1>0. /\ TypeInv /\ RegisterInv /\ RouteInv /\ EndInv /\ ~lost
      /\ \A d \in Conns : UpQueue(d) /\ DownQueue(d)
  BY DEF IInv
<1>m. PICK m : m = Head(down[c])
  OBVIOUS
<1> DEFINE r == m.pipe
<1>1. /\ m \in DownMessages /\ DownGood(m) /\ m.type = "REQ" /\ r \in Pipes /\ Hears(c, "REQ")
      /\ \A k \in Pipes : Head(down[c]) # Packet("RESP", k, "a")
  BY <1>0, <1>m, HeadSays, MessageFacts DEF ClientOnPipe, Hears
<1>p. PICK p \in Pipes : p = r
  BY <1>1
<1>2. route[p] # None /\ RouteGood(p) /\ EndGood(p) /\ want[p] # None
  BY <1>0, <1>1, <1>p DEF DownGood, RouteInv, RouteGood, EndInv
<1>3. PICK d \in Conns : d = route[p].conn["b"] /\ d = At(p, "b")
  BY <1>0, <1>2, RouteTypes, MessageFacts DEF At
<1>4. PICK s \in {"Opened", "Closed"} :
        /\ end' = [end EXCEPT ![p]["b"] = s]
        /\ \/ s = "Opened" /\ up' = [up EXCEPT ![d] = Append(@, Packet("RESP", p, "b"))]
           \/ s = "Closed" /\ UNCHANGED up
  BY <1>m, <1>p, <1>3 DEF ClientOnPipe, Says
<1>5. UNCHANGED <<conn, register, closing, route, server, want, latest, sent, lost>>
  BY DEF ClientOnPipe
<1>6. /\ end' \in [Pipes -> [Halves -> PipeStates]]
      /\ end'[p]["b"] = s /\ end'[p]["a"] = end[p]["a"]
      /\ \A k \in Pipes \ {p} : end'[k] = end[k]
  <2>1. s \in PipeStates /\ "b" \in Halves /\ "a" \in Halves \ {"b"}
    BY DEF PipeStates, Halves
  <2>2. TypeInv /\ end' = [end EXCEPT ![p]["b"] = s]
    BY <1>0, <1>4
  <2> QED
    BY ONLY <2>1, <2>2, EndSet
<1>7. Advance
  <2>1. \A k \in Pipes : end[k]["a"] # "None" => end'[k]["a"] # "None"
    BY <1>6
  <2>2. \A k \in Pipes : \A g \in Halves : Done(end[k][g]) => Done(end'[k][g])
    BY <1>6 DEF Done, Halves
  <2> QED
    BY <1>5, <2>1, <2>2 DEF Advance, register, LoggedIn
<1>8. /\ up' \in [Conns -> Seq(UpMessages)] /\ \A e \in Conns : UpQueue(e)'
      /\ \A e \in Conns : \A n : In(n, up[e]) => In(n, up'[e])
      /\ s = "Opened" => In(Packet("RESP", p, "b"), up'[d])
  <2>1. CASE s = "Opened" /\ up' = [up EXCEPT ![d] = Append(@, Packet("RESP", p, "b"))]
    <3>1. PICK q : q = Packet("RESP", p, "b")
      OBVIOUS
    <3>2. /\ q \in UpMessages /\ q.type = "RESP" /\ q.pipe = p /\ q.half = "b"
          /\ \A k \in Pipes : q # Packet("DATA", k, "b")
      BY <3>1, MessageFacts
    <3>3. UpGood(d, q)'
      BY <1>2, <1>5, <1>6, <2>1, <3>2 DEF UpGood, Done
    <3>4. up' = [up EXCEPT ![d] = Append(@, q)]
      BY <2>1, <3>1
    <3> QED
      BY <1>0, <1>5, <1>7, <3>1, <3>2, <3>3, <3>4, ClientSaid
  <2>2. CASE s = "Closed" /\ UNCHANGED up
    <3>1. \A e \in Conns : UpQueue(e)'
      BY <1>0, <1>5, <1>7, <2>2, UpUntouched
    <3> QED
      BY <1>0, <2>2, <3>1 DEF TypeInv
  <2> QED
    BY <1>4, <2>1, <2>2
<1>9. /\ down' \in [Conns -> Seq(DownMessages)] /\ \A e \in Conns : DownQueue(e)'
      /\ \A e \in Conns : \A n : In(n, down[e]) => In(n, down'[e]) \/ n = Head(down[c])
  BY <1>0, <1>1, <1>7, ClientHeard
<1>10. RouteInv'
  <2>1. \A k \in Pipes : route[k] # None => route[k].conn["a"] \in Conns
    BY <1>0, RouteTypes, MessageFacts
  <2> QED
    BY <1>0, <1>1, <1>5, <1>7, <1>9, <2>1, RoutesUntouched
<1>11. EndInv'
  <2>1. EndGood(p)'
    BY <1>2, <1>3, <1>5, <1>6, <1>8 DEF EndGood, Done
  <2> QED
    BY <1>0, <1>5, <1>6, <1>7, <1>8, <2>1, EndsKept
<1>12. TypeInv'
  BY <1>0, <1>5, <1>6, <1>8, <1>9 DEF TypeInv, register
<1>13. RegisterInv'
  BY <1>0, <1>5, RegisterUntouched DEF register
<1> QED
  BY <1>0, <1>5, <1>8, <1>9, <1>10, <1>11, <1>12, <1>13 DEF IInv

(* The client that asked learns that the other one has accepted.              *)
LEMMA ClientOnRespKeeps ==
  ASSUME IInv, NEW c \in Conns, ClientOnResp(c)
  PROVE  IInv'
<1>0. /\ TypeInv /\ RegisterInv /\ RouteInv /\ EndInv /\ ~lost
      /\ \A d \in Conns : UpQueue(d) /\ DownQueue(d)
  BY DEF IInv
<1>m. PICK m : m = Head(down[c])
  OBVIOUS
<1> DEFINE r == m.pipe
<1>1. /\ m \in DownMessages /\ DownGood(m) /\ m.type = "RESP" /\ r \in Pipes /\ Hears(c, "RESP")
  BY <1>0, <1>m, HeadSays, MessageFacts DEF ClientOnResp, Hears
<1>p. PICK p \in Pipes : p = r
  BY <1>1
<1>2. /\ m = Packet("RESP", p, "a") /\ route[p] # None /\ EndGood(p)
      /\ Done(end[p]["b"]) /\ Done(route[p].state["a"]) /\ end[p]["a"] # "None"
      /\ \A k \in Pipes : m = Packet("RESP", k, "a") => k = p
  BY <1>0, <1>1, <1>p, MessageFacts DEF DownGood, RouteInv, RouteGood, EndInv
<1>3. /\ end' = IF end[p]["a"] = "OpenRequstSent" THEN [end EXCEPT ![p]["a"] = "Opened"] ELSE end
      /\ UNCHANGED <<conn, register, closing, route, up, server, want, latest, sent, lost>>
  BY <1>m, <1>p DEF ClientOnResp
<1>4. /\ end' \in [Pipes -> [Halves -> PipeStates]]
      /\ Done(end'[p]["a"]) /\ end'[p]["b"] = end[p]["b"]
      /\ \A k \in Pipes \ {p} : end'[k] = end[k]
  <2>1. CASE end[p]["a"] = "OpenRequstSent"
    <3>1. "Opened" \in PipeStates /\ "a" \in Halves /\ "b" \in Halves \ {"a"}
      BY DEF PipeStates, Halves
    <3> QED
      BY <1>0, <1>3, <2>1, <3>1, EndSet DEF Done
  <2>2. CASE end[p]["a"] # "OpenRequstSent"
    BY <1>0, <1>2, <1>3, <2>2 DEF TypeInv, EndGood, Done
  <2> QED
    BY <2>1, <2>2
<1>5. Advance
  <2>1. \A k \in Pipes : end[k]["a"] # "None" => end'[k]["a"] # "None"
    BY <1>4 DEF Done
  <2>2. \A k \in Pipes : \A g \in Halves : Done(end[k][g]) => Done(end'[k][g])
    BY <1>4 DEF Halves
  <2> QED
    BY <1>3, <2>1, <2>2 DEF Advance, register, LoggedIn
<1>6. \A e \in Conns : UpQueue(e)'
  BY <1>0, <1>3, <1>5, UpUntouched
<1>7. /\ down' \in [Conns -> Seq(DownMessages)] /\ \A e \in Conns : DownQueue(e)'
      /\ \A e \in Conns : \A n : In(n, down[e]) => In(n, down'[e]) \/ n = m
  <2>1. \A k \in Pipes : Head(down[c]) = Packet("RESP", k, "a") => Done(end'[k]["a"])
    BY <1>2, <1>4, <1>m
  <2> QED
    BY <1>0, <1>1, <1>5, <1>m, <2>1, ClientHeard
<1>8. RouteInv'
  <2>1. \A k \in Pipes : route[k] # None => route[k].conn["a"] \in Conns
    BY <1>0, RouteTypes, MessageFacts
  <2> QED
    BY <1>0, <1>2, <1>3, <1>4, <1>5, <1>7, <2>1, RoutesUntouched
<1>9. EndInv'
  <2>1. EndGood(p)'
    BY <1>2, <1>3, <1>4 DEF EndGood, Done
  <2> QED
    BY <1>0, <1>3, <1>4, <1>5, <2>1, EndsKept
<1>10. TypeInv'
  BY <1>0, <1>3, <1>4, <1>7 DEF TypeInv, register
<1>11. RegisterInv'
  BY <1>0, <1>3, RegisterUntouched DEF register
<1> QED
  BY <1>0, <1>3, <1>6, <1>7, <1>8, <1>9, <1>10, <1>11 DEF IInv

(* What arrives on a half finds it open, or closed by its client.             *)
LEMMA ClientOnDataKeeps ==
  ASSUME IInv, NEW c \in Conns, ClientOnData(c)
  PROVE  IInv'
<1>0. /\ TypeInv /\ RegisterInv /\ RouteInv /\ EndInv /\ ~lost
      /\ \A d \in Conns : UpQueue(d) /\ DownQueue(d)
  BY DEF IInv
<1>m. PICK m : m = Head(down[c])
  OBVIOUS
<1> DEFINE r == m.pipe
<1>1. /\ m \in DownMessages /\ DownGood(m) /\ m.type = "DATA" /\ r \in Pipes /\ Hears(c, "DATA")
      /\ m.half \in Halves /\ m = Packet("DATA", r, m.half)
      /\ \A k \in Pipes : m # Packet("RESP", k, "a")
  BY <1>0, <1>m, HeadSays, MessageFacts DEF ClientOnData, Hears
<1>2. Done(end[r][m.half])
  <2>1. CASE m.half = "a"
    BY <1>0, <1>1, <1>m, <2>1, HeadSays DEF Hears
  <2>2. CASE m.half = "b"
    BY <1>1, <2>2 DEF DownGood
  <2> QED
    BY <1>1, <2>1, <2>2 DEF Halves
<1>3. /\ UNCHANGED <<conn, register, closing, route, up, ends, server, latest>> /\ ~lost' /\ lost' \in BOOLEAN
  <2>1. lost' = (lost \/ end[r][m.half] \notin {"Opened", "Closed"})
    BY <1>m DEF ClientOnData
  <2> QED
    BY <1>0, <1>2, <2>1 DEF ClientOnData, Done
<1>4. Advance
  BY <1>3 DEF Advance, register, ends, LoggedIn
<1>5. \A e \in Conns : UpQueue(e)'
  BY <1>0, <1>3, <1>4, UpUntouched
<1>6. /\ down' \in [Conns -> Seq(DownMessages)] /\ \A e \in Conns : DownQueue(e)'
      /\ \A e \in Conns : \A n : In(n, down[e]) => In(n, down'[e]) \/ n = m
  BY <1>0, <1>1, <1>4, <1>m, ClientHeard
<1>7. RouteInv'
  <2>1. \A k \in Pipes : route[k] # None => route[k].conn["a"] \in Conns
    BY <1>0, RouteTypes, MessageFacts
  <2> QED
    BY <1>0, <1>1, <1>3, <1>4, <1>6, <2>1, RoutesUntouched
<1>8. EndInv'
  BY <1>0, <1>3, <1>4, EndKept DEF EndInv, ends
<1>9. TypeInv'
  BY <1>0, <1>3, <1>6 DEF TypeInv, register, ends
<1>10. RegisterInv'
  BY <1>0, <1>3, RegisterUntouched DEF register
<1> QED
  BY <1>0, <1>3, <1>5, <1>6, <1>7, <1>8, <1>9, <1>10 DEF IInv

LEMMA ClientOnCloseKeeps ==
  ASSUME IInv, NEW c \in Conns, ClientOnClose(c)
  PROVE  IInv'
<1>0. /\ TypeInv /\ RegisterInv /\ RouteInv /\ EndInv /\ ~lost
      /\ \A d \in Conns : UpQueue(d) /\ DownQueue(d)
  BY DEF IInv
<1>m. PICK m : m = Head(down[c])
  OBVIOUS
<1>1. /\ m \in DownMessages /\ DownGood(m) /\ m.type = "CLOSE" /\ m.pipe \in Pipes /\ Hears(c, "CLOSE")
      /\ m.half \in Halves /\ \A k \in Pipes : m # Packet("RESP", k, "a")
  BY <1>0, <1>m, HeadSays, MessageFacts DEF ClientOnClose, Hears
<1>p. PICK p \in Pipes : p = m.pipe
  BY <1>1
<1>h. PICK h \in Halves : h = m.half
  BY <1>1
<1>2. route[p] # None /\ EndGood(p) /\ want[p] # None /\ end[p]["a"] # "None"
  BY <1>0, <1>1, <1>p DEF DownGood, RouteInv, RouteGood, EndInv
<1>3. /\ end' = [end EXCEPT ![p][h] = "Closed"]
      /\ UNCHANGED <<conn, register, closing, route, up, server, want, latest, sent, lost>>
  BY <1>m, <1>p, <1>h DEF ClientOnClose
<1>4. /\ end' \in [Pipes -> [Halves -> PipeStates]]
      /\ end'[p][h] = "Closed" /\ \A g \in Halves \ {h} : end'[p][g] = end[p][g]
      /\ \A k \in Pipes \ {p} : end'[k] = end[k]
  <2>1. "Closed" \in PipeStates
    BY DEF PipeStates
  <2> QED
    BY <1>0, <1>3, <2>1, EndSet
<1>5. Advance
  <2>1. \A k \in Pipes : end[k]["a"] # "None" => end'[k]["a"] # "None"
    BY <1>4, MessageFacts
  <2>2. \A k \in Pipes : \A g \in Halves : Done(end[k][g]) => Done(end'[k][g])
    BY <1>4 DEF Done
  <2> QED
    BY <1>3, <2>1, <2>2 DEF Advance, register, LoggedIn
<1>6. \A e \in Conns : UpQueue(e)'
  BY <1>0, <1>3, <1>5, UpUntouched
<1>7. /\ down' \in [Conns -> Seq(DownMessages)] /\ \A e \in Conns : DownQueue(e)'
      /\ \A e \in Conns : \A n : In(n, down[e]) => In(n, down'[e]) \/ n = m
  BY <1>0, <1>1, <1>5, <1>m, ClientHeard
<1>8. RouteInv'
  <2>1. \A k \in Pipes : route[k] # None => route[k].conn["a"] \in Conns
    BY <1>0, RouteTypes, MessageFacts
  <2> QED
    BY <1>0, <1>1, <1>3, <1>5, <1>7, <2>1, RoutesUntouched
<1>9. EndInv'
  <2>1. EndGood(p)'
    <3>1. CASE h = "a"
      <4>1. end'[p]["a"] = "Closed" /\ end'[p]["b"] = end[p]["b"]
        BY <1>4, <3>1 DEF Halves
      <4> QED
        BY <1>2, <1>3, <4>1 DEF EndGood
    <3>2. CASE h = "b"
      <4>1. end'[p]["b"] = "Closed" /\ end'[p]["a"] = end[p]["a"]
        BY <1>4, <3>2 DEF Halves
      <4> QED
        BY <1>2, <1>3, <4>1 DEF EndGood, Done
    <3> QED
      BY <3>1, <3>2 DEF Halves
  <2> QED
    BY <1>0, <1>3, <1>4, <1>5, <2>1, EndsKept
<1>10. TypeInv'
  BY <1>0, <1>3, <1>4, <1>7 DEF TypeInv, register
<1>11. RegisterInv'
  BY <1>0, <1>3, RegisterUntouched DEF register
<1> QED
  BY <1>0, <1>3, <1>6, <1>7, <1>8, <1>9, <1>10, <1>11 DEF IInv

-----------------------------------------------------------------------------
(* The invariant holds *)

LEMMA Start ==
  ASSUME Init
  PROVE  IInv
<1>1. TypeInv
  <2>1. /\ conn \in [Conns -> {"none", "accepted", "open", "closed"}]
        /\ connections \subseteq Conns /\ closing \subseteq Conns
        /\ lookup \in [Names -> Conns \cup {None}] /\ latest \in [Names -> Conns \cup {None}]
        /\ selfLu \in [Conns -> {"unset", "own", "end"}]
        /\ name \in [Conns -> Names \cup {None}]
        /\ server \in {"run", "crashed", "selflock", "dangling"} /\ lost \in BOOLEAN
    BY DEF Init
  <2>2. /\ route \in [Pipes -> Routes \cup {None}] /\ want \in [Pipes -> Requests \cup {None}]
        /\ end \in [Pipes -> [Halves -> PipeStates]]
    BY DEF Init, PipeStates
  <2>3. up \in [Conns -> Seq(UpMessages)] /\ down \in [Conns -> Seq(DownMessages)]
    BY DEF Init
  <2>4. sent \in [Pipes -> [Halves -> 0..MaxData]]
    BY C2Constants DEF Init
  <2> QED
    BY <2>1, <2>2, <2>3, <2>4 DEF TypeInv
<1>2. RegisterInv
  BY DEF Init, RegisterInv
<1>3. ASSUME NEW c \in Conns
      PROVE  UpQueue(c) /\ DownQueue(c)
  <2>1. up[c] = <<>> /\ down[c] = <<>>
    BY DEF Init
  <2> QED
    BY <2>1, EmptyQueue DEF UpQueue, DownQueue
<1>4. RouteInv
  BY DEF Init, RouteInv
<1>5. EndInv
  BY DEF Init, EndInv, EndGood, Halves
<1> QED
  BY <1>1, <1>2, <1>3, <1>4, <1>5 DEF IInv, Init

LEMMA Step ==
  ASSUME IInv, [Next]_vars
  PROVE  IInv'
<1>1. ASSUME NEW c \in Conns, OnAccept(c) \/ Disconnect(c)
      PROVE  IInv'
  BY <1>1, OthersKeep
<1>2. ASSUME NEW c \in Conns, OnClose(c)
      PROVE  IInv'
  BY <1>2, OnCloseKeeps
<1>3. ASSUME NEW c \in Conns, NEW u \in Names, OnOpen(c, u)
      PROVE  IInv'
  BY <1>3, OnOpenKeeps
<1>4. ASSUME NEW c \in Conns, ServerHandles(c)
      PROVE  IInv'
  BY <1>4, OnPipeKeeps, OnRespKeeps, OnDataKeeps, OnClosePacketKeeps DEF ServerHandles
<1>5. ASSUME NEW c \in Conns, ClientHandles(c)
      PROVE  IInv'
  BY <1>5, ClientOnPipeKeeps, ClientOnRespKeeps, ClientOnDataKeeps, ClientOnCloseKeeps DEF ClientHandles
<1>6. ASSUME NEW c \in Conns, NEW r \in Pipes, NEW u \in Users, ClientOpenPipe(c, r, u)
      PROVE  IInv'
  BY <1>6, ClientOpenPipeKeeps
<1>7. ASSUME NEW r \in Pipes, OnOpenExpired(r)
      PROVE  IInv'
  BY <1>7, OnOpenExpiredKeeps
<1>8. ASSUME NEW r \in Pipes, NEW h \in Halves, ClientActs(r, h)
      PROVE  IInv'
  BY <1>8, ClientSendKeeps, ClientCloseKeeps DEF ClientActs
<1>9. CASE UNCHANGED vars
  BY <1>9, OthersKeep
<1> QED
  BY <1>1, <1>2, <1>3, <1>4, <1>5, <1>6, <1>7, <1>8, <1>9 DEF Next

(* The register, the routes, the pipe objects of the clients and the packets  *)
(* between them agree in every state, for any number of connections, users    *)
(* and pipes (c2_server.cpp, c2_client.cpp).                                  *)
THEOREM Invariance == Spec => []IInv
<1>1. Init => IInv
  BY Start
<1>2. IInv /\ [Next]_vars => IInv'
  BY Step
<1> QED
  BY <1>1, <1>2, PTL DEF Spec

(* Every variable keeps its type, and a route holds two pipes of connections  *)
(* that were logged in (c2_server.cpp C2ServerRoute start()).                 *)
THEOREM TypesCorrect == Spec => []TypeOK
<1>1. ASSUME IInv
      PROVE  TypeOK
  <2>1. TypeInv /\ RouteInv
    BY <1>1 DEF IInv
  <2>2. ASSUME NEW r \in Pipes, route[r] # None
        PROVE  /\ route[r].conn \in [Halves -> {c \in Conns : conn[c] \in {"open", "closed"}}]
               /\ route[r].state \in [Halves -> PipeStates] /\ route[r].timer \in BOOLEAN
    <3>1. route[r] \in Routes
      BY <2>1, <2>2, RouteTypes
    <3>2. \A h \in Halves : LoggedIn(route[r].conn[h])
      BY <2>1, <2>2 DEF RouteInv, RouteGood
    <3> QED
      BY <3>1, <3>2 DEF Routes, LoggedIn
  <2> QED
    BY <2>1, <2>2 DEF TypeInv, TypeOK
<1> QED
  BY <1>1, Invariance, PTL

(* A fingerprint leads to the client that logged in last with it, whatever    *)
(* the order in which its earlier connections close: the entry is erased by   *)
(* the connection it leads to and by no other one, and once (c2_server.cpp    *)
(* on_open(), on_close(); the use of an iterator that was never set ends the  *)
(* run of the server).                                                        *)
THEOREM LookupCorrect == Spec => []LookupIsLatest
<1>1. IInv => LookupIsLatest
  BY DEF IInv, RegisterInv, LookupIsLatest
<1> QED
  BY <1>1, Invariance, PTL

(* A pipe that the client that asked sees open has been accepted by the       *)
(* client it asked for, and nothing sent on an open pipe is dropped on its    *)
(* way before an end of it is closed (c2_server.cpp on_pipe(), C2ServerRoute  *)
(* on_open(), on_packet_a(), on_packet_b()).                                  *)
THEOREM OpenFromEndToEnd == Spec => []OpenEndToEnd
<1>1. ASSUME IInv
      PROVE  OpenEndToEnd
  <2>1. RouteInv /\ EndInv /\ ~lost
    BY <1>1 DEF IInv
  <2> QED
    BY <2>1 DEF RouteInv, RouteGood, EndInv, EndGood, Done, OpenEndToEnd
<1> QED
  BY <1>1, Invariance, PTL

=============================================================================
