--------------------------- MODULE EndpointProofs ---------------------------
(***************************************************************************)
(* What holds of the two lookups of a client: of NatProbe for every set of  *)
(* queries, servers and other programs and every NAT, and of IpLookup for   *)
(* every address, replies, length fields and chunks.                        *)
(***************************************************************************)
EXTENDS IpLookup, NatProbe, FiniteSetTheorems, SequenceTheorems, TLAPS

-----------------------------------------------------------------------------
(* Induction, over sets in place of properties *)

(* A set of numbers that is not empty has a least element: of its elements'   *)
(* intervals from 0 one is smallest.                                          *)
LEMMA LeastNumber ==
  ASSUME NEW T, T \subseteq Nat, NEW t \in T
  PROVE  \E x \in T : \A y \in T : x <= y
<1> DEFINE F == {S \in SUBSET (0..t) : \E y \in T : S = 0..y}
<1>1. /\ F \subseteq SUBSET (0..t) /\ 0..t \in F /\ t \in Nat
      /\ IsWellFoundedOn(StrictSubsetOrdering(0..t), SUBSET (0..t))
  <2>1. t \in Nat /\ IsFiniteSet(0..t)
    BY FS_Interval
  <2> QED
    BY <2>1, FS_StrictSubsetOrderingWellFounded, FS_FiniteSubsetsOfFinite
<1> HIDE DEF F
<1>2. PICK S \in F : \A U \in F : ~ (<<U, S>> \in StrictSubsetOrdering(0..t))
  <2>1. F # {}
    BY <1>1
  <2> QED
    BY ONLY <1>1, <2>1, WFMin
<1>3. PICK x \in T : S = 0..x /\ x \in 0..t
  BY <1>1 DEF F
<1>4. ASSUME NEW y \in T, y < x PROVE FALSE
  <2>1. 0..y \in F /\ 0..y \subseteq S /\ 0..y # S
    BY <1>1, <1>3, <1>4 DEF F
  <2> QED
    BY <1>1, <1>2, <2>1 DEF StrictSubsetOrdering
<1> QED
  BY <1>3, <1>4

(* Induction: a set with 0 and all successors holds every number.             *)
LEMMA Induction ==
  ASSUME NEW T, 0 \in T, \A n \in Nat : n \in T => n + 1 \in T
  PROVE  Nat \subseteq T
<1> SUFFICES ASSUME NEW t \in Nat \ T PROVE FALSE
  OBVIOUS
<1>1. PICK x \in Nat \ T : \A y \in Nat \ T : x <= y
  <2> DEFINE U == Nat \ T
  <2>1. U \subseteq Nat /\ t \in U
    OBVIOUS
  <2> HIDE DEF U
  <2>2. \E x \in U : \A y \in U : x <= y
    BY <2>1, LeastNumber
  <2> QED
    BY <2>2 DEF U
<1>2. x - 1 \in Nat
  BY <1>1
<1>3. x - 1 \in T
  BY <1>1, <1>2
<1> QED
  BY <1>1, <1>2, <1>3

-----------------------------------------------------------------------------
(* FlattenSeq *)

(* f is the function that FlattenSeq defines, for the first n of s.           *)
Flattens(f, s, n) == f = [i \in 1..n |-> IF i = 1 THEN s[i] ELSE f[i - 1] \o s[i]]

LEMMA FlattensAt ==
  ASSUME NEW f, NEW s, NEW n \in Nat, Flattens(f, s, n), NEW i \in 1..n
  PROVE  f[i] = IF i = 1 THEN s[i] ELSE f[i - 1] \o s[i]
<1> DEFINE h == [j \in 1..n |-> IF j = 1 THEN s[j] ELSE f[j - 1] \o s[j]]
<1>1. f = h
  BY DEF Flattens
<1>2. h[i] = IF i = 1 THEN s[i] ELSE f[i - 1] \o s[i]
  OBVIOUS
<1> HIDE DEF h
<1> QED
  BY ONLY <1>1, <1>2

LEMMA FlattensExists ==
  ASSUME NEW s, NEW n \in Nat
  PROVE  \E f : Flattens(f, s, n)
<1> DEFINE T == {k \in Nat : \E f : Flattens(f, s, k)}
<1>1. 0 \in T
  <2> DEFINE f == [i \in 1..0 |-> s[i]]
  <2>1. Flattens(f, s, 0)
    BY DEF Flattens
  <2> QED
    BY <2>1
<1>2. ASSUME NEW k \in Nat, k \in T PROVE k + 1 \in T
  <2>1. PICK f : Flattens(f, s, k)
    BY <1>2
  <2> DEFINE g == [i \in 1..(k + 1) |-> IF i <= k THEN f[i] ELSE IF i = 1 THEN s[i] ELSE f[k] \o s[i]]
  <2>2. \A i \in 1..(k + 1) : g[i] = IF i = 1 THEN s[i] ELSE g[i - 1] \o s[i]
    <3> TAKE i \in 1..(k + 1)
    <3>1. CASE i <= k
      <4>1. f[i] = IF i = 1 THEN s[i] ELSE f[i - 1] \o s[i]
        BY <2>1, <3>1, FlattensAt
      <4>2. i # 1 => i - 1 \in 1..(k + 1) /\ i - 1 <= k
        BY <3>1
      <4> QED
        BY <3>1, <4>1, <4>2
    <3>2. CASE i = k + 1
      <4>1. i # 1 => i - 1 \in 1..(k + 1) /\ i - 1 <= k /\ i - 1 = k
        BY <3>2
      <4> QED
        BY <3>2, <4>1
    <3> QED
      BY <3>1, <3>2
  <2>3. g = [i \in 1..(k + 1) |-> g[i]]
    OBVIOUS
  <2> HIDE DEF g
  <2>4. Flattens(g, s, k + 1)
    BY <2>2, <2>3 DEF Flattens
  <2> QED
    BY <2>4
<1> HIDE DEF T
<1>3. Nat \subseteq T
  BY <1>1, <1>2, Induction
<1> QED
  BY <1>3 DEF T

LEMMA FlattensAgree ==
  ASSUME NEW s, NEW t, NEW n \in Nat, NEW m \in Nat, n <= m, \A i \in 1..n : s[i] = t[i],
         NEW f, NEW g, Flattens(f, s, n), Flattens(g, t, m)
  PROVE  \A i \in 1..n : f[i] = g[i]
<1> DEFINE T == {k \in Nat : k \in 1..n => f[k] = g[k]}
<1>1. 0 \in T
  OBVIOUS
<1>2. ASSUME NEW k \in Nat, k \in T PROVE k + 1 \in T
  <2> SUFFICES ASSUME k + 1 \in 1..n PROVE f[k + 1] = g[k + 1]
    OBVIOUS
  <2>1. /\ f[k + 1] = IF k + 1 = 1 THEN s[k + 1] ELSE f[k] \o s[k + 1]
        /\ g[k + 1] = IF k + 1 = 1 THEN t[k + 1] ELSE g[k] \o t[k + 1]
    <3>1. k + 1 \in 1..m /\ k + 1 \in 1..n /\ (k + 1) - 1 = k
      OBVIOUS
    <3> QED
      BY <3>1, FlattensAt
  <2>2. k + 1 # 1 => f[k] = g[k]
    BY <1>2
  <2> QED
    BY <2>1, <2>2
<1> HIDE DEF T
<1>3. Nat \subseteq T
  BY <1>1, <1>2, Induction
<1> QED
  BY <1>3 DEF T

LEMMA FlattenAppend ==
  ASSUME NEW S, NEW s \in Seq(S), NEW x \in S
  PROVE  FlattenSeq(Append(s, x)) = IF s = <<>> THEN x ELSE FlattenSeq(s) \o x
<1> DEFINE a == Append(s, x)
           n == Len(s)
<1>1. n \in Nat /\ Len(a) = n + 1 /\ a[n + 1] = x /\ \A i \in 1..n : s[i] = a[i]
  OBVIOUS
<1> HIDE DEF a
<1>2. PICK g : Flattens(g, a, n + 1) /\ FlattenSeq(a) = g[n + 1]
  <2> DEFINE h == CHOOSE g : Flattens(g, a, n + 1)
  <2>1. Flattens(h, a, n + 1)
    BY <1>1, FlattensExists
  <2>2. FlattenSeq(a) = h[n + 1]
    BY <1>1 DEF FlattenSeq, Flattens
  <2> QED
    BY <2>1, <2>2
<1>3. CASE s = <<>>
  <2>1. n = 0 /\ g[1] = a[1]
    BY <1>2, <1>3 DEF Flattens
  <2> QED
    BY <1>1, <1>2, <1>3, <2>1 DEF a
<1>4. CASE s # <<>>
  <2>0. n # 0
    BY <1>4
  <2>1. PICK f : Flattens(f, s, n) /\ FlattenSeq(s) = f[n]
    <3> DEFINE h == CHOOSE f : Flattens(f, s, n)
    <3>1. Flattens(h, s, n)
      BY <1>1, FlattensExists
    <3>2. FlattenSeq(s) = h[n]
      BY <1>1, <2>0 DEF FlattenSeq, Flattens
    <3> QED
      BY <3>1, <3>2
  <2>2. f[n] = g[n]
    <3>1. n \in 1..n /\ n <= n + 1 /\ n + 1 \in Nat /\ n \in Nat
      BY <1>1, <2>0
    <3> DEFINE m == n + 1
    <3>2. n \in Nat /\ m \in Nat /\ n <= m /\ (\A i \in 1..n : s[i] = a[i]) /\ Flattens(f, s, n) /\ Flattens(g, a, m)
      BY ONLY <1>1, <1>2, <2>1, <3>1
    <3> HIDE DEF n, m
    <3>3. \A i \in 1..n : f[i] = g[i]
      BY ONLY <3>2, FlattensAgree
    <3> QED
      BY ONLY <3>1, <3>3
  <2>3. g[n + 1] = g[n] \o a[n + 1]
    <3>1. n + 1 \in 1..(n + 1) /\ (n + 1) - 1 = n /\ n + 1 # 1 /\ n + 1 \in Nat
      BY <1>1, <2>0
    <3> HIDE DEF n
    <3>2. g[n + 1] = IF n + 1 = 1 THEN a[n + 1] ELSE g[(n + 1) - 1] \o a[n + 1]
      BY ONLY <1>2, <3>1, FlattensAt
    <3> QED
      BY ONLY <3>1, <3>2
  <2> QED
    BY <1>1, <1>2, <1>4, <2>1, <2>2, <2>3 DEF a
<1> QED
  BY <1>3, <1>4

LEMMA FlattenEmpty == FlattenSeq(<<>>) = <<>>
  BY DEF FlattenSeq

LEMMA FlattenType ==
  ASSUME NEW S, NEW s \in Seq(Seq(S))
  PROVE  FlattenSeq(s) \in Seq(S)
<1> DEFINE T == {n \in Nat : \A u \in Seq(Seq(S)) : Len(u) = n => FlattenSeq(u) \in Seq(S)}
<1>1. 0 \in T
  <2>1. \A u \in Seq(Seq(S)) : Len(u) = 0 => u = <<>>
    BY EmptySeq
  <2> QED
    BY <2>1, FlattenEmpty
<1>2. ASSUME NEW n \in Nat, n \in T PROVE n + 1 \in T
  <2> SUFFICES ASSUME NEW u \in Seq(Seq(S)), Len(u) = n + 1 PROVE FlattenSeq(u) \in Seq(S)
    OBVIOUS
  <2>1. PICK v \in Seq(Seq(S)), x \in Seq(S) : u = Append(v, x)
    <3> u # <<>>
      OBVIOUS
    <3> QED
      BY SequenceEmptyOrAppend
  <2>2. Len(v) = n
    BY <2>1
  <2>3. FlattenSeq(v) \in Seq(S)
    BY <1>2, <2>2
  <2>4. FlattenSeq(u) = IF v = <<>> THEN x ELSE FlattenSeq(v) \o x
    BY <2>1, FlattenAppend
  <2> QED
    BY <2>3, <2>4
<1> HIDE DEF T
<1>3. Nat \subseteq T
  BY <1>1, <1>2, Induction
<1> QED
  BY <1>3 DEF T

(* What FlattenSeq makes of sequences put together. *)
LEMMA FlattenConcat ==
  ASSUME NEW S, NEW s \in Seq(Seq(S)), NEW t \in Seq(Seq(S))
  PROVE  FlattenSeq(s \o t) = FlattenSeq(s) \o FlattenSeq(t)
<1> DEFINE T == {n \in Nat : \A u \in Seq(Seq(S)) : Len(u) = n => FlattenSeq(s \o u) = FlattenSeq(s) \o FlattenSeq(u)}
<1>1. 0 \in T
  <2>1. \A u \in Seq(Seq(S)) : Len(u) = 0 => u = <<>>
    BY EmptySeq
  <2>2. s \o <<>> = s /\ FlattenSeq(s) \o <<>> = FlattenSeq(s)
    BY FlattenType, ConcatEmptySeq
  <2> QED
    BY <2>1, <2>2, FlattenEmpty
<1>2. ASSUME NEW n \in Nat, n \in T PROVE n + 1 \in T
  <2> SUFFICES ASSUME NEW u \in Seq(Seq(S)), Len(u) = n + 1
               PROVE  FlattenSeq(s \o u) = FlattenSeq(s) \o FlattenSeq(u)
    OBVIOUS
  <2>1. PICK v \in Seq(Seq(S)), x \in Seq(S) : u = Append(v, x)
    <3> u # <<>>
      OBVIOUS
    <3> QED
      BY SequenceEmptyOrAppend
  <2>2. Len(v) = n
    BY <2>1
  <2>3. FlattenSeq(s \o v) = FlattenSeq(s) \o FlattenSeq(v)
    BY <1>2, <2>2
  <2>4. FlattenSeq(s) \in Seq(S) /\ FlattenSeq(v) \in Seq(S) /\ s \o v \in Seq(Seq(S))
    BY FlattenType
  <2>5. s \o u = Append(s \o v, x)
    BY <2>1
  <2>6. FlattenSeq(u) = FlattenSeq(v) \o x
    <3>1. FlattenSeq(u) = IF v = <<>> THEN x ELSE FlattenSeq(v) \o x
      BY <2>1, FlattenAppend
    <3>2. <<>> \o x = x
      BY ConcatEmptySeq
    <3> QED
      BY <3>1, <3>2, FlattenEmpty
  <2>7. FlattenSeq(s \o u) = FlattenSeq(s \o v) \o x
    <3>1. FlattenSeq(s \o u) = IF s \o v = <<>> THEN x ELSE FlattenSeq(s \o v) \o x
      BY <2>4, <2>5, FlattenAppend
    <3>2. <<>> \o x = x
      BY ConcatEmptySeq
    <3> QED
      BY <3>1, <3>2, FlattenEmpty
  <2> QED
    <3> DEFINE a == FlattenSeq(s)
               b == FlattenSeq(v)
    <3>0. a \in Seq(S) /\ b \in Seq(S) /\ x \in Seq(S)
      BY <2>4
    <3> HIDE DEF a, b
    <3>1. (a \o b) \o x = a \o (b \o x)
      BY ONLY <3>0, ConcatAssociative, SMTT(20)
    <3> QED
      BY <2>3, <2>6, <2>7, <3>1 DEF a, b
<1> HIDE DEF T
<1>3. Nat \subseteq T
  BY <1>1, <1>2, Induction
<1>4. Len(t) \in Nat
  OBVIOUS
<1> QED
  BY <1>3, <1>4 DEF T

LEMMA FlattenOne ==
  ASSUME NEW S, NEW x \in Seq(S)
  PROVE  FlattenSeq(<<x>>) = x
<1>1. <<x>> = Append(<<>>, x) /\ <<>> \in Seq(Seq(S))
  OBVIOUS
<1>2. FlattenSeq(Append(<<>>, x)) = x
  BY <1>1, FlattenAppend
<1> QED
  BY ONLY <1>1, <1>2

-----------------------------------------------------------------------------
(* Blob *)

Sound(b) == b \in [mem : Seq(Nat), pre : Nat, size : Nat] /\ SelfTest(b)

LEMMA SoundBlob ==
  ASSUME NEW b, Sound(b)
  PROVE  /\ b.mem \in Seq(Nat) /\ b.pre \in Nat /\ b.size \in Nat /\ Len(b.mem) \in Nat
         /\ b.pre + b.size <= Len(b.mem)
         /\ b = [mem |-> b.mem, pre |-> b.pre, size |-> b.size]
BY DEF Sound, SelfTest

(* The cells of the active part. *)
LEMMA ContentCells ==
  ASSUME NEW b, Sound(b)
  PROVE  /\ Content(b) \in Seq(Nat) /\ Len(Content(b)) = b.size
         /\ \A i \in 1..b.size : Content(b)[i] = b.mem[b.pre + i]
<1> DEFINE m == b.mem
           p == b.pre
           z == b.size
<1>1. m \in Seq(Nat) /\ p \in Nat /\ z \in Nat /\ Len(m) \in Nat /\ p + z <= Len(m)
  BY SoundBlob
<1>2. Content(b) = SubSeq(m, p + 1, p + z)
  BY DEF Content
<1> HIDE DEF m, p, z
<1>3. /\ SubSeq(m, p + 1, p + z) \in Seq(Nat) /\ Len(SubSeq(m, p + 1, p + z)) = z
      /\ \A i \in 1..z : SubSeq(m, p + 1, p + z)[i] = m[p + i]
  BY <1>1
<1> QED
  BY <1>2, <1>3 DEF m, p, z

LEMMA ZeroCells ==
  ASSUME NEW n \in Nat
  PROVE  Zeros(n) \in Seq(Nat) /\ Len(Zeros(n)) = n
BY DEF Zeros

LEMMA LenFieldCells ==
  ASSUME NEW n \in Nat
  PROVE  LenField(n) \in Seq(Nat) /\ Len(LenField(n)) = LenSize /\ LenField(n)[1] = n
<1>1. LenSize - 1 \in Nat
  BY LenSizeAssumption
<1>2. Zeros(LenSize - 1) \in Seq(Nat) /\ Len(Zeros(LenSize - 1)) = LenSize - 1
  BY <1>1, ZeroCells
<1> QED
  BY <1>1, <1>2, LenSizeAssumption DEF LenField

(* bufcpy() changes the cells of src and no others. *)
LEMMA BufcpyCells ==
  ASSUME NEW mem \in Seq(Nat), NEW src \in Seq(Nat), NEW off \in Nat, off + Len(src) <= Len(mem)
  PROVE  /\ Bufcpy(mem, off, src) \in Seq(Nat) /\ Len(Bufcpy(mem, off, src)) = Len(mem)
         /\ \A i \in 1..Len(mem) :
              Bufcpy(mem, off, src)[i] = IF off < i /\ i <= off + Len(src) THEN src[i - off] ELSE mem[i]
<1> DEFINE n == Len(mem)
           l == Len(src)
           a == SubSeq(mem, 1, off)
           c == SubSeq(mem, off + l + 1, n)
<1>1. n \in Nat /\ l \in Nat /\ off + l <= n
  OBVIOUS
<1>2. a \in Seq(Nat) /\ Len(a) = off /\ \A i \in 1..off : a[i] = mem[i]
  OBVIOUS
<1>3. c \in Seq(Nat) /\ Len(c) = n - (off + l) /\ \A i \in 1..(n - (off + l)) : c[i] = mem[off + l + i]
  OBVIOUS
<1> HIDE DEF a, c
<1>4. /\ a \o src \in Seq(Nat) /\ Len(a \o src) = off + l
      /\ \A i \in 1..(off + l) : (a \o src)[i] = IF i <= off THEN a[i] ELSE src[i - off]
  BY <1>2, ConcatProperties
<1> DEFINE u == a \o src
<1> HIDE DEF u
<1>5. /\ u \o c \in Seq(Nat) /\ Len(u \o c) = n
      /\ \A i \in 1..n : (u \o c)[i] = IF i <= off + l THEN u[i] ELSE c[i - (off + l)]
  <2>1. u \in Seq(Nat) /\ Len(u) = off + l
    BY <1>4 DEF u
  <2>2. /\ u \o c \in Seq(Nat) /\ Len(u \o c) = Len(u) + Len(c)
        /\ \A i \in 1..(Len(u) + Len(c)) : (u \o c)[i] = IF i <= Len(u) THEN u[i] ELSE c[i - Len(u)]
    <3>1. c \in Seq(Nat)
      BY <1>3
    <3> QED
      BY ONLY <2>1, <3>1, ConcatProperties
  <2>3. Len(u) + Len(c) = n
    BY <1>1, <1>3, <2>1
  <2> QED
    BY ONLY <2>1, <2>2, <2>3
<1>6. Bufcpy(mem, off, src) = u \o c
  BY DEF Bufcpy, u, a, c
<1>7. \A i \in 1..n : (u \o c)[i] = IF off < i /\ i <= off + l THEN src[i - off] ELSE mem[i]
  <2> TAKE i \in 1..n
  <2>1. CASE i <= off
    <3>1. i \in 1..off /\ i \in 1..(off + l)
      BY <1>1, <2>1
    <3> QED
      BY <1>1, <1>2, <1>4, <1>5, <2>1, <3>1 DEF u
  <2>2. CASE off < i /\ i <= off + l
    <3>1. i \in 1..(off + l) /\ i <= off + l /\ ~(i <= off)
      BY <1>1, <2>2
    <3>2. u[i] = src[i - off]
      BY <1>4, <3>1 DEF u
    <3>3. i \in 1..n
      OBVIOUS
    <3> QED
      BY ONLY <1>5, <2>2, <3>1, <3>2, <3>3
  <2>3. CASE off + l < i
    <3> DEFINE j == i - (off + l)
    <3>1. j \in 1..(n - (off + l)) /\ off + l + j = i /\ ~(i <= off + l)
      BY <1>1, <2>3
    <3>2. (u \o c)[i] = c[j]
      BY <1>5, <3>1
    <3> HIDE DEF j
    <3>3. c[j] = mem[i]
      BY <1>3, <3>1
    <3> QED
      BY ONLY <2>3, <3>2, <3>3
  <2>4. i <= off \/ (off < i /\ i <= off + l) \/ off + l < i
    BY <1>1
  <2> QED
    BY ONLY <2>1, <2>2, <2>3, <2>4
<1> QED
  BY <1>5, <1>6, <1>7

LEMMA Inside ==
  ASSUME NEW q \in Nat, NEW z \in Nat, NEW n \in Nat, q + z <= n, NEW i \in 1..z
  PROVE  q + i \in 1..n
OBVIOUS

LEMMA Enlarged ==
  ASSUME NEW old \in Nat, NEW min \in Nat
  PROVE  LET new == IF old < min THEN min + (min - old) ELSE old
         IN  new \in Nat /\ min <= new /\ old <= new
OBVIOUS

(* The gaps are made, and the active part stays what it was. *)
LEMMA GrowGapKeeps ==
  ASSUME NEW b, Sound(b), NEW p \in Nat, NEW e \in Nat
  PROVE  /\ Sound(GrowGap(b, p, e)) /\ GrowGap(b, p, e).size = b.size
         /\ p <= GrowGap(b, p, e).pre /\ e <= EndGap(GrowGap(b, p, e))
         /\ Content(GrowGap(b, p, e)) = Content(b)
<1> DEFINE g == GrowGap(b, p, e)
           q == b.pre
           f == EndGap(b)
           z == b.size
           pre == IF q < p THEN p + (p - q) ELSE q
           end == IF f < e THEN e + (e - f) ELSE f
           capacity == pre + z + end
           con == Content(b)
<1>1. /\ b.mem \in Seq(Nat) /\ q \in Nat /\ z \in Nat /\ Len(b.mem) \in Nat /\ f \in Nat
      /\ q + z <= Len(b.mem) /\ f = Len(b.mem) - q - z
  BY SoundBlob DEF EndGap
<1> HIDE DEF q, f, z
<1>2. pre \in Nat /\ end \in Nat /\ capacity \in Nat /\ p <= pre /\ e <= end /\ q <= pre /\ f <= end
  <2>1. pre \in Nat /\ p <= pre /\ q <= pre
    BY <1>1, Enlarged
  <2>2. end \in Nat /\ e <= end /\ f <= end
    BY <1>1, Enlarged
  <2> HIDE DEF pre, end
  <2> QED
    BY <1>1, <2>1, <2>2
<1>3. g = IF capacity > Len(b.mem) THEN [mem |-> Bufcpy(Zeros(capacity), pre, con), pre |-> pre, size |-> z] ELSE b
  BY DEF GrowGap, q, f, z
<1>c. con \in Seq(Nat) /\ Len(con) = z /\ \A i \in 1..z : con[i] = b.mem[q + i]
  BY ContentCells DEF q, z
<1>4. CASE capacity > Len(b.mem)
  <2>0. capacity = pre + z + end
    OBVIOUS
  <2> HIDE DEF capacity, pre, end, con
  <2>1. pre + Len(con) <= Len(Zeros(capacity)) /\ Len(Zeros(capacity)) = capacity /\ Zeros(capacity) \in Seq(Nat)
    BY <1>1, <1>2, <1>c, <2>0, ZeroCells
  <2> DEFINE m == Bufcpy(Zeros(capacity), pre, con)
  <2>2. /\ m \in Seq(Nat) /\ Len(m) = capacity
        /\ \A i \in 1..capacity : pre < i /\ i <= pre + z => m[i] = con[i - pre]
    BY <1>2, <1>c, <2>1, BufcpyCells
  <2>3. g = [mem |-> m, pre |-> pre, size |-> z]
    BY <1>3, <1>4
  <2> HIDE DEF m, g
  <2>4. g.mem = m /\ g.pre = pre /\ g.size = z
    BY <2>3
  <2>5. Sound(g) /\ EndGap(g) = end
    <3>1. g \in [mem : Seq(Nat), pre : Nat, size : Nat]
      BY ONLY <1>1, <1>2, <2>2, <2>3
    <3>2. g.pre >= 0 /\ g.size >= 0 /\ g.pre + g.size <= Len(g.mem) /\ Len(g.mem) - g.pre - g.size = end
      BY ONLY <1>1, <1>2, <2>0, <2>2, <2>4
    <3> QED
      BY ONLY <3>1, <3>2 DEF Sound, SelfTest, EndGap
  <2>6. Content(g) \in Seq(Nat) /\ Len(Content(g)) = z /\ \A i \in 1..z : Content(g)[i] = m[pre + i]
    BY <2>4, <2>5, ContentCells
  <2>7. \A i \in 1..z : Content(g)[i] = con[i]
    <3> TAKE i \in 1..z
    <3>1. pre + i \in 1..capacity /\ pre < pre + i /\ pre + i <= pre + z /\ (pre + i) - pre = i
      BY <1>1, <1>2, <2>0
    <3>2. m[pre + i] = con[(pre + i) - pre]
      BY ONLY <2>2, <3>1
    <3> QED
      BY ONLY <2>6, <3>1, <3>2, i \in 1..z
  <2>8. Content(g) = con
    BY <1>c, <2>6, <2>7, SeqEqual
  <2>9. Sound(g) /\ g.size = z /\ p <= g.pre /\ e <= EndGap(g) /\ Content(g) = con
    BY <1>2, <2>4, <2>5, <2>8
  <2> QED
    BY <2>9 DEF g, con, z
<1>5. CASE ~(capacity > Len(b.mem))
  <2>1. g = b
    BY <1>3, <1>5
  <2>2. capacity <= Len(b.mem)
    <3> HIDE DEF capacity
    <3> QED
      BY <1>1, <1>2, <1>5
  <2>3. pre + end <= q + f
    <3> HIDE DEF pre, end
    <3> QED
      BY <1>1, <1>2, <2>2
  <2>4. p <= q /\ e <= f
    <3> HIDE DEF pre, end
    <3> QED
      BY <1>1, <1>2, <2>3
  <2> HIDE DEF g
  <2> QED
    BY <2>1, <2>4 DEF g, q, f
<1> QED
  BY <1>4, <1>5

(* resize(): what both the old active part and the new one hold stays.        *)
LEMMA ResizeCells ==
  ASSUME NEW b, Sound(b), NEW start \in Int, NEW end \in Int, start <= end
  PROVE  /\ Sound(Resize(b, start, end)) /\ Resize(b, start, end).size = end - start
         /\ \A i \in 1..(end - start) : start + i \in 1..b.size =>
              Content(Resize(b, start, end))[i] = Content(b)[start + i]
<1> DEFINE p == IF start < 0 THEN -start ELSE 0
           e == IF end < b.size THEN 0 ELSE end - b.size
           g == GrowGap(b, p, e)
           r == Resize(b, start, end)
<1>1. b.size \in Nat /\ p \in Nat /\ e \in Nat /\ p + start >= 0 /\ end <= b.size + e
  BY SoundBlob
<1> HIDE DEF p, e
<1>2. Sound(g) /\ g.size = b.size /\ p <= g.pre /\ e <= EndGap(g) /\ Content(g) = Content(b)
  BY <1>1, GrowGapKeeps
<1>3. r = [g EXCEPT !.pre = @ + start, !.size = end - start]
  BY DEF Resize, p, e
<1> HIDE DEF g, r
<1>4. /\ g.mem \in Seq(Nat) /\ g.pre \in Nat /\ Len(g.mem) \in Nat /\ g.pre + b.size <= Len(g.mem)
      /\ g = [mem |-> g.mem, pre |-> g.pre, size |-> g.size]
      /\ EndGap(g) = Len(g.mem) - g.pre - b.size
  BY <1>2, SoundBlob DEF EndGap
<1>5. r = [mem |-> g.mem, pre |-> g.pre + start, size |-> end - start]
  BY <1>3, <1>4
<1>6. r.mem = g.mem /\ r.pre = g.pre + start /\ r.size = end - start
  BY <1>5
<1>7. Sound(r)
  <2>1. g.pre + start \in Nat /\ end - start \in Nat /\ (g.pre + start) + (end - start) <= Len(g.mem)
    <3> DEFINE m == Len(g.mem)
               u == g.pre
               z == b.size
               gap == EndGap(g)
    <3>1. m \in Nat /\ u \in Nat /\ z \in Nat /\ gap = m - u - z /\ p <= u /\ e <= gap
      BY <1>1, <1>2, <1>4
    <3>2. p \in Nat /\ e \in Nat /\ p + start >= 0 /\ end <= z + e /\ start \in Int /\ end \in Int /\ start <= end
      BY <1>1
    <3> HIDE DEF m, u, z, gap
    <3>3. u + start \in Nat /\ end - start \in Nat /\ (u + start) + (end - start) <= m
      BY ONLY <3>1, <3>2
    <3> QED
      BY ONLY <3>3 DEF m, u
  <2> QED
    BY ONLY <1>4, <1>5, <1>6, <2>1 DEF Sound, SelfTest
<1>8. \A i \in 1..(end - start) : start + i \in 1..b.size => Content(r)[i] = Content(b)[start + i]
  <2> TAKE i \in 1..(end - start)
  <2> HAVE start + i \in 1..b.size
  <2>1. Content(r)[i] = g.mem[(g.pre + start) + i]
    BY <1>6, <1>7, ContentCells
  <2>2. Content(g)[start + i] = g.mem[g.pre + (start + i)]
    BY <1>2, ContentCells
  <2>3. (g.pre + start) + i = g.pre + (start + i)
    BY <1>4
  <2> QED
    BY <1>2, <2>1, <2>2, <2>3
<1> QED
  BY <1>6, <1>7, <1>8 DEF r

(* copy_from() *)
LEMMA CopyFromCells ==
  ASSUME NEW b, Sound(b), NEW src \in Seq(Nat), NEW off \in 0..b.size
  PROVE  /\ Sound(CopyFrom(b, src, off))
         /\ CopyFrom(b, src, off).size = IF b.size < off + Len(src) THEN off + Len(src) ELSE b.size
         /\ \A i \in 1..CopyFrom(b, src, off).size :
              Content(CopyFrom(b, src, off))[i] = IF off < i /\ i <= off + Len(src) THEN src[i - off] ELSE Content(b)[i]
<1> DEFINE l == Len(src)
           n == off + l
           z == IF b.size < n THEN n ELSE b.size
           g == ResizeMin(b, n)
           c == CopyFrom(b, src, off)
           con == Content(b)
<1>1. b.size \in Nat /\ l \in Nat /\ n \in Nat /\ off \in Nat /\ z \in Nat /\ b.size <= z /\ n <= z /\ off <= b.size
  BY SoundBlob
<1>2. Sound(g) /\ g.size = z /\ \A i \in 1..b.size : Content(g)[i] = con[i]
  <2>1. CASE b.size < n
    <3> DEFINE h == GrowGap(b, 0, n - b.size)
    <3>1. n - b.size \in Nat /\ z = n
      BY <1>1, <2>1
    <3>2. Sound(h) /\ h.size = b.size /\ n - b.size <= EndGap(h) /\ Content(h) = con
      BY <3>1, GrowGapKeeps
    <3>3. g = [h EXCEPT !.size = n]
      BY <2>1 DEF ResizeMin
    <3> HIDE DEF h, g, n, con, z
    <3>4. /\ h.mem \in Seq(Nat) /\ h.pre \in Nat /\ Len(h.mem) \in Nat
          /\ h = [mem |-> h.mem, pre |-> h.pre, size |-> h.size]
          /\ EndGap(h) = Len(h.mem) - h.pre - b.size
      BY <3>2, SoundBlob DEF EndGap
    <3>5. g = [mem |-> h.mem, pre |-> h.pre, size |-> n]
      BY <3>3, <3>4
    <3>6. g.mem = h.mem /\ g.pre = h.pre /\ g.size = n
      BY <3>5
    <3>7. Sound(g)
      BY <1>1, <3>2, <3>4, <3>5, <3>6 DEF Sound, SelfTest
    <3>8. \A i \in 1..b.size : Content(g)[i] = con[i]
      <4> TAKE i \in 1..b.size
      <4>1. i \in 1..n
        BY <1>1, <2>1
      <4>2. Content(g)[i] = h.mem[h.pre + i]
        BY <3>6, <3>7, <4>1, ContentCells
      <4>3. Content(h)[i] = h.mem[h.pre + i]
        BY <3>2, ContentCells
      <4> QED
        BY <3>2, <4>2, <4>3
    <3> QED
      BY <3>1, <3>6, <3>7, <3>8
  <2>2. CASE ~(b.size < n)
    BY <2>2 DEF ResizeMin
  <2> QED
    BY <2>1, <2>2
<1>3. c = [g EXCEPT !.mem = Bufcpy(@, g.pre + off, src)]
  BY DEF CopyFrom
<1> HIDE DEF g, c, con, n, z
<1>4. /\ g.mem \in Seq(Nat) /\ g.pre \in Nat /\ Len(g.mem) \in Nat /\ g.pre + z <= Len(g.mem)
      /\ g = [mem |-> g.mem, pre |-> g.pre, size |-> g.size]
  BY <1>2, SoundBlob
<1> DEFINE o == g.pre + off
           m == Bufcpy(g.mem, o, src)
<1>5. c = [mem |-> m, pre |-> g.pre, size |-> z]
  BY <1>2, <1>3, <1>4
<1>6. /\ m \in Seq(Nat) /\ Len(m) = Len(g.mem)
      /\ \A i \in 1..Len(g.mem) : m[i] = IF o < i /\ i <= o + l THEN src[i - o] ELSE g.mem[i]
  <2>1. o \in Nat /\ o + l <= Len(g.mem)
    BY <1>1, <1>4 DEF n
  <2> HIDE DEF o
  <2> QED
    BY <1>4, <2>1, BufcpyCells
<1> HIDE DEF m
<1>7. c.mem = m /\ c.pre = g.pre /\ c.size = z
  BY <1>5
<1>8. Sound(c)
  BY <1>1, <1>4, <1>5, <1>6, <1>7 DEF Sound, SelfTest
<1>9. \A i \in 1..z : Content(c)[i] = IF off < i /\ i <= n THEN src[i - off] ELSE con[i]
  <2> TAKE i \in 1..z
  <2>1. Content(c)[i] = m[g.pre + i]
    BY <1>7, <1>8, ContentCells
  <2>2. /\ g.pre + i \in 1..Len(g.mem) /\ (o < g.pre + i <=> off < i) /\ (g.pre + i <= o + l <=> i <= n)
        /\ (g.pre + i) - o = i - off
    <3> DEFINE q == g.pre
    <3>1. o = q + off /\ n = off + l /\ q \in Nat /\ q + z <= Len(g.mem) /\ i \in 1..z
      BY <1>4 DEF n
    <3> HIDE DEF q, o, l
    <3>5. i \in Int /\ 1 <= i /\ i <= z
      BY <1>1, <3>1
    <3>6. q + i \in 1..Len(g.mem)
      BY <1>1, <1>4, <3>1, Inside
    <3>2. q + i \in 1..Len(g.mem) /\ (q + i) - o = i - off
      <4>1. (q + i) - (q + off) = i - off
        BY <1>1, <3>1, <3>5
      <4> QED
        BY ONLY <3>1, <3>6, <4>1
    <3>7. q \in Int /\ off \in Int /\ l \in Int /\ n \in Int
      BY <1>1, <3>1
    <3>3. o < q + i <=> off < i
      BY ONLY <3>1, <3>5, <3>7
    <3>4. q + i <= o + l <=> i <= n
      BY ONLY <3>1, <3>5, <3>7
    <3> QED
      BY ONLY <3>2, <3>3, <3>4 DEF q
  <2>3. m[g.pre + i] = IF off < i /\ i <= n THEN src[i - off] ELSE g.mem[g.pre + i]
    <3> HIDE DEF o
    <3>1. m[g.pre + i] = IF o < g.pre + i /\ g.pre + i <= o + l THEN src[(g.pre + i) - o] ELSE g.mem[g.pre + i]
      BY ONLY <1>6, <2>2
    <3> QED
      BY ONLY <2>2, <3>1
  <2>4. ASSUME ~(off < i /\ i <= n) PROVE g.mem[g.pre + i] = con[i]
    <3>1. i \in 1..b.size
      BY <1>1, <2>4 DEF z, n
    <3>2. Content(g)[i] = g.mem[g.pre + i]
      BY <1>2, ContentCells
    <3> QED
      BY <1>2, <3>1, <3>2
  <2> QED
    BY <2>1, <2>3, <2>4
<1> QED
  BY <1>7, <1>8, <1>9 DEF c, z, n, con

(* A record as it is packed. *)
Record(data) == LenField(Len(data)) \o data

LEMMA RecordCells ==
  ASSUME NEW d \in Seq(Nat)
  PROVE  /\ Record(d) \in Seq(Nat) /\ Len(Record(d)) = LenSize + Len(d)
         /\ \A i \in 1..(LenSize + Len(d)) :
              Record(d)[i] = IF i <= LenSize THEN LenField(Len(d))[i] ELSE d[i - LenSize]
<1>1. LenField(Len(d)) \in Seq(Nat) /\ Len(LenField(Len(d))) = LenSize
  BY LenFieldCells
<1> QED
  BY <1>1, ConcatProperties DEF Record

LEMMA NullBlobIsEmpty == Sound(NullBlob) /\ Content(NullBlob) = <<>>
<1>1. Sound(NullBlob) /\ NullBlob.size = 0
  BY DEF NullBlob, Sound, SelfTest
<1>2. Content(NullBlob) \in Seq(Nat) /\ Len(Content(NullBlob)) = 0
  BY <1>1, ContentCells
<1> QED
  BY <1>1, <1>2, EmptySeq

(* add_record() leaves a sound buffer (dbg_self_test()), whatever its gaps     *)
(* were, and puts the length and the data behind what was there (blob.h).     *)
THEOREM AddRecordPacks ==
  ASSUME NEW b, Sound(b), NEW d \in Seq(Nat)
  PROVE  Sound(AddRecord(b, d)) /\ Content(AddRecord(b, d)) = Content(b) \o Record(d)
<1> DEFINE z == b.size
           l == Len(d)
           con == Content(b)
           f == LenField(l)
           n == z + LenSize + l
           r == Resize(b, 0, n)
           s == CopyFrom(r, d, z + LenSize)
           t == CopyFrom(s, f, z)
<1>1. z \in Nat /\ l \in Nat /\ LenSize \in Nat /\ f \in Seq(Nat) /\ Len(f) = LenSize
  BY SoundBlob, LenFieldCells, LenSizeAssumption
<1>2. con \in Seq(Nat) /\ Len(con) = z
  BY ContentCells
<1>3. AddRecord(b, d) = t
  BY DEF AddRecord
<1> HIDE DEF con, f
<1>4. Sound(r) /\ r.size = n /\ \A i \in 1..z : Content(r)[i] = con[i]
  <2>1. 0 \in Int /\ n \in Int /\ 0 <= n /\ n - 0 = n
    BY <1>1
  <2> HIDE DEF n
  <2>2. Sound(r) /\ r.size = n - 0 /\ \A i \in 1..(n - 0) : 0 + i \in 1..z => Content(r)[i] = con[0 + i]
    BY <2>1, ResizeCells DEF con
  <2>3. \A i \in 1..z : 0 + i = i /\ i \in 1..n
    BY <1>1 DEF n
  <2> QED
    BY ONLY <2>1, <2>2, <2>3
<1> HIDE DEF r
<1>5. /\ Sound(s) /\ s.size = n
      /\ \A i \in 1..n : Content(s)[i] = IF z + LenSize < i THEN d[i - (z + LenSize)] ELSE Content(r)[i]
  <2>1. z + LenSize \in 0..r.size /\ (z + LenSize) + l = n /\ n \in Nat
    BY <1>1, <1>4
  <2> HIDE DEF n
  <2>2. /\ Sound(s) /\ s.size = IF r.size < (z + LenSize) + l THEN (z + LenSize) + l ELSE r.size
        /\ \A i \in 1..s.size : Content(s)[i] =
             IF z + LenSize < i /\ i <= (z + LenSize) + l THEN d[i - (z + LenSize)] ELSE Content(r)[i]
    BY <1>4, <2>1, CopyFromCells
  <2>3. s.size = n /\ \A i \in 1..n : i <= n
    BY ONLY <1>4, <2>1, <2>2
  <2> QED
    BY ONLY <2>1, <2>2, <2>3
<1> HIDE DEF s
<1>6. /\ Sound(t) /\ t.size = n
      /\ \A i \in 1..n : Content(t)[i] = IF z < i /\ i <= z + LenSize THEN f[i - z] ELSE Content(s)[i]
  <2>1. z \in 0..s.size /\ n \in Nat /\ z + LenSize <= n
    BY <1>1, <1>5
  <2> HIDE DEF n
  <2>2. /\ Sound(t) /\ t.size = IF s.size < z + Len(f) THEN z + Len(f) ELSE s.size
        /\ \A i \in 1..t.size : Content(t)[i] = IF z < i /\ i <= z + Len(f) THEN f[i - z] ELSE Content(s)[i]
    BY <1>1, <1>5, <2>1, CopyFromCells
  <2> QED
    BY <1>1, <1>5, <2>1, <2>2
<1>7. Content(t) \in Seq(Nat) /\ Len(Content(t)) = n
  BY <1>6, ContentCells
<1> HIDE DEF t
<1> DEFINE rec == Record(d)
           u == con \o rec
<1>8. rec \in Seq(Nat) /\ Len(rec) = LenSize + l /\ \A i \in 1..(LenSize + l) : rec[i] = IF i <= LenSize THEN f[i] ELSE d[i - LenSize]
  BY RecordCells DEF f
<1> HIDE DEF rec
<1>9. u \in Seq(Nat) /\ Len(u) = n /\ \A i \in 1..n : u[i] = IF i <= z THEN con[i] ELSE rec[i - z]
  <2>1. Len(con) + Len(rec) = n
    BY <1>1, <1>2, <1>8
  <2>2. /\ u \in Seq(Nat) /\ Len(u) = Len(con) + Len(rec)
        /\ \A i \in 1..(Len(con) + Len(rec)) : u[i] = IF i <= Len(con) THEN con[i] ELSE rec[i - Len(con)]
    <3>1. con \in Seq(Nat) /\ rec \in Seq(Nat)
      BY <1>2, <1>8
    <3> QED
      BY ONLY <3>1, ConcatProperties
  <2> QED
    BY ONLY <1>2, <2>1, <2>2
<1> HIDE DEF u
<1>10. \A i \in 1..n : Content(t)[i] = u[i]
  <2> TAKE i \in 1..n
  <2>1. CASE i <= z
    <3>1. i \in 1..z /\ ~(z + LenSize < i) /\ ~(z < i)
      BY <1>1, <2>1
    <3> QED
      BY ONLY <1>4, <1>5, <1>6, <1>9, <2>1, <3>1, i \in 1..n
  <2>2. CASE z < i /\ i <= z + LenSize
    <3>1. i - z \in 1..(LenSize + l) /\ i - z <= LenSize /\ ~(i <= z)
      BY <1>1, <2>2
    <3> QED
      BY ONLY <1>6, <1>8, <1>9, <2>2, <3>1, i \in 1..n
  <2>3. CASE z + LenSize < i
    <3>1. /\ i - z \in 1..(LenSize + l) /\ ~(i - z <= LenSize) /\ ~(i <= z) /\ ~(i <= z + LenSize)
          /\ (i - z) - LenSize = i - (z + LenSize)
      BY <1>1, <2>3
    <3> QED
      BY ONLY <1>5, <1>6, <1>8, <1>9, <2>3, <3>1, i \in 1..n
  <2>4. i <= z \/ (z < i /\ i <= z + LenSize) \/ z + LenSize < i
    BY <1>1
  <2> QED
    BY ONLY <2>1, <2>2, <2>3, <2>4
<1>11. Content(t) = u
  BY <1>7, <1>9, <1>10, SeqEqual
<1> QED
  BY <1>3, <1>6, <1>11 DEF u, con, rec

(* send() and sendRaw(): a packet on the wire is its type, the length and the *)
(* data (opt_tcp.cpp).                                                        *)
LEMMA WrapCells ==
  ASSUME NEW type \in Nat, NEW d \in Seq(Nat)
  PROVE  Content(Wrap(type, d)) = <<type>> \o Record(d)
<1> DEFINE l == Len(d)
           f == LenField(l)
           hdr == <<type>> \o f
           h == HeaderLen
           n == HeaderLen + l
           r == FactoryEmpty(n, 0, 0)
           s == CopyFrom(r, hdr, 0)
           t == CopyFrom(s, d, h)
<1>1. /\ l \in Nat /\ LenSize \in Nat /\ f \in Seq(Nat) /\ Len(f) = LenSize
      /\ h \in Nat /\ h = 1 + LenSize /\ n = h + l /\ n \in Nat
  <2>1. l \in Nat /\ LenSize \in Nat
    BY LenSizeAssumption
  <2>2. f \in Seq(Nat) /\ Len(f) = LenSize
    BY <2>1, LenFieldCells
  <2> HIDE DEF l, f
  <2> QED
    BY <2>1, <2>2 DEF HeaderLen
<1>2. Wrap(type, d) = t
  BY DEF Wrap
<1> HIDE DEF f, h, n
<1>3. hdr \in Seq(Nat) /\ Len(hdr) = h /\ \A i \in 1..h : hdr[i] = IF i <= 1 THEN type ELSE f[i - 1]
  <2>1. <<type>> \in Seq(Nat) /\ Len(<<type>>) = 1 /\ <<type>>[1] = type
    OBVIOUS
  <2>2. /\ hdr \in Seq(Nat) /\ Len(hdr) = 1 + LenSize
        /\ \A i \in 1..(1 + LenSize) : hdr[i] = IF i <= 1 THEN <<type>>[i] ELSE f[i - 1]
    BY <1>1, <2>1, ConcatProperties
  <2>3. \A i \in 1..h : i <= 1 => i = 1
    BY <1>1
  <2> QED
    BY <1>1, <2>1, <2>2, <2>3
<1> HIDE DEF hdr
<1>4. Sound(r) /\ r.size = n
  <2>1. 0 + n + 0 = n
    BY <1>1
  <2>2. r = [mem |-> Zeros(n), pre |-> 0, size |-> n]
    BY <2>1 DEF FactoryEmpty
  <2> HIDE DEF r
  <2> QED
    BY <1>1, <2>2, ZeroCells DEF Sound, SelfTest
<1> HIDE DEF r
<1>5. Sound(s) /\ s.size = n /\ \A i \in 1..h : Content(s)[i] = hdr[i]
  <2>1. /\ 0 \in 0..r.size /\ 0 + Len(hdr) = h /\ ~(n < h)
        /\ \A i \in 1..h : i \in 1..n /\ 0 < i /\ i <= h /\ i - 0 = i
    BY <1>1, <1>3, <1>4
  <2>2. /\ Sound(s) /\ s.size = IF r.size < 0 + Len(hdr) THEN 0 + Len(hdr) ELSE r.size
        /\ \A i \in 1..s.size : Content(s)[i] = IF 0 < i /\ i <= 0 + Len(hdr) THEN hdr[i - 0] ELSE Content(r)[i]
    BY <1>3, <1>4, <2>1, CopyFromCells
  <2> QED
    BY ONLY <1>4, <2>1, <2>2
<1> HIDE DEF s
<1>6. /\ Sound(t) /\ t.size = n
      /\ \A i \in 1..n : Content(t)[i] = IF h < i THEN d[i - h] ELSE Content(s)[i]
  <2>1. h \in 0..s.size /\ ~(n < h + l) /\ \A i \in 1..n : i <= h + l
    BY <1>1, <1>5
  <2>2. /\ Sound(t) /\ t.size = IF s.size < h + l THEN h + l ELSE s.size
        /\ \A i \in 1..t.size : Content(t)[i] = IF h < i /\ i <= h + l THEN d[i - h] ELSE Content(s)[i]
    BY <1>5, <2>1, CopyFromCells
  <2> QED
    BY ONLY <1>5, <2>1, <2>2
<1>7. Content(t) \in Seq(Nat) /\ Len(Content(t)) = n
  BY <1>6, ContentCells
<1> HIDE DEF t
<1> DEFINE u == hdr \o d
<1>8. u \in Seq(Nat) /\ Len(u) = n /\ \A i \in 1..n : u[i] = IF i <= h THEN hdr[i] ELSE d[i - h]
  <2>1. hdr \in Seq(Nat) /\ d \in Seq(Nat) /\ Len(hdr) = h /\ Len(hdr) + Len(d) = n
    BY <1>1, <1>3
  <2>2. /\ u \in Seq(Nat) /\ Len(u) = Len(hdr) + Len(d)
        /\ \A i \in 1..(Len(hdr) + Len(d)) : u[i] = IF i <= Len(hdr) THEN hdr[i] ELSE d[i - Len(hdr)]
    BY ONLY <2>1, ConcatProperties
  <2> QED
    BY ONLY <2>1, <2>2
<1>9. \A i \in 1..n : Content(t)[i] = u[i]
  <2> TAKE i \in 1..n
  <2>1. (i <= h <=> ~(h < i)) /\ (i <= h => i \in 1..h)
    BY <1>1
  <2> HIDE DEF u
  <2> QED
    BY ONLY <1>5, <1>6, <1>8, <2>1, i \in 1..n
<1>10. Content(t) = u
  <2> HIDE DEF u
  <2> QED
    BY <1>7, <1>8, <1>9, SeqEqual
<1>11. u = <<type>> \o (f \o d)
  <2>1. <<type>> \in Seq(Nat)
    OBVIOUS
  <2> QED
    BY <1>1, <2>1, ConcatAssociative DEF hdr
<1> QED
  BY <1>2, <1>10, <1>11 DEF Record, f

(* next_record() reads the record that was packed at the cursor, *)
LEMMA NextRecordReads ==
  ASSUME NEW src \in Seq(Nat), NEW cursor \in 0..Len(src), NEW d \in Seq(Nat),
         cursor + LenSize + Len(d) <= Len(src),
         SubSeq(src, cursor + 1, cursor + LenSize + Len(d)) = Record(d)
  PROVE  NextRecord(src, cursor) = [ok |-> TRUE, data |-> d, cursor |-> cursor + LenSize + Len(d)]
<1> DEFINE l == Len(d)
           n == Len(src)
           q == SubSeq(src, cursor + 1, cursor + LenSize + l)
<1>1. LenSize \in Nat /\ 1 <= LenSize /\ l \in Nat /\ n \in Nat /\ cursor \in Nat /\ cursor + LenSize + l <= n
  BY LenSizeAssumption
<1>2. \A i \in 1..(LenSize + l) : q[i] = src[cursor + i]
  <2>1. \A i \in (cursor + 1)..(cursor + LenSize + l) : src[i] \in Nat
    BY <1>1, ElementOfSeq
  <2> QED
    BY <1>1, <2>1
<1>3. \A i \in 1..(LenSize + l) : src[cursor + i] = IF i <= LenSize THEN LenField(l)[i] ELSE d[i - LenSize]
  BY <1>2, RecordCells
<1>4. src[cursor + 1] = l
  <2>1. 1 \in 1..(LenSize + l) /\ 1 <= LenSize
    BY <1>1
  <2>2. src[cursor + 1] = IF 1 <= LenSize THEN LenField(l)[1] ELSE d[1 - LenSize]
    BY ONLY <1>3, <2>1
  <2>3. LenField(l)[1] = l
    BY <1>1, LenFieldCells
  <2> QED
    BY ONLY <2>1, <2>2, <2>3
<1> DEFINE v == SubSeq(src, cursor + LenSize + 1, cursor + LenSize + l)
<1>5. v = d
  <2>1. v \in Seq(Nat) /\ Len(v) = l /\ \A i \in 1..l : v[i] = src[cursor + LenSize + i]
    <3> DEFINE k == cursor + LenSize
               w == SubSeq(src, k + 1, k + l)
    <3>1. src \in Seq(Nat) /\ k \in Nat /\ l \in Nat /\ k + l <= Len(src)
      BY <1>1
    <3> HIDE DEF k, l
    <3>2. w \in Seq(Nat) /\ Len(w) = l /\ \A i \in 1..l : w[i] = src[k + i]
      <4> DEFINE from == k + 1
                 to == k + l
      <4>1. from \in Int /\ to \in Int /\ (from <= to => to - from + 1 = l) /\ (~(from <= to) => l = 0)
            /\ to - from + 1 = l /\ \A i \in from..to : i \in 1..Len(src)
        BY ONLY <3>1
      <4>2. \A i \in from..to : src[i] \in Nat
        BY ONLY <3>1, <4>1, ElementOfSeq
      <4>3. \A i \in 1..l : from + i - 1 = k + i
        BY ONLY <3>1
      <4> HIDE DEF from, to
      <4>4. /\ SubSeq(src, from, to) \in Seq(Nat)
            /\ Len(SubSeq(src, from, to)) = IF from <= to THEN to - from + 1 ELSE 0
            /\ \A i \in 1..(to - from + 1) : SubSeq(src, from, to)[i] = src[from + i - 1]
        BY ONLY <4>1, <4>2, SubSeqProperties
      <4>5. w = SubSeq(src, from, to)
        BY DEF from, to
      <4> HIDE DEF w
      <4> QED
        BY ONLY <4>1, <4>3, <4>4, <4>5
    <3> QED
      BY ONLY <3>2 DEF k
  <2>2. \A i \in 1..l : src[cursor + LenSize + i] = d[i]
    <3> TAKE i \in 1..l
    <3>1. LenSize + i \in 1..(LenSize + l) /\ ~(LenSize + i <= LenSize) /\ (LenSize + i) - LenSize = i
          /\ cursor + (LenSize + i) = cursor + LenSize + i
      BY <1>1
    <3>2. src[cursor + (LenSize + i)] = IF LenSize + i <= LenSize THEN LenField(l)[LenSize + i] ELSE d[(LenSize + i) - LenSize]
      BY ONLY <1>3, <3>1
    <3> QED
      BY ONLY <3>1, <3>2
  <2> HIDE DEF v
  <2> QED
    BY <2>1, <2>2, SeqEqual
<1>6. ~(n < cursor + LenSize) /\ ~(n - (cursor + LenSize) < l)
  BY <1>1
<1> QED
  BY <1>4, <1>5, <1>6 DEF NextRecord

(* and what it reads was packed there, if the length field is one. *)
LEMMA NextRecordPacked ==
  ASSUME NEW src \in Seq(Nat), NEW cursor \in 0..Len(src), NextRecord(src, cursor).ok,
         cursor + LenSize <= Len(src) =>
           SubSeq(src, cursor + 1, cursor + LenSize) = LenField(src[cursor + 1])
  PROVE  /\ NextRecord(src, cursor).data \in Seq(Nat)
         /\ NextRecord(src, cursor).cursor \in cursor..Len(src)
         /\ SubSeq(src, cursor + 1, NextRecord(src, cursor).cursor) = Record(NextRecord(src, cursor).data)
<1> DEFINE n == Len(src)
           l == src[cursor + 1]
           at == cursor + LenSize
           d == SubSeq(src, at + 1, at + l)
<1>1. LenSize \in Nat /\ 1 <= LenSize /\ n \in Nat /\ cursor \in Nat /\ at \in Nat
  BY LenSizeAssumption
<1>2. at <= n /\ ~(n - at < l) /\ NextRecord(src, cursor) = [ok |-> TRUE, data |-> d, cursor |-> at + l]
  BY <1>1 DEF NextRecord
<1>3. l \in Nat
  <2>1. cursor + 1 \in 1..n
    BY <1>1, <1>2
  <2> QED
    BY <2>1, ElementOfSeq
<1>4. at + l <= n
  <2> HIDE DEF l, n, at
  <2> QED
    BY <1>1, <1>2, <1>3
<1> HIDE DEF l
<1>5. d \in Seq(Nat) /\ Len(d) = l
  <2>1. \A i \in (at + 1)..(at + l) : src[i] \in Nat
    BY <1>1, <1>3, <1>4, ElementOfSeq, SMTT(20)
  <2> QED
    BY <1>1, <1>3, <2>1, SubSeqProperties
<1>6. SubSeq(src, cursor + 1, at) \o d = SubSeq(src, cursor + 1, at + l)
  <2>1. cursor + 1 \in 1..(n + 1) /\ at \in (cursor + 1 - 1)..n /\ at + l \in at..n
    BY <1>1, <1>2, <1>3, <1>4
  <2> HIDE DEF at
  <2> DEFINE m == cursor + 1
             k == at + l
  <2>2. src \in Seq(Nat) /\ m \in 1..(Len(src) + 1) /\ at \in (m - 1)..Len(src) /\ k \in at..Len(src)
    BY <2>1
  <2> HIDE DEF m, k
  <2>3. SubSeq(src, m, at) \o SubSeq(src, at + 1, k) = SubSeq(src, m, k)
    BY ONLY <2>2, ConcatAdjacentSubSeq
  <2> QED
    BY ONLY <2>3 DEF m, k
<1>7. SubSeq(src, cursor + 1, at) = LenField(l)
  BY <1>2 DEF l
<1>8. at + l \in cursor..n
  BY <1>1, <1>3, <1>4
<1> DEFINE r == NextRecord(src, cursor)
<1> HIDE DEF d, at
<1>12. r = [ok |-> TRUE, data |-> d, cursor |-> at + l]
  BY <1>2
<1> HIDE DEF r
<1>9. r.data = d /\ r.cursor = at + l
  BY ONLY <1>12
<1>10. Record(d) = LenField(l) \o d
  BY <1>5 DEF Record
<1>11. r.data \in Seq(Nat) /\ r.cursor \in cursor..n /\ SubSeq(src, cursor + 1, r.cursor) = Record(r.data)
  BY <1>5, <1>6, <1>7, <1>8, <1>9, <1>10
<1> QED
  BY <1>11 DEF r

-----------------------------------------------------------------------------
(* OptTcp *)

(* What F makes of the elements of s, put together. *)
Spread(F, s) == FlattenSeq([i \in DOMAIN s |-> F[s[i]]])

LEMMA SpreadConcat ==
  ASSUME NEW D, NEW F \in [D -> Seq(Nat)], NEW s \in Seq(D), NEW t \in Seq(D)
  PROVE  /\ Spread(F, s) \in Seq(Nat) /\ Len(Spread(F, s)) \in Nat
         /\ Spread(F, s \o t) = Spread(F, s) \o Spread(F, t)
<1> DEFINE f(u) == [i \in DOMAIN u |-> F[u[i]]]
<1>1. ASSUME NEW u \in Seq(D)
      PROVE  f(u) \in Seq(Seq(Nat)) /\ Len(f(u)) = Len(u) /\ \A i \in 1..Len(u) : f(u)[i] = F[u[i]]
  <2>1. DOMAIN u = 1..Len(u) /\ Len(u) \in Nat /\ \A i \in 1..Len(u) : F[u[i]] \in Seq(Nat)
    BY LenProperties, ElementOfSeq
  <2> DEFINE g == f(u)
             n == Len(u)
  <2>2. g = [i \in 1..n |-> F[u[i]]]
    BY <2>1
  <2> HIDE DEF g
  <2>3. g \in [1..n -> Seq(Nat)] /\ DOMAIN g = 1..n /\ \A i \in 1..n : g[i] = F[u[i]]
    BY <2>1, <2>2
  <2> HIDE DEF n
  <2>4. n \in Nat
    BY <2>1 DEF n
  <2>5. g \in Seq(Seq(Nat))
    BY <2>3, <2>4, SeqDef
  <2>6. Len(g) = n
    BY <2>3, <2>4, <2>5, LenProperties
  <2> QED
    BY <2>3, <2>5, <2>6 DEF g, n
<1> HIDE DEF f
<1>2. s \o t \in Seq(D)
  BY ConcatProperties
<1>3. f(s \o t) = f(s) \o f(t)
  <2> DEFINE a == f(s)
             b == f(t)
             c == f(s \o t)
             n == Len(s)
             m == Len(t)
  <2>1. /\ a \in Seq(Seq(Nat)) /\ Len(a) = n /\ b \in Seq(Seq(Nat)) /\ Len(b) = m /\ c \in Seq(Seq(Nat))
        /\ Len(s \o t) = n + m /\ Len(c) = n + m
        /\ \A i \in 1..(n + m) : (s \o t)[i] = IF i <= n THEN s[i] ELSE t[i - n]
    BY <1>1, <1>2, ConcatProperties
  <2>2. /\ \A i \in 1..n : a[i] = F[s[i]]
        /\ \A i \in 1..m : b[i] = F[t[i]]
        /\ \A i \in 1..(n + m) : c[i] = F[(s \o t)[i]]
    BY <1>1, <1>2, <2>1
  <2>n. n \in Nat /\ m \in Nat
    OBVIOUS
  <2> HIDE DEF a, b, c, n, m
  <2>3. a \o b \in Seq(Seq(Nat)) /\ Len(a \o b) = n + m /\ \A i \in 1..(n + m) : (a \o b)[i] = IF i <= n THEN a[i] ELSE b[i - n]
    BY <2>1, ConcatProperties
  <2>4. \A i \in 1..(n + m) : c[i] = (a \o b)[i]
    <3> TAKE i \in 1..(n + m)
    <3>0. /\ c[i] = F[(s \o t)[i]] /\ (s \o t)[i] = IF i <= n THEN s[i] ELSE t[i - n]
          /\ (a \o b)[i] = IF i <= n THEN a[i] ELSE b[i - n]
      BY ONLY <2>1, <2>2, <2>3, i \in 1..(n + m)
    <3>1. CASE i <= n
      <4>1. i \in 1..n
        BY <2>n, <3>1
      <4>2. a[i] = F[s[i]]
        BY ONLY <2>2, <4>1
      <4> QED
        BY ONLY <3>0, <3>1, <4>2
    <3>2. CASE ~(i <= n)
      <4>1. i - n \in 1..m
        BY <2>n, <3>2
      <4>2. b[i - n] = F[t[i - n]]
        BY ONLY <2>2, <4>1
      <4> QED
        BY ONLY <3>0, <3>2, <4>2
    <3> QED
      BY <3>1, <3>2
  <2>5. c = a \o b
    BY <2>1, <2>3, <2>4, SeqEqual
  <2> QED
    BY <2>5 DEF a, b, c
<1>4. f(s) \in Seq(Seq(Nat)) /\ f(t) \in Seq(Seq(Nat))
  BY <1>1
<1>5. FlattenSeq(f(s)) \in Seq(Nat) /\ FlattenSeq(f(s) \o f(t)) = FlattenSeq(f(s)) \o FlattenSeq(f(t))
  BY <1>4, FlattenConcat, FlattenType
<1>6. Len(FlattenSeq(f(s))) \in Nat
  BY <1>5
<1> QED
  BY <1>3, <1>5, <1>6 DEF Spread, f

LEMMA SpreadEnds ==
  ASSUME NEW D, NEW F \in [D -> Seq(Nat)]
  PROVE  Spread(F, <<>>) = <<>> /\ \A x \in D : Spread(F, <<x>>) = F[x]
<1>1. Spread(F, <<>>) = <<>>
  <2>1. [i \in DOMAIN <<>> |-> F[<<>>[i]]] = <<>>
    OBVIOUS
  <2> QED
    BY <2>1, FlattenEmpty DEF Spread
<1>2. ASSUME NEW x \in D PROVE Spread(F, <<x>>) = F[x]
  <2>1. [i \in DOMAIN <<x>> |-> F[<<x>>[i]]] = <<F[x]>>
    OBVIOUS
  <2>2. F[x] \in Seq(Nat)
    OBVIOUS
  <2> QED
    BY <2>1, <2>2, FlattenOne DEF Spread
<1> QED
  BY <1>1, <1>2

(* What is left of a sequence without its beginning. *)
LEMMA DropPrefix ==
  ASSUME NEW S, NEW a \in Seq(S), NEW b \in Seq(S)
  PROVE  SubSeq(a \o b, Len(a) + 1, Len(a \o b)) = b
<1> DEFINE n == Len(a)
           m == Len(b)
           c == a \o b
           d == SubSeq(c, n + 1, n + m)
<1>1. n \in Nat /\ m \in Nat /\ c \in Seq(S) /\ Len(c) = n + m /\ \A i \in 1..(n + m) : c[i] = IF i <= n THEN a[i] ELSE b[i - n]
  BY ConcatProperties
<1> HIDE DEF c, n, m
<1>2. d \in Seq(S) /\ Len(d) = m /\ \A i \in 1..m : d[i] = c[n + i]
  BY <1>1
<1>3. \A i \in 1..m : d[i] = b[i]
  <2> TAKE i \in 1..m
  <2>1. n + i \in 1..(n + m) /\ ~(n + i <= n) /\ (n + i) - n = i
    BY <1>1
  <2>2. c[n + i] = IF n + i <= n THEN a[n + i] ELSE b[(n + i) - n]
    BY ONLY <1>1, <2>1
  <2> QED
    BY <1>2, <2>1, <2>2
<1> HIDE DEF d
<1>4. d = b
  BY <1>2, <1>3, SeqEqual DEF m
<1> QED
  BY <1>1, <1>4 DEF c, n, m, d


-----------------------------------------------------------------------------
(* The list of chunks *)

Chunks == {b \in [mem : Seq(Nat), pre : Nat, size : Nat] : SelfTest(b) /\ b.size > 0}
Cells == [b \in Chunks |-> Content(b)]

LEMMA ChunkCells ==
  ASSUME NEW b \in Chunks
  PROVE  Sound(b) /\ b.size \in Nat /\ b.size > 0 /\ Cells[b] = Content(b) /\ Len(Cells[b]) = b.size
<1>1. Sound(b) /\ b.size > 0 /\ Cells[b] = Content(b)
  BY DEF Chunks, Sound, Cells
<1> QED
  BY <1>1, ContentCells, SoundBlob

LEMMA CellsType == Cells \in [Chunks -> Seq(Nat)]
<1>1. \A b \in Chunks : Content(b) \in Seq(Nat)
  BY ChunkCells, ContentCells
<1> QED
  BY <1>1 DEF Cells

LEMMA FlatSpreads ==
  ASSUME NEW s \in Seq(Chunks)
  PROVE  Flat(s) = Spread(Cells, s)
<1>1. \A i \in DOMAIN s : Content(s[i]) = Cells[s[i]]
  BY ElementOfSeq, LenProperties DEF Cells
<1> QED
  BY <1>1 DEF Flat, Spread

(* The cells of lists put together. *)
LEMMA FlatConcat ==
  ASSUME NEW s \in Seq(Chunks), NEW t \in Seq(Chunks)
  PROVE  Flat(s) \in Seq(Nat) /\ Len(Flat(s)) \in Nat /\ Flat(s \o t) = Flat(s) \o Flat(t)
<1>1. s \o t \in Seq(Chunks)
  BY ConcatProperties
<1>2. Flat(s) = Spread(Cells, s) /\ Flat(t) = Spread(Cells, t) /\ Flat(s \o t) = Spread(Cells, s \o t)
  BY <1>1, FlatSpreads
<1>3. /\ Spread(Cells, s) \in Seq(Nat) /\ Len(Spread(Cells, s)) \in Nat
      /\ Spread(Cells, s \o t) = Spread(Cells, s) \o Spread(Cells, t)
  BY CellsType, SpreadConcat
<1> QED
  BY ONLY <1>2, <1>3

LEMMA FlatEnds ==
  Flat(<<>>) = <<>> /\ \A b \in Chunks : Flat(<<b>>) = Content(b)
<1>1. <<>> \in Seq(Chunks) /\ \A b \in Chunks : <<b>> \in Seq(Chunks)
  OBVIOUS
<1> QED
  BY <1>1, CellsType, FlatSpreads, SpreadEnds, ChunkCells

(* A sequence is its beginning, an element and its end. *)
LEMMA SplitSeq ==
  ASSUME NEW S, NEW s \in Seq(S), NEW k \in 0..Len(s)
  PROVE  /\ SubSeq(s, 1, k) \in Seq(S) /\ SubSeq(s, k + 1, Len(s)) \in Seq(S)
         /\ Len(SubSeq(s, 1, k)) = k /\ Len(SubSeq(s, k + 1, Len(s))) = Len(s) - k
         /\ s = SubSeq(s, 1, k) \o SubSeq(s, k + 1, Len(s))
         /\ \A i \in 1..k : SubSeq(s, 1, k)[i] = s[i]
         /\ \A i \in 1..(Len(s) - k) : SubSeq(s, k + 1, Len(s))[i] = s[k + i]
<1> DEFINE n == Len(s)
<1>1. n \in Nat /\ k \in Nat /\ k <= n
  OBVIOUS
<1>2. /\ SubSeq(s, 1, k) \in Seq(S) /\ Len(SubSeq(s, 1, k)) = k
      /\ \A i \in 1..k : SubSeq(s, 1, k)[i] = s[i]
  BY <1>1
<1>3. /\ SubSeq(s, k + 1, n) \in Seq(S) /\ Len(SubSeq(s, k + 1, n)) = n - k
      /\ \A i \in 1..(n - k) : SubSeq(s, k + 1, n)[i] = s[k + i]
  BY <1>1
<1>4. SubSeq(s, 1, k) \o SubSeq(s, k + 1, n) = SubSeq(s, 1, n)
  <2>1. 1 \in 1..(n + 1) /\ k \in (1 - 1)..n /\ n \in k..n
    BY <1>1
  <2> QED
    BY <2>1, ConcatAdjacentSubSeq
<1>5. SubSeq(s, 1, n) = s
  OBVIOUS
<1> QED
  BY <1>2, <1>3, <1>4, <1>5

LEMMA SplitNext ==
  ASSUME NEW S, NEW s \in Seq(S), NEW k \in Nat, k < Len(s)
  PROVE  /\ s[k + 1] \in S /\ SubSeq(s, 1, k + 1) = SubSeq(s, 1, k) \o <<s[k + 1]>>
         /\ SubSeq(s, k + 1, Len(s)) = <<s[k + 1]>> \o SubSeq(s, k + 2, Len(s))
<1> DEFINE n == Len(s)
           x == s[k + 1]
<1>1. n \in Nat /\ k + 1 \in 1..n
  OBVIOUS
<1>2. x \in S
  BY <1>1, ElementOfSeq
<1>3. SubSeq(s, 1, k + 1) = SubSeq(s, 1, k) \o <<x>>
  <2>1. SubSeq(s, 1, k) \in Seq(S) /\ Len(SubSeq(s, 1, k)) = k /\ \A i \in 1..k : SubSeq(s, 1, k)[i] = s[i]
    BY <1>1, SplitSeq
  <2>2. SubSeq(s, 1, k + 1) \in Seq(S) /\ Len(SubSeq(s, 1, k + 1)) = k + 1 /\ \A i \in 1..(k + 1) : SubSeq(s, 1, k + 1)[i] = s[i]
    BY <1>1, SplitSeq
  <2> DEFINE a == SubSeq(s, 1, k)
             b == SubSeq(s, 1, k + 1)
  <2>4. <<x>> \in Seq(S) /\ Len(<<x>>) = 1 /\ <<x>>[1] = x
    BY <1>2
  <2> HIDE DEF a, b, x
  <2>5. a \o <<x>> \in Seq(S) /\ Len(a \o <<x>>) = k + 1
        /\ \A i \in 1..(k + 1) : (a \o <<x>>)[i] = IF i <= k THEN a[i] ELSE <<x>>[i - k]
    BY <2>1, <2>4, ConcatProperties DEF a
  <2>6. \A i \in 1..(k + 1) : b[i] = (a \o <<x>>)[i]
    <3> TAKE i \in 1..(k + 1)
    <3>1. CASE i <= k
      <4>1. i \in 1..k
        BY <3>1
      <4> QED
        BY ONLY <2>1, <2>2, <2>5, <3>1, <4>1, i \in 1..(k + 1) DEF a, b
    <3>2. CASE ~(i <= k)
      <4>1. i = k + 1 /\ i - k = 1
        BY <3>2
      <4>2. b[i] = s[k + 1]
        BY <2>2, <4>1 DEF b
      <4>3. (a \o <<x>>)[i] = <<x>>[1]
        BY ONLY <2>5, <3>2, <4>1, i \in 1..(k + 1)
      <4> QED
        BY <2>4, <4>2, <4>3 DEF x
    <3> QED
      BY <3>1, <3>2
  <2> QED
    BY <2>2, <2>5, <2>6, SeqEqual DEF a, b
<1>4. SubSeq(s, k + 1, n) = <<x>> \o SubSeq(s, k + 2, n)
  <2>1. SubSeq(s, k + 1, k + 1) = <<x>>
    <3> DEFINE v == SubSeq(s, k + 1, k + 1)
    <3>1. v \in Seq(S) /\ Len(v) = 1 /\ v[1] = x
      BY <1>1
    <3>2. <<x>> \in Seq(S) /\ Len(<<x>>) = 1 /\ <<x>>[1] = x
      BY <1>2
    <3> DEFINE w == <<x>>
    <3> HIDE DEF v, w, x
    <3>3. \A i \in 1..1 : v[i] = w[i]
      BY <3>1, <3>2 DEF w
    <3> QED
      BY <3>1, <3>2, <3>3, SeqEqual DEF v, w
  <2>2. k + 1 \in 1..(n + 1) /\ k + 1 \in ((k + 1) - 1)..n /\ n \in (k + 1)..n /\ (k + 1) + 1 = k + 2
    BY <1>1
  <2> DEFINE j == k + 1
  <2> HIDE DEF n
  <2>4. s \in Seq(S) /\ j \in 1..(Len(s) + 1) /\ j \in (j - 1)..Len(s) /\ n \in j..Len(s)
    BY <2>2 DEF n
  <2>5. j + 1 = k + 2 /\ SubSeq(s, j, j) = <<x>>
    BY <2>1, <2>2
  <2> HIDE DEF j
  <2>3. SubSeq(s, j, j) \o SubSeq(s, j + 1, n) = SubSeq(s, j, n)
    BY ONLY <2>4, ConcatAdjacentSubSeq
  <2> QED
    BY ONLY <2>3, <2>5 DEF j
<1> QED
  BY <1>2, <1>3, <1>4

(* Where the chunks end: each later than the one before it. *)
LEMMA ChunkEnds ==
  ASSUME NEW s \in Seq(Chunks)
  PROVE  /\ ChunkEnd(s, 0) = 0 /\ ChunkEnd(s, Len(s)) = Len(Flat(s))
         /\ \A i \in 0..Len(s) : ChunkEnd(s, i) \in Nat
         /\ \A i \in 0..Len(s) : \A j \in i..Len(s) : ChunkEnd(s, i) <= ChunkEnd(s, j)
<1> DEFINE n == Len(s)
           E(i) == ChunkEnd(s, i)
<1>1. n \in Nat
  OBVIOUS
<1>2. E(0) = 0
  <2>1. SubSeq(s, 1, 0) = <<>>
    BY EmptySeq
  <2>2. Flat(SubSeq(s, 1, 0)) = <<>> /\ Len(<<>>) = 0
    BY <2>1, FlatEnds
  <2>3. Len(Flat(SubSeq(s, 1, 0))) = Len(<<>>)
    BY ONLY <2>2
  <2> QED
    BY ONLY <2>2, <2>3 DEF ChunkEnd
<1>3. E(n) = Len(Flat(s))
  <2>1. SubSeq(s, 1, n) = s
    OBVIOUS
  <2> QED
    BY <2>1 DEF ChunkEnd
<1>4. \A i \in 0..n : E(i) \in Nat
  <2> TAKE i \in 0..n
  <2>1. SubSeq(s, 1, i) \in Seq(Chunks) /\ <<>> \in Seq(Chunks)
    BY SplitSeq
  <2> QED
    BY <2>1, FlatConcat DEF ChunkEnd
<1>5. \A i \in 0..(n - 1) : E(i) <= E(i + 1)
  <2> TAKE i \in 0..(n - 1)
  <2>1. i \in Nat /\ i < Len(s) /\ i \in 0..n
    BY <1>1
  <2> DEFINE a == SubSeq(s, 1, i)
             b == <<s[i + 1]>>
             c == SubSeq(s, 1, i + 1)
  <2>2. a \in Seq(Chunks) /\ b \in Seq(Chunks) /\ c = a \o b
    <3>1. a \in Seq(Chunks)
      BY <2>1, SplitSeq
    <3>2. s[i + 1] \in Chunks /\ c = a \o b
      BY <2>1, SplitNext
    <3> QED
      BY <3>1, <3>2
  <2> HIDE DEF a, b, c
  <2>3. /\ Flat(a) \in Seq(Nat) /\ Flat(b) \in Seq(Nat) /\ Len(Flat(a)) \in Nat /\ Len(Flat(b)) \in Nat
        /\ Flat(a \o b) = Flat(a) \o Flat(b)
    BY <2>2, FlatConcat
  <2> DEFINE fa == Flat(a)
             fb == Flat(b)
  <2> HIDE DEF fa, fb
  <2>5. fa \in Seq(Nat) /\ fb \in Seq(Nat)
    BY <2>3 DEF fa, fb
  <2>6. Len(fa \o fb) = Len(fa) + Len(fb)
    BY ONLY <2>5, ConcatProperties
  <2>4. Len(fa) <= Len(fa) + Len(fb)
    BY <2>3 DEF fa, fb
  <2> QED
    BY <2>2, <2>3, <2>4, <2>6 DEF ChunkEnd, a, c, fa, fb
<1> HIDE DEF E
<1> DEFINE T == {j \in Nat : j <= n => \A i \in 0..j : E(i) <= E(j)}
<1>6. 0 \in T
  BY <1>4
<1>7. ASSUME NEW j \in Nat, j \in T PROVE j + 1 \in T
  <2>1. SUFFICES ASSUME j + 1 <= n, NEW i \in 0..(j + 1) PROVE E(i) <= E(j + 1)
    OBVIOUS
  <2>2. j \in 0..(n - 1) /\ j \in 0..n /\ j + 1 \in 0..n /\ i \in 0..n
    BY <1>1, <2>1
  <2>3. E(j) <= E(j + 1) /\ E(i) \in Nat /\ E(j) \in Nat /\ E(j + 1) \in Nat
    BY <1>4, <1>5, <2>2
  <2>4. CASE i = j + 1
    BY <2>3, <2>4
  <2>5. CASE i # j + 1
    <3>1. i \in 0..j
      BY <2>1, <2>5
    <3>2. E(i) <= E(j)
      BY <1>1, <1>7, <2>1, <3>1
    <3> QED
      BY <2>3, <3>2
  <2> QED
    BY <2>4, <2>5
<1> HIDE DEF T
<1>8. Nat \subseteq T
  BY <1>6, <1>7, Induction
<1>9. \A i \in 0..n : \A j \in i..n : E(i) <= E(j)
  <2> TAKE i \in 0..n
  <2> TAKE j \in i..n
  <2>1. j \in Nat /\ j <= n /\ i \in 0..j
    BY <1>1
  <2> QED
    BY <1>8, <2>1 DEF T
<1> QED
  BY <1>2, <1>3, <1>4, <1>9 DEF E

(* As many chunks as end at len or before are used up.                        *)
LEMMA ChunksUsed ==
  ASSUME NEW s \in Seq(Chunks), NEW len \in 0..Len(Flat(s))
  PROVE  \E k \in 0..Len(s) :
           /\ Cardinality({i \in DOMAIN s : ChunkEnd(s, i) <= len}) = k
           /\ ChunkEnd(s, k) <= len /\ (k < Len(s) => len < ChunkEnd(s, k + 1))
<1> DEFINE n == Len(s)
           E(i) == ChunkEnd(s, i)
           U == {i \in DOMAIN s : E(i) <= len}
<1>1. n \in Nat /\ DOMAIN s = 1..n /\ len \in Nat
  <2>1. <<>> \in Seq(Chunks)
    OBVIOUS
  <2>2. Len(Flat(s)) \in Nat
    BY <2>1, FlatConcat
  <2> QED
    BY <2>2
<1>2. /\ E(0) = 0 /\ E(n) = Len(Flat(s)) /\ \A i \in 0..n : E(i) \in Nat
      /\ \A i \in 0..n : \A j \in i..n : E(i) <= E(j)
  BY ChunkEnds
<1> HIDE DEF E
<1>3. \E k \in 0..n : E(k) <= len /\ (k < n => len < E(k + 1))
  <2>1. CASE E(n) <= len
    <3>1. n \in 0..n /\ ~(n < n)
      BY <1>1
    <3> QED
      BY <2>1, <3>1
  <2>2. CASE ~(E(n) <= len)
    <3> DEFINE V == {i \in 0..n : ~(E(i) <= len)}
    <3>1. n \in V /\ V \subseteq Nat
      BY <1>1, <2>2
    <3>2. PICK x \in V : \A y \in V : x <= y
      <4> HIDE DEF V
      <4> QED
        BY <3>1, LeastNumber
    <3>3. x \in 0..n /\ ~(E(x) <= len) /\ x # 0
      BY <1>1, <1>2, <3>2
    <3>4. x - 1 \in 0..n /\ ~(x <= x - 1) /\ (x - 1) + 1 = x
      BY <1>1, <3>3
    <3>5. E(x - 1) <= len
      BY <3>2, <3>4
    <3>6. len < E(x)
      BY <1>1, <1>2, <3>3
    <3> DEFINE k == x - 1
    <3>7. k \in 0..n /\ E(k) <= len /\ len < E(k + 1)
      BY <3>4, <3>5, <3>6
    <3> QED
      BY <3>7
  <2> QED
    BY <2>1, <2>2
<1>4. PICK k \in 0..n : E(k) <= len /\ (k < n => len < E(k + 1))
  BY <1>3
<1>5. U = 1..k
  <2>1. ASSUME NEW i \in 1..n PROVE E(i) <= len <=> i <= k
    <3>0. i \in 0..n /\ E(i) \in Nat /\ E(k) \in Nat /\ i \in Nat /\ k \in Nat
      BY <1>1, <1>2
    <3>1. CASE i <= k
      <4>1. k \in i..n
        BY <1>1, <3>0, <3>1
      <4>2. E(i) <= E(k)
        BY <1>2, <3>0, <4>1
      <4> QED
        BY <1>1, <1>4, <3>0, <3>1, <4>2
    <3>2. CASE ~(i <= k)
      <4>1. k < n /\ k + 1 \in 0..n /\ i \in (k + 1)..n
        BY <1>1, <3>0, <3>2
      <4>2. E(k + 1) <= E(i) /\ E(k + 1) \in Nat /\ len < E(k + 1)
        BY <1>2, <1>4, <4>1
      <4> QED
        BY <1>1, <3>0, <3>2, <4>2
    <3> QED
      BY <3>1, <3>2
  <2>2. \A i : i \in 1..k <=> i \in 1..n /\ i <= k
    BY <1>1
  <2> QED
    BY <1>1, <2>1, <2>2
<1>6. Cardinality(U) = k
  <2>1. 1 \in Int /\ k \in Int /\ k - 1 + 1 = k /\ (~(1 > k) \/ k = 0)
    BY <1>1
  <2>2. Cardinality(1..k) = IF 1 > k THEN 0 ELSE k - 1 + 1
    BY <1>1, FS_Interval
  <2>3. (IF 1 > k THEN 0 ELSE k - 1 + 1) = k
    BY <1>1
  <2> QED
    BY <1>5, <2>2, <2>3
<1> QED
  BY <1>4, <1>6 DEF E

LEMMA CellsAssociative ==
  ASSUME NEW x \in Seq(Nat), NEW y \in Seq(Nat), NEW z \in Seq(Nat)
  PROVE  (x \o y) \o z = x \o (y \o z)
BY ConcatAssociative, SMTT(20)

(* read_from_reassamble_list(): what is left of the list are sound chunks     *)
(* that are not empty, and they hold what the list held from len on.          *)
LEMMA TakeCellsDrops ==
  ASSUME NEW s \in Seq(Chunks), NEW len \in 0..Len(Flat(s))
  PROVE  /\ TakeCells(s, len) \in Seq(Chunks)
         /\ Flat(TakeCells(s, len)) = SubSeq(Flat(s), len + 1, Len(Flat(s)))
<1> DEFINE n == Len(s)
           E(i) == ChunkEnd(s, i)
<1>1. PICK k \in 0..n :
        /\ Cardinality({i \in DOMAIN s : E(i) <= len}) = k
        /\ E(k) <= len /\ (k < n => len < E(k + 1))
  BY ChunksUsed
<1> DEFINE a == SubSeq(s, 1, k)
           rest == SubSeq(s, k + 1, n)
           cut == len - E(k)
<1>2. n \in Nat /\ k \in Nat /\ k <= n /\ a \in Seq(Chunks) /\ rest \in Seq(Chunks) /\ s = a \o rest
  <2>1. a \in Seq(Chunks) /\ rest \in Seq(Chunks) /\ s = a \o rest
    BY SplitSeq
  <2> HIDE DEF a, rest
  <2> QED
    BY <2>1
<1>3. TakeCells(s, len) = IF cut = 0 THEN rest ELSE <<Resize(Head(rest), cut, Head(rest).size)>> \o Tail(rest)
  BY <1>1 DEF TakeCells
<1>4. E(k) = Len(Flat(a)) /\ E(n) = Len(Flat(s)) /\ E(k) \in Nat
  BY ChunkEnds DEF ChunkEnd
<1>5. /\ Flat(a) \in Seq(Nat) /\ Flat(rest) \in Seq(Nat) /\ Flat(s) = Flat(a) \o Flat(rest)
      /\ Flat(s) \in Seq(Nat) /\ Len(Flat(s)) \in Nat
  <2> HIDE DEF a, rest
  <2>1. Flat(a \o rest) = Flat(a) \o Flat(rest) /\ Flat(a) \in Seq(Nat) /\ Flat(rest) \in Seq(Nat)
    BY <1>2, FlatConcat
  <2>2. Flat(s) \in Seq(Nat) /\ Len(Flat(s)) \in Nat
    BY FlatConcat
  <2> QED
    BY <1>2, <2>1, <2>2
<1>6. cut \in Nat
  BY <1>1, <1>4, <1>5
<1> DEFINE fs == Flat(s)
           fa == Flat(a)
<1>7. CASE cut = 0
  <2>1. len = Len(fa)
    BY <1>4, <1>5, <1>7
  <2> DEFINE fr == Flat(rest)
  <2> HIDE DEF fs, fa, fr
  <2>2. fa \in Seq(Nat) /\ fr \in Seq(Nat) /\ fs = fa \o fr
    BY <1>5 DEF fs, fa, fr
  <2>3. SubSeq(fa \o fr, Len(fa) + 1, Len(fa \o fr)) = fr
    BY <2>2, DropPrefix
  <2> QED
    BY <1>2, <1>3, <1>7, <2>1, <2>2, <2>3 DEF fs, fr
<1>8. CASE cut # 0
  <2>1. k < n
    BY <1>1, <1>2, <1>4, <1>5, <1>8
  <2> DEFINE h == s[k + 1]
             t == SubSeq(s, k + 2, n)
             x == Content(h)
             r == Resize(h, cut, h.size)
  <2>2. h \in Chunks /\ rest = <<h>> \o t /\ t \in Seq(Chunks) /\ SubSeq(s, 1, k + 1) = a \o <<h>>
    <3>1. h \in Chunks /\ rest = <<h>> \o t /\ SubSeq(s, 1, k + 1) = a \o <<h>>
      BY <1>2, <2>1, SplitNext
    <3>2. k + 1 \in 0..Len(s) /\ (k + 1) + 1 = k + 2
      BY <1>2, <2>1
    <3> DEFINE j == k + 1
    <3> HIDE DEF j
    <3>3. SubSeq(s, j + 1, Len(s)) \in Seq(Chunks)
      BY <3>2, SplitSeq DEF j
    <3> QED
      BY <3>1, <3>2, <3>3 DEF j
  <2> HIDE DEF rest
  <2>3. Head(rest) = h /\ Tail(rest) = t
    <3> HIDE DEF h, t
    <3> QED
      BY <2>2
  <2>4. TakeCells(s, len) = <<r>> \o t
    BY <1>3, <1>8, <2>3
  <2>5. Sound(h) /\ h.size \in Nat /\ x \in Seq(Nat) /\ Len(x) = h.size
    BY <2>2, ChunkCells, ContentCells
  <2>6. cut < h.size
    <3>1. <<h>> \in Seq(Chunks)
      BY <2>2
    <3>2. Flat(a \o <<h>>) = fa \o Flat(<<h>>) /\ Flat(<<h>>) = x
      BY <1>2, <2>2, <3>1, FlatConcat, FlatEnds
    <3> HIDE DEF fa, x, a, h
    <3>3. Len(fa \o x) = Len(fa) + Len(x)
      BY <1>5, <2>5, ConcatProperties DEF fa
    <3>4. E(k + 1) = Len(fa) + h.size
      BY <2>2, <2>5, <3>2, <3>3 DEF ChunkEnd
    <3>5. len < Len(fa) + h.size /\ cut = len - Len(fa) /\ Len(fa) \in Nat /\ len \in Nat
      BY <1>1, <1>4, <1>5, <2>1, <3>4 DEF fa
    <3> QED
      BY <2>5, <3>5
  <2> DEFINE z == h.size
             y1 == SubSeq(x, 1, cut)
             y2 == SubSeq(x, cut + 1, z)
  <2>7. y1 \in Seq(Nat) /\ Len(y1) = cut /\ y2 \in Seq(Nat) /\ Len(y2) = z - cut /\ x = y1 \o y2
        /\ \A i \in 1..(z - cut) : y2[i] = x[cut + i]
    <3>1. cut \in 0..Len(x)
      BY <1>6, <2>5, <2>6
    <3> HIDE DEF x, cut
    <3>2. /\ SubSeq(x, 1, cut) \in Seq(Nat) /\ SubSeq(x, cut + 1, Len(x)) \in Seq(Nat)
          /\ Len(SubSeq(x, 1, cut)) = cut /\ Len(SubSeq(x, cut + 1, Len(x))) = Len(x) - cut
          /\ x = SubSeq(x, 1, cut) \o SubSeq(x, cut + 1, Len(x))
          /\ \A i \in 1..(Len(x) - cut) : SubSeq(x, cut + 1, Len(x))[i] = x[cut + i]
      BY <2>5, <3>1, SplitSeq
    <3> QED
      BY ONLY <2>5, <3>2
  <2>8. Sound(r) /\ r.size = z - cut /\ Content(r) = y2
    <3>1. cut \in Int /\ z \in Int /\ cut <= z
      BY <1>6, <2>5, <2>6
    <3> HIDE DEF cut, h
    <3>2. Sound(r) /\ r.size = z - cut /\ \A i \in 1..(z - cut) : cut + i \in 1..z => Content(r)[i] = x[cut + i]
      BY <2>5, <3>1, ResizeCells
    <3>3. \A i \in 1..(z - cut) : cut + i \in 1..z
      BY <1>6, <2>5, <3>1
    <3>4. Content(r) \in Seq(Nat) /\ Len(Content(r)) = z - cut
      BY <3>2, ContentCells
    <3> HIDE DEF y2, x, z, r
    <3>5. \A i \in 1..(z - cut) : Content(r)[i] = y2[i]
      BY <2>7, <3>2, <3>3
    <3> QED
      BY <2>7, <3>2, <3>4, <3>5, SeqEqual
  <2>9. r \in Chunks /\ <<r>> \in Seq(Chunks)
    <3>1. z - cut > 0
      BY <1>6, <2>5, <2>6
    <3> HIDE DEF r, cut, z
    <3>2. r \in Chunks
      BY <2>8, <3>1 DEF Chunks, Sound
    <3> QED
      BY <3>2
  <2> HIDE DEF r, h, t, y1, y2, x, z, cut, a
  <2>10. <<r>> \o t \in Seq(Chunks)
    BY <2>2, <2>9, ConcatProperties
  <2> DEFINE ft == Flat(t)
             b == y2 \o ft
             p == fa \o y1
  <2>11. Flat(<<r>> \o t) = b /\ ft \in Seq(Nat)
    <3>1. Flat(<<r>> \o t) = Flat(<<r>>) \o ft /\ ft \in Seq(Nat)
      BY <2>2, <2>9, FlatConcat
    <3>2. Flat(<<r>>) = y2
      BY <2>8, <2>9, FlatEnds
    <3> QED
      BY <3>1, <3>2
  <2>12. Flat(rest) = (y1 \o y2) \o ft
    <3>1. <<h>> \in Seq(Chunks)
      BY <2>2
    <3>2. Flat(<<h>> \o t) = Flat(<<h>>) \o ft /\ Flat(<<h>>) = x
      BY <2>2, <3>1, FlatConcat, FlatEnds DEF x
    <3> QED
      BY <2>2, <2>7, <3>2
  <2> HIDE DEF ft, fa, fs
  <2>13. fs = p \o b /\ p \in Seq(Nat) /\ b \in Seq(Nat) /\ Len(p) = len
    <3>1. fa \in Seq(Nat) /\ fs = fa \o Flat(rest)
      BY <1>5 DEF fa, fs
    <3>0. y1 \in Seq(Nat) /\ y2 \in Seq(Nat) /\ ft \in Seq(Nat)
      BY <2>7, <2>11
    <3>2. (y1 \o y2) \o ft = y1 \o b /\ b \in Seq(Nat)
      <4>1. (y1 \o y2) \o ft = y1 \o (y2 \o ft)
        BY ONLY <3>0, CellsAssociative
      <4>2. y2 \o ft \in Seq(Nat)
        BY ONLY <3>0, ConcatProperties
      <4> QED
        BY ONLY <4>1, <4>2
    <3>3. p \in Seq(Nat) /\ Len(p) = Len(fa) + Len(y1)
      BY <2>7, <3>1, ConcatProperties
    <3> HIDE DEF b
    <3>6. fa \in Seq(Nat) /\ y1 \in Seq(Nat) /\ b \in Seq(Nat)
      BY ONLY <3>0, <3>1, <3>2
    <3>4. (fa \o y1) \o b = fa \o (y1 \o b)
      BY ONLY <3>6, CellsAssociative
    <3>5. Len(fa) + cut = len
      BY <1>4, <1>5 DEF cut, fa
    <3> QED
      BY <2>7, <2>12, <3>1, <3>2, <3>3, <3>4, <3>5
  <2> HIDE DEF b, p
  <2>14. SubSeq(p \o b, Len(p) + 1, Len(p \o b)) = b
    BY <2>13, DropPrefix
  <2> QED
    BY <2>4, <2>10, <2>11, <2>13, <2>14 DEF fs
<1> QED
  BY <1>7, <1>8

-----------------------------------------------------------------------------
(* Packets and frames *)

Packets == OtherReplies \cup {IpReply} \cup {Kex(i) : i \in 1..5}

LEMMA TwoRecords ==
  ASSUME NEW x \in Seq(Nat), NEW y \in Seq(Nat)
  PROVE  /\ Content(AddRecord(AddRecord(NullBlob, x), y)) = Record(x) \o Record(y)
         /\ Record(x) \o Record(y) \in Seq(Nat)
         /\ Len(Record(x) \o Record(y)) = 2 * LenSize + Len(x) + Len(y)
<1> DEFINE a == AddRecord(NullBlob, x)
           c == AddRecord(a, y)
           rx == Record(x)
           ry == Record(y)
<1>1. Sound(a) /\ Content(a) = <<>> \o rx
  BY NullBlobIsEmpty, AddRecordPacks
<1> HIDE DEF a
<1>2. Content(c) = Content(a) \o ry
  BY <1>1, AddRecordPacks
<1>3. rx \in Seq(Nat) /\ ry \in Seq(Nat) /\ Len(rx) = LenSize + Len(x) /\ Len(ry) = LenSize + Len(y)
  BY RecordCells
<1> HIDE DEF c, rx, ry
<1>4. <<>> \o rx = rx
  BY <1>3, ConcatEmptySeq
<1>5. rx \o ry \in Seq(Nat) /\ Len(rx \o ry) = Len(rx) + Len(ry)
  BY <1>3, ConcatProperties
<1>6. (LenSize + Len(x)) + (LenSize + Len(y)) = 2 * LenSize + Len(x) + Len(y)
  BY LenSizeAssumption
<1>7. Content(c) = rx \o ry
  BY <1>1, <1>2, <1>4
<1> QED
  BY <1>3, <1>5, <1>6, <1>7 DEF c, a, rx, ry

LEMMA ReplyData ==
  /\ IpReply.type = PktNormal /\ IpReply.data = Record(Address) \o Record(Port)
  /\ IpReply = [type |-> IpReply.type, data |-> IpReply.data]
  /\ IpReply.data \in Seq(Nat) /\ Len(IpReply.data) = 2 * LenSize + Len(Address) + Len(Port)
<1> DEFINE c == Content(AddRecord(AddRecord(NullBlob, Address), Port))
           d == Record(Address) \o Record(Port)
           p == IpReply
<1>1. c = d /\ d \in Seq(Nat) /\ Len(d) = 2 * LenSize + Len(Address) + Len(Port)
  BY LookupConstants, TwoRecords
<1>2. p = [type |-> PktNormal, data |-> c]
  BY DEF IpReply, Packet
<1> HIDE DEF p, c, d
<1>3. p = [type |-> PktNormal, data |-> d]
  BY <1>1, <1>2
<1>4. p.type = PktNormal /\ p.data = d
  BY ONLY <1>3
<1> QED
  BY <1>1, <1>3, <1>4 DEF p, d

(* Every packet has a type and bytes, and the program's own are not refused.  *)
Own == {IpReply} \cup {Kex(i) : i \in 1..5}

Refused(p) == Len(p.data) >= MaxPacketSize \/ p.type \notin {PktNormal, PktRaw}

LEMMA PacketFields ==
  ASSUME NEW p \in Packets
  PROVE  /\ p.type \in Nat /\ p.data \in Seq(Nat) /\ p = [type |-> p.type, data |-> p.data]
         /\ p \in Own => p.type = PktNormal /\ ~Refused(p)
<1>1. PktNormal \in Nat
  BY DEF PktNormal
<1>2. LenSize \in Nat /\ LenSize > 0 /\ Len(Address) \in Nat /\ Len(Port) \in Nat /\ MaxPacketSize \in Nat
      /\ 2 * LenSize + Len(Address) + Len(Port) < MaxPacketSize
  BY LenSizeAssumption, LookupConstants, MaxPacketSizeAssumption
<1>3. CASE p \notin Own
  <2>1. p \in [type : Nat, data : Seq(Nat)]
    BY <1>3, LookupConstants DEF Packets, Own
  <2> QED
    BY <1>3, <2>1
<1>4. CASE p = IpReply
  <2>1. ~(2 * LenSize + Len(Address) + Len(Port) >= MaxPacketSize)
    BY <1>2
  <2> QED
    BY <1>1, <1>4, <2>1, ReplyData DEF Refused
<1>5. CASE \E i \in 1..5 : p = Kex(i)
  <2>1. PICK i \in 1..5 : p = [type |-> PktNormal, data |-> <<i>>]
    BY <1>5 DEF Kex, Packet
  <2>2. p.type = PktNormal /\ p.data = <<i>> /\ <<i>> \in Seq(Nat) /\ Len(<<i>>) = 1
    BY <2>1
  <2>3. ~(1 >= MaxPacketSize)
    BY <1>2
  <2> QED
    BY <1>1, <2>1, <2>2, <2>3 DEF Refused
<1> QED
  BY <1>3, <1>4, <1>5 DEF Own

LEMMA FrameCells ==
  /\ Frame \in [Packets -> Seq(Nat)]
  /\ \A p \in Packets :
       /\ Frame[p] = <<p.type>> \o Record(p.data) /\ Len(p.data) \in Nat
       /\ Len(Frame[p]) = HeaderLen + Len(p.data)
       /\ Frame[p][1] = p.type /\ Frame[p][2] = Len(p.data)
       /\ \A i \in 1..Len(p.data) : Frame[p][HeaderLen + i] = p.data[i]
<1>1. Frame = [p \in Packets |-> Content(Wrap(p.type, p.data))]
  BY DEF Frame, Packets
<1>2. ASSUME NEW p \in Packets
      PROVE  /\ Frame[p] = <<p.type>> \o Record(p.data) /\ Frame[p] \in Seq(Nat) /\ Len(p.data) \in Nat
             /\ Len(Frame[p]) = HeaderLen + Len(p.data)
             /\ Frame[p][1] = p.type /\ Frame[p][2] = Len(p.data)
             /\ \A i \in 1..Len(p.data) : Frame[p][HeaderLen + i] = p.data[i]
  <2> DEFINE t == p.type
             d == p.data
             l == Len(d)
             rec == Record(d)
             a == <<t>>
             u == a \o rec
             h == HeaderLen
  <2>1. t \in Nat /\ d \in Seq(Nat) /\ l \in Nat /\ LenSize \in Nat /\ 1 <= LenSize /\ h = 1 + LenSize
    BY PacketFields, LenSizeAssumption DEF HeaderLen
  <2> HIDE DEF h
  <2>2. Frame[p] = u
    BY <1>1, <2>1, WrapCells
  <2> HIDE DEF d, t
  <2>3. rec \in Seq(Nat) /\ Len(rec) = LenSize + l
        /\ \A i \in 1..(LenSize + l) : rec[i] = IF i <= LenSize THEN LenField(l)[i] ELSE d[i - LenSize]
    BY <2>1, RecordCells
  <2>4. a \in Seq(Nat) /\ Len(a) = 1 /\ a[1] = t
    BY <2>1
  <2> HIDE DEF rec, a, l
  <2>5. u \in Seq(Nat) /\ Len(u) = 1 + (LenSize + l)
        /\ \A i \in 1..(1 + (LenSize + l)) : u[i] = IF i <= 1 THEN a[i] ELSE rec[i - 1]
    <3>1. a \in Seq(Nat) /\ rec \in Seq(Nat)
      BY <2>3, <2>4
    <3>2. /\ u \in Seq(Nat) /\ Len(u) = Len(a) + Len(rec)
          /\ \A i \in 1..(Len(a) + Len(rec)) : u[i] = IF i <= Len(a) THEN a[i] ELSE rec[i - Len(a)]
      BY ONLY <3>1, ConcatProperties
    <3> QED
      BY ONLY <2>3, <2>4, <3>2
  <2> HIDE DEF u
  <2>6. u[1] = t
    <3>1. 1 \in 1..(1 + (LenSize + l)) /\ 1 <= 1
      BY <2>1
    <3> QED
      BY ONLY <2>4, <2>5, <3>1
  <2>7. u[2] = l
    <3>1. 2 \in 1..(1 + (LenSize + l)) /\ ~(2 <= 1) /\ 2 - 1 = 1 /\ 1 \in 1..(LenSize + l) /\ 1 <= LenSize
      BY <2>1
    <3>2. LenField(l)[1] = l
      BY <2>1, LenFieldCells
    <3> QED
      BY ONLY <2>3, <2>5, <3>1, <3>2
  <2>8. \A i \in 1..l : u[h + i] = d[i]
    <3> TAKE i \in 1..l
    <3>1. h + i \in 1..(1 + (LenSize + l)) /\ ~(h + i <= 1) /\ (h + i) - 1 = LenSize + i
          /\ LenSize + i \in 1..(LenSize + l) /\ ~(LenSize + i <= LenSize) /\ (LenSize + i) - LenSize = i
      BY <2>1
    <3>2. u[h + i] = rec[LenSize + i]
      BY ONLY <2>5, <3>1
    <3>3. rec[LenSize + i] = d[i]
      BY ONLY <2>3, <3>1
    <3> QED
      BY <3>2, <3>3
  <2>9. 1 + (LenSize + l) = h + l
    BY <2>1
  <2> QED
    BY <2>1, <2>2, <2>5, <2>6, <2>7, <2>8, <2>9 DEF u, a, rec, d, t, h, l
<1>3. Frame \in [Packets -> Seq(Nat)]
  BY <1>1, <1>2
<1> QED
  BY <1>2, <1>3

LEMMA FramedConcat ==
  ASSUME NEW s \in Seq(Packets), NEW t \in Seq(Packets)
  PROVE  Framed(s) \in Seq(Nat) /\ Len(Framed(s)) \in Nat /\ Framed(s \o t) = Framed(s) \o Framed(t)
<1>1. Framed(s) = Spread(Frame, s) /\ Framed(t) = Spread(Frame, t) /\ Framed(s \o t) = Spread(Frame, s \o t)
  BY DEF Framed, Spread
<1>2. /\ Spread(Frame, s) \in Seq(Nat) /\ Len(Spread(Frame, s)) \in Nat
      /\ Spread(Frame, s \o t) = Spread(Frame, s) \o Spread(Frame, t)
  <2>1. Frame \in [Packets -> Seq(Nat)]
    BY FrameCells
  <2> QED
    BY <2>1, SpreadConcat
<1> QED
  BY ONLY <1>1, <1>2

LEMMA FramedEnds == Framed(<<>>) = <<>> /\ \A p \in Packets : Framed(<<p>>) = Frame[p]
<1>1. Framed(<<>>) = Spread(Frame, <<>>) /\ \A p \in Packets : Framed(<<p>>) = Spread(Frame, <<p>>)
  BY DEF Framed, Spread
<1>2. Spread(Frame, <<>>) = <<>> /\ \A p \in Packets : Spread(Frame, <<p>>) = Frame[p]
  BY FrameCells, SpreadEnds
<1> QED
  BY ONLY <1>1, <1>2

-----------------------------------------------------------------------------
(* on_receive() *)

(* f is the function that Reassemble defines.                                 *)
Scan(f, cells, at) ==
  LET type == cells[at + 1]
      len == cells[at + 2]
      next == at + HeaderLen + len
      stopped(close) == [packets |-> <<>>, end |-> at, close |-> close]
  IN IF ~HasAll(Len(cells) - at, HeaderLen) THEN stopped(FALSE)
     ELSE IF len >= MaxPacketSize \/ type \notin {PktNormal, PktRaw} THEN stopped(TRUE)
     ELSE IF ~HasAll(Len(cells) - at, HeaderLen + len) THEN stopped(FALSE)
     ELSE [f[next] EXCEPT !.packets = <<[type |-> type, data |-> SubSeq(cells, at + HeaderLen + 1, next)]>> \o @]

Scans(f, cells) == f = [at \in 0..Len(cells) |-> Scan(f, cells, at)]

LEMMA ScansAt ==
  ASSUME NEW f, NEW cells, Scans(f, cells), NEW at \in 0..Len(cells)
  PROVE  f[at] = Scan(f, cells, at)
<1> DEFINE h == [a \in 0..Len(cells) |-> Scan(f, cells, a)]
<1>1. f = h
  BY DEF Scans
<1>2. h[at] = Scan(f, cells, at)
  OBVIOUS
<1> HIDE DEF h
<1> QED
  BY ONLY <1>1, <1>2

(* What the loop finds at a place depends on what it finds further on only.   *)
LEMMA ScanLooksAhead ==
  ASSUME NEW cells \in Seq(Nat), NEW at \in 0..Len(cells), NEW f, NEW g,
         \A i \in (at + 1)..Len(cells) : f[i] = g[i]
  PROVE  Scan(f, cells, at) = Scan(g, cells, at)
<1> DEFINE n == Len(cells)
           next == at + HeaderLen + cells[at + 2]
           more == HasAll(n - at, HeaderLen) /\ HasAll(n - at, HeaderLen + cells[at + 2])
<1>1. n \in Nat /\ LenSize \in Nat /\ 1 <= LenSize /\ at \in Nat /\ HeaderLen = 1 + LenSize
  BY LenSizeAssumption DEF HeaderLen
<1>2. ASSUME more PROVE f[next] = g[next]
  <2>1. HeaderLen <= n - at /\ HeaderLen + cells[at + 2] <= n - at
    BY <1>2 DEF HasAll
  <2>2. at + 2 \in 1..n
    BY <1>1, <2>1
  <2>3. cells[at + 2] \in Nat
    BY <2>2, ElementOfSeq
  <2> DEFINE c == cells[at + 2]
  <2> HIDE DEF c
  <2>4. c \in Nat /\ HeaderLen + c <= n - at
    BY <2>1, <2>3 DEF c
  <2> HIDE DEF n, more
  <2>5. at + HeaderLen + c \in (at + 1)..n
    BY ONLY <1>1, <2>4
  <2> QED
    BY <2>5 DEF c, n
<1>3. CASE more
  <2> HIDE DEF next
  <2>1. f[next] = g[next]
    BY <1>2, <1>3
  <2> QED
    BY <2>1 DEF Scan, next
<1>4. CASE ~more
  BY <1>4 DEF Scan
<1> QED
  BY <1>3, <1>4

LEMMA ScansExist ==
  ASSUME NEW cells \in Seq(Nat)
  PROVE  \E f : Scans(f, cells)
<1> DEFINE n == Len(cells)
           Has(k) == \E f : f = [at \in (n - k)..n |-> Scan(f, cells, at)]
           T == {k \in Nat : k <= n => Has(k)}
<1>1. n \in Nat /\ n - n = 0
  OBVIOUS
<1>2. 0 \in T
  <2>1. (n - 0)..n = {n} /\ n \in 0..n
    BY <1>1
  <2> DEFINE f == [at \in {n} |-> Scan([i \in {} |-> i], cells, n)]
  <2>2. Scan(f, cells, n) = Scan([i \in {} |-> i], cells, n)
    <3>1. \A i \in (n + 1)..Len(cells) : f[i] = [j \in {} |-> j][i]
      BY <1>1
    <3> HIDE DEF f
    <3> QED
      BY <2>1, <3>1, ScanLooksAhead
  <2>3. f = [at \in {n} |-> Scan(f, cells, n)]
    BY <2>2
  <2> HIDE DEF f
  <2>4. f = [at \in {n} |-> Scan(f, cells, at)]
    BY <2>3
  <2> QED
    BY <2>1, <2>4
<1>3. ASSUME NEW k \in Nat, k \in T PROVE k + 1 \in T
  <2>1. SUFFICES ASSUME k + 1 <= n PROVE Has(k + 1)
    OBVIOUS
  <2> DEFINE m == n - k
             b == m - 1
  <2>2. m \in 1..n /\ b \in 0..n /\ b + 1 = m /\ n - (k + 1) = b
    BY <1>1, <2>1
  <2>3. PICK f : f = [at \in m..n |-> Scan(f, cells, at)]
    BY <1>1, <1>3, <2>1
  <2> HIDE DEF m, b
  <2> DEFINE g == [at \in b..n |-> IF at = b THEN Scan(f, cells, b) ELSE f[at]]
  <2>4. \A i \in m..n : g[i] = f[i]
    BY <1>1, <2>2
  <2>5. \A at \in b..n : g[at] = Scan(g, cells, at)
    <3> TAKE at \in b..n
    <3>1. at \in 0..n /\ \A i \in (at + 1)..n : i \in m..n
      BY <1>1, <2>2
    <3>2. \A i \in (at + 1)..n : f[i] = g[i]
      BY <2>4, <3>1
    <3>0. g[at] = IF at = b THEN Scan(f, cells, b) ELSE f[at]
      OBVIOUS
    <3> HIDE DEF g
    <3>3. Scan(f, cells, at) = Scan(g, cells, at)
      BY <3>1, <3>2, ScanLooksAhead
    <3>4. CASE at = b
      BY <3>0, <3>3, <3>4
    <3>5. CASE at # b
      <4>1. at \in m..n
        BY <1>1, <2>2, <3>5
      <4> DEFINE h == [a \in m..n |-> Scan(f, cells, a)]
      <4>2. h[at] = Scan(f, cells, at)
        BY <4>1
      <4>3. f = h
        BY <2>3
      <4> HIDE DEF h
      <4> QED
        BY <3>0, <3>3, <3>5, <4>2, <4>3
    <3> QED
      BY <3>4, <3>5
  <2>6. g = [at \in b..n |-> g[at]]
    OBVIOUS
  <2> HIDE DEF g
  <2>7. g = [at \in b..n |-> Scan(g, cells, at)]
    BY <2>5, <2>6
  <2> QED
    BY <2>2, <2>7
<1> HIDE DEF T
<1>4. Nat \subseteq T
  BY <1>2, <1>3, Induction
<1>5. Has(n)
  BY <1>1, <1>4 DEF T
<1> QED
  BY <1>1, <1>5 DEF Scans

LEMMA ReassembleScans ==
  ASSUME NEW cells \in Seq(Nat)
  PROVE  \E f : Scans(f, cells) /\ Reassemble(cells) = f[0]
<1> DEFINE f == CHOOSE f : Scans(f, cells)
<1>1. Scans(f, cells)
  BY ScansExist
<1>2. Reassemble(cells) = f[0]
  BY DEF Reassemble, Scans, Scan
<1> QED
  BY <1>1, <1>2

(* Where the frames end that the first j packets make. *)
FrameEnd(ps, j) == Len(Framed(SubSeq(ps, 1, j)))

LEMMA FrameAt ==
  ASSUME NEW ps \in Seq(Packets), NEW j \in Nat, j < Len(ps)
  PROVE  /\ ps[j + 1] \in Packets /\ FrameEnd(ps, j) \in Nat
         /\ FrameEnd(ps, j + 1) = FrameEnd(ps, j) + Len(Frame[ps[j + 1]])
         /\ \A i \in 1..Len(Frame[ps[j + 1]]) : Framed(ps)[FrameEnd(ps, j) + i] = Frame[ps[j + 1]][i]
<1> DEFINE p == ps[j + 1]
           a == SubSeq(ps, 1, j)
           t == SubSeq(ps, j + 1, Len(ps))
           u == SubSeq(ps, j + 2, Len(ps))
           x == Frame[p]
           fa == Framed(a)
           fu == Framed(u)
<1>1. p \in Packets /\ SubSeq(ps, 1, j + 1) = a \o <<p>> /\ t = <<p>> \o u
  BY SplitNext
<1>2. a \in Seq(Packets) /\ ps = a \o t /\ <<p>> \in Seq(Packets) /\ t \in Seq(Packets)
  <2>1. j \in 0..Len(ps)
    OBVIOUS
  <2>2. a \in Seq(Packets) /\ ps = a \o t /\ t \in Seq(Packets)
    <3>1. a \in Seq(Packets) /\ SubSeq(ps, j + 1, Len(ps)) \in Seq(Packets) /\ ps = a \o SubSeq(ps, j + 1, Len(ps))
      BY <2>1, SplitSeq
    <3> HIDE DEF a
    <3> QED
      BY <3>1
  <2>3. <<p>> \in Seq(Packets)
    BY <1>1
  <2> QED
    BY ONLY <2>2, <2>3
<1>3. u \in Seq(Packets)
  <2> DEFINE k == j + 1
  <2>1. k \in 0..Len(ps) /\ k + 1 = j + 2
    OBVIOUS
  <2> HIDE DEF k
  <2>2. SubSeq(ps, k + 1, Len(ps)) \in Seq(Packets)
    BY <2>1, SplitSeq
  <2> QED
    BY <2>1, <2>2
<1>4. x \in Seq(Nat) /\ Len(x) \in Nat
  <2>1. x \in Seq(Nat)
    BY <1>1, FrameCells
  <2> QED
    BY <2>1
<1> HIDE DEF a, t, u, p, x
<1>5. Framed(a \o <<p>>) = fa \o x /\ fa \in Seq(Nat) /\ Len(fa) \in Nat
  <2>1. Framed(a \o <<p>>) = fa \o Framed(<<p>>) /\ fa \in Seq(Nat) /\ Len(fa) \in Nat
    BY <1>2, FramedConcat
  <2> QED
    BY <1>1, <2>1, FramedEnds DEF x
<1>6. Framed(ps) = fa \o (x \o fu) /\ fu \in Seq(Nat)
  <2>1. Framed(a \o t) = fa \o Framed(t)
    BY <1>2, FramedConcat
  <2>2. Framed(<<p>> \o u) = Framed(<<p>>) \o fu
    BY <1>2, <1>3, FramedConcat
  <2>3. Framed(<<p>>) = x
    BY <1>1, FramedEnds DEF x
  <2>4. fu \in Seq(Nat)
    BY <1>3, FramedConcat
  <2> QED
    BY ONLY <1>1, <1>2, <2>1, <2>2, <2>3, <2>4
<1> HIDE DEF fa, fu
<1>7. FrameEnd(ps, j) = Len(fa) /\ FrameEnd(ps, j + 1) = Len(fa \o x)
  BY <1>1, <1>5 DEF FrameEnd, a, fa
<1>8. Len(fa \o x) = Len(fa) + Len(x)
  BY ONLY <1>4, <1>5, ConcatProperties
<1> DEFINE c == x \o fu
           d == fa \o c
<1>9. c \in Seq(Nat) /\ Len(c) = Len(x) + Len(fu)
      /\ \A i \in 1..(Len(x) + Len(fu)) : c[i] = IF i <= Len(x) THEN x[i] ELSE fu[i - Len(x)]
  BY ONLY <1>4, <1>6, ConcatProperties
<1> HIDE DEF c
<1>10. \A i \in 1..(Len(fa) + Len(c)) : d[i] = IF i <= Len(fa) THEN fa[i] ELSE c[i - Len(fa)]
  BY ONLY <1>5, <1>9, ConcatProperties
<1> HIDE DEF d
<1>11. \A i \in 1..Len(x) : d[Len(fa) + i] = x[i]
  <2> TAKE i \in 1..Len(x)
  <2> DEFINE n == Len(fa)
             m == Len(x)
             k == Len(fu)
  <2>0. n \in Nat /\ m \in Nat /\ k \in Nat
    BY <1>4, <1>5, <1>6
  <2> HIDE DEF n, m, k
  <2>1. n + i \in 1..(n + (m + k)) /\ ~(n + i <= n) /\ (n + i) - n = i /\ i \in 1..(m + k) /\ i <= m
    <3>1. i \in 1..m
      BY DEF m
    <3> QED
      BY <2>0, <3>1
  <2>2. d[n + i] = c[i]
    BY ONLY <1>9, <1>10, <2>1 DEF n, m, k
  <2>3. c[i] = x[i]
    BY ONLY <1>9, <2>1 DEF m, k
  <2> QED
    BY <2>2, <2>3 DEF n
<1>12. Framed(ps) = d
  BY <1>6 DEF d, c
<1> QED
  BY <1>1, <1>5, <1>7, <1>8, <1>11, <1>12 DEF p, x

(* One turn of the loop, at a frame. *)
Turn(f, cells, ps, j) ==
  LET at == FrameEnd(ps, j)
      p == ps[j + 1]
      stopped(close) == [packets |-> <<>>, end |-> at, close |-> close]
  IN IF Len(cells) - at < HeaderLen THEN stopped(FALSE)
     ELSE IF Refused(p) THEN stopped(TRUE)
     ELSE IF Len(cells) - at < Len(Frame[p]) THEN stopped(FALSE)
     ELSE [f[FrameEnd(ps, j + 1)] EXCEPT !.packets = <<p>> \o @]

LEMMA ScanFrame ==
  ASSUME NEW cells \in Seq(Nat), NEW rest \in Seq(Nat), NEW ps \in Seq(Packets), cells \o rest = Framed(ps),
         NEW f, Scans(f, cells), NEW j \in Nat, j < Len(ps), FrameEnd(ps, j) <= Len(cells)
  PROVE  f[FrameEnd(ps, j)] = Turn(f, cells, ps, j)
<1> DEFINE n == Len(cells)
           at == FrameEnd(ps, j)
           p == ps[j + 1]
           l == Len(p.data)
           x == Frame[p]
           h == HeaderLen
           stopped(close) == [packets |-> <<>>, end |-> at, close |-> close]
<1>1. p \in Packets /\ at \in Nat /\ FrameEnd(ps, j + 1) = at + Len(x)
      /\ \A i \in 1..Len(x) : Framed(ps)[at + i] = x[i]
  BY FrameAt
<1>2. n \in Nat /\ at <= n /\ h \in Nat /\ 2 <= h
  BY LenSizeAssumption DEF HeaderLen
<1> HIDE DEF p, x, l, h, at
<1>3. p.type \in Nat /\ p.data \in Seq(Nat) /\ p = [type |-> p.type, data |-> p.data]
  BY <1>1, PacketFields
<1>4. /\ l \in Nat /\ Len(x) = h + l /\ x[1] = p.type /\ x[2] = l
      /\ \A i \in 1..l : x[h + i] = p.data[i]
  BY <1>1, FrameCells DEF x, h, l
<1>5. \A i \in 1..(h + l) : at + i <= n => cells[at + i] = x[i]
  <2> TAKE i \in 1..(h + l)
  <2>1. HAVE at + i <= n
  <2>2. at + i \in 1..n
    BY <1>1, <1>2, <1>4, <2>1
  <2>3. \A k \in 1..(Len(cells) + Len(rest)) : (cells \o rest)[k] = IF k <= Len(cells) THEN cells[k] ELSE rest[k - Len(cells)]
    BY ConcatProperties
  <2>4. at + i \in 1..(Len(cells) + Len(rest)) /\ at + i <= Len(cells)
    <3>1. Len(rest) \in Nat
      OBVIOUS
    <3> QED
      BY <2>2, <3>1
  <2>5. (cells \o rest)[at + i] = cells[at + i]
    BY ONLY <2>3, <2>4
  <2> QED
    BY <1>1, <1>4, <2>5
<1>6. f[at] = Scan(f, cells, at)
  <2>1. at \in 0..n
    BY <1>1, <1>2
  <2> QED
    BY <2>1, ScansAt
<1>7. CASE n - at < h
  <2>1. ~HasAll(n - at, h)
    BY <1>1, <1>2, <1>7 DEF HasAll
  <2>2. Scan(f, cells, at) = stopped(FALSE)
    BY <2>1 DEF Scan, h
  <2> QED
    BY <1>6, <1>7, <2>2 DEF Turn, at, h
<1>8. CASE ~(n - at < h)
  <2>1. HasAll(n - at, h)
    BY <1>1, <1>2, <1>8, SMTT(20) DEF HasAll
  <2>2. cells[at + 1] = p.type /\ cells[at + 2] = l
    <3>1. 1 \in 1..(h + l) /\ 2 \in 1..(h + l) /\ at + 1 <= n /\ at + 2 <= n
      BY <1>1, <1>2, <1>4, <1>8, SMTT(20)
    <3> QED
      BY ONLY <1>4, <1>5, <3>1
  <2>3. Scan(f, cells, at) =
          IF Refused(p) THEN stopped(TRUE)
          ELSE IF ~HasAll(n - at, h + l) THEN stopped(FALSE)
          ELSE [f[at + h + l] EXCEPT !.packets = <<[type |-> p.type, data |-> SubSeq(cells, at + h + 1, at + h + l)]>> \o @]
    BY <2>1, <2>2 DEF Scan, Refused, h, l
  <2>4. HasAll(n - at, h + l) <=> ~(n - at < h + l)
    BY <1>1, <1>2, <1>4 DEF HasAll
  <2>5. ASSUME ~(n - at < h + l) PROVE SubSeq(cells, at + h + 1, at + h + l) = p.data
    <3> DEFINE v == SubSeq(cells, at + h + 1, at + h + l)
               d == p.data
    <3>1. v \in Seq(Nat) /\ Len(v) = l /\ \A i \in 1..l : v[i] = cells[at + h + i]
      <4>1. at + h + l <= n
        BY <1>1, <1>2, <1>4, <2>5
      <4>2. \A i \in (at + h + 1)..(at + h + l) : cells[i] \in Nat
        BY <1>1, <1>2, <1>4, <4>1, ElementOfSeq, SMTT(20)
      <4> QED
        BY <1>1, <1>2, <1>4, <4>1, <4>2
    <3>2. \A i \in 1..l : cells[at + h + i] = d[i]
      <4> TAKE i \in 1..l
      <4>1. h + i \in 1..(h + l) /\ at + (h + i) <= n /\ at + (h + i) = at + h + i
        BY <1>1, <1>2, <1>4, <2>5
      <4>2. cells[at + (h + i)] = x[h + i]
        BY ONLY <1>5, <4>1
      <4>3. x[h + i] = d[i]
        BY ONLY <1>4, i \in 1..l
      <4> QED
        BY ONLY <4>1, <4>2, <4>3
    <3> HIDE DEF v, d
    <3>3. d \in Seq(Nat) /\ Len(d) = l
      BY <1>3 DEF d, l
    <3>4. v = d
      BY <3>1, <3>2, <3>3, SeqEqual
    <3> QED
      BY <3>4 DEF v, d
  <2>6. FrameEnd(ps, j + 1) = at + h + l
    BY <1>1, <1>2, <1>4
  <2>7. CASE Refused(p)
    BY <1>6, <1>8, <2>3, <2>7 DEF Turn, at, h, p
  <2>8. CASE ~Refused(p) /\ n - at < h + l
    <3>1. Scan(f, cells, at) = stopped(FALSE)
      BY ONLY <2>3, <2>4, <2>8
    <3> QED
      BY <1>4, <1>6, <1>8, <2>8, <3>1 DEF Turn, at, h, p, x
  <2>9. CASE ~Refused(p) /\ ~(n - at < h + l)
    <3>1. Scan(f, cells, at) = [f[at + h + l] EXCEPT !.packets = <<[type |-> p.type, data |-> p.data]>> \o @]
      BY ONLY <2>3, <2>4, <2>5, <2>9
    <3>2. Scan(f, cells, at) = [f[FrameEnd(ps, j + 1)] EXCEPT !.packets = <<p>> \o @]
      BY ONLY <1>3, <2>6, <3>1
    <3> QED
      BY <1>4, <1>6, <1>8, <2>9, <3>2 DEF Turn, at, h, p, x
  <2> QED
    BY <2>7, <2>8, <2>9
<1> QED
  BY <1>7, <1>8

(* The loop takes the first packets, one after the other, until one is        *)
(* refused or is not complete.                                                *)
FoundAt(r, cells, ps, j, m, c) ==
  /\ r = [packets |-> SubSeq(ps, j + 1, m), end |-> FrameEnd(ps, m), close |-> c]
  /\ FrameEnd(ps, m) <= Len(cells)
  /\ c => m < Len(ps) /\ Refused(ps[m + 1])
  /\ ~c => m = Len(ps) \/ (m < Len(ps) /\ Len(cells) - FrameEnd(ps, m) < Len(Frame[ps[m + 1]]))

Finds(r, cells, ps, j) == \E m \in j..Len(ps) : \E c \in BOOLEAN : FoundAt(r, cells, ps, j, m, c)

LEMMA Prepend ==
  ASSUME NEW r, NEW v, NEW e, NEW c, NEW q, r = [packets |-> v, end |-> e, close |-> c],
         NEW s, s = [r EXCEPT !.packets = q \o @]
  PROVE  s = [packets |-> q \o v, end |-> e, close |-> c]
<1> DEFINE z == q \o r.packets
<1>1. r.packets = v /\ s = [r EXCEPT !.packets = z]
  OBVIOUS
<1> HIDE DEF z
<1>2. s = [packets |-> z, end |-> e, close |-> c]
  BY <1>1
<1> QED
  BY <1>1, <1>2 DEF z

LEMMA ReassembleFinds ==
  ASSUME NEW cells \in Seq(Nat), NEW rest \in Seq(Nat), NEW ps \in Seq(Packets), cells \o rest = Framed(ps)
  PROVE  Finds(Reassemble(cells), cells, ps, 0)
<1> DEFINE n == Len(cells)
           N == Len(ps)
           E(j) == FrameEnd(ps, j)
<1>0. n \in Nat /\ N \in Nat
  OBVIOUS
<1>1. PICK f : Scans(f, cells) /\ Reassemble(cells) = f[0]
  BY ReassembleScans
<1>2. E(N) = n + Len(rest) /\ Len(rest) \in Nat /\ E(0) = 0
  <2>1. SubSeq(ps, 1, N) = ps /\ SubSeq(ps, 1, 0) = <<>>
    BY EmptySeq
  <2>2. Len(cells \o rest) = n + Len(rest) /\ Len(rest) \in Nat
    BY ConcatProperties
  <2>3. Framed(SubSeq(ps, 1, 0)) = <<>> /\ Len(<<>>) = 0
    BY <2>1, FramedEnds
  <2>4. Len(Framed(SubSeq(ps, 1, 0))) = Len(<<>>)
    BY ONLY <2>3
  <2>5. E(0) = 0
    BY ONLY <2>3, <2>4 DEF FrameEnd
  <2> QED
    BY <2>1, <2>2, <2>5 DEF FrameEnd
<1> DEFINE T == {k \in Nat : \A j \in 0..N : N - j = k /\ E(j) <= n => Finds(f[E(j)], cells, ps, j)}
<1>3. 0 \in T
  <2>1. SUFFICES ASSUME NEW j \in 0..N, N - j = 0, E(j) <= n PROVE Finds(f[E(j)], cells, ps, j)
    BY DEF T
  <2>2. j = N /\ E(j) = n /\ n \in 0..n /\ E(j) <= n
    BY <1>0, <1>2, <2>1
  <2> HIDE DEF E
  <2>3. f[n] = Scan(f, cells, n)
    BY <1>1, <2>2, ScansAt
  <2>4. ~HasAll(n - n, HeaderLen)
    BY <1>0, LenSizeAssumption DEF HasAll, HeaderLen
  <2>5. Scan(f, cells, n) = [packets |-> <<>>, end |-> n, close |-> FALSE]
    BY <2>4 DEF Scan
  <2>6. SubSeq(ps, j + 1, j) = <<>>
    BY <1>0, <2>2, EmptySeq
  <2>7. j \in j..N
    BY <1>0, <2>2
  <2>8. f[n] = [packets |-> SubSeq(ps, j + 1, j), end |-> n, close |-> FALSE]
    BY ONLY <2>3, <2>5, <2>6
  <2>9. FoundAt(f[E(j)], cells, ps, j, j, FALSE)
    BY <2>2, <2>8 DEF E, FoundAt
  <2> QED
    BY <2>7, <2>9 DEF Finds
<1>4. ASSUME NEW k \in Nat, k \in T PROVE k + 1 \in T
  <2>1. SUFFICES ASSUME NEW j \in 0..N, N - j = k + 1, E(j) <= n PROVE Finds(f[E(j)], cells, ps, j)
    BY DEF T
  <2> DEFINE at == E(j)
             p == ps[j + 1]
             i == j + 1
             stopped(close) == [packets |-> <<>>, end |-> at, close |-> close]
  <2>2. j \in Nat /\ j < N /\ i \in Nat /\ i \in 0..N /\ N - i = k /\ j \in j..N
    BY <1>0, <2>1
  <2>3. p \in Packets /\ at \in Nat /\ E(i) = at + Len(Frame[p])
    BY <2>2, FrameAt
  <2>4. f[at] = IF n - at < HeaderLen THEN stopped(FALSE)
                ELSE IF Refused(p) THEN stopped(TRUE)
                ELSE IF n - at < Len(Frame[p]) THEN stopped(FALSE)
                ELSE [f[E(i)] EXCEPT !.packets = <<p>> \o @]
    <3>1. /\ cells \in Seq(Nat) /\ rest \in Seq(Nat) /\ ps \in Seq(Packets) /\ cells \o rest = Framed(ps)
          /\ Scans(f, cells) /\ j \in Nat /\ j < Len(ps) /\ FrameEnd(ps, j) <= Len(cells)
      BY <1>1, <2>1, <2>2
    <3>2. f[FrameEnd(ps, j)] = Turn(f, cells, ps, j)
      BY ONLY <3>1, ScanFrame, ZenonT(40)
    <3> QED
      BY <3>2 DEF Turn
  <2>5. Len(p.data) \in Nat /\ Len(Frame[p]) = HeaderLen + Len(p.data) /\ HeaderLen \in Nat
    <3>1. HeaderLen \in Nat
      BY LenSizeAssumption DEF HeaderLen
    <3> QED
      BY <2>3, <3>1, FrameCells
  <2>6. SubSeq(ps, j + 1, j) = <<>>
    BY <2>2, EmptySeq
  <2> DEFINE X == Len(Frame[p])
             L == Len(p.data)
  <2> HIDE DEF E, X, L
  <2>7. CASE n - at < HeaderLen \/ (~Refused(p) /\ n - at < X)
    <3>1. f[at] = stopped(FALSE)
      BY <2>4, <2>7 DEF X
    <3>2. n - at < X
      BY <1>0, <2>3, <2>5, <2>7 DEF X, L
    <3>9. FoundAt(f[at], cells, ps, j, j, FALSE)
      BY <2>1, <2>2, <2>6, <3>1, <3>2 DEF E, X, FoundAt
    <3> QED
      BY <2>2, <3>9 DEF Finds
  <2>8. CASE ~(n - at < HeaderLen) /\ Refused(p)
    <3>1. f[at] = stopped(TRUE)
      BY <2>4, <2>8
    <3>9. FoundAt(f[at], cells, ps, j, j, TRUE)
      BY <2>1, <2>2, <2>6, <2>8, <3>1 DEF E, FoundAt
    <3> QED
      BY <2>2, <3>9 DEF Finds
  <2>9. CASE ~(n - at < HeaderLen) /\ ~Refused(p) /\ ~(n - at < X)
    <3>1. f[at] = [f[E(i)] EXCEPT !.packets = <<p>> \o @]
      BY <2>4, <2>9 DEF X
    <3>2. E(i) <= n
      BY <1>0, <2>3, <2>5, <2>9 DEF X, L
    <3>3. Finds(f[E(i)], cells, ps, i)
      BY <1>4, <2>2, <3>2 DEF T
    <3>4. PICK m \in i..N : \E c \in BOOLEAN : FoundAt(f[E(i)], cells, ps, i, m, c)
      BY <3>3 DEF Finds
    <3>5. PICK c \in BOOLEAN : FoundAt(f[E(i)], cells, ps, i, m, c)
      BY <3>4
    <3> DEFINE v == SubSeq(ps, i + 1, m)
               w == SubSeq(ps, j + 1, m)
    <3>6. <<p>> \o v = w
      <4>1. SubSeq(ps, 1, m) \in Seq(Packets) /\ Len(SubSeq(ps, 1, m)) = m
        BY <2>2, SplitSeq
      <4>2. SubSeq(ps, j + 1, j + 1) = <<p>>
        <5>1. j + 1 \in 1..N
          BY <2>2
        <5> DEFINE a == SubSeq(ps, j + 1, j + 1)
                   b == <<p>>
        <5>2. a \in Seq(Packets) /\ Len(a) = 1 /\ a[1] = p
          BY <5>1
        <5>3. b \in Seq(Packets) /\ Len(b) = 1 /\ b[1] = p
          BY <2>3
        <5> HIDE DEF a, b
        <5>4. \A q \in 1..1 : a[q] = b[q]
          BY <5>2, <5>3
        <5> QED
          BY <5>2, <5>3, <5>4, SeqEqual DEF a, b
      <4>3. j + 1 \in 1..(Len(ps) + 1) /\ j + 1 \in ((j + 1) - 1)..Len(ps) /\ m \in (j + 1)..Len(ps)
        BY <1>0, <2>2
      <4> DEFINE o == j + 1
      <4>4. i + 1 = o + 1
        OBVIOUS
      <4> HIDE DEF o
      <4>5. ps \in Seq(Packets) /\ o \in 1..(Len(ps) + 1) /\ o \in (o - 1)..Len(ps) /\ m \in o..Len(ps)
        BY <4>3 DEF o
      <4>6. SubSeq(ps, o, o) \o SubSeq(ps, o + 1, m) = SubSeq(ps, o, m)
        BY ONLY <4>5, ConcatAdjacentSubSeq
      <4> QED
        BY <4>2, <4>4, <4>6 DEF o
    <3> DEFINE r == f[E(i)]
    <3> HIDE DEF v, w, r
    <3>7. r = [packets |-> v, end |-> FrameEnd(ps, m), close |-> c]
      BY <3>5 DEF r, v, FoundAt
    <3>8. f[at] = [packets |-> w, end |-> FrameEnd(ps, m), close |-> c]
      <4> DEFINE e == FrameEnd(ps, m)
                 q == <<p>>
                 s == f[at]
      <4>1. r = [packets |-> v, end |-> e, close |-> c] /\ s = [r EXCEPT !.packets = q \o @]
        BY <3>1, <3>7 DEF r
      <4> HIDE DEF e, q, s
      <4>2. s = [packets |-> q \o v, end |-> e, close |-> c]
        BY ONLY <4>1, Prepend
      <4> QED
        BY ONLY <3>6, <4>2 DEF e, q, s
    <3>9. m \in j..N
      BY <1>0, <2>2
    <3>10. FoundAt(f[at], cells, ps, j, m, c)
      BY <3>5, <3>8 DEF FoundAt, w
    <3> QED
      BY <3>9, <3>10 DEF Finds
  <2> QED
    BY <2>7, <2>8, <2>9
<1> HIDE DEF T
<1>5. Nat \subseteq T
  BY <1>3, <1>4, Induction
<1>6. Finds(f[E(0)], cells, ps, 0)
  <2>1. 0 \in 0..N /\ N - 0 = N /\ E(0) <= n
    BY <1>0, <1>2
  <2>2. N \in T
    BY <1>0, <1>5
  <2> HIDE DEF E
  <2> QED
    BY <2>1, <2>2 DEF T
<1> QED
  BY <1>1, <1>2, <1>6

(* The chunk that recv() fills. *)
LEMMA CopiedChunk ==
  ASSUME NEW src \in Seq(Nat), Len(src) > 0
  PROVE  FactoryCopy(src, 0, 0) \in Chunks /\ Content(FactoryCopy(src, 0, 0)) = src
<1> DEFINE n == Len(src)
           m == Bufcpy(Zeros(n), 0, src)
           b == FactoryCopy(src, 0, 0)
<1>1. n \in Nat /\ n > 0 /\ 0 + n + 0 = n /\ 0 + n <= n
  OBVIOUS
<1>2. Zeros(n) \in Seq(Nat) /\ Len(Zeros(n)) = n
  BY <1>1, ZeroCells
<1>3. m \in Seq(Nat) /\ Len(m) = n /\ \A i \in 1..n : m[i] = IF 0 < i /\ i <= 0 + n THEN src[i - 0] ELSE Zeros(n)[i]
  <2> DEFINE z == Zeros(n)
  <2> HIDE DEF z
  <2>1. z \in Seq(Nat) /\ Len(z) = n
    BY <1>2 DEF z
  <2>2. /\ Bufcpy(z, 0, src) \in Seq(Nat) /\ Len(Bufcpy(z, 0, src)) = Len(z)
        /\ \A i \in 1..Len(z) : Bufcpy(z, 0, src)[i] = IF 0 < i /\ i <= 0 + Len(src) THEN src[i - 0] ELSE z[i]
    BY <1>1, <2>1, BufcpyCells
  <2> QED
    BY <2>1, <2>2 DEF z
<1> HIDE DEF m
<1>4. b = [mem |-> m, pre |-> 0, size |-> n]
  BY <1>1 DEF FactoryCopy, m
<1> HIDE DEF b, n
<1>5. b.mem = m /\ b.pre = 0 /\ b.size = n
  BY ONLY <1>4
<1>6. b \in Chunks
  BY <1>1, <1>3, <1>4, <1>5 DEF Chunks, SelfTest
<1>7. Content(b) \in Seq(Nat) /\ Len(Content(b)) = n /\ \A i \in 1..n : Content(b)[i] = m[0 + i]
  <2>1. Sound(b)
    BY <1>6 DEF Chunks, Sound
  <2> QED
    BY <1>5, <2>1, ContentCells
<1>8. \A i \in 1..n : Content(b)[i] = src[i]
  <2> TAKE i \in 1..n
  <2>1. 0 + i = i /\ 0 < i /\ i <= 0 + n /\ i - 0 = i
    BY <1>1
  <2> QED
    BY ONLY <1>3, <1>7, <2>1, i \in 1..n
<1>9. Content(b) = src
  BY <1>7, <1>8, SeqEqual DEF n
<1> QED
  BY <1>6, <1>9 DEF b

(* on_receive(), however TCP cuts the stream: of the packets ps that are on   *)
(* their way it hands on the first ones, each as it was sent and as soon as   *)
(* its last byte is there, and what it keeps and what is still to come is the *)
(* rest of them.  The connection is closed only at a packet that is too long  *)
(* or of another type (opt_tcp.cpp on_receive()).                             *)
THEOREM ReceivesWholePackets ==
  ASSUME NEW held \in Seq(Chunks), NEW coming \in Seq(Nat), NEW ps \in Seq(Packets),
         Flat(held) \o coming = Framed(ps), NEW k \in 1..Len(coming)
  PROVE  LET chunks == WithChunk(held, SubSeq(coming, 1, k))
             r == OnReceive(chunks)
             left == TakeCells(chunks, r.end)
         IN /\ left \in Seq(Chunks) /\ Len(Flat(left)) = Len(Flat(held)) + k - r.end
            /\ r.close \in BOOLEAN
            /\ \E m \in 0..Len(ps) :
                 /\ r.packets = SubSeq(ps, 1, m)
                 /\ Flat(left) \o SubSeq(coming, k + 1, Len(coming)) = Framed(SubSeq(ps, m + 1, Len(ps)))
                 /\ r.close => m < Len(ps) /\ Refused(ps[m + 1])
                 /\ ~r.close /\ Len(Flat(left)) > 0 =>
                      m < Len(ps) /\ Len(Flat(left)) < Len(Frame[ps[m + 1]])
<1> DEFINE new == SubSeq(coming, 1, k)
           rest == SubSeq(coming, k + 1, Len(coming))
           b == FactoryCopy(new, 0, 0)
           chunks == WithChunk(held, new)
           cells == Flat(chunks)
           r == OnReceive(chunks)
           left == TakeCells(chunks, r.end)
           fh == Flat(held)
           n == Len(cells)
           N == Len(ps)
<1>1. new \in Seq(Nat) /\ Len(new) = k /\ rest \in Seq(Nat) /\ coming = new \o rest /\ k > 0 /\ k \in Nat
  <2>1. k \in 0..Len(coming) /\ coming \in Seq(Nat)
    OBVIOUS
  <2>2. new \in Seq(Nat) /\ Len(new) = k /\ rest \in Seq(Nat) /\ coming = new \o rest
    BY ONLY <2>1, SplitSeq, ZenonT(40)
  <2> HIDE DEF new, rest
  <2> QED
    BY <2>2
<1> HIDE DEF new, rest
<1>2. b \in Chunks /\ Content(b) = new
  BY <1>1, CopiedChunk
<1>3. chunks \in Seq(Chunks) /\ chunks = held \o <<b>> /\ <<b>> \in Seq(Chunks)
  <2> HIDE DEF b
  <2>1. Append(held, b) = held \o <<b>> /\ Append(held, b) \in Seq(Chunks) /\ <<b>> \in Seq(Chunks)
    BY <1>2, AppendIsConcat
  <2> QED
    BY <2>1 DEF WithChunk, b
<1> HIDE DEF b, chunks
<1>4. cells = fh \o new /\ fh \in Seq(Nat) /\ Len(fh) \in Nat
  <2>1. Flat(held \o <<b>>) = fh \o Flat(<<b>>) /\ fh \in Seq(Nat) /\ Len(fh) \in Nat
    BY <1>3, FlatConcat
  <2> QED
    BY <1>2, <1>3, <2>1, FlatEnds
<1> HIDE DEF fh
<1>5. cells \in Seq(Nat) /\ n = Len(fh) + k /\ n \in Nat
  <2>1. fh \o new \in Seq(Nat) /\ Len(fh \o new) = Len(fh) + Len(new)
    BY ONLY <1>1, <1>4, ConcatProperties
  <2> QED
    BY <1>1, <1>4, <2>1
<1>6. cells \o rest = Framed(ps)
  <2>1. fh \o coming = Framed(ps)
    BY DEF fh
  <2>2. (fh \o new) \o rest = fh \o (new \o rest)
    BY ONLY <1>1, <1>4, CellsAssociative, SMTT(20)
  <2> QED
    BY ONLY <1>1, <1>4, <2>1, <2>2
<1> HIDE DEF cells
<1>7. Finds(Reassemble(cells), cells, ps, 0)
  BY <1>1, <1>5, <1>6, ReassembleFinds
<1>8. r = Reassemble(cells)
  BY DEF OnReceive, cells
<1> HIDE DEF r
<1>9. PICK m \in 0..N : \E c \in BOOLEAN : FoundAt(r, cells, ps, 0, m, c)
  BY <1>7, <1>8 DEF Finds
<1>10. PICK c \in BOOLEAN : FoundAt(r, cells, ps, 0, m, c)
  BY <1>9
<1> DEFINE at == FrameEnd(ps, m)
           p1 == SubSeq(ps, 1, m)
           p2 == SubSeq(ps, m + 1, N)
<1>11. /\ r = [packets |-> p1, end |-> at, close |-> c] /\ at <= n
       /\ c => m < N /\ Refused(ps[m + 1])
       /\ ~c => m = N \/ (m < N /\ n - at < Len(Frame[ps[m + 1]]))
  <2>1. 0 + 1 = 1
    OBVIOUS
  <2> QED
    BY <1>10, <2>1 DEF FoundAt
<1>12. N \in Nat /\ p1 \in Seq(Packets) /\ p2 \in Seq(Packets) /\ ps = p1 \o p2
  <2>1. p1 \in Seq(Packets) /\ p2 \in Seq(Packets) /\ ps = p1 \o p2
    BY SplitSeq
  <2> HIDE DEF p1, p2
  <2> QED
    BY <2>1
<1>13. Framed(ps) = Framed(p1) \o Framed(p2) /\ Framed(p1) \in Seq(Nat) /\ Framed(p2) \in Seq(Nat) /\ at = Len(Framed(p1)) /\ at \in Nat
  <2>0. at = Len(Framed(p1))
    BY DEF FrameEnd
  <2> HIDE DEF p1, p2, at
  <2>1. /\ Framed(p1 \o p2) = Framed(p1) \o Framed(p2) /\ Framed(p1) \in Seq(Nat)
        /\ Framed(p2) \in Seq(Nat) /\ Len(Framed(p1)) \in Nat
    <3>1. Framed(p1 \o p2) = Framed(p1) \o Framed(p2) /\ Framed(p1) \in Seq(Nat) /\ Len(Framed(p1)) \in Nat
      BY <1>12, FramedConcat
    <3>2. Framed(p2) \in Seq(Nat)
      BY <1>12, FramedConcat
    <3> QED
      BY ONLY <3>1, <3>2
  <2> QED
    BY <1>12, <2>0, <2>1
<1> DEFINE f1 == Framed(p1)
           f2 == Framed(p2)
<1> HIDE DEF at, p1, p2, n, N
<1>14. r.packets = p1 /\ r.end = at /\ r.close = c
  BY ONLY <1>11
<1>15. left \in Seq(Chunks) /\ Flat(left) = SubSeq(cells, at + 1, n)
  <2>1. at \in 0..Len(Flat(chunks))
    BY <1>5, <1>11, <1>13 DEF cells, n
  <2>2. TakeCells(chunks, at) \in Seq(Chunks) /\ Flat(TakeCells(chunks, at)) = SubSeq(Flat(chunks), at + 1, Len(Flat(chunks)))
    BY <1>3, <2>1, TakeCellsDrops
  <2> QED
    BY <1>14, <2>2 DEF cells, n
<1> HIDE DEF left
<1> DEFINE c1 == SubSeq(cells, 1, at)
           fl == Flat(left)
<1>16. c1 \in Seq(Nat) /\ Len(c1) = at /\ fl \in Seq(Nat) /\ Len(fl) = n - at /\ cells = c1 \o fl
  <2>1. at \in 0..Len(cells)
    BY <1>5, <1>11, <1>13 DEF n
  <2>2. /\ SubSeq(cells, 1, at) \in Seq(Nat) /\ SubSeq(cells, at + 1, Len(cells)) \in Seq(Nat)
        /\ Len(SubSeq(cells, 1, at)) = at /\ Len(SubSeq(cells, at + 1, Len(cells))) = Len(cells) - at
        /\ cells = SubSeq(cells, 1, at) \o SubSeq(cells, at + 1, Len(cells))
    <3>1. cells \in Seq(Nat)
      BY <1>5
    <3> QED
      BY ONLY <2>1, <3>1, SplitSeq, ZenonT(40)
  <2>3. fl = SubSeq(cells, at + 1, Len(cells))
    BY ONLY <1>15 DEF n
  <2>4. c1 = SubSeq(cells, 1, at)
    OBVIOUS
  <2> HIDE DEF c1, fl
  <2> QED
    BY ONLY <2>2, <2>3, <2>4 DEF n
<1> HIDE DEF c1, fl, f1, f2
<1>17. c1 \o (fl \o rest) = f1 \o f2 /\ f1 \in Seq(Nat) /\ f2 \in Seq(Nat) /\ Len(f1) = at /\ fl \o rest \in Seq(Nat)
  <2>0. c1 \in Seq(Nat) /\ fl \in Seq(Nat) /\ rest \in Seq(Nat)
    BY ONLY <1>1, <1>16
  <2>1. (c1 \o fl) \o rest = c1 \o (fl \o rest)
    BY ONLY <2>0, CellsAssociative
  <2>2. fl \o rest \in Seq(Nat)
    BY ONLY <1>1, <1>16, ConcatProperties
  <2> QED
    BY ONLY <1>6, <1>13, <1>16, <2>1, <2>2 DEF f1, f2
<1>18. fl \o rest = f2
  <2> DEFINE d == fl \o rest
  <2> HIDE DEF d
  <2>1. c1 \in Seq(Nat) /\ d \in Seq(Nat) /\ f1 \in Seq(Nat) /\ f2 \in Seq(Nat) /\ c1 \o d = f1 \o f2 /\ Len(c1) = Len(f1)
    BY <1>16, <1>17 DEF d
  <2>2. SubSeq(c1 \o d, Len(c1) + 1, Len(c1 \o d)) = d
    BY ONLY <2>1, DropPrefix
  <2>3. SubSeq(f1 \o f2, Len(f1) + 1, Len(f1 \o f2)) = f2
    BY ONLY <2>1, DropPrefix
  <2>4. d = f2
    BY ONLY <2>1, <2>2, <2>3
  <2> QED
    BY <2>4 DEF d
<1>19. m = N /\ ~c => Len(fl) = 0
  <2>1. ASSUME m = N PROVE Len(fl) = 0
    <3>1. p2 = <<>>
      <4>1. SubSeq(ps, N + 1, N) = <<>>
        BY <1>12, EmptySeq
      <4> QED
        BY <2>1, <4>1 DEF p2
    <3>2. f2 = <<>>
      BY <3>1, FramedEnds DEF f2
    <3>3. Len(fl \o rest) = Len(fl) + Len(rest)
      BY ONLY <1>1, <1>16, ConcatProperties
    <3>4. Len(<<>>) = 0 /\ Len(fl) \in Nat /\ Len(rest) \in Nat
      BY <1>1, <1>16
    <3>5. Len(fl \o rest) = Len(<<>>)
      BY ONLY <1>18, <3>2
    <3> QED
      BY ONLY <3>3, <3>4, <3>5
  <2> QED
    BY <2>1
<1>20. Len(fl) = Len(fh) + k - at
  BY <1>5, <1>16, SMTT(20)
<1>21. /\ p1 = SubSeq(ps, 1, m) /\ fl \o rest = Framed(SubSeq(ps, m + 1, N))
       /\ c => m < N /\ Refused(ps[m + 1])
       /\ ~c /\ Len(fl) > 0 => m < N /\ Len(fl) < Len(Frame[ps[m + 1]])
  <2>1. ~c /\ Len(fl) > 0 => m < N /\ Len(fl) < Len(Frame[ps[m + 1]])
    <3>1. Len(fl) > 0 => Len(fl) # 0
      BY <1>16
    <3> QED
      BY ONLY <1>11, <1>16, <1>19, <3>1
  <2> QED
    BY <1>11, <1>18, <2>1 DEF p1, p2, f2
<1> QED
  BY <1>14, <1>15, <1>20, <1>21 DEF r, left, fl, fh, chunks, new, rest, N

-----------------------------------------------------------------------------
(* Answers *)

Answers(e, n) == FlattenSeq([i \in 1..n |-> Answer(e, i)])

LEMMA KexIsOwn == \A i \in 1..5 : Kex(i) \in Own /\ Kex(i) \in Packets
BY DEF Own, Packets

LEMMA AnswerType ==
  ASSUME NEW e \in Ends, NEW i \in Nat, NEW S, Own \subseteq S, e = "C" \/ reply \in S
  PROVE  Answer(e, i) \in Seq(S)
<1>1. Kex(2) \in S /\ Kex(3) \in S /\ Kex(4) \in S /\ Kex(5) \in S
  BY KexIsOwn
<1>2. CASE e = "C"
  <2>1. <<Kex(4), Kex(5)>> \in Seq(S) /\ <<>> \in Seq(S)
    BY <1>1
  <2>2. Answer(e, i) \in {<<Kex(4), Kex(5)>>, <<>>}
    BY <1>2 DEF Answer
  <2> QED
    BY <2>1, <2>2
<1>3. CASE e = "S"
  <2>1. reply \in S
    BY <1>3
  <2>2. <<Kex(2), Kex(3)>> \in Seq(S) /\ <<reply>> \in Seq(S) /\ <<>> \in Seq(S)
    BY <1>1, <2>1
  <2>3. Answer(e, i) \in {<<Kex(2), Kex(3)>>, <<reply>>, <<>>}
    BY <1>3 DEF Answer
  <2> QED
    BY <2>2, <2>3
<1> QED
  BY <1>2, <1>3 DEF Ends

LEMMA ThreeOf ==
  ASSUME NEW S, NEW a \in S, NEW b \in S, NEW c \in S
  PROVE  <<a, b>> \in Seq(S) /\ <<a, b>> \o <<c>> = <<a, b, c>>
<1> DEFINE g == <<a, b>>
           h == <<c>>
           u == <<a, b, c>>
           v == g \o h
<1>1. g \in Seq(S) /\ Len(g) = 2 /\ g[1] = a /\ g[2] = b
  OBVIOUS
<1>2. h \in Seq(S) /\ Len(h) = 1 /\ h[1] = c
  OBVIOUS
<1>3. u \in Seq(S) /\ Len(u) = 3 /\ u[1] = a /\ u[2] = b /\ u[3] = c
  OBVIOUS
<1> HIDE DEF g, h, u
<1>4. /\ v \in Seq(S) /\ Len(v) = Len(g) + Len(h)
      /\ \A i \in 1..(Len(g) + Len(h)) : v[i] = IF i <= Len(g) THEN g[i] ELSE h[i - Len(g)]
  BY ONLY <1>1, <1>2, ConcatProperties
<1> HIDE DEF v
<1>5. v[1] = a /\ v[2] = b /\ v[3] = c /\ Len(v) = 3
  BY <1>1, <1>2, <1>4
<1>6. \A i \in 1..3 : v[i] = u[i]
  <2>1. \A i \in 1..3 : i = 1 \/ i = 2 \/ i = 3
    OBVIOUS
  <2> QED
    BY <1>3, <1>5, <2>1
<1>7. v = u
  BY <1>3, <1>4, <1>5, <1>6, SeqEqual
<1> QED
  BY <1>1, <1>7 DEF g, h, u, v

(* The answers to n packets and then to m more.                               *)
LEMMA AnswersGrow ==
  ASSUME NEW e \in Ends, NEW n \in Nat, NEW m \in Nat, NEW S, Own \subseteq S, e = "C" \/ reply \in S
  PROVE  LET more == FlattenSeq([i \in 1..m |-> Answer(e, n + i)])
         IN Answers(e, n) \in Seq(S) /\ more \in Seq(S) /\ Answers(e, n + m) = Answers(e, n) \o more
<1> DEFINE a == [i \in 1..n |-> Answer(e, i)]
           b == [i \in 1..m |-> Answer(e, n + i)]
           c == [i \in 1..(n + m) |-> Answer(e, i)]
           k == n + m
<1>1. \A i \in Nat : Answer(e, i) \in Seq(S)
  BY AnswerType
<1>2. /\ k \in Nat
      /\ \A i \in 1..n : a[i] = Answer(e, i)
      /\ \A i \in 1..m : b[i] = Answer(e, n + i) /\ n + i \in Nat
      /\ \A i \in 1..k : c[i] = Answer(e, i)
      /\ a = [i \in 1..n |-> a[i]] /\ b = [i \in 1..m |-> b[i]] /\ c = [i \in 1..k |-> c[i]]
  OBVIOUS
<1> HIDE DEF a, b, c
<1>3. a \in Seq(Seq(S)) /\ Len(a) = n
  <2> DEFINE U == Seq(S)
  <2>1. a \in [1..n -> U]
    BY <1>1, <1>2
  <2> HIDE DEF U
  <2>2. a \in Seq(U) /\ Len(a) = n
    <3>1. n \in Nat /\ DOMAIN a = 1..n
      BY <1>2, <2>1
    <3>2. a \in Seq(U)
      BY <2>1, <3>1, SeqDef
    <3> QED
      BY <3>1, <3>2, LenProperties
  <2> QED
    BY <2>2 DEF U
<1>4. b \in Seq(Seq(S)) /\ Len(b) = m
  <2> DEFINE U == Seq(S)
  <2>1. b \in [1..m -> U]
    BY <1>1, <1>2
  <2> HIDE DEF U
  <2>2. b \in Seq(U) /\ Len(b) = m
    <3>1. m \in Nat /\ DOMAIN b = 1..m
      BY <1>2, <2>1
    <3>2. b \in Seq(U)
      BY <2>1, <3>1, SeqDef
    <3> QED
      BY <3>1, <3>2, LenProperties
  <2> QED
    BY <2>2 DEF U
<1>5. c \in Seq(Seq(S)) /\ Len(c) = k
  <2> DEFINE U == Seq(S)
  <2>1. c \in [1..k -> U]
    BY <1>1, <1>2
  <2> HIDE DEF U, k
  <2>2. c \in Seq(U) /\ Len(c) = k
    <3>1. k \in Nat /\ DOMAIN c = 1..k
      BY <1>2, <2>1
    <3>2. c \in Seq(U)
      BY <2>1, <3>1, SeqDef
    <3> QED
      BY <3>1, <3>2, LenProperties
  <2> QED
    BY <2>2 DEF U
<1>6. c = a \o b
  <2> DEFINE d == a \o b
  <2>1. d \in Seq(Seq(S)) /\ Len(d) = k /\ \A i \in 1..k : d[i] = IF i <= n THEN a[i] ELSE b[i - n]
    BY <1>3, <1>4, ConcatProperties
  <2> HIDE DEF d
  <2>2. \A i \in 1..k : c[i] = d[i]
    <3> TAKE i \in 1..k
    <3>1. (i <= n => i \in 1..n) /\ (~(i <= n) => i - n \in 1..m /\ n + (i - n) = i)
      BY DEF k
    <3>2. c[i] = Answer(e, i) /\ d[i] = IF i <= n THEN a[i] ELSE b[i - n]
      BY ONLY <1>2, <2>1, i \in 1..k
    <3>3. CASE i <= n
      BY ONLY <1>2, <3>1, <3>2, <3>3
    <3>4. CASE ~(i <= n)
      <4>1. b[i - n] = Answer(e, n + (i - n))
        BY ONLY <1>2, <3>1, <3>4
      <4> QED
        BY ONLY <3>1, <3>2, <3>4, <4>1
    <3> QED
      BY <3>3, <3>4
  <2> HIDE DEF k
  <2>3. c = d
    BY <1>5, <2>1, <2>2, SeqEqual
  <2> QED
    BY <2>3 DEF d
<1>7. FlattenSeq(a \o b) = FlattenSeq(a) \o FlattenSeq(b) /\ FlattenSeq(a) \in Seq(S) /\ FlattenSeq(b) \in Seq(S)
  BY <1>3, <1>4, FlattenConcat, FlattenType
<1> QED
  BY <1>6, <1>7 DEF Answers, a, b, c

(* What a server sends: its third packet is the reply, and it comes with the  *)
(* third one of the client.                                                   *)
LEMMA ServerAnswers ==
  ASSUME reply \in Packets, NEW n \in Nat
  PROVE  LET s == Answers("S", n)
         IN /\ n >= 3 => Len(s) = 3
            /\ Len(s) >= 3 => n >= 3 /\ s[3] = reply
<1> DEFINE A(k) == Answers("S", k)
           g == <<Kex(2), Kex(3)>>
           w == <<Kex(2), Kex(3), reply>>
           T == {k \in Nat : A(k) = IF k = 0 THEN <<>> ELSE IF k < 3 THEN g ELSE w}
<1>0. Own \subseteq Packets
  BY DEF Own, Packets
<1>1. 0 \in T
  <2>1. [i \in 1..0 |-> Answer("S", i)] = <<>>
    OBVIOUS
  <2> QED
    BY <2>1, FlattenEmpty DEF Answers
<1>2. ASSUME NEW k \in Nat, k \in T PROVE k + 1 \in T
  <2> DEFINE x == Answer("S", k + 1)
             more == [i \in 1..1 |-> Answer("S", k + i)]
  <2>1. "S" \in Ends
    BY DEF Ends
  <2>2. A(k + 1) = A(k) \o FlattenSeq(more)
    BY <1>0, <2>1, AnswersGrow
  <2>3. x \in Seq(Packets)
    BY <1>0, <2>1, AnswerType
  <2>4. more = <<x>>
    OBVIOUS
  <2> HIDE DEF more
  <2>5. FlattenSeq(more) = x
    BY <2>3, <2>4, FlattenOne
  <2>6. A(k) \in Seq(Packets)
    BY <1>0, <2>1, AnswersGrow
  <2>7. A(k + 1) = A(k) \o x
    BY <2>2, <2>5
  <2>8. x = IF k = 0 THEN g ELSE IF k = 2 THEN <<reply>> ELSE <<>>
    BY DEF Answer
  <2> HIDE DEF A, x
  <2>9. A(k) = IF k = 0 THEN <<>> ELSE IF k < 3 THEN g ELSE w
    BY <1>2
  <2>10. g \in Seq(Packets) /\ g \o <<reply>> = w
    <3> DEFINE a == Kex(2)
               b == Kex(3)
    <3>1. a \in Packets /\ b \in Packets
      BY KexIsOwn
    <3> HIDE DEF a, b
    <3> QED
      BY <3>1, ThreeOf DEF a, b
  <2> HIDE DEF g, w
  <2>11. CASE k = 0
    <3>1. A(k + 1) = <<>> \o g
      BY <2>7, <2>8, <2>9, <2>11
    <3>2. A(k + 1) = g
      BY <2>10, <3>1, ConcatEmptySeq
    <3> QED
      BY <2>11, <3>2
  <2>12. CASE k = 2
    <3>1. A(k + 1) = g \o <<reply>>
      BY <2>7, <2>8, <2>9, <2>12
    <3>2. k + 1 # 0 /\ ~(k + 1 < 3)
      BY <2>12
    <3> QED
      BY <2>10, <3>1, <3>2
  <2>13. CASE k # 0 /\ k # 2
    <3>1. A(k + 1) = A(k)
      BY <2>6, <2>7, <2>8, <2>13, ConcatEmptySeq
    <3>2. (k + 1 = 0 <=> k = 0) /\ (k + 1 < 3 <=> k < 3)
      BY <2>13
    <3> QED
      BY <2>9, <3>1, <3>2
  <2> QED
    BY <2>11, <2>12, <2>13
<1> HIDE DEF T
<1>3. Nat \subseteq T
  BY <1>1, <1>2, Induction
<1>4. A(n) = IF n = 0 THEN <<>> ELSE IF n < 3 THEN g ELSE w
  BY <1>3 DEF T
<1> HIDE DEF A
<1>5. CASE n = 0
  <2>1. Len(A(n)) = 0
    BY <1>4, <1>5
  <2> QED
    BY <1>5, <2>1 DEF A
<1>6. CASE n # 0 /\ n < 3
  <2>1. Len(A(n)) = 2 /\ ~(n >= 3) /\ ~(2 >= 3)
    BY <1>4, <1>6
  <2> QED
    BY ONLY <2>1 DEF A
<1>7. CASE n >= 3
  <2>1. Len(A(n)) = 3 /\ A(n)[3] = reply
    BY <1>4, <1>7
  <2> QED
    BY <1>7, <2>1 DEF A
<1> QED
  BY <1>5, <1>6, <1>7

-----------------------------------------------------------------------------
(* What the client reads *)

LEMMA ParsedFields ==
  ASSUME NEW q, LET ip == NextRecord(q.data, 0)
                    port == NextRecord(q.data, ip.cursor)
                IN ip.ok /\ port.ok /\ port.cursor >= Len(q.data) /\ Len(port.data) = 2
  PROVE  LET ip == NextRecord(q.data, 0)
             port == NextRecord(q.data, ip.cursor)
         IN Parsed(q).success /\ Parsed(q).ip = ip.data /\ Parsed(q).port = port.data
<1> DEFINE ip == NextRecord(q.data, 0)
           port == NextRecord(q.data, ip.cursor)
<1> HIDE DEF ip, port
<1>1. Parsed(q) = [success |-> TRUE, ip |-> ip.data, port |-> port.data]
  BY DEF Parsed, ip, port
<1> QED
  BY <1>1 DEF ip, port

(* A reply that packs the address is read, *)
LEMMA ReplyIsRead == Parsed(IpReply).success /\ Parsed(IpReply).ip = Address /\ Parsed(IpReply).port = Port
<1> DEFINE d == IpReply.data
           ra == Record(Address)
           rp == Record(Port)
           a == LenSize + Len(Address)
           n == a + LenSize + Len(Port)
<1>1. /\ Address \in Seq(Nat) /\ Port \in Seq(Nat) /\ Len(Port) = 2 /\ Len(Address) \in Nat
      /\ LenSize \in Nat /\ a \in Nat /\ n \in Nat /\ a <= n
  BY LookupConstants, LenSizeAssumption
<1>2. ra \in Seq(Nat) /\ rp \in Seq(Nat) /\ Len(ra) = a /\ Len(rp) = LenSize + Len(Port)
  BY <1>1, RecordCells
<1>3. d = ra \o rp /\ d \in Seq(Nat) /\ Len(d) = n
  <2>1. 2 * LenSize + Len(Address) + Len(Port) = n
    BY <1>1
  <2> QED
    BY <2>1, ReplyData
<1> HIDE DEF d, ra, rp, a, n
<1>4. SubSeq(d, 1, a) = ra /\ SubSeq(d, a + 1, n) = rp
  <2>1. SubSeq(ra \o rp, Len(ra) + 1, Len(ra \o rp)) = rp
    BY ONLY <1>2, DropPrefix
  <2>2. SubSeq(d, 1, a) = ra
    <3> DEFINE v == SubSeq(d, 1, a)
    <3>0. a \in 0..Len(d)
      BY <1>1, <1>3
    <3>6. d \in Seq(Nat)
      BY ONLY <1>3
    <3>7. SubSeq(d, 1, a) \in Seq(Nat) /\ Len(SubSeq(d, 1, a)) = a /\ \A i \in 1..a : SubSeq(d, 1, a)[i] = d[i]
      BY ONLY <3>0, <3>6, SplitSeq
    <3>1. v \in Seq(Nat) /\ Len(v) = a /\ \A i \in 1..a : v[i] = d[i]
      BY ONLY <3>7
    <3>2. \A i \in 1..(Len(ra) + Len(rp)) : (ra \o rp)[i] = IF i <= Len(ra) THEN ra[i] ELSE rp[i - Len(ra)]
      BY ONLY <1>2, ConcatProperties
    <3>3. \A i \in 1..a : i <= a /\ i \in 1..(Len(ra) + Len(rp))
      BY <1>1, <1>2
    <3> HIDE DEF v
    <3>4. \A i \in 1..a : v[i] = ra[i]
      BY <1>2, <1>3, <3>1, <3>2, <3>3
    <3>5. v = ra
      BY <1>2, <3>1, <3>4, SeqEqual
    <3> QED
      BY <3>5 DEF v
  <2> QED
    BY <1>2, <1>3, <2>1, <2>2
<1> DEFINE ip == NextRecord(d, 0)
           port == NextRecord(d, a)
<1>5. ip = [ok |-> TRUE, data |-> Address, cursor |-> a]
  <2>1. 0 + LenSize + Len(Address) = a /\ 0 + 1 = 1 /\ a <= n /\ 0 \in 0..n
    BY <1>1 DEF a
  <2>2. 0 \in 0..Len(d) /\ 0 + LenSize + Len(Address) <= Len(d) /\ SubSeq(d, 0 + 1, 0 + LenSize + Len(Address)) = Record(Address)
    BY <1>3, <1>4, <2>1 DEF ra
  <2>3. NextRecord(d, 0) = [ok |-> TRUE, data |-> Address, cursor |-> 0 + LenSize + Len(Address)]
    BY <1>1, <1>3, <2>2, NextRecordReads
  <2> QED
    BY <2>1, <2>3
<1>6. port = [ok |-> TRUE, data |-> Port, cursor |-> n]
  <2>1. a + LenSize + Len(Port) = n /\ a \in 0..n /\ n <= n
    BY <1>1 DEF n
  <2>2. a \in 0..Len(d) /\ a + LenSize + Len(Port) <= Len(d) /\ SubSeq(d, a + 1, a + LenSize + Len(Port)) = Record(Port)
    BY <1>3, <1>4, <2>1 DEF rp
  <2>3. NextRecord(d, a) = [ok |-> TRUE, data |-> Port, cursor |-> a + LenSize + Len(Port)]
    BY <1>1, <1>3, <2>2, NextRecordReads
  <2> QED
    BY <2>1, <2>3
<1> HIDE DEF ip, port
<1>7. ip.ok /\ ip.data = Address /\ ip.cursor = a /\ port.ok /\ port.data = Port /\ port.cursor = n
  BY ONLY <1>5, <1>6
<1>8. n >= n
  BY <1>1
<1>9. /\ NextRecord(IpReply.data, 0).ok
      /\ NextRecord(IpReply.data, NextRecord(IpReply.data, 0).cursor).ok
      /\ NextRecord(IpReply.data, NextRecord(IpReply.data, 0).cursor).cursor >= Len(IpReply.data)
      /\ NextRecord(IpReply.data, 0).data = Address
      /\ NextRecord(IpReply.data, NextRecord(IpReply.data, 0).cursor).data = Port
  <2>1. IpReply.data = d /\ NextRecord(d, 0) = ip /\ NextRecord(d, a) = port
    BY DEF d, ip, port
  <2> QED
    BY <1>1, <1>3, <1>7, <1>8, <2>1
<1> QED
  BY <1>1, <1>9, ParsedFields

(* and a reply that is read packs what is read of it.                         *)
LEMMA ReadIsPacked ==
  ASSUME NEW q \in OtherReplies \cup {IpReply}, Parsed(q).success
  PROVE  /\ Len(Parsed(q).port) = 2
         /\ q.data = Content(AddRecord(AddRecord(NullBlob, Parsed(q).ip), Parsed(q).port))
<1> DEFINE d == q.data
           n == Len(d)
           ip == NextRecord(d, 0)
           a == ip.cursor
           port == NextRecord(d, a)
           b == port.cursor
<1>1. CASE q = IpReply
  <2>1. q.data = Content(AddRecord(AddRecord(NullBlob, Address), Port))
    <3> DEFINE c == Content(AddRecord(AddRecord(NullBlob, Address), Port))
    <3>1. q = [type |-> PktNormal, data |-> c]
      BY <1>1 DEF IpReply, Packet
    <3> HIDE DEF c
    <3>2. q.data = c
      BY ONLY <3>1
    <3> QED
      BY <3>2 DEF c
  <2> HIDE DEF d
  <2> QED
    BY <1>1, <2>1, ReplyIsRead, LookupConstants
<1>2. CASE q \in OtherReplies
  <2>1. d \in Seq(Nat) /\ n \in Nat
    <3>1. q \in Packets
      BY DEF Packets
    <3>2. q.data \in Seq(Nat)
      BY <3>1, PacketFields
    <3> QED
      BY <3>2
  <2>2. ip.ok /\ port.ok /\ b >= n /\ Len(port.data) = 2
    BY DEF Parsed, NoResult
  <2>3. Parsed(q).ip = ip.data /\ Parsed(q).port = port.data
    BY <2>2, ParsedFields
  <2>4. \A at \in {0, a} : at + LenSize <= n => SubSeq(d, at + 1, at + LenSize) = LenField(d[at + 1])
    BY <1>2, LookupConstants
  <2> HIDE DEF d, n
  <2>5. ip.data \in Seq(Nat) /\ a \in 0..n /\ SubSeq(d, 1, a) = Record(ip.data)
    <3>1. 0 \in 0..Len(d) /\ 0 + 1 = 1
      BY <2>1 DEF n
    <3>2. 0 + LenSize <= Len(d) => SubSeq(d, 0 + 1, 0 + LenSize) = LenField(d[0 + 1])
      BY <2>4 DEF n
    <3>3. /\ NextRecord(d, 0).data \in Seq(Nat)
          /\ NextRecord(d, 0).cursor \in 0..Len(d)
          /\ SubSeq(d, 0 + 1, NextRecord(d, 0).cursor) = Record(NextRecord(d, 0).data)
      BY <2>1, <2>2, <3>1, <3>2, NextRecordPacked
    <3> QED
      BY <3>1, <3>3 DEF n
  <2> HIDE DEF a
  <2>6. port.data \in Seq(Nat) /\ b \in a..n /\ SubSeq(d, a + 1, b) = Record(port.data)
    <3>1. a \in 0..Len(d)
      BY <2>5 DEF n
    <3>2. a + LenSize <= Len(d) => SubSeq(d, a + 1, a + LenSize) = LenField(d[a + 1])
      BY <2>4 DEF n
    <3>3. /\ NextRecord(d, a).data \in Seq(Nat)
          /\ NextRecord(d, a).cursor \in a..Len(d)
          /\ SubSeq(d, a + 1, NextRecord(d, a).cursor) = Record(NextRecord(d, a).data)
      BY <2>1, <2>2, <3>1, <3>2, NextRecordPacked
    <3> QED
      BY <3>3 DEF n
  <2> HIDE DEF b, ip, port
  <2>7. b = n
    BY <2>1, <2>2, <2>5, <2>6
  <2>8. d = Record(ip.data) \o Record(port.data)
    <3>1. a \in 0..Len(d)
      BY <2>5 DEF n
    <3>2. d = SubSeq(d, 1, a) \o SubSeq(d, a + 1, Len(d))
      BY <2>1, <3>1, SplitSeq
    <3> QED
      BY ONLY <2>5, <2>6, <2>7, <3>2 DEF n
  <2>9. Content(AddRecord(AddRecord(NullBlob, ip.data), port.data)) = Record(ip.data) \o Record(port.data)
    BY <2>5, <2>6, TwoRecords
  <2> QED
    BY <2>2, <2>3, <2>8, <2>9 DEF d
<1> QED
  BY <1>1, <1>2

-----------------------------------------------------------------------------
(* The inductive invariant of the address lookup *)

(* Types: the chunks that are kept are sound and not empty. *)
IpTypes ==
  /\ sock \in [Ends -> {"none", "polled", "closed", "failed"}] /\ closeReq \in [Ends -> BOOLEAN]
  /\ fin \subseteq Ends /\ timer \subseteq Ends /\ timedOut \subseteq Ends /\ hung \subseteq Ends
  /\ connections \in BOOLEAN /\ woken \in BOOLEAN
  /\ stream \in [Ends -> Seq(Nat)] /\ list \in [Ends -> Seq(Chunks)] /\ total \in [Ends -> Int]
  /\ got \in [Ends -> Seq(Packets)] /\ sent \in [Ends -> Seq(Packets)]
  /\ reply \in OtherReplies \cup {IpReply}

(* An end without a socket has done nothing yet, and the server has one only  *)
(* after the client.                                                          *)
Idle ==
  /\ sock["C"] = "none" => sock["S"] = "none"
  /\ \A e \in Ends : sock[e] = "none" => list[e] = <<>> /\ got[e] = <<>> /\ ~closeReq[e] /\ e \notin timer

(* What an end has got and what it keeps, with the bytes that are on their    *)
(* way to it, are what the other one has sent.                                *)
Wire(e) ==
  LET p == Peer(e)
      n == Len(got[e])
  IN /\ n <= Len(sent[p]) /\ got[e] = SubSeq(sent[p], 1, n)
     /\ total[e] = Len(Flat(list[e]))
     /\ sock[e] # "closed" => Flat(list[e]) \o stream[e] = Framed(SubSeq(sent[p], n + 1, Len(sent[p])))
     /\ sock[e] = "polled" /\ ~closeReq[e] /\ total[e] > 0 =>
          n < Len(sent[p]) /\ total[e] < Len(Frame[sent[p][n + 1]])

(* An end has sent the answers to what it has got, no more. *)
Opening(e) == IF e = "C" /\ sock["C"] \in {"polled", "closed"} THEN <<Kex(1)>> ELSE <<>>
Answered(e) == sent[e] = Opening(e) \o Answers(e, Len(got[e]))

(* Why an end closes: with its third packet, or, the server, after the other  *)
(* one; a timer may come first.                                               *)
Ended(e) == sock[e] = "closed" \/ (sock[e] = "polled" /\ closeReq[e])

Outcome ==
  /\ woken => sock["C"] = "closed"
  /\ \A e \in fin : sock[Peer(e)] = "closed"
  /\ result.success => result = Parsed(reply)
  /\ reply = IpReply /\ Len(got["C"]) >= 3 => result.success
  /\ reply = IpReply /\ timedOut = {} =>
       /\ Ended("C") => Len(got["C"]) >= 3
       /\ Ended("S") => Len(got["S"]) >= 3 \/ sock["C"] = "closed"

IpInv == IpTypes /\ Idle /\ (\A e \in Ends : Wire(e) /\ Answered(e)) /\ Outcome

(* A step of Receive: m packets are handed on, and ans answers them.          *)
Received(e, m, c, left, ans) ==
  LET p == Peer(e)
      n == Len(got[e])
      to == n + m
      third == sent[p][3]
      closes == n < 3 /\ to >= 3 /\ third.type = PktNormal
  IN /\ to <= Len(sent[p])
     /\ list' = [list EXCEPT ![e] = left]
     /\ total' = [total EXCEPT ![e] = Len(Flat(left))]
     /\ got' = [got EXCEPT ![e] = SubSeq(sent[p], 1, to)]
     /\ closeReq' = [closeReq EXCEPT ![e] = c \/ closes]
     /\ stream' \in [Ends -> Seq(Nat)]
     /\ Flat(left) \o stream'[e] = Framed(SubSeq(sent[p], to + 1, Len(sent[p])))
     /\ stream'[p] = IF sock[p] = "closed" THEN stream[p] ELSE stream[p] \o Framed(ans)
     /\ sent' = [sent EXCEPT ![e] = sent[e] \o ans]
     /\ Answers(e, to) = Answers(e, n) \o ans
     /\ result' = IF e = "C" /\ closes /\ Parsed(third).success THEN Parsed(third) ELSE result
     /\ c => to < Len(sent[p]) /\ Refused(sent[p][to + 1])
     /\ ~c /\ Len(Flat(left)) > 0 => to < Len(sent[p]) /\ Len(Flat(left)) < Len(Frame[sent[p][to + 1]])

LEMMA PartOfPart ==
  ASSUME NEW S, NEW q \in Seq(S), NEW n \in 0..Len(q), NEW m \in 0..(Len(q) - n)
  PROVE  LET ps == SubSeq(q, n + 1, Len(q))
         IN /\ ps \in Seq(S) /\ Len(ps) = Len(q) - n
            /\ \A i \in 1..m : SubSeq(ps, 1, m)[i] = q[n + i]
            /\ SubSeq(ps, 1, m) \in Seq(S) /\ Len(SubSeq(ps, 1, m)) = m
            /\ SubSeq(q, 1, n) \o SubSeq(ps, 1, m) = SubSeq(q, 1, n + m)
            /\ SubSeq(ps, m + 1, Len(ps)) = SubSeq(q, n + m + 1, Len(q))
            /\ m < Len(ps) => n + m < Len(q) /\ ps[m + 1] = q[n + m + 1]
<1> DEFINE N == Len(q)
           ps == SubSeq(q, n + 1, N)
           a == SubSeq(q, 1, n)
           b == SubSeq(ps, 1, m)
           c == SubSeq(ps, m + 1, N - n)
           d == SubSeq(q, n + m + 1, N)
           u == SubSeq(q, 1, n + m)
<1>1. N \in Nat /\ n \in Nat /\ m \in Nat /\ n <= N /\ m <= N - n
  OBVIOUS
<1>2. ps \in Seq(S) /\ Len(ps) = N - n /\ \A i \in 1..(N - n) : ps[i] = q[n + i]
  <2>1. SubSeq(q, n + 1, Len(q)) \in Seq(S) /\ Len(SubSeq(q, n + 1, Len(q))) = Len(q) - n
        /\ \A i \in 1..(Len(q) - n) : SubSeq(q, n + 1, Len(q))[i] = q[n + i]
    BY SplitSeq
  <2> QED
    BY <2>1
<1>3. a \in Seq(S) /\ Len(a) = n /\ \A i \in 1..n : a[i] = q[i]
  BY <1>1
<1> HIDE DEF ps, a
<1>4. b \in Seq(S) /\ Len(b) = m /\ \A i \in 1..m : b[i] = ps[i]
  BY <1>1, <1>2
<1>5. c \in Seq(S) /\ Len(c) = N - n - m /\ \A i \in 1..(N - n - m) : c[i] = ps[m + i]
  BY <1>1, <1>2
<1>6. d \in Seq(S) /\ Len(d) = N - n - m /\ \A i \in 1..(N - n - m) : d[i] = q[n + m + i]
  BY <1>1
<1>7. u \in Seq(S) /\ Len(u) = n + m /\ \A i \in 1..(n + m) : u[i] = q[i]
  BY <1>1
<1> HIDE DEF b, c, d, u, N
<1>8. \A i \in 1..m : b[i] = q[n + i]
  BY <1>1, <1>2, <1>4
<1>9. c = d
  <2>1. \A i \in 1..(N - n - m) : c[i] = d[i]
    <3> TAKE i \in 1..(N - n - m)
    <3>1. m + i \in 1..(N - n) /\ n + (m + i) = n + m + i
      BY <1>1
    <3> QED
      BY <1>2, <1>5, <1>6, <3>1
  <2> QED
    BY <1>5, <1>6, <2>1, SeqEqual
<1>10. a \o b = u
  <2> DEFINE v == a \o b
  <2>1. v \in Seq(S) /\ Len(v) = n + m /\ \A i \in 1..(n + m) : v[i] = IF i <= n THEN a[i] ELSE b[i - n]
    BY <1>3, <1>4, ConcatProperties
  <2> HIDE DEF v
  <2>2. \A i \in 1..(n + m) : v[i] = u[i]
    <3> TAKE i \in 1..(n + m)
    <3>1. (i <= n => i \in 1..n) /\ (~(i <= n) => i - n \in 1..m /\ n + (i - n) = i)
      BY <1>1
    <3> QED
      BY <1>3, <1>7, <1>8, <2>1, <3>1
  <2>3. v = u
    BY <1>7, <2>1, <2>2, SeqEqual
  <2> QED
    BY <2>3 DEF v
<1>11. m < N - n => n + m < N /\ ps[m + 1] = q[n + m + 1]
  <2>1. m < N - n => m + 1 \in 1..(N - n) /\ n + (m + 1) = n + m + 1 /\ n + m < N
    BY <1>1
  <2> QED
    BY <1>2, <2>1
<1> QED
  BY <1>2, <1>4, <1>8, <1>9, <1>10, <1>11 DEF ps, a, b, c, d, u, N

LEMMA ReceiveStep ==
  ASSUME IpInv, NEW e \in Ends, NEW k \in 1..ChunkMax, Receive(e, k)
  PROVE  \E m \in Nat : \E c \in BOOLEAN : \E left \in Seq(Chunks) : \E ans \in Seq(Packets) : Received(e, m, c, left, ans)
<1> DEFINE p == Peer(e)
           n == Len(got[e])
           q == sent[p]
           N == Len(q)
           ps == SubSeq(q, n + 1, N)
           h == list[e]
           w == stream[e]
           chunks == WithChunk(h, SubSeq(w, 1, k))
           r == OnReceive(chunks)
           left == TakeCells(chunks, r.end)
           rest == SubSeq(w, k + 1, Len(w))
<1>1. p \in Ends /\ p # e
  BY DEF Ends, Peer
<1>2. h \in Seq(Chunks) /\ w \in Seq(Nat) /\ q \in Seq(Packets) /\ n \in Nat /\ N \in Nat /\ reply \in Packets
  <2>1. h \in Seq(Chunks) /\ w \in Seq(Nat) /\ q \in Seq(Packets) /\ got[e] \in Seq(Packets) /\ reply \in Packets
    BY <1>1 DEF IpInv, IpTypes, Packets
  <2> QED
    BY <2>1
<1>3. sock[e] = "polled" /\ k \in 1..Len(w)
  <2>1. sock[e] = "polled" /\ k <= Len(w) /\ Len(w) \in Nat
    BY <1>2 DEF Receive
  <2> QED
    BY <2>1
<1>4. n <= N /\ got[e] = SubSeq(q, 1, n) /\ total[e] = Len(Flat(h)) /\ Flat(h) \o w = Framed(ps)
  BY <1>3 DEF IpInv, Wire
<1>5. ps \in Seq(Packets) /\ Len(ps) = N - n
  <2>1. n \in 0..N
    BY <1>2, <1>4
  <2> HIDE DEF q, n
  <2>2. q \in Seq(Packets) /\ n \in 0..Len(q)
    BY <1>2, <2>1
  <2>3. SubSeq(q, n + 1, Len(q)) \in Seq(Packets) /\ Len(SubSeq(q, n + 1, Len(q))) = Len(q) - n
    BY ONLY <2>2, SplitSeq
  <2> QED
    BY ONLY <2>3
<1>6. /\ list' = [list EXCEPT ![e] = left]
      /\ total' = [total EXCEPT ![e] = @ + k - r.end]
      /\ got' = [got EXCEPT ![e] = @ \o r.packets]
      /\ LET m == n + Len(r.packets)
             answers == FlattenSeq([i \in 1..Len(r.packets) |-> Answer(e, n + i)])
             closes == n < 3 /\ m >= 3 /\ r.packets[3 - n].type = PktNormal
             read == IF e = "C" /\ closes THEN Parsed(r.packets[3 - n]) ELSE NoResult
         IN /\ closeReq' = [closeReq EXCEPT ![e] = r.close \/ closes]
            /\ stream' = [stream EXCEPT ![e] = SubSeq(@, k + 1, Len(@)),
                                        ![Peer(e)] = IF sock[Peer(e)] = "closed" THEN @ ELSE @ \o Framed(answers)]
            /\ sent' = [sent EXCEPT ![e] = @ \o answers]
            /\ result' = IF read.success THEN read ELSE result
  BY DEF Receive
<1> HIDE DEF p, n, q, N, h, w, ps
<1>7. /\ left \in Seq(Chunks) /\ Len(Flat(left)) = Len(Flat(h)) + k - r.end /\ r.close \in BOOLEAN
      /\ \E m \in 0..Len(ps) :
           /\ r.packets = SubSeq(ps, 1, m)
           /\ Flat(left) \o rest = Framed(SubSeq(ps, m + 1, Len(ps)))
           /\ r.close => m < Len(ps) /\ Refused(ps[m + 1])
           /\ ~r.close /\ Len(Flat(left)) > 0 =>
                m < Len(ps) /\ Len(Flat(left)) < Len(Frame[ps[m + 1]])
  BY <1>2, <1>3, <1>4, <1>5, ReceivesWholePackets
<1> HIDE DEF chunks, r, left, rest
<1>8. PICK m \in 0..Len(ps) :
           /\ r.packets = SubSeq(ps, 1, m)
           /\ Flat(left) \o rest = Framed(SubSeq(ps, m + 1, Len(ps)))
           /\ r.close => m < Len(ps) /\ Refused(ps[m + 1])
           /\ ~r.close /\ Len(Flat(left)) > 0 =>
                m < Len(ps) /\ Len(Flat(left)) < Len(Frame[ps[m + 1]])
  BY <1>7
<1> DEFINE to == n + m
<1>9. /\ Len(r.packets) = m /\ m \in Nat /\ to \in Nat /\ to <= N
      /\ \A i \in 1..m : r.packets[i] = q[n + i]
      /\ got[e] \o r.packets = SubSeq(q, 1, to)
      /\ SubSeq(ps, m + 1, Len(ps)) = SubSeq(q, to + 1, N)
      /\ m < Len(ps) => to < N /\ ps[m + 1] = q[to + 1]
  <2>1. n \in 0..N /\ m \in 0..(N - n) /\ m \in Nat /\ to \in Nat /\ to <= N
    BY <1>2, <1>4, <1>5
  <2>2. /\ \A i \in 1..m : SubSeq(ps, 1, m)[i] = q[n + i]
        /\ SubSeq(ps, 1, m) \in Seq(Packets) /\ Len(SubSeq(ps, 1, m)) = m
        /\ SubSeq(q, 1, n) \o SubSeq(ps, 1, m) = SubSeq(q, 1, n + m)
        /\ SubSeq(ps, m + 1, Len(ps)) = SubSeq(q, n + m + 1, N)
        /\ m < Len(ps) => n + m < N /\ ps[m + 1] = q[n + m + 1]
    <3>1. q \in Seq(Packets) /\ n \in 0..Len(q) /\ m \in 0..(Len(q) - n)
      BY <1>2, <2>1 DEF N
    <3>2. LET v == SubSeq(q, n + 1, Len(q))
          IN /\ v \in Seq(Packets) /\ Len(v) = Len(q) - n
             /\ \A i \in 1..m : SubSeq(v, 1, m)[i] = q[n + i]
             /\ SubSeq(v, 1, m) \in Seq(Packets) /\ Len(SubSeq(v, 1, m)) = m
             /\ SubSeq(q, 1, n) \o SubSeq(v, 1, m) = SubSeq(q, 1, n + m)
             /\ SubSeq(v, m + 1, Len(v)) = SubSeq(q, n + m + 1, Len(q))
             /\ m < Len(v) => n + m < Len(q) /\ v[m + 1] = q[n + m + 1]
      BY ONLY <3>1, PartOfPart, SMTT(20)
    <3> QED
      BY ONLY <3>2 DEF ps, N
  <2> QED
    BY <1>4, <1>8, <2>1, <2>2
<1> DEFINE ans == FlattenSeq([i \in 1..m |-> Answer(e, n + i)])
           third == q[3]
           closes == n < 3 /\ to >= 3 /\ third.type = PktNormal
<1>10. ans \in Seq(Packets) /\ Answers(e, to) = Answers(e, n) \o ans
  <2>1. Own \subseteq Packets
    BY DEF Own, Packets
  <2> QED
    BY <1>2, <1>9, <2>1, AnswersGrow
<1>11. n < 3 /\ to >= 3 => r.packets[3 - n] = third
  <2>1. n < 3 /\ to >= 3 => 3 - n \in 1..m /\ n + (3 - n) = 3
    BY <1>2, <1>9
  <2> QED
    BY <1>9, <2>1
<1> HIDE DEF to
<1>12. closeReq' = [closeReq EXCEPT ![e] = r.close \/ closes]
  <2>1. n + Len(r.packets) = to
    BY <1>9 DEF to
  <2> QED
    BY <1>6, <1>11, <2>1
<1>13. result' = IF e = "C" /\ closes /\ Parsed(third).success THEN Parsed(third) ELSE result
  <2>1. n + Len(r.packets) = to /\ NoResult.success = FALSE
    BY <1>9 DEF to, NoResult
  <2>2. closes <=> n < 3 /\ to >= 3 /\ r.packets[3 - n].type = PktNormal
    BY <1>11
  <2> DEFINE read == IF e = "C" /\ closes THEN Parsed(r.packets[3 - n]) ELSE NoResult
  <2>3. result' = IF read.success THEN read ELSE result
    BY <1>6, <2>1, <2>2
  <2>4. CASE e = "C" /\ closes
    <3>1. read = Parsed(third)
      BY <1>11, <2>4
    <3> HIDE DEF read
    <3> QED
      BY <2>3, <2>4, <3>1
  <2>5. CASE ~(e = "C" /\ closes)
    BY <2>1, <2>3, <2>5
  <2> QED
    BY <2>4, <2>5
<1>14. sent' = [sent EXCEPT ![e] = sent[e] \o ans]
  BY <1>6, <1>9
<1> HIDE DEF ans, closes
<1>15. /\ stream' \in [Ends -> Seq(Nat)] /\ stream'[e] = rest
       /\ stream'[p] = IF sock[p] = "closed" THEN stream[p] ELSE stream[p] \o Framed(ans)
  <2> DEFINE x == IF sock[p] = "closed" THEN stream[p] ELSE stream[p] \o Framed(ans)
  <2>1. stream' = [stream EXCEPT ![e] = rest, ![p] = x]
    BY <1>1, <1>6, <1>9 DEF p, rest, w, ans
  <2>2. stream \in [Ends -> Seq(Nat)]
    BY DEF IpInv, IpTypes
  <2>3. Framed(ans) \in Seq(Nat)
    BY <1>10, FramedConcat
  <2>4. stream[p] \in Seq(Nat)
    BY <1>1, <2>2
  <2>5. x \in Seq(Nat)
    BY <2>3, <2>4, ConcatProperties
  <2>6. rest \in Seq(Nat)
    <3>1. k \in 0..Len(w)
      BY <1>3
    <3> QED
      BY <1>2, <3>1, SplitSeq DEF rest
  <2> HIDE DEF x
  <2>7. stream' \in [Ends -> Seq(Nat)] /\ stream'[e] = rest /\ stream'[p] = x
    BY <1>1, <2>1, <2>2, <2>5, <2>6
  <2> QED
    BY <2>7 DEF x
<1>16. total' = [total EXCEPT ![e] = Len(Flat(left))]
  <2>1. total[e] + k - r.end = Len(Flat(left))
    BY <1>4, <1>7
  <2> QED
    BY <1>6, <2>1
<1>17. got' = [got EXCEPT ![e] = SubSeq(q, 1, to)]
  BY <1>6, <1>9
<1>18. Received(e, m, r.close, left, ans)
  <2>1. Flat(left) \o stream'[e] = Framed(SubSeq(q, to + 1, N))
    BY <1>8, <1>9, <1>15
  <2>2. r.close => to < N /\ Refused(q[to + 1])
    BY <1>8, <1>9
  <2>3. ~r.close /\ Len(Flat(left)) > 0 => to < N /\ Len(Flat(left)) < Len(Frame[q[to + 1]])
    BY <1>8, <1>9
  <2> QED
    BY <1>6, <1>9, <1>10, <1>12, <1>13, <1>14, <1>15, <1>16, <1>17, <2>1, <2>2, <2>3 DEF Received, p, n, q, N, to, closes
<1> QED
  BY <1>7, <1>9, <1>10, <1>18

(* An end that has read all has got all: a packet does not stay in its list. *)
LEMMA AllRead ==
  ASSUME IpInv, NEW e \in Ends, sock[e] = "polled", ~closeReq[e], stream[e] = <<>>
  PROVE  Len(got[e]) = Len(sent[Peer(e)])
<1> DEFINE p == Peer(e)
           n == Len(got[e])
           q == sent[p]
           N == Len(q)
           h == list[e]
           fh == Flat(h)
<1>1. p \in Ends
  BY DEF Ends, Peer
<1>2. h \in Seq(Chunks) /\ q \in Seq(Packets) /\ n \in Nat /\ N \in Nat
  <2>1. h \in Seq(Chunks) /\ q \in Seq(Packets) /\ got[e] \in Seq(Packets)
    BY <1>1 DEF IpInv, IpTypes
  <2> QED
    BY <2>1
<1>3. /\ n <= N /\ total[e] = Len(fh) /\ fh \o <<>> = Framed(SubSeq(q, n + 1, N))
      /\ total[e] > 0 => Len(fh) < Len(Frame[q[n + 1]])
  BY DEF IpInv, Wire
<1>4. fh \in Seq(Nat) /\ fh \o <<>> = fh /\ Len(fh) \in Nat
  <2>1. <<>> \in Seq(Chunks)
    OBVIOUS
  <2>2. fh \in Seq(Nat) /\ Len(fh) \in Nat
    BY <1>2, <2>1, FlatConcat
  <2> QED
    BY <2>2, ConcatEmptySeq
<1>5. ASSUME n < N PROVE FALSE
  <2> HIDE DEF p, n, q, h, fh
  <2> DEFINE x == q[n + 1]
             u == SubSeq(q, n + 2, N)
             fx == Frame[x]
             fu == Framed(u)
  <2>1. x \in Packets /\ SubSeq(q, n + 1, N) = <<x>> \o u
    BY <1>2, <1>5, SplitNext
  <2>2. <<x>> \in Seq(Packets) /\ u \in Seq(Packets)
    <3>1. <<x>> \in Seq(Packets)
      BY <2>1
    <3> DEFINE j == n + 1
    <3>2. j \in 0..Len(q) /\ j + 1 = n + 2
      BY <1>2, <1>5
    <3> HIDE DEF j
    <3>3. SubSeq(q, j + 1, Len(q)) \in Seq(Packets)
      BY <1>2, <3>2, SplitSeq
    <3> QED
      BY <3>1, <3>2, <3>3
  <2> HIDE DEF x, u
  <2>3. Framed(<<x>> \o u) = fx \o fu
    BY <2>1, <2>2, FramedConcat, FramedEnds
  <2>4. fx \in Seq(Nat) /\ fu \in Seq(Nat) /\ Len(fx) > 0 /\ Len(fx) \in Nat /\ Len(fu) \in Nat
    <3>1. fx \in Seq(Nat) /\ Len(fx) = HeaderLen + Len(x.data) /\ Len(x.data) \in Nat
      BY <2>1, FrameCells
    <3>2. HeaderLen \in Nat /\ HeaderLen > 0
      BY LenSizeAssumption DEF HeaderLen
    <3>3. fu \in Seq(Nat) /\ Len(fu) \in Nat
      BY <2>2, FramedConcat
    <3> HIDE DEF fx, fu
    <3> QED
      BY <3>1, <3>2, <3>3
  <2> HIDE DEF fx, fu
  <2>5. Len(fx \o fu) = Len(fx) + Len(fu)
    BY ONLY <2>4, ConcatProperties
  <2>6. fh = fx \o fu
    BY <1>3, <1>4, <2>1, <2>3
  <2>7. total[e] > 0 /\ total[e] = Len(fx) + Len(fu)
    BY <1>3, <2>4, <2>5, <2>6
  <2>8. Len(fh) < Len(fx)
    BY <1>3, <2>7 DEF fx, x
  <2> QED
    BY <2>4, <2>5, <2>6, <2>8
<1> QED
  BY <1>2, <1>3, <1>5

(* Every packet that is sent is the program's own, unless the reply is not.   *)
LEMMA SentOwn ==
  ASSUME IpInv, NEW e \in Ends, e = "C" \/ reply = IpReply, NEW i \in 1..Len(sent[e])
  PROVE  sent[e][i] \in Own /\ ~Refused(sent[e][i]) /\ sent[e][i].type = PktNormal
<1> DEFINE n == Len(got[e])
<1>1. n \in Nat /\ reply \in Packets
  <2>1. got[e] \in Seq(Packets) /\ reply \in Packets
    BY DEF IpInv, IpTypes, Packets
  <2> QED
    BY <2>1
<1>2. Own \subseteq Packets /\ (reply = IpReply => reply \in Own)
  BY DEF Own, Packets
<1>3. Answers(e, n) \in Seq(Own)
  BY <1>1, <1>2, AnswersGrow
<1>4. Opening(e) \in Seq(Own)
  <2>1. <<Kex(1)>> \in Seq(Own) /\ <<>> \in Seq(Own)
    BY KexIsOwn
  <2> QED
    BY <2>1 DEF Opening
<1>5. sent[e] = Opening(e) \o Answers(e, n)
  BY DEF IpInv, Answered
<1> DEFINE o == Opening(e)
           a == Answers(e, n)
<1> HIDE DEF o, a
<1>6. o \o a \in Seq(Own)
  BY <1>3, <1>4, ConcatProperties DEF o, a
<1>7. sent[e] \in Seq(Own)
  BY <1>5, <1>6 DEF o, a
<1>8. sent[e][i] \in Own
  BY <1>7, ElementOfSeq
<1>9. sent[e][i] \in Packets
  BY <1>2, <1>8
<1> DEFINE z == sent[e][i]
<1> HIDE DEF z
<1>10. z.type = PktNormal /\ ~Refused(z)
  BY <1>8, <1>9, PacketFields DEF z
<1> QED
  BY <1>8, <1>10 DEF z

(* The server answers three packets with three, the third is the reply. *)
LEMMA ServerSent ==
  ASSUME IpInv
  PROVE  /\ Len(got["S"]) >= 3 => Len(sent["S"]) = 3
         /\ Len(sent["S"]) >= 3 => sent["S"][3] = reply
<1> DEFINE n == Len(got["S"])
<1>0. "S" \in Ends
  BY DEF Ends
<1>1. n \in Nat /\ reply \in Packets /\ Own \subseteq Packets
  <2>1. got["S"] \in Seq(Packets) /\ reply \in Packets
    BY <1>0 DEF IpInv, IpTypes, Packets
  <2> QED
    BY <2>1 DEF Own, Packets
<1>2. Answers("S", n) \in Seq(Packets)
  BY <1>0, <1>1, AnswersGrow
<1>3. sent["S"] = <<>> \o Answers("S", n)
  BY <1>0 DEF IpInv, Answered, Opening
<1>4. sent["S"] = Answers("S", n)
  BY <1>2, <1>3, ConcatEmptySeq
<1> QED
  BY <1>1, <1>4, ServerAnswers

-----------------------------------------------------------------------------
(* The steps *)

(* A step after which all that Wire and Answered speak of is as it was, but   *)
(* for an end that waits for its socket to be closed.                         *)
LEMMA WireKept ==
  ASSUME NEW e \in Ends, Wire(e), got'[e] = got[e], sent'[Peer(e)] = sent[Peer(e)], list'[e] = list[e], total'[e] = total[e],
         sock'[e] # "closed" => stream'[e] = stream[e] /\ sock[e] # "closed",
         sock'[e] = "polled" /\ ~closeReq'[e] => (sock[e] = "polled" /\ ~closeReq[e]) \/ list[e] = <<>>
  PROVE  Wire(e)'
<1>1. list[e] = <<>> => ~(total[e] > 0)
  <2>1. Flat(<<>>) = <<>> /\ Len(<<>>) = 0 /\ ~(0 > 0)
    BY FlatEnds
  <2>2. total[e] = Len(Flat(list[e]))
    BY DEF Wire
  <2> QED
    BY <2>1, <2>2
<1>2. Peer(e)' = Peer(e)
  BY DEF Peer
<1> QED
  BY <1>1, <1>2 DEF Wire

LEMMA AnsweredKept ==
  ASSUME NEW e \in Ends, Answered(e), got'[e] = got[e], sent'[e] = sent[e], reply' = reply,
         sock'["C"] \in {"polled", "closed"} <=> sock["C"] \in {"polled", "closed"}
  PROVE  Answered(e)'
<1>1. Answers(e, Len(got[e]))' = Answers(e, Len(got[e]))
  BY DEF Answers, Answer
<1> QED
  BY <1>1 DEF Answered, Opening

LEMMA IpInit == Init => IpInv
<1> SUFFICES ASSUME Init PROVE IpInv
  OBVIOUS
<1> USE DEF Init
<1>1. IpTypes
  <2>1. <<>> \in Seq(Nat) /\ <<>> \in Seq(Chunks) /\ <<>> \in Seq(Packets) /\ 0 \in Int
    OBVIOUS
  <2> QED
    BY <2>1 DEF IpTypes
<1>2. Idle
  BY DEF Idle, Ends
<1>3. ASSUME NEW e \in Ends PROVE Wire(e) /\ Answered(e)
  <2> DEFINE p == Peer(e)
  <2>1. p \in Ends
    BY <1>3 DEF Ends, Peer
  <2>2. /\ got[e] = <<>> /\ sent[p] = <<>> /\ sent[e] = <<>> /\ total[e] = 0 /\ list[e] = <<>>
        /\ stream[e] = <<>> /\ sock[e] = "none"
    BY <1>3, <2>1
  <2>3. Len(<<>>) = 0 /\ 0 <= 0 /\ ~(0 > 0) /\ SubSeq(<<>>, 1, 0) = <<>> /\ SubSeq(<<>>, 0 + 1, 0) = <<>> /\ <<>> \o <<>> = <<>>
    OBVIOUS
  <2>4. Flat(<<>>) = <<>> /\ Framed(<<>>) = <<>>
    BY FlatEnds, FramedEnds
  <2>5. Wire(e)
    <3> DEFINE z == <<>>
    <3>1. /\ got[e] = z /\ sent[p] = z /\ total[e] = 0 /\ list[e] = z /\ stream[e] = z
          /\ Len(z) = 0 /\ SubSeq(z, 1, 0) = z /\ SubSeq(z, 0 + 1, 0) = z /\ z \o z = z
          /\ Flat(z) = z /\ Framed(z) = z
      BY <2>2, <2>3, <2>4
    <3> HIDE DEF z
    <3> QED
      BY ONLY <2>3, <3>1 DEF Wire
  <2>6. Answers(e, 0) = <<>>
    <3>1. [i \in 1..0 |-> Answer(e, i)] = <<>>
      OBVIOUS
    <3> QED
      BY <3>1, FlattenEmpty DEF Answers
  <2>7. Opening(e) = <<>>
    BY DEF Opening, Ends
  <2>8. Answered(e)
    BY <2>2, <2>3, <2>6, <2>7 DEF Answered
  <2> QED
    BY <2>5, <2>8
<1>4. Outcome
  <2>1. Len(<<>>) = 0 /\ ~(0 >= 3)
    OBVIOUS
  <2>2. \A e \in Ends : Len(got[e]) = 0 /\ sock[e] = "none"
    BY <2>1
  <2>3. "C" \in Ends /\ "S" \in Ends
    BY DEF Ends
  <2> QED
    BY <2>1, <2>2, <2>3 DEF Outcome, Ended, NoResult
<1> QED
  BY <1>1, <1>2, <1>3, <1>4 DEF IpInv

LEMMA ConnectKeeps == IpInv /\ Connect => IpInv'
<1> SUFFICES ASSUME IpInv, Connect PROVE IpInv'
  OBVIOUS
<1>0. "C" \in Ends /\ "S" \in Ends /\ Peer("C") = "S" /\ Peer("S") = "C" /\ \A e \in Ends : e = "C" \/ e = "S"
  BY DEF Ends, Peer
<1>1. /\ sock["C"] = "none" /\ timer' = timer \cup {"C"}
      /\ closeReq' = closeReq /\ fin' = fin /\ list' = list /\ total' = total /\ got' = got
      /\ connections' = connections /\ result' = result /\ woken' = woken /\ hung' = hung /\ reply' = reply
      /\ timedOut' = timedOut
      /\ \/ /\ sock' = [sock EXCEPT !["C"] = "polled"]
            /\ stream' = [stream EXCEPT !["S"] = Framed(<<Kex(1)>>)]
            /\ sent' = [sent EXCEPT !["C"] = <<Kex(1)>>]
         \/ sock' = [sock EXCEPT !["C"] = "failed"] /\ stream' = stream /\ sent' = sent
  BY DEF Connect
<1>2. /\ sock["S"] = "none" /\ list["S"] = <<>> /\ got["S"] = <<>> /\ list["C"] = <<>> /\ got["C"] = <<>>
      /\ ~closeReq["C"] /\ ~closeReq["S"] /\ "S" \notin timer
  BY <1>0, <1>1 DEF IpInv, Idle
<1>3. IpTypes'
  <2>1. <<Kex(1)>> \in Seq(Packets) /\ Framed(<<Kex(1)>>) \in Seq(Nat)
    <3>1. <<Kex(1)>> \in Seq(Packets)
      BY KexIsOwn
    <3> QED
      BY <3>1, FramedConcat
  <2>2. IpTypes
    BY DEF IpInv
  <2> DEFINE u == <<Kex(1)>>
             x == Framed(u)
  <2>3. sock' \in [Ends -> {"none", "polled", "closed", "failed"}]
    BY <1>1, <2>2 DEF IpTypes
  <2>4. timer' \subseteq Ends
    BY <1>0, <1>1, <2>2 DEF IpTypes
  <2> HIDE DEF u, x
  <2>5. stream' \in [Ends -> Seq(Nat)] /\ sent' \in [Ends -> Seq(Packets)]
    <3>1. x \in Seq(Nat) /\ u \in Seq(Packets)
      BY <2>1 DEF u, x
    <3>2. \/ stream' = [stream EXCEPT !["S"] = x] /\ sent' = [sent EXCEPT !["C"] = u]
          \/ stream' = stream /\ sent' = sent
      BY <1>1 DEF u, x
    <3>3. stream \in [Ends -> Seq(Nat)] /\ sent \in [Ends -> Seq(Packets)]
      BY <2>2 DEF IpTypes
    <3>4. CASE stream' = [stream EXCEPT !["S"] = x] /\ sent' = [sent EXCEPT !["C"] = u]
      <4>1. stream' \in [Ends -> Seq(Nat)]
        BY ONLY <3>1, <3>3, <3>4
      <4>2. sent' \in [Ends -> Seq(Packets)]
        BY ONLY <3>1, <3>3, <3>4
      <4> QED
        BY ONLY <4>1, <4>2
    <3>5. CASE stream' = stream /\ sent' = sent
      BY ONLY <3>3, <3>5
    <3> QED
      BY ONLY <3>2, <3>4, <3>5
  <2> QED
    BY <1>1, <2>2, <2>3, <2>4, <2>5 DEF IpTypes
<1>4. sock \in [Ends -> {"none", "polled", "closed", "failed"}] /\ sent \in [Ends -> Seq(Packets)] /\ stream \in [Ends -> Seq(Nat)]
  BY DEF IpInv, IpTypes
<1>5. Idle'
  BY <1>0, <1>1, <1>2, <1>4 DEF Idle
<1>6. Len(<<>>) = 0 /\ ~(0 >= 3)
  OBVIOUS
<1>7. Wire("C")'
  <2>1. sent'["S"] = sent["S"] /\ stream'["C"] = stream["C"] /\ sock'["C"] \in {"polled", "failed"} /\ Wire("C")
    BY <1>0, <1>1, <1>4 DEF IpInv
  <2>2. /\ got'["C"] = got["C"] /\ sent'[Peer("C")] = sent[Peer("C")] /\ list'["C"] = list["C"] /\ total'["C"] = total["C"]
        /\ sock["C"] # "closed"
    BY <1>0, <1>1, <2>1
  <2> QED
    BY <1>0, <1>2, <2>1, <2>2, WireKept
<1>8. Wire("S")'
  <2>1. Wire("S") /\ sock'["S"] = "none"
    BY <1>0, <1>1, <1>2, <1>4 DEF IpInv
  <2>2. CASE sent' = sent /\ stream' = stream
    <3>1. sent'[Peer("S")] = sent[Peer("S")] /\ sock["S"] # "closed"
      BY <1>0, <1>2, <2>2
    <3> QED
      BY <1>0, <1>1, <1>2, <2>1, <2>2, <3>1, WireKept
  <2>3. CASE sent'["C"] = <<Kex(1)>> /\ stream'["S"] = Framed(<<Kex(1)>>)
    <3> DEFINE u == <<Kex(1)>>
    <3>1. u \in Seq(Packets) /\ Len(u) = 1 /\ SubSeq(u, 1, 0) = <<>> /\ SubSeq(u, 0 + 1, 1) = u
      <4>1. u \in Seq(Packets) /\ Len(u) = 1
        BY KexIsOwn
      <4> HIDE DEF u
      <4>2. SubSeq(u, 1, Len(u)) = u
        BY <4>1
      <4> QED
        BY <4>1, <4>2
    <3>2. Flat(<<>>) = <<>> /\ Framed(u) \in Seq(Nat)
      BY <3>1, FlatEnds, FramedConcat
    <3> HIDE DEF u
    <3>3. <<>> \o Framed(u) = Framed(u)
      BY <3>2, ConcatEmptySeq
    <3>4. total["S"] = Len(Flat(list["S"]))
      BY <2>1 DEF Wire
    <3>5. sent'["C"] = u /\ stream'["S"] = Framed(u)
      BY <2>3 DEF u
    <3> DEFINE z == <<>>
    <3>6. /\ got'["S"] = z /\ list'["S"] = z /\ total'["S"] = Len(Flat(z)) /\ Len(z) = 0 /\ 0 <= 1
          /\ SubSeq(u, 1, 0) = z /\ Flat(z) = z /\ z \o Framed(u) = Framed(u) /\ Peer("S") = "C"
      BY <1>0, <1>1, <1>2, <1>6, <3>1, <3>2, <3>3, <3>4
    <3> HIDE DEF z
    <3> QED
      BY ONLY <2>1, <3>1, <3>5, <3>6 DEF Wire
  <2> QED
    BY <1>0, <1>1, <1>4, <2>2, <2>3
<1>9. ASSUME NEW e \in Ends PROVE Answered(e)'
  <2>1. Answers(e, Len(got[e]))' = Answers(e, Len(got[e])) /\ Answers(e, 0) = <<>>
    <3>1. [i \in 1..0 |-> Answer(e, i)] = <<>>
      OBVIOUS
    <3> QED
      BY <1>1, <3>1, FlattenEmpty DEF Answers, Answer
  <2>2. Len(got[e]) = 0 /\ got'[e] = got[e]
    BY <1>0, <1>1, <1>2, <1>6
  <2>3. Opening(e) = <<>> /\ sent[e] = Opening(e) \o Answers(e, Len(got[e]))
    BY <1>1 DEF IpInv, Answered, Opening
  <2>4. sent[e] = <<>> /\ <<>> \o <<>> = <<>> /\ <<Kex(1)>> \o <<>> = <<Kex(1)>>
    <3>1. <<>> \o <<>> = <<>>
      OBVIOUS
    <3>2. <<Kex(1)>> \in Seq(Packets)
      BY KexIsOwn
    <3>3. <<Kex(1)>> \o <<>> = <<Kex(1)>>
      BY <3>2, ConcatEmptySeq
    <3> QED
      BY <2>1, <2>2, <2>3, <3>1, <3>3
  <2>5. sent'[e] = Opening(e)' \o <<>>
    BY <1>0, <1>1, <1>4, <2>4 DEF Opening
  <2> QED
    BY <2>1, <2>2, <2>5 DEF Answered
<1>10. Outcome'
  <2>1. sock'["S"] = "none" /\ sock'["C"] \in {"polled", "failed"}
    BY <1>0, <1>1, <1>2, <1>4
  <2>2. Parsed(reply)' = Parsed(reply)
    BY <1>1 DEF Parsed
  <2>3. \A e \in fin : FALSE
    <3>1. fin \subseteq Ends /\ \A e \in fin : sock[Peer(e)] = "closed"
      BY DEF IpInv, IpTypes, Outcome
    <3>2. \A e \in Ends : sock[Peer(e)] = "none"
      BY <1>0, <1>1, <1>2
    <3> QED
      BY <3>1, <3>2
  <2>4. ~woken
    BY <1>1 DEF IpInv, Outcome
  <2> QED
    BY <1>0, <1>1, <1>2, <2>1, <2>2, <2>3, <2>4 DEF IpInv, Outcome, Ended
<1> QED
  BY <1>0, <1>3, <1>5, <1>7, <1>8, <1>9, <1>10 DEF IpInv


LEMMA OnAcceptKeeps == IpInv /\ OnAccept => IpInv'
<1> SUFFICES ASSUME IpInv, OnAccept PROVE IpInv'
  OBVIOUS
<1>0. "C" \in Ends /\ "S" \in Ends /\ Peer("C") = "S" /\ Peer("S") = "C" /\ \A e \in Ends : e = "C" \/ e = "S"
  BY DEF Ends, Peer
<1>1. /\ sock["C"] \in {"polled", "closed"} /\ sock["S"] = "none" /\ timer' = timer \cup {"S"}
      /\ sock' = [sock EXCEPT !["S"] = "polled"] /\ connections' = TRUE
      /\ closeReq' = closeReq /\ fin' = fin /\ list' = list /\ total' = total /\ got' = got
      /\ result' = result /\ woken' = woken /\ hung' = hung /\ reply' = reply /\ stream' = stream /\ sent' = sent
      /\ timedOut' = timedOut
  BY DEF OnAccept
<1>2. list["S"] = <<>> /\ ~closeReq["S"]
  BY <1>0, <1>1 DEF IpInv, Idle
<1>3. sock \in [Ends -> {"none", "polled", "closed", "failed"}]
  BY DEF IpInv, IpTypes
<1>4. sock'["S"] = "polled" /\ sock'["C"] = sock["C"] /\ closeReq'["S"] = closeReq["S"]
  BY <1>0, <1>1, <1>3
<1>5. IpTypes'
  <2>1. IpTypes /\ timer' \subseteq Ends /\ sock' \in [Ends -> {"none", "polled", "closed", "failed"}]
    BY <1>0, <1>1 DEF IpInv, IpTypes
  <2> QED
    BY <1>1, <2>1 DEF IpTypes
<1>6. Idle'
  BY <1>0, <1>1, <1>4 DEF IpInv, Idle
<1>7. ASSUME NEW e \in Ends PROVE Wire(e)' /\ Answered(e)'
  <2>1. Wire(e) /\ Answered(e)
    BY DEF IpInv
  <2>2. sock'[e] # "closed" => sock[e] # "closed"
    BY <1>0, <1>1, <1>4
  <2>3. sock'[e] = "polled" /\ ~closeReq'[e] => (sock[e] = "polled" /\ ~closeReq[e]) \/ list[e] = <<>>
    BY <1>0, <1>1, <1>2, <1>4
  <2>4. Wire(e)'
    BY <1>1, <2>1, <2>2, <2>3, WireKept
  <2>5. Answered(e)'
    BY <1>1, <1>4, <2>1, AnsweredKept
  <2> QED
    BY <2>4, <2>5
<1>8. Outcome'
  <2>1. Parsed(reply)' = Parsed(reply)
    BY <1>1 DEF Parsed
  <2>2. \A e \in fin : sock[Peer(e)] = "closed" /\ e \in Ends
    BY DEF IpInv, IpTypes, Outcome
  <2>3. \A e \in fin : sock'[Peer(e)] = "closed"
    BY <1>0, <1>1, <1>4, <2>2
  <2> QED
    BY <1>1, <1>2, <1>4, <2>1, <2>3 DEF IpInv, Outcome, Ended, Peer
<1> QED
  BY <1>5, <1>6, <1>7, <1>8 DEF IpInv

LEMMA ReceiveEndKeeps ==
  ASSUME IpInv, NEW e \in Ends, ReceiveEnd(e)
  PROVE  IpInv'
<1>0. "C" \in Ends /\ "S" \in Ends /\ Peer("C") = "S" /\ Peer("S") = "C" /\ (e = "C" \/ e = "S")
  BY DEF Ends, Peer
<1>1. /\ sock[e] = "polled" /\ ~closeReq[e] /\ stream[e] = <<>> /\ e \in fin
      /\ closeReq' = [closeReq EXCEPT ![e] = TRUE]
      /\ sock' = sock /\ timer' = timer /\ connections' = connections /\ fin' = fin /\ list' = list /\ total' = total
      /\ got' = got /\ result' = result /\ woken' = woken /\ hung' = hung /\ reply' = reply /\ stream' = stream
      /\ sent' = sent /\ timedOut' = timedOut
  BY DEF ReceiveEnd
<1>2. closeReq \in [Ends -> BOOLEAN] /\ IpTypes
  BY DEF IpInv, IpTypes
<1>3. closeReq'[e] /\ \A x \in Ends : x # e => closeReq'[x] = closeReq[x]
  BY <1>1, <1>2
<1>4. IpTypes'
  <2>1. closeReq' \in [Ends -> BOOLEAN]
    BY <1>1, <1>2
  <2> QED
    BY <1>1, <1>2, <2>1 DEF IpTypes
<1>5. Idle'
  BY <1>1, <1>3 DEF IpInv, Idle
<1>6. ASSUME NEW x \in Ends PROVE Wire(x)' /\ Answered(x)'
  <2>1. Wire(x) /\ Answered(x)
    BY DEF IpInv
  <2>2. sock'[x] = "polled" /\ ~closeReq'[x] => (sock[x] = "polled" /\ ~closeReq[x]) \/ list[x] = <<>>
    BY <1>1, <1>3
  <2>3. Wire(x)'
    BY <1>1, <2>1, <2>2, WireKept
  <2>4. Answered(x)'
    BY <1>1, <2>1, AnsweredKept
  <2> QED
    BY <2>3, <2>4
<1>7. Outcome'
  <2>1. Parsed(reply)' = Parsed(reply)
    BY <1>1 DEF Parsed
  <2>2. sock[Peer(e)] = "closed"
    BY <1>1 DEF IpInv, Outcome
  <2>3. Outcome
    BY DEF IpInv
  <2>4. ASSUME reply = IpReply, timedOut = {}, Ended("C")' PROVE Len(got["C"]) >= 3
    <3>1. CASE e = "C"
      <4>1. Ended("S")
        BY <1>0, <2>2, <3>1 DEF Ended
      <4>2. Len(got["S"]) >= 3
        BY <1>1, <2>3, <2>4, <3>1, <4>1 DEF Outcome
      <4>3. Len(got["C"]) = Len(sent["S"])
        BY <1>0, <1>1, <3>1, AllRead
      <4>4. Len(sent["S"]) = 3
        BY <4>2, ServerSent
      <4> QED
        BY <4>3, <4>4
    <3>2. CASE e # "C"
      <4>1. Ended("C")
        BY <1>0, <1>1, <1>3, <2>4, <3>2 DEF Ended
      <4> QED
        BY <2>3, <2>4, <4>1 DEF Outcome
    <3> QED
      BY <3>1, <3>2
  <2>5. ASSUME reply = IpReply, timedOut = {}, Ended("S")' PROVE Len(got["S"]) >= 3 \/ sock["C"] = "closed"
    <3>1. CASE e = "S"
      BY <1>0, <2>2, <3>1
    <3>2. CASE e # "S"
      <4>1. Ended("S")
        BY <1>0, <1>1, <1>3, <2>5, <3>2 DEF Ended
      <4> QED
        BY <2>3, <2>5, <4>1 DEF Outcome
    <3> QED
      BY <3>1, <3>2
  <2> QED
    BY <1>1, <2>1, <2>3, <2>4, <2>5 DEF Outcome, Peer
<1> QED
  BY <1>4, <1>5, <1>6, <1>7 DEF IpInv

LEMMA ExecCloseKeeps ==
  ASSUME IpInv, NEW e \in Ends, ExecClose(e)
  PROVE  IpInv'
<1>0. /\ "C" \in Ends /\ "S" \in Ends /\ Peer("C") = "S" /\ Peer("S") = "C" /\ (e = "C" \/ e = "S")
      /\ Peer(e) \in Ends /\ Peer(Peer(e)) = e
  BY DEF Ends, Peer
<1>1. /\ closeReq[e] /\ closeReq' = [closeReq EXCEPT ![e] = FALSE]
      /\ list' = list /\ total' = total /\ got' = got /\ timer' = timer /\ result' = result /\ hung' = hung
      /\ reply' = reply /\ sent' = sent /\ timedOut' = timedOut
      /\ sock[e] = "polled" =>
           /\ sock' = [sock EXCEPT ![e] = "closed"] /\ fin' = fin \cup {Peer(e)}
           /\ stream' = [stream EXCEPT ![e] = <<>>]
           /\ woken' = (woken \/ e = "C") /\ connections' \in BOOLEAN
      /\ sock[e] # "polled" =>
           sock' = sock /\ fin' = fin /\ stream' = stream /\ connections' = connections /\ woken' = woken
  <2>1. IpTypes
    BY DEF IpInv
  <2>2. connections \in BOOLEAN /\ woken \in BOOLEAN
    BY <2>1 DEF IpTypes
  <2> QED
    BY <2>2 DEF ExecClose, OnClose
<1>2. IpTypes /\ Idle /\ Outcome
  BY DEF IpInv
<1>3. /\ closeReq \in [Ends -> BOOLEAN] /\ sock \in [Ends -> {"none", "polled", "closed", "failed"}]
      /\ stream \in [Ends -> Seq(Nat)] /\ fin \subseteq Ends /\ woken \in BOOLEAN
  BY <1>2 DEF IpTypes
<1>4. /\ closeReq'[e] = FALSE
      /\ sock'[e] = IF sock[e] = "polled" THEN "closed" ELSE sock[e]
      /\ \A x \in Ends : x # e => closeReq'[x] = closeReq[x] /\ sock'[x] = sock[x] /\ stream'[x] = stream[x]
      /\ sock[e] # "polled" => stream'[e] = stream[e]
  BY <1>1, <1>3
<1>5. IpTypes'
  <2>1. <<>> \in Seq(Nat)
    OBVIOUS
  <2>2. closeReq' \in [Ends -> BOOLEAN]
    BY <1>1, <1>3
  <2>3. sock' \in [Ends -> {"none", "polled", "closed", "failed"}]
    BY <1>1, <1>3
  <2>4. stream' \in [Ends -> Seq(Nat)]
    BY <1>1, <1>3, <2>1
  <2>5. fin' \subseteq Ends /\ woken' \in BOOLEAN /\ connections' \in BOOLEAN
    BY <1>0, <1>1, <1>2 DEF IpTypes
  <2> QED
    BY <1>1, <1>2, <2>2, <2>3, <2>4, <2>5 DEF IpTypes
<1>6. Idle'
  BY <1>0, <1>1, <1>2, <1>4 DEF Idle
<1>7. ASSUME NEW x \in Ends PROVE Wire(x)' /\ Answered(x)'
  <2>1. Wire(x) /\ Answered(x)
    BY DEF IpInv
  <2>2. sock'[x] # "closed" => stream'[x] = stream[x] /\ sock[x] # "closed"
    BY <1>4
  <2>3. sock'[x] = "polled" /\ ~closeReq'[x] => (sock[x] = "polled" /\ ~closeReq[x]) \/ list[x] = <<>>
    BY <1>4
  <2>4. Wire(x)'
    BY <1>1, <2>1, <2>2, <2>3, WireKept
  <2>5. sock'["C"] \in {"polled", "closed"} <=> sock["C"] \in {"polled", "closed"}
    BY <1>0, <1>4
  <2>6. Answered(x)'
    BY <1>1, <2>1, <2>5, AnsweredKept
  <2> QED
    BY <2>4, <2>6
<1>8. Outcome'
  <2>1. Parsed(reply)' = Parsed(reply)
    BY <1>1 DEF Parsed
  <2>2. \A x \in Ends : (Ended(x)' => Ended(x)) /\ (sock[x] = "closed" => sock'[x] = "closed")
    BY <1>1, <1>4 DEF Ended
  <2>3. woken' => sock'["C"] = "closed"
    BY <1>0, <1>1, <1>2, <1>4, <2>2 DEF Outcome
  <2>4. \A x \in fin' : sock'[Peer(x)] = "closed"
    <3> TAKE x \in fin'
    <3>1. CASE x \in fin
      <4>1. sock[Peer(x)] = "closed" /\ Peer(x) \in Ends
        BY <1>2, <3>1 DEF Outcome, Peer, Ends
      <4> QED
        BY <2>2, <4>1
    <3>2. CASE x \notin fin
      <4>1. sock[e] = "polled" /\ x = Peer(e)
        BY <1>1, <3>2
      <4> QED
        BY <1>0, <1>4, <4>1
    <3> QED
      BY <3>1, <3>2
  <2>5. \A x \in fin' : Peer(x)' = Peer(x)
    BY DEF Peer
  <2> QED
    BY <1>0, <1>1, <1>2, <2>1, <2>2, <2>3, <2>4, <2>5 DEF Outcome
<1> QED
  BY <1>5, <1>6, <1>7, <1>8 DEF IpInv

LEMMA OnTimeoutKeeps ==
  ASSUME IpInv, NEW e \in Ends, OnTimeout(e)
  PROVE  IpInv'
<1>0. "C" \in Ends /\ "S" \in Ends
  BY DEF Ends
<1>1. /\ e \in timer /\ timer' = timer \ {e} /\ closeReq' = [closeReq EXCEPT ![e] = sock[e] # "closed"]
      /\ timedOut' = IF sock[e] = "polled" /\ ~closeReq[e] THEN timedOut \cup {e} ELSE timedOut
      /\ sock' = sock /\ stream' = stream /\ fin' = fin /\ list' = list /\ total' = total /\ got' = got
      /\ connections' = connections /\ result' = result /\ woken' = woken /\ hung' = hung /\ reply' = reply
      /\ sent' = sent
  BY DEF OnTimeout
<1>2. IpTypes /\ Idle /\ Outcome
  BY DEF IpInv
<1>3. closeReq \in [Ends -> BOOLEAN] /\ timer \subseteq Ends
  BY <1>2 DEF IpTypes
<1>4. (closeReq'[e] <=> sock[e] # "closed") /\ \A x \in Ends : x # e => closeReq'[x] = closeReq[x]
  BY <1>1, <1>3
<1>5. IpTypes'
  <2>1. closeReq' \in [Ends -> BOOLEAN] /\ timer' \subseteq Ends /\ timedOut' \subseteq Ends
    BY <1>1, <1>2 DEF IpTypes
  <2> QED
    BY <1>1, <1>2, <2>1 DEF IpTypes
<1>6. Idle'
  BY <1>1, <1>2, <1>4 DEF Idle
<1>7. ASSUME NEW x \in Ends PROVE Wire(x)' /\ Answered(x)'
  <2>1. Wire(x) /\ Answered(x)
    BY DEF IpInv
  <2>2. sock'[x] = "polled" /\ ~closeReq'[x] => (sock[x] = "polled" /\ ~closeReq[x]) \/ list[x] = <<>>
    BY <1>1, <1>4
  <2>3. Wire(x)'
    BY <1>1, <2>1, <2>2, WireKept
  <2>4. Answered(x)'
    BY <1>1, <2>1, AnsweredKept
  <2> QED
    BY <2>3, <2>4
<1>8. Outcome'
  <2>1. Parsed(reply)' = Parsed(reply)
    BY <1>1 DEF Parsed
  <2>2. timedOut' = {} => timedOut = {} /\ ~(sock[e] = "polled" /\ ~closeReq[e])
    BY <1>1
  <2>3. timedOut' = {} => \A x \in Ends : Ended(x)' => Ended(x)
    BY <1>1, <1>4, <2>2 DEF Ended
  <2>4. \A x \in fin : Peer(x)' = Peer(x)
    BY DEF Peer
  <2> QED
    BY <1>0, <1>1, <1>2, <2>1, <2>2, <2>3, <2>4 DEF Outcome
<1> QED
  BY <1>5, <1>6, <1>7, <1>8 DEF IpInv

LEMMA HangKeeps ==
  ASSUME IpInv, (\E e \in Ends : Hang(e)) \/ UNCHANGED vars
  PROVE  IpInv'
<1>1. /\ hung' \subseteq Ends
      /\ sock' = sock /\ stream' = stream /\ fin' = fin /\ list' = list /\ total' = total /\ got' = got
      /\ connections' = connections /\ result' = result /\ woken' = woken /\ reply' = reply /\ sent' = sent
      /\ closeReq' = closeReq /\ timer' = timer /\ timedOut' = timedOut
  <2>1. hung \subseteq Ends
    BY DEF IpInv, IpTypes
  <2> QED
    BY <2>1 DEF Hang, vars
<1>2. IpTypes /\ Idle /\ Outcome
  BY DEF IpInv
<1>3. IpTypes'
  BY <1>1, <1>2 DEF IpTypes
<1>4. Idle'
  BY <1>1, <1>2 DEF Idle
<1>5. ASSUME NEW x \in Ends PROVE Wire(x)' /\ Answered(x)'
  <2>1. Wire(x) /\ Answered(x)
    BY DEF IpInv
  <2>2. Wire(x)'
    BY <1>1, <2>1, WireKept
  <2>3. Answered(x)'
    BY <1>1, <2>1, AnsweredKept
  <2> QED
    BY <2>2, <2>3
<1>6. Outcome'
  <2>1. Parsed(reply)' = Parsed(reply)
    BY <1>1 DEF Parsed
  <2> QED
    BY <1>1, <1>2, <2>1 DEF Outcome, Ended, Peer
<1> QED
  BY <1>3, <1>4, <1>5, <1>6 DEF IpInv

LEMMA PacketsAssociative ==
  ASSUME NEW x \in Seq(Packets), NEW y \in Seq(Packets), NEW z \in Seq(Packets)
  PROVE  (x \o y) \o z = x \o (y \o z)
BY ConcatAssociative, SMTT(20)

(* What is sent later comes after what was sent before. *)
LEMMA SentMore ==
  ASSUME NEW S, NEW s \in Seq(S), NEW t \in Seq(S), NEW n \in 0..Len(s)
  PROVE  LET u == s \o t
         IN /\ u \in Seq(S) /\ Len(s) <= Len(u)
            /\ SubSeq(u, 1, n) = SubSeq(s, 1, n)
            /\ SubSeq(u, n + 1, Len(u)) = SubSeq(s, n + 1, Len(s)) \o t
            /\ n < Len(s) => u[n + 1] = s[n + 1]
<1> DEFINE N == Len(s)
           M == Len(t)
           u == s \o t
           a == SubSeq(u, 1, n)
           b == SubSeq(s, 1, n)
           c == SubSeq(u, n + 1, N + M)
           d == SubSeq(s, n + 1, N)
           f == d \o t
<1>1. N \in Nat /\ M \in Nat /\ n \in Nat /\ n <= N
  OBVIOUS
<1>2. u \in Seq(S) /\ Len(u) = N + M /\ \A i \in 1..(N + M) : u[i] = IF i <= N THEN s[i] ELSE t[i - N]
  BY ConcatProperties
<1>3. b \in Seq(S) /\ Len(b) = n /\ \A i \in 1..n : b[i] = s[i]
  BY <1>1
<1>4. d \in Seq(S) /\ Len(d) = N - n /\ \A i \in 1..(N - n) : d[i] = s[n + i]
  <2>1. SubSeq(s, n + 1, Len(s)) \in Seq(S) /\ Len(SubSeq(s, n + 1, Len(s))) = Len(s) - n
        /\ \A i \in 1..(Len(s) - n) : SubSeq(s, n + 1, Len(s))[i] = s[n + i]
    BY SplitSeq
  <2> QED
    BY <2>1
<1> HIDE DEF u, b, d
<1>5. a \in Seq(S) /\ Len(a) = n /\ \A i \in 1..n : a[i] = u[i]
  BY <1>1, <1>2
<1>6. c \in Seq(S) /\ Len(c) = N + M - n /\ \A i \in 1..(N + M - n) : c[i] = u[n + i]
  <2>1. n \in 0..Len(u)
    BY <1>1, <1>2
  <2>2. SubSeq(u, n + 1, Len(u)) \in Seq(S) /\ Len(SubSeq(u, n + 1, Len(u))) = Len(u) - n
        /\ \A i \in 1..(Len(u) - n) : SubSeq(u, n + 1, Len(u))[i] = u[n + i]
    BY <1>2, <2>1, SplitSeq
  <2> QED
    BY <1>2, <2>2
<1>7. f \in Seq(S) /\ Len(f) = N + M - n /\ \A i \in 1..(N + M - n) : f[i] = IF i <= N - n THEN d[i] ELSE t[i - (N - n)]
  <2>1. f \in Seq(S) /\ Len(f) = Len(d) + M /\ \A i \in 1..(Len(d) + M) : f[i] = IF i <= Len(d) THEN d[i] ELSE t[i - Len(d)]
    BY <1>4, ConcatProperties
  <2>2. Len(d) + M = N + M - n
    BY <1>1, <1>4
  <2> QED
    BY <1>4, <2>1, <2>2
<1> HIDE DEF a, c, f, N, M
<1>8. a = b
  <2>1. \A i \in 1..n : a[i] = b[i]
    <3> TAKE i \in 1..n
    <3>1. i \in 1..(N + M) /\ i <= N
      BY <1>1
    <3> QED
      BY <1>2, <1>3, <1>5, <3>1
  <2> QED
    BY <1>3, <1>5, <2>1, SeqEqual
<1>9. c = f
  <2>1. \A i \in 1..(N + M - n) : c[i] = f[i]
    <3> TAKE i \in 1..(N + M - n)
    <3>1. n + i \in 1..(N + M) /\ (n + i <= N <=> i <= N - n) /\ (i <= N - n => i \in 1..(N - n)) /\ (n + i) - N = i - (N - n)
      BY <1>1
    <3>2. c[i] = IF i <= N - n THEN s[n + i] ELSE t[i - (N - n)]
      BY <1>2, <1>6, <3>1
    <3>3. f[i] = IF i <= N - n THEN s[n + i] ELSE t[i - (N - n)]
      BY <1>4, <1>7, <3>1
    <3> QED
      BY <3>2, <3>3
  <2> QED
    BY <1>6, <1>7, <2>1, SeqEqual
<1>10. n < N => u[n + 1] = s[n + 1]
  <2>1. n < N => n + 1 \in 1..(N + M) /\ n + 1 <= N
    BY <1>1
  <2> QED
    BY <1>2, <2>1
<1>11. N <= N + M
  BY <1>1
<1> QED
  BY <1>2, <1>8, <1>9, <1>10, <1>11 DEF a, b, c, d, f, u, N, M

(* What is on its way to an end grows by what the other one answers. *)
LEMMA WireGrows ==
  ASSUME IpInv, NEW e \in Ends, NEW ans \in Seq(Packets), got'[e] = got[e], list'[e] = list[e], total'[e] = total[e],
         sock' = sock, closeReq'[e] = closeReq[e], sent'[Peer(e)] = sent[Peer(e)] \o ans,
         stream'[e] = IF sock[e] = "closed" THEN stream[e] ELSE stream[e] \o Framed(ans)
  PROVE  Wire(e)'
<1> DEFINE p == Peer(e)
           n == Len(got[e])
           q == sent[p]
           N == Len(q)
           u == q \o ans
           d == SubSeq(q, n + 1, N)
           fh == Flat(list[e])
           w == stream[e]
<1>1. p \in Ends /\ Peer(e)' = Peer(e)
  BY DEF Ends, Peer
<1>2. q \in Seq(Packets) /\ n \in Nat /\ N \in Nat /\ fh \in Seq(Nat) /\ w \in Seq(Nat)
  <2>1. q \in Seq(Packets) /\ got[e] \in Seq(Packets) /\ list[e] \in Seq(Chunks) /\ w \in Seq(Nat)
    BY <1>1 DEF IpInv, IpTypes
  <2>2. fh \in Seq(Nat)
    BY <2>1, FlatConcat
  <2>3. n \in Nat /\ N \in Nat
    BY <2>1
  <2> QED
    BY <2>1, <2>2, <2>3
<1>3. Wire(e)
  BY DEF IpInv
<1>4. /\ n <= N /\ got[e] = SubSeq(q, 1, n) /\ total[e] = Len(fh)
      /\ sock[e] # "closed" => fh \o w = Framed(d)
      /\ sock[e] = "polled" /\ ~closeReq[e] /\ total[e] > 0 => n < N /\ total[e] < Len(Frame[q[n + 1]])
  BY <1>3 DEF Wire
<1>5. sent'[p] = u
  OBVIOUS
<1> HIDE DEF p, n, q, N, d, fh, w
<1>6. /\ N <= Len(u) /\ u \in Seq(Packets) /\ SubSeq(u, 1, n) = SubSeq(q, 1, n)
      /\ SubSeq(u, n + 1, Len(u)) = d \o ans
      /\ n < N => u[n + 1] = q[n + 1]
  <2>1. n \in 0..Len(q)
    BY <1>2, <1>4 DEF N
  <2>2. LET v == q \o ans
        IN /\ v \in Seq(Packets) /\ Len(q) <= Len(v)
           /\ SubSeq(v, 1, n) = SubSeq(q, 1, n)
           /\ SubSeq(v, n + 1, Len(v)) = SubSeq(q, n + 1, Len(q)) \o ans
           /\ n < Len(q) => v[n + 1] = q[n + 1]
    BY <1>2, <2>1, SentMore
  <2> QED
    BY <2>2 DEF N, d
<1>7. d \in Seq(Packets)
  <2>1. n \in 0..Len(q)
    BY <1>2, <1>4 DEF N
  <2>2. SubSeq(q, n + 1, Len(q)) \in Seq(Packets)
    BY <1>2, <2>1, SplitSeq
  <2> QED
    BY <2>2 DEF N, d
<1> HIDE DEF u
<1>8. sock[e] # "closed" => fh \o stream'[e] = Framed(SubSeq(u, n + 1, Len(u)))
  <2> SUFFICES ASSUME sock[e] # "closed" PROVE fh \o stream'[e] = Framed(d \o ans)
    BY <1>6
  <2>1. Framed(ans) \in Seq(Nat) /\ Framed(d \o ans) = Framed(d) \o Framed(ans)
    BY <1>7, FramedConcat
  <2>2. (fh \o w) \o Framed(ans) = fh \o (w \o Framed(ans))
    BY <1>2, <2>1, CellsAssociative
  <2>3. stream'[e] = w \o Framed(ans)
    BY DEF w
  <2> QED
    BY <1>4, <2>1, <2>2, <2>3
<1>9. n <= Len(u) /\ (n < N => n < Len(u))
  <2>1. Len(u) \in Nat
    BY <1>6
  <2> QED
    BY <1>2, <1>4, <1>6, <2>1
<1> QED
  BY <1>1, <1>4, <1>5, <1>6, <1>8, <1>9 DEF Wire, p, n, fh

(* What is read keeps what is known of the wire: the packets are got in order *)
(* and answered, and the end that closes has got its third packet.            *)
LEMMA ReceiveKeeps ==
  ASSUME IpInv, NEW e \in Ends, NEW k \in 1..ChunkMax, Receive(e, k)
  PROVE  IpInv'
<1>1. PICK m \in Nat, c \in BOOLEAN, left \in Seq(Chunks), ans \in Seq(Packets) : Received(e, m, c, left, ans)
  BY ReceiveStep
<1> DEFINE p == Peer(e)
           n == Len(got[e])
           to == n + m
           q == sent[p]
           N == Len(q)
           third == q[3]
           closes == n < 3 /\ to >= 3 /\ third.type = PktNormal
           fl == Flat(left)
           head == SubSeq(q, 1, to)
<1>2. /\ sock[e] = "polled" /\ ~closeReq[e]
      /\ sock' = sock /\ fin' = fin /\ timer' = timer /\ connections' = connections /\ woken' = woken
      /\ hung' = hung /\ reply' = reply /\ timedOut' = timedOut
  BY DEF Receive
<1>3. IpTypes /\ Idle /\ Outcome /\ \A x \in Ends : Wire(x) /\ Answered(x)
  BY DEF IpInv
<1>4. p \in Ends /\ p # e /\ Peer(p) = e /\ Peer(e)' = p /\ Peer(p)' = e /\ \A x \in Ends : x = e \/ x = p
  BY DEF Ends, Peer
<1>5. /\ to <= N
      /\ list' = [list EXCEPT ![e] = left]
      /\ total' = [total EXCEPT ![e] = Len(fl)]
      /\ got' = [got EXCEPT ![e] = head]
      /\ closeReq' = [closeReq EXCEPT ![e] = c \/ closes]
      /\ stream' \in [Ends -> Seq(Nat)]
      /\ fl \o stream'[e] = Framed(SubSeq(q, to + 1, N))
      /\ stream'[p] = IF sock[p] = "closed" THEN stream[p] ELSE stream[p] \o Framed(ans)
      /\ sent' = [sent EXCEPT ![e] = sent[e] \o ans]
      /\ Answers(e, to) = Answers(e, n) \o ans
      /\ result' = IF e = "C" /\ closes /\ Parsed(third).success THEN Parsed(third) ELSE result
      /\ c => to < N /\ Refused(q[to + 1])
      /\ ~c /\ Len(fl) > 0 => to < N /\ Len(fl) < Len(Frame[q[to + 1]])
  BY <1>1 DEF Received
<1>6. /\ sock \in [Ends -> {"none", "polled", "closed", "failed"}] /\ closeReq \in [Ends -> BOOLEAN]
      /\ list \in [Ends -> Seq(Chunks)] /\ total \in [Ends -> Int]
      /\ got \in [Ends -> Seq(Packets)] /\ sent \in [Ends -> Seq(Packets)]
  BY <1>3 DEF IpTypes
<1>7. q \in Seq(Packets) /\ sent[e] \in Seq(Packets) /\ N \in Nat /\ n \in Nat /\ to \in Nat /\ fl \in Seq(Nat) /\ Len(fl) \in Nat
  <2>1. q \in Seq(Packets) /\ sent[e] \in Seq(Packets) /\ got[e] \in Seq(Packets)
    BY <1>4, <1>6
  <2>2. fl \in Seq(Nat) /\ Len(fl) \in Nat
    BY FlatConcat
  <2> QED
    BY <2>1, <2>2
<1>8. head \in Seq(Packets) /\ Len(head) = to
  <2> HIDE DEF q, to
  <2>1. to \in 0..Len(q)
    BY <1>5, <1>7
  <2> QED
    BY <1>7, <2>1, SplitSeq
<1> HIDE DEF fl, head
<1>9. /\ list'[e] = left /\ total'[e] = Len(fl) /\ got'[e] = head /\ closeReq'[e] = (c \/ closes) /\ sent'[e] = sent[e] \o ans
      /\ list'[p] = list[p] /\ total'[p] = total[p] /\ got'[p] = got[p] /\ closeReq'[p] = closeReq[p] /\ sent'[p] = q
  <2> HIDE DEF closes, p
  <2>1. /\ list'[e] = left /\ total'[e] = Len(fl) /\ got'[e] = head /\ sent'[e] = sent[e] \o ans
        /\ list'[p] = list[p] /\ total'[p] = total[p] /\ got'[p] = got[p] /\ closeReq'[p] = closeReq[p] /\ sent'[p] = q
    BY <1>4, <1>5, <1>6
  <2>2. closeReq'[e] = (c \/ closes)
    BY <1>5, <1>6
  <2> QED
    BY <2>1, <2>2
<1>10. IpTypes'
  <2> HIDE DEF closes
  <2>1. list' \in [Ends -> Seq(Chunks)]
    BY <1>5, <1>6
  <2>2. total' \in [Ends -> Int]
    BY <1>5, <1>6, <1>7
  <2>3. got' \in [Ends -> Seq(Packets)]
    BY <1>5, <1>6, <1>8
  <2>4. closeReq' \in [Ends -> BOOLEAN]
    <3>1. (c \/ closes) \in BOOLEAN
      OBVIOUS
    <3> QED
      BY <1>5, <1>6, <3>1
  <2>5. sent' \in [Ends -> Seq(Packets)]
    <3>1. sent[e] \o ans \in Seq(Packets)
      BY <1>7, ConcatProperties
    <3> QED
      BY <1>5, <1>6, <3>1
  <2> QED
    BY <1>2, <1>3, <1>5, <2>1, <2>2, <2>3, <2>4, <2>5 DEF IpTypes
<1>11. Idle'
  <2>1. \A x \in Ends : sock'[x] = "none" => list'[x] = <<>> /\ got'[x] = <<>> /\ ~closeReq'[x] /\ x \notin timer'
    <3> TAKE x \in Ends
    <3>1. CASE x = e
      BY <1>2, <3>1
    <3>2. CASE x = p
      BY <1>2, <1>3, <1>9, <3>2 DEF Idle
    <3> QED
      BY <1>4, <3>1, <3>2
  <2> QED
    BY <1>2, <1>3, <2>1 DEF Idle
<1>12. Wire(e)'
  <2>1. sock'[e] = "polled" /\ ~closeReq'[e] /\ total'[e] > 0 => to < N /\ total'[e] < Len(Frame[q[to + 1]])
    BY <1>5, <1>9
  <2>2. Len(got'[e]) = to /\ sent'[p] = q /\ total'[e] = Len(Flat(list'[e])) /\ list'[e] = left
    BY <1>8, <1>9 DEF fl
  <2>3. Flat(list'[e]) \o stream'[e] = Framed(SubSeq(q, to + 1, N))
    BY <1>5, <2>2 DEF fl
  <2>4. got'[e] = SubSeq(q, 1, to)
    BY <1>9 DEF head
  <2> HIDE DEF p, q, to
  <2> QED
    BY <1>4, <1>5, <2>1, <2>2, <2>3, <2>4 DEF Wire
<1>13. Wire(p)'
  <2>1. sent'[Peer(p)] = sent[Peer(p)] \o ans
    BY <1>4, <1>9
  <2> QED
    BY <1>2, <1>4, <1>5, <1>9, <2>1, WireGrows
<1>14. Answered(e)'
  <2> DEFINE o == Opening(e)
             a == Answers(e, n)
  <2>1. sent[e] = o \o a
    BY <1>3 DEF Answered
  <2>2. o \in Seq(Packets)
    <3>1. <<Kex(1)>> \in Seq(Packets) /\ <<>> \in Seq(Packets)
      BY KexIsOwn
    <3> QED
      BY <3>1 DEF Opening
  <2>3. a \in Seq(Packets)
    <3>1. reply \in Packets
      BY <1>3 DEF IpTypes, Packets
    <3>2. Own \subseteq Packets
      BY DEF Own, Packets
    <3> QED
      BY <1>7, <3>1, <3>2, AnswersGrow
  <2>4. Answers(e, Len(got[e]))' = Answers(e, to)
    <3>1. Len(got'[e]) = to
      BY <1>8, <1>9
    <3> QED
      BY <1>2, <3>1 DEF Answers, Answer
  <2>5. Opening(e)' = o
    BY <1>2 DEF Opening
  <2> HIDE DEF o, a
  <2>6. (o \o a) \o ans = o \o (a \o ans)
    BY <2>2, <2>3, PacketsAssociative
  <2>7. sent'[e] = o \o Answers(e, to)
    BY <1>5, <1>9, <2>1, <2>6 DEF a
  <2> DEFINE z == Answers(e, to)
  <2> HIDE DEF z
  <2>8. sent'[e] = o \o z /\ Answers(e, Len(got[e]))' = z /\ Opening(e)' = o
    BY ONLY <2>4, <2>5, <2>7 DEF z
  <2> HIDE DEF n, to, p, q, N
  <2> QED
    BY ONLY <2>8 DEF Answered
<1>15. Answered(p)'
  BY <1>2, <1>3, <1>4, <1>9, AnsweredKept
<1>16. reply = IpReply \/ e = "S" => ~c
  <2> SUFFICES ASSUME reply = IpReply \/ e = "S", c PROVE FALSE
    OBVIOUS
  <2>0. to < N /\ to \in Nat /\ N \in Nat
    BY <1>5, <1>7
  <2>1. to + 1 \in 1..Len(q)
    <3> HIDE DEF to, q
    <3> QED
      BY ONLY <2>0
  <2>2. p = "C" \/ reply = IpReply
    BY DEF Peer
  <2> DEFINE i == to + 1
  <2> HIDE DEF p, i
  <2>3. i \in 1..Len(sent[p])
    BY <2>1 DEF i
  <2>4. ~Refused(sent[p][i])
    BY <1>4, <2>2, <2>3, SentOwn
  <2> QED
    BY <1>5, <2>4 DEF i
<1>17. closes => n < 3 /\ to >= 3
  OBVIOUS
<1>18. e = "C" /\ to >= 3 => third = reply
  <2>1. e = "C" => p = "S"
    BY DEF Peer
  <2>2. to >= 3 => N >= 3
    BY <1>5, <1>7
  <2> QED
    BY <2>1, <2>2, ServerSent
<1>19. e = "C" => p = "S" /\ sock'["S"] = sock["S"] /\ closeReq'["S"] = closeReq["S"] /\ got'["S"] = got["S"]
  BY <1>2, <1>9 DEF Peer
<1>20. e = "S" => p = "C" /\ sock'["C"] = sock["C"] /\ closeReq'["C"] = closeReq["C"] /\ got'["C"] = got["C"]
  BY <1>2, <1>9 DEF Peer
<1>21. e = "C" \/ e = "S"
  BY DEF Ends
<1>22. Parsed(reply)' = Parsed(reply)
  BY <1>2 DEF Parsed
<1>23. result'.success => result' = Parsed(reply)
  <2>1. CASE e = "C" /\ closes /\ Parsed(third).success
    BY <1>5, <1>17, <1>18, <2>1
  <2>2. CASE ~(e = "C" /\ closes /\ Parsed(third).success)
    <3>1. result' = result
      BY <1>5, <2>2
    <3> QED
      BY <1>3, <3>1 DEF Outcome
  <2> QED
    BY <2>1, <2>2
<1>24. ASSUME reply = IpReply, Len(got'["C"]) >= 3 PROVE result'.success
  <2>1. CASE e = "S"
    <3>1. result' = result
      BY <1>5, <2>1
    <3> QED
      BY <1>3, <1>20, <1>24, <2>1, <3>1 DEF Outcome
  <2>2. CASE e = "C" /\ n >= 3
    <3>1. ~closes
      BY <1>7, <2>2
    <3>2. result' = result
      BY <1>5, <3>1
    <3> QED
      BY <1>3, <1>24, <2>2, <3>2 DEF Outcome
  <2>3. CASE e = "C" /\ ~(n >= 3)
    <3>1. to >= 3 /\ n < 3
      BY <1>7, <1>8, <1>9, <1>24, <2>3
    <3>2. third = IpReply
      BY <1>18, <1>24, <2>3, <3>1
    <3>3. closes /\ Parsed(third).success
      BY <3>1, <3>2, ReplyData, ReplyIsRead
    <3>4. result' = Parsed(third)
      BY <1>5, <2>3, <3>3
    <3> QED
      BY <3>3, <3>4
  <2> QED
    BY <1>21, <2>1, <2>2, <2>3
<1>25. ASSUME reply = IpReply, timedOut = {}, Ended("C")' PROVE Len(got'["C"]) >= 3
  <2>1. CASE e = "C"
    <3>1. closeReq'["C"]
      BY <1>2, <1>25, <2>1 DEF Ended
    <3>2. closes
      BY <1>9, <1>16, <1>25, <2>1, <3>1
    <3> QED
      BY <1>8, <1>9, <1>17, <2>1, <3>2
  <2>2. CASE e = "S"
    <3>1. Ended("C")
      BY <1>20, <1>25, <2>2 DEF Ended
    <3> QED
      BY <1>3, <1>20, <1>25, <2>2, <3>1 DEF Outcome
  <2> QED
    BY <1>21, <2>1, <2>2
<1>26. ASSUME reply = IpReply, timedOut = {}, Ended("S")' PROVE Len(got'["S"]) >= 3 \/ sock["C"] = "closed"
  <2>1. CASE e = "S"
    <3>1. closeReq'["S"]
      BY <1>2, <1>26, <2>1 DEF Ended
    <3>2. closes
      BY <1>9, <1>16, <1>26, <2>1, <3>1
    <3> QED
      BY <1>8, <1>9, <1>17, <2>1, <3>2
  <2>2. CASE e = "C"
    <3>1. Ended("S")
      BY <1>19, <1>26, <2>2 DEF Ended
    <3> QED
      BY <1>3, <1>19, <1>26, <2>2, <3>1 DEF Outcome
  <2> QED
    BY <1>21, <2>1, <2>2
<1>27. Outcome'
  <2>1. woken' => sock'["C"] = "closed"
    BY <1>2, <1>3 DEF Outcome
  <2>2. \A x \in fin' : sock'[Peer(x)'] = "closed"
    <3>1. \A x \in fin : sock[Peer(x)] = "closed"
      BY <1>3 DEF Outcome
    <3> QED
      BY <1>2, <3>1 DEF Peer
  <2> HIDE DEF closes, third
  <2> QED
    BY <1>2, <1>22, <1>23, <1>24, <1>25, <1>26, <2>1, <2>2 DEF Outcome
<1>28. \A x \in Ends : Wire(x)' /\ Answered(x)'
  BY <1>4, <1>12, <1>13, <1>14, <1>15
<1> QED
  BY <1>10, <1>11, <1>27, <1>28 DEF IpInv

(* Whatever is sent, however it is cut, and whoever stops, closes or is timed *)
(* out: what an end has got, what waits in its list and what is on its way    *)
(* are together what the other end has sent; an end has sent the answers to   *)
(* what it has got, and closes with its third packet or after the other one.  *)
THEOREM IpInvariance == Spec => []IpInv
<1>1. ASSUME IpInv, [Next]_vars PROVE IpInv'
  <2>1. CASE Connect
    BY <1>1, <2>1, ConnectKeeps
  <2>2. CASE OnAccept
    BY <1>1, <2>2, OnAcceptKeeps
  <2>3. ASSUME NEW e \in Ends, Step(e) PROVE IpInv'
    <3>1. CASE \E k \in 1..ChunkMax : Receive(e, k)
      BY <1>1, <3>1, ReceiveKeeps
    <3>2. CASE ReceiveEnd(e)
      BY <1>1, <3>2, ReceiveEndKeeps
    <3>3. CASE ExecClose(e)
      BY <1>1, <3>3, ExecCloseKeeps
    <3>4. CASE OnTimeout(e)
      BY <1>1, <3>4, OnTimeoutKeeps
    <3> QED
      BY <2>3, <3>1, <3>2, <3>3, <3>4 DEF Step
  <2>4. CASE (\E e \in Ends : Hang(e)) \/ UNCHANGED vars
    BY <1>1, <2>4, HangKeeps
  <2> QED
    BY <1>1, <2>1, <2>2, <2>3, <2>4 DEF Next
<1> QED
  BY IpInit, <1>1, PTL DEF Spec

(* The types of the variables; every chunk that is kept is a sound buffer     *)
(* that is not used up (blob.h dbg_self_test()).                              *)
THEOREM LookupTypesCorrect == Spec => []TypeOK
<1>1. IpInv => TypeOK
  <2> SUFFICES ASSUME IpInv PROVE TypeOK
    OBVIOUS
  <2>1. IpTypes
    BY DEF IpInv
  <2>2. ASSUME NEW e \in Ends, NEW i \in DOMAIN list[e] PROVE SelfTest(list[e][i]) /\ list[e][i].size > 0
    <3>1. list[e] \in Seq(Chunks)
      BY <2>1 DEF IpTypes
    <3>2. list[e][i] \in Chunks
      BY <3>1, ElementOfSeq, LenProperties
    <3> QED
      BY <3>2, ChunkCells DEF Sound
  <2> QED
    BY <2>1, <2>2 DEF IpTypes, TypeOK
<1> QED
  BY IpInvariance, <1>1, PTL

(* However TCP cuts the stream, the packets come out whole and in order, and  *)
(* what waits in the list is less than the next one, as the total length says *)
(* (opt_tcp.h read_from_reassamble_list(), opt_tcp.cpp on_receive()).         *)
THEOREM WholePacketsArrive == Spec => []WholePackets
<1>1. IpInv => WholePackets
  <2> SUFFICES ASSUME IpInv, NEW e \in Ends
               PROVE  /\ IsPrefix(got[e], sent[Peer(e)])
                      /\ total[e] = Len(Flat(list[e]))
                      /\ sock[e] = "polled" /\ ~closeReq[e] /\ total[e] > 0 =>
                           /\ Len(got[e]) + 1 <= Len(sent[Peer(e)])
                           /\ total[e] < Len(Frame[sent[Peer(e)][Len(got[e]) + 1]])
    BY DEF WholePackets
  <2> DEFINE g == got[e]
             q == sent[Peer(e)]
  <2>1. /\ Len(g) <= Len(q) /\ g = SubSeq(q, 1, Len(g)) /\ total[e] = Len(Flat(list[e]))
        /\ sock[e] = "polled" /\ ~closeReq[e] /\ total[e] > 0 =>
             Len(g) < Len(q) /\ total[e] < Len(Frame[q[Len(g) + 1]])
    BY DEF IpInv, Wire
  <2>2. g \in Seq(Packets) /\ q \in Seq(Packets)
    BY DEF IpInv, IpTypes, Peer, Ends
  <2> HIDE DEF g, q
  <2>3. IsPrefix(g, q)
    <3>1. SubSeq(g, 1, Len(g)) = g
      BY <2>2
    <3> QED
      BY <2>1, <3>1 DEF IsPrefix
  <2>4. Len(g) < Len(q) => Len(g) + 1 <= Len(q)
    BY <2>2
  <2> QED
    BY <2>1, <2>3, <2>4 DEF g, q
<1> QED
  BY IpInvariance, <1>1, PTL

(* A client that is woken has its address, unless a timer came first, for     *)
(* whatever address and port a server packs; and a client that has a result   *)
(* was sent nothing but that, packed (ip_client.cpp on_packet(), ip_server.cpp *)
(* on_open(), blob.h add_record(), next_record()).                            *)
THEOREM AddressDoesArrive == Spec => []AddressArrives
<1>1. IpInv => AddressArrives
  <2> SUFFICES ASSUME IpInv PROVE AddressArrives
    OBVIOUS
  <2>1. Outcome /\ IpTypes
    BY DEF IpInv
  <2>2. ASSUME woken, reply = IpReply, timedOut = {} PROVE result.success
    <3>1. Ended("C")
      BY <2>1, <2>2 DEF Outcome, Ended
    <3> QED
      BY <2>1, <2>2, <3>1 DEF Outcome
  <2>3. ASSUME result.success
        PROVE  /\ Len(result.port) = 2
               /\ reply.data = Content(AddRecord(AddRecord(NullBlob, result.ip), result.port))
    <3>1. result = Parsed(reply)
      BY <2>1, <2>3 DEF Outcome
    <3>2. reply \in OtherReplies \cup {IpReply} /\ Parsed(reply).success
      BY <2>1, <2>3, <3>1 DEF IpTypes
    <3> QED
      BY <3>1, <3>2, ReadIsPacked
  <2> QED
    BY <2>2, <2>3 DEF AddressArrives
<1> QED
  BY IpInvariance, <1>1, PTL

-----------------------------------------------------------------------------
(* NatProbe *)

(* Nothing is asked and nothing is heard before the probe has started; only a *)
(* started probe times out.                                                   *)
PhaseInv ==
  /\ phase # "started" => natSock = "none" /\ ~natTimer /\ ~done /\ \A q \in Queries : addr[q] = Unresolved
  /\ phase = "started" => natSock # "none"
  /\ natSock \in {"none", "starting"} => foreign = <<>> /\ \A q \in Queries : ~results[q].done

(* What is large is a request of the client, with the address its server will *)
(* see; what comes from a server answers one.                                 *)
NetInv ==
  \A d \in net :
    /\ d.len > 100 => d.to \in Asked /\ d.from = Mapped[d.to]
    /\ d.to = Client /\ d.from \in Servers => d.len = ReplyLen /\ d.from \in Asked /\ d.says = Mapped[d.from]
    /\ d.to = Client => d.from \in Programs
    /\ d.to = Client /\ d.from = Out => \E s \in Asked \cap Servers : d.says = Mapped[s]

(* A server that has not answered has its request, or its answer, before it. *)
PendingInv ==
  \A q \in Queries : ~done /\ addr[q] \in Servers \ lost /\ results[q].code = "TIMEOUT" =>
    \/ natSock = "starting"
    \/ \E d \in net : (d.to = addr[q] /\ d.len > 100) \/ (d.to = Client /\ d.from = addr[q])

(* _wait_cnt is the number of queries that wait. *)
Waiting == {q \in Routed : ~results[q].done}
CountInv == waitCnt = Cardinality(Waiting)

(* The results that were handed out are the results. *)
HandedInv == handed # <<>> => done /\ handed = <<results, foreign>>

NatInv == NatTypeOK /\ PhaseInv /\ NetInv /\ MappingPerServer /\ PendingInv /\ CountInv /\ HandedInv

LEMMA NatInitHolds == ASSUME NatInit PROVE NatInv
<1>1. NatTypeOK
  <2>1. foreign \in Seq([remote : Programs, my : Says])
    BY DEF NatInit
  <2>2. addr \in Resolved /\ results \in [Queries -> [done : BOOLEAN, my : Says, code : {"RESOLVE", "TIMEOUT", "OK", "MALFORMED"}]]
    BY DEF NatInit, Resolved, Says
  <2> QED
    BY <2>1, <2>2 DEF NatInit, NatTypeOK
<1>2. PhaseInv /\ NetInv /\ HandedInv
  BY DEF NatInit, PhaseInv, NetInv, HandedInv
<1>3. MappingPerServer /\ PendingInv
  BY NatConstants DEF NatInit, MappingPerServer, PendingInv
<1>4. CountInv
  <2>1. Waiting = {}
    BY DEF NatInit, Waiting, Routed
  <2> QED
    BY <2>1, FS_EmptySet DEF NatInit, CountInv
<1> QED
  BY <1>1, <1>2, <1>3, <1>4 DEF NatInv

(* What Arrives() takes from the network and what it adds. *)
LEMMA ArrivalKeeps ==
  ASSUME NEW d \in net, NEW new, Arrives(d, new), extra \in Nat
  PROVE  net \ {d} \subseteq net' /\ net' \subseteq net \cup new /\ new \subseteq net' /\ extra' \in Nat
BY DEF Arrives

LEMMA StartKeeps ==
  ASSUME NatInv, Start
  PROVE  NatInv'
<1> USE DEF NatInv
<1>0. \A q \in Queries : addr[q] = Unresolved
  BY DEF Start, PhaseInv
<1>a. Routed = {} /\ Asked = {}
  BY <1>0 DEF Routed, Asked
<1>1. CASE phase' = "aborted"
  <2>1. UNCHANGED <<natSock, addr, results, waitCnt, natTimer, foreign, done, natWoken, handed, serving, up, net, extra, lost>>
    BY <1>1 DEF Start, serverVars
  <2>2. NatTypeOK' /\ PhaseInv'
    BY <1>1, <2>1 DEF Start, NatTypeOK, PhaseInv
  <2>3. NetInv' /\ MappingPerServer' /\ PendingInv' /\ CountInv' /\ HandedInv'
    BY <2>1 DEF NetInv, MappingPerServer, PendingInv, CountInv, Waiting, HandedInv, Asked, Routed
  <2> QED
    BY <2>2, <2>3
<1>2. CASE phase' = "started"
  <2>1. /\ UNCHANGED <<foreign, done, natWoken, handed, serving, up, net, extra, lost>>
        /\ natSock' = "starting" /\ natTimer' = TRUE /\ addr' \in Resolved
        /\ results' = [q \in Queries |->
             [done |-> FALSE, my |-> NoAddress, code |-> IF addr'[q] = Unresolved THEN "RESOLVE" ELSE "TIMEOUT"]]
        /\ waitCnt' = Cardinality(Routed')
    BY <1>2 DEF Start, serverVars, Routed
  <2>2. IsFiniteSet(Routed')
    BY NatConstants, FS_Subset DEF Routed
  <2>3. Cardinality(Routed') \in Nat
    BY <2>2, FS_CardinalityType
  <2>4. NatTypeOK'
    BY <1>2, <2>1, <2>3 DEF NatTypeOK, Says
  <2>5. foreign = <<>> /\ natSock = "none" /\ ~done
    BY DEF Start, PhaseInv
  <2>6. PhaseInv' /\ HandedInv'
    BY <1>2, <2>1, <2>5 DEF PhaseInv, HandedInv
  <2>7. NetInv'
    BY <1>a, <2>1 DEF NetInv
  <2>8. MappingPerServer' /\ PendingInv'
    BY <2>1, <2>5 DEF MappingPerServer, PendingInv
  <2>9. Waiting' = Routed'
    BY <2>1 DEF Waiting, Routed
  <2> QED
    BY <2>1, <2>4, <2>6, <2>7, <2>8, <2>9 DEF CountInv
<1> QED
  BY <1>1, <1>2 DEF Start

LEMMA OnStartKeeps ==
  ASSUME NatInv, OnStart
  PROVE  NatInv'
<1> USE DEF NatInv
<1>1. /\ UNCHANGED <<phase, addr, results, foreign, waitCnt, natTimer, done, natWoken, handed, serving, up, extra, lost>>
      /\ natSock = "starting" /\ natSock' = "polled" /\ net' = net \cup Requests
  BY DEF OnStart, serverVars
<1>2. Routed' = Routed /\ Asked' = Asked /\ Waiting' = Waiting
  BY <1>1 DEF Routed, Asked, Waiting
<1>3. \A q \in Routed : addr[q] \in Servers \cup Others /\ q \in Queries
  BY DEF NatTypeOK, Resolved, Routed
<1>4. \A d \in Requests : \E q \in Routed :
        d = [from |-> Mapped[addr[q]], to |-> addr[q], len |-> RequestLen, says |-> Malformed]
  BY DEF Requests, Datagram
<1>5. NatTypeOK'
  BY <1>1, <1>3, <1>4, NatConstants DEF NatTypeOK, Programs, Says
<1>6. PhaseInv' /\ HandedInv'
  BY <1>1 DEF PhaseInv, HandedInv
<1>7. NetInv'
  BY <1>1, <1>2, <1>3, <1>4, NatConstants DEF NetInv, Asked
<1>8. PendingInv'
  <2> SUFFICES ASSUME NEW q \in Queries, addr[q] \in Servers
               PROVE  \E d \in net' : d.to = addr[q] /\ d.len > 100
    BY <1>1 DEF PendingInv
  <2>1. q \in Routed
    BY NatConstants DEF Routed
  <2>2. Datagram(Mapped[addr[q]], addr[q], RequestLen, Malformed) \in net'
    BY <1>1, <2>1 DEF Requests
  <2> QED
    BY <2>2, NatConstants DEF Datagram
<1>9. MappingPerServer' /\ CountInv'
  BY <1>1, <1>2 DEF MappingPerServer, CountInv
<1> QED
  BY <1>5, <1>6, <1>7, <1>8, <1>9

LEMMA EndKeeps ==
  ASSUME NatInv, NatOnTimeout \/ GetResults
  PROVE  NatInv'
<1> USE DEF NatInv
<1>1. /\ UNCHANGED <<phase, natSock, addr, results, foreign, waitCnt, serving, up, net, extra, lost>>
      /\ done' \in BOOLEAN /\ natTimer' \in BOOLEAN /\ natWoken' \in BOOLEAN
      /\ done => done'
      /\ natTimer' => natTimer
      /\ done' => done \/ natTimer
      /\ handed' = handed \/ handed' = <<>> \/ (done /\ handed' = <<results, foreign>>)
  <2>1. CASE NatOnTimeout
    BY <2>1 DEF NatOnTimeout, serverVars
  <2>2. CASE GetResults
    BY <2>2 DEF GetResults, serverVars, NatTypeOK
  <2> QED
    BY <2>1, <2>2
<1>2. NatTypeOK' /\ HandedInv' /\ PhaseInv'
  BY <1>1 DEF NatTypeOK, HandedInv, PhaseInv
<1>3. Routed' = Routed /\ Asked' = Asked /\ Waiting' = Waiting
  BY <1>1 DEF Routed, Asked, Waiting
<1> QED
  BY <1>1, <1>2, <1>3 DEF NetInv, MappingPerServer, PendingInv, CountInv

(* What a datagram to the client may be, and what it leaves of the others. *)
LEMMA ClientDatagram ==
  ASSUME NatInv, NEW d \in net, ClientReceive(d)
  PROVE  /\ UNCHANGED <<phase, addr, natTimer, done, natWoken, handed, serving, up, lost>>
         /\ Routed' = Routed /\ Asked' = Asked
         /\ natSock = "polled" /\ natSock' \in {"polled", "closed"} /\ phase = "started"
         /\ net \ {d} \subseteq net' /\ net' \subseteq net /\ extra' \in Nat
         /\ d.to = Client /\ d.from \in Programs /\ d.says \in Says /\ Read(d.says) \in Says
<1>1. /\ UNCHANGED <<phase, addr, natTimer, done, natWoken, handed, serving, up, lost>>
      /\ natSock = "polled" /\ natSock' \in {"polled", "closed"} /\ d.to = Client /\ Arrives(d, {})
  BY DEF ClientReceive, serverVars
<1>2. extra \in Nat /\ d.from \in Programs /\ d.says \in Says
  BY <1>1 DEF NatInv, NatTypeOK, NetInv
<1>3. net \ {d} \subseteq net' /\ net' \subseteq net \cup {} /\ extra' \in Nat
  <2>1. d \in net
    OBVIOUS
  <2> QED
    BY ONLY <1>1, <1>2, <2>1, ArrivalKeeps
<1>4. phase = "started"
  BY <1>1 DEF NatInv, PhaseInv
<1> QED
  BY <1>1, <1>2, <1>3, <1>4 DEF Routed, Asked, Read, Says

(* An answer that is not too late is written for all that asked its sender,   *)
(* and for nobody else.                                                       *)
LEMMA OnPacketKeeps ==
  ASSUME NatInv, NEW d \in net, ClientReceive(d), d.len # 0, Matches(d) # {}, ~done
  PROVE  NatInv'
<1> USE DEF NatInv
<1> DEFINE M == Matches(d)
           New(q) == [done |-> TRUE,
                      my |-> IF d.says = Malformed THEN results[q].my ELSE Read(d.says),
                      code |-> IF d.says = Malformed THEN "MALFORMED" ELSE "OK"]
           W == {q \in M : ~results[q].done}
<1>1. /\ results' = [q \in Queries |-> IF q \notin M THEN results[q] ELSE New(q)]
      /\ waitCnt' = waitCnt - Cardinality(W) /\ foreign' = foreign
  BY DEF ClientReceive, OnPacket, Matches
<1>2. M \subseteq Routed /\ M \subseteq Queries /\ \A q \in Queries : q \in M <=> q \in Routed /\ addr[q] = d.from
  BY DEF Matches, Routed
<1> HIDE DEF M
<1>3. \A q \in Queries :
        /\ q \in M => results'[q] = New(q) /\ results'[q].done /\ results'[q].code # "TIMEOUT"
        /\ q \notin M => results'[q] = results[q]
  <2>1. ASSUME NEW q \in M PROVE New(q).done /\ New(q).code # "TIMEOUT"
    OBVIOUS
  <2> HIDE DEF New
  <2> QED
    BY <1>1, <1>2, <2>1
<1>4. IsFiniteSet(Waiting) /\ Waiting' = Waiting \ W /\ W \subseteq Waiting
  <2>1. Waiting' = {q \in Routed : ~results'[q].done}
    BY ClientDatagram DEF Waiting
  <2>2. \A q \in Queries : ~results'[q].done <=> ~results[q].done /\ q \notin M
    <3> HIDE DEF New
    <3> QED
      BY <1>3
  <2>3. Routed \subseteq Queries
    BY DEF Routed
  <2>4. IsFiniteSet(Waiting)
    BY <2>3, NatConstants, FS_Subset DEF Waiting
  <2> QED
    BY <1>2, <2>1, <2>2, <2>3, <2>4 DEF Waiting
<1>5. CountInv' /\ waitCnt' \in Nat
  <2>1. Waiting \cap W = W
    BY <1>4
  <2>2. Cardinality(Waiting') = Cardinality(Waiting) - Cardinality(W) /\ Cardinality(Waiting') \in Nat
    BY <1>4, <2>1, FS_Difference, FS_CardinalityType
  <2> QED
    BY <1>1, <2>2 DEF CountInv
<1>6. NatTypeOK'
  <2>1. \A q \in Queries : New(q) \in [done : BOOLEAN, my : Says, code : {"RESOLVE", "TIMEOUT", "OK", "MALFORMED"}]
    BY ClientDatagram DEF NatTypeOK
  <2>2. results' \in [Queries -> [done : BOOLEAN, my : Says, code : {"RESOLVE", "TIMEOUT", "OK", "MALFORMED"}]]
    BY <1>1, <2>1 DEF NatTypeOK
  <2> HIDE DEF New
  <2> QED
    BY <1>1, <1>5, <2>2, ClientDatagram DEF NatTypeOK, Resolved
<1>7. PhaseInv' /\ HandedInv' /\ NetInv'
  BY ClientDatagram DEF PhaseInv, HandedInv, NetInv
<1>8. MappingPerServer'
  <2>1. ASSUME NEW q \in M, addr[q] \in Servers
        PROVE  New(q).code = "OK" /\ New(q).my = Mapped[addr[q]]
    <3>1. d.says = Mapped[addr[q]] /\ addr[q] = d.from
      BY <1>2, <2>1, ClientDatagram DEF NetInv
    <3> QED
      BY <2>1, <3>1, NatConstants DEF Read
  <2> QED
    BY <1>1, <1>3, <2>1, ClientDatagram DEF MappingPerServer
<1>9. PendingInv'
  <2> SUFFICES ASSUME NEW q \in Queries, addr[q] \in Servers \ lost, results'[q].code = "TIMEOUT"
               PROVE  \E c \in net' : (c.to = addr[q] /\ c.len > 100) \/ (c.to = Client /\ c.from = addr[q])
    BY ClientDatagram DEF PendingInv
  <2>1. q \notin M /\ results[q].code = "TIMEOUT"
    <3> HIDE DEF New
    <3> QED
      BY <1>3
  <2>2. PICK c \in net : (c.to = addr[q] /\ c.len > 100) \/ (c.to = Client /\ c.from = addr[q])
    BY <2>1, ClientDatagram DEF PendingInv
  <2>3. q \in Routed /\ addr[q] # Client
    BY NatConstants DEF Routed
  <2>4. c # d
    BY <1>2, <2>1, <2>2, <2>3, ClientDatagram
  <2> QED
    BY <2>2, <2>4, ClientDatagram
<1> QED
  BY <1>5, <1>6, <1>7, <1>8, <1>9

LEMMA ClientReceiveKeeps ==
  ASSUME NatInv, NEW d \in net, ClientReceive(d)
  PROVE  NatInv'
<1> USE DEF NatInv
<1>1. CASE d.len # 0 /\ Matches(d) # {} /\ ~done
  BY <1>1, OnPacketKeeps
<1>2. CASE ~(d.len # 0 /\ Matches(d) # {} /\ ~done)
  <2>1. /\ UNCHANGED <<results, waitCnt>>
        /\ \/ foreign' = foreign
           \/ /\ ~done /\ Matches(d) = {} /\ d.says # Malformed
              /\ foreign' = Append(foreign, [remote |-> d.from, my |-> Read(d.says)])
    BY <1>2 DEF ClientReceive, OnPacket, OnUnknownPacket
  <2>2. NatTypeOK'
    <3> DEFINE new == [remote |-> d.from, my |-> Read(d.says)]
               F == [remote : Programs, my : Says]
    <3>0. new \in F /\ foreign \in Seq(F) /\ (foreign' = foreign \/ foreign' = Append(foreign, new))
      BY <2>1, ClientDatagram DEF NatTypeOK
    <3>1. foreign' \in Seq(F)
      <4> HIDE DEF new, F
      <4> QED
        BY <3>0
    <3> QED
      BY <2>1, <3>1, ClientDatagram DEF NatTypeOK, Resolved
  <2>3. PhaseInv' /\ HandedInv' /\ NetInv'
    BY <2>1, ClientDatagram DEF PhaseInv, HandedInv, NetInv
  <2>4. CountInv'
    BY <2>1, ClientDatagram DEF CountInv, Waiting
  <2>5. MappingPerServer'
    <3>1. CASE foreign' = foreign
      BY <2>1, <3>1, ClientDatagram DEF MappingPerServer
    <3>2. CASE foreign' # foreign
      <4> DEFINE new == [remote |-> d.from, my |-> Read(d.says)]
      <4>1. foreign' = Append(foreign, new) /\ Matches(d) = {} /\ d.says # Malformed
        BY <2>1, <3>2
      <4>2. new.remote \notin Asked
        BY <4>1 DEF Matches, Asked
      <4>3. ASSUME new.remote = Out PROVE \E s \in Asked \cap Servers : new.my = Mapped[s]
        <5>1. PICK s \in Asked \cap Servers : d.says = Mapped[s]
          BY <4>3, ClientDatagram DEF NetInv
        <5> QED
          BY <5>1, NatConstants DEF Read
      <4> HIDE DEF new
      <4>4. \A i \in DOMAIN foreign' : foreign'[i] = new \/ (i \in DOMAIN foreign /\ foreign'[i] = foreign[i])
        BY <4>1 DEF NatTypeOK
      <4> QED
        BY <2>1, <4>2, <4>3, <4>4, ClientDatagram DEF MappingPerServer
    <3> QED
      BY <3>1, <3>2
  <2>6. PendingInv'
    <3> SUFFICES ASSUME NEW q \in Queries, ~done, addr[q] \in Servers \ lost, results[q].code = "TIMEOUT"
                 PROVE  \E c \in net' : (c.to = addr[q] /\ c.len > 100) \/ (c.to = Client /\ c.from = addr[q])
      BY <2>1, ClientDatagram DEF PendingInv
    <3>2. PICK c \in net : (c.to = addr[q] /\ c.len > 100) \/ (c.to = Client /\ c.from = addr[q])
      BY ClientDatagram DEF PendingInv
    <3>3. q \in Routed /\ addr[q] # Client
      BY NatConstants DEF Routed
    <3>4. c # d
      <4>1. ASSUME c = d PROVE FALSE
        <5>1. d.from = addr[q] /\ d.len = ReplyLen /\ q \in Matches(d)
          BY <3>2, <3>3, <4>1, ClientDatagram DEF NetInv, Matches
        <5> QED
          BY <1>2, <5>1, NatConstants
      <4> QED
        BY <4>1
    <3> QED
      BY <3>2, <3>4, ClientDatagram
  <2> QED
    BY <2>2, <2>3, <2>4, <2>5, <2>6
<1> QED
  BY <1>1, <1>2

(* What a server does with a datagram, *)
LEMMA ServerKeeps ==
  ASSUME NatInv, NEW d \in net, ServerReceive(d)
  PROVE  NatInv'
<1> USE DEF NatInv
<1> DEFINE new == IF d.len = 0 THEN {} ELSE Replies(d)
<1>1. /\ UNCHANGED <<phase, natSock, addr, results, foreign, waitCnt, natTimer, done, natWoken, handed, serving, lost>>
      /\ serving = "on" /\ d.to \in up /\ Arrives(d, new) /\ up' \subseteq up
  BY DEF ServerReceive, clientVars, routeVars, lookupVars
<1>2. d.to \in Servers \cup {Out} /\ extra \in Nat
  BY <1>1 DEF NatTypeOK
<1>3. ASSUME NEW c \in new
      PROVE  /\ d.len > 100 /\ d.to \in Servers \cap Asked /\ d.from = Mapped[d.to]
             /\ \E s \in {d.to, Out} : c = [from |-> s, to |-> Client, len |-> ReplyLen, says |-> d.from]
  <2>1. d.to # Out /\ d.len > 100
    BY DEF Replies, OutSockets, LargeEnough
  <2>2. \E s \in {d.to, Out} : c = [from |-> s, to |-> Client, len |-> ReplyLen, says |-> d.from]
    BY DEF Replies, OutSockets, Datagram
  <2> QED
    BY <1>2, <2>1, <2>2 DEF NetInv
<1>4. d.len > 100 /\ d.to \in Servers => \E c \in new : c.to = Client /\ c.from = d.to
  <2> SUFFICES ASSUME d.len > 100, d.to \in Servers PROVE \E c \in new : c.to = Client /\ c.from = d.to
    OBVIOUS
  <2>1. d.to \notin OutSockets /\ d.len # 0
    BY NatConstants DEF OutSockets, NatTypeOK
  <2>2. Datagram(d.to, Client, ReplyLen, d.from) \in new
    BY <1>1, <2>1 DEF Replies, LargeEnough
  <2> QED
    BY <2>2 DEF Datagram
<1> HIDE DEF new
<1>5. net \ {d} \subseteq net' /\ net' \subseteq net \cup new /\ new \subseteq net' /\ extra' \in Nat
  <2>1. d \in net
    OBVIOUS
  <2> QED
    BY ONLY <1>1, <1>2, <2>1, ArrivalKeeps
<1>6. Routed' = Routed /\ Asked' = Asked /\ Waiting' = Waiting
  BY <1>1 DEF Routed, Asked, Waiting
<1>7. NatTypeOK'
  <2>1. \A c \in new : c \in [from : Programs \cup Says, to : Programs \cup {Client}, len : Nat, says : Says]
    BY <1>3, NatConstants DEF Programs, Says
  <2>2. net' \subseteq [from : Programs \cup Says, to : Programs \cup {Client}, len : Nat, says : Says]
    BY <1>5, <2>1 DEF NatTypeOK
  <2> QED
    BY <1>1, <1>5, <2>2 DEF NatTypeOK, Resolved
<1>8. NetInv'
  <2>1. \A c \in new : /\ c.len <= 100 /\ c.from \in Programs
                       /\ c.from \in Servers => c.len = ReplyLen /\ c.from \in Asked /\ c.says = Mapped[c.from]
                       /\ c.from = Out => \E s \in Asked \cap Servers : c.says = Mapped[s]
    BY <1>3, NatConstants DEF Programs
  <2>2. \A c \in new : ~(c.len > 100)
    BY <1>3, NatConstants
  <2> QED
    BY <1>5, <1>6, <2>1, <2>2 DEF NetInv
<1>9. PendingInv'
  <2> SUFFICES ASSUME NEW q \in Queries, ~done, addr[q] \in Servers \ lost, results[q].code = "TIMEOUT",
                      natSock # "starting"
               PROVE  \E c \in net' : (c.to = addr[q] /\ c.len > 100) \/ (c.to = Client /\ c.from = addr[q])
    BY <1>1 DEF PendingInv
  <2>1. PICK c \in net : (c.to = addr[q] /\ c.len > 100) \/ (c.to = Client /\ c.from = addr[q])
    BY DEF PendingInv
  <2>2. CASE c = d
    <3>1. d.to = addr[q] /\ d.len > 100
      BY <1>2, <2>1, <2>2, NatConstants
    <3> QED
      BY <1>4, <1>5, <3>1
  <2>3. CASE c # d
    BY <1>5, <2>1, <2>3
  <2> QED
    BY <2>2, <2>3
<1>10. PhaseInv' /\ MappingPerServer' /\ CountInv' /\ HandedInv'
  BY <1>1, <1>6 DEF PhaseInv, MappingPerServer, CountInv, HandedInv
<1> QED
  BY <1>7, <1>8, <1>9, <1>10

(* and what the network and the other programs do. *)
LEMMA OthersKeep ==
  ASSUME NatInv, NatNext, NEW gone \in SUBSET net, NEW new, net' = (net \ gone) \cup new,
         UNCHANGED <<clientVars, serverVars>>, extra' \in Nat, lost \subseteq lost',
         \A d \in gone : /\ d.to = Client => d.from \in lost'
                         /\ d.to \in Servers => d.to \in lost',
         \A d \in new : /\ d \in [from : Others, to : Programs \cup {Client}, len : 0..ReplyLen, says : {Malformed, BadName}]
  PROVE  NatInv'
<1> USE DEF NatInv
<1>1. UNCHANGED <<phase, natSock, addr, results, foreign, waitCnt, natTimer, done, natWoken, handed, serving, up>>
  BY DEF clientVars, routeVars, lookupVars, serverVars
<1>2. Routed' = Routed /\ Asked' = Asked /\ Waiting' = Waiting
  BY <1>1 DEF Routed, Asked, Waiting
<1>3. \A d \in new : /\ d.from \in Others /\ d.to \in Programs \cup {Client} /\ d.len \in Nat /\ ~(d.len > 100)
                     /\ d.says \in Says /\ d \in [from : Programs \cup Says, to : Programs \cup {Client}, len : Nat, says : Says]
  BY NatConstants DEF Programs, Says
<1>4. NatTypeOK'
  <2>1. net' \subseteq [from : Programs \cup Says, to : Programs \cup {Client}, len : Nat, says : Says]
    BY <1>3 DEF NatTypeOK
  <2> QED
    BY <1>1, <2>1 DEF NatTypeOK, Resolved
<1>5. NetInv'
  <2>1. \A d \in new : d.from \notin Servers /\ d.from # Out /\ d.from \in Programs
    BY <1>3, NatConstants DEF Programs
  <2> QED
    BY <1>2, <1>3, <2>1 DEF NetInv
<1>6. PendingInv'
  <2> SUFFICES ASSUME NEW q \in Queries, ~done, addr[q] \in Servers \ lost', results[q].code = "TIMEOUT",
                      natSock # "starting"
               PROVE  \E c \in net' : (c.to = addr[q] /\ c.len > 100) \/ (c.to = Client /\ c.from = addr[q])
    BY <1>1 DEF PendingInv
  <2>1. PICK c \in net : (c.to = addr[q] /\ c.len > 100) \/ (c.to = Client /\ c.from = addr[q])
    BY DEF PendingInv
  <2>2. c \notin gone
    BY <2>1
  <2> QED
    BY <2>1, <2>2
<1>7. PhaseInv' /\ MappingPerServer' /\ CountInv' /\ HandedInv'
  BY <1>1, <1>2 DEF PhaseInv, MappingPerServer, CountInv, HandedInv
<1> QED
  BY <1>4, <1>5, <1>6, <1>7

LEMMA NatStepHolds ==
  ASSUME NatInv, [NatNext]_natVars
  PROVE  NatInv'
<1>0. net \subseteq [from : Programs \cup Says, to : Programs \cup {Client}, len : Nat, says : Says] /\ extra \in Nat
  BY DEF NatInv, NatTypeOK
<1>1. CASE Start \/ OnStart \/ NatOnTimeout \/ GetResults
  BY <1>1, StartKeeps, OnStartKeeps, EndKeeps
<1>2. CASE ServerStart \/ ServerStop \/ UNCHANGED natVars
  <2>1. /\ UNCHANGED <<phase, natSock, addr, results, foreign, waitCnt, natTimer, done, natWoken, handed, net, extra, lost>>
        /\ serving' \in {"new", "on", "stopped", "aborted"} /\ up' \subseteq Servers \cup {Out}
    BY <1>2 DEF ServerStart, ServerStop, natVars, clientVars, serverVars, routeVars, lookupVars, OutSockets, InSockets,
                NatInv, NatTypeOK
  <2>2. Routed' = Routed /\ Asked' = Asked /\ Waiting' = Waiting
    BY <2>1 DEF Routed, Asked, Waiting
  <2> QED
    BY <2>1, <2>2 DEF NatInv, NatTypeOK, Resolved, PhaseInv, NetInv, MappingPerServer, PendingInv, CountInv, HandedInv
<1>3. ASSUME NEW d \in net, ClientReceive(d) \/ ServerReceive(d)
      PROVE  NatInv'
  BY <1>3, ClientReceiveKeeps, ServerKeeps
<1>4. ASSUME NEW d \in net, Lose(d), NatNext
      PROVE  NatInv'
  <2>1. /\ net' = (net \ {d}) \cup {} /\ {d} \in SUBSET net /\ UNCHANGED <<clientVars, serverVars>> /\ extra' \in Nat
        /\ lost \subseteq lost' /\ (d.to = Client => d.from \in lost') /\ (d.to \in Servers => d.to \in lost')
    BY <1>0, <1>4, NatConstants DEF Lose
  <2> DEFINE gone == {d}
             new == {}
  <2>2. /\ net' = (net \ gone) \cup new /\ gone \in SUBSET net
        /\ \A c \in gone : (c.to = Client => c.from \in lost') /\ (c.to \in Servers => c.to \in lost')
        /\ \A c \in new : c \in [from : Others, to : Programs \cup {Client}, len : 0..ReplyLen, says : {Malformed, BadName}]
    BY <2>1
  <2> HIDE DEF gone, new
  <2> QED
    BY ONLY NatInv, <1>4, <2>1, <2>2, OthersKeep
<1>5. ASSUME NEW d \in net, OtherAnswers(d), NatNext
      PROVE  NatInv'
  <2>1. PICK says \in {Malformed, BadName} : net' = (net \ {d}) \cup {Datagram(d.to, Client, ReplyLen, says)}
    BY <1>5 DEF OtherAnswers
  <2> DEFINE gone == {d}
             new == {Datagram(d.to, Client, ReplyLen, says)}
  <2>2. /\ net' = (net \ gone) \cup new /\ gone \in SUBSET net
        /\ UNCHANGED <<clientVars, serverVars>> /\ extra' \in Nat /\ lost \subseteq lost'
        /\ \A c \in gone : (c.to = Client => c.from \in lost') /\ (c.to \in Servers => c.to \in lost')
    BY <1>0, <1>5, <2>1, NatConstants DEF OtherAnswers
  <2>3. \A c \in new : c \in [from : Others, to : Programs \cup {Client}, len : 0..ReplyLen, says : {Malformed, BadName}]
    BY <1>5, NatConstants DEF OtherAnswers, Datagram
  <2> HIDE DEF gone, new
  <2> QED
    BY ONLY NatInv, <1>5, <2>2, <2>3, OthersKeep
<1>6. ASSUME NEW o \in Others, Stray(o), NatNext
      PROVE  NatInv'
  <2>1. PICK to \in {Client, Out} \cup Servers, m \in {<<0, Malformed>>, <<ReplyLen, Malformed>>, <<ReplyLen, BadName>>} :
          net' = net \cup {Datagram(o, to, m[1], m[2])}
    BY <1>6 DEF Stray
  <2> DEFINE gone == {}
             new == {Datagram(o, to, m[1], m[2])}
  <2>2. /\ net' = (net \ gone) \cup new /\ gone \in SUBSET net
        /\ UNCHANGED <<clientVars, serverVars>> /\ extra' \in Nat /\ lost \subseteq lost'
        /\ \A c \in gone : (c.to = Client => c.from \in lost') /\ (c.to \in Servers => c.to \in lost')
    BY <1>0, <1>6, <2>1 DEF Stray
  <2>3. \A c \in new : c \in [from : Others, to : Programs \cup {Client}, len : 0..ReplyLen, says : {Malformed, BadName}]
    BY NatConstants DEF Datagram, Programs
  <2> HIDE DEF gone, new
  <2> QED
    BY ONLY NatInv, <1>6, <2>2, <2>3, OthersKeep
<1> QED
  BY <1>1, <1>2, <1>3, <1>4, <1>5, <1>6 DEF NatNext

(* The inductive invariant. *)
THEOREM NatInvariance == NatSpec => []NatInv
  BY NatInitHolds, NatStepHolds, PTL DEF NatSpec

(* NatTypeOK is invariant: in particular _wait_cnt does not go below zero.    *)
THEOREM NatTypesCorrect == NatSpec => []NatTypeOK
<1>1. NatInv => NatTypeOK
  BY DEF NatInv
<1> QED
  BY <1>1, NatInvariance, PTL

(* A result says what its own server saw, whatever arrives at the shared      *)
(* socket, in whatever order and from whom (nat_client.cpp, network.cpp).     *)
THEOREM MappingIsPerServer == NatSpec => []MappingPerServer
<1>1. NatInv => MappingPerServer
  BY DEF NatInv
<1> QED
  BY <1>1, NatInvariance, PTL

(* Up to the time-out a server counts as silent only if the question or the   *)
(* answer was lost or is still on its way (nat_server.cpp, nat_client.cpp).   *)
THEOREM SilenceMeansLoss == NatSpec => []SilentOnlyIfLost
<1>1. NatInv => SilentOnlyIfLost
  BY DEF NatInv, PendingInv, SilentOnlyIfLost
<1> QED
  BY <1>1, NatInvariance, PTL

(* Once the program has the results, which are pointers, the emitter that     *)
(* still receives never writes to them again: the safety half of              *)
(* ResultsHandedOut (nat_client.cpp get_results(), on_packet()).              *)
THEOREM ResultsStay ==
  NatSpec => /\ [](handed # <<>> => handed = <<results, foreign>>)
             /\ [][handed # <<>> => UNCHANGED <<results, foreign>>]_natVars
<1>1. NatInv => (handed # <<>> => handed = <<results, foreign>>)
  BY DEF NatInv, HandedInv
<1>2. NatInv /\ NatInv' /\ [NatNext]_natVars => [handed # <<>> => UNCHANGED <<results, foreign>>]_natVars
  <2> SUFFICES ASSUME NatInv, NatInv', NatNext, handed # <<>> PROVE UNCHANGED <<results, foreign>>
    BY DEF natVars
  <2>1. UNCHANGED handed
    BY DEF NatNext, Start, OnStart, NatOnTimeout, GetResults, ServerStart, ServerStop, ClientReceive, ServerReceive,
           Lose, OtherAnswers, Stray, clientVars, lookupVars
  <2> QED
    BY <2>1 DEF NatInv, HandedInv
<1> QED
  BY <1>1, <1>2, NatInvariance, PTL DEF NatSpec

(* _wait_cnt counts the servers that were asked and have not answered, though *)
(* nothing reads it any more (nat_client.cpp start(), on_packet()).           *)
THEOREM WaitCountExact == NatSpec => [](waitCnt = Cardinality({q \in Routed : ~results[q].done}))
<1>1. NatInv => waitCnt = Cardinality({q \in Routed : ~results[q].done})
  BY DEF NatInv, CountInv, Waiting
<1> QED
  BY <1>1, NatInvariance, PTL

=============================================================================
