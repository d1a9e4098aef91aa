--------------------------- MODULE ConnectionsProofs ---------------------------
(***************************************************************************)
(* Proofs about Connections: that the bytes of a connection stay in step    *)
(* with the requests that were written, and that Connections implements     *)
(* RequestChannel, for any requests and however TCP cuts the stream.        *)
(***************************************************************************)
EXTENDS Connections, SequenceTheorems, WellFoundedInduction, TLAPS

-------------------------------------------------------------------------------
(***************************************************************************)
(* Induction, over sets: what holds in a set of numbers, or of sequences    *)
(***************************************************************************)
Below == {p \in Nat \X Nat : p[1] < p[2]}

LEMMA BelowWellFounded == IsWellFoundedOn(Below, Nat)
  <1>1. IsWellFoundedOn(OpToRel(<, Nat), Nat)
    BY NatLessThanWellFounded
  <1>2. OpToRel(<, Nat) = Below
    BY DEF OpToRel, Below
  <1> QED
    BY <1>1, <1>2, Zenon

LEMMA Least ==
    ASSUME NEW T, T \subseteq Nat, T # {}
    PROVE  \E x \in T : \A y \in T : x <= y
  <1>1. PICK x \in T : \A y \in T : ~(<<y, x>> \in Below)
    BY BelowWellFounded, WFMin
  <1>2. \A a, b \in Nat : <<a, b>> \in Below <=> a < b
    BY DEF Below
  <1>3. \A y \in T : ~(y < x)
    BY <1>1, <1>2
  <1> QED
    BY <1>3

LEMMA NatInduct ==
    ASSUME NEW T, 0 \in T, \A k \in Nat : k \in T => k + 1 \in T
    PROVE  Nat \subseteq T
  <1> SUFFICES ASSUME Nat \ T # {} PROVE FALSE
    OBVIOUS
  <1>1. PICK x \in Nat \ T : \A y \in Nat \ T : x <= y
    BY Least
  <1>2. x # 0 /\ x - 1 \in Nat
    BY <1>1
  <1>3. x - 1 \in T
    BY <1>1, <1>2
  <1> QED
    BY <1>1, <1>2, <1>3

LEMMA SeqInduct ==
    ASSUME NEW S, NEW T, <<>> \in T,
           \A s \in Seq(S), e \in S : s \in T => Append(s, e) \in T
    PROVE  Seq(S) \subseteq T
  <1> DEFINE K == {k \in Nat : \A s \in Seq(S) : Len(s) = k => s \in T}
  <1>1. 0 \in K
    BY EmptySeq
  <1>2. ASSUME NEW k \in Nat, k \in K PROVE k + 1 \in K
    <2> SUFFICES ASSUME NEW s \in Seq(S), Len(s) = k + 1 PROVE s \in T
      OBVIOUS
    <2>1. s # <<>>
      OBVIOUS
    <2>2. PICK f \in Seq(S), e \in S : s = Append(f, e)
      BY <2>1, SequenceEmptyOrAppend
    <2>3. Len(f) = k
      BY <2>2, AppendProperties
    <2> QED
      BY <1>2, <2>2, <2>3
  <1> HIDE DEF K
  <1>3. Nat \subseteq K
    BY <1>1, <1>2, NatInduct
  <1> QED
    BY <1>3, LenProperties DEF K

-------------------------------------------------------------------------------
(***************************************************************************)
(* FlattenSeq                                                               *)
(***************************************************************************)
Joined(g, s, i) == g[i - 1] \o s[i]

Unrolls(g, s, k) == g = [i \in 1..k |-> IF i = 1 THEN s[i] ELSE Joined(g, s, i)]

LEMMA Unrolled ==
    ASSUME NEW g, NEW s, NEW k \in Nat, Unrolls(g, s, k), NEW i \in 1..k
    PROVE  /\ i = 1 => g[i] = s[i]
           /\ i # 1 => g[i] = Joined(g, s, i)
  BY DEF Unrolls

LEMMA UnrollExists ==
    ASSUME NEW s
    PROVE  \A k \in Nat : \E g : Unrolls(g, s, k)
  <1> DEFINE K == {k \in Nat : \E g : Unrolls(g, s, k)}
  <1>1. 0 \in K
    <2>1. Unrolls([i \in {} |-> s], s, 0)
      BY DEF Unrolls
    <2> QED
      BY <2>1
  <1>2. ASSUME NEW k \in Nat, k \in K PROVE k + 1 \in K
    <2>1. PICK g : Unrolls(g, s, k)
      BY <1>2
    <2> DEFINE v == Joined(g, s, k + 1)
    <2> HIDE DEF v
    <2> DEFINE h == [i \in 1..(k + 1) |-> IF i = 1 THEN s[i] ELSE IF i <= k THEN g[i] ELSE v]
               u == [i \in 1..(k + 1) |-> IF i = 1 THEN s[i] ELSE Joined(h, s, i)]
    <2>2. ASSUME NEW i \in 1..(k + 1) PROVE h[i] = u[i]
      <3>1. CASE i = 1
        BY <3>1
      <3>2. CASE i # 1 /\ i <= k
        <4>1. g[i] = Joined(g, s, i) /\ h[i] = g[i]
          BY <2>1, <3>2, Unrolled
        <4>2. h[i - 1] = g[i - 1]
          BY <2>1, <3>2, Unrolled
        <4>3. Joined(h, s, i) = Joined(g, s, i)
          BY <4>2 DEF Joined
        <4> QED
          BY <3>2, <4>1, <4>3
      <3>3. CASE i # 1 /\ i = k + 1
        <4>1. h[i] = v
          BY <3>3
        <4>2. h[i - 1] = g[k]
          BY <2>1, <3>3, Unrolled
        <4>3. Joined(h, s, i) = Joined(g, s, i)
          <5>1. i - 1 = k
            BY <3>3
          <5> QED
            BY <4>2, <5>1, Zenon DEF Joined
        <4> QED
          BY <3>3, <4>1, <4>3 DEF v
      <3> QED
        BY <3>1, <3>2, <3>3
    <2>3. h = u
      BY <2>2
    <2>4. Unrolls(h, s, k + 1)
      BY <2>3 DEF Unrolls
    <2> QED
      BY <2>4
  <1> HIDE DEF K
  <1>3. Nat \subseteq K
    BY <1>1, <1>2, NatInduct
  <1> QED
    BY <1>3 DEF K

Agree(g, h, k) == \A i \in 1..k : g[i] = h[i]

LEMMA UnrollUnique ==
    ASSUME NEW s, NEW t, NEW k \in Nat, NEW m \in Nat, k <= m,
           Agree(s, t, k), NEW g, Unrolls(g, s, k), NEW h, Unrolls(h, t, m)
    PROVE  Agree(g, h, k)
  <1> DEFINE K == {j \in Nat : j \in 1..k => g[j] = h[j]}
  <1>1. 0 \in K
    OBVIOUS
  <1>2. ASSUME NEW j \in Nat, j \in K PROVE j + 1 \in K
    <2> SUFFICES ASSUME j + 1 \in 1..k PROVE g[j + 1] = h[j + 1]
      OBVIOUS
    <2>1. CASE j = 0
      BY <2>1, Unrolled DEF Agree
    <2>2. CASE j # 0
      <3>1. g[j + 1] = Joined(g, s, j + 1)
        BY <2>2, Unrolled
      <3>2. h[j + 1] = Joined(h, t, j + 1)
        BY <2>2, Unrolled
      <3>3. g[j] = h[j] /\ s[j + 1] = t[j + 1]
        BY <1>2, <2>2 DEF Agree
      <3>4. Joined(g, s, j + 1) = Joined(h, t, j + 1)
        <4>1. (j + 1) - 1 = j
          OBVIOUS
        <4> QED
          BY <3>3, <4>1, Zenon DEF Joined
      <3> QED
        BY <3>1, <3>2, <3>4
    <2> QED
      BY <2>1, <2>2
  <1> HIDE DEF K
  <1>3. Nat \subseteq K
    BY <1>1, <1>2, NatInduct
  <1> QED
    BY <1>3 DEF K, Agree

LEMMA FlattenUnrolls ==
    ASSUME NEW s, Len(s) \in Nat \ {0}
    PROVE  \E g : Unrolls(g, s, Len(s)) /\ FlattenSeq(s) = g[Len(s)]
  <1> DEFINE g == CHOOSE f : Unrolls(f, s, Len(s))
  <1>1. FlattenSeq(s) = g[Len(s)]
    BY DEF FlattenSeq, Unrolls, Joined
  <1>2. Unrolls(g, s, Len(s))
    BY UnrollExists
  <1> QED
    BY <1>1, <1>2

LEMMA FlattenEmpty == FlattenSeq(<<>>) = <<>>
  BY DEF FlattenSeq

LEMMA FlattenAppend ==
    ASSUME NEW A, NEW s \in Seq(Seq(A)), NEW e \in Seq(A)
    PROVE  FlattenSeq(Append(s, e)) = FlattenSeq(s) \o e
  <1> DEFINE t == Append(s, e)
  <1>1. t \in Seq(Seq(A)) /\ Len(t) = Len(s) + 1 /\ Len(s) \in Nat
        /\ (\A i \in 1..Len(s) : t[i] = s[i]) /\ t[Len(s) + 1] = e
    BY AppendProperties, LenProperties
  <1> HIDE DEF t
  <1>2. PICK h : Unrolls(h, t, Len(t)) /\ FlattenSeq(t) = h[Len(t)]
    BY <1>1, FlattenUnrolls
  <1>3. CASE s = <<>>
    <2>1. Len(s) = 0
      BY <1>3
    <2>2. FlattenSeq(t) = t[1]
      BY <1>1, <1>2, <2>1, Unrolled
    <2>3. FlattenSeq(t) = e
      BY <1>1, <2>1, <2>2
    <2> QED
      BY <1>3, <2>3, FlattenEmpty, ConcatEmptySeq DEF t
  <1>4. CASE s # <<>>
    <2>1. Len(s) \in Nat \ {0}
      BY <1>4, EmptySeq
    <2>2. PICK g : Unrolls(g, s, Len(s)) /\ FlattenSeq(s) = g[Len(s)]
      BY <2>1, FlattenUnrolls
    <2>3. g[Len(s)] = h[Len(s)]
      <3>1. Len(s) <= Len(t) /\ Len(s) \in Nat /\ Len(t) \in Nat
        BY <1>1
      <3>2. Agree(s, t, Len(s))
        BY <1>1 DEF Agree
      <3>3. Agree(g, h, Len(s))
        BY <1>2, <2>2, <3>1, <3>2, UnrollUnique, Zenon
      <3> QED
        BY <2>1, <3>3 DEF Agree
    <2>4. h[Len(t)] = h[Len(s)] \o e
      <3>1. h[Len(t)] = Joined(h, t, Len(t))
        BY <1>1, <1>2, <2>1, Unrolled
      <3>2. Len(t) - 1 = Len(s) /\ t[Len(t)] = e
        BY <1>1
      <3> QED
        BY <3>1, <3>2 DEF Joined
    <2> QED
      BY <1>2, <2>2, <2>3, <2>4 DEF t
  <1> QED
    BY <1>3, <1>4

LEMMA FlattenType ==
    ASSUME NEW A
    PROVE  \A s \in Seq(Seq(A)) : FlattenSeq(s) \in Seq(A)
  <1> DEFINE T == {s \in Seq(Seq(A)) : FlattenSeq(s) \in Seq(A)}
  <1>1. <<>> \in T
    BY FlattenEmpty, EmptySeq
  <1>2. ASSUME NEW s \in Seq(Seq(A)), NEW e \in Seq(A), s \in T PROVE Append(s, e) \in T
    BY <1>2, FlattenAppend, AppendProperties, ConcatProperties
  <1> HIDE DEF T
  <1>3. Seq(Seq(A)) \subseteq T
    BY <1>1, <1>2, SeqInduct
  <1> QED
    BY <1>3 DEF T

LEMMA FlattenCons ==
    ASSUME NEW A
    PROVE  \A s \in Seq(Seq(A)) : s # <<>> => FlattenSeq(s) = Head(s) \o FlattenSeq(Tail(s))
  <1> DEFINE T == {s \in Seq(Seq(A)) : s # <<>> => FlattenSeq(s) = Head(s) \o FlattenSeq(Tail(s))}
  <1>1. <<>> \in T
    BY EmptySeq
  <1>2. ASSUME NEW s \in Seq(Seq(A)), NEW e \in Seq(A), s \in T PROVE Append(s, e) \in T
    <2>1. FlattenSeq(Append(s, e)) = FlattenSeq(s) \o e
      BY FlattenAppend
    <2>2. CASE s = <<>>
      <3>1. Head(Append(s, e)) = e /\ Tail(Append(s, e)) = <<>>
        BY <2>2, HeadTailAppend
      <3>2. <<>> \o e = e /\ e \o <<>> = e
        BY ConcatEmptySeq
      <3> QED
        BY <2>1, <2>2, <3>1, <3>2, FlattenEmpty, AppendProperties
    <2>3. CASE s # <<>>
      <3>1. Head(Append(s, e)) = Head(s) /\ Tail(Append(s, e)) = Append(Tail(s), e)
        BY <2>3, HeadTailAppend
      <3>2. Head(s) \in Seq(A) /\ Tail(s) \in Seq(Seq(A))
        BY <2>3, HeadTailProperties
      <3>3. FlattenSeq(Append(Tail(s), e)) = FlattenSeq(Tail(s)) \o e
        BY <3>2, FlattenAppend
      <3>4. (Head(s) \o FlattenSeq(Tail(s))) \o e = Head(s) \o (FlattenSeq(Tail(s)) \o e)
        <4> DEFINE x == Head(s)
                   y == FlattenSeq(Tail(s))
        <4>1. x \in Seq(A) /\ y \in Seq(A) /\ e \in Seq(A)
          BY <3>2, FlattenType
        <4> HIDE DEF x, y
        <4>2. (x \o y) \o e = x \o (y \o e)
          BY <4>1, ConcatAssociative
        <4> QED
          BY <4>2 DEF x, y
      <3>5. FlattenSeq(s) = Head(s) \o FlattenSeq(Tail(s))
        BY <1>2, <2>3
      <3> QED
        BY <2>1, <3>1, <3>3, <3>4, <3>5, AppendProperties
    <2> QED
      BY <2>2, <2>3
  <1> HIDE DEF T
  <1>3. Seq(Seq(A)) \subseteq T
    BY <1>1, <1>2, SeqInduct
  <1> QED
    BY <1>3 DEF T

-------------------------------------------------------------------------------
(***************************************************************************)
(* A request as it is written: where it ends is the only empty line in it   *)
(***************************************************************************)
Joins(u, s, t, m, n) ==
    /\ Len(u) = m + n
    /\ \A i \in 1..m : u[i] = s[i]
    /\ \A i \in 1..n : u[m + i] = t[i]

LEMMA Concat ==
    ASSUME NEW A, NEW s \in Seq(A), NEW t \in Seq(A)
    PROVE  s \o t \in Seq(A) /\ Joins(s \o t, s, t, Len(s), Len(t))
  BY ConcatProperties, LenProperties DEF Joins

LinesOf(r) == [i \in DOMAIN r |-> <<r[i], CR, LF>>]

Shaped(t, r) ==
    /\ t \in Seq(Byte)
    /\ Len(t) = 3 * Len(r)
    /\ \A i \in 1..Len(r) : t[3 * i - 2] = r[i] /\ t[3 * i - 1] = CR /\ t[3 * i] = LF

LEMMA LinesAppend ==
    ASSUME NEW r \in Seq(Lines), NEW e \in Lines
    PROVE  /\ LinesOf(r) \in Seq(Seq(Byte))
           /\ <<e, CR, LF>> \in Seq(Byte)
           /\ LinesOf(Append(r, e)) = Append(LinesOf(r), <<e, CR, LF>>)
  <1>1. Len(r) \in Nat /\ DOMAIN r = 1..Len(r) /\ \A i \in 1..Len(r) : r[i] \in Lines
    BY LenProperties, ElementOfSeq
  <1>2. \A l \in Lines : <<l, CR, LF>> \in Seq(Byte)
    BY DEF Byte
  <1>3. LinesOf(r) \in [1..Len(r) -> Seq(Byte)]
    BY <1>1, <1>2 DEF LinesOf
  <1>4. LinesOf(r) \in Seq(Seq(Byte)) /\ Len(LinesOf(r)) = Len(r)
    BY <1>1, <1>3
  <1> DEFINE a == Append(r, e)
  <1>5. a \in Seq(Lines) /\ Len(a) = Len(r) + 1 /\ DOMAIN a = 1..(Len(r) + 1)
        /\ (\A i \in 1..Len(r) : a[i] = r[i]) /\ a[Len(r) + 1] = e
    BY AppendProperties, LenProperties
  <1> HIDE DEF a
  <1> DEFINE b == Append(LinesOf(r), <<e, CR, LF>>)
             m == LinesOf(a)
  <1>6. b \in Seq(Seq(Byte)) /\ Len(b) = Len(r) + 1
        /\ (\A i \in 1..Len(r) : b[i] = LinesOf(r)[i]) /\ b[Len(r) + 1] = <<e, CR, LF>>
    BY <1>2, <1>4, AppendProperties
  <1>7. m \in Seq(Seq(Byte)) /\ Len(m) = Len(r) + 1
    <2>1. \A i \in 1..Len(a) : a[i] \in Lines
      BY <1>5, ElementOfSeq
    <2>2. m \in [1..(Len(r) + 1) -> Seq(Byte)]
      BY <1>2, <1>5, <2>1 DEF LinesOf
    <2> QED
      BY <1>1, <2>2
  <1>8. \A i \in 1..(Len(r) + 1) : m[i] = b[i]
    <2> SUFFICES ASSUME NEW i \in 1..(Len(r) + 1) PROVE m[i] = b[i]
      OBVIOUS
    <2>1. m[i] = <<a[i], CR, LF>>
      BY <1>5 DEF LinesOf
    <2>2. CASE i \in 1..Len(r)
      <3>1. LinesOf(r)[i] = <<r[i], CR, LF>>
        BY <1>1, <2>2 DEF LinesOf
      <3> QED
        BY <1>5, <1>6, <2>1, <2>2, <3>1
    <2>3. CASE i = Len(r) + 1
      BY <1>5, <1>6, <2>1, <2>3
    <2>4. i \in 1..Len(r) \/ i = Len(r) + 1
      BY <1>1
    <2> QED
      BY <2>2, <2>3, <2>4
  <1> HIDE DEF b, m
  <1>9. m = b
    BY <1>6, <1>7, <1>8, SeqEqual
  <1> QED
    BY <1>2, <1>4, <1>9 DEF a, b, m

LEMMA LinesShaped == \A r \in Seq(Lines) : Shaped(FlattenSeq(LinesOf(r)), r)
  <1> DEFINE T == {r \in Seq(Lines) : Shaped(FlattenSeq(LinesOf(r)), r)}
  <1>1. <<>> \in T
    <2>1. LinesOf(<<>>) = <<>>
      BY DEF LinesOf
    <2>2. FlattenSeq(LinesOf(<<>>)) = <<>>
      BY <2>1, FlattenEmpty
    <2>3. Shaped(<<>>, <<>>)
      BY DEF Shaped
    <2> QED
      BY <2>2, <2>3
  <1>2. ASSUME NEW r \in Seq(Lines), NEW e \in Lines, r \in T PROVE Append(r, e) \in T
    <2> DEFINE t == FlattenSeq(LinesOf(r))
               x == <<e, CR, LF>>
               a == Append(r, e)
    <2>1. FlattenSeq(LinesOf(a)) = t \o x
      BY LinesAppend, FlattenAppend
    <2>2. a \in Seq(Lines) /\ Len(a) = Len(r) + 1 /\ Len(r) \in Nat
          /\ (\A i \in 1..Len(r) : a[i] = r[i]) /\ a[Len(r) + 1] = e
      BY AppendProperties, LenProperties
    <2>3. Shaped(t, r)
      BY <1>2
    <2>4. x \in Seq(Byte) /\ Len(x) = 3 /\ x[1] = e /\ x[2] = CR /\ x[3] = LF
      BY LinesAppend
    <2> HIDE DEF t, x, a
    <2>5. t \in Seq(Byte) /\ Len(t) = 3 * Len(r)
      BY <2>3 DEF Shaped
    <2> DEFINE u == t \o x
               k == Len(r)
               l == 3 * k
    <2>6. /\ k \in Nat /\ l = 3 * k
          /\ u \in Seq(Byte) /\ Len(u) = l + 3
          /\ \A i \in 1..l : u[i] = t[i]
          /\ u[l + 1] = e /\ u[l + 2] = CR /\ u[l + 3] = LF
      <3>1. k \in Nat /\ l = 3 * k
        BY <2>2
      <3> HIDE DEF u, l
      <3>2. /\ u \in Seq(Byte) /\ Len(u) = l + 3 /\ \A i \in 1..l : u[i] = t[i]
            /\ \A i \in 1..3 : u[l + i] = x[i]
        <4>1. u \in Seq(Byte) /\ Joins(u, t, x, Len(t), Len(x))
          BY <2>4, <2>5, Concat DEF u
        <4>2. Len(t) = l /\ Len(x) = 3
          BY <2>4, <2>5 DEF l
        <4> QED
          BY <4>1, <4>2 DEF Joins
      <3> QED
        BY <2>4, <3>1, <3>2
    <2> HIDE DEF u, l
    <2>7. ASSUME NEW i \in 1..(k + 1)
          PROVE  u[3 * i - 2] = a[i] /\ u[3 * i - 1] = CR /\ u[3 * i] = LF
      <3>1. CASE i \in 1..k
        <4>1. t[3 * i - 2] = r[i] /\ t[3 * i - 1] = CR /\ t[3 * i] = LF
          BY <2>3, <3>1 DEF Shaped
        <4>2. 3 * i - 2 \in 1..l /\ 3 * i - 1 \in 1..l /\ 3 * i \in 1..l
          BY <2>6, <3>1
        <4>3. a[i] = r[i]
          BY <2>2, <3>1
        <4> QED
          BY <2>6, <4>1, <4>2, <4>3
      <3>2. CASE i = k + 1
        <4>1. 3 * i - 2 = l + 1 /\ 3 * i - 1 = l + 2 /\ 3 * i = l + 3
          BY <2>6, <3>2
        <4>2. a[i] = e
          BY <2>2, <3>2
        <4> QED
          BY <2>6, <4>1, <4>2
      <3>3. i \in 1..k \/ i = k + 1
        BY <2>6
      <3> QED
        BY <3>1, <3>2, <3>3
    <2>8. Shaped(u, a)
      BY <2>2, <2>6, <2>7 DEF Shaped, l
    <2> QED
      BY <2>1, <2>2, <2>8 DEF u, a
  <1> HIDE DEF T
  <1>3. Seq(Lines) \subseteq T
    BY <1>1, <1>2, SeqInduct
  <1> QED
    BY <1>3 DEF T

BlankAt(b, p) == b[p] = CR /\ b[p + 1] = LF /\ b[p + 2] = CR /\ b[p + 3] = LF

LEMMA BytesShaped ==
    ASSUME NEW r \in Seq(Lines), r # <<>>
    PROVE  /\ Bytes(r) \in Seq(Byte)
           /\ Len(Bytes(r)) \in Nat /\ Len(Bytes(r)) >= 5
           /\ \A p \in 1..(Len(Bytes(r)) - 3) : BlankAt(Bytes(r), p) <=> p = Len(Bytes(r)) - 3
  <1> DEFINE t == FlattenSeq(LinesOf(r))
             b == Bytes(r)
             k == Len(r)
             e == <<CR, LF>>
  <1>1. Shaped(t, r)
    BY LinesShaped
  <1>2. b = t \o e
    BY DEF Bytes, LinesOf
  <1>3. k \in Nat \ {0} /\ \A i \in 1..k : r[i] # CR /\ r[i] # LF
    <2>1. k \in Nat \ {0} /\ \A i \in 1..k : r[i] \in Lines
      BY LenProperties, ElementOfSeq, EmptySeq
    <2> QED
      BY <2>1, ConnectionsAssumption DEF ConnectionsAssumption
  <1>4. e \in Seq(Byte) /\ Len(e) = 2 /\ e[1] = CR /\ e[2] = LF
    BY DEF Byte
  <1>5. CR # LF
    BY ConnectionsAssumption DEF ConnectionsAssumption
  <1> HIDE DEF t, b, k, e
  <1>6. t \in Seq(Byte) /\ Len(t) = 3 * k
        /\ \A i \in 1..k : t[3 * i - 2] = r[i] /\ t[3 * i - 1] = CR /\ t[3 * i] = LF
    BY <1>1 DEF Shaped, k
  <1> DEFINE l == 3 * k
  <1> HIDE DEF l
  <1>7. /\ b \in Seq(Byte) /\ Len(b) = l + 2
        /\ \A i \in 1..l : b[i] = t[i]
        /\ b[l + 1] = CR /\ b[l + 2] = LF
    <2>1. /\ b \in Seq(Byte) /\ Len(b) = l + 2 /\ \A i \in 1..l : b[i] = t[i]
          /\ \A i \in 1..2 : b[l + i] = e[i]
      <3>1. b \in Seq(Byte) /\ Joins(b, t, e, Len(t), Len(e))
        BY <1>2, <1>4, <1>6, Concat
      <3>2. Len(t) = l /\ Len(e) = 2
        BY <1>4, <1>6 DEF l
      <3> QED
        BY <3>1, <3>2 DEF Joins
    <2> QED
      BY <1>4, <2>1
  <1>8. ASSUME NEW i \in 1..k
        PROVE  b[3 * i - 2] = r[i] /\ b[3 * i - 1] = CR /\ b[3 * i] = LF
    <2>1. 3 * i - 2 \in 1..l /\ 3 * i - 1 \in 1..l /\ 3 * i \in 1..l
      BY <1>3 DEF l
    <2> QED
      BY <1>6, <1>7, <2>1
  <1>9. b[3 * k + 1] = CR /\ b[3 * k + 2] = LF
    BY <1>7 DEF l
  <1>10. BlankAt(b, 3 * k - 1)
    <2>1. b[3 * k - 1] = CR /\ b[3 * k] = LF
      <3>1. k \in 1..k
        BY <1>3
      <3> QED
        BY <1>8, <3>1
    <2>2. (3 * k - 1) + 1 = 3 * k /\ (3 * k - 1) + 2 = 3 * k + 1 /\ (3 * k - 1) + 3 = 3 * k + 2
      BY <1>3
    <2> QED
      BY <1>9, <2>1, <2>2 DEF BlankAt
  <1>11. ASSUME NEW p \in 1..(3 * k - 2), BlankAt(b, p) PROVE FALSE
    <2> DEFINE i == (p + 4) \div 3
    <2>1. i \in 1..k /\ (p = 3 * i - 2 \/ p + 1 = 3 * i - 2 \/ p + 2 = 3 * i - 2)
      BY <1>3
    <2> HIDE DEF i
    <2>2. b[3 * i - 2] = r[i] /\ r[i] # CR /\ r[i] # LF
      BY <1>3, <1>8, <2>1
    <2> QED
      BY <1>11, <2>1, <2>2 DEF BlankAt
  <1>12. Len(b) \in Nat /\ Len(b) >= 5 /\ Len(b) - 3 = 3 * k - 1
    BY <1>3, <1>7 DEF l
  <1>13. ASSUME NEW p \in 1..(Len(b) - 3) PROVE BlankAt(b, p) <=> p = Len(b) - 3
    <2>1. CASE p = 3 * k - 1
      BY <1>10, <1>12, <2>1
    <2>2. CASE p \in 1..(3 * k - 2)
      BY <1>3, <1>11, <1>12, <2>2
    <2> QED
      BY <1>3, <1>12, <2>1, <2>2
  <1> QED
    BY <1>7, <1>12, <1>13 DEF b

LEMMA BlankFound ==
    ASSUME NEW b \in Seq(Byte), NEW p \in Int, 1 <= p, p + 3 <= Len(b)
    PROVE  SubSeq(b, p, p + 3) = Blank <=> BlankAt(b, p)
  <1> DEFINE s == SubSeq(b, p, p + 3)
  <1>1. \A i \in p..(p + 3) : b[i] \in Byte
    BY LenProperties, ElementOfSeq
  <1>2. /\ s \in Seq(Byte) /\ Len(s) = 4
        /\ \A i \in 1..4 : s[i] = b[p + i - 1]
    <2>1. /\ s \in Seq(Byte) /\ Len(s) = IF p <= p + 3 THEN (p + 3) - p + 1 ELSE 0
          /\ \A i \in 1..((p + 3) - p + 1) : s[i] = b[p + i - 1]
      BY <1>1, SubSeqProperties
    <2>2. (p + 3) - p + 1 = 4 /\ p <= p + 3
      OBVIOUS
    <2> QED
      BY <2>1, <2>2
  <1> HIDE DEF s
  <1>3. s[1] = b[p] /\ s[2] = b[p + 1] /\ s[3] = b[p + 2] /\ s[4] = b[p + 3]
    BY <1>2
  <1>4. CR \in Byte /\ LF \in Byte
    BY DEF Byte
  <1>5. Blank \in Seq(Byte) /\ Len(Blank) = 4 /\ Blank[1] = CR /\ Blank[2] = LF /\ Blank[3] = CR /\ Blank[4] = LF
    BY <1>4 DEF Blank
  <1>6. (s[1] = Blank[1] /\ s[2] = Blank[2] /\ s[3] = Blank[3] /\ s[4] = Blank[4]) => s = Blank
    <2> SUFFICES ASSUME s[1] = Blank[1], s[2] = Blank[2], s[3] = Blank[3], s[4] = Blank[4]
                 PROVE  s = Blank
      OBVIOUS
    <2>1. \A i \in 1..Len(s) : s[i] = Blank[i]
      BY <1>2
    <2> QED
      BY <1>2, <1>5, <2>1, SeqEqual
  <1>7. s = Blank <=> BlankAt(b, p)
    BY <1>3, <1>5, <1>6 DEF BlankAt
  <1> QED
    BY <1>7 DEF s

Written(u) ==
    /\ u \in Seq(Seq(Byte))
    /\ \A i \in 1..Len(u) : \E r \in Seq(Lines) : r # <<>> /\ u[i] = Bytes(r)

(* What read() hands to parse_request, when it ends in an empty line and    *)
(* has none before, is the first request, whole and alone.                  *)
LEMMA RequestFound ==
    ASSUME NEW u, Written(u), NEW buf \in Seq(Byte), NEW rest \in Seq(Byte),
           buf \o rest = FlattenSeq(u), Complete(buf), ~Merged(buf)
    PROVE  u # <<>> /\ buf = Head(u) /\ rest = FlattenSeq(Tail(u))
  <1> DEFINE w == buf \o rest
             n == Len(buf)
  <1>1. n \in Nat /\ n >= 4 /\ w \in Seq(Byte) /\ Joins(w, buf, rest, n, Len(rest)) /\ Len(rest) \in Nat
    BY Concat, LenProperties DEF Complete
  <1>2. BlankAt(buf, n - 3)
    <2> DEFINE q == n - 3
    <2>1. q \in Int /\ 1 <= q /\ q + 3 = n
      BY <1>1
    <2>2. SubSeq(buf, q, n) = Blank
      BY DEF Complete
    <2> HIDE DEF q
    <2>3. SubSeq(buf, q, q + 3) = Blank
      BY <2>1, <2>2
    <2>4. BlankAt(buf, q)
      BY <2>1, <2>3, BlankFound
    <2> QED
      BY <2>4 DEF q
  <1>3. u # <<>>
    <2> SUFFICES ASSUME u = <<>> PROVE FALSE
      OBVIOUS
    <2>1. w = <<>>
      BY FlattenEmpty
    <2>2. Len(w) = 0
      BY <2>1
    <2> QED
      BY <1>1, <2>2 DEF Joins
  <1> DEFINE b == Head(u)
             f == FlattenSeq(Tail(u))
             m == Len(b)
  <1>4. /\ b \in Seq(Byte) /\ m \in Nat /\ m >= 5
        /\ \A p \in 1..(m - 3) : BlankAt(b, p) <=> p = m - 3
    <2>1. Head(u) = u[1] /\ 1 \in 1..Len(u)
      BY <1>3, EmptySeq DEF Written
    <2>2. PICK r \in Seq(Lines) : r # <<>> /\ Head(u) = Bytes(r)
      BY <2>1 DEF Written
    <2> QED
      BY <2>2, BytesShaped
  <1>5. f \in Seq(Byte) /\ Len(f) \in Nat
    <2>1. Tail(u) \in Seq(Seq(Byte))
      BY <1>3, HeadTailProperties DEF Written
    <2> QED
      BY <2>1, FlattenType, LenProperties
  <1>6. w = b \o f
    BY <1>3, FlattenCons DEF Written
  <1>7. Joins(w, b, f, m, Len(f))
    BY <1>4, <1>5, <1>6, Concat
  <1> HIDE DEF w, n, b, f, m
  <1>8. (\A i \in 1..n : w[i] = buf[i]) /\ (\A i \in 1..m : w[i] = b[i])
    BY <1>1, <1>7 DEF Joins
  <1>9. ~(n < m)
    <2> SUFFICES ASSUME n < m PROVE FALSE
      OBVIOUS
    <2>1. n - 3 \in 1..(m - 3) /\ n - 3 # m - 3
      BY <1>1, <1>4
    <2>2. n - 3 \in 1..n /\ (n - 3) + 1 \in 1..n /\ (n - 3) + 2 \in 1..n /\ (n - 3) + 3 \in 1..n
          /\ n - 3 \in 1..m /\ (n - 3) + 1 \in 1..m /\ (n - 3) + 2 \in 1..m /\ (n - 3) + 3 \in 1..m
      BY <1>1, <1>4
    <2>3. BlankAt(b, n - 3)
      BY <1>2, <1>8, <2>2 DEF BlankAt
    <2> QED
      BY <1>4, <2>1, <2>3
  <1>10. ~(n > m)
    <2> SUFFICES ASSUME n > m PROVE FALSE
      OBVIOUS
    <2> DEFINE q == m - 3
    <2>1. q \in 1..(m - 3) /\ q \in 1..(n - 4) /\ q + 3 = m /\ 1 <= q /\ q + 3 <= n /\ q \in Int
      BY <1>1, <1>4
    <2>2. q \in 1..n /\ q + 1 \in 1..n /\ q + 2 \in 1..n /\ q + 3 \in 1..n
          /\ q \in 1..m /\ q + 1 \in 1..m /\ q + 2 \in 1..m /\ q + 3 \in 1..m
      BY <1>1, <1>4
    <2>3. BlankAt(b, q)
      BY <1>4, <2>1
    <2> HIDE DEF q
    <2>4. BlankAt(buf, q)
      BY <1>8, <2>2, <2>3 DEF BlankAt
    <2>5. SubSeq(buf, q, q + 3) = Blank
      BY <2>1, <2>4, BlankFound DEF n
    <2> QED
      BY <2>1, <2>5 DEF Merged, n
  <1>11. n = m
    BY <1>1, <1>4, <1>9, <1>10
  <1>12. buf = b
    <2>1. \A i \in 1..Len(buf) : buf[i] = b[i]
      BY <1>8, <1>11 DEF n
    <2>2. Len(buf) = Len(b)
      BY <1>11 DEF n, m
    <2> QED
      BY <1>4, <2>1, <2>2, SeqEqual
  <1>13. rest = f
    <2>1. w = b \o rest
      BY <1>12 DEF w
    <2> QED
      BY <1>4, <1>5, <1>6, <2>1, ConcatSimplifications
  <1> QED
    BY <1>3, <1>12, <1>13 DEF b, f

-------------------------------------------------------------------------------
(***************************************************************************)
(* The inductive invariant: of a client that has come and whose connection  *)
(* has not ended, the bytes kept and to come are its requests that were     *)
(* written and not yet parsed, and what has been parsed are the others.     *)
(***************************************************************************)
Pending(c, s, p) == [i \in 1..(s - Len(p)) |-> Bytes(Script[c][Len(p) + i])]

Stream(c) ==
    /\ Len(parsed[c]) <= sent[c] /\ sent[c] <= Len(Script[c])
    /\ conn[c] = "away" => sent[c] = 0 /\ wire[c] = <<>> /\ read_buf[c] = <<>>
    /\ conn[c] \in {"backlog", "open"} =>
          read_buf[c] \o wire[c] = FlattenSeq(Pending(c, sent[c], parsed[c]))

IInv ==
    /\ TypeOK
    /\ ~up => sockets = unit
    /\ \A c \in Clients : Stream(c)

LEMMA Scripted ==
    ASSUME NEW c \in Clients
    PROVE  /\ Len(Script[c]) \in Nat
           /\ \A k \in 1..Len(Script[c]) :
                 /\ Script[c][k] \in Seq(Lines) /\ Script[c][k] # <<>>
                 /\ Script[c][k] \in Range(Script[c])
                 /\ Bytes(Script[c][k]) \in Seq(Byte)
  <1>1. Script[c] \in Seq(Seq(Lines)) /\ \A r \in Range(Script[c]) : r # <<>>
    BY ConnectionsAssumption DEF ConnectionsAssumption
  <1>2. Len(Script[c]) \in Nat /\ DOMAIN Script[c] = 1..Len(Script[c])
    BY <1>1, LenProperties
  <1>3. ASSUME NEW k \in 1..Len(Script[c])
        PROVE  Script[c][k] \in Seq(Lines) /\ Script[c][k] \in Range(Script[c])
    BY <1>1, <1>2, ElementOfSeq DEF Range
  <1> QED
    BY <1>1, <1>2, <1>3, BytesShaped

LEMMA PendingWritten ==
    ASSUME NEW c \in Clients, NEW s \in Nat, NEW p \in Seq(Seq(Byte)),
           Len(p) <= s, s <= Len(Script[c])
    PROVE  Written(Pending(c, s, p)) /\ Len(Pending(c, s, p)) = s - Len(p)
  <1> DEFINE u == Pending(c, s, p)
             n == s - Len(p)
  <1>1. Len(p) \in Nat /\ n \in Nat
    BY LenProperties
  <1>2. ASSUME NEW i \in 1..n PROVE Len(p) + i \in 1..Len(Script[c])
    BY <1>1, Scripted
  <1>3. \A i \in 1..n : u[i] = Bytes(Script[c][Len(p) + i])
    BY DEF Pending
  <1>4. u \in [1..n -> Seq(Byte)]
    BY <1>2, <1>3, Scripted DEF Pending
  <1> HIDE DEF u, n
  <1>5. u \in Seq(Seq(Byte)) /\ Len(u) = n
    BY <1>1, <1>4
  <1>6. \A i \in 1..n : \E r \in Seq(Lines) : r # <<>> /\ u[i] = Bytes(r)
    BY <1>2, <1>3, Scripted
  <1> QED
    BY <1>5, <1>6 DEF Written, u, n

LEMMA PendingSent ==
    ASSUME NEW c \in Clients, NEW s \in Nat, NEW p \in Seq(Seq(Byte)),
           Len(p) <= s, s < Len(Script[c])
    PROVE  Pending(c, s + 1, p) = Append(Pending(c, s, p), Bytes(Script[c][s + 1]))
  <1> DEFINE u == Pending(c, s, p)
             v == Pending(c, s + 1, p)
             n == s - Len(p)
             e == Bytes(Script[c][s + 1])
  <1>1. Len(p) \in Nat /\ n \in Nat /\ s + 1 <= Len(Script[c]) /\ s <= Len(Script[c])
        /\ Len(p) <= s + 1 /\ s + 1 - Len(p) = n + 1 /\ s + 1 \in 1..Len(Script[c])
    BY LenProperties, Scripted
  <1>2. u \in Seq(Seq(Byte)) /\ v \in Seq(Seq(Byte)) /\ Len(u) = n /\ Len(v) = n + 1
    BY <1>1, PendingWritten DEF Written
  <1>3. e \in Seq(Byte)
    BY <1>1, Scripted
  <1>4. /\ \A i \in 1..n : u[i] = Bytes(Script[c][Len(p) + i])
        /\ \A i \in 1..(n + 1) : v[i] = Bytes(Script[c][Len(p) + i])
    BY <1>1 DEF Pending
  <1>5. Len(p) + (n + 1) = s + 1
    BY <1>1
  <1>6. v[n + 1] = e
    BY <1>1, <1>4, <1>5
  <1> HIDE DEF u, v, n, e
  <1>7. /\ Append(u, e) \in Seq(Seq(Byte)) /\ Len(Append(u, e)) = n + 1
        /\ \A i \in 1..n : Append(u, e)[i] = u[i]
        /\ Append(u, e)[n + 1] = e
    BY <1>2, <1>3, AppendProperties
  <1>8. ASSUME NEW i \in 1..(n + 1) PROVE v[i] = Append(u, e)[i]
    <2>1. CASE i \in 1..n
      BY <1>1, <1>4, <1>7, <2>1
    <2>2. CASE i = n + 1
      BY <1>6, <1>7, <2>2
    <2>3. i \in 1..n \/ i = n + 1
      BY <1>1
    <2> QED
      BY <2>1, <2>2, <2>3
  <1>9. v = Append(u, e)
    BY <1>2, <1>7, <1>8, SeqEqual
  <1> QED
    BY <1>9 DEF u, v, e

LEMMA PendingHandled ==
    ASSUME NEW c \in Clients, NEW s \in Nat, NEW p \in Seq(Seq(Byte)), NEW b \in Seq(Byte),
           Len(p) < s, s <= Len(Script[c])
    PROVE  Pending(c, s, Append(p, b)) = Tail(Pending(c, s, p))
  <1> DEFINE u == Pending(c, s, p)
             q == Append(p, b)
             v == Pending(c, s, q)
             n == s - Len(p)
  <1>1. q \in Seq(Seq(Byte)) /\ Len(q) = Len(p) + 1 /\ Len(p) \in Nat
    BY AppendProperties, LenProperties
  <1>2. n \in Nat \ {0} /\ s - Len(q) = n - 1 /\ Len(q) <= s /\ Len(p) <= s
    BY <1>1
  <1>3. u \in Seq(Seq(Byte)) /\ v \in Seq(Seq(Byte)) /\ Len(u) = n /\ Len(v) = n - 1
    BY <1>1, <1>2, PendingWritten DEF Written
  <1>4. /\ \A i \in 1..n : u[i] = Bytes(Script[c][Len(p) + i])
        /\ \A i \in 1..(n - 1) : v[i] = Bytes(Script[c][Len(q) + i])
    BY <1>2 DEF Pending
  <1> HIDE DEF u, v, n, q
  <1>5. /\ Tail(u) \in Seq(Seq(Byte)) /\ Len(Tail(u)) = n - 1
        /\ \A i \in 1..(n - 1) : Tail(u)[i] = u[i + 1]
    BY <1>2, <1>3, EmptySeq, HeadTailProperties
  <1>6. ASSUME NEW i \in 1..(n - 1) PROVE v[i] = Tail(u)[i]
    <2>1. i + 1 \in 1..n /\ Len(q) + i = Len(p) + (i + 1)
      BY <1>1, <1>2
    <2> QED
      BY <1>4, <1>5, <2>1
  <1>7. v = Tail(u)
    BY <1>3, <1>5, <1>6, SeqEqual
  <1> QED
    BY <1>7 DEF u, v, q

-------------------------------------------------------------------------------
(***************************************************************************)
(* What a step leaves of a client's stream, and what the channel sees of it *)
(***************************************************************************)
Shown == [Channel!Next]_(Channel!vars)

LEMMA Typed ==
    ASSUME TypeOK, NEW c \in Clients
    PROVE  /\ sent[c] \in Nat /\ parsed[c] \in Seq(Seq(Byte))
           /\ wire[c] \in Seq(Byte) /\ read_buf[c] \in Seq(Byte)
           /\ conn[c] \in {"away", "backlog", "open", "ended"}
  BY DEF TypeOK

LEMMA UnparsedPending ==
    ASSUME NEW c \in Clients
    PROVE  /\ conn[c] = "ended" => Unparsed(c) = <<>>
           /\ conn[c] # "ended" => Unparsed(c) = Pending(c, sent[c], parsed[c])
           /\ conn'[c] = "ended" => Unparsed(c)' = <<>>
           /\ conn'[c] # "ended" => Unparsed(c)' = Pending(c, sent'[c], parsed'[c])
  BY DEF Unparsed, Pending

LEMMA NothingPending ==
    ASSUME TypeOK, NEW c \in Clients, Stream(c), conn[c] = "away"
    PROVE  Pending(c, sent[c], parsed[c]) = <<>> /\ read_buf[c] = <<>> /\ wire[c] = <<>>
  <1>1. Len(Pending(c, sent[c], parsed[c])) = sent[c] - Len(parsed[c])
        /\ Written(Pending(c, sent[c], parsed[c]))
    BY Typed, PendingWritten DEF Stream
  <1>2. sent[c] = 0 /\ Len(parsed[c]) = 0
    BY Typed, LenProperties DEF Stream
  <1>3. Pending(c, sent[c], parsed[c]) \in Seq(Seq(Byte)) /\ Len(Pending(c, sent[c], parsed[c])) = 0
    BY <1>1, <1>2 DEF Written
  <1> QED
    BY <1>3, EmptySeq DEF Stream

LEMMA StreamKept ==
    ASSUME NEW c \in Clients, Stream(c), conn'[c] = conn[c], sent'[c] = sent[c],
           parsed'[c] = parsed[c], wire'[c] = wire[c], read_buf'[c] = read_buf[c]
    PROVE  Stream(c)' /\ Unparsed(c)' = Unparsed(c)
  BY UnparsedPending DEF Stream

LEMMA StreamEnded ==
    ASSUME NEW c \in Clients, conn'[c] = "ended", sent'[c] = sent[c],
           Stream(c), Len(parsed'[c]) <= sent[c]
    PROVE  Stream(c)' /\ Unparsed(c)' = <<>>
  BY UnparsedPending DEF Stream

(* What the channel sees of a step that changes the stream of one client.   *)
LEMMA OneSends ==
    ASSUME NEW c \in Clients, NEW k \in 1..Len(Script[c]), parsed' = parsed,
           Unparsed(c)' = Append(Unparsed(c), Bytes(Script[c][k])),
           \A d \in Clients \ {c} : Unparsed(d)' = Unparsed(d)
    PROVE  Shown
  <1> DEFINE coming == [d \in Clients |-> Unparsed(d)]
             r == Bytes(Script[c][k])
  <1>1. r \in UNION {{Bytes(q) : q \in Range(Script[d])} : d \in Clients}
    BY Scripted
  <1>2. coming' = [coming EXCEPT ![c] = Append(@, r)]
    OBVIOUS
  <1> QED
    BY <1>1, <1>2 DEF Shown, Channel!Next, Channel!Send

LEMMA OneHandled ==
    ASSUME NEW c \in Clients, Unparsed(c) # <<>>,
           parsed' = [parsed EXCEPT ![c] = Append(@, Head(Unparsed(c)))],
           Unparsed(c)' = Tail(Unparsed(c)) \/ Unparsed(c)' = <<>>,
           \A d \in Clients \ {c} : Unparsed(d)' = Unparsed(d)
    PROVE  Shown
  <1> DEFINE coming == [d \in Clients |-> Unparsed(d)]
  <1>1. coming[c] = Unparsed(c)
    OBVIOUS
  <1>2. coming' = [coming EXCEPT ![c] = Tail(@)] \/ coming' = [coming EXCEPT ![c] = <<>>]
    OBVIOUS
  <1> QED
    BY <1>1, <1>2 DEF Shown, Channel!Next, Channel!Handle

LEMMA SomeEnd ==
    ASSUME NEW lost \in SUBSET Clients, parsed' = parsed,
           \A d \in Clients : Unparsed(d)' = IF d \in lost THEN <<>> ELSE Unparsed(d)
    PROVE  Shown
  <1> DEFINE coming == [d \in Clients |-> Unparsed(d)]
  <1>1. coming' = [d \in Clients |-> IF d \in lost THEN <<>> ELSE coming[d]]
    OBVIOUS
  <1> QED
    BY <1>1 DEF Shown, Channel!Next, Channel!End

LEMMA NothingShown ==
    ASSUME parsed' = parsed, \A d \in Clients : Unparsed(d)' = Unparsed(d)
    PROVE  Shown
  BY DEF Shown, Channel!vars

-------------------------------------------------------------------------------
(***************************************************************************)
(* One lemma for each action                                                *)
(***************************************************************************)
Kept == IInv' /\ Shown

LEMMA ConnectKept == ASSUME IInv, NEW c \in Clients, Connect(c) PROVE Kept
  <1>1. TypeOK'
    <2>1. at' \in [Clients -> 0..2]
      <3>1. PICK i \in DOMAIN sockets : at' = [at EXCEPT ![c] = i]
        BY DEF Connect
      <3>2. i \in 0..2
        BY <3>1, LenProperties DEF IInv, TypeOK
      <3> QED
        BY <3>1, <3>2 DEF IInv, TypeOK
    <2> QED
      BY <2>1 DEF IInv, TypeOK, Connect, listeners, streams
  <1>2. (~up => sockets = unit)'
    BY DEF IInv, Connect, listeners
  <1>3. ASSUME NEW d \in Clients PROVE Stream(d)' /\ Unparsed(d)' = Unparsed(d)
    <2>1. CASE d = c
      <3>1. conn[c] = "away" /\ conn'[c] = "backlog" /\ UNCHANGED streams /\ Stream(c) /\ TypeOK
        BY DEF Connect, IInv, TypeOK
      <3>2. Pending(c, sent[c], parsed[c]) = <<>> /\ read_buf[c] = <<>> /\ wire[c] = <<>>
        BY <3>1, NothingPending
      <3>3. read_buf[c] \o wire[c] = FlattenSeq(Pending(c, sent[c], parsed[c]))
        <4>1. <<>> \o <<>> = <<>>
          OBVIOUS
        <4> QED
          BY <3>2, <4>1, FlattenEmpty
      <3>4. Stream(c)'
        BY <3>1, <3>3 DEF Stream, streams
      <3> QED
        BY <2>1, <3>1, <3>4, UnparsedPending DEF streams
    <2>2. CASE d # c
      BY <2>2, StreamKept DEF IInv, TypeOK, Connect, streams
    <2> QED
      BY <2>1, <2>2
  <1>4. Shown
    BY <1>3, NothingShown DEF Connect, streams
  <1> QED
    BY <1>1, <1>2, <1>3, <1>4 DEF Kept, IInv

LEMMA WriteKept == ASSUME IInv, NEW c \in Clients, Write(c) PROVE Kept
  <1> DEFINE k == sent[c] + 1
             r == Bytes(Script[c][k])
             u == Pending(c, sent[c], parsed[c])
  <1>1. /\ TypeOK /\ Stream(c) /\ conn[c] \in {"backlog", "open"} /\ sent[c] < Len(Script[c])
        /\ UNCHANGED <<listeners, conn, at, gone, read_buf, parsed>>
        /\ sent' = [sent EXCEPT ![c] = k] /\ wire' = [wire EXCEPT ![c] = wire[c] \o r]
    BY DEF IInv, Write
  <1>2. /\ sent[c] \in Nat /\ parsed[c] \in Seq(Seq(Byte))
        /\ wire[c] \in Seq(Byte) /\ read_buf[c] \in Seq(Byte)
    BY <1>1, Typed
  <1>3. k \in 1..Len(Script[c]) /\ r \in Seq(Byte) /\ Len(parsed[c]) <= sent[c] /\ k \in Nat
    BY <1>1, <1>2, Scripted DEF Stream
  <1>4. TypeOK'
    <2>1. sent' \in [Clients -> Nat]
      BY <1>1, <1>3 DEF TypeOK
    <2>2. wire[c] \o r \in Seq(Byte)
      BY <1>2, <1>3, ConcatProperties
    <2>3. wire' \in [Clients -> Seq(Byte)]
      BY <1>1, <2>2 DEF TypeOK
    <2> QED
      BY <1>1, <2>1, <2>3 DEF TypeOK, listeners
  <1>5. Pending(c, k, parsed[c]) = Append(u, r)
    BY <1>1, <1>2, <1>3, PendingSent
  <1>6. FlattenSeq(Append(u, r)) = FlattenSeq(u) \o r
    <2>1. u \in Seq(Seq(Byte))
      BY <1>1, <1>2, <1>3, PendingWritten DEF Written
    <2> QED
      BY <1>3, <2>1, FlattenAppend
  <1>7. (read_buf[c] \o wire[c]) \o r = read_buf[c] \o (wire[c] \o r)
    <2> DEFINE x == read_buf[c]
               y == wire[c]
    <2>1. x \in Seq(Byte) /\ y \in Seq(Byte) /\ r \in Seq(Byte)
      BY <1>2, <1>3
    <2> HIDE DEF x, y, r
    <2>2. (x \o y) \o r = x \o (y \o r)
      BY <2>1, ConcatAssociative
    <2> QED
      BY <2>2 DEF x, y
  <1>8. sent'[c] = k /\ wire'[c] = wire[c] \o r /\ parsed'[c] = parsed[c]
        /\ read_buf'[c] = read_buf[c] /\ conn'[c] = conn[c]
    BY <1>1 DEF TypeOK
  <1>9. Stream(c)'
    <2>1. read_buf[c] \o wire[c] = FlattenSeq(u)
      BY <1>1 DEF Stream
    <2>2. read_buf'[c] \o wire'[c] = FlattenSeq(Pending(c, sent'[c], parsed'[c]))
      BY <1>5, <1>6, <1>7, <1>8, <2>1
    <2>3. Len(parsed[c]) <= k /\ k <= Len(Script[c])
      BY <1>2, <1>3, LenProperties
    <2>4. conn'[c] # "away"
      BY <1>1, <1>8
    <2> HIDE DEF k, r, u
    <2> QED
      BY <1>8, <2>2, <2>3, <2>4 DEF Stream
  <1>10. Unparsed(c)' = Append(Unparsed(c), r)
    BY <1>1, <1>5, <1>8, UnparsedPending
  <1>11. ASSUME NEW d \in Clients, d # c PROVE Stream(d)' /\ Unparsed(d)' = Unparsed(d)
    <2>1. /\ Stream(d) /\ conn'[d] = conn[d] /\ sent'[d] = sent[d] /\ parsed'[d] = parsed[d]
          /\ wire'[d] = wire[d] /\ read_buf'[d] = read_buf[d]
      BY <1>1, <1>11 DEF TypeOK, IInv
    <2> QED
      BY <2>1, StreamKept
  <1>12. Shown
    BY <1>1, <1>3, <1>10, <1>11, OneSends
  <1>13. (~up => sockets = unit)'
    BY <1>1 DEF IInv, listeners
  <1> QED
    BY <1>4, <1>9, <1>11, <1>12, <1>13 DEF Kept, IInv

(* Steps that leave the streams and the requests as they are.               *)
LEMMA StreamsKept ==
    ASSUME IInv, TypeOK', (~up => sockets = unit)', UNCHANGED <<conn, streams>>
    PROVE  Kept
  <1>1. ASSUME NEW d \in Clients PROVE Stream(d)' /\ Unparsed(d)' = Unparsed(d)
    BY StreamKept DEF IInv, streams
  <1> QED
    BY <1>1, NothingShown DEF Kept, IInv, streams

LEMMA LeaveKept == ASSUME IInv, NEW c \in Clients, Leave(c) PROVE Kept
  <1>1. ASSUME NEW d \in Clients PROVE Stream(d)' /\ Unparsed(d)' = Unparsed(d)
    BY StreamKept DEF IInv, Leave
  <1>2. TypeOK' /\ (~up => sockets = unit)'
    BY DEF IInv, TypeOK, Leave, listeners
  <1>3. parsed' = parsed
    BY DEF Leave
  <1> QED
    BY <1>1, <1>2, <1>3, NothingShown DEF Kept, IInv

LEMMA ActivateKept == ASSUME IInv, Activate PROVE Kept
  <1>1. /\ TypeOK /\ sockets = unit /\ unit # <<>> /\ up' = TRUE
        /\ sockV4' = Slots(sockets).v4 /\ sockV6' = Slots(sockets).v6
        /\ UNCHANGED <<unit, sockets, conn, at, streams>>
    BY DEF IInv, Activate
  <1>2. Len(sockets) \in 1..2
    <2>1. sockets \in Seq(SocketType) /\ Len(sockets) <= 2 /\ sockets # <<>>
      BY <1>1 DEF TypeOK
    <2> DEFINE l == Len(sockets)
    <2>2. l \in Nat \ {0} /\ l <= 2
      BY <2>1, EmptySeq
    <2> HIDE DEF l
    <2>3. l \in 1..2
      BY <2>2
    <2> QED
      BY <2>3 DEF l
  <1>3. Slots(sockets).v4 \in 0..Len(sockets) /\ Slots(sockets).v6 \in 0..Len(sockets)
    BY <1>2 DEF Slots
  <1>4. TypeOK'
    BY <1>1, <1>3 DEF TypeOK, streams
  <1> QED
    BY <1>1, <1>4, StreamsKept

LEMMA StartByHandKept == ASSUME IInv, StartByHand PROVE Kept
  <1>1. /\ TypeOK /\ up' = TRUE /\ sockets' = OwnSockets /\ sockV4' = 1 /\ sockV6' = 2
        /\ UNCHANGED <<unit, conn, at, streams>>
    BY DEF IInv, StartByHand
  <1>2. OwnSockets \in Seq(SocketType) /\ Len(OwnSockets) = 2
    BY DEF OwnSockets, SocketType
  <1>3. TypeOK'
    BY <1>1, <1>2 DEF TypeOK, streams
  <1> QED
    BY <1>1, <1>3, StreamsKept

LEMMA AcceptKept == ASSUME IInv, NEW c \in Clients, Accept(c) PROVE Kept
  <1>1. ASSUME NEW d \in Clients PROVE Stream(d)' /\ Unparsed(d)' = Unparsed(d)
    <2>1. /\ Stream(d) /\ UNCHANGED streams
          /\ conn'[d] = conn[d] \/ (conn[d] = "backlog" /\ conn'[d] = "open")
      BY DEF IInv, Accept, TypeOK
    <2> QED
      BY <2>1, UnparsedPending DEF Stream, streams
  <1>2. TypeOK' /\ (~up => sockets = unit)'
    BY DEF IInv, TypeOK, Accept, listeners, streams
  <1>3. parsed' = parsed
    BY DEF Accept, streams
  <1> QED
    BY <1>1, <1>2, <1>3, NothingShown DEF Kept, IInv

LEMMA ServiceEndsKept == ASSUME IInv, ServiceEnds PROVE Kept
  <1> DEFINE lost == {c \in Clients : conn[c] = "open" \/ (conn[c] = "backlog" /\ unit = <<>>)}
  <1>1. /\ TypeOK /\ up' = FALSE /\ sockets' = unit /\ sockV4' = 0 /\ sockV6' = 0
        /\ conn' = [c \in Clients |-> IF c \in lost THEN "ended" ELSE conn[c]]
        /\ wire' = [c \in Clients |-> IF c \in lost THEN <<>> ELSE wire[c]]
        /\ read_buf' = [c \in Clients |-> IF c \in lost THEN <<>> ELSE read_buf[c]]
        /\ UNCHANGED <<unit, at, sent, gone, parsed>>
    BY DEF IInv, ServiceEnds
  <1> HIDE DEF lost
  <1>2. TypeOK'
    <2>1. unit \in Seq(SocketType) /\ Len(unit) <= 2 /\ Len(unit) \in Nat
      BY <1>1, ConnectionsAssumption, LenProperties DEF TypeOK, ConnectionsAssumption
    <2>2. conn' \in [Clients -> {"away", "backlog", "open", "ended"}]
      BY <1>1 DEF TypeOK
    <2>3. wire' \in [Clients -> Seq(Byte)] /\ read_buf' \in [Clients -> Seq(Byte)]
      BY <1>1, EmptySeq DEF TypeOK
    <2>4. unit' \in Units /\ up' \in BOOLEAN /\ at' \in [Clients -> 0..2]
          /\ sent' \in [Clients -> Nat] /\ gone' \subseteq Clients
          /\ parsed' \in [Clients -> Seq(Seq(Byte))]
      BY <1>1 DEF TypeOK
    <2>5. sockets' \in Seq(SocketType) /\ Len(sockets') <= 2
          /\ {sockV4', sockV6'} \subseteq 0..Len(sockets')
      BY <1>1, <2>1
    <2> QED
      BY <2>2, <2>3, <2>4, <2>5 DEF TypeOK
  <1>3. ASSUME NEW d \in Clients
        PROVE  Stream(d)' /\ Unparsed(d)' = IF d \in lost THEN <<>> ELSE Unparsed(d)
    <2>1. Stream(d)
      BY DEF IInv
    <2>2. CASE d \in lost
      <3>1. conn'[d] = "ended" /\ sent'[d] = sent[d] /\ Len(parsed'[d]) <= sent[d]
        BY <1>1, <2>1, <2>2 DEF Stream
      <3> QED
        BY <2>1, <2>2, <3>1, StreamEnded
    <2>3. CASE d \notin lost
      <3>1. /\ conn'[d] = conn[d] /\ sent'[d] = sent[d] /\ parsed'[d] = parsed[d]
            /\ wire'[d] = wire[d] /\ read_buf'[d] = read_buf[d]
        BY <1>1, <2>3
      <3> QED
        BY <2>1, <2>3, <3>1, StreamKept
    <2> QED
      BY <2>2, <2>3
  <1>4. Shown
    <2>1. lost \in SUBSET Clients
      BY DEF lost
    <2> QED
      BY <1>1, <1>3, <2>1, SomeEnd
  <1> QED
    BY <1>1, <1>2, <1>3, <1>4 DEF Kept, IInv

LEMMA ReadEofKept == ASSUME IInv, NEW c \in Clients, ReadEof(c) PROVE Kept
  <1>1. /\ TypeOK /\ up /\ conn' = [conn EXCEPT ![c] = "ended"]
        /\ wire' = [wire EXCEPT ![c] = <<>>] /\ read_buf' = [read_buf EXCEPT ![c] = <<>>]
        /\ UNCHANGED <<listeners, at, sent, gone, parsed>>
    BY DEF IInv, ReadEof, Close
  <1>2. TypeOK' /\ (~up => sockets = unit)'
    BY <1>1, EmptySeq DEF IInv, TypeOK, listeners
  <1>3. ASSUME NEW d \in Clients
        PROVE  Stream(d)' /\ Unparsed(d)' = IF d \in {c} THEN <<>> ELSE Unparsed(d)
    <2>1. Stream(d)
      BY DEF IInv
    <2>2. CASE d = c
      <3>1. conn'[d] = "ended" /\ sent'[d] = sent[d] /\ Len(parsed'[d]) <= sent[d]
        BY <1>1, <2>1, <2>2 DEF Stream, TypeOK
      <3> QED
        BY <2>1, <2>2, <3>1, StreamEnded
    <2>3. CASE d # c
      <3>1. /\ conn'[d] = conn[d] /\ sent'[d] = sent[d] /\ parsed'[d] = parsed[d]
            /\ wire'[d] = wire[d] /\ read_buf'[d] = read_buf[d]
        BY <1>1, <2>3 DEF TypeOK
      <3> QED
        BY <2>1, <2>3, <3>1, StreamKept
    <2> QED
      BY <2>2, <2>3
  <1>4. Shown
    BY <1>1, <1>3, SomeEnd
  <1> QED
    BY <1>2, <1>3, <1>4 DEF Kept, IInv

LEMMA ReadKept == ASSUME IInv, NEW c \in Clients, Read(c) PROVE Kept
  <1>1. /\ TypeOK /\ up /\ conn[c] = "open" /\ Stream(c)
        /\ sent[c] \in Nat /\ parsed[c] \in Seq(Seq(Byte))
        /\ wire[c] \in Seq(Byte) /\ read_buf[c] \in Seq(Byte)
    BY Typed DEF IInv, Read
  <1>2. PICK n \in 1..Len(wire[c]) :
            LET buf  == read_buf[c] \o SubSeq(wire[c], 1, n)
                rest == SubSeq(wire[c], n + 1, Len(wire[c]))
            IN
            /\ n <= RecvMax
            /\ \/ /\ ~Complete(buf)
                  /\ read_buf' = [read_buf EXCEPT ![c] = Keep(buf)]
                  /\ wire' = [wire EXCEPT ![c] = rest]
                  /\ UNCHANGED <<listeners, conn, at, sent, gone, parsed>>
               \/ /\ Complete(buf) /\ Merged(buf)
                  /\ ServiceEnds
               \/ /\ Complete(buf) /\ ~Merged(buf)
                  /\ parsed' = [parsed EXCEPT ![c] = Append(@, buf)]
                  /\ \/ /\ read_buf' = [read_buf EXCEPT ![c] = Keep(buf)]
                        /\ wire' = [wire EXCEPT ![c] = rest]
                        /\ UNCHANGED conn
                     \/ Close(c)
                  /\ UNCHANGED <<listeners, at, sent, gone>>
    BY DEF Read
  <1> DEFINE first == SubSeq(wire[c], 1, n)
             buf   == read_buf[c] \o first
             rest  == SubSeq(wire[c], n + 1, Len(wire[c]))
             u     == Pending(c, sent[c], parsed[c])
  <1>3. first \in Seq(Byte) /\ rest \in Seq(Byte) /\ first \o rest = wire[c]
    <2> DEFINE w == wire[c]
               l == Len(w)
    <2>1. w \in Seq(Byte) /\ l \in Nat /\ n \in 1..l /\ \A i \in 1..l : w[i] \in Byte
      BY <1>1, LenProperties, ElementOfSeq
    <2> HIDE DEF l
    <2>2. (\A i \in 1..n : w[i] \in Byte) /\ (\A i \in (n + 1)..l : w[i] \in Byte)
          /\ n \in Int /\ n + 1 \in Int /\ l \in Int /\ 1 \in Int
      BY <2>1
    <2>3. SubSeq(w, 1, n) \in Seq(Byte) /\ SubSeq(w, n + 1, l) \in Seq(Byte)
      BY <2>2, SubSeqProperties
    <2>4. SubSeq(w, 1, n) \o SubSeq(w, n + 1, l) = SubSeq(w, 1, l)
      <3>1. 1 \in 1..(l + 1) /\ n \in 0..l /\ 1 - 1 = 0 /\ l \in n..l
        BY <2>1
      <3> QED
        BY <2>1, <3>1, ConcatAdjacentSubSeq DEF l
    <2>5. SubSeq(w, 1, l) = w
      BY <2>1, SubSeqFull DEF l
    <2> QED
      BY <2>3, <2>4, <2>5 DEF l
  <1> HIDE DEF first, rest
  <1>4. buf \in Seq(Byte) /\ buf \o rest = FlattenSeq(u)
    <2> DEFINE x == read_buf[c]
    <2>1. x \in Seq(Byte)
      BY <1>1
    <2>2. x \o wire[c] = FlattenSeq(u)
      BY <1>1 DEF Stream
    <2> HIDE DEF x, u
    <2>3. first \in Seq(Byte) /\ rest \in Seq(Byte)
      BY <1>3
    <2>4. x \o first \in Seq(Byte)
      BY <2>1, <2>3, ConcatProperties
    <2>5. (x \o first) \o rest = x \o (first \o rest)
      BY <2>1, <2>3, ConcatAssociative
    <2> QED
      BY <1>3, <2>2, <2>4, <2>5 DEF x
  <1>5. Written(u) /\ Len(u) = sent[c] - Len(parsed[c]) /\ Len(parsed[c]) \in Nat
    BY <1>1, PendingWritten, LenProperties DEF Stream
  <1> HIDE DEF buf, u
  <1>6. \/ /\ ~Complete(buf)
           /\ read_buf' = [read_buf EXCEPT ![c] = Keep(buf)]
           /\ wire' = [wire EXCEPT ![c] = rest]
           /\ UNCHANGED <<listeners, conn, at, sent, gone, parsed>>
        \/ ServiceEnds
        \/ /\ Complete(buf) /\ ~Merged(buf)
           /\ parsed' = [parsed EXCEPT ![c] = Append(@, buf)]
           /\ \/ /\ read_buf' = [read_buf EXCEPT ![c] = Keep(buf)]
                 /\ wire' = [wire EXCEPT ![c] = rest]
                 /\ UNCHANGED conn
              \/ Close(c)
           /\ UNCHANGED <<listeners, at, sent, gone>>
    BY <1>2 DEF buf, first, rest
  <1>7. ASSUME NEW d \in Clients, d # c, conn'[d] = conn[d], sent' = sent,
               parsed'[d] = parsed[d], wire'[d] = wire[d], read_buf'[d] = read_buf[d]
        PROVE  Stream(d)' /\ Unparsed(d)' = Unparsed(d)
    BY <1>7, StreamKept DEF IInv
  <1>8. CASE ServiceEnds
    BY <1>8, ServiceEndsKept
  <1>9. CASE /\ ~Complete(buf)
             /\ read_buf' = [read_buf EXCEPT ![c] = Keep(buf)]
             /\ wire' = [wire EXCEPT ![c] = rest]
             /\ UNCHANGED <<listeners, conn, at, sent, gone, parsed>>
    <2>1. Keep(buf) = buf
      BY <1>9 DEF Keep
    <2>2. TypeOK' /\ (~up => sockets = unit)'
      BY <1>1, <1>3, <1>4, <1>9, <2>1 DEF TypeOK, listeners
    <2>3. read_buf'[c] = buf /\ wire'[c] = rest /\ UNCHANGED <<conn, sent, parsed>>
      BY <1>1, <1>9, <2>1 DEF TypeOK
    <2>4. Stream(c)'
      BY <1>1, <1>4, <2>3 DEF Stream, u
    <2>5. Unparsed(c)' = Unparsed(c)
      BY <2>3, UnparsedPending
    <2>6. ASSUME NEW d \in Clients, d # c PROVE Stream(d)' /\ Unparsed(d)' = Unparsed(d)
      <3>1. wire'[d] = wire[d] /\ read_buf'[d] = read_buf[d]
        BY <1>1, <1>9, <2>6 DEF TypeOK
      <3> QED
        BY <1>7, <2>3, <2>6, <3>1
    <2>7. Shown
      BY <2>3, <2>5, <2>6, NothingShown
    <2> QED
      BY <2>2, <2>4, <2>6, <2>7 DEF Kept, IInv
  <1>10. CASE /\ Complete(buf) /\ ~Merged(buf)
              /\ parsed' = [parsed EXCEPT ![c] = Append(@, buf)]
              /\ \/ /\ read_buf' = [read_buf EXCEPT ![c] = Keep(buf)]
                    /\ wire' = [wire EXCEPT ![c] = rest]
                    /\ UNCHANGED conn
                 \/ Close(c)
              /\ UNCHANGED <<listeners, at, sent, gone>>
    <2>1. u # <<>> /\ buf = Head(u) /\ rest = FlattenSeq(Tail(u))
      BY <1>3, <1>4, <1>5, <1>10, RequestFound
    <2>2. Keep(buf) = <<>>
      BY <1>10 DEF Keep
    <2>3. Len(parsed[c]) < sent[c] /\ sent[c] <= Len(Script[c])
      <3>1. Len(u) \in Nat \ {0}
        BY <1>5, <2>1, EmptySeq DEF Written
      <3> QED
        BY <1>1, <1>5, <3>1 DEF Stream
    <2>4. Pending(c, sent[c], Append(parsed[c], buf)) = Tail(u)
      BY <1>1, <1>4, <2>3, PendingHandled DEF u
    <2>5. Append(parsed[c], buf) \in Seq(Seq(Byte))
          /\ Len(Append(parsed[c], buf)) = Len(parsed[c]) + 1
      BY <1>1, <1>4, AppendProperties
    <2>6. Unparsed(c) = u
      BY <1>1, UnparsedPending DEF u
    <2>7. sent' = sent /\ parsed'[c] = Append(parsed[c], buf)
          /\ UNCHANGED <<listeners, at, gone>>
      BY <1>1, <1>10 DEF TypeOK
    <2>8. parsed' \in [Clients -> Seq(Seq(Byte))]
      BY <1>1, <1>10, <2>5 DEF TypeOK
    <2>9. /\ TypeOK' /\ Stream(c)'
          /\ Unparsed(c)' = Tail(Unparsed(c)) \/ Unparsed(c)' = <<>>
      <3>1. CASE /\ read_buf' = [read_buf EXCEPT ![c] = Keep(buf)]
                 /\ wire' = [wire EXCEPT ![c] = rest]
                 /\ UNCHANGED conn
        <4>1. TypeOK'
          BY <1>1, <1>3, <2>2, <2>7, <2>8, <3>1, EmptySeq DEF TypeOK, listeners
        <4>2. read_buf'[c] = <<>> /\ wire'[c] = rest /\ conn'[c] = conn[c]
          BY <1>1, <2>2, <3>1 DEF TypeOK
        <4>3. <<>> \o rest = rest
          BY <1>3, ConcatEmptySeq
        <4>4. Len(parsed[c]) + 1 <= sent[c]
          BY <1>1, <1>5, <2>3
        <4>5. read_buf'[c] \o wire'[c] = FlattenSeq(Pending(c, sent'[c], parsed'[c]))
          BY <2>1, <2>4, <2>7, <4>2, <4>3
        <4>6. conn'[c] # "away" /\ Len(parsed'[c]) <= sent'[c] /\ sent'[c] <= Len(Script[c])
          BY <1>1, <2>3, <2>5, <2>7, <4>2, <4>4
        <4>7. Stream(c)'
          BY <4>5, <4>6 DEF Stream
        <4>8. Unparsed(c)' = Tail(u)
          BY <1>1, <2>4, <2>7, <4>2, UnparsedPending
        <4> QED
          BY <2>6, <4>1, <4>7, <4>8
      <3>2. CASE Close(c)
        <4>1. TypeOK'
          BY <1>1, <2>7, <2>8, <3>2, EmptySeq DEF TypeOK, listeners, Close
        <4>2. conn'[c] = "ended" /\ sent'[c] = sent[c] /\ Len(parsed'[c]) <= sent[c]
          BY <1>1, <1>5, <2>3, <2>5, <2>7, <3>2 DEF TypeOK, Close
        <4> QED
          BY <1>1, <4>1, <4>2, StreamEnded
      <3> QED
        BY <1>10, <3>1, <3>2
    <2>10. ASSUME NEW d \in Clients, d # c PROVE Stream(d)' /\ Unparsed(d)' = Unparsed(d)
      <3>1. conn'[d] = conn[d] /\ parsed'[d] = parsed[d]
            /\ wire'[d] = wire[d] /\ read_buf'[d] = read_buf[d]
        BY <1>1, <1>10, <2>10 DEF TypeOK, Close
      <3> QED
        BY <1>7, <2>7, <2>10, <3>1
    <2>11. Shown
      <3>1. Unparsed(c) # <<>> /\ parsed' = [parsed EXCEPT ![c] = Append(@, Head(Unparsed(c)))]
        BY <1>10, <2>1, <2>6
      <3> QED
        BY <2>9, <2>10, <3>1, OneHandled
    <2>12. (~up => sockets = unit)'
      BY <1>1, <2>7 DEF listeners
    <2> QED
      BY <2>9, <2>10, <2>11, <2>12 DEF Kept, IInv
  <1> QED
    BY <1>6, <1>8, <1>9, <1>10

-------------------------------------------------------------------------------
LEMMA InitKept == ASSUME Init PROVE IInv /\ Channel!Init
  <1>1. TypeOK
    <2>1. sockets \in Seq(SocketType) /\ Len(sockets) <= 2 /\ unit \in Units
      BY ConnectionsAssumption DEF ConnectionsAssumption, Init
    <2>2. 0 \in 0..Len(sockets)
      BY <2>1, LenProperties
    <2>3. wire \in [Clients -> Seq(Byte)] /\ read_buf \in [Clients -> Seq(Byte)]
          /\ parsed \in [Clients -> Seq(Seq(Byte))]
      BY EmptySeq DEF Init
    <2>4. {sockV4, sockV6} \subseteq 0..Len(sockets)
      BY <2>2 DEF Init
    <2>5. up \in BOOLEAN /\ gone \subseteq Clients
      BY Zenon DEF Init
    <2>6. conn \in [Clients -> {"away", "backlog", "open", "ended"}]
      BY Zenon DEF Init
    <2>7. at \in [Clients -> 0..2] /\ sent \in [Clients -> Nat]
      <3>1. 0 \in 0..2 /\ 0 \in Nat
        OBVIOUS
      <3> QED
        BY <3>1, Zenon DEF Init
    <2> QED
      BY <2>1, <2>3, <2>4, <2>5, <2>6, <2>7 DEF TypeOK
  <1>2. ASSUME NEW c \in Clients PROVE Stream(c) /\ Unparsed(c) = <<>>
    <2>1. /\ conn[c] = "away" /\ sent[c] = 0 /\ wire[c] = <<>> /\ read_buf[c] = <<>>
          /\ parsed[c] = <<>> /\ Len(parsed[c]) = 0 /\ Len(Script[c]) \in Nat
      BY Scripted DEF Init
    <2>2. Stream(c)
      BY <2>1 DEF Stream
    <2>3. Unparsed(c) = Pending(c, sent[c], parsed[c])
      BY <2>1, UnparsedPending
    <2> QED
      BY <1>1, <2>1, <2>2, <2>3, NothingPending
  <1>3. Channel!Init
    BY <1>2 DEF Init, Channel!Init
  <1> QED
    BY <1>1, <1>2, <1>3 DEF Init, IInv

LEMMA StepKept == ASSUME IInv, [Next]_vars PROVE Kept
  <1>1. CASE Activate
    BY <1>1, ActivateKept
  <1>2. CASE StartByHand
    BY <1>2, StartByHandKept
  <1>3. CASE Killed
    BY <1>3, ServiceEndsKept DEF Killed
  <1>4. CASE \E c \in Clients : Connect(c)
    BY <1>4, ConnectKept
  <1>5. CASE \E c \in Clients : Write(c)
    BY <1>5, WriteKept
  <1>6. CASE \E c \in Clients : Leave(c)
    BY <1>6, LeaveKept
  <1>7. CASE \E c \in Clients : Accept(c)
    BY <1>7, AcceptKept
  <1>8. CASE \E c \in Clients : Read(c)
    BY <1>8, ReadKept
  <1>9. CASE \E c \in Clients : ReadEof(c)
    BY <1>9, ReadEofKept
  <1>10. CASE UNCHANGED vars
    <2>1. TypeOK' /\ (~up => sockets = unit)' /\ UNCHANGED <<conn, streams>>
      BY <1>10 DEF IInv, TypeOK, vars, listeners, streams
    <2> QED
      BY <2>1, StreamsKept
  <1> QED
    BY <1>1, <1>2, <1>3, <1>4, <1>5, <1>6, <1>7, <1>8, <1>9, <1>10 DEF Next

-------------------------------------------------------------------------------
(***************************************************************************)
(* The theorems                                                             *)
(***************************************************************************)
THEOREM Inductive == Spec => []IInv
  <1>1. Init => IInv
    BY InitKept
  <1>2. IInv /\ [Next]_vars => IInv'
    BY StepKept DEF Kept
  <1> QED
    BY <1>1, <1>2, PTL DEF Spec

(* The variables keep their types; in particular main() never polls a slot  *)
(* without a socket.                                                        *)
THEOREM TypeCorrect == Spec => []TypeOK
  <1>1. IInv => TypeOK
    BY DEF IInv
  <1> QED
    BY <1>1, Inductive, PTL

(* The bytes kept and to come start where a request starts, whatever TCP    *)
(* and the clients do (RtspConnection.read).                                *)
THEOREM BytesInStep == Spec => []StreamInStep
  <1>1. IInv => StreamInStep
    <2> SUFFICES ASSUME IInv, NEW c \in Clients, conn[c] \in {"backlog", "open"}
                 PROVE  read_buf[c] \o wire[c] = FlattenSeq(Unparsed(c))
      BY DEF StreamInStep
    <2>1. Unparsed(c) = Pending(c, sent[c], parsed[c])
      BY UnparsedPending
    <2> QED
      BY <2>1 DEF IInv, Stream
  <1> QED
    BY <1>1, Inductive, PTL

(* The handlers see every client's requests whole, once and in order: what  *)
(* RtspServer takes for granted of a connection.                            *)
THEOREM ConnectionsImplementChannel == Spec => ImplementsChannel
  <1>1. Init => Channel!Init
    BY InitKept
  <1>2. IInv /\ [Next]_vars => [Channel!Next]_(Channel!vars)
    BY StepKept DEF Kept, Shown
  <1> QED
    BY <1>1, <1>2, Inductive, PTL DEF Spec, ImplementsChannel, Channel!Spec
===============================================================================
