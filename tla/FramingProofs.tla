--------------------------- MODULE FramingProofs ---------------------------
(***************************************************************************)
(* The proof that RpcConnection, byte by byte, is the RpcConnection of     *)
(* whole frames: for headers and bodies of every size, pipes of every      *)
(* size, and every way the client cuts what it writes, but for headers cut *)
(* on unix.                                                                *)
(***************************************************************************)
EXTENDS Framing, Integers, FiniteSetTheorems, TLAPS

-----------------------------------------------------------------------------
(***************************************************************************)
(* Finite sets of numbers in order.                                        *)
(***************************************************************************)
UpTo(P, i) == {j \in P : j <= i}
Rank(P, i) == Cardinality(UpTo(P, i))

LEMMA UpToIsFinite ==
    ASSUME NEW P, IsFiniteSet(P), NEW i \in P
    PROVE  IsFiniteSet(UpTo(P, i)) /\ Rank(P, i) \in Nat /\ Rank(P, i) <= Cardinality(P)
           /\ Cardinality(P) \in Nat
  <1>1. UpTo(P, i) \in SUBSET P
    BY DEF UpTo
  <1>2. IsFiniteSet(UpTo(P, i)) /\ Cardinality(UpTo(P, i)) <= Cardinality(P)
    BY <1>1, FS_Subset
  <1> QED BY <1>2, FS_CardinalityType DEF Rank

LEMMA RanksDiffer ==
    ASSUME NEW P \in SUBSET Int, IsFiniteSet(P), NEW i \in P, NEW j \in P, i < j
    PROVE  Rank(P, i) < Rank(P, j)
  <1>1. UpTo(P, i) \in SUBSET UpTo(P, j) /\ UpTo(P, i) # UpTo(P, j)
    <2>1. \A h \in UpTo(P, i) : h \in UpTo(P, j)
      BY DEF UpTo
    <2>2. j \in UpTo(P, j)
      BY DEF UpTo
    <2>3. j \notin UpTo(P, i)
      BY DEF UpTo
    <2> QED BY <2>1, <2>2, <2>3
  <1>2. IsFiniteSet(UpTo(P, j))
    BY UpToIsFinite
  <1>3. /\ Cardinality(UpTo(P, i)) <= Cardinality(UpTo(P, j))
        /\ Cardinality(UpTo(P, i)) = Cardinality(UpTo(P, j)) => UpTo(P, i) = UpTo(P, j)
    BY <1>1, <1>2, FS_Subset
  <1>4. /\ Rank(P, i) \in Nat /\ Rank(P, j) \in Nat
        /\ Rank(P, i) <= Rank(P, j) /\ Rank(P, i) # Rank(P, j)
    BY <1>1, <1>3, UpToIsFinite DEF Rank
  <1> QED BY <1>4

LEMMA RankIsPositive ==
    ASSUME NEW P \in SUBSET Int, IsFiniteSet(P), NEW i \in P
    PROVE  Rank(P, i) \in 1 .. Cardinality(P)
  <1>1. UpTo(P, i) # {}
    BY DEF UpTo
  <1>2. Rank(P, i) # 0
    BY <1>1, UpToIsFinite, FS_EmptySet DEF Rank
  <1> QED BY <1>2, UpToIsFinite

\* Ranks count the set through.
LEMMA RanksAreAll ==
    ASSUME NEW P \in SUBSET Int, IsFiniteSet(P), NEW k \in 1 .. Cardinality(P)
    PROVE  \E i \in P : Rank(P, i) = k
  <1> DEFINE n == Cardinality(P)
             r == [i \in P |-> Rank(P, i)]
  <1>1. n \in Nat
    BY FS_CardinalityType
  <1>2. IsFiniteSet(1 .. n) /\ Cardinality(1 .. n) = n
    BY <1>1, FS_Interval
  <1>3. r \in Injection(P, 1 .. n)
    <2>1. r \in [P -> 1 .. n]
      BY RankIsPositive
    <2>2. ASSUME NEW i \in P, NEW j \in P, r[i] = r[j] PROVE i = j
      BY <2>2, RanksDiffer, UpToIsFinite
    <2> QED BY <2>1, <2>2 DEF Injection, IsInjective
  <1>4. r \in Surjection(P, 1 .. n)
    BY <1>2, <1>3, FS_Injection
  <1> QED BY <1>4 DEF Surjection

LEMMA NthFacts ==
    ASSUME NEW P \in SUBSET Int, IsFiniteSet(P), NEW k \in 1 .. Cardinality(P)
    PROVE  Nth(P, k) \in P /\ Rank(P, Nth(P, k)) = k
  BY RanksAreAll DEF Nth, Rank, UpTo

LEMMA NthOfRank ==
    ASSUME NEW P \in SUBSET Int, IsFiniteSet(P), NEW i \in P
    PROVE  Nth(P, Rank(P, i)) = i
  <1>1. Rank(P, i) \in 1 .. Cardinality(P)
    BY RankIsPositive
  <1>2. /\ Nth(P, Rank(P, i)) \in P
        /\ Rank(P, Nth(P, Rank(P, i))) = Rank(P, i)
    BY <1>1, NthFacts
  <1>3. ASSUME NEW j \in P, Rank(P, j) = Rank(P, i) PROVE j = i
    <2>1. ~(i < j) /\ ~(j < i)
      BY <1>3, RanksDiffer, UpToIsFinite
    <2> QED BY <2>1
  <1> QED BY <1>2, <1>3

\* A greater number comes last.
LEMMA NthAdd ==
    ASSUME NEW P \in SUBSET Int, IsFiniteSet(P), NEW x \in Int, \A i \in P : i < x
    PROVE  /\ IsFiniteSet(P \cup {x})
           /\ Cardinality(P \cup {x}) = Cardinality(P) + 1
           /\ \A k \in 1 .. Cardinality(P) : Nth(P \cup {x}, k) = Nth(P, k)
           /\ Nth(P \cup {x}, Cardinality(P) + 1) = x
  <1> DEFINE Q == P \cup {x}
  <1>1. Q \in SUBSET Int /\ x \notin P /\ x \in Q
    OBVIOUS
  <1>2. IsFiniteSet(Q) /\ Cardinality(Q) = Cardinality(P) + 1
    BY <1>1, FS_AddElement
  <1>3. ASSUME NEW k \in 1 .. Cardinality(P) PROVE Nth(Q, k) = Nth(P, k)
    <2> DEFINE i == Nth(P, k)
    <2>1. i \in P /\ Rank(P, i) = k
      BY NthFacts
    <2> HIDE DEF i
    <2>2. UpTo(Q, i) = UpTo(P, i)
      BY <2>1 DEF UpTo
    <2>3. Rank(Q, i) = k /\ i \in Q
      BY <2>1, <2>2 DEF Rank
    <2>4. Nth(Q, Rank(Q, i)) = i
      BY <1>1, <1>2, <2>3, NthOfRank
    <2> QED BY <2>3, <2>4 DEF i
  <1>4. Nth(Q, Cardinality(P) + 1) = x
    <2>1. UpTo(Q, x) = Q
      <3>1. ASSUME NEW h \in Q PROVE h \in UpTo(Q, x)
        BY DEF UpTo
      <3>2. ASSUME NEW h \in UpTo(Q, x) PROVE h \in Q
        BY DEF UpTo
      <3> QED BY <3>1, <3>2
    <2>2. Nth(Q, Rank(Q, x)) = x
      BY <1>1, <1>2, NthOfRank
    <2> QED BY <1>2, <2>1, <2>2 DEF Rank
  <1> QED BY <1>2, <1>3, <1>4

LEMMA ShiftedCardinality ==
    ASSUME NEW Q \in SUBSET Int, IsFiniteSet(Q), NEW m \in Int, NEW x \in Int,
           \A i \in Q : x < i + m
    PROVE  LET P == {x} \cup {i + m : i \in Q}
           IN  P \in SUBSET Int /\ IsFiniteSet(P) /\ Cardinality(P) = Cardinality(Q) + 1
  <1> DEFINE S == {i + m : i \in Q}
             f == [i \in Q |-> i + m]
  <1>1. f \in Bijection(Q, S)
    <2>1. f \in [Q -> S]
      OBVIOUS
    <2>2. ASSUME NEW i \in Q, NEW j \in Q, f[i] = f[j] PROVE i = j
      BY <2>2
    <2>3. \A t \in S : \E i \in Q : f[i] = t
      OBVIOUS
    <2> QED BY <2>1, <2>2, <2>3 DEF Bijection, Injection, Surjection, IsInjective
  <1>2. IsFiniteSet(S) /\ Cardinality(S) = Cardinality(Q)
    BY <1>1, FS_Bijection DEF ExistsBijection
  <1>3. x \notin S
    OBVIOUS
  <1>4. IsFiniteSet(S \cup {x}) /\ Cardinality(S \cup {x}) = Cardinality(Q) + 1
    BY <1>2, <1>3, FS_AddElement
  <1>5. S \cup {x} = {x} \cup {i + m : i \in Q}
    OBVIOUS
  <1>6. {x} \cup {i + m : i \in Q} \in SUBSET Int
    OBVIOUS
  <1> QED BY <1>4, <1>5, <1>6

\* P is Q moved up by m, with x before it.
Shifted(P, Q, m, x) ==
    /\ Q \in SUBSET Int /\ IsFiniteSet(Q) /\ m \in Int /\ x \in Int
    /\ \A i \in Q : x < i + m
    /\ P = {x} \cup {i + m : i \in Q}

LEMMA NthShift ==
    ASSUME NEW P, NEW Q, NEW m, NEW x, Shifted(P, Q, m, x)
    PROVE  /\ IsFiniteSet(P)
           /\ Cardinality(P) = Cardinality(Q) + 1
           /\ \A k \in 1 .. Cardinality(Q) : Nth(P, k + 1) = Nth(Q, k) + m
           /\ Nth(P, 1) = x
  <1>0. /\ Q \in SUBSET Int /\ IsFiniteSet(Q) /\ m \in Int /\ x \in Int
        /\ \A i \in Q : x < i + m
        /\ P = {x} \cup {i + m : i \in Q}
    BY DEF Shifted
  <1> USE <1>0
  <1>1. P \in SUBSET Int /\ IsFiniteSet(P) /\ Cardinality(P) = Cardinality(Q) + 1
    BY ZenonT(40), <1>0, ShiftedCardinality
  <1>2. ASSUME NEW k \in 1 .. Cardinality(Q) PROVE Nth(P, k + 1) = Nth(Q, k) + m
    <2> DEFINE i == Nth(Q, k)
               R == UpTo(Q, i)
    <2>1. i \in Q /\ Rank(Q, i) = k
      BY NthFacts
    <2>2. R \in SUBSET Int /\ IsFiniteSet(R) /\ \A j \in R : x < j + m
      BY <2>1, UpToIsFinite DEF UpTo
    <2> HIDE DEF i
    <2>3. UpTo(P, i + m) = {x} \cup {j + m : j \in R}
      <3>1. ASSUME NEW h \in UpTo(P, i + m) PROVE h \in {x} \cup {j + m : j \in R}
        <4>1. h \in P /\ h <= i + m
          BY DEF UpTo
        <4>2. CASE h = x
          BY <4>2
        <4>3. ASSUME NEW j \in Q, h = j + m PROVE h \in {x} \cup {g + m : g \in R}
          <5>1. j \in R
            BY <2>1, <4>1, <4>3 DEF UpTo
          <5> QED BY <4>3, <5>1
        <4> QED BY <4>1, <4>2, <4>3
      <3>2. x \in UpTo(P, i + m)
        BY <2>1 DEF UpTo
      <3>3. ASSUME NEW j \in R PROVE j + m \in UpTo(P, i + m)
        BY <2>1 DEF UpTo
      <3> QED BY <3>1, <3>2, <3>3
    <2> HIDE DEF R
    <2>4. Cardinality(UpTo(P, i + m)) = Cardinality(R) + 1
      BY ZenonT(40), <2>2, <2>3, ShiftedCardinality
    <2>5. Rank(P, i + m) = k + 1
      BY <2>1, <2>4 DEF Rank, R
    <2>6. i + m \in P
      BY <2>1
    <2>7. Nth(P, Rank(P, i + m)) = i + m
      BY <1>1, <2>6, NthOfRank
    <2> QED BY <2>5, <2>7 DEF i
  <1>3. Nth(P, 1) = x
    <2>1. UpTo(P, x) = {x}
      <3>1. ASSUME NEW h \in UpTo(P, x) PROVE h = x
        BY DEF UpTo
      <3>2. x \in UpTo(P, x)
        BY DEF UpTo
      <3> QED BY <3>1, <3>2
    <2>2. Rank(P, x) = 1
      BY <2>1, FS_Singleton DEF Rank
    <2>3. Nth(P, Rank(P, x)) = x
      BY <1>1, NthOfRank
    <2> QED BY <2>2, <2>3
  <1> QED BY <1>1, <1>2, <1>3

-----------------------------------------------------------------------------
(***************************************************************************)
(* Sequences of whole frames.                                              *)
(***************************************************************************)
Octets == [kind : Kinds, at : Nat]

LEMMA SeqEqual ==
    ASSUME NEW S, NEW s \in Seq(S), NEW t \in Seq(S), Len(s) = Len(t),
           \A i \in 1 .. Len(s) : s[i] = t[i]
    PROVE  s = t
  OBVIOUS

\* How many bytes come before the frame of byte i.
Before(s, i) == i - s[i].at

\* Every byte is in its place of a frame that is there from end to end.
Whole(s) ==
    /\ s \in Seq(Octets)
    /\ \A i \in 1 .. Len(s) :
        /\ s[i].at \in 1 .. Size(s[i].kind)
        /\ Before(s, i) >= 0
        /\ Before(s, i) + Size(s[i].kind) <= Len(s)
        /\ \A j \in 1 .. Size(s[i].kind) :
            s[Before(s, i) + j] = [kind |-> s[i].kind, at |-> j]

LEMMA SizeType ==
    ASSUME NEW k \in Kinds
    PROVE  Size(k) \in Nat /\ Size(k) >= HeaderSize /\ HeaderSize \in Nat /\ HeaderSize >= 1
           /\ BodySize[k] \in Nat /\ Size(k) = HeaderSize + BodySize[k]
  BY FramingAssumption DEF Size

LEMMA BytesType ==
    ASSUME NEW k \in Kinds
    PROVE  /\ Bytes(k) \in Seq(Octets)
           /\ Len(Bytes(k)) = Size(k)
           /\ \A i \in 1 .. Size(k) : Bytes(k)[i] = [kind |-> k, at |-> i]
  <1>1. Size(k) \in Nat
    BY SizeType
  <1>2. \A i \in 1 .. Size(k) : [kind |-> k, at |-> i] \in Octets
    BY <1>1 DEF Octets
  <1> QED BY <1>1, <1>2 DEF Bytes

LEMMA ConcatFacts ==
    ASSUME NEW s \in Seq(Octets), NEW t \in Seq(Octets)
    PROVE  /\ s \o t \in Seq(Octets)
           /\ Len(s) \in Nat /\ Len(t) \in Nat /\ Len(s \o t) = Len(s) + Len(t)
           /\ \A i \in 1 .. Len(s) : (s \o t)[i] = s[i]
           /\ \A i \in 1 .. Len(t) : (s \o t)[Len(s) + i] = t[i]
  OBVIOUS

LEMMA EmptyIsWhole == Whole(<<>>)
  BY DEF Whole

LEMMA WholeAppend ==
    ASSUME NEW s, Whole(s), NEW k \in Kinds
    PROVE  Whole(s \o Bytes(k))
  <1> DEFINE t == s \o Bytes(k)
  <1>1. /\ t \in Seq(Octets) /\ Len(t) = Len(s) + Size(k) /\ Len(s) \in Nat
        /\ \A i \in 1 .. Len(s) : t[i] = s[i]
        /\ \A i \in 1 .. Size(k) : t[Len(s) + i] = [kind |-> k, at |-> i]
    <2>1. s \in Seq(Octets)
      BY DEF Whole
    <2>2. /\ Bytes(k) \in Seq(Octets) /\ Len(Bytes(k)) = Size(k)
          /\ \A i \in 1 .. Size(k) : Bytes(k)[i] = [kind |-> k, at |-> i]
      BY BytesType
    <2>3. /\ t \in Seq(Octets)
          /\ Len(s) \in Nat /\ Len(Bytes(k)) \in Nat /\ Len(t) = Len(s) + Len(Bytes(k))
          /\ \A i \in 1 .. Len(s) : t[i] = s[i]
          /\ \A i \in 1 .. Len(Bytes(k)) : t[Len(s) + i] = Bytes(k)[i]
      BY <2>1, <2>2, ConcatFacts
    <2> HIDE DEF t
    <2> QED BY <2>2, <2>3
  <1> HIDE DEF t
  <1>2. ASSUME NEW i \in 1 .. Len(t)
        PROVE  /\ t[i].at \in 1 .. Size(t[i].kind)
               /\ Before(t, i) >= 0
               /\ Before(t, i) + Size(t[i].kind) <= Len(t)
               /\ \A j \in 1 .. Size(t[i].kind) :
                    t[Before(t, i) + j] = [kind |-> t[i].kind, at |-> j]
    <2>1. CASE i \in 1 .. Len(s)
      <3>1. t[i] = s[i] /\ Before(t, i) = Before(s, i) /\ s[i] \in Octets
        BY <1>1, <2>1 DEF Before, Whole
      <3>2. /\ s[i].at \in 1 .. Size(s[i].kind)
            /\ Before(s, i) >= 0 /\ Before(s, i) \in Int
            /\ Before(s, i) + Size(s[i].kind) <= Len(s)
            /\ \A j \in 1 .. Size(s[i].kind) :
                 s[Before(s, i) + j] = [kind |-> s[i].kind, at |-> j]
        BY <2>1, <3>1 DEF Whole, Octets, Before
      <3>3. Size(s[i].kind) \in Nat /\ Size(k) \in Nat
        BY <3>1, SizeType DEF Octets
      <3> QED BY <1>1, <3>1, <3>2, <3>3
    <2>2. CASE i \notin 1 .. Len(s)
      <3>1. PICK h \in 1 .. Size(k) : i = Len(s) + h
        <4>1. i - Len(s) \in 1 .. Size(k) /\ i = Len(s) + (i - Len(s))
          BY <1>1, <2>2, SizeType
        <4> QED BY <4>1
      <3>2. t[i] = [kind |-> k, at |-> h] /\ Before(t, i) = Len(s)
        BY <1>1, <3>1 DEF Before
      <3> QED BY <1>1, <3>2, SizeType
    <2> QED BY <2>1, <2>2
  <1> QED BY <1>1, <1>2 DEF Whole, t

\* The first frame, and what is left without it.
LEMMA WholeDrop ==
    ASSUME NEW s, Whole(s), s # <<>>
    PROVE  LET k == s[1].kind
           IN  /\ k \in Kinds /\ Size(k) <= Len(s)
               /\ \A j \in 1 .. Size(k) : s[j] = [kind |-> k, at |-> j]
               /\ Whole(SubSeq(s, Size(k) + 1, Len(s)))
  <1> DEFINE k == s[1].kind
             t == SubSeq(s, Size(k) + 1, Len(s))
  <1>1. s \in Seq(Octets) /\ Len(s) \in Nat /\ 1 \in 1 .. Len(s) /\ s[1] \in Octets
    BY DEF Whole
  <1>2. k \in Kinds /\ s[1].at \in Nat /\ Size(k) \in Nat /\ Size(k) >= 1
    BY <1>1, SizeType DEF Octets
  <1>3. s[1].at = 1 /\ Before(s, 1) = 0
    BY <1>1, <1>2 DEF Whole, Before
  <1>4. Size(k) <= Len(s) /\ \A j \in 1 .. Size(k) : s[0 + j] = [kind |-> k, at |-> j]
    BY <1>1, <1>2, <1>3 DEF Whole
  <1>5. \A j \in 1 .. Size(k) : s[j] = [kind |-> k, at |-> j]
    BY <1>2, <1>4
  <1> HIDE DEF k
  <1>6. /\ t \in Seq(Octets) /\ Len(t) = Len(s) - Size(k)
        /\ \A i \in 1 .. Len(t) : t[i] = s[i + Size(k)]
    BY SMTT(20), <1>1, <1>2, <1>4
  <1> HIDE DEF t
  <1>7. ASSUME NEW i \in 1 .. Len(t)
        PROVE  /\ t[i].at \in 1 .. Size(t[i].kind)
               /\ Before(t, i) >= 0
               /\ Before(t, i) + Size(t[i].kind) <= Len(t)
               /\ \A j \in 1 .. Size(t[i].kind) :
                    t[Before(t, i) + j] = [kind |-> t[i].kind, at |-> j]
    <2> DEFINE h == i + Size(k)
               l == s[h].kind
               b == Before(s, h)
    <2>1. h \in 1 .. Len(s) /\ t[i] = s[h] /\ s[h] \in Octets
      BY <1>1, <1>2, <1>4, <1>6
    <2>2. /\ l \in Kinds /\ s[h].at \in Nat /\ b = h - s[h].at /\ h = i + Size(k)
          /\ Before(t, i) = i - s[h].at
      BY <2>1 DEF Octets, Before
    <2>3. /\ s[h].at \in 1 .. Size(l) /\ b >= 0 /\ b + Size(l) <= Len(s)
          /\ \A j \in 1 .. Size(l) : s[b + j] = [kind |-> l, at |-> j]
      BY <2>1 DEF Whole
    <2>4. Size(l) \in Nat /\ Size(l) >= 1
      BY <2>2, SizeType
    <2> HIDE DEF h, l, b
    <2>9. b \in Int
      BY <1>1, <2>1, <2>2
    <2>5. b >= Size(k)
      <3>1. SUFFICES ASSUME b < Size(k) PROVE FALSE
        BY <1>2, <2>9
      <3>2. b + 1 \in 1 .. Size(k) /\ 1 \in 1 .. Size(l)
        BY <1>2, <2>3, <2>4, <2>9, <3>1
      <3>3. s[b + 1] = [kind |-> k, at |-> b + 1] /\ s[b + 1] = [kind |-> l, at |-> 1]
        BY <1>5, <2>3, <3>2
      <3>4. k = l /\ b = 0
        <4>1. k = l /\ b + 1 = 1
          BY <3>3
        <4> QED BY <4>1, <2>9
      <3> QED BY <1>2, <2>1, <2>2, <2>3, <3>4
    <2>6. Before(t, i) = b - Size(k) /\ b \in Int /\ i \in Int
      BY <1>2, <2>2
    <2>7. Before(t, i) >= 0 /\ Before(t, i) + Size(l) <= Len(t)
      BY <1>1, <1>2, <1>6, <2>3, <2>4, <2>5, <2>6
    <2>8. ASSUME NEW j \in 1 .. Size(l) PROVE t[Before(t, i) + j] = [kind |-> l, at |-> j]
      <3>1. Before(t, i) + j \in 1 .. Len(t) /\ (Before(t, i) + j) + Size(k) = b + j
        BY SMTT(20), <1>1, <1>2, <1>6, <2>4, <2>6, <2>7
      <3> QED BY <1>6, <2>3, <3>1
    <2> QED BY <2>1, <2>3, <2>7, <2>8 DEF l
  <1>8. Whole(t)
    BY <1>6, <1>7 DEF Whole
  <1> QED BY <1>2, <1>4, <1>5, <1>8 DEF k, t

-----------------------------------------------------------------------------
(***************************************************************************)
(* The frames that bytes tell.                                             *)
(***************************************************************************)
Ends(a) == {i \in DOMAIN a : a[i].at = HeaderSize}

Waits(u) == u # <<>> /\ u[1].at > HeaderSize

Told(a, u) ==
    [k \in 1 .. Cardinality(Ends(a)) |->
        [kind |-> a[Nth(Ends(a), k)].kind,
         whole |-> k < Cardinality(Ends(a)) \/ u = <<>> \/ u[1].at <= HeaderSize]]

LEMMA EndsFacts ==
    ASSUME NEW a \in Seq(Octets)
    PROVE  /\ Ends(a) \in SUBSET Int /\ IsFiniteSet(Ends(a))
           /\ Cardinality(Ends(a)) \in Nat
           /\ \A i \in Ends(a) : i \in 1 .. Len(a)
           /\ \A k \in 1 .. Cardinality(Ends(a)) :
                Nth(Ends(a), k) \in 1 .. Len(a) /\ Nth(Ends(a), k) \in Ends(a)
  <1>1. Len(a) \in Nat /\ Ends(a) \in SUBSET (1 .. Len(a))
    BY DEF Ends
  <1>2. IsFiniteSet(1 .. Len(a))
    BY <1>1, FS_Interval
  <1>3. IsFiniteSet(Ends(a)) /\ Ends(a) \in SUBSET Int
    BY <1>1, <1>2, FS_Subset
  <1>4. Cardinality(Ends(a)) \in Nat
    BY <1>3, FS_CardinalityType
  <1>5. \A k \in 1 .. Cardinality(Ends(a)) : Nth(Ends(a), k) \in Ends(a)
    BY <1>3, NthFacts
  <1> QED BY <1>1, <1>3, <1>4, <1>5

LEMMA FrameEqual ==
    ASSUME NEW f \in Rpc!Frames, NEW g \in Rpc!Frames,
           f.kind = g.kind, f.whole <=> g.whole
    PROVE  f = g
  <1>1. f.whole \in BOOLEAN /\ g.whole \in BOOLEAN
    BY DEF Rpc!Frames
  <1>2. f.whole = g.whole
    BY <1>1
  <1> QED BY <1>2 DEF Rpc!Frames

LEMMA ToldType ==
    ASSUME NEW a \in Seq(Octets), NEW u \in Seq(Octets)
    PROVE  /\ Told(a, u) \in Seq(Rpc!Frames)
           /\ Len(Told(a, u)) = Cardinality(Ends(a))
           /\ \A k \in 1 .. Cardinality(Ends(a)) :
                /\ Told(a, u)[k] \in Rpc!Frames
                /\ Told(a, u)[k].kind = a[Nth(Ends(a), k)].kind
                /\ Told(a, u)[k].whole <=> (k < Cardinality(Ends(a)) \/ ~Waits(u))
  <1>1. Cardinality(Ends(a)) \in Nat
    BY EndsFacts
  <1>2. u # <<>> => u[1].at \in Nat
    <2>1. u # <<>> => u[1] \in Octets
      OBVIOUS
    <2> QED BY <2>1 DEF Octets
  <1>3. (u = <<>> \/ u[1].at <= HeaderSize) <=> ~Waits(u)
    BY <1>2, FramingAssumption DEF Waits
  <1>4. ASSUME NEW k \in 1 .. Cardinality(Ends(a))
        PROVE  /\ Told(a, u)[k] \in Rpc!Frames
               /\ Told(a, u)[k].kind = a[Nth(Ends(a), k)].kind
               /\ Told(a, u)[k].whole <=> (k < Cardinality(Ends(a)) \/ ~Waits(u))
    <2> DEFINE w == k < Cardinality(Ends(a)) \/ u = <<>> \/ u[1].at <= HeaderSize
               l == a[Nth(Ends(a), k)].kind
    <2>1. Told(a, u)[k] = [kind |-> l, whole |-> w]
      BY DEF Told
    <2>2. l \in Rpc!Kinds
      <3>1. a[Nth(Ends(a), k)] \in Octets
        BY EndsFacts
      <3> QED BY <3>1 DEF Octets, Rpc!Kinds, Kinds
    <2>3. w \in BOOLEAN /\ (w <=> (k < Cardinality(Ends(a)) \/ ~Waits(u)))
      BY <1>3
    <2> HIDE DEF w, l
    <2>4. [kind |-> l, whole |-> w] \in Rpc!Frames
      BY <2>2, <2>3 DEF Rpc!Frames
    <2>5. Told(a, u)[k].whole = w
      BY <2>1
    <2>6. Told(a, u)[k].whole <=> (k < Cardinality(Ends(a)) \/ ~Waits(u))
      BY <2>3, <2>5
    <2> QED BY <2>1, <2>4, <2>6 DEF l
  <1> QED BY <1>1, <1>4 DEF Told

\* A piece of a frame with the end of its header tells one frame more.
IsPiece(p, k, f) == \A j \in 1 .. Len(p) : p[j] = [kind |-> k, at |-> f + j - 1]

\* b has one header more than a, that of a frame of kind k, and it is the last.
OneMore(k, a, b) ==
    \E x \in Int :
        /\ Ends(b) = Ends(a) \cup {x}
        /\ \A i \in Ends(a) : i < x
        /\ b[x].kind = k

LEMMA PieceEnds ==
    ASSUME NEW a \in Seq(Octets), NEW k \in Kinds, NEW f \in 1 .. Size(k),
           NEW p \in Seq(Octets), IsPiece(p, k, f)
    PROVE  /\ f <= HeaderSize /\ HeaderSize < f + Len(p) => OneMore(k, a, a \o p)
           /\ ~(f <= HeaderSize /\ HeaderSize < f + Len(p)) => Ends(a \o p) = Ends(a)
  <1> DEFINE b == a \o p
             x == Len(a) + (HeaderSize - f + 1)
  <1>1. /\ b \in Seq(Octets) /\ Len(a) \in Nat /\ Len(p) \in Nat /\ Len(b) = Len(a) + Len(p)
        /\ \A i \in 1 .. Len(a) : b[i] = a[i]
        /\ \A i \in 1 .. Len(p) : b[Len(a) + i] = p[i]
    BY ConcatFacts
  <1> HIDE DEF b
  <1>2. HeaderSize \in Nat /\ f \in Nat /\ x \in Int
    BY <1>1, SizeType
  <1>3. DOMAIN a = 1 .. Len(a) /\ DOMAIN b = 1 .. Len(b)
    BY <1>1
  <1>4. ASSUME NEW i \in Ends(b) PROVE i \in Ends(a) \/ (i = x /\ i \in Len(a) + 1 .. Len(b))
    <2>1. i \in 1 .. Len(b) /\ b[i].at = HeaderSize
      BY <1>3 DEF Ends
    <2>2. CASE i <= Len(a)
      BY <1>1, <1>3, <2>1, <2>2 DEF Ends
    <2>3. CASE i > Len(a)
      <3>1. i - Len(a) \in 1 .. Len(p) /\ i = Len(a) + (i - Len(a))
        BY <1>1, <2>1, <2>3
      <3>2. b[i] = [kind |-> k, at |-> f + (i - Len(a)) - 1]
        BY <1>1, <3>1 DEF IsPiece
      <3>3. f + (i - Len(a)) - 1 = HeaderSize
        BY <2>1, <3>2
      <3> QED BY <1>1, <1>2, <2>1, <3>1, <3>3
    <2> QED BY <1>1, <2>1, <2>2, <2>3
  <1>5. ASSUME NEW i \in Ends(a) PROVE i \in Ends(b)
    BY <1>1, <1>3 DEF Ends
  <1>6. ASSUME f <= HeaderSize, HeaderSize < f + Len(p)
        PROVE  x \in Ends(b) /\ b[x].kind = k /\ \A i \in Ends(a) : i < x
    <2>1. HeaderSize - f + 1 \in 1 .. Len(p)
      BY <1>1, <1>2, <1>6
    <2>2. b[x] = [kind |-> k, at |-> f + (HeaderSize - f + 1) - 1]
      BY <1>1, <2>1 DEF IsPiece
    <2>3. b[x].at = HeaderSize /\ b[x].kind = k
      BY <1>2, <2>2
    <2>4. x \in 1 .. Len(b)
      BY <1>1, <2>1
    <2>5. \A i \in Ends(a) : i < x
      BY <1>1, <1>3, <2>1 DEF Ends
    <2> QED BY <1>3, <2>3, <2>4, <2>5 DEF Ends
  <1>7. ASSUME ~(f <= HeaderSize /\ HeaderSize < f + Len(p)) PROVE x \notin Len(a) + 1 .. Len(b)
    BY <1>1, <1>2, <1>7
  <1> HIDE DEF x
  <1> QED BY <1>2, <1>4, <1>5, <1>6, <1>7 DEF OneMore, b

Extends(b, a) == \A i \in 1 .. Len(a) : b[i] = a[i]

\* Then the frame is told last.
LEMMA ToldGrows ==
    ASSUME NEW a \in Seq(Octets), NEW u \in Seq(Octets), NEW v \in Seq(Octets),
           NEW k \in Kinds, NEW b \in Seq(Octets),
           ~Waits(u), Extends(b, a), OneMore(k, a, b)
    PROVE  Told(b, v) = Append(Told(a, u), [kind |-> k, whole |-> ~Waits(v)])
  <1>0. PICK x \in Int :
             /\ Ends(b) = Ends(a) \cup {x}
             /\ \A i \in Ends(a) : i < x
             /\ b[x].kind = k
    BY DEF OneMore
  <1> DEFINE n == Cardinality(Ends(a))
             f == [kind |-> k, whole |-> ~Waits(v)]
  <1>1. /\ n \in Nat /\ Cardinality(Ends(b)) = n + 1
        /\ \A i \in 1 .. n : Nth(Ends(b), i) = Nth(Ends(a), i)
        /\ Nth(Ends(b), n + 1) = x
    <2>1. Ends(a) \in SUBSET Int /\ IsFiniteSet(Ends(a)) /\ n \in Nat
      BY EndsFacts
    <2>2. /\ Cardinality(Ends(a) \cup {x}) = Cardinality(Ends(a)) + 1
          /\ \A i \in 1 .. Cardinality(Ends(a)) : Nth(Ends(a) \cup {x}, i) = Nth(Ends(a), i)
          /\ Nth(Ends(a) \cup {x}, Cardinality(Ends(a)) + 1) = x
      BY <1>0, <2>1, NthAdd
    <2> QED BY <1>0, <2>1, <2>2
  <1>2. /\ Told(b, v) \in Seq(Rpc!Frames) /\ Len(Told(b, v)) = n + 1
        /\ Told(a, u) \in Seq(Rpc!Frames) /\ Len(Told(a, u)) = n
    BY <1>1, ToldType
  <1>3. f \in Rpc!Frames
    BY DEF Rpc!Frames, Rpc!Kinds, Kinds
  <1>4. ASSUME NEW i \in 1 .. n PROVE Told(b, v)[i] = Told(a, u)[i]
    <2>1. i \in 1 .. n + 1 /\ i < n + 1
      BY <1>1
    <2>2. /\ Told(b, v)[i] \in Rpc!Frames /\ Told(b, v)[i].whole
          /\ Told(b, v)[i].kind = b[Nth(Ends(a), i)].kind
      <3>1. /\ Told(b, v)[i] \in Rpc!Frames
            /\ Told(b, v)[i].kind = b[Nth(Ends(b), i)].kind
            /\ Told(b, v)[i].whole <=> (i < Cardinality(Ends(b)) \/ ~Waits(v))
        BY <1>1, <2>1, ToldType
      <3> QED BY <1>1, <2>1, <3>1
    <2>3. /\ Told(a, u)[i] \in Rpc!Frames /\ Told(a, u)[i].whole
          /\ Told(a, u)[i].kind = a[Nth(Ends(a), i)].kind
      BY ToldType
    <2>4. Nth(Ends(a), i) \in 1 .. Len(a)
      BY EndsFacts
    <2>5. b[Nth(Ends(a), i)] = a[Nth(Ends(a), i)]
      BY <2>4 DEF Extends
    <2> QED BY <2>2, <2>3, <2>5, FrameEqual
  <1>5. Told(b, v)[n + 1] = f
    <2>1. n + 1 \in 1 .. n + 1 /\ ~(n + 1 < n + 1)
      BY <1>1
    <2>2. /\ Told(b, v)[n + 1] \in Rpc!Frames /\ Told(b, v)[n + 1].kind = k
          /\ Told(b, v)[n + 1].whole <=> (n + 1 < n + 1 \/ ~Waits(v))
      BY <1>0, <1>1, <2>1, ToldType
    <2>3. Told(b, v)[n + 1].whole <=> ~Waits(v)
      BY <1>1, <2>2
    <2>4. f.kind = k /\ (f.whole <=> ~Waits(v))
      OBVIOUS
    <2> QED BY <1>3, <2>2, <2>3, <2>4, FrameEqual
  <1> HIDE DEF f
  <1>6. /\ Append(Told(a, u), f) \in Seq(Rpc!Frames)
        /\ Len(Append(Told(a, u), f)) = n + 1
        /\ \A i \in 1 .. n : Append(Told(a, u), f)[i] = Told(a, u)[i]
        /\ Append(Told(a, u), f)[n + 1] = f
    BY <1>1, <1>2, <1>3
  <1>7. \A i \in 1 .. n + 1 : Told(b, v)[i] = Append(Told(a, u), f)[i]
    BY <1>1, <1>4, <1>5, <1>6
  <1> QED BY <1>1, <1>2, <1>6, <1>7, SeqEqual DEF f

\* Without one the frames are those told before.
LEMMA ToldStays ==
    ASSUME NEW a \in Seq(Octets), NEW u \in Seq(Octets), NEW v \in Seq(Octets),
           NEW b \in Seq(Octets), Extends(b, a),
           Ends(b) = Ends(a), Waits(u) <=> Waits(v)
    PROVE  Told(b, v) = Told(a, u)
  <1>1. /\ Told(b, v) \in Seq(Rpc!Frames) /\ Len(Told(b, v)) = Cardinality(Ends(a))
        /\ Told(a, u) \in Seq(Rpc!Frames) /\ Len(Told(a, u)) = Cardinality(Ends(a))
    BY ToldType
  <1>2. ASSUME NEW i \in 1 .. Cardinality(Ends(a)) PROVE Told(b, v)[i] = Told(a, u)[i]
    <2>1. b[Nth(Ends(a), i)] = a[Nth(Ends(a), i)]
      BY EndsFacts DEF Extends
    <2>2. /\ Told(b, v)[i] \in Rpc!Frames /\ Told(b, v)[i].kind = b[Nth(Ends(a), i)].kind
          /\ Told(b, v)[i].whole <=> (i < Cardinality(Ends(a)) \/ ~Waits(v))
      BY SMTT(20), ToldType
    <2>3. /\ Told(a, u)[i] \in Rpc!Frames /\ Told(a, u)[i].kind = a[Nth(Ends(a), i)].kind
          /\ Told(a, u)[i].whole <=> (i < Cardinality(Ends(a)) \/ ~Waits(u))
      BY ToldType
    <2> QED BY <2>1, <2>2, <2>3, FrameEqual
  <1> QED BY <1>1, <1>2, SeqEqual

\* The rest of a body makes the last frame whole.
LEMMA ToldCompletes ==
    ASSUME NEW a \in Seq(Octets), NEW u \in Seq(Octets), NEW v \in Seq(Octets),
           NEW b \in Seq(Octets), Extends(b, a),
           Ends(b) = Ends(a), Ends(a) # {}, Waits(u), ~Waits(v)
    PROVE  LET t == Told(a, u)
           IN  /\ t # <<>> /\ ~t[Len(t)].whole
               /\ Told(b, v) = [t EXCEPT ![Len(t)].whole = TRUE]
  <1> DEFINE n == Cardinality(Ends(a))
             t == Told(a, u)
             w == [t[n] EXCEPT !.whole = TRUE]
             e == [t EXCEPT ![n] = w]
  <1>1. n \in Nat /\ n # 0
    BY EndsFacts, FS_EmptySet
  <1>2. /\ Told(b, v) \in Seq(Rpc!Frames) /\ Len(Told(b, v)) = n
        /\ t \in Seq(Rpc!Frames) /\ Len(t) = n
    BY ToldType
  <1>3. ASSUME NEW i \in 1 .. n
        PROVE  /\ t[i] \in Rpc!Frames /\ Told(b, v)[i] \in Rpc!Frames
               /\ Told(b, v)[i].kind = t[i].kind
               /\ t[i].whole <=> (i < n \/ ~Waits(u))
               /\ Told(b, v)[i].whole <=> (i < n \/ ~Waits(v))
    <2>1. b[Nth(Ends(a), i)] = a[Nth(Ends(a), i)]
      BY EndsFacts DEF Extends
    <2>2. /\ t[i] \in Rpc!Frames /\ t[i].kind = a[Nth(Ends(a), i)].kind
          /\ t[i].whole <=> (i < n \/ ~Waits(u))
      BY ToldType
    <2>3. /\ Told(b, v)[i] \in Rpc!Frames /\ Told(b, v)[i].kind = b[Nth(Ends(b), i)].kind
          /\ Told(b, v)[i].whole <=> (i < Cardinality(Ends(b)) \/ ~Waits(v))
      BY ToldType
    <2> HIDE DEF t
    <2> QED BY <2>1, <2>2, <2>3
  <1>4. n \in 1 .. n
    BY <1>1
  <1> HIDE DEF t, n
  <1>5. w \in Rpc!Frames /\ w.kind = t[n].kind /\ w.whole = TRUE
    <2>1. t[n] \in Rpc!Frames
      BY <1>3, <1>4
    <2> QED BY <2>1 DEF Rpc!Frames
  <1>6. ASSUME NEW i \in 1 .. n, i # n PROVE Told(b, v)[i] = t[i]
    <2>1. Told(b, v)[i].whole <=> t[i].whole
      BY <1>1, <1>3, <1>6
    <2> QED BY <1>3, <2>1, FrameEqual
  <1>7. ~t[n].whole
    BY <1>1, <1>3, <1>4
  <1>8. Told(b, v)[n] = w
    <2>1. Told(b, v)[n].whole /\ Told(b, v)[n].kind = t[n].kind /\ Told(b, v)[n] \in Rpc!Frames
      BY <1>3, <1>4
    <2> HIDE DEF w
    <2> QED BY <1>5, <2>1, FrameEqual
  <1> HIDE DEF w
  <1>9. e \in Seq(Rpc!Frames) /\ Len(e) = n /\ e[n] = w /\ \A i \in 1 .. n : i # n => e[i] = t[i]
    BY <1>1, <1>2, <1>5
  <1>10. Told(b, v) = e
    <2>1. \A i \in 1 .. n : Told(b, v)[i] = e[i]
      BY <1>6, <1>8, <1>9
    <2> QED BY <1>2, <1>9, <2>1, SeqEqual
  <1>11. t # <<>>
    BY <1>1, <1>2
  <1>12. e = [t EXCEPT ![Len(t)].whole = TRUE]
    BY <1>2 DEF w
  <1> QED BY <1>2, <1>7, <1>10, <1>11, <1>12 DEF t

\* A frame of kind k is first, from end to end.
Leads(k, a) ==
    Size(k) <= Len(a) /\ \A j \in 1 .. Size(k) : a[j] = [kind |-> k, at |-> j]

\* b is a without it.
LeftOf(b, k, a) == Leads(k, a) /\ b = SubSeq(a, Size(k) + 1, Len(a))

FirstTold(k, a, b, u) ==
    /\ Told(a, u) # <<>>
    /\ Head(Told(a, u)).kind = k
    /\ Ends(b) # {} \/ ~Waits(u) => Head(Told(a, u)).whole
    /\ Told(b, u) = Tail(Told(a, u))
    /\ Cardinality(Ends(a)) = Cardinality(Ends(b)) + 1

\* The first frame is read.
LEMMA ToldDrops ==
    ASSUME NEW a \in Seq(Octets), NEW u \in Seq(Octets), NEW k \in Kinds,
           NEW b, LeftOf(b, k, a)
    PROVE  FirstTold(k, a, b, u)
  <1> DEFINE m == Size(k)
  <1>0. ASSUME NEW j \in 1 .. m PROVE a[j].kind = k /\ a[j].at = j
    <2>1. a[j] = [kind |-> k, at |-> j]
      BY DEF LeftOf, Leads
    <2> QED BY <2>1
  <1>1. /\ m \in Nat /\ m >= HeaderSize /\ HeaderSize \in Nat /\ HeaderSize >= 1
        /\ Len(a) \in Nat /\ m <= Len(a)
    BY SizeType DEF LeftOf, Leads
  <1>2. /\ b \in Seq(Octets) /\ Len(b) = Len(a) - m
        /\ \A i \in 1 .. Len(b) : b[i] = a[i + m]
    <2>1. b = SubSeq(a, m + 1, Len(a))
      BY DEF LeftOf
    <2> HIDE DEF m
    <2> QED BY SMTT(20), <1>1, <2>1
  <1>3. DOMAIN a = 1 .. Len(a) /\ DOMAIN b = 1 .. Len(b)
    BY <1>2
  <1> HIDE DEF m
  <1>4. Ends(b) \in SUBSET Int /\ IsFiniteSet(Ends(b)) /\ Cardinality(Ends(b)) \in Nat
    BY <1>2, EndsFacts
  <1>5. ASSUME NEW i \in Ends(b) PROVE i \in 1 .. Len(b) /\ b[i].at = HeaderSize /\ HeaderSize < i + m
    <2>1. i \in 1 .. Len(b) /\ b[i].at = HeaderSize
      BY <1>3 DEF Ends
    <2>2. i \in Nat /\ i >= 1
      BY <1>1, <1>2, <2>1
    <2>3. HeaderSize < i + m
      BY <1>1, <2>2
    <2> QED BY <2>1, <2>3
  <1>6. \A i : i \in Ends(a) <=> (i = HeaderSize \/ \E h \in Ends(b) : i = h + m)
    <2>1. ASSUME NEW i \in Ends(a) PROVE i = HeaderSize \/ \E h \in Ends(b) : i = h + m
      <3>1. i \in 1 .. Len(a) /\ a[i].at = HeaderSize
        BY <1>3 DEF Ends
      <3>2. CASE i <= m
        <4>1. a[i].at = i
          BY <1>0, <1>1, <3>1, <3>2
        <4> QED BY <3>1, <4>1
      <3>3. CASE i > m
        <4>1. i - m \in 1 .. Len(b) /\ i = (i - m) + m
          BY <1>1, <1>2, <3>1, <3>3
        <4>2. i - m \in Ends(b)
          BY <1>2, <1>3, <3>1, <4>1 DEF Ends
        <4> QED BY <4>1, <4>2
      <3> QED BY <1>1, <3>1, <3>2, <3>3
    <2>2. HeaderSize \in Ends(a)
      BY <1>0, <1>1, <1>3 DEF Ends
    <2>3. ASSUME NEW h \in Ends(b) PROVE h + m \in Ends(a)
      <3>1. h \in 1 .. Len(b) /\ b[h].at = HeaderSize
        BY <1>5
      <3>2. h + m \in 1 .. Len(a)
        BY <1>1, <1>2, <3>1
      <3>3. a[h + m].at = HeaderSize
        BY <1>2, <3>1
      <3> QED BY <1>3, <3>2, <3>3 DEF Ends
    <2> QED BY <2>1, <2>2, <2>3
  <1> DEFINE n == Cardinality(Ends(b))
  <1>7. /\ Cardinality(Ends(a)) = n + 1
        /\ \A i \in 1 .. n : Nth(Ends(a), i + 1) = Nth(Ends(b), i) + m
        /\ Nth(Ends(a), 1) = HeaderSize
    <2>1. Ends(a) = {HeaderSize} \cup {i + m : i \in Ends(b)}
      <3>1. \A i \in Ends(a) : i \in {HeaderSize} \cup {h + m : h \in Ends(b)}
        BY <1>6
      <3>2. \A i \in {HeaderSize} \cup {h + m : h \in Ends(b)} : i \in Ends(a)
        BY <1>6
      <3> QED BY <3>1, <3>2
    <2>2. Shifted(Ends(a), Ends(b), m, HeaderSize)
      BY <1>1, <1>4, <1>5, <2>1 DEF Shifted
    <2> QED BY <2>2, NthShift
  <1>8. /\ Told(a, u) \in Seq(Rpc!Frames) /\ Len(Told(a, u)) = n + 1
        /\ Told(b, u) \in Seq(Rpc!Frames) /\ Len(Told(b, u)) = n
    BY <1>2, <1>7, ToldType
  <1>9. ASSUME NEW i \in 1 .. n PROVE Told(b, u)[i] = Told(a, u)[i + 1]
    <2>1. i + 1 \in 1 .. n + 1
      BY <1>4
    <2>2. Nth(Ends(b), i) \in 1 .. Len(b)
      BY <1>2, EndsFacts
    <2>3. b[Nth(Ends(b), i)] = a[Nth(Ends(a), i + 1)]
      BY <1>2, <1>7, <2>2
    <2>4. /\ Told(b, u)[i] \in Rpc!Frames /\ Told(b, u)[i].kind = b[Nth(Ends(b), i)].kind
          /\ Told(b, u)[i].whole <=> (i < n \/ ~Waits(u))
      BY <1>2, ToldType
    <2>5. /\ Told(a, u)[i + 1] \in Rpc!Frames
          /\ Told(a, u)[i + 1].kind = a[Nth(Ends(a), i + 1)].kind
          /\ Told(a, u)[i + 1].whole <=> (i + 1 < n + 1 \/ ~Waits(u))
      BY <1>7, <2>1, ToldType
    <2>6. i < n <=> i + 1 < n + 1
      BY <1>4
    <2>7. Told(b, u)[i].kind = Told(a, u)[i + 1].kind
      BY <2>3, <2>4, <2>5
    <2>8. Told(b, u)[i].whole <=> Told(a, u)[i + 1].whole
      BY <2>4, <2>5, <2>6
    <2> QED BY <2>4, <2>5, <2>7, <2>8, FrameEqual
  <1>10. /\ Told(a, u)[1].kind = k
         /\ Ends(b) # {} \/ ~Waits(u) => Told(a, u)[1].whole
    <2>1. 1 \in 1 .. n + 1
      BY <1>4
    <2>2. /\ Told(a, u)[1].kind = a[HeaderSize].kind
          /\ Told(a, u)[1].whole <=> (1 < n + 1 \/ ~Waits(u))
      BY <1>7, <2>1, ToldType
    <2>3. a[HeaderSize].kind = k
      BY <1>0, <1>1
    <2>4. Ends(b) # {} => 1 < n + 1
      BY <1>4, FS_EmptySet
    <2> QED BY <2>2, <2>3, <2>4
  <1> HIDE DEF n
  <1>11. Told(a, u) # <<>> /\ Head(Told(a, u)) = Told(a, u)[1]
    BY <1>4, <1>8 DEF n
  <1>12. Told(b, u) = Tail(Told(a, u))
    <2>1. /\ Tail(Told(a, u)) \in Seq(Rpc!Frames) /\ Len(Tail(Told(a, u))) = n
          /\ \A i \in 1 .. n : Tail(Told(a, u))[i] = Told(a, u)[i + 1]
      BY <1>4, <1>8, <1>11 DEF n
    <2> QED BY <1>8, <1>9, <2>1, SeqEqual
  <1> QED BY <1>2, <1>7, <1>10, <1>11, <1>12 DEF n, FirstTold

\* A frame of which some is missing is the only one, and not whole.
LEMMA ToldOne ==
    ASSUME NEW a \in Seq(Octets), NEW u \in Seq(Octets), NEW k \in Kinds,
           HeaderSize <= Len(a), \A j \in 1 .. Len(a) : a[j] = [kind |-> k, at |-> j],
           Waits(u)
    PROVE  Told(a, u) # <<>> /\ ~Head(Told(a, u)).whole
  <1>1. HeaderSize \in Nat /\ HeaderSize >= 1 /\ Len(a) \in Nat
    BY FramingAssumption
  <1>2. Ends(a) = {HeaderSize}
    <2>1. DOMAIN a = 1 .. Len(a)
      OBVIOUS
    <2>2. a[HeaderSize] = [kind |-> k, at |-> HeaderSize] /\ HeaderSize \in DOMAIN a
      BY <1>1, <2>1
    <2>3. HeaderSize \in Ends(a)
      BY <2>2 DEF Ends
    <2>4. ASSUME NEW i \in Ends(a) PROVE i = HeaderSize
      <3>1. i \in 1 .. Len(a) /\ a[i].at = HeaderSize
        BY <2>1 DEF Ends
      <3>2. a[i] = [kind |-> k, at |-> i]
        BY <3>1
      <3> QED BY <3>1, <3>2
    <2> QED BY <2>3, <2>4
  <1>3. Cardinality(Ends(a)) = 1
    BY <1>2, FS_Singleton
  <1>4. /\ Told(a, u) \in Seq(Rpc!Frames) /\ Len(Told(a, u)) = 1
        /\ Told(a, u)[1].whole <=> (1 < 1 \/ ~Waits(u))
    <2>1. 1 \in 1 .. 1
      OBVIOUS
    <2> QED BY <1>3, <2>1, ToldType
  <1>5. ~Told(a, u)[1].whole
    BY <1>4
  <1> QED BY <1>4, <1>5

\* A part of a header tells nothing.
LEMMA ToldNone ==
    ASSUME NEW a \in Seq(Octets), NEW u \in Seq(Octets),
           \A j \in 1 .. Len(a) : a[j].at < HeaderSize
    PROVE  Ends(a) = {} /\ Told(a, u) = <<>>
  <1>1. Ends(a) = {}
    BY FramingAssumption DEF Ends
  <1>2. Cardinality(Ends(a)) = 0
    BY <1>1, FS_EmptySet
  <1>3. Told(a, u) \in Seq(Rpc!Frames) /\ Len(Told(a, u)) = 0
    BY <1>2, ToldType
  <1> QED BY <1>1, <1>3

-----------------------------------------------------------------------------
(***************************************************************************)
(* The inductive invariant.                                                *)
(***************************************************************************)
Fields ==
    /\ platform \in Platforms
    /\ state \in Rpc!States
    /\ isOpen \in BOOLEAN
    /\ lastErrorCode \in Rpc!ErrorCodes
    /\ reading \in {"no", "Open", "owner"}
    /\ peer \in {"none", "open", "gone"}
    /\ readies \in 0 .. 1
    /\ notices \in 0 .. 1
    /\ used \in BOOLEAN
    /\ header \in Kinds \cup {NoHeader}
    /\ torn \in BOOLEAN

\* What RpcConnection knows of the session, and that a pipe that is not open is
\* empty.
Booked ==
    /\ isOpen <=> state # "Disconnected"
    /\ isOpen <=> peer # "none"
    /\ ~isOpen => wire = <<>> /\ unsent = <<>> /\ header = NoHeader
    /\ header # NoHeader => reading # "no"
    /\ reading = "Open" => state \in {"SentHandshake", "Disconnected"}
    /\ reading = "owner" => state \in {"Connected", "Disconnected"}
    /\ state # "Disconnected" => notices = 0
    /\ state = "SentHandshake" => readies = 0

\* The client still has to write the rest of one frame, or nothing.
RestOf(u) ==
    \E kind \in Kinds : \E from \in 2 .. Size(kind) + 1 :
        u = SubSeq(Bytes(kind), from, Size(kind))

Typed ==
    /\ Fields
    /\ Booked
    /\ wire \in Seq(Octets)
    /\ RestOf(unsent)

\* The header that Read has, the bytes in the pipe and those that the client
\* still has to write are whole frames: Read never stands in the middle of one.
\* A header is in the pipe in part only on a platform that allows it, and there is
\* room for its frame.
Aligned ==
    /\ Whole(Arrived \o unsent)
    /\ MidHeader => /\ platform \in SplitsHeaders
                    /\ Cardinality(HeadEnds) < MaxFrames

IInv == Typed /\ Aligned

\* A piece of a frame.
LEMMA PieceFacts ==
    ASSUME NEW k \in Kinds, NEW f \in 1 .. Size(k) + 1, NEW g \in Nat, g <= Size(k), f <= g + 1
    PROVE  /\ SubSeq(Bytes(k), f, g) \in Seq(Octets)
           /\ Len(SubSeq(Bytes(k), f, g)) = g - f + 1
           /\ \A j \in 1 .. g - f + 1 : SubSeq(Bytes(k), f, g)[j] = [kind |-> k, at |-> f + j - 1]
  <1>1. /\ Bytes(k) \in Seq(Octets) /\ Len(Bytes(k)) = Size(k) /\ Size(k) \in Nat
        /\ \A i \in 1 .. Size(k) : Bytes(k)[i] = [kind |-> k, at |-> i]
    BY BytesType, SizeType
  <1>2. /\ SubSeq(Bytes(k), f, g) \in Seq(Octets)
        /\ Len(SubSeq(Bytes(k), f, g)) = g - f + 1
    BY <1>1
  <1>3. ASSUME NEW j \in 1 .. g - f + 1
        PROVE  SubSeq(Bytes(k), f, g)[j] = [kind |-> k, at |-> f + j - 1]
    <2>1. f + j - 1 \in 1 .. Size(k) /\ SubSeq(Bytes(k), f, g)[j] = Bytes(k)[f + j - 1]
      BY <1>1
    <2> QED BY <1>1, <2>1
  <1> QED BY <1>2, <1>3

LEMMA SplitFacts ==
    ASSUME NEW s \in Seq(Octets), NEW n \in 0 .. Len(s)
    PROVE  /\ Len(s) \in Nat
           /\ SubSeq(s, 1, n) \in Seq(Octets) /\ Len(SubSeq(s, 1, n)) = n
           /\ \A j \in 1 .. n : SubSeq(s, 1, n)[j] = s[j]
           /\ SubSeq(s, n + 1, Len(s)) \in Seq(Octets)
           /\ Len(SubSeq(s, n + 1, Len(s))) = Len(s) - n
           /\ \A j \in 1 .. Len(s) - n : SubSeq(s, n + 1, Len(s))[j] = s[n + j]
           /\ SubSeq(s, 1, n) \o SubSeq(s, n + 1, Len(s)) = s
  <1>1. Len(s) \in Nat
    OBVIOUS
  <1>2. /\ SubSeq(s, 1, n) \in Seq(Octets) /\ Len(SubSeq(s, 1, n)) = n
        /\ \A j \in 1 .. n : SubSeq(s, 1, n)[j] = s[j]
    BY <1>1
  <1>3. /\ SubSeq(s, n + 1, Len(s)) \in Seq(Octets)
        /\ Len(SubSeq(s, n + 1, Len(s))) = Len(s) - n
        /\ \A j \in 1 .. Len(s) - n : SubSeq(s, n + 1, Len(s))[j] = s[n + j]
    BY <1>1
  <1> DEFINE p == SubSeq(s, 1, n)
             q == SubSeq(s, n + 1, Len(s))
  <1>4. p \o q = s
    <2>1. /\ p \in Seq(Octets) /\ q \in Seq(Octets) /\ Len(p) = n /\ Len(q) = Len(s) - n
          /\ \A j \in 1 .. n : p[j] = s[j]
          /\ \A j \in 1 .. Len(s) - n : q[j] = s[n + j]
      BY <1>2, <1>3
    <2> HIDE DEF p, q
    <2>2. /\ p \o q \in Seq(Octets) /\ Len(p \o q) = Len(s)
          /\ \A i \in 1 .. Len(p) : (p \o q)[i] = p[i]
          /\ \A i \in 1 .. Len(q) : (p \o q)[Len(p) + i] = q[i]
      <3>1. p \in Seq(Octets) /\ q \in Seq(Octets)
        BY <2>1
      <3>2. /\ p \o q \in Seq(Octets) /\ Len(p \o q) = Len(p) + Len(q)
            /\ \A i \in 1 .. Len(p) : (p \o q)[i] = p[i]
            /\ \A i \in 1 .. Len(q) : (p \o q)[Len(p) + i] = q[i]
        BY <3>1, ConcatFacts
      <3>3. Len(p) + Len(q) = Len(s)
        BY <1>1, <2>1
      <3> QED BY <3>2, <3>3
    <2>3. ASSUME NEW i \in 1 .. Len(s) PROVE (p \o q)[i] = s[i]
      <3>0. n \in Nat /\ i \in Nat /\ 1 <= i /\ i <= Len(s)
        BY <1>1
      <3>1. CASE i <= n
        <4>1. i \in 1 .. n
          BY <3>0, <3>1
        <4> QED BY <2>1, <2>2, <4>1
      <3>2. CASE i > n
        <4> DEFINE h == i - n
        <4>1. h \in 1 .. Len(s) - n /\ i = n + h
          BY <1>1, <3>0, <3>2
        <4> HIDE DEF h
        <4>2. (p \o q)[n + h] = q[h] /\ q[h] = s[n + h]
          BY <2>1, <2>2, <4>1
        <4> QED BY <4>1, <4>2
      <3>3. i <= n \/ i > n
        BY <3>0
      <3> QED BY <3>1, <3>2, <3>3
    <2> QED BY <2>2, <2>3, SeqEqual
  <1> QED BY <1>1, <1>2, <1>3, <1>4

LEMMA RestFacts ==
    ASSUME NEW u, RestOf(u)
    PROVE  /\ u \in Seq(Octets) /\ Len(u) \in Nat
           /\ u # <<>> =>
                LET k == u[1].kind
                    f == u[1].at
                IN  /\ k \in Kinds /\ f \in 2 .. Size(k)
                    /\ Len(u) = Size(k) - f + 1
                    /\ u = SubSeq(Bytes(k), f, Size(k))
                    /\ \A j \in 1 .. Len(u) : u[j] = [kind |-> k, at |-> f + j - 1]
  <1>0. PICK k \in Kinds : \E from \in 2 .. Size(k) + 1 : u = SubSeq(Bytes(k), from, Size(k))
    BY DEF RestOf
  <1>1. PICK f \in 2 .. Size(k) + 1 : u = SubSeq(Bytes(k), f, Size(k))
    BY <1>0
  <1>2. /\ u \in Seq(Octets) /\ Len(u) = Size(k) - f + 1 /\ Size(k) \in Nat
        /\ \A j \in 1 .. Len(u) : u[j] = [kind |-> k, at |-> f + j - 1]
    <2>1. /\ Size(k) \in Nat /\ f \in 1 .. Size(k) + 1
          /\ Size(k) <= Size(k) /\ f <= Size(k) + 1
      BY SizeType
    <2> QED BY <1>1, <2>1, PieceFacts
  <1>3. ASSUME u # <<>> PROVE u[1].kind = k /\ u[1].at = f /\ f <= Size(k)
    <2>1. 1 \in 1 .. Len(u)
      BY <1>2, <1>3
    <2>2. u[1] = [kind |-> k, at |-> f + 1 - 1]
      BY <1>2, <2>1
    <2> QED BY <1>2, <2>1, <2>2
  <1>4. Len(u) \in Nat
    BY <1>2
  <1>5. ASSUME u # <<>>
        PROVE  /\ u[1].kind = k /\ u[1].at = f /\ k \in Kinds /\ f \in 2 .. Size(k)
    BY <1>2, <1>3, <1>5
  <1> QED BY <1>1, <1>2, <1>4, <1>5

LEMMA NoRest == RestOf(<<>>)
  <1>1. "Bad" \in Kinds
    BY DEF Kinds
  <1>2. /\ Size("Bad") \in Nat /\ Size("Bad") + 1 \in 2 .. Size("Bad") + 1
        /\ Len(SubSeq(Bytes("Bad"), Size("Bad") + 1, Size("Bad"))) = 0
        /\ SubSeq(Bytes("Bad"), Size("Bad") + 1, Size("Bad")) \in Seq(Octets)
    BY <1>1, SizeType, PieceFacts
  <1>3. <<>> = SubSeq(Bytes("Bad"), Size("Bad") + 1, Size("Bad"))
    BY <1>2
  <1> QED BY <1>1, <1>2, <1>3 DEF RestOf

\* Of s, which starts at byte f of a frame of kind k, the first n bytes are p, and
\* r is the rest.
Cuts(k, f, s, n, p, r) ==
    /\ Size(k) \in Nat /\ Len(s) = Size(k) - f + 1
    /\ p \in Seq(Octets) /\ Len(p) = n
    /\ \A j \in 1 .. n : p[j] = [kind |-> k, at |-> f + j - 1]
    /\ RestOf(r)
    /\ r = SubSeq(Bytes(k), f + n, Size(k))
    /\ f + n \in 2 .. Size(k) + 1
    /\ p \o r = s

LEMMA CutFacts ==
    ASSUME NEW k \in Kinds, NEW f \in 1 .. Size(k),
           NEW s, s = SubSeq(Bytes(k), f, Size(k)), NEW n \in 1 .. Len(s)
    PROVE  Cuts(k, f, s, n, SubSeq(s, 1, n), SubSeq(s, n + 1, Len(s)))
  <1>1. Size(k) \in Nat
    BY SizeType
  <1>2. /\ s \in Seq(Octets) /\ Len(s) = Size(k) - f + 1
        /\ \A j \in 1 .. Len(s) : s[j] = [kind |-> k, at |-> f + j - 1]
    <2>1. f \in 1 .. Size(k) + 1 /\ Size(k) <= Size(k) /\ f <= Size(k) + 1
      BY <1>1
    <2> QED BY <1>1, <2>1, PieceFacts
  <1>3. n \in 0 .. Len(s)
    BY <1>1, <1>2
  <1>4. f + n \in 2 .. Size(k) + 1
    BY <1>1, <1>2
  <1>5. /\ SubSeq(s, 1, n) \in Seq(Octets) /\ Len(SubSeq(s, 1, n)) = n
        /\ \A j \in 1 .. n : SubSeq(s, 1, n)[j] = s[j]
        /\ SubSeq(s, n + 1, Len(s)) \in Seq(Octets)
        /\ Len(SubSeq(s, n + 1, Len(s))) = Len(s) - n
        /\ \A j \in 1 .. Len(s) - n : SubSeq(s, n + 1, Len(s))[j] = s[n + j]
        /\ SubSeq(s, 1, n) \o SubSeq(s, n + 1, Len(s)) = s
    BY <1>2, <1>3, SplitFacts
  <1>6. SubSeq(s, n + 1, Len(s)) = SubSeq(Bytes(k), f + n, Size(k))
    <2> DEFINE t == SubSeq(Bytes(k), f + n, Size(k))
    <2>1. /\ t \in Seq(Octets) /\ Len(t) = Size(k) - (f + n) + 1
          /\ \A j \in 1 .. Size(k) - (f + n) + 1 : t[j] = [kind |-> k, at |-> (f + n) + j - 1]
      <3>1. f + n \in 1 .. Size(k) + 1 /\ Size(k) <= Size(k) /\ f + n <= Size(k) + 1
        BY <1>1, <1>4
      <3> QED BY <1>1, <3>1, PieceFacts
    <2>2. ASSUME NEW j \in 1 .. Len(s) - n PROVE SubSeq(s, n + 1, Len(s))[j] = t[j]
      <3>1. j \in 1 .. Size(k) - (f + n) + 1 /\ n + j \in 1 .. Len(s)
        BY <1>1, <1>2
      <3>2. s[n + j] = [kind |-> k, at |-> f + (n + j) - 1] /\ f + (n + j) - 1 = (f + n) + j - 1
        BY <1>2, <3>1
      <3> QED BY <1>5, <2>1, <3>1, <3>2
    <2>3. Len(t) = Len(s) - n
      BY <1>1, <1>2, <2>1
    <2>4. t \in Seq(Octets)
      BY <2>1
    <2> HIDE DEF t
    <2> DEFINE q == SubSeq(s, n + 1, Len(s))
    <2>5. q \in Seq(Octets) /\ Len(q) = Len(s) - n /\ \A j \in 1 .. Len(s) - n : q[j] = t[j]
      BY <1>5, <2>2
    <2> HIDE DEF q
    <2>6. q = t
      BY <2>3, <2>4, <2>5, SeqEqual
    <2> QED BY <2>6 DEF q, t
  <1>7. \A j \in 1 .. n : SubSeq(s, 1, n)[j] = [kind |-> k, at |-> f + j - 1]
    <2>1. \A j \in 1 .. n : j \in 1 .. Len(s)
      BY <1>1, <1>2
    <2> QED BY <1>2, <1>5, <2>1
  <1>8. RestOf(SubSeq(s, n + 1, Len(s)))
    BY <1>4, <1>6 DEF RestOf
  <1> QED BY <1>1, <1>2, <1>4, <1>5, <1>6, <1>7, <1>8 DEF Cuts

-----------------------------------------------------------------------------
(***************************************************************************)
(* Types, however headers are cut.                                         *)
(***************************************************************************)
\* The pipe goes, in Close and in Destroy.
LEMMA PipeGoneTyped ==
    ASSUME PipeGone
    PROVE  /\ wire' \in Seq(Octets) /\ RestOf(unsent') /\ header' \in Kinds \cup {NoHeader}
           /\ isOpen' = FALSE /\ peer' = "none"
           /\ wire' = <<>> /\ unsent' = <<>> /\ header' = NoHeader
  BY NoRest DEF PipeGone

LEMMA CloseTyped ==
    ASSUME Typed, Close, lastErrorCode' \in Rpc!ErrorCodes, reading' \in {"no", reading},
           torn' \in BOOLEAN
    PROVE  Typed'
  <1>1. notices' \in 0 .. 1
    BY DEF Typed, Fields, Booked, Close, Notified, Rpc!States
  <1>2. Fields'
    BY <1>1, PipeGoneTyped DEF Typed, Fields, Close, Rpc!States
  <1>3. Booked'
    BY PipeGoneTyped DEF Typed, Fields, Booked, Close
  <1> QED BY <1>2, <1>3, PipeGoneTyped DEF Typed, Close

LEMMA ReadTyped ==
    ASSUME Typed, ReadStep
    PROVE  Typed'
  <1>0. wire \in Seq(Octets) /\ torn \in BOOLEAN /\ HeaderSize \in Nat /\ HeaderSize >= 1
    BY FramingAssumption DEF Typed, Fields
  <1>1. CASE ReadsHeader
    <2>1. Len(wire) >= HeaderSize
      BY <1>1 DEF ReadsHeader, Has
    <2>2. header' \in Kinds
      <3> DEFINE b == SubSeq(wire, 1, HeaderSize)
      <3>1. b[1] \in Octets
        BY <1>0, <2>1
      <3>2. b[1].kind \in Kinds
        BY <3>1 DEF Octets
      <3>3. header' \in Says(b)
        BY <1>1 DEF ReadsHeader
      <3> HIDE DEF b
      <3> QED BY <3>2, <3>3 DEF Says
    <2>3. wire' \in Seq(Octets)
      BY <1>0, <1>1, <2>1 DEF ReadsHeader
    <2> QED BY <1>1, <2>2, <2>3 DEF ReadsHeader, Has, Typed, Fields, Booked, session
  <1>2. CASE FindsNoHeader
    <2>1. wire' \in Seq(Octets) /\ isOpen
      BY <1>0, <1>2 DEF FindsNoHeader, Left, EndSeen
    <2> QED BY <1>2, <2>1 DEF FindsNoHeader, Typed, Fields, Booked
  <1>3. CASE FindsEnd \/ FindsNoBody \/ GetsEnd
    <2>1. \E code \in Rpc!ErrorCodes : Fails(code)
      BY <1>3 DEF FindsEnd, FindsNoBody, GetsEnd, Rpc!ErrorCodes
    <2>2. /\ Close /\ lastErrorCode' \in Rpc!ErrorCodes /\ reading' \in {"no", reading}
          /\ torn' \in BOOLEAN
      BY <1>0, <2>1 DEF Fails
    <2> QED BY <2>2, CloseTyped
  <1>4. ASSUME ReadsBody PROVE header \in Kinds /\ wire' \in Seq(Octets) /\ isOpen /\ header' = NoHeader
    <2>1. header \in Kinds /\ isOpen /\ header' = NoHeader
      BY <1>4 DEF ReadsBody, Typed, Fields, Booked
    <2>2. BodySize[header] \in Nat /\ Len(wire) >= BodySize[header]
      BY <1>4, <2>1, SizeType DEF ReadsBody, HasBody, Has
    <2> QED BY <1>0, <1>4, <2>1, <2>2 DEF ReadsBody
  <1>5. CASE GetsMessage
    <2>1. wire' \in Seq(Octets) /\ isOpen /\ header' = NoHeader
      BY <1>4, <1>5 DEF GetsMessage
    <2>2. state \in {"SentHandshake", "Connected"} /\ (reading = "Open" => readies = 0)
      BY <2>1 DEF Typed, Fields, Booked, Rpc!States
    <2>3. state' \in {"SentHandshake", "Connected"} /\ readies' \in 0 .. 1
          /\ (state' = "SentHandshake" => readies' = 0)
      BY <1>5, <2>2 DEF GetsMessage, Typed, Fields, Booked
    <2>4. Fields'
      BY <1>5, <2>1, <2>3 DEF GetsMessage, Typed, Fields, Rpc!States
    <2>5. Booked'
      BY <1>5, <2>1, <2>2, <2>3 DEF GetsMessage, Typed, Booked
    <2> QED BY <1>5, <2>1, <2>4, <2>5 DEF GetsMessage, Typed
  <1>6. CASE GetsPong
    <2>1. wire' \in Seq(Octets) /\ isOpen /\ header' = NoHeader
      BY <1>4, <1>6 DEF GetsPong
    <2> QED BY <1>6, <2>1 DEF GetsPong, Typed, Fields, Booked, session
  <1>7. CASE GetsPing
    <2>1. PICK sent \in Sent : /\ Writes(sent)
                              /\ IF Succeeds(sent)
                                   THEN ReadsBody /\ UNCHANGED <<platform, session, unsent>>
                                   ELSE HasBody /\ Close /\ UNCHANGED <<lastErrorCode, reading>>
      BY <1>7 DEF GetsPing
    <2>2. torn' \in BOOLEAN
      BY <1>0, <2>1 DEF Writes
    <2>3. CASE Succeeds(sent)
      <3>1. wire' \in Seq(Octets) /\ isOpen /\ header' = NoHeader
        BY <1>4, <2>1, <2>3
      <3> QED BY <2>1, <2>2, <2>3, <3>1 DEF Typed, Fields, Booked, session
    <2>4. CASE ~Succeeds(sent)
      <3>1. /\ Close /\ lastErrorCode' \in Rpc!ErrorCodes /\ reading' \in {"no", reading}
        BY <2>1, <2>4 DEF Typed, Fields
      <3> QED BY <2>2, <3>1, CloseTyped
    <2> QED BY <2>3, <2>4
  <1> QED BY <1>1, <1>2, <1>3, <1>5, <1>6, <1>7 DEF ReadStep

LEMMA ClientTyped ==
    ASSUME Typed, Client
    PROVE  Typed'
  <1>1. ASSUME NEW k \in Kinds, NEW f \in 1 .. Size(k),
               Sends(SubSeq(Bytes(k), f, Size(k))), peer = "open"
        PROVE  Typed'
    <2> DEFINE bytes == SubSeq(Bytes(k), f, Size(k))
    <2>1. PICK n \in 1 .. Len(bytes) :
               /\ wire' = wire \o SubSeq(bytes, 1, n)
               /\ unsent' = SubSeq(bytes, n + 1, Len(bytes))
               /\ UNCHANGED <<platform, session, header, torn>>
      BY <1>1 DEF Sends
    <2>2. SubSeq(bytes, 1, n) \in Seq(Octets) /\ RestOf(SubSeq(bytes, n + 1, Len(bytes)))
      <3>1. Cuts(k, f, bytes, n, SubSeq(bytes, 1, n), SubSeq(bytes, n + 1, Len(bytes)))
        BY CutFacts
      <3> QED BY <3>1 DEF Cuts
    <2>3. wire' \in Seq(Octets)
      <3>1. wire \in Seq(Octets)
        BY DEF Typed
      <3> QED BY <2>1, <2>2, <3>1, ConcatFacts
    <2>4. RestOf(unsent')
      BY <2>1, <2>2
    <2> QED BY <1>1, <2>1, <2>3, <2>4 DEF Typed, Fields, Booked, session
  <1>2. ASSUME NEW k \in Kinds, ClientSends(k) PROVE Typed'
    <2>1. /\ Bytes(k) = SubSeq(Bytes(k), 1, Size(k)) /\ 1 \in 1 .. Size(k)
      BY BytesType, SizeType
    <2> QED BY <1>1, <1>2, <2>1 DEF ClientSends
  <1>3. CASE ClientSendsRest
    <2>1. unsent # <<>> /\ Sends(unsent) /\ peer = "open" /\ RestOf(unsent)
      BY <1>3 DEF ClientSendsRest, Typed
    <2> DEFINE k == unsent[1].kind
               f == unsent[1].at
    <2>2. k \in Kinds /\ f \in 2 .. Size(k) /\ unsent = SubSeq(Bytes(k), f, Size(k))
      BY <2>1, RestFacts
    <2> HIDE DEF k, f
    <2>3. f \in 1 .. Size(k)
      BY <2>2, SizeType
    <2> QED BY <1>1, <2>1, <2>2, <2>3
  <1>4. CASE ClientCloses
    BY <1>4 DEF ClientCloses, Typed, Fields, Booked
  <1> QED BY <1>2, <1>3, <1>4 DEF Client

LEMMA NextTyped ==
    ASSUME Typed, [Next]_vars
    PROVE  Typed'
  <1>1. CASE Open
    <2>1. Fields'
      <3>1. /\ platform' \in Platforms /\ isOpen' \in BOOLEAN /\ used' \in BOOLEAN
            /\ torn' \in BOOLEAN /\ peer' \in {"none", "open", "gone"}
            /\ header' \in Kinds \cup {NoHeader} /\ reading' \in {"no", "Open", "owner"}
            /\ lastErrorCode' \in Rpc!ErrorCodes
        BY <1>1 DEF Open, Typed, Fields
      <3>2. state' \in Rpc!States
        BY <1>1 DEF Open, Rpc!States
      <3>3. readies' \in 0 .. 1 /\ notices' \in 0 .. 1
        BY <1>1 DEF Open
      <3> QED BY <3>1, <3>2, <3>3 DEF Fields
    <2>2. Booked'
      BY <1>1 DEF Open, Typed, Booked
    <2> QED BY <1>1, <2>1, <2>2 DEF Open, Typed
  <1>2. CASE BeginRead
    BY <1>2 DEF BeginRead, Typed, Fields, Booked
  <1>3. CASE ReadStep
    BY <1>3, ReadTyped
  <1>4. CASE Write
    <2>1. PICK sent \in Sent : /\ Writes(sent)
                              /\ IF Succeeds(sent)
                                   THEN UNCHANGED <<platform, session, wire, unsent, header>>
                                   ELSE Close /\ UNCHANGED <<lastErrorCode, reading>>
      BY <1>4 DEF Write
    <2>2. torn' \in BOOLEAN
      BY <2>1 DEF Writes, Typed, Fields
    <2>3. CASE Succeeds(sent)
      BY <2>1, <2>2, <2>3 DEF Typed, Fields, Booked, session
    <2>4. CASE ~Succeeds(sent)
      <3>1. /\ Close /\ lastErrorCode' \in Rpc!ErrorCodes /\ reading' \in {"no", reading}
        BY <2>1, <2>4 DEF Typed, Fields
      <3> QED BY <2>2, <3>1, CloseTyped
    <2> QED BY <2>3, <2>4
  <1>5. CASE Replace
    <2>1. Fields'
      <3>1. /\ platform' \in Platforms /\ isOpen' \in BOOLEAN /\ used' \in BOOLEAN
            /\ torn' \in BOOLEAN /\ peer' \in {"none", "open", "gone"}
            /\ header' \in Kinds \cup {NoHeader} /\ reading' \in {"no", "Open", "owner"}
        BY <1>5, PipeGoneTyped DEF Replace, Typed, Fields
      <3>2. state' \in Rpc!States /\ lastErrorCode' \in Rpc!ErrorCodes
        BY <1>5 DEF Replace, Rpc!States, Rpc!ErrorCodes
      <3>3. readies' \in 0 .. 1 /\ notices' \in 0 .. 1
        BY <1>5 DEF Replace
      <3> QED BY <3>1, <3>2, <3>3 DEF Fields
    <2>2. Booked'
      BY <1>5, PipeGoneTyped DEF Replace, Typed, Booked
    <2> QED BY <1>5, <2>1, <2>2, PipeGoneTyped DEF Replace, Typed
  <1>6. CASE Client
    BY <1>6, ClientTyped
  <1>7. CASE UNCHANGED vars
    BY <1>7 DEF vars, session, Typed, Fields, Booked
  <1> QED BY <1>1, <1>2, <1>3, <1>4, <1>5, <1>6, <1>7 DEF Next

LEMMA InitTyped == Init => Typed
  <1> SUFFICES ASSUME Init PROVE Typed
    OBVIOUS
  <1>1. RestOf(unsent) /\ wire \in Seq(Octets)
    BY NoRest DEF Init
  <1>2. Fields
    <2>1. /\ platform \in Platforms /\ isOpen \in BOOLEAN /\ used \in BOOLEAN /\ torn \in BOOLEAN
          /\ peer \in {"none", "open", "gone"} /\ header \in Kinds \cup {NoHeader}
      BY DEF Init, Fresh
    <2>2. state \in Rpc!States /\ lastErrorCode \in Rpc!ErrorCodes
      BY DEF Init, Fresh, Rpc!States, Rpc!ErrorCodes
    <2>3. readies \in 0 .. 1 /\ notices \in 0 .. 1 /\ reading \in {"no", "Open", "owner"}
      BY DEF Init, Fresh
    <2> QED BY <2>1, <2>2, <2>3 DEF Fields
  <1> QED BY <1>1, <1>2 DEF Init, Fresh, Typed, Booked

-----------------------------------------------------------------------------
(***************************************************************************)
(* What is in the pipe, when headers are not cut on unix.                  *)
(***************************************************************************)
LEMMA InboxIs ==
    /\ Inbox = Told(Arrived, unsent) /\ HeadEnds = Ends(Arrived)
    /\ Inbox' = Told(Arrived', unsent') /\ HeadEnds' = Ends(Arrived')
  BY DEF Inbox, HeadEnds, Told, Ends

LEMMA ArrivedFacts ==
    ASSUME Typed
    PROVE  /\ Arrived \in Seq(Octets) /\ wire \in Seq(Octets) /\ Len(wire) \in Nat
           /\ unsent \in Seq(Octets)
           /\ header = NoHeader => Arrived = wire
           /\ header # NoHeader =>
                /\ header \in Kinds
                /\ Len(Arrived) = HeaderSize + Len(wire)
                /\ \A j \in 1 .. HeaderSize : Arrived[j] = [kind |-> header, at |-> j]
                /\ \A j \in 1 .. Len(wire) : Arrived[HeaderSize + j] = wire[j]
  <1>1. wire \in Seq(Octets) /\ unsent \in Seq(Octets) /\ header \in Kinds \cup {NoHeader}
    BY RestFacts DEF Typed, Fields
  <1>2. CASE header = NoHeader
    BY <1>1, <1>2 DEF Arrived
  <1>3. CASE header # NoHeader
    <2> DEFINE h == SubSeq(Bytes(header), 1, HeaderSize)
    <2>1. header \in Kinds
      BY <1>1, <1>3
    <2>2. /\ HeaderSize \in Nat /\ HeaderSize <= Size(header) /\ 1 <= HeaderSize + 1
          /\ 1 \in 1 .. Size(header) + 1
      BY <2>1, SizeType
    <2>3. /\ h \in Seq(Octets) /\ Len(h) = HeaderSize - 1 + 1
          /\ \A j \in 1 .. HeaderSize - 1 + 1 : h[j] = [kind |-> header, at |-> 1 + j - 1]
      BY <2>1, <2>2, PieceFacts
    <2>4. Len(h) = HeaderSize
      BY <2>2, <2>3
    <2>5. ASSUME NEW j \in 1 .. HeaderSize PROVE h[j] = [kind |-> header, at |-> j]
      <3>1. j \in 1 .. HeaderSize - 1 + 1 /\ 1 + j - 1 = j
        BY <2>2
      <3> QED BY <2>3, <3>1
    <2> HIDE DEF h
    <2>6. Arrived = h \o wire
      BY <1>3 DEF Arrived, h
    <2>7. /\ h \o wire \in Seq(Octets) /\ Len(wire) \in Nat /\ Len(h \o wire) = Len(h) + Len(wire)
          /\ \A j \in 1 .. Len(h) : (h \o wire)[j] = h[j]
          /\ \A j \in 1 .. Len(wire) : (h \o wire)[Len(h) + j] = wire[j]
      BY <1>1, <2>3, ConcatFacts
    <2> QED BY <1>1, <1>3, <2>1, <2>4, <2>5, <2>6, <2>7
  <1> QED BY <1>2, <1>3

\* The frame that stands first, whole or not.
LEMMA FirstFrame ==
    ASSUME NEW a \in Seq(Octets), NEW u \in Seq(Octets), Whole(a \o u), a # <<>>
    PROVE  LET k == a[1].kind
           IN  /\ k \in Kinds
               /\ \A j \in 1 .. Len(a) : j <= Size(k) => a[j] = [kind |-> k, at |-> j]
               /\ Len(a) < Size(k) => u # <<>> /\ u[1] = [kind |-> k, at |-> Len(a) + 1]
               /\ Whole(SubSeq(a \o u, Size(k) + 1, Len(a \o u)))
  <1> DEFINE s == a \o u
             k == a[1].kind
  <1>1. /\ s \in Seq(Octets) /\ Len(a) \in Nat /\ Len(u) \in Nat /\ Len(s) = Len(a) + Len(u)
        /\ \A i \in 1 .. Len(a) : s[i] = a[i]
        /\ \A i \in 1 .. Len(u) : s[Len(a) + i] = u[i]
    BY ConcatFacts
  <1>2. Whole(s) /\ 1 \in 1 .. Len(a)
    BY <1>1
  <1> HIDE DEF s
  <1>3. s # <<>> /\ s[1].kind = k
    BY <1>1, <1>2
  <1>4. /\ k \in Kinds /\ Size(k) <= Len(s)
        /\ \A j \in 1 .. Size(k) : s[j] = [kind |-> k, at |-> j]
        /\ Whole(SubSeq(s, Size(k) + 1, Len(s)))
    BY <1>2, <1>3, WholeDrop
  <1>5. Size(k) \in Nat
    BY <1>4, SizeType
  <1> HIDE DEF k
  <1>6. ASSUME NEW j \in 1 .. Len(a), j <= Size(k) PROVE a[j] = [kind |-> k, at |-> j]
    BY <1>1, <1>4, <1>5, <1>6
  <1>7. ASSUME Len(a) < Size(k) PROVE u # <<>> /\ u[1] = [kind |-> k, at |-> Len(a) + 1]
    <2>1. 1 \in 1 .. Len(u) /\ Len(a) + 1 \in 1 .. Size(k)
      BY <1>1, <1>4, <1>5, <1>7
    <2>2. s[Len(a) + 1] = u[1] /\ s[Len(a) + 1] = [kind |-> k, at |-> Len(a) + 1]
      BY <1>1, <1>4, <2>1
    <2> QED BY <1>1, <2>1, <2>2
  <1> QED BY <1>4, <1>6, <1>7 DEF k, s

\* If some of a body is still to come, its header has.
LEMMA HeadBeforeBody ==
    ASSUME NEW a \in Seq(Octets), NEW u, RestOf(u), Whole(a \o u), Waits(u)
    PROVE  Ends(a) # {}
  <1> DEFINE s == a \o u
             n == Len(a)
             k == u[1].kind
             f == u[1].at
  <1>0. u \in Seq(Octets) /\ u # <<>>
    BY RestFacts DEF Waits
  <1>1. /\ Len(a) \in Nat /\ Len(u) \in Nat
        /\ \A i \in 1 .. Len(a) : s[i] = a[i]
        /\ \A i \in 1 .. Len(u) : s[Len(a) + i] = u[i]
        /\ Len(s) = Len(a) + Len(u)
    BY <1>0, ConcatFacts
  <1>2. /\ k \in Kinds /\ f \in 2 .. Size(k) /\ f > HeaderSize
    BY <1>0, RestFacts DEF Waits
  <1>3. HeaderSize \in 1 .. Size(k) /\ Size(k) \in Nat
    BY <1>2, SizeType
  <1>4. n + 1 \in 1 .. Len(s) /\ s[n + 1] = u[1]
    <2>1. 1 \in 1 .. Len(u)
      BY <1>0, <1>1
    <2> QED BY <1>1, <2>1
  <1> HIDE DEF s
  <1>5. /\ n + 1 - f >= 0
        /\ s[(n + 1 - f) + HeaderSize] = [kind |-> k, at |-> HeaderSize]
    <2>1. Before(s, n + 1) = n + 1 - f /\ s[n + 1].kind = k
      <3>1. s[n + 1].at = f /\ s[n + 1].kind = k
        BY <1>4
      <3>2. Before(s, n + 1) = (n + 1) - s[n + 1].at
        BY DEF Before
      <3>3. n \in Int /\ f \in Int
        BY <1>1, <1>2, <1>3
      <3> HIDE DEF n, f
      <3> QED BY <3>1, <3>2, <3>3
    <2>2. Whole(s)
      BY DEF s
    <2>3. /\ Before(s, n + 1) >= 0
          /\ \A j \in 1 .. Size(s[n + 1].kind) :
                s[Before(s, n + 1) + j] = [kind |-> s[n + 1].kind, at |-> j]
      BY <1>4, <2>2 DEF Whole
    <2> HIDE DEF n, k, f
    <2> QED BY <1>3, <2>1, <2>3
  <1> HIDE DEF k, f
  <1>6. (n + 1 - f) + HeaderSize \in 1 .. Len(a)
    BY <1>1, <1>2, <1>3, <1>5
  <1>7. a[(n + 1 - f) + HeaderSize].at = HeaderSize
    BY <1>1, <1>5, <1>6
  <1>8. DOMAIN a = 1 .. Len(a)
    OBVIOUS
  <1> QED BY <1>6, <1>7, <1>8 DEF Ends

LEMMA HeaderThere ==
    ASSUME Typed, Aligned, header = NoHeader, Len(wire) >= HeaderSize
    PROVE  LET k == wire[1].kind
           IN  k \in Kinds /\ SubSeq(wire, 1, HeaderSize) = SubSeq(Bytes(k), 1, HeaderSize)
  <1>1. /\ wire \in Seq(Octets) /\ Len(wire) \in Nat /\ unsent \in Seq(Octets)
        /\ Arrived = wire /\ HeaderSize \in Nat /\ HeaderSize >= 1
    BY ArrivedFacts, FramingAssumption
  <1> DEFINE k == wire[1].kind
             b == SubSeq(Bytes(k), 1, HeaderSize)
             w == SubSeq(wire, 1, HeaderSize)
  <1>2. wire # <<>> /\ Whole(wire \o unsent)
    BY <1>1 DEF Aligned
  <1>3. /\ k \in Kinds
        /\ \A j \in 1 .. Len(wire) : j <= Size(k) => wire[j] = [kind |-> k, at |-> j]
    BY <1>1, <1>2, FirstFrame
  <1>4. Size(k) \in Nat /\ HeaderSize <= Size(k)
    BY <1>3, SizeType
  <1>5. /\ w \in Seq(Octets) /\ Len(w) = HeaderSize
        /\ \A j \in 1 .. HeaderSize : w[j] = wire[j]
    BY <1>1
  <1>6. /\ b \in Seq(Octets) /\ Len(b) = HeaderSize - 1 + 1
        /\ \A j \in 1 .. HeaderSize - 1 + 1 : b[j] = [kind |-> k, at |-> 1 + j - 1]
    <2>1. 1 \in 1 .. Size(k) + 1 /\ 1 <= HeaderSize + 1
      BY <1>1, <1>4
    <2> QED BY <1>1, <1>3, <1>4, <2>1, PieceFacts
  <1> HIDE DEF k, b, w
  <1>7. ASSUME NEW j \in 1 .. HeaderSize PROVE w[j] = b[j]
    <2>1. j \in 1 .. Len(wire) /\ j <= Size(k) /\ j \in 1 .. HeaderSize - 1 + 1 /\ 1 + j - 1 = j
      BY <1>1, <1>4
    <2> QED BY <1>3, <1>5, <1>6, <2>1
  <1>8. Len(b) = HeaderSize
    BY <1>1, <1>6
  <1>9. w = b
    BY <1>5, <1>6, <1>7, <1>8, SeqEqual
  <1> QED BY <1>3, <1>9 DEF k, b, w

LEMMA HeaderNotThere ==
    ASSUME Typed, Aligned, header = NoHeader, Len(wire) < HeaderSize
    PROVE  Inbox = <<>> /\ (wire # <<>> => MidHeader)
  <1>1. /\ wire \in Seq(Octets) /\ Len(wire) \in Nat /\ unsent \in Seq(Octets)
        /\ Arrived = wire /\ HeaderSize \in Nat /\ HeaderSize >= 1
    BY ArrivedFacts, FramingAssumption
  <1>2. CASE wire = <<>>
    <2>1. \A j \in 1 .. Len(wire) : wire[j].at < HeaderSize
      BY <1>2
    <2> QED BY <1>1, <1>2, <2>1, ToldNone, InboxIs
  <1>3. CASE wire # <<>>
    <2> DEFINE k == wire[1].kind
    <2>1. Whole(wire \o unsent)
      BY <1>1 DEF Aligned
    <2>2. /\ k \in Kinds
          /\ \A j \in 1 .. Len(wire) : j <= Size(k) => wire[j] = [kind |-> k, at |-> j]
          /\ Len(wire) < Size(k) => unsent # <<>> /\ unsent[1] = [kind |-> k, at |-> Len(wire) + 1]
      BY <1>1, <1>3, <2>1, FirstFrame
    <2>3. Size(k) \in Nat /\ HeaderSize <= Size(k)
      BY <2>2, SizeType
    <2> HIDE DEF k
    <2>4. ASSUME NEW j \in 1 .. Len(wire) PROVE wire[j].at < HeaderSize
      <3>1. wire[j] = [kind |-> k, at |-> j]
        BY <1>1, <2>2, <2>3
      <3> QED BY <1>1, <3>1
    <2>5. unsent # <<>> /\ unsent[1].at = Len(wire) + 1
      BY <1>1, <2>2, <2>3
    <2>6. Len(wire) + 1 \in 2 .. HeaderSize
      <3>1. Len(wire) # 0
        BY <1>1, <1>3
      <3> QED BY <1>1, <3>1
    <2> QED BY <1>1, <2>4, <2>5, <2>6, ToldNone, InboxIs DEF MidHeader
  <1> QED BY <1>2, <1>3

-----------------------------------------------------------------------------
\* With nothing of a frame read and nothing in the pipe, no frame has been begun.
LEMMA NothingCut ==
    ASSUME Typed, Aligned, header = NoHeader, wire = <<>>
    PROVE  ~MidHeader
  <1>1. Arrived = <<>> /\ unsent \in Seq(Octets)
    BY ArrivedFacts
  <1>2. Arrived \o unsent = unsent
    BY <1>1
  <1>3. Whole(unsent)
    BY <1>2 DEF Aligned
  <1>4. CASE unsent # <<>>
    <2> DEFINE k == unsent[1].kind
    <2>1. k \in Kinds /\ \A j \in 1 .. Size(k) : unsent[j] = [kind |-> k, at |-> j]
      BY <1>3, <1>4, WholeDrop
    <2>2. 1 \in 1 .. Size(k)
      BY <2>1, SizeType
    <2> HIDE DEF k
    <2>3. unsent[1].at = 1
      <3>1. unsent[1] = [kind |-> k, at |-> 1]
        BY <2>1, <2>2
      <3> QED BY <3>1
    <2>4. 1 \notin 2 .. HeaderSize
      BY FramingAssumption
    <2> QED BY <2>3, <2>4 DEF MidHeader
  <1>5. CASE unsent = <<>>
    BY <1>5 DEF MidHeader
  <1> QED BY <1>4, <1>5

LEMMA TypedTypeOK == Typed => TypeOK
  <1> SUFFICES ASSUME Typed PROVE TypeOK
    OBVIOUS
  <1>1. Inbox \in Seq(Rpc!Frames)
    <2>1. Arrived \in Seq(Octets) /\ unsent \in Seq(Octets)
      BY ArrivedFacts
    <2> QED BY <2>1, ToldType, InboxIs
  <1>2. Rpc!TypeOK
    BY <1>1 DEF Typed, Fields, Booked, Rpc!TypeOK, PeerSeen
  <1>3. \A i \in DOMAIN wire : wire[i].kind \in Kinds
    <2>1. wire \in Seq(Octets)
      BY DEF Typed
    <2>2. ASSUME NEW i \in DOMAIN wire PROVE wire[i].kind \in Kinds
      <3>1. wire[i] \in Octets
        BY <2>1
      <3> QED BY <3>1 DEF Octets
    <2> QED BY <2>2
  <1>4. header # NoHeader => isOpen /\ reading # "no"
    BY DEF Typed, Fields, Booked
  <1> QED BY <1>2, <1>3, <1>4 DEF TypeOK, Typed, Fields, RestOf

\* Every variable has its type in every reachable state, whatever the sizes of
\* frames and wherever the client cuts them: as many frames as are told from the
\* bytes are frames of RpcConnection, what the client still has to write is the
\* rest of one frame, and Read has a header only of an open pipe
\* (rpc_connection.cpp:88-108).
THEOREM TypeCorrect == Spec => []TypeOK
  <1>1. Init => Typed
    BY InitTyped
  <1>2. Typed /\ [Next]_vars => Typed'
    BY NextTyped
  <1>3. Typed => TypeOK
    BY TypedTypeOK
  <1> QED BY <1>1, <1>2, <1>3, PTL DEF Spec

LEMMA TornStep ==
    ASSUME TornIsLast, [Next]_vars
    PROVE  TornIsLast'
  <1>1. ASSUME Close PROVE TornIsLast'
    BY <1>1 DEF Close, PipeGone, TornIsLast
  <1>2. CASE Open
    BY <1>2 DEF Open, TornIsLast
  <1>3. CASE BeginRead \/ Client
    BY <1>3 DEF BeginRead, Client, ClientSends, ClientSendsRest, ClientCloses, Sends, session,
                TornIsLast
  <1>4. CASE ReadStep
    <2>1. CASE ReadsHeader \/ FindsNoHeader \/ GetsMessage \/ GetsPong
      BY <2>1 DEF ReadsHeader, FindsNoHeader, GetsMessage, GetsPong, session, TornIsLast
    <2>2. CASE FindsEnd \/ FindsNoBody \/ GetsEnd
      BY <2>2, <1>1 DEF FindsEnd, FindsNoBody, GetsEnd, Fails
    <2>3. CASE GetsPing
      BY <2>3, <1>1 DEF GetsPing, Writes, Succeeds, session, TornIsLast
    <2> QED BY <1>4, <2>1, <2>2, <2>3 DEF ReadStep
  <1>5. CASE Write
    BY <1>5, <1>1 DEF Write, Writes, Succeeds, session, TornIsLast
  <1>6. CASE Replace
    BY <1>6 DEF Replace, PipeGone, TornIsLast
  <1>7. CASE UNCHANGED vars
    BY <1>7 DEF vars, session, TornIsLast
  <1> QED BY <1>2, <1>3, <1>4, <1>5, <1>6, <1>7 DEF Next

\* A frame of which the client got a part is the last of its session, for every
\* size of frames: BaseConnection::Write takes a short send for a failure, and a
\* failed Write closes (connection_unix.cpp:279-290, rpc_connection.cpp:75-78).
THEOREM TornFrameIsLast == Spec => []TornIsLast
  <1>1. Init => TornIsLast
    BY DEF Init, TornIsLast
  <1>2. TornIsLast /\ [Next]_vars => TornIsLast'
    BY TornStep
  <1> QED BY <1>1, <1>2, PTL DEF Spec

-----------------------------------------------------------------------------
(***************************************************************************)
(* The refinement, when headers are not cut on unix: each step keeps the   *)
(* bytes aligned and is a step of RpcConnection, or none.                  *)
(***************************************************************************)
\* The bytes stay as they are.
LEMMA SamePipe ==
    ASSUME Aligned, UNCHANGED <<platform, wire, unsent, header>>
    PROVE  Aligned' /\ Inbox' = Inbox /\ (MidHeader' <=> MidHeader)
  <1>1. Arrived' = Arrived
    BY DEF Arrived
  <1>2. HeadEnds' = HeadEnds /\ Inbox' = Inbox
    BY <1>1 DEF Inbox, HeadEnds
  <1>3. MidHeader' <=> MidHeader
    BY DEF MidHeader
  <1> QED BY <1>1, <1>2, <1>3 DEF Aligned

LEMMA Emptied ==
    ASSUME wire' = <<>>, unsent' = <<>>, header' = NoHeader
    PROVE  Aligned' /\ Inbox' = <<>> /\ PeerSeen' = peer'
  <1>1. Arrived' = <<>> /\ <<>> \in Seq(Octets)
    BY DEF Arrived
  <1>2. Whole(Arrived' \o unsent')
    BY <1>1, EmptyIsWhole
  <1>3. ~MidHeader'
    BY DEF MidHeader
  <1>4. Told(<<>>, <<>>) = <<>>
    <2>1. \A j \in 1 .. Len(<<>>) : <<>>[j].at < HeaderSize
      OBVIOUS
    <2> QED BY <1>1, <2>1, ToldNone
  <1>5. PeerSeen' = peer'
    BY <1>3 DEF PeerSeen
  <1> QED BY <1>1, <1>2, <1>3, <1>4, <1>5, InboxIs DEF Aligned

\* Nothing is in the pipe when it is empty.
LEMMA EmptyInbox ==
    ASSUME wire = <<>>, unsent = <<>>, header = NoHeader
    PROVE  Inbox = <<>>
  <1>1. Arrived = <<>> /\ <<>> \in Seq(Octets)
    BY DEF Arrived
  <1>2. \A j \in 1 .. Len(<<>>) : <<>>[j].at < HeaderSize
    OBVIOUS
  <1>3. Told(<<>>, <<>>) = <<>>
    BY <1>1, <1>2, ToldNone
  <1> QED BY <1>1, <1>3, InboxIs

LEMMA CloseIs ==
    ASSUME Close
    PROVE  Aligned' /\ Inbox' = <<>> /\ Rpc!Close
  <1>1. Aligned' /\ Inbox' = <<>> /\ PeerSeen' = peer'
    BY Emptied DEF Close, PipeGone
  <1> QED BY <1>1 DEF Close, PipeGone, Notified, Rpc!Close, Rpc!Notified

LEMMA FailsIs ==
    ASSUME NEW code, Fails(code)
    PROVE  Aligned' /\ Rpc!Fails(code)
  BY CloseIs DEF Fails, Rpc!Fails

-----------------------------------------------------------------------------
\* Read has a header, and its frame is the first.
LEMMA HeadIsFirst ==
    ASSUME Typed, Aligned, header # NoHeader
    PROVE  /\ header \in Kinds
           /\ \A j \in 1 .. Len(Arrived) : j <= Size(header) => Arrived[j] = [kind |-> header, at |-> j]
           /\ Len(Arrived) < Size(header) => unsent # <<>> /\ unsent[1] = [kind |-> header, at |-> Len(Arrived) + 1]
           /\ Whole(SubSeq(Arrived \o unsent, Size(header) + 1, Len(Arrived \o unsent)))
           /\ Len(Arrived) = HeaderSize + Len(wire) /\ Len(wire) \in Nat
           /\ HeaderSize \in Nat /\ HeaderSize >= 1 /\ Size(header) \in Nat
           /\ Size(header) = HeaderSize + BodySize[header] /\ BodySize[header] \in Nat
           /\ \A j \in 1 .. Len(wire) : Arrived[HeaderSize + j] = wire[j]
           /\ Arrived \in Seq(Octets) /\ unsent \in Seq(Octets) /\ wire \in Seq(Octets)
  <1>1. /\ Arrived \in Seq(Octets) /\ unsent \in Seq(Octets) /\ wire \in Seq(Octets) /\ Len(wire) \in Nat
        /\ header \in Kinds
        /\ Len(Arrived) = HeaderSize + Len(wire)
        /\ \A j \in 1 .. HeaderSize : Arrived[j] = [kind |-> header, at |-> j]
        /\ \A j \in 1 .. Len(wire) : Arrived[HeaderSize + j] = wire[j]
    BY ArrivedFacts
  <1>2. /\ HeaderSize \in Nat /\ HeaderSize >= 1 /\ Size(header) \in Nat
        /\ Size(header) = HeaderSize + BodySize[header] /\ BodySize[header] \in Nat
    BY <1>1, SizeType
  <1>3. Arrived # <<>> /\ Arrived[1].kind = header
    <2>1. 1 \in 1 .. HeaderSize
      BY <1>2
    <2>2. Arrived[1] = [kind |-> header, at |-> 1]
      BY <1>1, <2>1
    <2> QED BY <1>1, <1>2, <2>2
  <1>4. Whole(Arrived \o unsent)
    BY DEF Aligned
  <1>5. /\ \A j \in 1 .. Len(Arrived) : j <= Size(header) => Arrived[j] = [kind |-> header, at |-> j]
        /\ Len(Arrived) < Size(header) => unsent # <<>> /\ unsent[1] = [kind |-> header, at |-> Len(Arrived) + 1]
        /\ Whole(SubSeq(Arrived \o unsent, Size(header) + 1, Len(Arrived \o unsent)))
    BY <1>1, <1>3, <1>4, FirstFrame
  <1> QED BY <1>1, <1>2, <1>5

LEMMA BodyNotThere ==
    ASSUME Typed, Aligned, header # NoHeader, Len(wire) < BodySize[header]
    PROVE  Inbox # <<>> /\ ~Head(Inbox).whole
  <1>1. /\ header \in Kinds
        /\ \A j \in 1 .. Len(Arrived) : j <= Size(header) => Arrived[j] = [kind |-> header, at |-> j]
        /\ Len(Arrived) < Size(header) => unsent # <<>> /\ unsent[1] = [kind |-> header, at |-> Len(Arrived) + 1]
        /\ Len(Arrived) = HeaderSize + Len(wire) /\ Len(wire) \in Nat
        /\ HeaderSize \in Nat /\ HeaderSize >= 1 /\ Size(header) \in Nat
        /\ Size(header) = HeaderSize + BodySize[header] /\ BodySize[header] \in Nat
        /\ Arrived \in Seq(Octets) /\ unsent \in Seq(Octets)
    BY HeadIsFirst
  <1>2. Len(Arrived) < Size(header) /\ HeaderSize <= Len(Arrived)
    BY <1>1
  <1>3. \A j \in 1 .. Len(Arrived) : Arrived[j] = [kind |-> header, at |-> j]
    BY <1>1, <1>2
  <1>4. Waits(unsent)
    BY <1>1, <1>2 DEF Waits
  <1> QED BY <1>1, <1>2, <1>3, <1>4, ToldOne, InboxIs

\* The same end, cut off two sequences.
LEMMA EndOfBoth ==
    ASSUME NEW a \in Seq(Octets), NEW w \in Seq(Octets), NEW h \in Nat, NEW n \in 0 .. Len(w),
           Len(a) = h + Len(w), \A j \in 1 .. Len(w) : a[h + j] = w[j]
    PROVE  SubSeq(w, n + 1, Len(w)) = SubSeq(a, h + n + 1, Len(a))
  <1> DEFINE b == SubSeq(w, n + 1, Len(w))
             c == SubSeq(a, h + n + 1, Len(a))
  <1>1. Len(w) \in Nat /\ h + n \in 0 .. Len(a)
    OBVIOUS
  <1>2. /\ b \in Seq(Octets) /\ Len(b) = Len(w) - n
        /\ \A j \in 1 .. Len(w) - n : b[j] = w[n + j]
    BY SplitFacts
  <1>3. /\ c \in Seq(Octets) /\ Len(c) = Len(a) - (h + n)
        /\ \A j \in 1 .. Len(a) - (h + n) : c[j] = a[h + n + j]
    BY <1>1, SplitFacts
  <1> HIDE DEF b, c
  <1>4. Len(a) - (h + n) = Len(w) - n /\ n \in Nat
    BY <1>1
  <1>5. ASSUME NEW j \in 1 .. Len(w) - n PROVE b[j] = c[j]
    <2>1. n + j \in 1 .. Len(w) /\ h + (n + j) = h + n + j
      BY <1>1
    <2>2. a[h + n + j] = w[n + j]
      BY <2>1
    <2> QED BY <1>2, <1>3, <1>4, <2>2
  <1>6. b = c
    BY <1>2, <1>3, <1>4, <1>5, SeqEqual
  <1> QED BY <1>6 DEF b, c

LEMMA EndOfConcat ==
    ASSUME NEW a \in Seq(Octets), NEW u \in Seq(Octets), NEW m \in 0 .. Len(a)
    PROVE  SubSeq(a \o u, m + 1, Len(a \o u)) = SubSeq(a, m + 1, Len(a)) \o u
  <1> DEFINE s == a \o u
             c == SubSeq(a, m + 1, Len(a))
             d == SubSeq(s, m + 1, Len(s))
             e == c \o u
  <1>1. /\ s \in Seq(Octets) /\ Len(u) \in Nat /\ Len(a) \in Nat
        /\ Len(s) = Len(a) + Len(u)
        /\ \A i \in 1 .. Len(a) : s[i] = a[i]
        /\ \A i \in 1 .. Len(u) : s[Len(a) + i] = u[i]
    BY ConcatFacts
  <1>2. /\ c \in Seq(Octets) /\ Len(c) = Len(a) - m
        /\ \A j \in 1 .. Len(a) - m : c[j] = a[m + j]
    BY SplitFacts
  <1>3. /\ e \in Seq(Octets) /\ Len(e) = Len(c) + Len(u) /\ Len(c) \in Nat
        /\ \A i \in 1 .. Len(c) : e[i] = c[i]
        /\ \A i \in 1 .. Len(u) : e[Len(c) + i] = u[i]
    BY <1>2, ConcatFacts
  <1> HIDE DEF s, c, e
  <1>4. m \in 0 .. Len(s)
    BY <1>1
  <1>5. /\ d \in Seq(Octets) /\ Len(d) = Len(s) - m
        /\ \A i \in 1 .. Len(s) - m : d[i] = s[m + i]
    BY <1>1, <1>4, SplitFacts
  <1> HIDE DEF d
  <1>6. Len(d) = Len(e) /\ Len(e) = Len(s) - m
    BY <1>1, <1>2, <1>3, <1>5
  <1>7. ASSUME NEW i \in 1 .. Len(e) PROVE d[i] = e[i]
    <2>1. d[i] = s[m + i] /\ i \in Nat /\ i >= 1 /\ i <= Len(c) + Len(u)
      <3>1. i \in Nat /\ i >= 1 /\ i <= Len(c) + Len(u)
        BY <1>3
      <3>2. i \in 1 .. Len(s) - m
        BY <1>6
      <3>3. d[i] = s[m + i]
        BY <1>5, <3>2
      <3> QED BY <3>1, <3>3
    <2>2. CASE i <= Len(c)
      <3>1. i \in 1 .. Len(c) /\ m + i \in 1 .. Len(a) /\ i \in 1 .. Len(a) - m
        BY <1>1, <1>2, <2>1, <2>2
      <3> QED BY <1>1, <1>2, <1>3, <2>1, <3>1
    <2>3. CASE i > Len(c)
      <3> DEFINE h == i - Len(c)
      <3>1. h \in 1 .. Len(u) /\ i = Len(c) + h /\ m + i = Len(a) + h
        BY <1>1, <1>2, <1>3, <2>1, <2>3
      <3> HIDE DEF h
      <3>2. e[Len(c) + h] = u[h] /\ s[Len(a) + h] = u[h]
        BY <1>1, <1>3, <3>1
      <3> QED BY <2>1, <3>1, <3>2
    <2> QED BY <1>3, <2>1, <2>2, <2>3
  <1>8. d = e
    BY <1>3, <1>5, <1>6, <1>7, SeqEqual
  <1> QED BY <1>8 DEF d, e, s, c

LEMMA BodyIsThere ==
    ASSUME Typed, Aligned, header # NoHeader, Len(wire) >= BodySize[header]
    PROVE  LET b == SubSeq(wire, BodySize[header] + 1, Len(wire))
           IN  /\ Inbox # <<>> /\ Head(Inbox).kind = header /\ Head(Inbox).whole
               /\ Told(b, unsent) = Tail(Inbox)
               /\ Cardinality(HeadEnds) = Cardinality(Ends(b)) + 1
               /\ Cardinality(Ends(b)) \in Nat
               /\ Whole(b \o unsent)
  <1> DEFINE b == SubSeq(wire, BodySize[header] + 1, Len(wire))
             m == Size(header)
  <1>1. /\ header \in Kinds
        /\ \A j \in 1 .. Len(Arrived) : j <= m => Arrived[j] = [kind |-> header, at |-> j]
        /\ Whole(SubSeq(Arrived \o unsent, m + 1, Len(Arrived \o unsent)))
        /\ Len(Arrived) = HeaderSize + Len(wire) /\ Len(wire) \in Nat
        /\ HeaderSize \in Nat /\ HeaderSize >= 1 /\ m \in Nat
        /\ m = HeaderSize + BodySize[header] /\ BodySize[header] \in Nat
        /\ \A j \in 1 .. Len(wire) : Arrived[HeaderSize + j] = wire[j]
        /\ Arrived \in Seq(Octets) /\ unsent \in Seq(Octets) /\ wire \in Seq(Octets)
    BY HeadIsFirst
  <1> HIDE DEF m
  <1>2. m <= Len(Arrived) /\ m \in 0 .. Len(Arrived) /\ BodySize[header] \in 0 .. Len(wire)
    BY <1>1
  <1>3. \A j \in 1 .. m : Arrived[j] = [kind |-> header, at |-> j]
    BY <1>1, <1>2
  <1>4. b \in Seq(Octets)
    BY <1>1, <1>2, SplitFacts
  <1>5. b = SubSeq(Arrived, m + 1, Len(Arrived))
    <2>1. b = SubSeq(Arrived, HeaderSize + BodySize[header] + 1, Len(Arrived))
      BY <1>1, <1>2, EndOfBoth
    <2> QED BY <1>1, <2>1
  <1>6. Whole(b \o unsent)
    BY <1>1, <1>2, <1>5, EndOfConcat
  <1>7. /\ Told(Arrived, unsent) # <<>>
        /\ Head(Told(Arrived, unsent)).kind = header
        /\ Ends(b) # {} \/ ~Waits(unsent) => Head(Told(Arrived, unsent)).whole
        /\ Told(b, unsent) = Tail(Told(Arrived, unsent))
        /\ Cardinality(Ends(Arrived)) = Cardinality(Ends(b)) + 1
    <2> HIDE DEF b
    <2>1. /\ Arrived \in Seq(Octets) /\ unsent \in Seq(Octets) /\ header \in Kinds
          /\ LeftOf(b, header, Arrived)
      BY <1>1, <1>2, <1>3, <1>5 DEF m, Leads, LeftOf
    <2>2. FirstTold(header, Arrived, b, unsent)
      BY <2>1, ToldDrops
    <2> QED BY <2>2 DEF FirstTold
  <1>8. Ends(b) # {} \/ ~Waits(unsent)
    <2>1. RestOf(unsent)
      BY DEF Typed
    <2> QED BY <1>4, <1>6, <2>1, HeadBeforeBody
  <1>9. Cardinality(Ends(b)) \in Nat
    BY <1>4, EndsFacts
  <1> QED BY <1>6, <1>7, <1>8, <1>9, InboxIs DEF b

\* The body is read.
LEMMA BodyTaken ==
    ASSUME Typed, Aligned, ReadsBody, UNCHANGED <<platform, unsent, peer>>
    PROVE  /\ Aligned' /\ Inbox' = Tail(Inbox) /\ PeerSeen' = PeerSeen
           /\ Inbox # <<>> /\ Head(Inbox).kind = header /\ Head(Inbox).whole
  <1> DEFINE b == SubSeq(wire, BodySize[header] + 1, Len(wire))
  <1>1. header # NoHeader /\ header \in Kinds /\ Len(wire) >= BodySize[header]
    BY DEF ReadsBody, HasBody, Has, Typed, Fields
  <1>2. /\ Inbox # <<>> /\ Head(Inbox).kind = header /\ Head(Inbox).whole
        /\ Told(b, unsent) = Tail(Inbox)
        /\ Cardinality(HeadEnds) = Cardinality(Ends(b)) + 1
        /\ Cardinality(Ends(b)) \in Nat
        /\ Whole(b \o unsent)
    BY <1>1, BodyIsThere
  <1>3. Arrived' = b
    <2>1. b \in Seq(Octets)
      <3>1. BodySize[header] \in 0 .. Len(wire) /\ wire \in Seq(Octets)
        BY <1>1, SizeType DEF Typed
      <3> QED BY <3>1, SplitFacts
    <2>2. Arrived' = <<>> \o b
      BY DEF ReadsBody, Arrived
    <2> HIDE DEF b
    <2> QED BY <2>1, <2>2
  <1> HIDE DEF b
  <1>4. Inbox' = Tail(Inbox) /\ Cardinality(HeadEnds') = Cardinality(Ends(b))
    BY <1>2, <1>3, InboxIs
  <1>5. Aligned'
    <2>1. MidHeader' <=> MidHeader
      BY DEF MidHeader
    <2>2. MidHeader => platform \in SplitsHeaders /\ Cardinality(HeadEnds) < MaxFrames
      BY DEF Aligned
    <2>3. Cardinality(HeadEnds) < MaxFrames => Cardinality(HeadEnds') < MaxFrames
      BY <1>2, <1>4, FramingAssumption
    <2> QED BY <1>2, <1>3, <2>1, <2>2, <2>3 DEF Aligned
  <1>6. PeerSeen' = PeerSeen
    BY DEF PeerSeen, MidHeader
  <1> QED BY <1>2, <1>4, <1>5, <1>6

\* The header is read: the bytes that have come stay the same.
LEMMA HeaderTaken ==
    ASSUME Typed, Aligned, ReadsHeader
    PROVE  Aligned' /\ Inbox' = Inbox /\ PeerSeen' = PeerSeen
  <1> DEFINE k == wire[1].kind
             h == SubSeq(wire, 1, HeaderSize)
  <1>1. header = NoHeader /\ Len(wire) >= HeaderSize /\ header' \in Says(h)
        /\ wire' = SubSeq(wire, HeaderSize + 1, Len(wire))
        /\ UNCHANGED <<platform, peer, unsent>>
    BY DEF ReadsHeader, Has, session
  <1>2. k \in Kinds /\ h = SubSeq(Bytes(k), 1, HeaderSize)
    BY <1>1, HeaderThere
  <1>3. wire \in Seq(Octets) /\ HeaderSize \in 0 .. Len(wire) /\ HeaderSize >= 1 /\ Arrived = wire
    BY <1>1, ArrivedFacts, FramingAssumption
  <1>4. h[1] = wire[1] /\ h \o wire' = wire
    <2>1. /\ \A j \in 1 .. HeaderSize : h[j] = wire[j]
          /\ h \o SubSeq(wire, HeaderSize + 1, Len(wire)) = wire
      BY <1>3, SplitFacts
    <2>2. 1 \in 1 .. HeaderSize
      BY <1>3
    <2> QED BY <1>1, <2>1, <2>2
  <1> HIDE DEF h
  <1>5. Says(h) = {k}
    BY <1>2, <1>4 DEF Says
  <1>6. header' = k /\ k # NoHeader
    BY <1>1, <1>2, <1>5 DEF Kinds, NoHeader
  <1> HIDE DEF k
  <1>7. Arrived' = Arrived
    BY <1>2, <1>3, <1>4, <1>6 DEF Arrived
  <1>8. HeadEnds' = HeadEnds /\ Inbox' = Inbox
    BY <1>1, <1>7 DEF Inbox, HeadEnds
  <1>9. MidHeader' <=> MidHeader
    BY <1>1 DEF MidHeader
  <1> QED BY <1>1, <1>7, <1>8, <1>9 DEF Aligned, PeerSeen

LEMMA ConcatAssociates ==
    ASSUME NEW s \in Seq(Octets), NEW t \in Seq(Octets), NEW u \in Seq(Octets)
    PROVE  (s \o t) \o u = s \o (t \o u)
  <1> DEFINE l == s \o t
             r == t \o u
             a == l \o u
             b == s \o r
  <1>1. /\ l \in Seq(Octets) /\ Len(l) = Len(s) + Len(t) /\ Len(s) \in Nat /\ Len(t) \in Nat
        /\ \A i \in 1 .. Len(s) : l[i] = s[i]
        /\ \A i \in 1 .. Len(t) : l[Len(s) + i] = t[i]
    BY ConcatFacts
  <1>2. /\ r \in Seq(Octets) /\ Len(r) = Len(t) + Len(u) /\ Len(u) \in Nat
        /\ \A i \in 1 .. Len(t) : r[i] = t[i]
        /\ \A i \in 1 .. Len(u) : r[Len(t) + i] = u[i]
    BY ConcatFacts
  <1> HIDE DEF l, r
  <1>3. /\ a \in Seq(Octets) /\ Len(a) = Len(l) + Len(u)
        /\ \A i \in 1 .. Len(l) : a[i] = l[i]
        /\ \A i \in 1 .. Len(u) : a[Len(l) + i] = u[i]
    BY <1>1, ConcatFacts
  <1>4. /\ b \in Seq(Octets) /\ Len(b) = Len(s) + Len(r)
        /\ \A i \in 1 .. Len(s) : b[i] = s[i]
        /\ \A i \in 1 .. Len(r) : b[Len(s) + i] = r[i]
    BY <1>2, ConcatFacts
  <1> HIDE DEF a, b
  <1>5. Len(a) = Len(b)
    BY <1>1, <1>2, <1>3, <1>4
  <1>6. ASSUME NEW i \in 1 .. Len(a) PROVE a[i] = b[i]
    <2>1. i \in Nat /\ i >= 1 /\ i <= Len(s) + Len(t) + Len(u)
      BY <1>1, <1>2, <1>3
    <2>2. CASE i <= Len(s)
      <3>1. i \in 1 .. Len(s) /\ i \in 1 .. Len(l)
        BY <1>1, <2>1, <2>2
      <3> QED BY <1>1, <1>3, <1>4, <3>1
    <2>3. CASE Len(s) < i /\ i <= Len(s) + Len(t)
      <3> DEFINE h == i - Len(s)
      <3>1. h \in 1 .. Len(t) /\ i = Len(s) + h /\ i \in 1 .. Len(l) /\ h \in 1 .. Len(r)
        BY <1>1, <1>2, <2>1, <2>3
      <3> HIDE DEF h
      <3>2. l[Len(s) + h] = t[h] /\ r[h] = t[h] /\ b[Len(s) + h] = r[h]
        BY <1>1, <1>2, <1>4, <3>1
      <3> QED BY <1>3, <3>1, <3>2
    <2>4. CASE Len(s) + Len(t) < i
      <3> DEFINE h == i - (Len(s) + Len(t))
      <3>1. /\ h \in 1 .. Len(u) /\ i = Len(l) + h /\ i = Len(s) + (Len(t) + h)
            /\ Len(t) + h \in 1 .. Len(r)
        BY <1>1, <1>2, <2>1, <2>4
      <3> HIDE DEF h
      <3>2. a[Len(l) + h] = u[h] /\ r[Len(t) + h] = u[h] /\ b[Len(s) + (Len(t) + h)] = r[Len(t) + h]
        BY <1>2, <1>3, <1>4, <3>1
      <3> QED BY <3>1, <3>2
    <2> QED BY <1>1, <2>1, <2>2, <2>3, <2>4
  <1>7. a = b
    BY <1>3, <1>4, <1>5, <1>6, SeqEqual
  <1> QED BY <1>7 DEF a, b, l, r

LEMMA NotEmpty ==
    ASSUME NEW s \in Seq(Octets)
    PROVE  s # <<>> <=> Len(s) # 0
  OBVIOUS

\* What the client still has to write, and what Read waits for.
LEMMA RestOfPiece ==
    ASSUME NEW k \in Kinds, NEW g \in 1 .. Size(k) + 1, NEW r, r = SubSeq(Bytes(k), g, Size(k))
    PROVE  /\ r # <<>> <=> g <= Size(k)
           /\ r # <<>> => r[1].at = g
           /\ Waits(r) <=> g > HeaderSize /\ g <= Size(k)
  <1>1. Size(k) \in Nat /\ HeaderSize \in Nat /\ HeaderSize <= Size(k) /\ Size(k) <= Size(k)
        /\ g <= Size(k) + 1
    BY SizeType
  <1>2. /\ r \in Seq(Octets)
        /\ Len(r) = Size(k) - g + 1
        /\ \A j \in 1 .. Size(k) - g + 1 : r[j] = [kind |-> k, at |-> g + j - 1]
    BY <1>1, PieceFacts
  <1>3. r # <<>> <=> g <= Size(k)
    <2>1. r # <<>> <=> Len(r) # 0
      <3>1. r \in Seq(Octets)
        BY <1>2
      <3> QED BY <3>1, NotEmpty
    <2>2. Len(r) = Size(k) - g + 1 /\ g \in Nat
      BY <1>1, <1>2
    <2>3. Len(r) # 0 <=> g <= Size(k)
      BY <1>1, <2>2
    <2> QED BY <2>1, <2>3
  <1>4. ASSUME r # <<>> PROVE r[1].at = g
    <2>1. 1 \in 1 .. Size(k) - g + 1
      BY <1>1, <1>3, <1>4
    <2>2. r[1] = [kind |-> k, at |-> g + 1 - 1]
      BY <1>2, <2>1
    <2> QED BY <1>1, <2>2
  <1> QED BY <1>1, <1>3, <1>4 DEF Waits

\* The next thing the client writes is s, a frame or the rest of one.
Follows(k, f, s) ==
    /\ s = SubSeq(Bytes(k), f, Size(k))
    /\ \/ f = 1 /\ unsent = <<>> /\ Cardinality(HeadEnds) < MaxFrames
       \/ f >= 2 /\ unsent = s

LEMMA SendsStep ==
    ASSUME Typed, Aligned, peer = "open",
           NEW k \in Kinds, NEW f \in 1 .. Size(k), NEW s, Follows(k, f, s), Sends(s)
    PROVE  Aligned' /\ [Rpc!Next]_(Rpc!vars)
  <1>1. PICK n \in 1 .. Len(s) :
             /\ wire' = wire \o SubSeq(s, 1, n)
             /\ unsent' = SubSeq(s, n + 1, Len(s))
             /\ MidHeader' => platform \in SplitsHeaders
             /\ UNCHANGED <<platform, session, header, torn>>
    BY DEF Sends
  <1> DEFINE p == SubSeq(s, 1, n)
             r == SubSeq(s, n + 1, Len(s))
             a == Arrived
             b == Arrived'
             g == f + n
  <1>2. /\ Size(k) \in Nat /\ Len(s) = Size(k) - f + 1 /\ s \in Seq(Octets)
        /\ HeaderSize \in Nat /\ HeaderSize >= 1 /\ HeaderSize <= Size(k)
        /\ p \in Seq(Octets) /\ Len(p) = n
        /\ \A j \in 1 .. n : p[j] = [kind |-> k, at |-> f + j - 1]
        /\ r = SubSeq(Bytes(k), g, Size(k)) /\ RestOf(r)
        /\ g \in 2 .. Size(k) + 1
        /\ p \o r = s
    <2>1. s = SubSeq(Bytes(k), f, Size(k))
      BY DEF Follows
    <2>2. HeaderSize \in Nat /\ HeaderSize >= 1 /\ HeaderSize <= Size(k) /\ Size(k) \in Nat
      BY SizeType
    <2>3. s \in Seq(Octets)
      <3>1. f \in 1 .. Size(k) + 1 /\ Size(k) <= Size(k) /\ f <= Size(k) + 1
        BY <2>2
      <3> QED BY <2>1, <2>2, <3>1, PieceFacts
    <2>4. Cuts(k, f, s, n, p, r)
      BY <2>1, CutFacts
    <2> HIDE DEF p, r
    <2> QED BY <2>2, <2>3, <2>4 DEF Cuts
  <1>3. r \in Seq(Octets) /\ unsent \in Seq(Octets) /\ a \in Seq(Octets) /\ wire \in Seq(Octets)
    BY <1>2, RestFacts, ArrivedFacts
  <1>4. b = a \o p
    <2>1. b = (IF header = NoHeader THEN <<>> ELSE SubSeq(Bytes(header), 1, HeaderSize)) \o (wire \o p)
      BY <1>1 DEF Arrived
    <2> HIDE DEF p, b
    <2>2. CASE header = NoHeader
      <3>1. wire \o p \in Seq(Octets) /\ a = wire
        BY <1>2, <1>3, <2>2, ArrivedFacts
      <3> QED BY <2>1, <2>2, <3>1
    <2>3. CASE header # NoHeader
      <3> DEFINE h == SubSeq(Bytes(header), 1, HeaderSize)
      <3>1. h \in Seq(Octets)
        <4>1. header \in Kinds
          BY <2>3 DEF Typed, Fields
        <4>2. 1 \in 1 .. Size(header) + 1 /\ HeaderSize <= Size(header) /\ 1 <= HeaderSize + 1
          BY <4>1, SizeType
        <4>3. HeaderSize \in Nat
          BY <1>2
        <4> QED BY <4>1, <4>2, <4>3, PieceFacts
      <3>2. a = h \o wire /\ b = h \o (wire \o p)
        BY <2>1, <2>3 DEF Arrived
      <3> HIDE DEF h, a
      <3>3. p \in Seq(Octets)
        BY <1>2
      <3>4. (h \o wire) \o p = h \o (wire \o p)
        BY SMTT(20), <1>3, <3>1, <3>3, ConcatAssociates
      <3> QED BY <3>2, <3>4
    <2> QED BY <2>2, <2>3
  <1>5. b \in Seq(Octets) /\ Extends(b, a)
    BY <1>2, <1>3, <1>4, ConcatFacts DEF Extends
  <1>6. Whole(b \o r)
    <2> HIDE DEF a, b, p, r
    <2>1. b \o r = a \o s
      <3>1. p \in Seq(Octets)
        BY <1>2
      <3>2. (a \o p) \o r = a \o (p \o r)
        BY SMTT(20), <1>3, <3>1, ConcatAssociates
      <3> QED BY <1>2, <1>4, <3>2
    <2>2. CASE f = 1 /\ unsent = <<>>
      <3>1. a \o unsent = a
        BY <1>3, <2>2
      <3>2. Whole(a)
        BY <3>1 DEF Aligned, a
      <3>3. s = Bytes(k)
        BY <2>2, BytesType, SizeType DEF Follows
      <3> QED BY <2>1, <3>2, <3>3, WholeAppend
    <2>3. CASE unsent = s
      BY <2>1, <2>3 DEF Aligned, a
    <2> QED BY <2>2, <2>3 DEF Follows
  <1>7. /\ Waits(r) <=> g > HeaderSize /\ g <= Size(k)
        /\ MidHeader' <=> g <= HeaderSize
    <2>1. /\ r # <<>> <=> g <= Size(k)
          /\ r # <<>> => r[1].at = g
          /\ Waits(r) <=> g > HeaderSize /\ g <= Size(k)
      <3>1. g \in 1 .. Size(k) + 1
        BY <1>2
      <3> HIDE DEF r, g
      <3> QED BY <1>2, <3>1, RestOfPiece
    <2>2. MidHeader' <=> r # <<>> /\ r[1].at \in 2 .. HeaderSize
      BY <1>1 DEF MidHeader
    <2> HIDE DEF r, g
    <2>3. g \in Nat /\ g >= 2 /\ HeaderSize \in Nat /\ HeaderSize <= Size(k) /\ Size(k) \in Nat
      BY <1>2
    <2>4. MidHeader' <=> g <= Size(k) /\ g \in 2 .. HeaderSize
      BY <2>1, <2>2
    <2> QED BY <2>1, <2>3, <2>4
  <1>8. /\ Waits(unsent) <=> f > HeaderSize
        /\ f <= HeaderSize => Cardinality(HeadEnds) < MaxFrames
    <2>1. CASE f = 1 /\ unsent = <<>> /\ Cardinality(HeadEnds) < MaxFrames
      BY <1>2, <2>1 DEF Waits
    <2>2. CASE f >= 2 /\ unsent = s
      <3>1. /\ s # <<>> /\ s[1].at = f /\ (Waits(s) <=> f > HeaderSize /\ f <= Size(k))
        <4>1. f \in 1 .. Size(k) + 1 /\ f <= Size(k)
          BY <1>2
        <4>2. s = SubSeq(Bytes(k), f, Size(k))
          BY DEF Follows
        <4> QED BY <4>1, <4>2, RestOfPiece
      <3>2. f \in Nat /\ f <= Size(k)
        BY <1>2
      <3>3. f <= HeaderSize => MidHeader
        BY <1>2, <2>2, <3>1, <3>2 DEF MidHeader
      <3> QED BY <2>2, <3>1, <3>2, <3>3 DEF Aligned
    <2> QED BY <2>1, <2>2 DEF Follows
  <1>9. /\ f <= HeaderSize /\ HeaderSize < g => OneMore(k, a, b)
        /\ ~(f <= HeaderSize /\ HeaderSize < g) => Ends(b) = Ends(a)
    <2>1. IsPiece(p, k, f)
      BY <1>2 DEF IsPiece
    <2>2. g = f + Len(p)
      BY <1>2
    <2>3. p \in Seq(Octets)
      BY <1>2
    <2>4. a \in Seq(Octets)
      BY <1>3
    <2> HIDE DEF a, b, p, g
    <2>5. /\ f <= HeaderSize /\ HeaderSize < f + Len(p) => OneMore(k, a, a \o p)
          /\ ~(f <= HeaderSize /\ HeaderSize < f + Len(p)) => Ends(a \o p) = Ends(a)
      BY <2>1, <2>3, <2>4, PieceEnds
    <2> QED BY <1>4, <2>2, <2>5
  <1>10. /\ Inbox = Told(a, unsent) /\ HeadEnds = Ends(a)
         /\ Inbox' = Told(b, r) /\ HeadEnds' = Ends(b)
    BY <1>1, InboxIs
  <1>11. /\ UNCHANGED <<state, isOpen, lastErrorCode, reading, peer, Rpc!events>>
         /\ b \o r = Arrived' \o unsent' /\ platform' = platform
         /\ PeerSeen = "open" /\ PeerSeen' = "open"
    BY <1>1 DEF session, Rpc!events, PeerSeen
  <1>12. Len(Inbox) = Cardinality(HeadEnds) /\ Inbox \in Seq(Rpc!Frames)
    BY <1>3, <1>10, ToldType
  <1> DEFINE fr == [kind |-> k, whole |-> ~Waits(r)]
  <1>13. f \in Nat /\ n \in Nat /\ n >= 1 /\ g \in Nat /\ f < g /\ g <= Size(k) + 1
    BY <1>2
  <1> HIDE DEF a, b, p, r, g
  <1>14. CASE f <= HeaderSize /\ HeaderSize < g
    <2>1. OneMore(k, a, b) /\ Extends(b, a)
      BY <1>5, <1>9, <1>14
    <2>8. ~Waits(unsent) /\ Cardinality(HeadEnds) < MaxFrames
      BY <1>8, <1>13, <1>14, FramingAssumption
    <2>2. Inbox' = Append(Inbox, fr)
      <3>1. Told(b, r) = Append(Told(a, unsent), fr)
        BY <1>3, <1>5, <2>1, <2>8, ToldGrows
      <3> QED BY <1>10, <3>1
    <2>3. fr \in Rpc!Frames
      BY DEF Rpc!Frames, Rpc!Kinds, Kinds
    <2>4. Rpc!LastIsWhole
      <3>1. ASSUME Inbox # <<>> PROVE Inbox[Len(Inbox)].whole
        <4>1. Len(Inbox) \in 1 .. Cardinality(Ends(a))
          BY <1>10, <1>12, <3>1
        <4> QED BY <1>3, <1>10, <2>8, <4>1, ToldType
      <3> QED BY <3>1 DEF Rpc!LastIsWhole
    <2>5. Rpc!ClientSends(fr)
      BY <1>11, <1>12, <2>8, <2>2, <2>4 DEF Rpc!ClientSends
    <2>6. Rpc!Next
      BY <2>3, <2>5 DEF Rpc!Next, Rpc!Client
    <2>7. Aligned'
      BY <1>2, <1>6, <1>7, <1>11, <1>13, <1>14 DEF Aligned
    <2> QED BY <2>6, <2>7
  <1>15. CASE g <= HeaderSize
    <2>1. Ends(b) = Ends(a) /\ ~Waits(unsent) /\ ~Waits(r) /\ Cardinality(HeadEnds) < MaxFrames
      <3>1. HeaderSize \in Nat /\ ~(HeaderSize < g) /\ ~(g > HeaderSize) /\ f <= HeaderSize
            /\ ~(f > HeaderSize)
        BY <1>13, <1>15, FramingAssumption
      <3> QED BY <1>7, <1>8, <1>9, <3>1
    <2>2. Inbox' = Inbox
      BY <1>3, <1>5, <1>10, <2>1, ToldStays
    <2>3. HeadEnds' = HeadEnds
      BY <1>10, <2>1
    <2>4. Aligned'
      BY <1>1, <1>6, <1>11, <2>1, <2>3 DEF Aligned
    <2> QED BY <1>11, <2>2, <2>4 DEF Rpc!vars
  <1>16. CASE f > HeaderSize
    <2>1. Ends(b) = Ends(a) /\ Waits(unsent) /\ ~MidHeader'
      BY <1>2, <1>7, <1>8, <1>9, <1>13, <1>16
    <2>2. Aligned'
      BY <1>6, <1>11, <2>1 DEF Aligned
    <2>3. CASE Waits(r)
      <3>1. Inbox' = Inbox
        BY <1>3, <1>5, <1>10, <2>1, <2>3, ToldStays
      <3> QED BY <1>11, <2>2, <3>1 DEF Rpc!vars
    <2>4. CASE ~Waits(r)
      <3>1. Ends(a) # {}
        <4>1. RestOf(unsent) /\ Whole(a \o unsent)
          BY DEF Typed, Aligned, a
        <4> QED BY <1>3, <2>1, <4>1, HeadBeforeBody
      <3>2. /\ Inbox # <<>> /\ ~Inbox[Len(Inbox)].whole
            /\ Inbox' = [Inbox EXCEPT ![Len(Inbox)].whole = TRUE]
        BY <1>3, <1>5, <1>10, <2>1, <2>4, <3>1, ToldCompletes
      <3>3. Rpc!ClientSendsRest
        BY <1>11, <3>2 DEF Rpc!ClientSendsRest, Rpc!LastIsWhole
      <3> QED BY <2>2, <3>3 DEF Rpc!Next, Rpc!Client
    <2> QED BY <2>3, <2>4
  <1> QED BY <1>2, <1>13, <1>14, <1>15, <1>16

LEMMA ClientIs ==
    ASSUME Typed, Aligned, Client
    PROVE  Aligned' /\ [Rpc!Next]_(Rpc!vars)
  <1>1. ASSUME NEW k \in Kinds, ClientSends(k) PROVE Aligned' /\ [Rpc!Next]_(Rpc!vars)
    <2>1. 1 \in 1 .. Size(k) /\ Bytes(k) = SubSeq(Bytes(k), 1, Size(k))
      BY SizeType, BytesType
    <2>2. Follows(k, 1, Bytes(k)) /\ Sends(Bytes(k)) /\ peer = "open"
      BY <1>1, <2>1 DEF ClientSends, Follows
    <2> QED BY <2>1, <2>2, SendsStep
  <1>2. CASE ClientSendsRest
    <2> DEFINE k == unsent[1].kind
               f == unsent[1].at
    <2>1. unsent # <<>> /\ Sends(unsent) /\ peer = "open" /\ RestOf(unsent)
      BY <1>2 DEF ClientSendsRest, Typed
    <2>2. k \in Kinds /\ f \in 2 .. Size(k) /\ unsent = SubSeq(Bytes(k), f, Size(k))
      BY <2>1, RestFacts
    <2> HIDE DEF k, f
    <2>3. f \in 1 .. Size(k) /\ f >= 2
      BY <2>2, SizeType
    <2>4. Follows(k, f, unsent)
      BY <2>2, <2>3 DEF Follows
    <2> QED BY <2>1, <2>2, <2>3, <2>4, SendsStep
  <1>3. CASE ClientCloses
    <2>1. Aligned' /\ Inbox' = Inbox /\ (MidHeader' <=> MidHeader)
      BY <1>3, SamePipe DEF ClientCloses
    <2>2. CASE MidHeader
      <3>1. PeerSeen' = PeerSeen
        BY <1>3, <2>1, <2>2 DEF ClientCloses, PeerSeen
      <3> QED BY <1>3, <2>1, <3>1 DEF ClientCloses, Rpc!vars, Rpc!events
    <2>3. CASE ~MidHeader
      <3>1. PeerSeen = "open" /\ PeerSeen' = "gone"
        BY <1>3, <2>1, <2>3 DEF ClientCloses, PeerSeen
      <3>2. Rpc!ClientCloses
        BY <1>3, <2>1, <3>1 DEF ClientCloses, Rpc!ClientCloses, Rpc!events
      <3> QED BY <2>1, <3>2 DEF Rpc!Next, Rpc!Client
    <2> QED BY <2>2, <2>3
  <1> QED BY <1>1, <1>2, <1>3 DEF Client

\* The calls of Read that find less than they ask for.
LEMMA FindsIs ==
    ASSUME Typed, Aligned, FindsNoHeader \/ FindsEnd \/ FindsNoBody,
           "unix" \notin SplitsHeaders
    PROVE  Aligned' /\ Rpc!ReadStep
  <1>0. HeaderSize \in Nat /\ wire \in Seq(Octets) /\ Len(wire) \in Nat
    BY FramingAssumption DEF Typed
  <1>1. CASE FindsNoHeader
    <2>1. isOpen /\ Len(wire) < HeaderSize /\ header = NoHeader
      BY <1>0, <1>1 DEF FindsNoHeader, Has, EndSeen
    <2>2. Inbox = <<>> /\ (wire # <<>> => MidHeader)
      BY <2>1, HeaderNotThere
    <2>3. PeerSeen # "gone"
      BY <1>1, <2>2 DEF FindsNoHeader, EndSeen, PeerSeen
    <2>4. wire' = wire
      BY <1>1, <2>2 DEF FindsNoHeader, Left, Aligned
    <2>5. Aligned' /\ Inbox' = Inbox /\ PeerSeen' = PeerSeen
      BY <1>1, <2>4, SamePipe DEF FindsNoHeader, PeerSeen
    <2>6. Rpc!ReadNothing
      BY <1>1, <2>1, <2>2, <2>3, <2>5 DEF FindsNoHeader, Rpc!ReadNothing, Rpc!EndOfPipe, Rpc!events
    <2> QED BY <2>5, <2>6 DEF Rpc!ReadStep
  <1>2. CASE FindsEnd
    <2>1. Inbox = <<>>
      <3>1. CASE isOpen
        <4>1. Len(wire) < HeaderSize /\ header = NoHeader
          BY <1>0, <1>2, <3>1 DEF FindsEnd, Has
        <4> QED BY <4>1, HeaderNotThere
      <3>2. CASE ~isOpen
        BY <3>2, EmptyInbox DEF Typed, Booked
      <3> QED BY <3>1, <3>2
    <2>2. Aligned' /\ Rpc!Fails("PipeClosed")
      BY <1>2, FailsIs DEF FindsEnd
    <2>3. isOpen => PeerSeen = "gone"
      <3>1. ASSUME wire = <<>>, header = NoHeader PROVE ~MidHeader
        BY <3>1, NothingCut
      <3> QED BY <1>2, <3>1 DEF FindsEnd, EndSeen, PeerSeen
    <2>4. Rpc!ReadOnClosed
      BY <1>2, <2>1, <2>2, <2>3 DEF FindsEnd, Rpc!ReadOnClosed, Rpc!EndOfPipe
    <2> QED BY <2>2, <2>4 DEF Rpc!ReadStep
  <1>3. CASE FindsNoBody
    <2>1. header # NoHeader /\ header \in Kinds /\ isOpen /\ reading # "no"
      BY <1>3 DEF FindsNoBody, Typed, Fields, Booked
    <2>2. Len(wire) < BodySize[header]
      <3>1. BodySize[header] \in Nat
        BY <2>1, SizeType
      <3> QED BY <1>0, <1>3, <2>1, <3>1 DEF FindsNoBody, HasBody, Has
    <2>3. Inbox # <<>> /\ ~Head(Inbox).whole
      BY <2>1, <2>2, BodyNotThere
    <2>4. Aligned' /\ Rpc!Fails("ReadCorrupt")
      BY <1>3, FailsIs DEF FindsNoBody
    <2>5. Rpc!ReadPartialFrame
      BY <2>1, <2>3, <2>4 DEF Rpc!ReadPartialFrame, Rpc!Top
    <2> QED BY <2>4, <2>5 DEF Rpc!ReadStep
  <1> QED BY <1>1, <1>2, <1>3

\* The frames that are read.
LEMMA GetsIs ==
    ASSUME Typed, Aligned, GetsMessage \/ GetsPong \/ GetsPing \/ GetsEnd
    PROVE  Aligned' /\ Rpc!ReadStep
  <1>1. ASSUME header # NoHeader, HasBody
        PROVE  reading # "no" /\ header \in Kinds /\ Rpc!Reads(header)
    <2>1. reading # "no" /\ header \in Kinds /\ Len(wire) >= BodySize[header]
      BY <1>1 DEF HasBody, Has, Typed, Fields, Booked
    <2>2. Inbox # <<>> /\ Head(Inbox).kind = header /\ Head(Inbox).whole
      BY <1>1, <2>1, BodyIsThere
    <2> QED BY <2>1, <2>2 DEF Rpc!Reads, Rpc!Top
  <1>2. ASSUME ReadsBody, UNCHANGED <<platform, unsent, peer>>
        PROVE  /\ Aligned' /\ Inbox' = Tail(Inbox) /\ PeerSeen' = PeerSeen
               /\ Rpc!Reads(header) /\ reading # "no"
    BY <1>1, <1>2, BodyTaken DEF ReadsBody
  <1>3. CASE GetsMessage
    <2>1. Aligned' /\ Inbox' = Tail(Inbox) /\ PeerSeen' = PeerSeen /\ Rpc!Reads(header) /\ reading # "no"
      BY <1>2, <1>3 DEF GetsMessage
    <2>2. header \in {"READY", "Frame"}
      BY <1>3 DEF GetsMessage
    <2>3. CASE reading = "Open"
      <3>1. /\ state' = IF Rpc!Answers(header) THEN "Connected" ELSE state
            /\ readies' = IF Rpc!Answers(header) THEN readies + 1 ELSE readies
        BY <1>3, <2>2, <2>3 DEF GetsMessage, Rpc!Answers
      <3>2. Rpc!ReadAnswer
        BY <1>3, <2>1, <2>2, <2>3, <3>1 DEF GetsMessage, Rpc!ReadAnswer
      <3> QED BY <2>1, <3>2 DEF Rpc!ReadStep
    <2>4. CASE reading # "Open"
      <3>1. reading = "owner" /\ (Rpc!Reads("READY") \/ Rpc!Reads("Frame"))
        BY <2>1, <2>2, <2>4 DEF Typed, Fields
      <3>2. Rpc!ReadMessage
        BY <1>3, <2>1, <2>4, <3>1 DEF GetsMessage, Rpc!ReadMessage, Rpc!events
      <3> QED BY <2>1, <3>2 DEF Rpc!ReadStep
    <2> QED BY <2>3, <2>4
  <1>4. CASE GetsPong
    <2>1. Aligned' /\ Inbox' = Tail(Inbox) /\ PeerSeen' = PeerSeen /\ Rpc!Reads(header)
      BY <1>2, <1>4 DEF GetsPong, session
    <2>2. Rpc!ReadPong
      BY <1>4, <2>1 DEF GetsPong, session, Rpc!ReadPong, Rpc!events
    <2> QED BY <2>1, <2>2 DEF Rpc!ReadStep
  <1>5. CASE GetsPing
    <2>1. PICK sent \in Sent :
                IF Succeeds(sent)
                  THEN ReadsBody /\ UNCHANGED <<platform, session, unsent>>
                  ELSE HasBody /\ Close /\ UNCHANGED <<lastErrorCode, reading>>
      BY <1>5 DEF GetsPing
    <2>2. header = "Ping" /\ header # NoHeader
      BY <1>5 DEF GetsPing, NoHeader
    <2>3. CASE Succeeds(sent)
      <3>1. Aligned' /\ Inbox' = Tail(Inbox) /\ PeerSeen' = PeerSeen /\ Rpc!Reads(header)
        BY <1>2, <2>1, <2>3 DEF session
      <3>2. Rpc!ReadPing
        BY <2>1, <2>2, <2>3, <3>1 DEF session, Rpc!ReadPing, Rpc!events
      <3> QED BY <3>1, <3>2 DEF Rpc!ReadStep
    <2>4. CASE ~Succeeds(sent)
      <3>1. Rpc!Reads(header)
        BY <1>1, <2>1, <2>2, <2>4
      <3>2. Aligned' /\ Rpc!Close
        BY <2>1, <2>4, CloseIs
      <3>3. Rpc!ReadPingPongFails
        BY <2>1, <2>2, <2>4, <3>1, <3>2 DEF Rpc!ReadPingPongFails
      <3> QED BY <3>2, <3>3 DEF Rpc!ReadStep
    <2> QED BY <2>3, <2>4
  <1>6. CASE GetsEnd
    <2>1. Rpc!Reads(header)
      BY <1>1, <1>6 DEF GetsEnd
    <2>2. CASE header = "Close" /\ Fails("CloseFrame")
      BY <2>1, <2>2, FailsIs DEF Rpc!ReadStep, Rpc!ReadClose
    <2>3. CASE header = "Bad" /\ Fails("ReadCorrupt")
      BY <2>1, <2>3, FailsIs DEF Rpc!ReadStep, Rpc!ReadBad
    <2> QED BY <1>6, <2>2, <2>3 DEF GetsEnd
  <1> QED BY <1>3, <1>4, <1>5, <1>6

LEMMA StepIs ==
    ASSUME Typed, Aligned, [Next]_vars, "unix" \notin SplitsHeaders
    PROVE  Aligned' /\ [Rpc!Next]_(Rpc!vars)
  <1>0. ASSUME UNCHANGED session, Inbox' = Inbox, PeerSeen' = PeerSeen PROVE UNCHANGED Rpc!vars
    BY <1>0 DEF session, Rpc!vars, Rpc!events
  <1>1. CASE Open
    <2>1. wire = <<>> /\ unsent = <<>> /\ header = NoHeader
      BY <1>1 DEF Open, Typed, Booked
    <2>2. Inbox = <<>> /\ Aligned' /\ Inbox' = <<>> /\ PeerSeen' = peer'
      BY <1>1, <2>1, EmptyInbox, Emptied DEF Open
    <2>3. Rpc!OpenSendsHandshake
      BY <1>1, <2>2 DEF Open, Rpc!OpenSendsHandshake
    <2> QED BY <2>2, <2>3 DEF Rpc!Next
  <1>2. CASE BeginRead
    <2>1. Aligned' /\ Inbox' = Inbox /\ PeerSeen' = PeerSeen
      BY <1>2, SamePipe DEF BeginRead, PeerSeen
    <2>2. Rpc!OpenReads \/ Rpc!OwnerReads
      BY <1>2, <2>1 DEF BeginRead, Rpc!OpenReads, Rpc!OwnerReads, Rpc!events
    <2> QED BY <2>1, <2>2 DEF Rpc!Next
  <1>3. CASE ReadStep
    <2>1. CASE ReadsHeader
      <3>1. Aligned' /\ Inbox' = Inbox /\ PeerSeen' = PeerSeen
        BY <2>1, HeaderTaken
      <3>2. UNCHANGED session
        BY <2>1 DEF ReadsHeader
      <3> QED BY <1>0, <3>1, <3>2
    <2>2. CASE FindsNoHeader \/ FindsEnd \/ FindsNoBody
      BY <2>2, FindsIs DEF Rpc!Next
    <2>3. CASE GetsMessage \/ GetsPong \/ GetsPing \/ GetsEnd
      BY <2>3, GetsIs DEF Rpc!Next
    <2> QED BY <1>3, <2>1, <2>2, <2>3 DEF ReadStep
  <1>4. CASE Write
    <2>1. PICK sent \in Sent :
                IF Succeeds(sent)
                  THEN UNCHANGED <<platform, session, wire, unsent, header>>
                  ELSE Close /\ UNCHANGED <<lastErrorCode, reading>>
      BY <1>4 DEF Write
    <2>2. CASE Succeeds(sent)
      <3>1. Aligned' /\ Inbox' = Inbox /\ PeerSeen' = PeerSeen
        BY <2>1, <2>2, SamePipe DEF session, PeerSeen
      <3> QED BY <1>0, <2>1, <2>2, <3>1
    <2>3. CASE ~Succeeds(sent)
      <3>1. Aligned' /\ Rpc!Close
        BY <2>1, <2>3, CloseIs
      <3>2. Rpc!WriteFails
        BY <1>4, <2>1, <2>3, <3>1 DEF Write, Rpc!WriteFails
      <3> QED BY <3>1, <3>2 DEF Rpc!Next
    <2> QED BY <2>2, <2>3
  <1>5. CASE Replace
    <2>1. Aligned' /\ Inbox' = <<>> /\ PeerSeen' = peer'
      BY <1>5, Emptied DEF Replace, PipeGone
    <2>2. Rpc!DestroyAndCreate
      BY <1>5, <2>1 DEF Replace, PipeGone, Rpc!DestroyAndCreate
    <2> QED BY <2>1, <2>2 DEF Rpc!Next
  <1>6. CASE Client
    BY <1>6, ClientIs
  <1>7. CASE UNCHANGED vars
    <2>1. Aligned' /\ Inbox' = Inbox /\ PeerSeen' = PeerSeen
      BY <1>7, SamePipe DEF vars, session, PeerSeen
    <2> QED BY <1>0, <1>7, <2>1 DEF vars
  <1> QED BY <1>1, <1>2, <1>3, <1>4, <1>5, <1>6, <1>7 DEF Next

LEMMA InitAligned == Init => Aligned /\ Rpc!Init
  <1> SUFFICES ASSUME Init PROVE Aligned /\ Rpc!Init
    OBVIOUS
  <1>1. wire = <<>> /\ unsent = <<>> /\ header = NoHeader
    BY DEF Init
  <1>2. Inbox = <<>>
    BY <1>1, EmptyInbox
  <1>3. Arrived \o unsent = <<>>
    BY <1>1 DEF Arrived
  <1>4. Aligned /\ PeerSeen = peer
    BY <1>1, <1>3, EmptyIsWhole DEF Aligned, MidHeader, PeerSeen
  <1> QED BY <1>2, <1>4 DEF Init, Fresh, Rpc!Init, Rpc!Fresh

\* Byte by byte the connection is the RpcConnection of whole frames, for frames
\* of any size, however the client cuts them and wherever in one it leaves, if on
\* unix it writes a header in one piece: recv with less than a header in the
\* socket drops what there is (connection_unix.cpp:293-312,
\* connection_win.cpp:116-150, rpc_connection.cpp:88-108).
THEOREM ImplementsRpcConnection ==
    ASSUME "unix" \notin SplitsHeaders
    PROVE  Spec => IsRpcConnection
  <1>1. Init => IInv
    BY InitTyped, InitAligned DEF IInv
  <1>2. IInv /\ [Next]_vars => IInv'
    BY NextTyped, StepIs DEF IInv
  <1>3. Init => Rpc!Init
    BY InitAligned
  <1>4. IInv /\ [Next]_vars => [Rpc!Next]_(Rpc!vars)
    BY StepIs DEF IInv
  <1> QED BY <1>1, <1>2, <1>3, <1>4, PTL DEF Spec, IsRpcConnection

-----------------------------------------------------------------------------
(***************************************************************************)
(* The session, however headers are cut.                                   *)
(***************************************************************************)
\* A session that runs has been begun by a handshake.
Begun == state # "Disconnected" => used

LEMMA CloseEndsSession ==
    ASSUME Typed, Begun, Close
    PROVE  Begun' /\ [Session!Next]_(Session!vars)
  <1>1. Begun'
    BY DEF Begun, Close
  <1>2. CASE state = "Disconnected"
    BY <1>1, <1>2 DEF Close, Notified, Rpc!Status, Session!vars
  <1>3. CASE state # "Disconnected"
    <2>1. state \in {"SentHandshake", "Connected"} /\ used
      BY <1>3 DEF Typed, Fields, Begun, Rpc!States
    <2> QED BY <1>1, <2>1 DEF Close, Notified, Rpc!Status, Session!Next, Session!Drop
  <1> QED BY <1>2, <1>3

LEMMA SessionStep ==
    ASSUME Typed, Begun, [Next]_vars
    PROVE  Begun' /\ [Session!Next]_(Session!vars)
  <1>0. ASSUME UNCHANGED <<state, readies, notices, used>>
        PROVE  Begun' /\ [Session!Next]_(Session!vars)
    BY <1>0 DEF Begun, Rpc!Status, Session!vars
  <1>1. CASE Open
    BY <1>1 DEF Open, Begun, Rpc!Status, Session!Next, Session!Begin
  <1>2. CASE BeginRead
    BY <1>0, <1>2 DEF BeginRead
  <1>3. CASE ReadStep
    <2>1. CASE ReadsHeader \/ FindsNoHeader \/ GetsPong
      BY <1>0, <2>1 DEF ReadsHeader, FindsNoHeader, GetsPong, session
    <2>2. CASE FindsEnd \/ FindsNoBody \/ GetsEnd
      BY <2>2, CloseEndsSession DEF FindsEnd, FindsNoBody, GetsEnd, Fails
    <2>3. CASE GetsMessage
      <3>1. header # NoHeader
        BY <2>3 DEF GetsMessage, ReadsBody
      <3>2. CASE reading = "Open" /\ header = "READY"
        <4>1. state = "SentHandshake"
          BY <3>1, <3>2 DEF Typed, Booked
        <4> QED BY <2>3, <3>2, <4>1
                DEF GetsMessage, Begun, Rpc!Status, Session!Next, Session!Ready
      <3>3. CASE ~(reading = "Open" /\ header = "READY")
        BY <1>0, <2>3, <3>3 DEF GetsMessage
      <3> QED BY <3>2, <3>3
    <2>4. CASE GetsPing
      BY <1>0, <2>4, CloseEndsSession DEF GetsPing, session
    <2> QED BY <1>3, <2>1, <2>2, <2>3, <2>4 DEF ReadStep
  <1>4. CASE Write
    BY <1>0, <1>4, CloseEndsSession DEF Write, session
  <1>5. CASE Replace
    BY <1>5 DEF Replace, Begun, Rpc!Status, Session!Next, Session!Replace
  <1>6. CASE Client
    BY <1>0, <1>6 DEF Client, ClientSends, ClientSendsRest, ClientCloses, Sends, session
  <1>7. CASE UNCHANGED vars
    BY <1>0, <1>7 DEF vars, session
  <1> QED BY <1>1, <1>2, <1>3, <1>4, <1>5, <1>6, <1>7 DEF Next

\* The session keeps its promise wherever headers are cut, on unix too, for
\* frames of any size: one onConnect at most, and exactly one onDisconnect for
\* every session that ends, whatever the bytes that are lost make of what follows
\* (rpc_connection.cpp:61-138).
THEOREM ImplementsSession == Spec => IsSession
  <1>1. Init => Typed /\ Begun
    BY InitTyped DEF Init, Fresh, Begun
  <1>2. Typed /\ Begun /\ [Next]_vars => Typed' /\ Begun'
    BY NextTyped, SessionStep
  <1>3. Init => Session!Init
    BY DEF Init, Fresh, Session!Init, Rpc!Status
  <1>4. Typed /\ Begun /\ [Next]_vars => [Session!Next]_(Session!vars)
    BY SessionStep
  <1> QED BY <1>1, <1>2, <1>3, <1>4, PTL DEF Spec, IsSession, Session!Spec

=============================================================================
