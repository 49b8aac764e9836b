--------------------------- MODULE BoundedSeqProofs ---------------------------
(* What an append to a bounded sequence leaves, for every bound and every    *)
(* sequence; the proofs about the queue and the histories rest on it.        *)
EXTENDS BoundedSeq, SequenceTheorems, FiniteSetTheorems, WellFoundedInduction, TLAPS

\* t holds the items of s without the first few, followed by e: at most n items,
\* and exactly n when something was dropped.
IsShift(t, s, e, n) ==
  /\ Len(t) \in 1..n
  /\ t[Len(t)] = e
  /\ \E k \in 0..Len(s) :
       /\ Len(t) = Len(s) + 1 - k
       /\ k = 0 \/ Len(t) = n
       /\ \A i \in 1..(Len(t) - 1) : t[i] = s[i + k]

\* deque(maxlen=n).append, and l[-n:] after an append, shift the sequence.
LEMMA AppendBoundedShifts ==
  ASSUME NEW S, NEW s \in Seq(S), NEW e \in S, NEW n \in Nat \ {0}
  PROVE  /\ AppendBounded(s, e, n) \in Seq(S)
         /\ IsShift(AppendBounded(s, e, n), s, e, n)
<1> DEFINE u == Append(s, e)
           t == AppendBounded(s, e, n)
<1>1. /\ u \in Seq(S) /\ Len(u) = Len(s) + 1 /\ Len(s) \in Nat
      /\ u[Len(s) + 1] = e
      /\ \A i \in 1..Len(s) : u[i] = s[i]
  BY AppendProperties, LenProperties
<1>2. CASE Len(u) <= n
  <2>1. t = u
    BY <1>2 DEF AppendBounded, LastN
  <2>2. Len(t) = Len(s) + 1 - 0 /\ \A i \in 1..(Len(t) - 1) : t[i] = s[i + 0]
    BY <1>1, <2>1
  <2> QED
    BY <1>1, <1>2, <2>1, <2>2 DEF IsShift
<1>3. CASE Len(u) > n
  <2> DEFINE k == Len(u) - n
  <2>1. t = SubSeq(u, k + 1, Len(u))
    BY <1>1, <1>3 DEF AppendBounded, LastN
  <2>2. /\ k \in 0..Len(s) /\ k + 1 \in Int /\ Len(u) \in Int
        /\ k + 1 <= Len(u) /\ Len(u) - (k + 1) + 1 = n
    BY <1>1, <1>3
  <2>3. \A i \in (k + 1)..Len(u) : u[i] \in S
    BY <1>1, <2>2, ElementOfSeq
  <2> HIDE DEF u, k, t
  <2>4. t \in Seq(S) /\ Len(t) = n /\ \A i \in 1..n : t[i] = u[k + 1 + i - 1]
    <3> DEFINE m == k + 1
    <3>1. /\ m \in Int /\ Len(u) \in Int /\ m <= Len(u)
          /\ Len(u) - m + 1 = n /\ \A i \in m..Len(u) : u[i] \in S
      BY <2>2, <2>3
    <3>2. t = SubSeq(u, m, Len(u))
      BY <2>1, Zenon
    <3> HIDE DEF m
    <3>3. t \in Seq(S) /\ Len(t) = n /\ \A i \in 1..n : t[i] = u[m + i - 1]
      BY <3>1, <3>2, SubSeqProperties
    <3> QED BY <3>3 DEF m
  <2>5. t[n] = u[k + n] /\ k + n = Len(s) + 1
    BY <1>1, <2>2, <2>4
  <2>6. ASSUME NEW i \in 1..(n - 1) PROVE t[i] = s[i + k]
    <3>1. t[i] = u[i + k] /\ i + k \in 1..Len(s)
      BY <1>1, <2>2, <2>4
    <3> QED
      BY <1>1, <3>1
  <2>7. Len(t) = Len(s) + 1 - k /\ t[Len(t)] = e /\ Len(t) \in 1..n
    <3>1. Len(t) = n /\ Len(u) = Len(s) + 1 /\ u[Len(s) + 1] = e
      BY <1>1, <2>4
    <3>2. n = Len(s) + 1 - k /\ n \in 1..n
      BY <2>2, <3>1
    <3> QED BY <2>5, <3>1, <3>2
  <2>8. \A i \in 1..(Len(t) - 1) : t[i] = s[i + k]
    BY <2>4, <2>6
  <2> QED
    BY <2>2, <2>4, <2>7, <2>8 DEF t, IsShift
<1> QED
  BY <1>1, <1>2, <1>3

\* The slice s[-n:] ends as s does.
LEMMA LastNEnds ==
  ASSUME NEW S, NEW s \in Seq(S), NEW n \in Nat \ {0}
  PROVE  /\ LastN(s, n) \in Seq(S)
         /\ Len(LastN(s, n)) <= Len(s)
         /\ Len(LastN(s, n)) = IF Len(s) <= n THEN Len(s) ELSE n
         /\ Len(LastN(s, n)) = 0 <=> Len(s) = 0
         /\ \A i \in 1..Len(LastN(s, n)) :
              LastN(s, n)[i] = s[Len(s) - Len(LastN(s, n)) + i]
<1> DEFINE t == LastN(s, n)
<1>1. Len(s) \in Nat
  BY LenProperties
<1>2. CASE Len(s) <= n
  BY <1>1, <1>2 DEF LastN
<1>3. CASE Len(s) > n
  <2> DEFINE k == Len(s) - n + 1
  <2>1. t = SubSeq(s, k, Len(s))
    BY <1>1, <1>3 DEF LastN
  <2>2. /\ k \in Int /\ Len(s) \in Int /\ k <= Len(s) /\ k \in 1..Len(s)
        /\ Len(s) - k + 1 = n
    BY <1>1, <1>3
  <2>3. \A i \in k..Len(s) : s[i] \in S
    BY <1>1, <2>2, ElementOfSeq
  <2> HIDE DEF k, t
  <2>4. t \in Seq(S) /\ Len(t) = n /\ \A i \in 1..n : t[i] = s[k + i - 1]
    BY <2>1, <2>2, <2>3, SubSeqProperties
  <2>5. \A i \in 1..n : t[i] = s[Len(s) - n + i]
    BY <1>1, <2>2, <2>4
  <2> QED
    BY <1>1, <1>3, <2>4, <2>5 DEF t
<1> QED
  BY <1>1, <1>2, <1>3

\* Every set of naturals that is not empty has a least element: the proofs that
\* need an induction take the least counterexample instead.  The intervals 0..n
\* of its elements have a smallest one.
LEMMA LeastNatural ==
  ASSUME NEW A \in SUBSET Nat, A # {}
  PROVE  \E m \in A : \A n \in A : m <= n
<1> DEFINE F == {0..n : n \in A}
           R == StrictSubsetOrdering(Nat)
<1>1. F \subseteq FiniteSubsetsOf(Nat)
  <2>1. ASSUME NEW n \in A PROVE 0..n \in FiniteSubsetsOf(Nat)
    <3>1. IsFiniteSet(0..n) /\ 0..n \in SUBSET Nat
      BY FS_Interval
    <3> QED BY <3>1 DEF FiniteSubsetsOf
  <2> QED BY <2>1
<1>2. PICK I \in F : \A J \in F : <<J, I>> \notin R
  <2>1. F # {}
    OBVIOUS
  <2> HIDE DEF F, R
  <2>2. IsWellFoundedOn(R, FiniteSubsetsOf(Nat))
    BY FS_StrictSubsetOrderingWellFounded DEF R
  <2> QED BY <1>1, <2>1, <2>2, WFMin
<1>3. PICK m \in A : I = 0..m
  OBVIOUS
<1>4. ASSUME NEW n \in A, n < m PROVE FALSE
  <2>1. 0..n \in F /\ <<0..n, 0..m>> \notin R
    BY <1>2, <1>3
  <2>2. /\ 0..n \subseteq 0..m /\ m \in 0..m /\ m \notin 0..n
        /\ 0..n \in SUBSET Nat /\ 0..m \in SUBSET Nat
    BY <1>4
  <2>3. <<0..n, 0..m>>[1] = 0..n /\ <<0..n, 0..m>>[2] = 0..m
    OBVIOUS
  <2>4. <<0..n, 0..m>> \in R
    BY <2>2, <2>3, Zenon DEF StrictSubsetOrdering
  <2> QED BY <2>1, <2>4
<1> QED BY <1>4

-----------------------------------------------------------------------------

\* A bounded sequence that is not full grows; a full one loses its first item.
LEMMA AppendBoundedDrops ==
  ASSUME NEW S, NEW s \in Seq(S), NEW e \in S, NEW n \in Nat \ {0}, Len(s) <= n
  PROVE  \/ Len(s) < n /\ AppendBounded(s, e, n) = Append(s, e)
         \/ Len(s) = n /\ s # <<>> /\ AppendBounded(s, e, n) = Append(Tail(s), e)
<1> DEFINE u == Append(s, e)
           t == SubSeq(u, 2, n + 1)
           v == Append(Tail(s), e)
<1>1. /\ u \in Seq(S) /\ Len(u) = Len(s) + 1 /\ Len(s) \in Nat /\ u[Len(s) + 1] = e
      /\ \A i \in 1..Len(s) : u[i] = s[i]
  BY AppendProperties, LenProperties
<1>2. CASE Len(s) < n
  <2>1. Len(u) <= n
    BY <1>1, <1>2
  <2> QED BY <1>2, <2>1 DEF AppendBounded, LastN
<1>3. CASE Len(s) = n
  <2>1. s # <<>>
    BY <1>3, EmptySeq
  <2>2. AppendBounded(s, e, n) = t
    BY <1>1, <1>3 DEF AppendBounded, LastN
  <2>3. /\ Tail(s) \in Seq(S) /\ Len(Tail(s)) = n - 1
        /\ \A i \in 1..(n - 1) : Tail(s)[i] = s[i + 1]
    BY <1>3, <2>1, HeadTailProperties
  <2>4. /\ v \in Seq(S) /\ Len(v) = n /\ v[n] = e
        /\ \A i \in 1..(n - 1) : v[i] = Tail(s)[i]
    <3>1. /\ v \in Seq(S) /\ Len(v) = Len(Tail(s)) + 1 /\ v[Len(Tail(s)) + 1] = e
          /\ \A i \in 1..Len(Tail(s)) : v[i] = Tail(s)[i]
      BY <2>3, AppendProperties
    <3> HIDE DEF v
    <3> QED BY <2>3, <3>1
  <2>5. \A i \in 2..(n + 1) : u[i] \in S
    BY <1>1, <1>3, ElementOfSeq
  <2> HIDE DEF u, v
  <2>6. /\ t \in Seq(S) /\ Len(t) = n
        /\ \A i \in 1..n : t[i] = u[2 + i - 1]
    BY <2>5, SubSeqProperties
  <2> HIDE DEF t
  <2>7. ASSUME NEW i \in 1..n PROVE t[i] = v[i]
    <3>1. t[i] = u[i + 1]
      BY <2>6
    <3>2. CASE i = n
      BY <1>1, <1>3, <2>4, <3>1, <3>2
    <3>3. CASE i # n
      <4>1. i \in 1..(n - 1) /\ i + 1 \in 1..Len(s)
        BY <1>3, <3>3
      <4> QED BY <1>1, <2>3, <2>4, <3>1, <4>1
    <3> QED BY <3>2, <3>3
  <2>8. t = v
    BY <2>4, <2>6, <2>7, SeqEqual
  <2> QED BY <1>3, <2>1, <2>2, <2>8 DEF v
<1> QED BY <1>1, <1>2, <1>3

\* An item behind two sequences in a row.
LEMMA ConcatAppend ==
  ASSUME NEW S, NEW a \in Seq(S), NEW b \in Seq(S), NEW e \in S
  PROVE  a \o Append(b, e) = Append(a \o b, e)
<1> DEFINE c == Append(b, e)
           w == a \o b
           l == a \o c
           r == Append(w, e)
<1>1. /\ c \in Seq(S) /\ Len(c) = Len(b) + 1 /\ c[Len(b) + 1] = e
      /\ \A i \in 1..Len(b) : c[i] = b[i]
  BY AppendProperties
<1>2. /\ w \in Seq(S) /\ Len(w) = Len(a) + Len(b)
      /\ \A i \in 1..(Len(a) + Len(b)) : w[i] = IF i <= Len(a) THEN a[i] ELSE b[i - Len(a)]
  BY ConcatProperties
<1>3. Len(a) \in Nat /\ Len(b) \in Nat
  BY LenProperties
<1> HIDE DEF c, w
<1>4. /\ l \in Seq(S) /\ Len(l) = Len(a) + Len(c)
      /\ \A i \in 1..(Len(a) + Len(c)) : l[i] = IF i <= Len(a) THEN a[i] ELSE c[i - Len(a)]
  BY <1>1, ConcatProperties
<1>5. /\ r \in Seq(S) /\ Len(r) = Len(w) + 1 /\ r[Len(w) + 1] = e
      /\ \A i \in 1..Len(w) : r[i] = w[i]
  <2>1. w \in Seq(S)
    BY <1>2
  <2> QED BY <2>1, AppendProperties
<1> HIDE DEF l, r
<1>6. Len(l) = Len(r)
  BY <1>1, <1>2, <1>3, <1>4, <1>5
<1>7. ASSUME NEW i \in 1..Len(l) PROVE l[i] = r[i]
  <2>1. CASE i <= Len(a)
    <3>1. i \in 1..(Len(a) + Len(b)) /\ i \in 1..Len(w) /\ i \in 1..(Len(a) + Len(c))
      BY <1>1, <1>2, <1>3, <1>4, <2>1
    <3> QED BY <1>2, <1>4, <1>5, <2>1, <3>1
  <2>2. CASE i > Len(a) /\ i <= Len(a) + Len(b)
    <3>1. i - Len(a) \in 1..Len(b) /\ i \in 1..Len(w) /\ i \in 1..(Len(a) + Len(c))
      BY <1>1, <1>2, <1>3, <2>2
    <3> QED BY <1>1, <1>2, <1>3, <1>4, <1>5, <2>2, <3>1
  <2>3. CASE i > Len(a) + Len(b)
    <3>0. i \in Nat /\ i <= Len(a) + Len(c) /\ Len(c) = Len(b) + 1 /\ Len(w) = Len(a) + Len(b)
      BY <1>1, <1>2, <1>3, <1>4
    <3>1. i = Len(a) + Len(c) /\ i - Len(a) = Len(b) + 1 /\ i = Len(w) + 1
      BY <1>3, <2>3, <3>0
    <3>2. l[i] = c[i - Len(a)]
      BY <1>3, <1>4, <2>3
    <3> QED BY <1>1, <1>5, <3>1, <3>2
  <2> QED BY <1>3, <2>1, <2>2, <2>3
<1>8. l = r
  BY <1>4, <1>5, <1>6, <1>7, SeqEqual
<1> QED BY <1>8 DEF l, r, c, w

\* The first item of two sequences in a row is that of the first.
LEMMA ConcatTail ==
  ASSUME NEW S, NEW a \in Seq(S), NEW b \in Seq(S), a # <<>>
  PROVE  /\ a \o b # <<>> /\ Head(a \o b) = a[1]
         /\ Tail(a \o b) = Tail(a) \o b
<1> DEFINE c == Tail(a)
           w == a \o b
           l == Tail(w)
           r == c \o b
<1>1. /\ c \in Seq(S) /\ Len(c) = Len(a) - 1 /\ \A i \in 1..Len(c) : c[i] = a[i + 1]
  BY HeadTailProperties
<1>2. /\ w \in Seq(S) /\ Len(w) = Len(a) + Len(b)
      /\ \A i \in 1..(Len(a) + Len(b)) : w[i] = IF i <= Len(a) THEN a[i] ELSE b[i - Len(a)]
  BY ConcatProperties
<1>3. Len(a) \in Nat \ {0} /\ Len(b) \in Nat
  BY LenProperties, EmptySeq
<1> HIDE DEF c, w
<1>4. w # <<>>
  BY <1>2, <1>3, EmptySeq
<1>5. Head(w) = a[1]
  BY <1>2, <1>3, <1>4
<1>6. /\ l \in Seq(S) /\ Len(l) = Len(w) - 1 /\ \A i \in 1..Len(l) : l[i] = w[i + 1]
  BY <1>2, <1>4, HeadTailProperties
<1>7. /\ r \in Seq(S) /\ Len(r) = Len(c) + Len(b)
      /\ \A i \in 1..(Len(c) + Len(b)) : r[i] = IF i <= Len(c) THEN c[i] ELSE b[i - Len(c)]
  BY <1>1, ConcatProperties
<1> HIDE DEF l, r
<1>8. Len(l) = Len(r)
  BY <1>1, <1>2, <1>3, <1>6, <1>7
<1>9. ASSUME NEW i \in 1..Len(l) PROVE l[i] = r[i]
  <2>1. /\ i + 1 \in 1..(Len(a) + Len(b)) /\ i \in 1..(Len(c) + Len(b)) /\ i \in Nat
        /\ (i + 1) - Len(a) = i - Len(c) /\ (i + 1 <= Len(a) <=> i <= Len(c))
    BY <1>1, <1>2, <1>3, <1>6
  <2>2. CASE i <= Len(c)
    <3>1. i \in 1..Len(c)
      BY <2>1, <2>2
    <3> QED BY <1>1, <1>2, <1>6, <1>7, <2>1, <2>2, <3>1
  <2>3. CASE ~(i <= Len(c))
    <3>1. l[i] = b[(i + 1) - Len(a)]
      BY <1>2, <1>6, <2>1, <2>3
    <3>2. r[i] = b[i - Len(c)]
      BY <1>7, <2>1, <2>3
    <3> QED BY <2>1, <3>1, <3>2
  <2> QED BY <2>2, <2>3
<1>10. l = r
  BY <1>6, <1>7, <1>8, <1>9, SeqEqual
<1> QED BY <1>4, <1>5, <1>10 DEF l, r, c, w

\* Of two sequences in a row the first item of the second is cut out.
LEMMA ConcatCut ==
  ASSUME NEW S, NEW a \in Seq(S), NEW b \in Seq(S), b # <<>>
  PROVE  LET w == a \o b
             k == Len(w) - Len(b) + 1
         IN SubSeq(w, 1, k - 1) \o SubSeq(w, k + 1, Len(w)) = a \o Tail(b)
<1> DEFINE w == a \o b
           n == Len(a)
           m == Len(w)
           k == m - Len(b) + 1
           h == SubSeq(w, 1, k - 1)
           t == SubSeq(w, k + 1, m)
           c == Tail(b)
<1>1. /\ w \in Seq(S) /\ m = n + Len(b)
      /\ \A i \in 1..(n + Len(b)) : w[i] = IF i <= n THEN a[i] ELSE b[i - n]
  BY ConcatProperties
<1>2. n \in Nat /\ Len(b) \in Nat \ {0}
  BY LenProperties, EmptySeq
<1>3. /\ c \in Seq(S) /\ Len(c) = Len(b) - 1 /\ \A i \in 1..Len(c) : c[i] = b[i + 1]
  BY HeadTailProperties
<1> HIDE DEF w, n, c
<1>4. m \in Nat /\ k = n + 1 /\ k - 1 = n /\ k + 1 \in Int
  BY <1>1, <1>2
<1>5. \A i \in 1..m : w[i] \in S
  BY <1>1, ElementOfSeq
<1> HIDE DEF m, k
<1>6. h = a
  <2>1. n \in Int /\ \A i \in 1..n : w[i] \in S
    BY <1>1, <1>2, <1>5
  <2>2. h = SubSeq(w, 1, n)
    BY <1>4, Zenon
  <2> HIDE DEF h
  <2>3. /\ h \in Seq(S) /\ Len(h) = n /\ \A i \in 1..n : h[i] = w[i]
    BY <1>2, <2>1, <2>2, SubSeqProperties
  <2>4. ASSUME NEW i \in 1..n PROVE h[i] = a[i]
    <3>1. i \in 1..(n + Len(b)) /\ i <= n
      BY <1>2
    <3> QED BY <1>1, <2>3, <3>1
  <2> QED BY <2>3, <2>4, SeqEqual DEF n
<1>7. t = c
  <2> DEFINE j == k + 1
  <2>1. j \in Int /\ j = n + 2 /\ m \in Int /\ \A i \in j..m : w[i] \in S
    BY <1>2, <1>4, <1>5
  <2>2. t = SubSeq(w, j, m)
    BY Zenon
  <2> HIDE DEF j, t
  <2>3. /\ t \in Seq(S) /\ Len(t) = IF j <= m THEN m - j + 1 ELSE 0
        /\ \A i \in 1..(m - j + 1) : t[i] = w[j + i - 1]
    BY <2>1, <2>2, SubSeqProperties
  <2>4. Len(t) = Len(c) /\ m - j + 1 = Len(c) /\ Len(c) \in Nat
    BY <1>1, <1>2, <1>3, <2>1, <2>3
  <2>5. ASSUME NEW i \in 1..Len(t) PROVE t[i] = c[i]
    <3>1. /\ i \in 1..Len(c) /\ i \in 1..(m - j + 1) /\ j + i - 1 \in 1..(n + Len(b))
          /\ ~(j + i - 1 <= n) /\ (j + i - 1) - n = i + 1
      BY <1>1, <1>2, <1>3, <2>1, <2>4
    <3>2. t[i] = w[j + i - 1]
      BY <2>3, <3>1
    <3>3. w[j + i - 1] = b[(j + i - 1) - n]
      BY <1>1, <3>1
    <3> QED BY <1>3, <3>1, <3>2, <3>3
  <2> QED BY <1>3, <2>3, <2>4, <2>5, SeqEqual
<1> HIDE DEF h, t
<1>8. h \o t = a \o c
  BY <1>6, <1>7, Zenon
<1> QED BY <1>8, Zenon DEF h, t, w, m, k, c

\* Induction over the numbers up to m, for a set of them.
LEMMA NumbersUpTo ==
  ASSUME NEW m \in Nat, NEW B, 0 \in B,
         \A n \in 1..m : n - 1 \in B => n \in B
  PROVE  \A n \in 0..m : n \in B
<1> DEFINE A == {n \in Nat : n <= m /\ n \notin B}
<1>1. ASSUME A # {} PROVE FALSE
  <2>1. A \in SUBSET Nat
    OBVIOUS
  <2>2. PICK n \in A : \A k \in A : n <= k
    BY <1>1, <2>1, LeastNatural
  <2>3. n \in 1..m /\ n - 1 \notin A /\ n - 1 \in Nat /\ n - 1 <= m
    BY <2>2
  <2>4. n - 1 \in B
    BY <2>3
  <2> QED BY <2>2, <2>3, <2>4
<1> QED BY <1>1

IsChain(f, base, step, m) == f[0] = base /\ \A n \in 1..m : f[n] = step[<<f[n - 1], n>>]

\* A function that is given at 0, and at n by its value at n - 1, exists.
LEMMA Recursion ==
  ASSUME NEW m \in Nat, NEW S, NEW base \in S, NEW step \in [S \X (1..m) -> S]
  PROVE  \E f \in [0..m -> S] : IsChain(f, base, step, m)
<1> DEFINE B == {k \in 0..m : \E f \in [0..k -> S] :
                   f[0] = base /\ \A n \in 1..k : f[n] = step[<<f[n - 1], n>>]}
<1>1. 0 \in B
  <2> DEFINE z == [n \in 0..0 |-> base]
  <2>1. z \in [0..0 -> S] /\ z[0] = base /\ \A n \in 1..0 : z[n] = step[<<z[n - 1], n>>]
    OBVIOUS
  <2> HIDE DEF z
  <2>2. \E f \in [0..0 -> S] : f[0] = base /\ \A n \in 1..0 : f[n] = step[<<f[n - 1], n>>]
    BY <2>1
  <2>3. 0 \in 0..m
    OBVIOUS
  <2> QED BY <2>2, <2>3
<1>2. ASSUME NEW k \in 1..m, k - 1 \in B PROVE k \in B
  <2>1. PICK f \in [0..(k - 1) -> S] :
          f[0] = base /\ \A n \in 1..(k - 1) : f[n] = step[<<f[n - 1], n>>]
    BY <1>2
  <2>2. step[<<f[k - 1], k>>] \in S
    <3>1. f[k - 1] \in S
      OBVIOUS
    <3>2. <<f[k - 1], k>> \in S \X (1..m)
      BY <3>1
    <3> QED BY <3>2
  <2> DEFINE g == [n \in 0..k |-> IF n = k THEN step[<<f[k - 1], k>>] ELSE f[n]]
  <2>3. g \in [0..k -> S] /\ g[0] = base
    BY <2>1, <2>2
  <2>4. ASSUME NEW n \in 1..k PROVE g[n] = step[<<g[n - 1], n>>]
    <3>1. g[n - 1] = f[n - 1] /\ n \in Nat
      OBVIOUS
    <3>2. CASE n = k
      <4>1. g[n] = step[<<f[k - 1], k>>]
        BY <3>2
      <4> QED BY <3>1, <3>2, <4>1, Zenon
    <3>3. CASE n # k
      <4>1. n \in 1..(k - 1) /\ g[n] = f[n]
        BY <3>3
      <4> QED BY <2>1, <3>1, <4>1
    <3> QED BY <3>2, <3>3
  <2> HIDE DEF g
  <2>5. \E h \in [0..k -> S] : h[0] = base /\ \A n \in 1..k : h[n] = step[<<h[n - 1], n>>]
    BY <2>3, <2>4
  <2>6. k \in 0..m
    OBVIOUS
  <2> QED BY <2>5, <2>6
<1>3. \A n \in 1..m : n - 1 \in B => n \in B
  BY <1>2
<1>4. \A k \in 0..m : k \in B
  <2> HIDE DEF B
  <2> QED BY <1>1, <1>3, NumbersUpTo
<1>5. m \in B
  <2> HIDE DEF B
  <2> QED BY <1>4
<1>6. \E f \in [0..m -> S] : f[0] = base /\ \A n \in 1..m : f[n] = step[<<f[n - 1], n>>]
  BY <1>5, Zenon
<1> QED BY <1>6, Zenon DEF IsChain

-----------------------------------------------------------------------------
(* The items of a sequence that are in a set *)

\* What Among() has collected after each item of s.
IsCollecting(r, s, E) ==
  /\ r[0] = <<>>
  /\ \A n \in 1..Len(s) : r[n] = IF s[n] \in E THEN Append(r[n - 1], s[n]) ELSE r[n - 1]

LEMMA AmongCollects ==
  ASSUME NEW S, NEW s \in Seq(S), NEW E
  PROVE  \E r \in [0..Len(s) -> Seq(S \cap E)] :
           IsCollecting(r, s, E) /\ Among(s, E) = r[Len(s)]
<1> DEFINE L == Len(s)
           T == Seq(S \cap E)
           step == [x \in T \X (1..L) |->
                      IF s[x[2]] \in E THEN Append(x[1], s[x[2]]) ELSE x[1]]
           Next(f) == [n \in 0..L |->
                         IF n = 0 THEN <<>>
                         ELSE IF s[n] \in E THEN Append(f[n - 1], s[n]) ELSE f[n - 1]]
           r == CHOOSE f : f = Next(f)
<1>1. L \in Nat /\ L = Len(s) /\ \A n \in 1..L : s[n] \in S
  BY ElementOfSeq, LenProperties
<1> HIDE DEF L
<1>2. step \in [T \X (1..L) -> T]
  <2>1. ASSUME NEW x \in T \X (1..L)
        PROVE  (IF s[x[2]] \in E THEN Append(x[1], s[x[2]]) ELSE x[1]) \in T
    <3>1. x[1] \in T /\ s[x[2]] \in S
      BY <1>1
    <3>2. CASE s[x[2]] \in E
      <4>1. s[x[2]] \in S \cap E
        BY <3>1, <3>2
      <4> QED BY <3>1, <3>2, <4>1, AppendProperties
    <3>3. CASE s[x[2]] \notin E
      BY <3>1, <3>3
    <3> QED BY <3>2, <3>3
  <2> HIDE DEF T
  <2> QED BY <2>1
<1>3. \E f \in [0..L -> T] : IsChain(f, <<>>, step, L)
  <2>1. <<>> \in T
    OBVIOUS
  <2> HIDE DEF T, step
  <2> QED BY <1>1, <1>2, <2>1, Recursion
<1>a. PICK f \in [0..L -> T] : f[0] = <<>> /\ \A n \in 1..L : f[n] = step[<<f[n - 1], n>>]
  BY <1>3 DEF IsChain
<1>4. f = Next(f)
  <2>1. ASSUME NEW n \in 1..L PROVE f[n] = Next(f)[n]
    <3>1. <<f[n - 1], n>> \in T \X (1..L) /\ n \in 0..L /\ n # 0
      <4>1. f[n - 1] \in T
        BY <1>1
      <4> HIDE DEF T
      <4> QED BY <1>1, <4>1
    <3>2. f[n] = IF s[n] \in E THEN Append(f[n - 1], s[n]) ELSE f[n - 1]
      <4> HIDE DEF T
      <4> QED BY <1>a, <3>1
    <3> QED BY <3>1, <3>2
  <2>2. Next(f)[0] = f[0]
    BY <1>1, <1>a
  <2>3. \A n \in 0..L : f[n] = Next(f)[n]
    <3> HIDE DEF Next
    <3> QED BY <1>1, <2>1, <2>2
  <2> HIDE DEF T
  <2> QED BY <2>3
<1>5. r = Next(r)
  BY <1>4
<1>6. Among(s, E) = r[L]
  BY DEF Among, L
<1> HIDE DEF r
<1>b. r[0] = Next(r)[0] /\ \A n \in 1..L : r[n] = Next(r)[n]
  BY <1>5, Zenon
<1>7. r[0] = <<>>
  <2>1. Next(r)[0] = <<>>
    BY <1>1
  <2> QED BY <1>b, <2>1, Zenon
<1>8. \A n \in 1..L : r[n] = IF s[n] \in E THEN Append(r[n - 1], s[n]) ELSE r[n - 1]
  <2> SUFFICES ASSUME NEW n \in 1..L
               PROVE  r[n] = IF s[n] \in E THEN Append(r[n - 1], s[n]) ELSE r[n - 1]
    OBVIOUS
  <2>1. n \in 0..L /\ n # 0
    BY <1>1
  <2>2. Next(r)[n] = IF s[n] \in E THEN Append(r[n - 1], s[n]) ELSE r[n - 1]
    BY <2>1, Zenon
  <2>3. r[n] = Next(r)[n]
    BY <1>b, Zenon
  <2> QED BY <2>2, <2>3, Zenon
<1> DEFINE B == {n \in 0..L : r[n] \in T}
<1>9. 0 \in B
  BY <1>1, <1>7
<1>10. \A n \in 1..L : n - 1 \in B => n \in B
  <2> SUFFICES ASSUME NEW n \in 1..L, n - 1 \in B PROVE n \in B
    OBVIOUS
  <2>1. r[n - 1] \in T /\ s[n] \in S /\ n \in 0..L
    BY <1>1
  <2>2. CASE s[n] \in E
    <3>1. s[n] \in S \cap E
      BY <2>1, <2>2
    <3>2. Append(r[n - 1], s[n]) \in T
      BY <2>1, <3>1, AppendProperties
    <3> QED BY <1>8, <2>1, <2>2, <3>2
  <2>3. CASE s[n] \notin E
    BY <1>8, <2>1, <2>3
  <2> QED BY <2>2, <2>3
<1>11. \A n \in 0..L : r[n] \in T
  <2>1. \A n \in 0..L : n \in B
    <3> HIDE DEF B
    <3> QED BY <1>1, <1>9, <1>10, NumbersUpTo
  <2> QED BY <2>1
<1>12. r \in [0..L -> T]
  <2>1. r = [n \in 0..L |-> r[n]]
    BY <1>5
  <2> HIDE DEF T
  <2> QED BY <1>11, <2>1
<1> QED BY <1>6, <1>7, <1>8, <1>12 DEF IsCollecting, L

\* What is kept is in E, was in s, and is all of s that is in E.
LEMMA AmongItems ==
  ASSUME NEW S, NEW s \in Seq(S), NEW E
  PROVE  /\ Among(s, E) \in Seq(S \cap E) /\ Among(s, E) \in Seq(S)
         /\ Len(Among(s, E)) <= Len(s)
         /\ \A n \in 1..Len(s) : s[n] \in E =>
              \E k \in 1..Len(Among(s, E)) : Among(s, E)[k] = s[n]
         /\ \A k \in 1..Len(Among(s, E)) : \E n \in 1..Len(s) : Among(s, E)[k] = s[n]
<1>1. PICK r \in [0..Len(s) -> Seq(S \cap E)] :
        IsCollecting(r, s, E) /\ Among(s, E) = r[Len(s)]
  BY AmongCollects
<1> DEFINE L == Len(s)
           Good(n) == /\ Len(r[n]) <= n
                      /\ \A i \in 1..n : s[i] \in E => \E k \in 1..Len(r[n]) : r[n][k] = s[i]
                      /\ \A k \in 1..Len(r[n]) : \E i \in 1..n : r[n][k] = s[i]
           B == {n \in 0..L : Good(n)}
<1>2. L \in Nat /\ L = Len(s) /\ \A n \in 1..L : s[n] \in S
  BY ElementOfSeq, LenProperties
<1>3. \A n \in 0..L : r[n] \in Seq(S \cap E)
  BY <1>1
<1>4. 0 \in B
  <2>1. r[0] = <<>> /\ Len(<<>>) = 0
    BY <1>1 DEF IsCollecting
  <2> QED BY <1>2, <2>1
<1>5. \A n \in 1..L : r[n] = IF s[n] \in E THEN Append(r[n - 1], s[n]) ELSE r[n - 1]
  BY <1>1 DEF IsCollecting
<1> HIDE DEF L
<1>6. ASSUME NEW n \in 1..L, n - 1 \in B PROVE n \in B
  <2>0. Good(n - 1)
    BY <1>6
  <2>1. n - 1 \in 0..L /\ n \in 0..L /\ s[n] \in S
    BY <1>2
  <2>2. CASE s[n] \notin E
    <3>1. r[n] = r[n - 1]
      BY <1>5, <2>2
    <3>2. Len(r[n]) <= n
      <4>1. PICK k \in Nat : k = Len(r[n - 1])
        BY <1>3, <2>1, LenProperties
      <4>2. k <= n - 1
        BY <2>0, <4>1
      <4>3. k <= n
        BY <4>2
      <4> QED BY <3>1, <4>1, <4>3
    <3>3. \A i \in 1..n : i \in 1..(n - 1) \/ i = n
      OBVIOUS
    <3>4. 1..(n - 1) \subseteq 1..n
      OBVIOUS
    <3>5. Good(n)
      BY <2>0, <2>2, <3>1, <3>2, <3>3, <3>4
    <3> QED BY <2>1, <3>5
  <2>3. CASE s[n] \in E
    <3> DEFINE p == r[n - 1]
               q == r[n]
    <3>1. p \in Seq(S \cap E) /\ q = Append(p, s[n]) /\ s[n] \in S \cap E
      BY <1>3, <1>5, <2>1, <2>3
    <3> HIDE DEF p, q
    <3>2. /\ Len(p) \in Nat /\ Len(q) = Len(p) + 1 /\ q[Len(p) + 1] = s[n]
          /\ \A k \in 1..Len(p) : q[k] = p[k]
      BY <3>1, AppendProperties, LenProperties
    <3>3. /\ Len(p) <= n - 1
          /\ \A i \in 1..(n - 1) : s[i] \in E => \E k \in 1..Len(p) : p[k] = s[i]
          /\ \A k \in 1..Len(p) : \E i \in 1..(n - 1) : p[k] = s[i]
      BY <2>0 DEF p
    <3>4. Len(q) <= n
      BY <3>2, <3>3
    <3>5. ASSUME NEW i \in 1..n, s[i] \in E PROVE \E k \in 1..Len(q) : q[k] = s[i]
      <4>1. CASE i = n
        <5>1. Len(p) + 1 \in 1..Len(q)
          BY <3>2
        <5> QED BY <3>2, <4>1, <5>1
      <4>2. CASE i # n
        <5>1. PICK k \in 1..Len(p) : p[k] = s[i]
          BY <3>3, <3>5, <4>2
        <5>2. k \in 1..Len(q) /\ q[k] = p[k]
          BY <3>2
        <5> QED BY <5>1, <5>2
      <4> QED BY <4>1, <4>2
    <3>6. ASSUME NEW k \in 1..Len(q) PROVE \E i \in 1..n : q[k] = s[i]
      <4>1. CASE k = Len(p) + 1
        BY <3>2, <4>1
      <4>2. CASE k # Len(p) + 1
        <5>1. k \in 1..Len(p)
          BY <3>2, <4>2
        <5>2. PICK i \in 1..(n - 1) : p[k] = s[i]
          BY <3>3, <5>1
        <5> QED BY <3>2, <5>1, <5>2
      <4> QED BY <4>1, <4>2
    <3>7. Good(n)
      BY <3>4, <3>5, <3>6 DEF q
    <3> QED BY <2>1, <3>7
  <2> QED BY <2>2, <2>3
<1>7. Good(L)
  <2>1. L \in B
    <3>1. \A n \in 0..L : n \in B
      <4> HIDE DEF B
      <4> QED BY <1>2, <1>4, <1>6, NumbersUpTo
    <3> QED BY <1>2, <3>1
  <2> QED BY <2>1
<1>8. r[L] \in Seq(S \cap E) /\ r[L] \in Seq(S)
  <2>1. r[L] \in Seq(S \cap E)
    BY <1>2, <1>3
  <2>2. S \cap E \subseteq S
    OBVIOUS
  <2> QED BY <2>1, <2>2, SeqMonotonic
<1> QED BY <1>1, <1>7, <1>8 DEF L

\* An item more, and the end of the list for the end of the sequence.
LEMMA AmongAppend ==
  ASSUME NEW S, NEW s \in Seq(S), NEW e \in S, NEW E
  PROVE  Among(Append(s, e), E) = IF e \in E THEN Append(Among(s, E), e) ELSE Among(s, E)
<1> DEFINE u == Append(s, e)
           L == Len(s)
<1>1. /\ u \in Seq(S) /\ Len(u) = L + 1 /\ L \in Nat /\ u[L + 1] = e
      /\ \A i \in 1..L : u[i] = s[i]
  BY AppendProperties, LenProperties
<1>2. PICK r \in [0..L -> Seq(S \cap E)] : IsCollecting(r, s, E) /\ Among(s, E) = r[L]
  BY AmongCollects
<1> HIDE DEF u, L
<1>3. PICK q \in [0..Len(u) -> Seq(S \cap E)] :
        IsCollecting(q, u, E) /\ Among(u, E) = q[Len(u)]
  BY <1>1, AmongCollects
<1> DEFINE B == {n \in 0..L : q[n] = r[n]}
<1>4. 0 \in B
  BY <1>1, <1>2, <1>3 DEF IsCollecting
<1>5. \A n \in 1..L : r[n] = IF s[n] \in E THEN Append(r[n - 1], s[n]) ELSE r[n - 1]
  BY <1>2 DEF IsCollecting, L
<1>6. \A n \in 1..(L + 1) : q[n] = IF u[n] \in E THEN Append(q[n - 1], u[n]) ELSE q[n - 1]
  BY <1>1, <1>3 DEF IsCollecting
<1>7. ASSUME NEW n \in 1..L, n - 1 \in B PROVE n \in B
  <2>1. n \in 1..(L + 1) /\ n \in 0..L
    BY <1>1
  <2>2. q[n - 1] = r[n - 1] /\ u[n] = s[n]
    BY <1>1, <1>7
  <2>3. q[n] = r[n]
    BY <1>5, <1>6, <2>1, <2>2
  <2> QED BY <2>1, <2>3
<1>8. q[L] = r[L]
  <2>1. \A n \in 0..L : n \in B
    <3> HIDE DEF B
    <3> QED BY <1>1, <1>4, <1>7, NumbersUpTo
  <2> QED BY <1>1, <2>1
<1>9. q[L + 1] = IF e \in E THEN Append(q[L], e) ELSE q[L]
  <2>1. L + 1 \in 1..(L + 1) /\ (L + 1) - 1 = L
    BY <1>1
  <2> QED BY <1>1, <1>6, <2>1
<1>10. Among(u, E) = IF e \in E THEN Append(Among(s, E), e) ELSE Among(s, E)
  BY <1>1, <1>2, <1>3, <1>8, <1>9
<1> QED BY <1>10 DEF u

\* Only membership of the items counts.
LEMMA AmongSame ==
  ASSUME NEW S, NEW s \in Seq(S), NEW E, NEW F,
         \A n \in 1..Len(s) : s[n] \in E <=> s[n] \in F
  PROVE  Among(s, E) = Among(s, F)
<1> DEFINE L == Len(s)
<1>1. PICK r \in [0..L -> Seq(S \cap E)] : IsCollecting(r, s, E) /\ Among(s, E) = r[L]
  BY AmongCollects
<1>2. PICK q \in [0..L -> Seq(S \cap F)] : IsCollecting(q, s, F) /\ Among(s, F) = q[L]
  BY AmongCollects
<1> DEFINE B == {n \in 0..L : q[n] = r[n]}
<1>3. L \in Nat /\ L = Len(s)
  BY LenProperties
<1> HIDE DEF L
<1>4. 0 \in B
  BY <1>1, <1>2, <1>3 DEF IsCollecting
<1>5. ASSUME NEW n \in 1..L, n - 1 \in B PROVE n \in B
  <2>1. /\ r[n] = IF s[n] \in E THEN Append(r[n - 1], s[n]) ELSE r[n - 1]
        /\ q[n] = IF s[n] \in F THEN Append(q[n - 1], s[n]) ELSE q[n - 1]
    BY <1>1, <1>2, <1>3 DEF IsCollecting
  <2>2. q[n - 1] = r[n - 1] /\ (s[n] \in E <=> s[n] \in F) /\ n \in 0..L
    BY <1>3, <1>5
  <2> QED BY <2>1, <2>2
<1>6. \A n \in 0..L : n \in B
  <2> HIDE DEF B
  <2> QED BY <1>3, <1>4, <1>5, NumbersUpTo
<1> QED BY <1>1, <1>2, <1>3, <1>6

-----------------------------------------------------------------------------
(* The ends of sequences *)

\* t is the end of s.
IsEnd(t, s) ==
  /\ Len(t) <= Len(s)
  /\ \A i \in 1..Len(t) : t[i] = s[Len(s) - Len(t) + i]

\* Counted from their ends, s and t agree as far as the shorter one goes.
EndAlike(s, t) ==
  \A i \in Nat : i < Len(s) /\ i < Len(t) => s[Len(s) - i] = t[Len(t) - i]

LEMMA EndGrows ==
  ASSUME NEW S, NEW s \in Seq(S), NEW t \in Seq(S), NEW e \in S, IsEnd(t, s)
  PROVE  IsEnd(Append(t, e), Append(s, e))
<1> DEFINE u == Append(s, e)
           v == Append(t, e)
<1>1. /\ Len(s) \in Nat /\ Len(u) = Len(s) + 1 /\ u[Len(s) + 1] = e
      /\ \A i \in 1..Len(s) : u[i] = s[i]
  BY AppendProperties, LenProperties
<1>2. /\ Len(t) \in Nat /\ Len(v) = Len(t) + 1 /\ v[Len(t) + 1] = e
      /\ \A i \in 1..Len(t) : v[i] = t[i]
  BY AppendProperties, LenProperties
<1> HIDE DEF u, v
<1>3. Len(t) <= Len(s) /\ \A i \in 1..Len(t) : t[i] = s[Len(s) - Len(t) + i]
  BY DEF IsEnd
<1>4. ASSUME NEW i \in 1..Len(v) PROVE v[i] = u[Len(u) - Len(v) + i]
  <2>1. CASE i = Len(t) + 1
    <3>1. Len(u) - Len(v) + i = Len(s) + 1
      BY <1>1, <1>2, <2>1
    <3> QED BY <1>1, <1>2, <2>1, <3>1
  <2>2. CASE i # Len(t) + 1
    <3>1. /\ i \in 1..Len(t) /\ Len(u) - Len(v) + i = Len(s) - Len(t) + i
          /\ Len(s) - Len(t) + i \in 1..Len(s)
      BY <1>1, <1>2, <1>3, <2>2
    <3> QED BY <1>1, <1>2, <1>3, <3>1
  <2> QED BY <2>1, <2>2
<1>5. Len(v) <= Len(u)
  BY <1>1, <1>2, <1>3
<1> QED BY <1>4, <1>5 DEF IsEnd, u, v

\* Without its first item a sequence keeps the end of what it kept.
LEMMA AmongTail ==
  ASSUME NEW S, NEW s \in Seq(S), s # <<>>, NEW E
  PROVE  IsEnd(Among(Tail(s), E), Among(s, E))
<1> DEFINE t == Tail(s)
           L == Len(t)
<1>1. /\ t \in Seq(S) /\ Len(s) = L + 1 /\ L \in Nat /\ \A i \in 1..L : t[i] = s[i + 1]
  <2>1. t \in Seq(S) /\ Len(t) = Len(s) - 1 /\ \A i \in 1..Len(t) : t[i] = s[i + 1]
    BY HeadTailProperties
  <2> HIDE DEF t
  <2> QED BY <2>1, LenProperties
<1> HIDE DEF t
<1>2. PICK r \in [0..L -> Seq(S \cap E)] : IsCollecting(r, t, E) /\ Among(t, E) = r[L]
  BY <1>1, AmongCollects
<1>3. PICK q \in [0..Len(s) -> Seq(S \cap E)] :
        IsCollecting(q, s, E) /\ Among(s, E) = q[Len(s)]
  BY AmongCollects
<1>4. \A n \in 1..L : r[n] = IF t[n] \in E THEN Append(r[n - 1], t[n]) ELSE r[n - 1]
  BY <1>2 DEF IsCollecting
<1>5. \A n \in 1..(L + 1) : q[n] = IF s[n] \in E THEN Append(q[n - 1], s[n]) ELSE q[n - 1]
  BY <1>1, <1>3 DEF IsCollecting
<1>6. \A n \in 0..L : r[n] \in Seq(S) /\ q[n + 1] \in Seq(S)
  <2> SUFFICES ASSUME NEW n \in 0..L PROVE r[n] \in Seq(S) /\ q[n + 1] \in Seq(S)
    OBVIOUS
  <2>1. n + 1 \in 0..Len(s)
    BY <1>1
  <2>2. r[n] \in Seq(S \cap E) /\ q[n + 1] \in Seq(S \cap E)
    BY <2>1
  <2>3. S \cap E \subseteq S
    OBVIOUS
  <2> QED BY <2>2, <2>3, SeqMonotonic
<1>7. \A i \in 1..L : t[i] \in S
  BY <1>1, ElementOfSeq
<1> HIDE DEF L
<1> DEFINE B == {n \in 0..L : IsEnd(r[n], q[n + 1])}
<1>8. 0 \in B
  <2>1. r[0] = <<>>
    BY <1>2 DEF IsCollecting
  <2>2. Len(q[0 + 1]) \in Nat
    BY <1>1, <1>6, LenProperties
  <2>3. IsEnd(<<>>, q[0 + 1])
    BY <2>2 DEF IsEnd
  <2> QED BY <1>1, <2>1, <2>3
<1>9. ASSUME NEW n \in 1..L, n - 1 \in B PROVE n \in B
  <2>1. /\ n \in 0..L /\ n - 1 \in 0..L /\ n + 1 \in 1..(L + 1) /\ (n + 1) - 1 = n
        /\ (n - 1) + 1 = n
    BY <1>1
  <2>2. IsEnd(r[n - 1], q[n])
    <3>1. IsEnd(r[n - 1], q[(n - 1) + 1])
      BY <1>9
    <3> QED BY <2>1, <3>1
  <2>3. r[n] = IF t[n] \in E THEN Append(r[n - 1], t[n]) ELSE r[n - 1]
    BY <1>4
  <2>4. q[n + 1] = IF t[n] \in E THEN Append(q[n], t[n]) ELSE q[n]
    BY <1>1, <1>5, <2>1
  <2>5. IsEnd(r[n], q[n + 1])
    <3>1. CASE t[n] \notin E
      BY <2>2, <2>3, <2>4, <3>1
    <3>2. CASE t[n] \in E
      <4>1. r[n - 1] \in Seq(S) /\ t[n] \in S
        BY <1>6, <1>7, <2>1
      <4>2. q[n] \in Seq(S)
        BY <1>6, <2>1
      <4>3. IsEnd(Append(r[n - 1], t[n]), Append(q[n], t[n]))
        BY <2>2, <4>1, <4>2, EndGrows
      <4> QED BY <2>3, <2>4, <3>2, <4>3
    <3> QED BY <3>1, <3>2
  <2> QED BY <2>1, <2>5
<1>10. IsEnd(r[L], q[L + 1])
  <2>1. \A n \in 0..L : n \in B
    <3> HIDE DEF B
    <3> QED BY <1>1, <1>8, <1>9, NumbersUpTo
  <2> QED BY <1>1, <2>1
<1>11. IsEnd(Among(t, E), Among(s, E))
  BY <1>1, <1>2, <1>3, <1>10
<1> QED BY <1>11 DEF t

\* What a bounded sequence keeps after an append is the end of what it kept, with
\* the item if that is kept too.
LEMMA AmongBounded ==
  ASSUME NEW S, NEW s \in Seq(S), NEW e \in S, NEW n \in Nat \ {0}, Len(s) <= n, NEW E
  PROVE  IsEnd(Among(AppendBounded(s, e, n), E),
               IF e \in E THEN Append(Among(s, E), e) ELSE Among(s, E))
<1> DEFINE whole == IF e \in E THEN Append(Among(s, E), e) ELSE Among(s, E)
<1>1. Among(s, E) \in Seq(S)
  BY AmongItems
<1>2. CASE AppendBounded(s, e, n) = Append(s, e)
  <2>1. Among(AppendBounded(s, e, n), E) = whole
    BY <1>2, AmongAppend
  <2>2. whole \in Seq(S)
    BY <1>1, AppendProperties
  <2> HIDE DEF whole
  <2>3. Len(whole) \in Nat
    BY <2>2, LenProperties
  <2>4. IsEnd(whole, whole)
    BY <2>3 DEF IsEnd
  <2> QED BY <2>1, <2>4 DEF whole
<1>3. CASE s # <<>> /\ AppendBounded(s, e, n) = Append(Tail(s), e)
  <2>1. Tail(s) \in Seq(S)
    BY <1>3, HeadTailProperties
  <2>2. Among(Tail(s), E) \in Seq(S)
    BY <2>1, AmongItems
  <2>3. IsEnd(Among(Tail(s), E), Among(s, E))
    BY <1>3, AmongTail
  <2>4. Among(Append(Tail(s), e), E) =
          IF e \in E THEN Append(Among(Tail(s), E), e) ELSE Among(Tail(s), E)
    BY <2>1, AmongAppend
  <2>5. IsEnd(Append(Among(Tail(s), E), e), Append(Among(s, E), e))
    BY <1>1, <2>2, <2>3, EndGrows
  <2> QED BY <1>3, <2>3, <2>4, <2>5
<1> QED BY <1>2, <1>3, AppendBoundedDrops

LEMMA EndAlikeGrows ==
  ASSUME NEW S, NEW s \in Seq(S), NEW t \in Seq(S), NEW e \in S, EndAlike(s, t)
  PROVE  EndAlike(Append(s, e), Append(t, e))
<1> DEFINE u == Append(s, e)
           v == Append(t, e)
<1>1. /\ Len(s) \in Nat /\ Len(u) = Len(s) + 1 /\ u[Len(s) + 1] = e
      /\ \A i \in 1..Len(s) : u[i] = s[i]
  BY AppendProperties, LenProperties
<1>2. /\ Len(t) \in Nat /\ Len(v) = Len(t) + 1 /\ v[Len(t) + 1] = e
      /\ \A i \in 1..Len(t) : v[i] = t[i]
  BY AppendProperties, LenProperties
<1> HIDE DEF u, v
<1>3. ASSUME NEW i \in Nat, i < Len(u), i < Len(v) PROVE u[Len(u) - i] = v[Len(v) - i]
  <2>1. CASE i = 0
    BY <1>1, <1>2, <2>1
  <2>2. CASE i # 0
    <3>1. /\ i - 1 \in Nat /\ i - 1 < Len(s) /\ i - 1 < Len(t)
          /\ Len(u) - i = Len(s) - (i - 1) /\ Len(s) - (i - 1) \in 1..Len(s)
          /\ Len(v) - i = Len(t) - (i - 1) /\ Len(t) - (i - 1) \in 1..Len(t)
      BY <1>1, <1>2, <1>3, <2>2
    <3>2. s[Len(s) - (i - 1)] = t[Len(t) - (i - 1)]
      BY <3>1 DEF EndAlike
    <3> QED BY <1>1, <1>2, <3>1, <3>2
  <2> QED BY <2>1, <2>2
<1> QED BY <1>3 DEF EndAlike, u, v

\* The end of a sequence agrees with what the sequence agrees with.
LEMMA EndAlikeOfEnds ==
  ASSUME NEW S, NEW s \in Seq(S), NEW t \in Seq(S), EndAlike(s, t),
         NEW u \in Seq(S), IsEnd(u, s), NEW v \in Seq(S), IsEnd(v, t)
  PROVE  EndAlike(u, v)
<1>1. /\ Len(s) \in Nat /\ Len(t) \in Nat /\ Len(u) \in Nat /\ Len(v) \in Nat
  BY LenProperties
<1>2. /\ Len(u) <= Len(s) /\ \A i \in 1..Len(u) : u[i] = s[Len(s) - Len(u) + i]
      /\ Len(v) <= Len(t) /\ \A i \in 1..Len(v) : v[i] = t[Len(t) - Len(v) + i]
  BY DEF IsEnd
<1>3. ASSUME NEW i \in Nat, i < Len(u), i < Len(v) PROVE u[Len(u) - i] = v[Len(v) - i]
  <2>1. /\ Len(u) - i \in 1..Len(u) /\ Len(s) - Len(u) + (Len(u) - i) = Len(s) - i
        /\ Len(v) - i \in 1..Len(v) /\ Len(t) - Len(v) + (Len(v) - i) = Len(t) - i
        /\ i < Len(s) /\ i < Len(t)
    BY <1>1, <1>2, <1>3
  <2>2. u[Len(u) - i] = s[Len(s) - i]
    BY <1>2, <2>1
  <2>3. v[Len(v) - i] = t[Len(t) - i]
    BY <1>2, <2>1
  <2>4. s[Len(s) - i] = t[Len(t) - i]
    BY <2>1 DEF EndAlike
  <2> QED BY <2>2, <2>3, <2>4
<1> QED BY <1>3 DEF EndAlike

IsBoundedEnd(t, s, e, n) ==
  /\ IsEnd(t, Append(s, e))
  /\ Len(t) = IF Len(s) < n THEN Len(s) + 1 ELSE n

\* A bounded sequence ends as the unbounded one does.
LEMMA BoundedEnds ==
  ASSUME NEW S, NEW s \in Seq(S), NEW e \in S, NEW n \in Nat \ {0}
  PROVE  /\ AppendBounded(s, e, n) \in Seq(S)
         /\ IsBoundedEnd(AppendBounded(s, e, n), s, e, n)
<1>1. ASSUME NEW t \in Seq(S)
      PROVE  /\ LastN(t, n) \in Seq(S) /\ IsEnd(LastN(t, n), t)
             /\ Len(LastN(t, n)) = IF Len(t) <= n THEN Len(t) ELSE n
  BY LastNEnds DEF IsEnd
<1>2. Append(s, e) \in Seq(S) /\ Len(Append(s, e)) = Len(s) + 1 /\ Len(s) \in Nat
  BY AppendProperties, LenProperties
<1>3. /\ AppendBounded(s, e, n) \in Seq(S) /\ IsEnd(AppendBounded(s, e, n), Append(s, e))
      /\ Len(AppendBounded(s, e, n)) = IF Len(Append(s, e)) <= n THEN Len(Append(s, e)) ELSE n
  BY <1>1, <1>2 DEF AppendBounded
<1> QED BY <1>2, <1>3 DEF IsBoundedEnd

\* The slice s[k-1:], and what an append to s makes of it.
LEMMA LaterItems ==
  ASSUME NEW S, NEW s \in Seq(S), NEW k \in Nat \ {0}
  PROVE  /\ SubSeq(s, k, Len(s)) \in Seq(S)
         /\ Len(SubSeq(s, k, Len(s))) = IF k <= Len(s) THEN Len(s) - k + 1 ELSE 0
         /\ \A i \in 1..Len(SubSeq(s, k, Len(s))) : SubSeq(s, k, Len(s))[i] = s[k + i - 1]
<1> DEFINE L == Len(s)
<1>1. L \in Nat /\ k \in Int /\ L \in Int
  BY LenProperties
<1>2. \A i \in k..L : s[i] \in S
  BY <1>1, ElementOfSeq
<1> HIDE DEF L
<1>3. /\ SubSeq(s, k, L) \in Seq(S)
      /\ Len(SubSeq(s, k, L)) = IF k <= L THEN L - k + 1 ELSE 0
      /\ \A i \in 1..(L - k + 1) : SubSeq(s, k, L)[i] = s[k + i - 1]
  BY <1>1, <1>2, SubSeqProperties
<1>4. \A i \in 1..Len(SubSeq(s, k, L)) : SubSeq(s, k, L)[i] = s[k + i - 1]
  BY <1>1, <1>3
<1> QED BY <1>3, <1>4 DEF L

LEMMA LaterAppend ==
  ASSUME NEW S, NEW s \in Seq(S), NEW e \in S, NEW k \in 1..(Len(s) + 1)
  PROVE  SubSeq(Append(s, e), k, Len(Append(s, e))) = Append(SubSeq(s, k, Len(s)), e)
<1> DEFINE u == Append(s, e)
           t == SubSeq(s, k, Len(s))
           v == SubSeq(u, k, Len(u))
           w == Append(t, e)
<1>1. /\ u \in Seq(S) /\ Len(u) = Len(s) + 1 /\ Len(s) \in Nat /\ u[Len(s) + 1] = e
      /\ \A i \in 1..Len(s) : u[i] = s[i]
  BY AppendProperties, LenProperties
<1>2. k \in Nat \ {0} /\ k <= Len(s) + 1
  BY <1>1
<1> HIDE DEF u
<1>3. /\ t \in Seq(S) /\ Len(t) = Len(s) + 1 - k /\ \A i \in 1..Len(t) : t[i] = s[k + i - 1]
  <2>1. /\ t \in Seq(S) /\ Len(t) = (IF k <= Len(s) THEN Len(s) - k + 1 ELSE 0)
        /\ \A i \in 1..Len(t) : t[i] = s[k + i - 1]
    BY <1>2, LaterItems
  <2> HIDE DEF t
  <2> QED BY <1>1, <1>2, <2>1
<1>4. /\ v \in Seq(S) /\ Len(v) = Len(s) + 2 - k /\ \A i \in 1..Len(v) : v[i] = u[k + i - 1]
  <2>1. /\ v \in Seq(S) /\ Len(v) = (IF k <= Len(u) THEN Len(u) - k + 1 ELSE 0)
        /\ \A i \in 1..Len(v) : v[i] = u[k + i - 1]
    BY <1>1, <1>2, LaterItems
  <2> HIDE DEF v
  <2> QED BY <1>1, <1>2, <2>1
<1> HIDE DEF t, v
<1>5. /\ w \in Seq(S) /\ Len(w) = Len(t) + 1 /\ w[Len(t) + 1] = e
      /\ \A i \in 1..Len(t) : w[i] = t[i]
  <2>1. t \in Seq(S)
    BY <1>3
  <2> QED BY <2>1, AppendProperties
<1> HIDE DEF w
<1>6. Len(v) = Len(w) /\ Len(v) \in Nat /\ Len(t) \in Nat
  BY <1>1, <1>2, <1>3, <1>4, <1>5
<1>7. ASSUME NEW i \in 1..Len(v) PROVE v[i] = w[i]
  <2>1. CASE i = Len(t) + 1
    <3>1. k + i - 1 = Len(s) + 1
      BY <1>1, <1>2, <1>3, <2>1
    <3> QED BY <1>1, <1>4, <1>5, <2>1, <3>1
  <2>2. CASE i # Len(t) + 1
    <3>1. i \in 1..Len(t) /\ k + i - 1 \in 1..Len(s)
      BY <1>1, <1>2, <1>3, <1>5, <1>6, <2>2
    <3> QED BY <1>1, <1>3, <1>4, <1>5, <3>1
  <2> QED BY <2>1, <2>2
<1>8. v = w
  BY <1>4, <1>5, <1>6, <1>7, SeqEqual
<1> QED BY <1>8 DEF u, v, t, w

LEMMA EndTransitive ==
  ASSUME NEW S, NEW s \in Seq(S), NEW t \in Seq(S), NEW u \in Seq(S), IsEnd(t, s), IsEnd(u, t)
  PROVE  IsEnd(u, s)
<1>1. Len(s) \in Nat /\ Len(t) \in Nat /\ Len(u) \in Nat
  BY LenProperties
<1>2. /\ Len(t) <= Len(s) /\ \A i \in 1..Len(t) : t[i] = s[Len(s) - Len(t) + i]
      /\ Len(u) <= Len(t) /\ \A i \in 1..Len(u) : u[i] = t[Len(t) - Len(u) + i]
  BY DEF IsEnd
<1>3. ASSUME NEW i \in 1..Len(u) PROVE u[i] = s[Len(s) - Len(u) + i]
  <2>1. /\ Len(t) - Len(u) + i \in 1..Len(t)
        /\ Len(s) - Len(t) + (Len(t) - Len(u) + i) = Len(s) - Len(u) + i
    BY <1>1, <1>2
  <2> QED BY <1>2, <2>1
<1>4. Len(u) <= Len(s)
  BY <1>1, <1>2
<1> QED BY <1>3, <1>4 DEF IsEnd

\* There is one end of each length.
LEMMA EndUnique ==
  ASSUME NEW S, NEW s \in Seq(S), NEW t \in Seq(S), NEW u \in Seq(S),
         IsEnd(t, s), IsEnd(u, s), Len(t) = Len(u)
  PROVE  t = u
<1>1. \A i \in 1..Len(t) : t[i] = u[i]
  BY DEF IsEnd
<1> QED BY <1>1, SeqEqual

\* To cut before an append as well makes no difference.
LEMMA BoundedTwice ==
  ASSUME NEW S, NEW s \in Seq(S), NEW e \in S, NEW n \in Nat \ {0}
  PROVE  AppendBounded(LastN(s, n), e, n) = AppendBounded(s, e, n)
<1> DEFINE t == LastN(s, n)
           u == AppendBounded(t, e, n)
           v == AppendBounded(s, e, n)
<1>1. t \in Seq(S) /\ IsEnd(t, s) /\ Len(t) = IF Len(s) <= n THEN Len(s) ELSE n
  BY LastNEnds DEF IsEnd
<1>2. Len(s) \in Nat
  BY LenProperties
<1> HIDE DEF t
<1>3. u \in Seq(S) /\ IsBoundedEnd(u, t, e, n)
  BY <1>1, BoundedEnds
<1>4. v \in Seq(S) /\ IsBoundedEnd(v, s, e, n)
  BY BoundedEnds
<1> HIDE DEF u, v
<1>5. Append(s, e) \in Seq(S) /\ Append(t, e) \in Seq(S)
  BY <1>1, AppendProperties
<1>6. IsEnd(Append(t, e), Append(s, e))
  BY <1>1, EndGrows
<1>7. IsEnd(u, Append(s, e)) /\ IsEnd(v, Append(s, e))
  BY <1>3, <1>4, <1>5, <1>6, EndTransitive DEF IsBoundedEnd
<1>8. Len(u) = Len(v)
  BY <1>1, <1>2, <1>3, <1>4 DEF IsBoundedEnd
<1>9. u = v
  BY <1>3, <1>4, <1>5, <1>7, <1>8, EndUnique
<1> QED BY <1>9 DEF t, u, v
=============================================================================
