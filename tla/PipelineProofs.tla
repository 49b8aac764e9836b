---------------------------- MODULE PipelineProofs ----------------------------
(***************************************************************************)
(* The package pipeline/: its queue and its parser.                        *)
(*                                                                         *)
(* The queue for every capacity, every set of payloads and any number of   *)
(* puts: its type, the duplicate check, what put() compares with, and that *)
(* it implements the lossy FIFO.  Then the parser for every set of frames, *)
(* every length of the payload and every damaged byte: sums of bytes, the  *)
(* bits of a word, the bytes of a datagram, and what a parse says of them. *)
(***************************************************************************)
EXTENDS QueueHistory, ICDParser, BoundedSeqProofs

\* The queue always holds at most maxlen packets.
THEOREM QueueTypeCorrect == QueueSpec => []QueueTypeOK
<1>1. QueueInit => QueueTypeOK
  BY MaxSizeAssumption DEF QueueInit, QueueTypeOK
<1>2. QueueTypeOK /\ [QueueNext]_queueVars => QueueTypeOK'
  <2> SUFFICES ASSUME QueueTypeOK, [QueueNext]_queueVars
               PROVE  QueueTypeOK'
    OBVIOUS
  <2> USE DEF QueueTypeOK
  <2>1. ASSUME NEW p \in Packet, Put(p) PROVE QueueTypeOK'
    <3>1. CASE IsRepeat(p) /\ UNCHANGED queueVars
      BY <3>1 DEF queueVars
    <3>2. CASE /\ ~IsRepeat(p) /\ last_packet' = p
               /\ queue' = AppendBounded(queue, p, MaxSize)
      <4>1. queue' \in Seq(Packet) /\ IsShift(queue', queue, p, MaxSize)
        BY <3>2, AppendBoundedShifts, MaxSizeAssumption
      <4> QED
        BY <3>2, <4>1, MaxSizeAssumption DEF IsShift
    <3> QED
      BY <2>1, <3>1, <3>2 DEF Put
  <2>2. CASE GetAll
    BY <2>2, MaxSizeAssumption DEF GetAll
  <2>3. CASE Clear
    BY <2>3, MaxSizeAssumption DEF Clear
  <2>4. CASE UNCHANGED queueVars
    BY <2>4 DEF queueVars
  <2> QED
    BY <2>1, <2>2, <2>3, <2>4 DEF QueueNext
<1> QED
  BY <1>1, <1>2, PTL DEF QueueSpec

\* Neither invariant is inductive alone: a put keeps neighbours apart because
\* the packet it compares with is the tail of the queue, and a drain empties
\* the queue but not last_packet.
QueueInv == QueueTypeOK /\ NoRepeatInQueue /\ TailIsLastPacket

LEMMA PutKeepsQueueInv ==
  ASSUME QueueInv, QueueTypeOK', NEW p \in Packet, Put(p)
  PROVE  QueueInv'
<1>1. CASE IsRepeat(p) /\ UNCHANGED queueVars
  BY <1>1 DEF queueVars, QueueInv, QueueTypeOK, NoRepeatInQueue, TailIsLastPacket
<1>2. CASE /\ ~IsRepeat(p) /\ last_packet' = p
           /\ queue' = AppendBounded(queue, p, MaxSize)
  <2>0. queue' \in Seq(Packet) /\ IsShift(queue', queue, p, MaxSize)
    BY <1>2, AppendBoundedShifts, MaxSizeAssumption DEF QueueInv, QueueTypeOK
  <2>1. Len(queue') \in 1..MaxSize /\ queue'[Len(queue')] = p
    BY <2>0 DEF IsShift
  <2>2. PICK k \in 0..Len(queue) :
          /\ Len(queue') = Len(queue) + 1 - k
          /\ \A i \in 1..(Len(queue') - 1) : queue'[i] = queue[i + k]
    BY <2>0 DEF IsShift
  <2>3. Len(queue) \in Nat /\ Len(queue') \in Nat
    BY <2>0, LenProperties DEF QueueInv, QueueTypeOK
  <2>4. TailIsLastPacket'
    BY <1>2, <2>1, NoPacketAssumption DEF TailIsLastPacket
  <2>5. ASSUME NEW i \in 1..(Len(queue') - 1)
        PROVE  queue'[i].raw_data # queue'[i + 1].raw_data
    <3>1. CASE i + 1 \in 1..(Len(queue') - 1)
      <4>1. i + k \in 1..(Len(queue) - 1)
        BY <2>2, <2>3, <3>1
      <4>2. queue'[i] = queue[i + k] /\ queue'[i + 1] = queue[i + k + 1]
        BY <2>2, <2>3, <3>1
      <4> QED
        BY <4>1, <4>2 DEF QueueInv, NoRepeatInQueue
    <3>2. CASE i + 1 = Len(queue')
      <4>1. i + k = Len(queue) /\ queue # <<>>
        BY <2>2, <2>3, <3>2
      <4>2. queue'[i] = last_packet /\ last_packet # NoPacket
        BY <2>2, <2>3, <4>1 DEF QueueInv, TailIsLastPacket
      <4> QED
        BY <1>2, <2>1, <3>2, <4>2 DEF IsRepeat
    <3> QED
      BY <2>3, <3>1, <3>2
  <2>6. NoRepeatInQueue'
    BY <2>5 DEF NoRepeatInQueue
  <2> QED
    BY <2>4, <2>6 DEF QueueInv
<1> QED
  BY <1>1, <1>2 DEF Put

\* Repeats are kept out because put() remembers the tail of the queue: the two facts
\* hold only together.
THEOREM QueueInvHolds == QueueSpec => []QueueInv
<1>1. QueueInit => QueueInv
  BY MaxSizeAssumption
     DEF QueueInit, QueueInv, QueueTypeOK, NoRepeatInQueue, TailIsLastPacket
<1>2. QueueInv /\ QueueTypeOK' /\ [QueueNext]_queueVars => QueueInv'
  <2> SUFFICES ASSUME QueueInv, QueueTypeOK', [QueueNext]_queueVars
               PROVE  QueueInv'
    OBVIOUS
  <2>1. ASSUME NEW p \in Packet, Put(p) PROVE QueueInv'
    BY <2>1, PutKeepsQueueInv
  <2>2. CASE GetAll
    BY <2>2 DEF GetAll, QueueInv, NoRepeatInQueue, TailIsLastPacket
  <2>3. CASE Clear
    BY <2>3 DEF Clear, QueueInv, NoRepeatInQueue, TailIsLastPacket
  <2>4. CASE UNCHANGED queueVars
    BY <2>4 DEF queueVars, QueueInv, QueueTypeOK, NoRepeatInQueue, TailIsLastPacket
  <2> QED
    BY <2>1, <2>2, <2>3, <2>4 DEF QueueNext
<1> QED
  BY <1>1, <1>2, QueueTypeCorrect, PTL DEF QueueSpec

\* The duplicate check of put() works across overflows and drains: no two
\* neighbours of the queue carry the same bytes.
THEOREM NoRepeatCorrect == QueueSpec => []NoRepeatInQueue
  BY QueueInvHolds, PTL DEF QueueInv

\* put() always compares with the newest packet of a queue that is not empty.
THEOREM TailCorrect == QueueSpec => []TailIsLastPacket
  BY QueueInvHolds, PTL DEF QueueInv

-----------------------------------------------------------------------------

\* a lists elements of S from the smallest up.
Ascends(a, n, S) ==
  a \in [1..n -> S] /\ \A i, j \in 1..n : i < j => a[i] < a[j]

LEMMA ListingCounts ==
  ASSUME NEW n \in Nat, NEW S \in SUBSET Nat, NEW a, Ascends(a, n, S),
         \A x \in S : \E i \in 1..n : a[i] = x
  PROVE  IsFiniteSet(S) /\ Cardinality(S) = n
<1>1. ASSUME NEW i \in 1..n, NEW j \in 1..n, a[i] = a[j] PROVE i = j
  <2>1. a[i] \in Nat /\ a[j] \in Nat
    BY DEF Ascends
  <2>2. ~(i < j) /\ ~(j < i)
    BY <1>1, <2>1 DEF Ascends
  <2> QED BY <2>2
<1>2. a \in Bijection(1..n, S)
  BY <1>1 DEF Ascends, Bijection, Injection, Surjection, IsInjective
<1>3. IsFiniteSet(1..n) /\ Cardinality(1..n) = n
  BY FS_Interval
<1> QED BY <1>2, <1>3, FS_Bijection, Zenon DEF ExistsBijection

\* There is one way to list a set from the smallest element up.
LEMMA OneListing ==
  ASSUME NEW n \in Nat, NEW S \in SUBSET Nat, NEW a, Ascends(a, n, S),
         \A x \in S : \E i \in 1..n : a[i] = x,
         NEW b, Ascends(b, n, S)
  PROVE  b = a
<1>0. /\ \A i \in 1..n : a[i] \in Nat /\ b[i] \in S /\ b[i] \in Nat
      /\ \A i, j \in 1..n : i < j => a[i] < a[j] /\ b[i] < b[j]
  BY DEF Ascends
<1>1. ASSUME NEW x \in 1..n, b[x] < a[x] PROVE FALSE
  <2> DEFINE A == {i \in Nat : i \in 1..n /\ b[i] < a[i]}
  <2>1. PICK i \in A : \A y \in A : i <= y
    <3>1. A \in SUBSET Nat /\ x \in A
      BY <1>1
    <3> HIDE DEF A
    <3> QED BY <3>1, LeastNatural
  <2>2. i \in 1..n /\ b[i] < a[i]
    OBVIOUS
  <2>3. PICK j \in 1..n : a[j] = b[i]
    BY <1>0, <2>2
  <2>4. j < i
    <3>1. CASE j = i
      BY <1>0, <2>2, <2>3, <3>1
    <3>2. CASE i < j
      <4>1. a[i] < a[j] /\ a[i] \in Nat /\ a[j] \in Nat /\ b[i] \in Nat
        BY <1>0, <2>2, <3>2
      <4> QED BY <2>2, <2>3, <4>1
    <3> QED BY <2>2, <3>1, <3>2
  <2>5. ~(b[j] < a[j])
    <3>1. j \notin A
      <4> HIDE DEF A
      <4> QED BY <2>1, <2>2, <2>4
    <3> QED BY <3>1
  <2>6. b[j] < b[i]
    BY <1>0, <2>2, <2>4
  <2> QED BY <2>3, <2>5, <2>6
<1>2. ASSUME NEW x \in 1..n, a[x] < b[x] PROVE FALSE
  <2> DEFINE A == {k \in Nat : n - k \in 1..n /\ a[n - k] < b[n - k]}
  <2>1. PICK k \in A : \A y \in A : k <= y
    <3>1. A \in SUBSET Nat /\ n - x \in A
      <4>1. n - (n - x) = x /\ n - x \in Nat
        OBVIOUS
      <4> QED BY <1>2, <4>1
    <3> HIDE DEF A
    <3> QED BY <3>1, LeastNatural
  <2> DEFINE i == n - k
  <2>2. i \in 1..n /\ a[i] < b[i] /\ k \in Nat
    OBVIOUS
  <2>3. PICK j \in 1..n : a[j] = b[i]
    BY <1>0, <2>2
  <2> HIDE DEF i
  <2>4. i < j
    <3>1. CASE j = i
      BY <1>0, <2>2, <2>3, <3>1
    <3>2. CASE j < i
      <4>1. a[j] < a[i] /\ a[i] \in Nat /\ a[j] \in Nat /\ b[i] \in Nat
        BY <1>0, <2>2, <3>2
      <4> QED BY <2>2, <2>3, <4>1
    <3> QED BY <2>2, <3>1, <3>2
  <2>5. ~(a[j] < b[j])
    <3>1. n - j \in Nat /\ ~(k <= n - j) /\ n - (n - j) = j
      BY <2>2, <2>4 DEF i
    <3>2. n - j \notin A
      <4> HIDE DEF A
      <4> QED BY <2>1, <3>1
    <3> QED BY <3>1, <3>2
  <2>6. b[i] < b[j]
    BY <1>0, <2>2, <2>4
  <2>7. a[j] \in Nat /\ b[j] \in Nat /\ b[i] \in Nat
    BY <1>0, <2>2
  <2> QED BY <2>3, <2>5, <2>6, <2>7
<1>3. ASSUME NEW x \in 1..n PROVE b[x] = a[x]
  <2>1. a[x] \in Nat /\ b[x] \in Nat /\ ~(b[x] < a[x]) /\ ~(a[x] < b[x])
    BY <1>0, <1>1, <1>2
  <2> QED BY <2>1
<1> QED BY <1>3 DEF Ascends

\* a lists the newest c of the places W: a place it leaves out is older than all
\* of a, and a has c places then.
ListsNewest(a, n, W, c) ==
  /\ Ascends(a, n, W) /\ n <= c
  /\ \A x \in W : (\E i \in 1..n : a[i] = x) \/ (n = c /\ x < a[1])

After(W, x) == {j \in W : j > x}

\* K are the places of W that have less than c after them.
IsNewest(K, W, c) ==
  K \in SUBSET W /\ \A x \in W : x \in K <=> Cardinality(After(W, x)) < c

LEMMA NewestAreListed ==
  ASSUME NEW n \in Nat, NEW l \in Nat, NEW W \in SUBSET (1..l), NEW c \in Nat \ {0},
         NEW a, ListsNewest(a, n, W, c), NEW K, IsNewest(K, W, c)
  PROVE  /\ Ascends(a, n, K)
         /\ \A x \in K : \E i \in 1..n : a[i] = x
<1> DEFINE L == {a[i] : i \in 1..n}
           Later(x) == After(W, x)
<1>1. Ascends(a, n, L) /\ L \in SUBSET W /\ \A x \in L : \E i \in 1..n : a[i] = x
  BY DEF ListsNewest, Ascends
<1> HIDE DEF L
<1>2. L \in SUBSET Nat /\ W \in SUBSET Nat
  <2>1. \A x \in 1..l : x \in Nat
    OBVIOUS
  <2> QED BY <1>1, <2>1, Zenon
<1>3. IsFiniteSet(L) /\ Cardinality(L) = n
  BY <1>1, <1>2, ListingCounts
<1>4. ASSUME NEW x \in W PROVE IsFiniteSet(Later(x)) /\ Cardinality(Later(x)) \in Nat
  <2>1. IsFiniteSet(1..l)
    BY FS_Interval
  <2>2. Later(x) \in SUBSET (1..l)
    BY Zenon DEF After
  <2> HIDE DEF Later
  <2> QED BY <2>1, <2>2, FS_Subset, FS_CardinalityType
\* a listed place has only listed ones after it
<1>5. ASSUME NEW x \in L PROVE Cardinality(Later(x)) < c
  <2>1. PICK i \in 1..n : a[i] = x
    BY <1>1
  <2>2. Later(x) \in SUBSET (L \ {x})
    <3>1. ASSUME NEW j \in W, j > x PROVE j \in L
      <4>0. 1 \in 1..n
        BY <2>1
      <4>1. a[1] \in Nat /\ x \in Nat /\ j \in Nat /\ 1 \in 1..n
        <5>1. a[1] \in L
          BY <1>1, <4>0 DEF Ascends
        <5> QED BY <1>2, <4>0, <5>1, Zenon
      <4>2. a[1] <= x
        <5>1. CASE i = 1
          BY <2>1, <4>1, <5>1
        <5>2. CASE i # 1
          <6>1. 1 < i
            BY <5>2
          <6> QED BY <1>1, <2>1, <4>1, <6>1 DEF Ascends
        <5> QED BY <5>1, <5>2
      <4>3. ~(j < a[1])
        BY <3>1, <4>1, <4>2
      <4> QED BY <4>3 DEF ListsNewest, L
    <3>2. \A j \in W : j > x => j # x
      BY <1>1, <1>2
    <3> QED BY <3>1, <3>2 DEF After
  <2>3. IsFiniteSet(L \ {x}) /\ Cardinality(L \ {x}) = n - 1
    BY <1>3, FS_RemoveElement
  <2>4. Cardinality(Later(x)) <= n - 1
    <3> HIDE DEF Later
    <3> QED BY <2>2, <2>3, FS_Subset
  <2>5. x \in W
    BY <1>1
  <2>6. n <= c /\ Cardinality(Later(x)) \in Nat
    BY <1>4, <2>5 DEF ListsNewest
  <2> HIDE DEF Later
  <2> QED BY <2>4, <2>6
\* a place that is not listed has all the listed ones after it
<1>6. ASSUME NEW x \in W, x \notin L PROVE ~(Cardinality(Later(x)) < c)
  <2>1. n = c /\ x < a[1]
    BY <1>6 DEF ListsNewest, L
  <2>2. L \in SUBSET Later(x)
    <3>1. ASSUME NEW y \in L PROVE y > x
      <4>1. PICK i \in 1..n : a[i] = y
        BY <1>1
      <4>0. 1 \in 1..n
        BY <4>1
      <4>2. a[1] \in Nat /\ x \in Nat /\ a[i] \in Nat /\ 1 \in 1..n
        <5>1. a[1] \in L /\ a[i] \in L
          BY <1>1, <4>0 DEF Ascends
        <5> QED BY <1>2, <4>0, <5>1, Zenon
      <4>3. i # 1 => a[1] < a[i]
        <5>1. i # 1 => 1 < i
          OBVIOUS
        <5> QED BY <1>1, <4>2, <5>1 DEF Ascends
      <4> QED BY <2>1, <4>1, <4>2, <4>3
    <3> QED BY <1>1, <3>1 DEF After
  <2>3. Cardinality(L) <= Cardinality(Later(x))
    <3> HIDE DEF Later
    <3> QED BY <1>4, <2>2, FS_Subset
  <2> HIDE DEF Later
  <2> QED BY <1>3, <1>4, <2>1, <2>3
<1>7. K = L
  BY <1>1, <1>5, <1>6 DEF IsNewest
<1> QED BY <1>1, <1>7

-----------------------------------------------------------------------------

\* What ties the queue to the history of its puts: it lists the newest of the
\* places that wait, and the packet remembered carries the bytes put last.
HistoryInv ==
  /\ QueueTypeOK
  /\ offered \in Seq(Raw) /\ taken \in 0..Len(offered)
  /\ offered = <<>> => last_packet = NoPacket
  /\ offered # <<>> => /\ last_packet # NoPacket
                       /\ last_packet.raw_data = offered[Len(offered)]
  /\ ListsNewest(PlaceOf(queue), Len(queue), Fifo!Waiting, MaxSize)

\* A put offers a packet to the queue.
LEMMA PutOffers ==
  ASSUME NEW r \in Raw, HistoryPut(r), Len(offered) \in Nat
  PROVE  /\ [capture_time |-> Len(offered) + 1, raw_data |-> r] \in Packet
         /\ \E p \in Packet : Put(p)
<1>1. Len(offered) + 1 \in Time
  BY HistoryAssumption DEF HistoryPut
<1> QED BY <1>1 DEF HistoryPut, Packet

\* The places that wait after a put.
LEMMA PutWaits ==
  ASSUME HistoryInv, NEW r \in Raw, HistoryPut(r)
  PROVE  LET p == [capture_time |-> Len(offered) + 1, raw_data |-> r]
         IN Fifo!Waiting' = IF IsRepeat(p) THEN Fifo!Waiting
                            ELSE Fifo!Waiting \cup {Len(offered) + 1}
<1> DEFINE n == Len(offered) + 1
           p == [capture_time |-> n, raw_data |-> r]
<1>1. /\ Len(offered) \in Nat /\ taken \in 0..Len(offered) /\ taken' = taken
      /\ Len(offered') = n /\ offered'[n] = r
      /\ \A i \in 1..Len(offered) : offered'[i] = offered[i]
  <2>1. offered \in Seq(Raw) /\ offered' = Append(offered, r) /\ taken' = taken
        /\ taken \in 0..Len(offered)
    BY DEF HistoryInv, HistoryPut
  <2> QED BY <2>1, AppendProperties, LenProperties
<1>2. IsRepeat(p) <=> n # 1 /\ offered'[n] = offered'[n - 1]
  <2>1. CASE offered = <<>>
    <3>1. n = 1
      BY <2>1
    <3> QED BY <2>1, <3>1 DEF HistoryInv, IsRepeat
  <2>2. CASE offered # <<>>
    <3>1. n # 1 /\ n - 1 = Len(offered) /\ Len(offered) \in 1..Len(offered)
      BY <1>1, <2>2, EmptySeq DEF HistoryInv
    <3> QED BY <1>1, <2>2, <3>1 DEF HistoryInv, IsRepeat
  <2> QED BY <2>1, <2>2
<1>3. \A i \in 1..Len(offered) : Fifo!News(i)' <=> Fifo!News(i)
  <2>1. ASSUME NEW i \in 1..Len(offered)
        PROVE  (i = 1 \/ offered'[i] # offered'[i - 1]) <=> (i = 1 \/ offered[i] # offered[i - 1])
    <3>1. i # 1 => i - 1 \in 1..Len(offered)
      BY <1>1
    <3> QED BY <1>1, <3>1
  <2> QED BY <2>1 DEF Fifo!News
<1>4. Fifo!Waiting' = {i \in (taken + 1)..n : i = 1 \/ offered'[i] # offered'[i - 1]}
  BY <1>1 DEF Fifo!Waiting, Fifo!News
<1>5. Fifo!Waiting = {i \in (taken + 1)..Len(offered) : i = 1 \/ offered'[i] # offered'[i - 1]}
  BY <1>1, <1>3 DEF Fifo!Waiting, Fifo!News
<1>6. CASE IsRepeat(p)
  <2>1. ASSUME NEW i \in (taken + 1)..n, i = 1 \/ offered'[i] # offered'[i - 1]
        PROVE  i \in (taken + 1)..Len(offered)
    BY <1>1, <1>2, <1>6, <2>1
  <2>2. \A i \in (taken + 1)..Len(offered) : i \in (taken + 1)..n
    BY <1>1
  <2> QED BY <1>4, <1>5, <1>6, <2>1, <2>2
<1>7. CASE ~IsRepeat(p)
  <2>1. ASSUME NEW i \in (taken + 1)..n PROVE i = n \/ i \in (taken + 1)..Len(offered)
    BY <1>1
  <2>2. \A i \in (taken + 1)..Len(offered) : i \in (taken + 1)..n
    BY <1>1
  <2>3. n \in (taken + 1)..n
    BY <1>1
  <2>4. n = 1 \/ offered'[n] # offered'[n - 1]
    BY <1>2, <1>7
  <2> HIDE DEF n
  <2> DEFINE P(i) == i = 1 \/ offered'[i] # offered'[i - 1]
             A == (taken + 1)..n
             B == (taken + 1)..Len(offered)
  <2>5. (\A i \in A : i = n \/ i \in B) /\ (\A i \in B : i \in A) /\ n \in A /\ P(n)
    BY <2>1, <2>2, <2>3, <2>4
  <2>6. Fifo!Waiting' = {i \in A : P(i)} /\ Fifo!Waiting = {i \in B : P(i)}
    BY <1>4, <1>5
  <2> HIDE DEF P, A, B
  <2>7. Fifo!Waiting' = Fifo!Waiting \cup {n}
    BY <2>5, <2>6
  <2> QED BY <1>7, <2>7 DEF n
<1> QED BY <1>6, <1>7

\* An append to the queue keeps it listing the newest places.
LEMMA PutLists ==
  ASSUME NEW q \in Seq(Packet), NEW q2 \in Seq(Packet), NEW e \in Packet, NEW l \in Nat,
         NEW W \in SUBSET (1..l), Len(q2) <= MaxSize,
         ListsNewest(PlaceOf(q), Len(q), W, MaxSize),
         IsShift(q2, q, e, MaxSize), e.capture_time = l + 1
  PROVE  ListsNewest(PlaceOf(q2), Len(q2), W \cup {l + 1}, MaxSize)
<1> DEFINE a == PlaceOf(q)
           b == PlaceOf(q2)
           n == Len(q)
           n2 == Len(q2)
<1>1. PICK k \in 0..n :
        /\ n2 = n + 1 - k
        /\ k = 0 \/ n2 = MaxSize
        /\ \A i \in 1..(n2 - 1) : q2[i] = q[i + k]
  BY DEF IsShift
<1>2. n \in Nat /\ n2 \in Nat /\ n2 \in 1..MaxSize /\ q2[n2] = e /\ MaxSize \in Nat
  BY LenProperties, MaxSizeAssumption DEF IsShift
<1>3. /\ \A i \in 1..n : a[i] = q[i].capture_time
      /\ \A i \in 1..n2 : b[i] = q2[i].capture_time
      /\ b = [i \in 1..n2 |-> q2[i].capture_time]
  BY DEF PlaceOf
<1>4. /\ \A i \in 1..n : a[i] \in W
      /\ \A i, j \in 1..n : i < j => a[i] < a[j]
      /\ \A x \in W : (\E i \in 1..n : a[i] = x) \/ (n = MaxSize /\ x < a[1])
  BY DEF ListsNewest, Ascends
<1>w. \A x \in W : x \in Nat /\ x < l + 1
  <2>1. \A x \in 1..l : x \in Nat /\ x < l + 1
    OBVIOUS
  <2> QED BY <2>1
<1> HIDE DEF a, b, n, n2
<1>5. b[n2] = l + 1 /\ \A i \in 1..(n2 - 1) : i + k \in 1..n /\ b[i] = a[i + k]
  <2>1. ASSUME NEW i \in 1..(n2 - 1) PROVE i + k \in 1..n /\ i \in 1..n2 /\ b[i] = a[i + k]
    <3>1. i + k \in 1..n /\ i \in 1..n2
      BY <1>1, <1>2
    <3> QED BY <1>1, <1>3, <3>1
  <2>2. n2 \in 1..n2
    BY <1>2
  <2> QED BY <1>2, <1>3, <2>1, <2>2
<1>6. Ascends(b, n2, W \cup {l + 1})
  <2>1. ASSUME NEW i \in 1..n2 PROVE b[i] \in W \cup {l + 1}
    <3>1. i = n2 \/ i \in 1..(n2 - 1)
      BY <1>2
    <3> QED BY <1>4, <1>5, <3>1
  <2>2. ASSUME NEW i \in 1..n2, NEW j \in 1..n2, i < j PROVE b[i] < b[j]
    <3>1. i \in 1..(n2 - 1)
      BY <1>2, <2>2
    <3>2. CASE j = n2
      BY <1>4, <1>5, <1>w, <3>1, <3>2
    <3>3. CASE j # n2
      <4>1. j \in 1..(n2 - 1) /\ i + k < j + k
        BY <1>1, <1>2, <2>2, <3>3
      <4> QED BY <1>4, <1>5, <3>1, <4>1
    <3> QED BY <3>2, <3>3
  <2> QED BY <1>3, <2>1, <2>2 DEF Ascends
<1>7. ASSUME NEW x \in W \cup {l + 1}
      PROVE  (\E i \in 1..n2 : b[i] = x) \/ (n2 = MaxSize /\ x < b[1])
  <2>0. 1 \in 1..n2 /\ n2 \in 1..n2
    BY <1>2
  <2>1. CASE x = l + 1
    BY <1>5, <2>0, <2>1
  <2>2. ASSUME NEW i \in 1..n, x \in W, a[i] = x
        PROVE  (\E j \in 1..n2 : b[j] = x) \/ (n2 = MaxSize /\ x < b[1])
    <3>1. CASE i > k
      <4>1. i - k \in 1..(n2 - 1) /\ i - k \in 1..n2 /\ (i - k) + k = i
        BY <1>1, <1>2, <3>1
      <4>2. b[i - k] = x
        BY <1>5, <2>2, <4>1
      <4> QED BY <4>1, <4>2
    <3>2. CASE i <= k
      <4>1. k # 0 /\ n2 = MaxSize
        BY <1>1, <3>2
      <4>2. x < b[1]
        <5>1. CASE n2 = 1
          BY <1>5, <1>w, <2>2, <5>1
        <5>2. CASE n2 # 1
          <6>1. 1 \in 1..(n2 - 1) /\ i < 1 + k /\ 1 + k \in 1..n
            BY <1>1, <1>2, <3>2, <5>2
          <6> QED BY <1>4, <1>5, <2>2, <6>1
        <5> QED BY <5>1, <5>2
      <4> QED BY <4>1, <4>2
    <3> QED BY <1>1, <3>1, <3>2
  <2>3. CASE x \in W /\ n = MaxSize /\ x < a[1]
    <3>1. k # 0 /\ n2 = MaxSize
      BY <1>1, <1>2, <2>3
    <3>2. CASE n2 = 1
      BY <1>5, <1>w, <2>3, <3>1, <3>2
    <3>3. CASE n2 # 1
      <4>1. 1 \in 1..(n2 - 1) /\ 1 + k \in 1..n /\ 1 \in 1..n /\ 1 < 1 + k
        BY <1>1, <1>2, <3>1, <3>3
      <4>2. a[1] < a[1 + k] /\ b[1] = a[1 + k]
        BY <1>4, <1>5, <4>1
      <4>3. x \in Nat /\ a[1] \in Nat /\ a[1 + k] \in Nat
        BY <1>4, <1>w, <2>3, <4>1
      <4> QED BY <2>3, <3>1, <4>2, <4>3
    <3> QED BY <3>2, <3>3
  <2> QED BY <1>4, <2>1, <2>2, <2>3
<1>8. n2 <= MaxSize
  BY <1>2
<1> QED BY <1>6, <1>7, <1>8 DEF ListsNewest, b, n2

\* Nothing waits, and the queue is empty.
LEMMA NoneListed == ASSUME NEW l \in Nat PROVE ListsNewest(PlaceOf(<<>>), 0, {}, MaxSize)
  BY MaxSizeAssumption DEF ListsNewest, Ascends, PlaceOf

\* The queue lists, in the order of the puts, the newest of the packets that wait, and
\* put() compares with the packet offered last.
THEOREM HistoryInvHolds == HistorySpec => []HistoryInv
<1>1. HistoryInit => HistoryInv
  <2> SUFFICES ASSUME HistoryInit PROVE HistoryInv
    OBVIOUS
  <2>1. Fifo!Waiting = {}
    BY DEF HistoryInit, Fifo!Waiting
  <2>2. Len(queue) = 0 /\ queue = <<>> /\ QueueTypeOK
    BY MaxSizeAssumption DEF HistoryInit, QueueInit, QueueTypeOK
  <2> QED BY <2>1, <2>2, NoneListed DEF HistoryInit, QueueInit, HistoryInv
<1>2. HistoryInv /\ [HistoryNext]_historyVars => HistoryInv'
  <2> SUFFICES ASSUME HistoryInv, [HistoryNext]_historyVars PROVE HistoryInv'
    OBVIOUS
  <2>0. /\ Len(offered) \in Nat /\ queue \in Seq(Packet) /\ MaxSize \in Nat \ {0}
        /\ Fifo!Waiting \in SUBSET (1..Len(offered))
    BY LenProperties, MaxSizeAssumption DEF HistoryInv, QueueTypeOK, Fifo!Waiting
  <2>1. ASSUME NEW r \in Raw, HistoryPut(r) PROVE HistoryInv'
    <3> DEFINE n == Len(offered) + 1
               p == [capture_time |-> n, raw_data |-> r]
    <3>1. p \in Packet /\ p.raw_data = r /\ p.capture_time = n /\ Put(p)
      BY <2>0, <2>1, PutOffers DEF HistoryPut
    <3>2. /\ offered' \in Seq(Raw) /\ Len(offered') = n /\ offered'[n] = r /\ offered' # <<>>
          /\ taken' \in 0..n
      <4>1. offered \in Seq(Raw) /\ offered' = Append(offered, r) /\ taken' = taken
            /\ taken \in 0..Len(offered)
        BY <2>1 DEF HistoryInv, HistoryPut
      <4> QED BY <4>1, AppendProperties, LenProperties
    <3>3. Fifo!Waiting' = IF IsRepeat(p) THEN Fifo!Waiting ELSE Fifo!Waiting \cup {n}
      BY <2>1, PutWaits
    <3> HIDE DEF p, n
    <3>4. CASE IsRepeat(p) /\ UNCHANGED queueVars
      <4>1. /\ QueueTypeOK' /\ last_packet' # NoPacket /\ last_packet'.raw_data = r
            /\ queue' = queue
        BY <3>1, <3>4 DEF IsRepeat, queueVars, HistoryInv, QueueTypeOK
      <4>2. ListsNewest(PlaceOf(queue'), Len(queue'), Fifo!Waiting', MaxSize)
        BY <3>3, <3>4, <4>1 DEF HistoryInv
      <4> QED BY <3>2, <4>1, <4>2 DEF HistoryInv
    <3>5. CASE /\ ~IsRepeat(p) /\ last_packet' = p
               /\ queue' = AppendBounded(queue, p, MaxSize)
      <4>1. queue' \in Seq(Packet) /\ IsShift(queue', queue, p, MaxSize)
        BY <2>0, <3>1, <3>5, AppendBoundedShifts
      <4>2. Len(queue') <= MaxSize
        BY <2>0, <4>1 DEF IsShift
      <4>3. ListsNewest(PlaceOf(queue'), Len(queue'), Fifo!Waiting', MaxSize)
        BY <2>0, <3>1, <3>3, <3>5, <4>1, <4>2, PutLists DEF HistoryInv, n
      <4>4. QueueTypeOK' /\ last_packet' # NoPacket /\ last_packet'.raw_data = r
        BY <3>1, <3>5, <4>1, <4>2, NoPacketAssumption DEF QueueTypeOK
      <4> QED BY <3>2, <4>3, <4>4 DEF HistoryInv
    <3> QED BY <3>1, <3>4, <3>5 DEF Put
  <2>2. ASSUME queue' = <<>>, taken' = Len(offered), UNCHANGED <<last_packet, offered>>
        PROVE  HistoryInv'
    <3>1. Fifo!Waiting' = {}
      BY <2>0, <2>2 DEF Fifo!Waiting
    <3>2. Len(queue') = 0 /\ QueueTypeOK'
      BY <2>0, <2>2 DEF HistoryInv, QueueTypeOK
    <3>3. ListsNewest(PlaceOf(queue'), Len(queue'), Fifo!Waiting', MaxSize)
      BY <2>2, <3>1, <3>2, NoneListed
    <3> QED BY <2>0, <2>2, <3>2, <3>3 DEF HistoryInv
  <2>3. CASE HistoryGetAll
    BY <2>2, <2>3 DEF HistoryGetAll, GetAll
  <2>4. CASE HistoryClear
    BY <2>2, <2>4 DEF HistoryClear, Clear
  <2>5. CASE UNCHANGED historyVars
    BY <2>5 DEF historyVars, HistoryInv, QueueTypeOK, Fifo!Waiting, Fifo!News
  <2> QED BY <2>1, <2>3, <2>4, <2>5 DEF HistoryNext
<1> QED BY <1>1, <1>2, PTL DEF HistorySpec

\* The lossy FIFO counts as this module does.
LEMMA SameCount == ASSUME NEW S PROVE Fifo!Cardinality(S) = Cardinality(S)
  BY DEF Fifo!Cardinality, Cardinality

\* What waits in the queue is what the lossy FIFO keeps, in its order.
LEMMA QueueIsKept == HistoryInv => PlaceOf(queue) = Fifo!InOrder(Fifo!Kept)
<1> SUFFICES ASSUME HistoryInv PROVE PlaceOf(queue) = Fifo!InOrder(Fifo!Kept)
  OBVIOUS
<1> DEFINE a == PlaceOf(queue)
           n == Len(queue)
           K == Fifo!Kept
           W == Fifo!Waiting
<1>1. /\ Len(offered) \in Nat /\ n \in Nat /\ MaxSize \in Nat \ {0}
      /\ W \in SUBSET (1..Len(offered)) /\ ListsNewest(a, n, W, MaxSize)
  BY LenProperties, MaxSizeAssumption DEF HistoryInv, QueueTypeOK, Fifo!Waiting
<1>2. K = {x \in W : Cardinality(After(W, x)) < MaxSize}
  BY SameCount, Zenon DEF Fifo!Kept, After
<1>3. IsNewest(K, W, MaxSize)
  <2> HIDE DEF K, W
  <2> QED BY <1>2, Zenon DEF IsNewest
<1> HIDE DEF a, n, K, W
<1>4. Ascends(a, n, K) /\ \A x \in K : \E i \in 1..n : a[i] = x
  <2> DEFINE l == Len(offered)
  <2>1. /\ l \in Nat /\ n \in Nat /\ MaxSize \in Nat \ {0}
        /\ W \in SUBSET (1..l) /\ ListsNewest(a, n, W, MaxSize)
    BY <1>1
  <2> HIDE DEF l
  <2>2. ASSUME NEW m \in Nat, NEW V \in SUBSET (1..l), NEW x, ListsNewest(x, m, V, MaxSize),
               NEW L, IsNewest(L, V, MaxSize)
        PROVE  Ascends(x, m, L) /\ \A y \in L : \E i \in 1..m : x[i] = y
    BY <2>1, <2>2, NewestAreListed
  <2> QED BY <1>3, <2>1, <2>2
<1>5. K \in SUBSET Nat
  <2>2. \A x \in 1..Len(offered) : x \in Nat
    OBVIOUS
  <2> QED BY <1>1, <1>3, <2>2, Zenon DEF IsNewest
<1>6. Cardinality(K) = n
  BY <1>1, <1>4, <1>5, ListingCounts
<1> DEFINE b == CHOOSE b \in [1..n -> K] : \A i, j \in 1..n : i < j => b[i] < b[j]
<1>7. Fifo!InOrder(K) = b
  BY <1>6, SameCount DEF Fifo!InOrder
<1>8. Ascends(b, n, K)
  BY <1>4 DEF Ascends
<1> HIDE DEF b
<1>9. b = a
  BY <1>1, <1>4, <1>5, <1>8, OneListing
<1> QED BY <1>7, <1>9 DEF a, K

\* The queue implements the lossy FIFO for every capacity, every set of payloads
\* and every number of puts: what get_all() returns are the newest of the packets
\* put since the last drain, without repeats, in order.
THEOREM QueueImplementsLossyFifo == HistorySpec => ImplementsLossyFifo
<1>1. HistoryInit => Fifo!Init
  BY DEF HistoryInit, Fifo!Init
<1>2. HistoryInv /\ [HistoryNext]_historyVars => [Fifo!Next]_Fifo!vars
  <2> SUFFICES ASSUME HistoryInv, [HistoryNext]_historyVars
               PROVE  [Fifo!Next]_Fifo!vars
    OBVIOUS
  <2>1. ASSUME NEW r \in Raw, HistoryPut(r) PROVE Fifo!Next
    BY <2>1 DEF HistoryPut, Fifo!Next, Fifo!Offer
  <2>2. CASE HistoryGetAll
    <3>1. Fifo!Deliver
      BY <2>2, QueueIsKept DEF HistoryGetAll, Fifo!Deliver
    <3> QED BY <3>1 DEF Fifo!Next
  <2>3. CASE HistoryClear
    BY <2>3 DEF HistoryClear, Fifo!Next, Fifo!Discard
  <2>4. CASE UNCHANGED historyVars
    BY <2>4 DEF historyVars, Fifo!vars
  <2> QED BY <2>1, <2>2, <2>3, <2>4 DEF HistoryNext
<1> QED
  BY <1>1, <1>2, HistoryInvHolds, PTL DEF HistorySpec, ImplementsLossyFifo, Fifo!Spec

\* The history uses the queue as its specification says, so that what is proved
\* of the queue holds along the history.
THEOREM HistoryUsesQueue == HistorySpec => QueueSpec
<1>1. HistoryInit => QueueInit
  BY DEF HistoryInit
<1>2. HistoryInv /\ [HistoryNext]_historyVars => [QueueNext]_queueVars
  <2> SUFFICES ASSUME HistoryInv, [HistoryNext]_historyVars
               PROVE  [QueueNext]_queueVars
    OBVIOUS
  <2>1. ASSUME NEW r \in Raw, HistoryPut(r) PROVE QueueNext
    <3>1. Len(offered) \in Nat
      BY LenProperties DEF HistoryInv
    <3> QED BY <2>1, <3>1, PutOffers DEF QueueNext
  <2>2. CASE HistoryGetAll
    BY <2>2 DEF HistoryGetAll, QueueNext
  <2>3. CASE HistoryClear
    BY <2>3 DEF HistoryClear, QueueNext
  <2>4. CASE UNCHANGED historyVars
    BY <2>4 DEF historyVars, queueVars
  <2> QED BY <2>1, <2>2, <2>3, <2>4 DEF HistoryNext
<1> QED
  BY <1>1, <1>2, HistoryInvHolds, PTL DEF HistorySpec, QueueSpec

-----------------------------------------------------------------------------
(* Sums of bytes *)

\* The totals r of the first numbers of d.
IsRunning(r, d) ==
  /\ r \in [0..Len(d) -> Int]
  /\ r[0] = 0
  /\ \A n \in 1..Len(d) : r[n] = r[n - 1] + d[n]

\* SumOf() takes them one after the other.
LEMMA SumRuns ==
  ASSUME NEW d \in Seq(Int)
  PROVE  \E r : IsRunning(r, d) /\ SumOf(d) = r[Len(d)]
<1> DEFINE L == Len(d)
           Next(f) == [n \in 0..L |-> IF n = 0 THEN 0 ELSE f[n - 1] + d[n]]
           r == CHOOSE f : f = Next(f)
<1>1. L \in Nat /\ \A n \in 1..L : d[n] \in Int
  BY ElementOfSeq, LenProperties
<1>2. PICK f \in [0..L -> Int] : f[0] = 0 /\ \A n \in 1..L : f[n] = f[n - 1] + d[n]
  <2> DEFINE step == [x \in Int \X (1..L) |-> x[1] + d[x[2]]]
  <2>1. step \in [Int \X (1..L) -> Int]
    BY <1>1
  <2>2. \E f \in [0..L -> Int] : IsChain(f, 0, step, L)
    <3>1. 0 \in Int /\ L \in Nat
      BY <1>1
    <3> HIDE DEF step, L
    <3> QED BY <2>1, <3>1, Recursion
  <2>3. PICK f \in [0..L -> Int] : f[0] = 0 /\ \A n \in 1..L : f[n] = step[<<f[n - 1], n>>]
    BY <2>2 DEF IsChain
  <2>4. ASSUME NEW n \in 1..L PROVE f[n] = f[n - 1] + d[n]
    <3>1. f[n - 1] \in Int
      BY <1>1
    <3>2. <<f[n - 1], n>> \in Int \X (1..L)
      BY <3>1
    <3>3. step[<<f[n - 1], n>>] = f[n - 1] + d[n]
      BY <3>2
    <3> HIDE DEF step
    <3> QED BY <2>3, <3>3
  <2> QED BY <2>3, <2>4
<1>3. f = Next(f)
  <2>1. \A n \in 0..L : f[n] = Next(f)[n]
    BY <1>1, <1>2
  <2> QED BY <2>1
<1>4. r = Next(r)
  BY <1>3
<1>5. r = f
  <2> HIDE DEF r
  <2> DEFINE C == {n \in 0..L : r[n] = f[n]}
  <2>0. \A n \in 0..L : r[n] = IF n = 0 THEN 0 ELSE r[n - 1] + d[n]
    BY <1>4
  <2>1. 0 \in C
    BY <1>1, <1>2, <2>0
  <2>2. \A n \in 1..L : n - 1 \in C => n \in C
    BY <1>1, <1>2, <2>0
  <2>3. \A n \in 0..L : n \in C
    <3> HIDE DEF C
    <3> QED BY <1>1, <2>1, <2>2, NumbersUpTo
  <2>4. \A n \in 0..L : r[n] = f[n]
    BY <2>3
  <2> QED BY <1>2, <1>4, <2>4
<1>6. SumOf(d) = r[L]
  BY DEF SumOf
<1> QED BY <1>2, <1>5, <1>6 DEF IsRunning

LEMMA SumIsNat ==
  ASSUME NEW d \in Seq(Nat)
  PROVE  SumOf(d) \in Nat
<1>1. d \in Seq(Int) /\ Len(d) \in Nat /\ \A n \in 1..Len(d) : d[n] \in Nat
  BY ElementOfSeq, LenProperties
<1>2. PICK r : IsRunning(r, d) /\ SumOf(d) = r[Len(d)]
  BY <1>1, SumRuns
<1> DEFINE B == {n \in 0..Len(d) : r[n] \in Nat}
<1>3. 0 \in B /\ \A n \in 1..Len(d) : n - 1 \in B => n \in B
  BY <1>1, <1>2 DEF IsRunning
<1>4. \A n \in 0..Len(d) : n \in B
  <2> HIDE DEF B
  <2> QED BY <1>1, <1>3, NumbersUpTo
<1> QED BY <1>1, <1>2, <1>4

\* One changed number changes the sum by as much.
LEMMA SumChanges ==
  ASSUME NEW d \in Seq(Int), NEW i \in 1..Len(d), NEW v \in Int
  PROVE  SumOf([d EXCEPT ![i] = v]) = SumOf(d) + v - d[i]
<1> DEFINE e == [d EXCEPT ![i] = v]
           L == Len(d)
<1>1. /\ e \in Seq(Int) /\ Len(e) = L /\ L \in Nat
      /\ \A n \in 1..L : d[n] \in Int /\ e[n] = IF n = i THEN v ELSE d[n]
  <2>1. L \in Nat /\ \A n \in 1..L : d[n] \in Int
    BY ElementOfSeq, LenProperties
  <2> QED BY <2>1, ExceptSeq
<1>2. PICK r : IsRunning(r, d) /\ SumOf(d) = r[L]
  BY SumRuns
<1>3. PICK q : IsRunning(q, e) /\ SumOf(e) = q[L]
  BY <1>1, SumRuns
<1> DEFINE B == {n \in 0..L : q[n] = r[n] + IF n >= i THEN v - d[i] ELSE 0}
<1>4. 0 \in B
  BY <1>1, <1>2, <1>3 DEF IsRunning
<1>5. ASSUME NEW n \in 1..L, n - 1 \in B PROVE n \in B
  <2> HIDE DEF e, L
  <2>a. n - 1 \in 0..Len(d) /\ n \in 1..Len(e)
    BY <1>1 DEF L
  <2>1. /\ r[n] = r[n - 1] + d[n] /\ r[n - 1] \in Int /\ q[n] = q[n - 1] + e[n]
    BY <1>2, <1>3, <2>a DEF IsRunning, L
  <2>b. d[n] \in Int /\ d[i] \in Int /\ e[n] = IF n = i THEN v ELSE d[n]
    BY <1>1 DEF L
  <2>2. q[n - 1] = r[n - 1] + IF n - 1 >= i THEN v - d[i] ELSE 0
    BY <1>5
  <2>3. q[n] = r[n] + IF n >= i THEN v - d[i] ELSE 0
    BY <2>1, <2>2, <2>b
  <2> QED BY <2>3, <2>a, <1>1 DEF L
<1>6. \A n \in 0..L : n \in B
  <2> HIDE DEF B
  <2> QED BY <1>1, <1>4, <1>5, NumbersUpTo
<1>7. L >= i /\ L \in 0..L /\ r[L] \in Int /\ d[i] \in Int
  BY <1>1, <1>2 DEF IsRunning
<1>8. q[L] = r[L] + (v - d[i])
  BY <1>6, <1>7
<1> QED BY <1>2, <1>3, <1>7, <1>8

-----------------------------------------------------------------------------
(* The words of bits *)

\* The ten bits of a set.
BitsOf(S) == [i \in 0..9 |-> IF i \in S THEN 1 ELSE 0]

LEMMA SumOfTen ==
  ASSUME NEW d, d = [k \in 1..10 |-> d[k]], \A k \in 1..10 : d[k] \in Int
  PROVE  SumOf(d) = d[1] + d[2] + d[3] + d[4] + d[5] + d[6] + d[7] + d[8] + d[9] + d[10]
<1>1. d \in Seq(Int) /\ Len(d) = 10
  BY IsASeq
<1>2. PICK r : IsRunning(r, d) /\ SumOf(d) = r[10]
  BY <1>1, SumRuns
<1> QED BY <1>1, <1>2 DEF IsRunning

LEMMA LampWord ==
  ASSUME NEW S
  PROVE  LET b == BitsOf(S)
         IN Word(S, 6) = 64 * b[0] + 128 * b[1] + 256 * b[2] + 512 * b[3] + 1024 * b[4]
                         + 2048 * b[5] + 4096 * b[6] + 8192 * b[7] + 16384 * b[8]
                         + 32768 * b[9]
<1> DEFINE b == BitsOf(S)
           d == [k \in 1..10 |-> IF k - 1 \in S THEN 2^(6 + k - 1) ELSE 0]
<1>1. /\ 2^(6 + 1 - 1) = 64 /\ 2^(6 + 2 - 1) = 128 /\ 2^(6 + 3 - 1) = 256
      /\ 2^(6 + 4 - 1) = 512 /\ 2^(6 + 5 - 1) = 1024 /\ 2^(6 + 6 - 1) = 2048
      /\ 2^(6 + 7 - 1) = 4096 /\ 2^(6 + 8 - 1) = 8192 /\ 2^(6 + 9 - 1) = 16384
      /\ 2^(6 + 10 - 1) = 32768
  OBVIOUS
<1>2. /\ d[1] = 64 * b[0] /\ d[2] = 128 * b[1] /\ d[3] = 256 * b[2] /\ d[4] = 512 * b[3]
      /\ d[5] = 1024 * b[4] /\ d[6] = 2048 * b[5] /\ d[7] = 4096 * b[6]
      /\ d[8] = 8192 * b[7] /\ d[9] = 16384 * b[8] /\ d[10] = 32768 * b[9]
  BY <1>1 DEF BitsOf
<1>3. \A i \in 0..9 : b[i] \in 0..1
  BY DEF BitsOf
<1>4. d = [k \in 1..10 |-> d[k]] /\ \A k \in 1..10 : d[k] \in Int
  <2>1. d = [k \in 1..10 |-> d[k]]
    OBVIOUS
  <2> HIDE DEF d, b
  <2> QED BY <1>2, <1>3, <2>1
<1>5. SumOf(d) = d[1] + d[2] + d[3] + d[4] + d[5] + d[6] + d[7] + d[8] + d[9] + d[10]
  <2> HIDE DEF d, b
  <2> QED BY <1>4, SumOfTen
<1>6. Word(S, 6) = SumOf(d)
  BY DEF Word
<1> HIDE DEF d
<1> QED BY <1>2, <1>5, <1>6

LEMMA DeviceWord ==
  ASSUME NEW S
  PROVE  LET b == BitsOf(S)
         IN Word(S, 0) = b[0] + 2 * b[1] + 4 * b[2] + 8 * b[3] + 16 * b[4] + 32 * b[5]
                         + 64 * b[6] + 128 * b[7] + 256 * b[8] + 512 * b[9]
<1> DEFINE b == BitsOf(S)
           d == [k \in 1..10 |-> IF k - 1 \in S THEN 2^(0 + k - 1) ELSE 0]
<1>1. /\ 2^(0 + 1 - 1) = 1 /\ 2^(0 + 2 - 1) = 2 /\ 2^(0 + 3 - 1) = 4
      /\ 2^(0 + 4 - 1) = 8 /\ 2^(0 + 5 - 1) = 16 /\ 2^(0 + 6 - 1) = 32
      /\ 2^(0 + 7 - 1) = 64 /\ 2^(0 + 8 - 1) = 128 /\ 2^(0 + 9 - 1) = 256
      /\ 2^(0 + 10 - 1) = 512
  OBVIOUS
<1>2. /\ d[1] = b[0] /\ d[2] = 2 * b[1] /\ d[3] = 4 * b[2] /\ d[4] = 8 * b[3]
      /\ d[5] = 16 * b[4] /\ d[6] = 32 * b[5] /\ d[7] = 64 * b[6]
      /\ d[8] = 128 * b[7] /\ d[9] = 256 * b[8] /\ d[10] = 512 * b[9]
  BY <1>1 DEF BitsOf
<1>3. \A i \in 0..9 : b[i] \in 0..1
  BY DEF BitsOf
<1>4. d = [k \in 1..10 |-> d[k]] /\ \A k \in 1..10 : d[k] \in Int
  <2>1. d = [k \in 1..10 |-> d[k]]
    OBVIOUS
  <2> HIDE DEF d, b
  <2> QED BY <1>2, <1>3, <2>1
<1>5. SumOf(d) = d[1] + d[2] + d[3] + d[4] + d[5] + d[6] + d[7] + d[8] + d[9] + d[10]
  <2> HIDE DEF d, b
  <2> QED BY <1>4, SumOfTen
<1>6. Word(S, 0) = SumOf(d)
  BY DEF Word
<1> HIDE DEF d
<1> QED BY <1>2, <1>5, <1>6

LEMMA SmallWidths ==
  /\ UInt(1) = 0..1 /\ UInt(2) = 0..3 /\ UInt(3) = 0..7 /\ UInt(4) = 0..15
<1>1. 2^1 = 2 /\ 2^2 = 4 /\ 2^3 = 8 /\ 2^4 = 16
  OBVIOUS
<1> QED BY <1>1 DEF UInt

Byte == UInt(8)

LEMMA ByteIs == \A n : n \in Byte <=> n \in Nat /\ n < 256
<1>1. 2^8 = 256
  OBVIOUS
<1> QED BY <1>1 DEF Byte, UInt

LEMMA WordIs == \A n : n \in UInt(16) <=> n \in Nat /\ n < 65536
<1>1. 2^16 = 65536
  OBVIOUS
<1> QED BY <1>1 DEF UInt

LEMMA WordOfBytes ==
  ASSUME NEW a \in Byte, NEW b \in Byte
  PROVE  a + 256 * b \in UInt(16)
<1>1. a \in Nat /\ a < 256 /\ b \in Nat /\ b < 256
  BY ByteIs
<1>2. a + 256 * b \in Nat /\ a + 256 * b < 65536
  BY <1>1
<1> QED BY <1>2, WordIs

LEMMA FrameFields ==
  ASSUME NEW f \in Frame
  PROVE  /\ f.mode \in 0..7 /\ f.authority \in 0..3 /\ f.driving \in 0..3
         /\ f.pad \in 0..1 /\ f.sources \in SUBSET Source /\ f.complete \in BOOLEAN
         /\ f.stamp \in Byte /\ f.msg_code \in Byte
         /\ f.devices \in Nat /\ f.devices < 65536
<1>1. f \in [mode : UInt(3), authority : UInt(2), driving : UInt(2),
             sources : SUBSET Source, complete : BOOLEAN, stamp : UInt(8),
             devices : UInt(16), pad : UInt(1), msg_code : UInt(8)]
  BY FrameAssumption
<1> QED BY <1>1, SmallWidths, WordIs DEF Byte

\* The emergency word of a frame: its bit 6 + i is that of source i, its bit 0 is
\* that of the end of the emergency.
LEMMA LampBits ==
  ASSUME NEW f \in Frame
  PROVE  /\ EmergencyWord(f) \in Nat /\ EmergencyWord(f) < 65536
         /\ Bit(EmergencyWord(f), 0) = One(f.complete)
         /\ \A i \in Source : Bit(EmergencyWord(f), 6 + i) = 1 <=> i \in f.sources
<1> DEFINE b == BitsOf(f.sources)
           n == EmergencyWord(f)
           c == One(f.complete)
<1>1. f.pad \in 0..1 /\ c \in 0..1
  BY FrameFields DEF One
<1>2. \A i \in 0..9 : b[i] \in 0..1 /\ (b[i] = 1 <=> i \in f.sources)
  BY DEF BitsOf
<1>3. n = 64 * b[0] + 128 * b[1] + 256 * b[2] + 512 * b[3] + 1024 * b[4]
          + 2048 * b[5] + 4096 * b[6] + 8192 * b[7] + 16384 * b[8]
          + 32768 * b[9] + f.pad * 2 + c
  BY LampWord DEF EmergencyWord
<1> HIDE DEF n, b, c
<1> DEFINE b0 == b[0]  b1 == b[1]  b2 == b[2]  b3 == b[3]  b4 == b[4]
           b5 == b[5]  b6 == b[6]  b7 == b[7]  b8 == b[8]  b9 == b[9]  p == f.pad
<1>4. /\ b0 \in 0..1 /\ b1 \in 0..1 /\ b2 \in 0..1 /\ b3 \in 0..1 /\ b4 \in 0..1
      /\ b5 \in 0..1 /\ b6 \in 0..1 /\ b7 \in 0..1 /\ b8 \in 0..1 /\ b9 \in 0..1
      /\ p \in 0..1 /\ c \in 0..1
  BY <1>1, <1>2
\* The word, its bits taken off one by one.
<1> DEFINE t9 == b9            t8 == b8 + 2 * t9  t7 == b7 + 2 * t8  t6 == b6 + 2 * t7
           t5 == b5 + 2 * t6   t4 == b4 + 2 * t5  t3 == b3 + 2 * t4  t2 == b2 + 2 * t3
           t1 == b1 + 2 * t2   t0 == b0 + 2 * t1
<1>a. n = 64 * t0 + p * 2 + c
  <2> HIDE DEF b0, b1, b2, b3, b4, b5, b6, b7, b8, b9
  <2>1. n = 64 * b0 + 128 * b1 + 256 * b2 + 512 * b3 + 1024 * b4 + 2048 * b5 + 4096 * b6
            + 8192 * b7 + 16384 * b8 + 32768 * b9 + p * 2 + c
    BY <1>3 DEF b0, b1, b2, b3, b4, b5, b6, b7, b8, b9
  <2> QED BY <1>4, <2>1
<1> HIDE DEF b0, b1, b2, b3, b4, b5, b6, b7, b8, b9, p
<1>b. /\ t9 \in Nat /\ t9 < 2 /\ t8 \in Nat /\ t8 < 4 /\ t7 \in Nat /\ t7 < 8
      /\ t6 \in Nat /\ t6 < 16 /\ t5 \in Nat /\ t5 < 32
  BY <1>4
<1> HIDE DEF t9, t8, t7, t6, t5
<1>c. /\ t4 \in Nat /\ t4 < 64 /\ t3 \in Nat /\ t3 < 128 /\ t2 \in Nat /\ t2 < 256
      /\ t1 \in Nat /\ t1 < 512 /\ t0 \in Nat /\ t0 < 1024
  BY <1>4, <1>b
<1>d. /\ t0 = b0 + 2 * t1 /\ t1 = b1 + 2 * t2 /\ t2 = b2 + 2 * t3 /\ t3 = b3 + 2 * t4
      /\ t4 = b4 + 2 * t5 /\ t5 = b5 + 2 * t6 /\ t6 = b6 + 2 * t7 /\ t7 = b7 + 2 * t8
      /\ t8 = b8 + 2 * t9 /\ t9 = b9
  BY DEF t9, t8, t7, t6, t5
<1> HIDE DEF t4, t3, t2, t1, t0
<1>6. n \in Nat /\ n < 65536
  BY <1>4, <1>a, <1>c
<1>e. n % 2 = c
  BY <1>4, <1>a, <1>c
<1>f. n \div 64 = t0
  BY <1>4, <1>a, <1>c
<1>g. n \div 128 = t1 /\ n \div 256 = t2
  BY <1>4, <1>6, <1>b, <1>c, <1>d, <1>f
<1>h. n \div 512 = t3 /\ n \div 1024 = t4
  BY <1>4, <1>6, <1>b, <1>c, <1>d, <1>g
<1>i. n \div 2048 = t5 /\ n \div 4096 = t6
  BY <1>4, <1>6, <1>b, <1>c, <1>d, <1>h
<1>j. n \div 8192 = t7 /\ n \div 16384 = t8
  BY <1>4, <1>6, <1>b, <1>c, <1>d, <1>i
<1>k. n \div 32768 = t9
  BY <1>4, <1>6, <1>b, <1>c, <1>d, <1>j
<1>7. (n \div 64) % 2 = b0 /\ (n \div 128) % 2 = b1
  BY <1>4, <1>b, <1>c, <1>d, <1>f, <1>g
<1>8. (n \div 256) % 2 = b2 /\ (n \div 512) % 2 = b3
  BY <1>4, <1>b, <1>c, <1>d, <1>g, <1>h
<1>9. (n \div 1024) % 2 = b4 /\ (n \div 2048) % 2 = b5
  BY <1>4, <1>b, <1>c, <1>d, <1>h, <1>i
<1>10. (n \div 4096) % 2 = b6 /\ (n \div 8192) % 2 = b7
  BY <1>4, <1>b, <1>c, <1>d, <1>i, <1>j
<1>11. (n \div 16384) % 2 = b8 /\ (n \div 32768) % 2 = b9
  BY <1>4, <1>b, <1>c, <1>d, <1>j, <1>k
<1>12. /\ 2^0 = 1 /\ 2^(6 + 0) = 64 /\ 2^(6 + 1) = 128 /\ 2^(6 + 2) = 256
       /\ 2^(6 + 3) = 512 /\ 2^(6 + 4) = 1024 /\ 2^(6 + 5) = 2048 /\ 2^(6 + 6) = 4096
       /\ 2^(6 + 7) = 8192 /\ 2^(6 + 8) = 16384 /\ 2^(6 + 9) = 32768
  OBVIOUS
<1>13. Bit(n, 0) = c
  <2>1. n \div 1 = n
    BY <1>6
  <2> QED BY <2>1, <1>e, <1>12 DEF Bit
<1>14. ASSUME NEW i \in 0..9 PROVE Bit(n, 6 + i) = b[i]
  <2>1. /\ Bit(n, 6 + 0) = b[0] /\ Bit(n, 6 + 1) = b[1] /\ Bit(n, 6 + 2) = b[2]
        /\ Bit(n, 6 + 3) = b[3] /\ Bit(n, 6 + 4) = b[4] /\ Bit(n, 6 + 5) = b[5]
        /\ Bit(n, 6 + 6) = b[6] /\ Bit(n, 6 + 7) = b[7] /\ Bit(n, 6 + 8) = b[8]
        /\ Bit(n, 6 + 9) = b[9]
    BY <1>7, <1>8, <1>9, <1>10, <1>11, <1>12
       DEF Bit, b0, b1, b2, b3, b4, b5, b6, b7, b8, b9
  <2> QED BY <2>1
<1>15. \A i \in Source : Bit(n, 6 + i) = 1 <=> i \in f.sources
  BY <1>2, <1>14 DEF Source
<1> QED
  BY <1>6, <1>13, <1>15 DEF n, c

\* The grid of ten devices is the low ten bits of the device word.
LEMMA GridWord ==
  ASSUME NEW n \in Nat
  PROVE  Word({i \in Device : Bit(n, i) = 1}, 0) = n % 1024
<1> DEFINE S == {i \in Device : Bit(n, i) = 1}
           b == BitsOf(S)
<1>1. /\ 2^0 = 1 /\ 2^1 = 2 /\ 2^2 = 4 /\ 2^3 = 8 /\ 2^4 = 16 /\ 2^5 = 32 /\ 2^6 = 64
      /\ 2^7 = 128 /\ 2^8 = 256 /\ 2^9 = 512
  OBVIOUS
<1>2. ASSUME NEW i \in 0..9, NEW w \in Nat \ {0}, 2^i = w PROVE b[i] = (n \div w) % 2
  <2>1. Bit(n, i) = (n \div w) % 2 /\ Bit(n, i) \in 0..1
    BY <1>2 DEF Bit
  <2> QED BY <2>1 DEF BitsOf, Device
<1>3. n \div 1 = n
  OBVIOUS
<1>4. /\ b[0] = n % 2 /\ b[1] = (n \div 2) % 2 /\ b[2] = (n \div 4) % 2
      /\ b[3] = (n \div 8) % 2 /\ b[4] = (n \div 16) % 2 /\ b[5] = (n \div 32) % 2
      /\ b[6] = (n \div 64) % 2 /\ b[7] = (n \div 128) % 2 /\ b[8] = (n \div 256) % 2
      /\ b[9] = (n \div 512) % 2
  <2> HIDE DEF b
  <2> QED BY <1>1, <1>2, <1>3
<1>5. Word(S, 0) = b[0] + 2 * b[1] + 4 * b[2] + 8 * b[3] + 16 * b[4] + 32 * b[5]
                   + 64 * b[6] + 128 * b[7] + 256 * b[8] + 512 * b[9]
  <2> HIDE DEF S
  <2> QED BY DeviceWord
<1> HIDE DEF b, S
<1>6. Word(S, 0) = (n % 2) + 2 * ((n \div 2) % 2) + 4 * ((n \div 4) % 2)
                   + 8 * ((n \div 8) % 2) + 16 * ((n \div 16) % 2)
                   + 32 * ((n \div 32) % 2) + 64 * ((n \div 64) % 2)
                   + 128 * ((n \div 128) % 2) + 256 * ((n \div 256) % 2)
                   + 512 * ((n \div 512) % 2)
  BY <1>4, <1>5
<1> DEFINE bits == (n % 2) + 2 * ((n \div 2) % 2) + 4 * ((n \div 4) % 2)
                   + 8 * ((n \div 8) % 2) + 16 * ((n \div 16) % 2)
                   + 32 * ((n \div 32) % 2) + 64 * ((n \div 64) % 2)
                   + 128 * ((n \div 128) % 2) + 256 * ((n \div 256) % 2)
                   + 512 * ((n \div 512) % 2)
<1>7. n % 1024 = bits
  <2>1. /\ n = 2 * (n \div 2) + (n % 2)
        /\ n \div 2 = 2 * (n \div 4) + ((n \div 2) % 2)
    OBVIOUS
  <2>2. /\ n \div 4 = 2 * (n \div 8) + ((n \div 4) % 2)
        /\ n \div 8 = 2 * (n \div 16) + ((n \div 8) % 2)
    OBVIOUS
  <2>3. /\ n \div 16 = 2 * (n \div 32) + ((n \div 16) % 2)
        /\ n \div 32 = 2 * (n \div 64) + ((n \div 32) % 2)
    OBVIOUS
  <2>4. /\ n \div 64 = 2 * (n \div 128) + ((n \div 64) % 2)
        /\ n \div 128 = 2 * (n \div 256) + ((n \div 128) % 2)
    OBVIOUS
  <2>5. /\ n \div 256 = 2 * (n \div 512) + ((n \div 256) % 2)
        /\ n \div 512 = 2 * (n \div 1024) + ((n \div 512) % 2)
        /\ n = 1024 * (n \div 1024) + (n % 1024)
    OBVIOUS
  <2> QED BY <2>1, <2>2, <2>3, <2>4, <2>5
<1>8. Word(S, 0) = n % 1024
  <2>1. Word(S, 0) = bits
    BY <1>6
  <2> HIDE DEF bits
  <2> QED BY <1>7, <2>1
<1> QED BY <1>8 DEF S

-----------------------------------------------------------------------------
(* Datagrams *)

\* What the sender puts before the checksum.
LEMMA UnsealedBytes ==
  ASSUME NEW f \in Frame
  PROVE  LET u == Unsealed(f) IN
         /\ u \in Seq(Byte) /\ Len(u) = HEADER + OPERATIONAL_DATA_LENGTH
         /\ u[4] = f.stamp /\ u[7] = f.msg_code /\ u[11] = OPERATIONAL_DATA_LENGTH
         /\ u[12] = 0 /\ u[13] = f.devices % 256 /\ u[14] = f.devices \div 256
         /\ u[15] = StatusByte(f)
         /\ u[16] = EmergencyWord(f) % 256 /\ u[17] = EmergencyWord(f) \div 256
<1> DEFINE head == <<f.pad, 2, 3, f.stamp, 177, 162, f.msg_code, 255, 0, 0,
                     OPERATIONAL_DATA_LENGTH, 0>>
           load == <<f.devices % 256, f.devices \div 256, StatusByte(f),
                     EmergencyWord(f) % 256, EmergencyWord(f) \div 256>>
           rest == [i \in 1..(OPERATIONAL_DATA_LENGTH - PAYLOAD_MIN) |-> 255]
<1>1. /\ OPERATIONAL_DATA_LENGTH \in Byte /\ OPERATIONAL_DATA_LENGTH \in Nat
      /\ OPERATIONAL_DATA_LENGTH >= 5
  BY ParserAssumption, ByteIs DEF Byte, PAYLOAD_MIN
<1>2. head \in Seq(Byte) /\ Len(head) = 12
  <2>1. /\ f.pad \in Byte /\ f.stamp \in Byte /\ f.msg_code \in Byte
        /\ 0 \in Byte /\ 2 \in Byte /\ 3 \in Byte /\ 162 \in Byte /\ 177 \in Byte
        /\ 255 \in Byte
    BY FrameFields, ByteIs
  <2> HIDE DEF Byte
  <2> QED BY <1>1, <2>1
<1>3. load \in Seq(Byte) /\ Len(load) = 5
  <2>1. f.devices % 256 \in Byte /\ f.devices \div 256 \in Byte
    BY FrameFields, ByteIs
  <2>2. EmergencyWord(f) % 256 \in Byte /\ EmergencyWord(f) \div 256 \in Byte
    BY LampBits, ByteIs
  <2>3. StatusByte(f) \in Byte
    <3>1. f.mode \in 0..7 /\ f.authority \in 0..3 /\ f.driving \in 0..3 /\ f.pad \in 0..1
      BY FrameFields
    <3>2. StatusByte(f) \in Nat /\ StatusByte(f) < 256
      BY <3>1 DEF StatusByte
    <3> QED BY <3>2, ByteIs
  <2> HIDE DEF Byte
  <2> QED BY <2>1, <2>2, <2>3
<1>4. /\ rest \in Seq(Byte) /\ Len(rest) = OPERATIONAL_DATA_LENGTH - 5
  <2>1. 255 \in Byte
    BY ByteIs
  <2> HIDE DEF Byte
  <2> QED BY <1>1, <2>1, IsASeq DEF PAYLOAD_MIN
<1>5. Unsealed(f) = head \o load \o rest
  BY DEF Unsealed
<1>6. /\ head[4] = f.stamp /\ head[7] = f.msg_code /\ head[12] = 0
      /\ head[11] = OPERATIONAL_DATA_LENGTH
      /\ load[1] = f.devices % 256 /\ load[2] = f.devices \div 256
      /\ load[3] = StatusByte(f)
      /\ load[4] = EmergencyWord(f) % 256 /\ load[5] = EmergencyWord(f) \div 256
  OBVIOUS
<1> HIDE DEF head, load, rest
<1> DEFINE a == head \o load
<1> HIDE DEF a
<1>7. /\ a \in Seq(Byte) /\ Len(a) = Len(head) + Len(load)
      /\ \A i \in 1..Len(head) : a[i] = head[i]
      /\ \A i \in 1..Len(load) : a[Len(head) + i] = load[i]
  <2>1. head \in Seq(Byte) /\ load \in Seq(Byte)
    BY <1>2, <1>3
  <2> QED BY <2>1 DEF a
<1>8. /\ a[4] = head[4] /\ a[7] = head[7] /\ a[11] = head[11] /\ a[12] = head[12]
      /\ a[13] = load[1] /\ a[14] = load[2] /\ a[15] = load[3] /\ a[16] = load[4]
      /\ a[17] = load[5] /\ Len(a) = 17
  BY <1>2, <1>3, <1>7
<1>9. /\ a \o rest \in Seq(Byte) /\ Len(a \o rest) = Len(a) + Len(rest)
      /\ \A i \in 1..Len(a) : (a \o rest)[i] = a[i]
  <2>1. a \in Seq(Byte) /\ rest \in Seq(Byte)
    BY <1>4, <1>7
  <2> QED BY <2>1
<1>10. Unsealed(f) = a \o rest
  BY <1>5 DEF a
<1> DEFINE u == Unsealed(f)
<1>11. u \in Seq(Byte) /\ Len(u) = HEADER + OPERATIONAL_DATA_LENGTH
  BY <1>1, <1>4, <1>8, <1>9, <1>10 DEF HEADER
<1>12. /\ u[4] = a[4] /\ u[7] = a[7] /\ u[11] = a[11] /\ u[12] = a[12] /\ u[13] = a[13]
       /\ u[14] = a[14] /\ u[15] = a[15] /\ u[16] = a[16] /\ u[17] = a[17]
  <2>1. Len(a) \in Nat /\ Len(a) >= 17
    BY <1>8
  <2>2. \A i \in 1..Len(a) : u[i] = a[i]
    BY <1>9, <1>10
  <2> HIDE DEF u
  <2> QED BY <2>1, <2>2
<1> HIDE DEF u
<1> QED
  BY <1>6, <1>8, <1>11, <1>12 DEF u

\* The checksum that the sender appends is the one the parser computes.
LEMMA SealedBytes ==
  ASSUME NEW s \in Seq(Byte)
  PROVE  /\ Sealed(s) \in Seq(Byte) /\ Len(Sealed(s)) = Len(s) + 2
         /\ \A i \in 1..Len(s) : Sealed(s)[i] = s[i]
         /\ Sealed(s)[Len(s) + 1] + 256 * Sealed(s)[Len(s) + 2] = SumOf(s) % 65536
<1> DEFINE m == SumOf(s)
           low == m % 256
           high == (m \div 256) % 256
           tail == <<low, high>>
<1>1. m \in Nat
  <2>1. Byte \subseteq Nat
    BY ByteIs
  <2> QED BY <2>1, SeqMonotonic, SumIsNat
<1> HIDE DEF m
<1>a. low \in Nat /\ low < 256
  BY ONLY <1>1
<1>b. high \in Nat /\ high < 256
  BY ONLY <1>1
<1>5. low + 256 * high = m % 65536
  BY ONLY <1>1
<1> HIDE DEF low, high
<1>2. tail \in Seq(Byte) /\ Len(tail) = 2
  <2>1. low \in Byte /\ high \in Byte
    BY <1>a, <1>b, ByteIs
  <2> QED BY <2>1
<1>3. tail[1] = low /\ tail[2] = high
  OBVIOUS
<1> HIDE DEF tail
<1>4. /\ s \o tail \in Seq(Byte) /\ Len(s \o tail) = Len(s) + Len(tail)
      /\ \A i \in 1..Len(s) : (s \o tail)[i] = s[i]
      /\ \A i \in 1..Len(tail) : (s \o tail)[Len(s) + i] = tail[i]
  <2>1. tail \in Seq(Byte)
    BY <1>2
  <2> QED BY <2>1
<1>6. Sealed(s) = s \o tail
  BY DEF Sealed, tail, low, high, m
<1>7. Sealed(s)[Len(s) + 1] = tail[1] /\ Sealed(s)[Len(s) + 2] = tail[2]
  BY <1>2, <1>4, <1>6
<1>8. Len(Sealed(s)) = Len(s) + 2
  BY <1>2, <1>4, <1>6
<1>9. Sealed(s)[Len(s) + 1] + 256 * Sealed(s)[Len(s) + 2] = SumOf(s) % 65536
  BY <1>3, <1>5, <1>7 DEF m
<1> QED BY <1>4, <1>6, <1>8, <1>9

LEMMA BodyBytes ==
  ASSUME NEW d \in Seq(Byte), Len(d) >= 2
  PROVE  /\ Body(d) \in Seq(Byte) /\ Len(Body(d)) = Len(d) - 2
         /\ \A i \in 1..(Len(d) - 2) : Body(d)[i] = d[i]
<1>1. PICK n \in Nat : n = Len(d) - 2
  OBVIOUS
<1>2. n <= Len(d) /\ Len(d) \in Nat
  BY <1>1
<1>3. SubSeq(d, 1, n) \in Seq(Byte) /\ Len(SubSeq(d, 1, n)) = n
  BY ONLY <1>2, n \in Nat, d \in Seq(Byte)
<1>4. \A i \in 1..n : SubSeq(d, 1, n)[i] = d[i]
  BY ONLY <1>2, n \in Nat, d \in Seq(Byte)
<1>5. Body(d) = SubSeq(d, 1, n)
  BY <1>1 DEF Body, CHECKSUM
<1> QED BY <1>1, <1>3, <1>4, <1>5

LEMMA PayloadBytes ==
  ASSUME NEW d \in Seq(Byte), Len(d) > 14
  PROVE  /\ RawPayload(d) \in Seq(Byte) /\ Len(RawPayload(d)) = Len(d) - 14
         /\ \A i \in 1..(Len(d) - 14) : RawPayload(d)[i] = d[12 + i]
<1>1. Len(d) \in Nat
  OBVIOUS
<1>2. RawPayload(d) = SubSeq(d, 13, Len(d) - 2)
  BY DEF RawPayload, MIN_PACKET, HEADER, CHECKSUM
<1>3. /\ SubSeq(d, 13, Len(d) - 2) \in Seq(Byte)
      /\ Len(SubSeq(d, 13, Len(d) - 2)) = Len(d) - 14
      /\ \A i \in 1..(Len(d) - 14) : SubSeq(d, 13, Len(d) - 2)[i] = d[12 + i]
  BY <1>1
<1> QED BY <1>2, <1>3

\* The fields of a payload that is long enough are in their ranges.
LEMMA PayloadTyped ==
  ASSUME NEW p \in Seq(Byte), Len(p) >= 5
  PROVE  Payload(p) \in OperationalPayload
<1>1. p[1] \in Byte /\ p[2] \in Byte /\ p[3] \in Byte /\ p[4] \in Byte /\ p[5] \in Byte
  OBVIOUS
<1>2. U16(p, 1) \in UInt(16)
  <2>1. U16(p, 1) = p[1] + 256 * p[2]
    BY DEF U16
  <2> QED BY <1>1, <2>1, WordOfBytes
<1>3. (p[3] \div 32) % 8 \in UInt(3) /\ (p[3] \div 4) % 4 \in UInt(2) /\ p[3] % 4 \in UInt(2)
  <2>1. PICK k \in Nat : k = p[3]
    BY <1>1, ByteIs
  <2>2. (k \div 32) % 8 \in 0..7
    BY ONLY k \in Nat
  <2>3. (k \div 4) % 4 \in 0..3 /\ k % 4 \in 0..3
    BY ONLY k \in Nat
  <2> QED BY <2>1, <2>2, <2>3, SmallWidths
<1>4. EmergencySources(U16(p, 4)) \in ((SUBSET Source) \ {{}}) \cup {{NoSource}}
  <2> DEFINE set == {i \in Source : Bit(U16(p, 4), 6 + i) = 1}
  <2>1. set \in SUBSET Source
    OBVIOUS
  <2>2. EmergencySources(U16(p, 4)) = IF set = {} THEN {NoSource} ELSE set
    BY DEF EmergencySources
  <2> HIDE DEF set
  <2>3. CASE set = {}
    BY <2>2, <2>3
  <2>4. CASE set # {}
    <3>1. EmergencySources(U16(p, 4)) = set
      BY <2>2, <2>4
    <3>2. set \in (SUBSET Source) \ {{}}
      BY <2>1, <2>4, Zenon
    <3> QED BY <3>1, <3>2, Zenon
  <2> QED BY <2>3, <2>4
<1>5. (Bit(U16(p, 4), 0) = 1) \in BOOLEAN
  OBVIOUS
<1> QED BY <1>2, <1>3, <1>4, <1>5 DEF Payload, OperationalPayload

\* What a parse yields, whatever bytes came.
LEMMA ParseYields ==
  ASSUME NEW d \in Seq(Byte)
  PROVE  LET r == ParseResult(d) IN
         /\ r.success <=> ~TooShort(d)
         /\ r.success <=> r.header # None
         /\ r.header \in ICDHeader \cup {None}
         /\ r.payload \in OperationalPayload \cup {None}
         /\ r.payload # None => r.success
         /\ r.checksum_ok => r.success
         /\ r.success => r.payload = PayloadOf(d)
<1>1. Len(d) \in Nat
  OBVIOUS
<1>2. ASSUME ~TooShort(d) PROVE Header(d) \in ICDHeader
  <2>1. d[4] \in Byte /\ d[7] \in Byte /\ d[11] \in Byte /\ d[12] \in Byte
    BY <1>1, <1>2 DEF TooShort, MIN_PACKET, HEADER, CHECKSUM
  <2>2. d[4] % 16 \in UInt(4)
    <3>1. PICK k \in Nat : k = d[4]
      BY <2>1, ByteIs
    <3>2. k % 16 \in 0..15
      BY ONLY k \in Nat
    <3> QED BY <3>1, <3>2, SmallWidths
  <2>3. U16(d, 11) \in UInt(16)
    <3>1. U16(d, 11) = d[11] + 256 * d[12]
      BY DEF U16
    <3> QED BY <2>1, <3>1, WordOfBytes
  <2> QED BY <2>1, <2>2, <2>3 DEF Header, ICDHeader, Byte
<1>3. PayloadOf(d) \in OperationalPayload \cup {None}
  <2>1. CASE IsOperational(d) /\ Len(RawPayload(d)) >= PAYLOAD_MIN
    <3>1. RawPayload(d) \in Seq(Byte)
      BY <1>1 DEF RawPayload, MIN_PACKET, HEADER, CHECKSUM
    <3> QED BY <2>1, <3>1, PayloadTyped DEF PayloadOf, PAYLOAD_MIN
  <2>2. CASE ~(IsOperational(d) /\ Len(RawPayload(d)) >= PAYLOAD_MIN)
    BY <2>2 DEF PayloadOf
  <2> QED BY <2>1, <2>2
<1>4. CASE TooShort(d)
  BY <1>4 DEF ParseResult
<1>5. CASE ~TooShort(d)
  BY <1>2, <1>3, <1>5, NoneAssumption DEF ParseResult
<1> QED BY <1>4, <1>5

\* A datagram that one byte was changed in.
Damaged(e, i, x) == [e EXCEPT ![i] = (@ + x) % 256]

LEMMA DamageShows ==
  ASSUME NEW f \in Frame, NEW i \in 1..Len(Encode(f)), NEW x \in Damage
  PROVE  LET d == Damaged(Encode(f), i, x) IN
         /\ d \in Seq(Byte) /\ ~ParseResult(d).checksum_ok
         /\ ~TooShort(d) /\ ~ChecksumOK(d)
<1> DEFINE s == Unsealed(f)
           e == Encode(f)
           v == (e[i] + x) % 256
           d == [e EXCEPT ![i] = v]
           n == Len(s)
<1>1. s \in Seq(Byte) /\ n \in Nat /\ n >= 12
  <2>1. s \in Seq(Byte) /\ Len(s) = 12 + OPERATIONAL_DATA_LENGTH
    BY UnsealedBytes DEF HEADER
  <2>2. OPERATIONAL_DATA_LENGTH \in Nat
    BY ParserAssumption, ByteIs DEF Byte
  <2> QED BY <2>1, <2>2
<1>2. /\ e \in Seq(Byte) /\ Len(e) = n + 2 /\ \A j \in 1..n : e[j] = s[j]
      /\ e[n + 1] + 256 * e[n + 2] = SumOf(s) % 65536
  BY <1>1, SealedBytes DEF Encode
<1> HIDE DEF s, e
<1>3. /\ e[i] \in Byte /\ v \in Byte /\ v # e[i]
  <2>1. e[i] \in Byte
    BY <1>2 DEF e
  <2>2. x \in Nat /\ 0 < x /\ x < 256
    BY DamageAssumption, ByteIs DEF Byte
  <2>3. e[i] \in Nat /\ e[i] < 256
    BY <2>1, ByteIs
  <2>4. v \in Nat /\ v < 256 /\ v # e[i]
    BY <2>2, <2>3
  <2> QED BY <2>1, <2>4, ByteIs
<1> HIDE DEF v
<1>4. /\ d \in Seq(Byte) /\ Len(d) = n + 2 /\ d[i] = v
      /\ \A j \in 1..(n + 2) : j # i => d[j] = e[j]
  <2>1. i \in 1..Len(e)
    BY DEF e
  <2> QED BY <1>2, <1>3, <2>1, ExceptSeq
<1>5. e[n + 1] \in Byte /\ e[n + 2] \in Byte /\ d[n + 1] \in Byte /\ d[n + 2] \in Byte
  BY <1>1, <1>2, <1>4
<1> HIDE DEF d
<1>6. Body(d) \in Seq(Byte) /\ Len(Body(d)) = n /\ \A j \in 1..n : Body(d)[j] = d[j]
  <2>1. Len(d) >= 2 /\ Len(d) - 2 = n
    BY <1>1, <1>4
  <2> QED BY <1>4, <2>1, BodyBytes
<1>7. SumOf(s) \in Nat
  <2>1. Byte \subseteq Nat
    BY ByteIs
  <2> QED BY <1>1, <2>1, SeqMonotonic, SumIsNat
<1>8. SumOf(Body(d)) % 65536 # d[n + 1] + 256 * d[n + 2]
  <2>1. CASE i \in 1..n
    <3>1. Body(d) = [s EXCEPT ![i] = v]
      <4>1. /\ [s EXCEPT ![i] = v] \in Seq(Byte) /\ Len([s EXCEPT ![i] = v]) = n
            /\ \A j \in 1..n : [s EXCEPT ![i] = v][j] = IF j = i THEN v ELSE s[j]
        BY <1>1, <1>3, <2>1, ExceptSeq
      <4>2. \A j \in 1..n : Body(d)[j] = IF j = i THEN v ELSE s[j]
        BY <1>1, <1>2, <1>4, <1>6
      <4> QED BY <1>6, <4>1, <4>2, SeqEqual
    <3>2. SumOf(Body(d)) = SumOf(s) + v - s[i]
      <4>1. Byte \subseteq Int
        BY ByteIs
      <4> QED BY <1>1, <1>3, <2>1, <3>1, <4>1, SeqMonotonic, SumChanges
    <3>3. s[i] = e[i]
      BY <1>2, <2>1
    <3>4. d[n + 1] = e[n + 1] /\ d[n + 2] = e[n + 2]
      BY <1>1, <1>4, <2>1
    <3>5. v \in Nat /\ e[i] \in Nat /\ v < 256 /\ e[i] < 256
      BY <1>3, ByteIs
    <3>6. SumOf(Body(d)) = SumOf(s) + v - e[i]
      BY <3>2, <3>3
    <3>7. SumOf(Body(d)) % 65536 # SumOf(s) % 65536
      <4>1. PICK k \in Nat, a \in Nat, b \in Nat :
              k = SumOf(s) /\ a = v /\ b = e[i] /\ a < 256 /\ b < 256 /\ a # b
        BY <1>3, <1>7, <3>5
      <4>2. a < 256 /\ b < 256 /\ a # b
        BY <4>1
      <4>3. PICK q \in Nat, r \in Nat : k = 65536 * q + r /\ r < 65536
        <5>1. /\ k \div 65536 \in Nat /\ k % 65536 \in Nat /\ k % 65536 < 65536
              /\ k = 65536 * (k \div 65536) + (k % 65536)
          BY ONLY k \in Nat
        <5> QED BY <5>1
      <4>4. (k + a - b) % 65536 # k % 65536
        BY ONLY <4>2, <4>3, k \in Nat, a \in Nat, b \in Nat, q \in Nat, r \in Nat
      <4>5. SumOf(Body(d)) = k + a - b
        BY <3>6, <4>1
      <4> QED BY <4>1, <4>4, <4>5
    <3> QED BY <1>2, <3>4, <3>7
  <2>2. CASE i = n + 1 \/ i = n + 2
    <3>1. Body(d) = s
      <4>1. \A j \in 1..n : Body(d)[j] = s[j]
        BY <1>1, <1>2, <1>4, <1>6, <2>2
      <4> QED BY <1>1, <1>6, <4>1, SeqEqual
    <3>2. /\ e[n + 1] \in Nat /\ e[n + 2] \in Nat /\ v \in Nat
      BY <1>3, <1>5, ByteIs
    <3>3. CASE i = n + 1
      <4>1. d[n + 1] = v /\ d[n + 2] = e[n + 2]
        BY <1>1, <1>4, <3>3
      <4> QED BY <1>2, <1>3, <3>1, <3>2, <3>3, <4>1
    <3>4. CASE i = n + 2
      <4>1. d[n + 2] = v /\ d[n + 1] = e[n + 1]
        BY <1>1, <1>4, <3>4
      <4> QED BY <1>2, <1>3, <3>1, <3>2, <3>4, <4>1
    <3> QED BY <2>2, <3>3, <3>4
  <2>3. i \in 1..(n + 2)
    BY <1>2 DEF e
  <2> QED BY <1>1, <2>1, <2>2, <2>3
<1>9. ~ChecksumOK(d)
  <2>1. Len(d) - 1 = n + 1 /\ (n + 1) + 1 = n + 2
    BY <1>1, <1>4
  <2> QED BY <1>8, <2>1 DEF ChecksumOK, U16
<1>10. d = Damaged(Encode(f), i, x)
  BY DEF d, v, e, Damaged
<1>11. ~ParseResult(d).checksum_ok
  BY <1>9 DEF ParseResult
<1>12. ~TooShort(d)
  BY <1>1, <1>4 DEF TooShort, MIN_PACKET, HEADER, CHECKSUM
<1> QED BY <1>4, <1>9, <1>10, <1>11, <1>12

\* What a payload, and the whole result of a parse, say of the frame that was sent.
Shows(q, f) ==
  /\ q.device_bits = f.devices
  /\ q.operation_mode = f.mode
  /\ q.authority = f.authority
  /\ q.driving_state = f.driving
  /\ Indicators(EmergencyDict(q)) =
       [i \in Source \cup {Done} |->
          IF i \in f.sources THEN "red"
          ELSE IF i = Done /\ f.complete THEN "green" ELSE "grey"]
  /\ Word(DeviceGrid(q), 0) = f.devices % 1024

Decoded(r, f) ==
  /\ r.success /\ r.checksum_ok
  /\ r.header.sequence = f.stamp % 16
  /\ r.header.msg_code = f.msg_code
  /\ IF f.msg_code # TYPE_01 THEN r.payload = None ELSE Shows(r.payload, f)

\* The first five bytes of a payload hold the fields of the frame.
LEMMA PayloadReads ==
  ASSUME NEW f \in Frame, NEW p,
         p[1] = f.devices % 256, p[2] = f.devices \div 256, p[3] = StatusByte(f),
         p[4] = EmergencyWord(f) % 256, p[5] = EmergencyWord(f) \div 256
  PROVE  Shows(Payload(p), f)
<1> DEFINE w == EmergencyWord(f)
           q == Payload(p)
<1>1. U16(p, 1) = f.devices /\ U16(p, 4) = w
  <2>1. f.devices \in Nat /\ w \in Nat
    BY FrameFields, LampBits
  <2>2. \A n \in Nat : (n % 256) + 256 * (n \div 256) = n
    OBVIOUS
  <2>3. U16(p, 1) = p[1] + 256 * p[2] /\ U16(p, 4) = p[4] + 256 * p[5]
    BY DEF U16
  <2>4. p[4] = w % 256 /\ p[5] = w \div 256
    OBVIOUS
  <2> HIDE DEF w
  <2> QED BY <2>1, <2>2, <2>3, <2>4
<1>2. /\ q.device_bits = f.devices /\ q.operation_mode = (StatusByte(f) \div 32) % 8
      /\ q.authority = (StatusByte(f) \div 4) % 4 /\ q.driving_state = StatusByte(f) % 4
      /\ q.emergency_sources = EmergencySources(w)
      /\ q.emergency_complete = (Bit(w, 0) = 1)
  BY <1>1 DEF Payload
<1>3. /\ (StatusByte(f) \div 32) % 8 = f.mode /\ (StatusByte(f) \div 4) % 4 = f.authority
      /\ StatusByte(f) % 4 = f.driving
  <2>1. PICK m \in Nat, k \in Nat, a \in Nat, d \in Nat :
          /\ m < 8 /\ k < 2 /\ a < 4 /\ d < 4
          /\ m = f.mode /\ k = f.pad /\ a = f.authority /\ d = f.driving
    BY FrameFields
  <2>2. PICK n \in Nat : n = StatusByte(f) /\ n = m * 32 + k * 16 + a * 4 + d
    BY <2>1 DEF StatusByte
  <2>b. m < 8 /\ k < 2 /\ a < 4 /\ d < 4 /\ n = m * 32 + k * 16 + a * 4 + d
    BY <2>1, <2>2
  <2>3. (n \div 32) % 8 = m
    BY <2>b
  <2>4. (n \div 4) % 4 = a
    BY <2>b
  <2>5. n % 4 = d
    BY <2>b
  <2> QED BY <2>1, <2>2, <2>3, <2>4, <2>5
<1>4. q.emergency_complete = f.complete
  <2>1. f.complete \in BOOLEAN
    BY FrameFields
  <2>2. Bit(w, 0) = One(f.complete)
    BY LampBits
  <2> QED BY <1>2, <2>1, <2>2 DEF One
<1>5. \A i \in Source : i \in q.emergency_sources <=> i \in f.sources
  <2> DEFINE set == {i \in Source : Bit(w, 6 + i) = 1}
  <2>1. \A i \in Source : i \in set <=> i \in f.sources
    BY LampBits
  <2>2. EmergencySources(w) = IF set = {} THEN {NoSource} ELSE set
    BY DEF EmergencySources
  <2>3. NoSource \notin Source
    BY DEF NoSource, Source
  <2> HIDE DEF set
  <2> QED BY <1>2, <2>1, <2>2, <2>3
<1>6. Done \notin Source /\ f.sources \subseteq Source
  BY FrameFields DEF Done, Source
<1> HIDE DEF q
<1>7. Indicators(EmergencyDict(q)) =
        [i \in Source \cup {Done} |->
           IF i \in f.sources THEN "red"
           ELSE IF i = Done /\ f.complete THEN "green" ELSE "grey"]
  <2> DEFINE dict == EmergencyDict(q)
  <2>1. dict = [i \in Source \cup {Done} |->
                  IF i = Done THEN f.complete ELSE i \in q.emergency_sources]
    BY <1>4 DEF EmergencyDict
  <2>2. DOMAIN dict = Source \cup {Done}
    BY <2>1
  <2>3. dict[Done] = f.complete /\ \A i \in Source : dict[i] = (i \in q.emergency_sources)
    BY <1>6, <2>1
  <2> HIDE DEF dict
  <2>4. ASSUME NEW i \in Source \cup {Done}
        PROVE  (IF ~dict[i] THEN "grey" ELSE IF i = Done THEN "green" ELSE "red")
                = IF i \in f.sources THEN "red"
                  ELSE IF i = Done /\ f.complete THEN "green" ELSE "grey"
    <3>1. CASE i = Done
      <4>1. i \notin f.sources
        BY <1>6, <3>1
      <4>2. dict[i] = f.complete
        BY <2>3, <3>1
      <4> QED BY <3>1, <4>1, <4>2
    <3>2. CASE i \in Source /\ i # Done
      <4>1. dict[i] = (i \in f.sources)
        BY <1>5, <2>3, <3>2
      <4> QED BY <3>2, <4>1
    <3> QED BY <3>1, <3>2
  <2>5. Indicators(dict) = [i \in Source \cup {Done} |->
          IF ~dict[i] THEN "grey" ELSE IF i = Done THEN "green" ELSE "red"]
    BY <2>2 DEF Indicators
  <2> QED BY <2>4, <2>5 DEF dict
<1>8. Word(DeviceGrid(q), 0) = f.devices % 1024
  <2>1. f.devices \in Nat
    BY FrameFields
  <2>2. DeviceGrid(q) = {i \in Device : Bit(f.devices, i) = 1}
    BY <1>2 DEF DeviceGrid
  <2> QED BY <2>1, <2>2, GridWord
<1> QED BY <1>2, <1>3, <1>7, <1>8 DEF q, Shows

LEMMA EncodeDecodes ==
  ASSUME NEW f \in Frame
  PROVE  /\ Encode(f) \in Seq(Byte) /\ Decoded(ParseResult(Encode(f)), f)
         /\ ~TooShort(Encode(f)) /\ ChecksumOK(Encode(f))
         /\ PayloadOf(Encode(f)) # None <=> f.msg_code = TYPE_01
<1> DEFINE u == Unsealed(f)
           e == Encode(f)
           n == Len(u)
           p == RawPayload(e)
<1>1. /\ u \in Seq(Byte) /\ n = 12 + OPERATIONAL_DATA_LENGTH
      /\ u[4] = f.stamp /\ u[7] = f.msg_code /\ u[11] = OPERATIONAL_DATA_LENGTH
      /\ u[12] = 0 /\ u[13] = f.devices % 256 /\ u[14] = f.devices \div 256
      /\ u[15] = StatusByte(f)
      /\ u[16] = EmergencyWord(f) % 256 /\ u[17] = EmergencyWord(f) \div 256
  BY UnsealedBytes DEF HEADER
<1>2. OPERATIONAL_DATA_LENGTH \in Nat /\ OPERATIONAL_DATA_LENGTH >= 5
  BY ParserAssumption, ByteIs DEF Byte, PAYLOAD_MIN
<1>3. /\ e \in Seq(Byte) /\ Len(e) = n + 2 /\ \A j \in 1..n : e[j] = u[j]
      /\ e[n + 1] + 256 * e[n + 2] = SumOf(u) % 65536
  <2>1. e = Sealed(u)
    BY DEF Encode
  <2> HIDE DEF u, e
  <2>2. u \in Seq(Byte)
    BY <1>1
  <2>3. /\ e \in Seq(Byte) /\ Len(e) = Len(u) + 2 /\ \A j \in 1..Len(u) : e[j] = u[j]
        /\ e[Len(u) + 1] + 256 * e[Len(u) + 2] = SumOf(u) % 65536
    BY <2>1, <2>2, SealedBytes
  <2> QED BY <2>3
<1> HIDE DEF u, e
<1>4. n \in Nat /\ n >= 17
  BY <1>1, <1>2
<1> HIDE DEF n
<1>5. /\ e[4] = u[4] /\ e[7] = u[7] /\ e[11] = u[11] /\ e[12] = u[12] /\ e[13] = u[13]
      /\ e[14] = u[14] /\ e[15] = u[15] /\ e[16] = u[16] /\ e[17] = u[17]
  BY <1>3, <1>4
<1>6. ChecksumOK(e)
  <2>1. Body(e) = u
    <3>1. Len(e) >= 2 /\ Len(e) - 2 = n
      BY <1>3, <1>4
    <3>a. e \in Seq(Byte)
      BY <1>3
    <3>b. /\ Body(e) \in Seq(Byte) /\ Len(Body(e)) = Len(e) - 2
          /\ \A i \in 1..(Len(e) - 2) : Body(e)[i] = e[i]
      BY <3>1, <3>a, BodyBytes
    <3>2. Body(e) \in Seq(Byte) /\ Len(Body(e)) = n /\ \A i \in 1..n : Body(e)[i] = e[i]
      BY <3>1, <3>b
    <3>3. \A i \in 1..n : Body(e)[i] = u[i]
      BY <1>3, <3>2
    <3> QED BY <1>1, <3>2, <3>3, SeqEqual DEF n
  <2>2. U16(e, Len(e) - 1) = e[n + 1] + 256 * e[n + 2]
    <3>1. Len(e) - 1 = n + 1 /\ (n + 1) + 1 = n + 2
      BY <1>3, <1>4
    <3> QED BY <3>1 DEF U16
  <2> QED BY <1>3, <2>1, <2>2 DEF ChecksumOK
<1>7. ~TooShort(e)
  BY <1>3, <1>4 DEF TooShort, MIN_PACKET, HEADER, CHECKSUM
<1>8. /\ Header(e).sequence = f.stamp % 16 /\ Header(e).msg_code = f.msg_code
      /\ Header(e).data_length = OPERATIONAL_DATA_LENGTH
  BY <1>1, <1>2, <1>5 DEF Header, U16
<1>9. /\ p \in Seq(Byte) /\ Len(p) >= 5 /\ Len(p) \in Nat
      /\ p[1] = f.devices % 256 /\ p[2] = f.devices \div 256 /\ p[3] = StatusByte(f)
      /\ p[4] = EmergencyWord(f) % 256 /\ p[5] = EmergencyWord(f) \div 256
  <2>1. Len(e) > 14 /\ Len(e) - 14 \in Nat /\ Len(e) - 14 >= 5
    BY <1>3, <1>4
  <2>2. p \in Seq(Byte) /\ Len(p) = Len(e) - 14 /\ \A i \in 1..(Len(e) - 14) : p[i] = e[12 + i]
    <3>1. e \in Seq(Byte) /\ Len(e) > 14
      BY <1>3, <2>1
    <3> QED BY <3>1, PayloadBytes DEF p
  <2> HIDE DEF p
  <2>3. /\ p[1] = e[13] /\ p[2] = e[14] /\ p[3] = e[15] /\ p[4] = e[16] /\ p[5] = e[17]
    BY <2>1, <2>2
  <2> QED BY <1>1, <1>5, <2>1, <2>2, <2>3
<1>10. /\ ParseResult(e).success /\ ParseResult(e).checksum_ok
       /\ ParseResult(e).header = Header(e) /\ ParseResult(e).payload = PayloadOf(e)
  BY <1>6, <1>7 DEF ParseResult
<1>11. CASE f.msg_code # TYPE_01
  <2>1. PayloadOf(e) = None
    BY <1>8, <1>11 DEF PayloadOf, IsOperational
  <2> QED BY <1>3, <1>6, <1>7, <1>8, <1>10, <1>11, <2>1 DEF Decoded, e
<1>12. CASE f.msg_code = TYPE_01
  <2>1. RawPayload(e) # <<>>
    BY <1>9
  <2>2. PayloadOf(e) = Payload(p)
    BY <1>8, <1>9, <1>12, <2>1 DEF PayloadOf, IsOperational, PAYLOAD_MIN
  <2> HIDE DEF p
  <2>3. Shows(Payload(p), f)
    BY <1>9, PayloadReads
  <2>4. Decoded(ParseResult(e), f)
    BY <1>8, <1>10, <1>12, <2>2, <2>3 DEF Decoded
  <2>5. PayloadOf(e) # None
    <3>1. Payload(p) \in OperationalPayload
      BY <1>9, PayloadTyped
    <3> QED BY <2>2, <3>1, NoneAssumption
  <2> QED BY <1>3, <1>6, <1>7, <1>12, <2>4, <2>5 DEF e
<1> QED BY <1>11, <1>12

-----------------------------------------------------------------------------
(* The parser *)

\* Where the datagram under way came from, and that a result is of that datagram.
ParserInv ==
  /\ parsed \in [ArrivalKind -> Nat] /\ checksum_fail_count \in Nat
  /\ payload_success_count \in Nat /\ CountersAddUp
  /\ data # None =>
       /\ data \in Seq(Byte) /\ frame \in Frame
       /\ intact => data = Encode(frame)
       /\ whole /\ ~intact =>
            \E i \in 1..Len(Encode(frame)), x \in Damage :
              data = Damaged(Encode(frame), i, x)
  /\ result # None => data # None /\ result = ParseResult(data)

\* What the kind of a datagram says of its parse.
LEMMA KindSays ==
  ASSUME ParserInv, data # None
  PROVE  /\ KindInHand \in ArrivalKind
         /\ TooShort(data) <=> KindInHand = "stub"
         /\ ~ChecksumOK(data) => KindInHand \in {"damaged", "cut", "stub"}
         /\ KindInHand = "damaged" => ~ChecksumOK(data)
         /\ KindInHand = "operational" => PayloadOf(data) # None
         /\ KindInHand = "other" => PayloadOf(data) = None
<1>1. CASE intact
  <2>1. frame \in Frame /\ data = Encode(frame)
    BY <1>1 DEF ParserInv
  <2>2. /\ ~TooShort(data) /\ ChecksumOK(data)
        /\ PayloadOf(data) # None <=> frame.msg_code = TYPE_01
    BY <2>1, EncodeDecodes
  <2> QED BY <1>1, <2>2 DEF KindInHand, ArrivalKind
<1>2. CASE ~intact /\ whole
  <2>1. ~TooShort(data) /\ ~ChecksumOK(data)
    BY <1>2, DamageShows DEF ParserInv
  <2> QED BY <1>2, <2>1 DEF KindInHand, ArrivalKind
<1>3. CASE ~intact /\ ~whole
  <2>1. Len(data) \in Nat
    BY LenProperties DEF ParserInv
  <2>2. TooShort(data) <=> ~(Len(data) >= MIN_PACKET)
    BY <2>1 DEF TooShort, MIN_PACKET, HEADER, CHECKSUM
  <2> QED BY <1>3, <2>2 DEF KindInHand, ArrivalKind
<1> QED BY <1>1, <1>2, <1>3

LEMMA ParserInvHolds == ParserSpec => []ParserInv
<1>1. ParserInit => ParserInv
  BY DEF ParserInit, ParserInv, CountersAddUp, ArrivalKind
<1>2. ParserInv /\ [ParserNext]_parserVars => ParserInv'
  <2> SUFFICES ASSUME ParserInv, [ParserNext]_parserVars
               PROVE  ParserInv'
    OBVIOUS
  <2> USE DEF ParserInv
  <2>0. UNCHANGED counters => CountersAddUp'
    BY DEF counters, CountersAddUp
  <2>1. CASE ArriveIntact
    <3>1. PICK f \in Frame : Deliver(f, Encode(f), TRUE, TRUE)
      BY <2>1 DEF ArriveIntact
    <3>2. Encode(f) \in Seq(Byte)
      BY EncodeDecodes
    <3> QED BY <2>0, <3>1, <3>2 DEF Deliver, counters
  <2>2. CASE ArriveDamaged
    <3>0. PICK f \in Frame :
            \E i \in DOMAIN Encode(f), x \in Damage :
              Deliver(f, Damaged(Encode(f), i, x), FALSE, TRUE)
      BY <2>2 DEF ArriveDamaged, Damaged
    <3>1. PICK i \in DOMAIN Encode(f), x \in Damage :
            Deliver(f, Damaged(Encode(f), i, x), FALSE, TRUE)
      BY <3>0
    <3>2. i \in 1..Len(Encode(f))
      <4>1. Encode(f) \in Seq(Byte)
        BY EncodeDecodes
      <4> QED BY <4>1
    <3>3. Damaged(Encode(f), i, x) \in Seq(Byte)
      BY <3>2, DamageShows
    <3> QED BY <2>0, <3>1, <3>2, <3>3 DEF Deliver, counters
  <2>3. CASE ArriveTruncated
    <3>0. PICK f \in Frame :
            \E n \in 0..(Len(Encode(f)) - 1) :
              Deliver(f, SubSeq(Encode(f), 1, n), FALSE, FALSE)
      BY <2>3 DEF ArriveTruncated
    <3>1. PICK n \in 0..(Len(Encode(f)) - 1) :
            Deliver(f, SubSeq(Encode(f), 1, n), FALSE, FALSE)
      BY <3>0
    <3>2. SubSeq(Encode(f), 1, n) \in Seq(Byte)
      <4>1. Encode(f) \in Seq(Byte)
        BY EncodeDecodes
      <4>2. Len(Encode(f)) \in Nat /\ \A i \in 1..n : Encode(f)[i] \in Byte
        BY <4>1
      <4> QED BY <4>2, SubSeqProperties
    <3> QED BY <2>0, <3>1, <3>2 DEF Deliver, counters
  <2>4. CASE Parse
    <3>1. data # None /\ result = None /\ result' = ParseResult(data)
      BY <2>4 DEF Parse
    <3>2. UNCHANGED <<frame, data, intact, whole>>
      BY <2>4 DEF Parse
    <3>3. /\ parse_count' = parse_count + 1
          /\ success_count' = success_count + One(~TooShort(data))
          /\ checksum_fail_count' =
               checksum_fail_count + One(~TooShort(data) /\ ~ChecksumOK(data))
          /\ payload_success_count' =
               payload_success_count + One(~TooShort(data) /\ PayloadOf(data) # None)
          /\ parsed' = [parsed EXCEPT ![KindInHand] = @ + 1]
      BY <2>4 DEF Parse
    <3>4. /\ KindInHand \in ArrivalKind
          /\ TooShort(data) <=> KindInHand = "stub"
          /\ ~ChecksumOK(data) => KindInHand \in {"damaged", "cut", "stub"}
          /\ KindInHand = "damaged" => ~ChecksumOK(data)
          /\ KindInHand = "operational" => PayloadOf(data) # None
          /\ KindInHand = "other" => PayloadOf(data) = None
      BY <3>1, KindSays
    <3>5. \A k \in ArrivalKind :
            /\ parsed[k] \in Nat
            /\ parsed'[k] = parsed[k] + (IF k = KindInHand THEN 1 ELSE 0)
      BY <3>3, <3>4
    <3>6. parsed' \in [ArrivalKind -> Nat]
      BY <3>3, <3>4
    <3>7. /\ checksum_fail_count' \in Nat /\ payload_success_count' \in Nat
          /\ CountersAddUp'
      <4> DEFINE o == parsed["operational"]
                 t == parsed["other"]
                 m == parsed["damaged"]
                 c == parsed["cut"]
                 b == parsed["stub"]
      <4>1. /\ o \in Nat /\ t \in Nat /\ m \in Nat /\ c \in Nat /\ b \in Nat
            /\ parse_count = o + t + (m + c) + b /\ success_count = o + t + (m + c)
            /\ m <= checksum_fail_count /\ checksum_fail_count <= m + c
            /\ o <= payload_success_count /\ payload_success_count <= o + (m + c)
            /\ checksum_fail_count \in Nat /\ payload_success_count \in Nat
        BY <3>5 DEF CountersAddUp, ArrivalKind
      <4>2. \A k \in ArrivalKind : parsed'[k] = IF k = KindInHand THEN parsed[k] + 1 ELSE parsed[k]
        BY <3>3, <3>4
      <4>3. CASE KindInHand = "operational"
        <5>1. /\ parsed'["operational"] = o + 1 /\ parsed'["other"] = t
              /\ parsed'["damaged"] = m /\ parsed'["cut"] = c /\ parsed'["stub"] = b
          BY ONLY <4>2, <4>3 DEF ArrivalKind, o, t, m, c, b
        <5>2. /\ parse_count' = parse_count + 1 /\ success_count' = success_count + 1
              /\ checksum_fail_count' = checksum_fail_count
              /\ payload_success_count' = payload_success_count + 1
          BY ONLY <3>3, <3>4, <4>3, <4>1 DEF One
        <5> HIDE DEF o, t, m, c, b
        <5> QED BY ONLY <4>1, <5>1, <5>2 DEF CountersAddUp
      <4>4. CASE KindInHand = "other"
        <5>1. /\ parsed'["operational"] = o /\ parsed'["other"] = t + 1
              /\ parsed'["damaged"] = m /\ parsed'["cut"] = c /\ parsed'["stub"] = b
          BY ONLY <4>2, <4>4 DEF ArrivalKind, o, t, m, c, b
        <5>2. /\ parse_count' = parse_count + 1 /\ success_count' = success_count + 1
              /\ checksum_fail_count' = checksum_fail_count
              /\ payload_success_count' = payload_success_count
          BY ONLY <3>3, <3>4, <4>4, <4>1 DEF One
        <5> HIDE DEF o, t, m, c, b
        <5> QED BY ONLY <4>1, <5>1, <5>2 DEF CountersAddUp
      <4>5. CASE KindInHand = "damaged"
        <5>1. /\ parsed'["operational"] = o /\ parsed'["other"] = t
              /\ parsed'["damaged"] = m + 1 /\ parsed'["cut"] = c /\ parsed'["stub"] = b
          BY ONLY <4>2, <4>5 DEF ArrivalKind, o, t, m, c, b
        <5>2. /\ parse_count' = parse_count + 1 /\ success_count' = success_count + 1
              /\ checksum_fail_count' = checksum_fail_count + 1
              /\ payload_success_count' \in {payload_success_count, payload_success_count + 1}
          BY ONLY <3>3, <3>4, <4>5, <4>1 DEF One
        <5> HIDE DEF o, t, m, c, b
        <5> QED BY ONLY <4>1, <5>1, <5>2 DEF CountersAddUp
      <4>6. CASE KindInHand = "cut"
        <5>1. /\ parsed'["operational"] = o /\ parsed'["other"] = t
              /\ parsed'["damaged"] = m /\ parsed'["cut"] = c + 1 /\ parsed'["stub"] = b
          BY ONLY <4>2, <4>6 DEF ArrivalKind, o, t, m, c, b
        <5>2. /\ parse_count' = parse_count + 1 /\ success_count' = success_count + 1
              /\ checksum_fail_count' \in {checksum_fail_count, checksum_fail_count + 1}
              /\ payload_success_count' \in {payload_success_count, payload_success_count + 1}
          BY ONLY <3>3, <3>4, <4>6, <4>1 DEF One
        <5> HIDE DEF o, t, m, c, b
        <5> QED BY ONLY <4>1, <5>1, <5>2 DEF CountersAddUp
      <4>7. CASE KindInHand = "stub"
        <5>1. /\ parsed'["operational"] = o /\ parsed'["other"] = t
              /\ parsed'["damaged"] = m /\ parsed'["cut"] = c /\ parsed'["stub"] = b + 1
          BY ONLY <4>2, <4>7 DEF ArrivalKind, o, t, m, c, b
        <5>2. /\ parse_count' = parse_count + 1 /\ success_count' = success_count
              /\ checksum_fail_count' = checksum_fail_count
              /\ payload_success_count' = payload_success_count
          BY ONLY <3>3, <3>4, <4>7, <4>1 DEF One
        <5> HIDE DEF o, t, m, c, b
        <5> QED BY ONLY <4>1, <5>1, <5>2 DEF CountersAddUp
      <4> QED BY <3>4, <4>3, <4>4, <4>5, <4>6, <4>7 DEF ArrivalKind
    <3>8. data' # None =>
            /\ data' \in Seq(Byte) /\ frame' \in Frame
            /\ intact' => data' = Encode(frame')
            /\ whole' /\ ~intact' =>
                 \E i \in 1..Len(Encode(frame')), x \in Damage :
                   data' = Damaged(Encode(frame'), i, x)
      BY ONLY <3>2, ParserInv DEF ParserInv
    <3>9. result' # None => data' # None /\ result' = ParseResult(data')
      BY ONLY <3>1, <3>2
    <3> QED BY ONLY <3>6, <3>7, <3>8, <3>9 DEF ParserInv
  <2>5. CASE Dispose
    BY <2>0, <2>5 DEF Dispose, counters
  <2>6. CASE ResetStats
    BY <2>6 DEF ResetStats, CountersAddUp, ArrivalKind
  <2>7. CASE UNCHANGED parserVars
    BY <2>7 DEF parserVars, CountersAddUp
  <2> QED BY <2>1, <2>2, <2>3, <2>4, <2>5, <2>6, <2>7 DEF ParserNext
<1> QED BY <1>1, <1>2, PTL DEF ParserSpec

\* Whatever bytes arrive, a parse yields a result whose parts go together and whose
\* fields are in their ranges.
THEOREM ParserTypeCorrect == ParserSpec => []ParserTypeOK
<1>1. ParserInv => ParserTypeOK
  <2> SUFFICES ASSUME ParserInv PROVE ParserTypeOK
    OBVIOUS
  <2>1. ASSUME result # None
        PROVE  /\ result.success <=> result.header # None
               /\ result.header \in ICDHeader \cup {None}
               /\ result.payload \in OperationalPayload \cup {None}
               /\ result.payload # None => result.header # None
               /\ result.checksum_ok => result.success
    <3>1. data \in Seq(Byte) /\ result = ParseResult(data)
      BY <2>1 DEF ParserInv
    <3> QED BY <3>1, ParseYields
  <2>2. {parse_count, success_count, checksum_fail_count, payload_success_count} \subseteq Nat
    <3>1. \A k \in {"operational", "other", "damaged", "cut", "stub"} : parsed[k] \in Nat
      BY DEF ParserInv, ArrivalKind
    <3>2. parse_count \in Nat /\ success_count \in Nat
      <4>1. \A o, t, m, c, b \in Nat : o + t + (m + c) \in Nat /\ o + t + (m + c) + b \in Nat
        OBVIOUS
      <4> QED BY <3>1, <4>1 DEF ParserInv, CountersAddUp
    <3> QED BY <3>2 DEF ParserInv
  <2> QED BY <2>1, <2>2 DEF ParserInv, ParserTypeOK
<1> QED BY <1>1, ParserInvHolds, PTL

\* For any number of datagrams, however cut or damaged, the counters are those of
\* what was parsed since the reset, each kind counted where it belongs.
THEOREM ParserCountersAddUp == ParserSpec => []CountersAddUp
<1>1. ParserInv => CountersAddUp
  BY DEF ParserInv
<1> QED BY <1>1, ParserInvHolds, PTL

\* For every frame, every byte of its datagram and every change of that byte, the
\* checksum field's two bytes included, the parser reports a wrong checksum.
THEOREM OneByteOfDamageIsNoticed == ParserSpec => []DamageIsNoticed
<1>1. ParserInv => DamageIsNoticed
  <2> SUFFICES ASSUME ParserInv, result # None, whole, ~intact
               PROVE  ~result.checksum_ok
    BY DEF DamageIsNoticed
  <2>1. /\ frame \in Frame /\ result = ParseResult(data)
        /\ \E i \in 1..Len(Encode(frame)), x \in Damage :
             data = Damaged(Encode(frame), i, x)
    BY DEF ParserInv
  <2> QED BY <2>1, DamageShows
<1> QED BY <1>1, ParserInvHolds, PTL

\* Every field of every frame is read back, and the lamps and the device grid show
\* what was sent, for any length of the payload from five bytes on.
THEOREM ParserDecodes == ParserSpec => []DecodesWhatWasSent
<1>1. ParserInv => DecodesWhatWasSent
  <2> SUFFICES ASSUME ParserInv, result # None, intact
               PROVE  Decoded(result, frame)
    BY DEF DecodesWhatWasSent, Decoded, Shows
  <2>1. frame \in Frame /\ result = ParseResult(Encode(frame))
    BY DEF ParserInv
  <2> QED BY <2>1, EncodeDecodes
<1> QED BY <1>1, ParserInvHolds, PTL
===============================================================================
