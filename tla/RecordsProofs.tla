----------------------------- MODULE RecordsProofs -----------------------------
(***************************************************************************)
(* The packet side of the store, for every set of message codes, all       *)
(* thresholds, bounds, clocks and lengths: the loss of calculate(), then   *)
(* the records, their jitter and the chart against all that was added,     *)
(* then the bounds of the numbers the forest is given, and last what the   *)
(* training history says of the newest second against the live statistics. *)
(* The losses are compared as sums, of which the section after the bounds  *)
(* proves what is needed by the least part of a finite set.                *)
(***************************************************************************)
EXTENDS TelemetryStream, RecordsTrace, BoundedSeqProofs

\* calculate() keeps the state of its message code consistent.
LEMMA NextPrevOK ==
  ASSUME NEW p, PrevOK(p), NEW ts \in Int, NEW seq \in Sequence
  PROVE  PrevOK(NextPrev(p, ts, seq)) /\ LossOf(p, ts, seq) \in Nat
<1> USE NoneAssumption, ThresholdAssumption
<1>1. p \in Prev /\ None \notin Sequence
  BY DEF PrevOK, Sequence, MODULUS
<1>2. NextPrev(p, ts, seq) \in Prev
  BY <1>1 DEF NextPrev, Prev, Continues
<1>3. PrevOK(NextPrev(p, ts, seq))
  BY <1>1, <1>2 DEF PrevOK, Prev, NextPrev, Continues, IsRestart
<1>4. ASSUME Continues(p, ts) PROVE SequenceGap(p.sequence, seq) \in 0..15
  <2>1. p.sequence \in Sequence
    BY <1>1, <1>4 DEF PrevOK, Prev, Continues
  <2> QED
    BY <2>1 DEF SequenceGap, Sequence, MODULUS
<1>5. LossOf(p, ts, seq) \in Nat
  BY <1>4 DEF LossOf
<1> QED
  BY <1>3, <1>5

LEMMA CalculateTyped ==
  ASSUME MetricsTypeOK, NEW ts \in Int, NEW m \in MsgCode, NEW seq \in Sequence,
         Calculate(ts, m, seq)
  PROVE  /\ MetricsTypeOK'
         /\ prev_by_msgcode'[m] = NextPrev(prev_by_msgcode[m], ts, seq)
         /\ loss_by_msgcode'[m] = loss_by_msgcode[m] + LossOf(prev_by_msgcode[m], ts, seq)
         /\ \A x \in MsgCode \ {m} : /\ prev_by_msgcode'[x] = prev_by_msgcode[x]
                                     /\ loss_by_msgcode'[x] = loss_by_msgcode[x]
<1> DEFINE p == prev_by_msgcode[m]
<1>1. /\ PrevOK(NextPrev(p, ts, seq)) /\ LossOf(p, ts, seq) \in Nat
  BY NextPrevOK DEF MetricsTypeOK
<1>2. NextPrev(p, ts, seq) \in Prev
  BY <1>1 DEF PrevOK
<1>3. /\ prev_by_msgcode' = [prev_by_msgcode EXCEPT ![m] = NextPrev(p, ts, seq)]
      /\ loss_by_msgcode' = [loss_by_msgcode EXCEPT ![m] = @ + LossOf(p, ts, seq)]
  BY DEF Calculate
<1> QED
  BY <1>1, <1>2, <1>3 DEF MetricsTypeOK

\* Nothing has been received: the state after __init__ and after a reset.
LEMMA UnseenTyped == PrevOK(Unseen)
  BY NoneAssumption DEF PrevOK, Unseen, Prev, Sequence, MODULUS

LEMMA NumberTyped == ASSUME NEW n \in Int PROVE n % MODULUS \in Sequence
  BY DEF MODULUS, Sequence

\* The dicts of NetworkMetrics keep their shape on any stream, reordered or not.
THEOREM StreamTypeCorrect == StreamSpec => []StreamTypeOK
<1> USE StreamAssumption
<1>1. StreamInit => StreamTypeOK
  BY UnseenTyped DEF StreamInit, MetricsInit, StreamTypeOK, MetricsTypeOK, PrevOK
<1>2. StreamTypeOK /\ [StreamNext]_streamVars => StreamTypeOK'
  <2> SUFFICES ASSUME StreamTypeOK, [StreamNext]_streamVars
               PROVE  StreamTypeOK'
    OBVIOUS
  <2>0. clock \in Int
    BY DEF StreamTypeOK
  <2>1. ASSUME NEW m \in MsgCode,
               NEW n \in (newest[m] + 1)..(newest[m] + 1 + MaxBurst[m]), Arrive(m, n)
        PROVE  StreamTypeOK'
    <3>1. n \in Int /\ newest[m] \in Int /\ n - newest[m] - 1 \in Nat
      BY <2>1 DEF StreamTypeOK
    <3>2. MetricsTypeOK'
      BY <2>0, <2>1, <3>1, NumberTyped, CalculateTyped DEF StreamTypeOK, Arrive
    <3> QED
      BY <2>1, <3>1, <3>2 DEF StreamTypeOK, Arrive, Hear
  <2>2. ASSUME NEW m \in MsgCode, NEW n \in skipped[m], ArriveLate(m, n)
        PROVE  StreamTypeOK'
    <3>1. n \in Int
      BY <2>2 DEF StreamTypeOK
    <3>2. MetricsTypeOK'
      BY <2>0, <2>2, <3>1, NumberTyped, CalculateTyped DEF StreamTypeOK, ArriveLate
    <3> QED
      BY <2>2, <3>2 DEF StreamTypeOK, ArriveLate, Hear
  <2>3. ASSUME NEW m \in MsgCode, ArriveAgain(m)
        PROVE  StreamTypeOK'
    <3>1. newest[m] \in Int
      BY <2>3 DEF StreamTypeOK
    <3>2. MetricsTypeOK'
      BY <2>0, <2>3, <3>1, NumberTyped, CalculateTyped DEF StreamTypeOK, ArriveAgain
    <3> QED
      BY <2>3, <3>2 DEF StreamTypeOK, ArriveAgain, Hear
  <2>4. CASE StreamReset
    BY <2>4, UnseenTyped
       DEF StreamReset, MetricsReset, StreamTypeOK, MetricsTypeOK, PrevOK
  <2>5. ASSUME NEW d \in 1..MaxPause, StreamPass(d) PROVE StreamTypeOK'
    BY <2>5 DEF StreamPass, StreamTypeOK, MetricsTypeOK
  <2>6. CASE UNCHANGED streamVars
    BY <2>6 DEF streamVars, StreamTypeOK, MetricsTypeOK
  <2> QED
    BY <2>1, <2>2, <2>3, <2>4, <2>5, <2>6 DEF StreamNext
<1> QED
  BY <1>1, <1>2, PTL DEF StreamSpec

-----------------------------------------------------------------------------

\* Four bits tell how far apart two numbers are, up to 15.
LEMMA GapIsExact ==
  ASSUME NEW a \in Int, NEW b \in Int, a <= b, b - a <= 15
  PROVE  SequenceGap(a % MODULUS, b % MODULUS) = b - a
  BY DEF SequenceGap, MODULUS

\* What ties the counter to the stream: the packet remembered for a message
\* code is the newest one, and it was remembered when it was heard.
Remembers(m) ==
  /\ prev_by_msgcode[m].timestamp = heard[m]
  /\ heard[m] # None => prev_by_msgcode[m].sequence = newest[m] % MODULUS

Orderly == MsgCode \ Reordered

LossInv == StreamTypeOK /\ LossIsExact /\ \A m \in Orderly : Remembers(m)

\* A packet at most 15 numbers ahead adds exactly what the stream skipped.
LEMMA LossOfArrival ==
  ASSUME LossInv, NEW m \in Orderly, NEW n \in Int,
         newest[m] <= n, n - newest[m] <= 15
  PROVE  LossOf(prev_by_msgcode[m], clock, n % MODULUS) =
           IF InStream(m) /\ n > newest[m] THEN n - newest[m] - 1 ELSE 0
<1> DEFINE p == prev_by_msgcode[m]
<1>1. /\ newest[m] \in Int /\ clock \in Int /\ heard[m] \in Int \cup {None}
      /\ p.timestamp = heard[m] /\ STREAM_RESTART_GAP \in Int
  BY ThresholdAssumption DEF LossInv, StreamTypeOK, Remembers, Orderly
<1>2. Continues(p, clock) <=> InStream(m)
  BY <1>1 DEF Continues, IsRestart, InStream
<1>3. CASE ~InStream(m)
  BY <1>2, <1>3 DEF LossOf
<1>4. CASE InStream(m)
  <2>1. p.sequence = newest[m] % MODULUS
    BY <1>4 DEF LossInv, Remembers, InStream
  <2>2. p.sequence # None
    BY <1>1, <2>1, NumberTyped, NoneAssumption DEF Sequence, MODULUS
  <2>3. SequenceGap(p.sequence, n % MODULUS) = n - newest[m]
    BY <1>1, <2>1, GapIsExact
  <2>4. LossOf(p, clock, n % MODULUS) =
          IF n - newest[m] > 1 THEN n - newest[m] - 1 ELSE 0
    BY <1>2, <1>4, <2>2, <2>3 DEF LossOf
  <2> QED
    BY <1>1, <1>4, <2>4
<1> QED
  BY <1>3, <1>4

\* Packets in order with bursts of at most 14 lost packets: the loss of
\* calculate() is exact, over wrap-arounds, duplicates, silences and resets.
THEOREM LossExactCorrect ==
  ASSUME \A m \in Orderly : MaxBurst[m] <= 14
  PROVE  StreamSpec => []LossIsExact
<1> USE StreamAssumption DEF Orderly
<1>1. StreamInit /\ StreamTypeOK => LossInv
  BY DEF StreamInit, MetricsInit, LossInv, LossIsExact, Remembers, Unseen
<1>2. LossInv /\ StreamTypeOK' /\ [StreamNext]_streamVars => LossInv'
  <2> SUFFICES ASSUME LossInv, StreamTypeOK', [StreamNext]_streamVars
               PROVE  LossIsExact' /\ \A x \in Orderly : Remembers(x)'
    BY DEF LossInv
  <2>0. StreamTypeOK /\ MetricsTypeOK /\ clock \in Int
    BY DEF LossInv, StreamTypeOK
  <2>t. /\ missed \in [MsgCode -> Nat] /\ heard \in [MsgCode -> Int \cup {None}]
        /\ newest \in [MsgCode -> Int]
    BY <2>0 DEF StreamTypeOK
  \* what a packet of one code leaves alone, for the others
  <2>o. ASSUME NEW m \in MsgCode, NEW n \in Int, Calculate(clock, m, n % MODULUS), Hear(m),
               \A x \in MsgCode \ {m} : newest'[x] = newest[x] /\ missed'[x] = missed[x],
               NEW x \in Orderly, x # m
        PROVE  loss_by_msgcode'[x] = missed'[x] /\ Remembers(x)'
    <3>1. /\ prev_by_msgcode'[x] = prev_by_msgcode[x]
          /\ loss_by_msgcode'[x] = loss_by_msgcode[x]
      BY <2>0, <2>o, NumberTyped, CalculateTyped
    <3> QED
      BY <2>o, <2>t, <3>1 DEF LossInv, LossIsExact, Remembers, Hear
  \* the two ways a packet can arrive in order, as one
  <2>a. ASSUME NEW m \in Orderly, NEW n \in Int,
               newest[m] <= n, n - newest[m] <= 15,
               Calculate(clock, m, n % MODULUS), Hear(m),
               newest' = [newest EXCEPT ![m] = n],
               missed' = IF InStream(m) /\ n > newest[m]
                         THEN [missed EXCEPT ![m] = @ + (n - newest[m] - 1)]
                         ELSE missed
        PROVE  LossIsExact' /\ \A x \in Orderly : Remembers(x)'
    <3>1. /\ prev_by_msgcode'[m] = NextPrev(prev_by_msgcode[m], clock, n % MODULUS)
          /\ loss_by_msgcode'[m] =
               loss_by_msgcode[m] + LossOf(prev_by_msgcode[m], clock, n % MODULUS)
      BY <2>0, <2>a, NumberTyped, CalculateTyped
    <3>2. LossOf(prev_by_msgcode[m], clock, n % MODULUS) =
            IF InStream(m) /\ n > newest[m] THEN n - newest[m] - 1 ELSE 0
      BY <2>a, LossOfArrival
    <3>3. loss_by_msgcode[m] = missed[m]
      BY DEF LossInv, LossIsExact
    <3>4. loss_by_msgcode'[m] = missed'[m]
      BY <2>a, <2>t, <3>1, <3>2, <3>3
    <3>5. Remembers(m)'
      BY <2>a, <2>t, <3>1 DEF Remembers, NextPrev, Hear
    <3>6. \A x \in MsgCode \ {m} : newest'[x] = newest[x] /\ missed'[x] = missed[x]
      BY <2>a, <2>t
    <3>7. ASSUME NEW x \in Orderly, x # m
          PROVE  loss_by_msgcode'[x] = missed'[x] /\ Remembers(x)'
      BY <2>a, <2>o, <3>6, <3>7
    <3> QED
      BY <3>4, <3>5, <3>7 DEF LossIsExact
  \* a packet of a code that may come late
  <2>b. ASSUME NEW m \in Reordered, NEW n \in Int, Calculate(clock, m, n % MODULUS), Hear(m),
               \A x \in MsgCode \ {m} : newest'[x] = newest[x] /\ missed'[x] = missed[x]
        PROVE  LossIsExact' /\ \A x \in Orderly : Remembers(x)'
    <3>1. ASSUME NEW x \in Orderly
          PROVE  loss_by_msgcode'[x] = missed'[x] /\ Remembers(x)'
      BY <2>b, <2>o, <3>1
    <3> QED
      BY <3>1 DEF LossIsExact
  <2>1. ASSUME NEW m \in MsgCode,
               NEW n \in (newest[m] + 1)..(newest[m] + 1 + MaxBurst[m]), Arrive(m, n)
        PROVE  LossIsExact' /\ \A x \in Orderly : Remembers(x)'
    <3>1. n \in Int /\ newest[m] \in Int /\ n > newest[m] /\ newest[m] <= n
      BY <2>t, <2>1
    <3>2. /\ Calculate(clock, m, n % MODULUS) /\ Hear(m)
          /\ newest' = [newest EXCEPT ![m] = n]
          /\ missed' = IF InStream(m) /\ n > newest[m]
                       THEN [missed EXCEPT ![m] = @ + (n - newest[m] - 1)]
                       ELSE missed
      BY <2>1, <3>1 DEF Arrive
    <3>3. CASE m \in Orderly
      <4>1. n - newest[m] <= 15
        BY <2>t, <2>1, <3>1, <3>3
      <4> QED
        BY <2>a, <3>1, <3>2, <3>3, <4>1, Zenon
    <3>4. CASE m \in Reordered
      <4>1. \A x \in MsgCode \ {m} : newest'[x] = newest[x] /\ missed'[x] = missed[x]
        BY <2>t, <3>2
      <4> QED
        BY <2>b, <3>1, <3>2, <3>4, <4>1, Zenon
    <3> QED
      BY <3>3, <3>4
  <2>2. ASSUME NEW m \in MsgCode, NEW n \in skipped[m], ArriveLate(m, n)
        PROVE  LossIsExact' /\ \A x \in Orderly : Remembers(x)'
    <3>1. n \in Int
      BY <2>0, <2>2 DEF StreamTypeOK
    <3>2. m \in Reordered /\ Calculate(clock, m, n % MODULUS) /\ Hear(m)
          /\ \A x \in MsgCode \ {m} : newest'[x] = newest[x] /\ missed'[x] = missed[x]
      BY <2>2 DEF ArriveLate
    <3> QED
      BY <2>b, <3>1, <3>2, Zenon
  <2>3. ASSUME NEW m \in MsgCode, ArriveAgain(m)
        PROVE  LossIsExact' /\ \A x \in Orderly : Remembers(x)'
    <3>1. newest[m] \in Int /\ newest[m] <= newest[m] /\ newest[m] - newest[m] <= 15
      BY <2>t, <2>3
    <3>2. /\ Calculate(clock, m, newest[m] % MODULUS) /\ Hear(m)
          /\ newest' = [newest EXCEPT ![m] = newest[m]]
          /\ missed' = IF InStream(m) /\ newest[m] > newest[m]
                       THEN [missed EXCEPT ![m] = @ + (newest[m] - newest[m] - 1)]
                       ELSE missed
          /\ newest' = newest /\ missed' = missed
      BY <2>t, <2>3, <3>1 DEF ArriveAgain
    <3>3. CASE m \in Orderly
      BY <2>a, <3>1, <3>2, <3>3, Zenon
    <3>4. CASE m \in Reordered
      BY <2>b, <3>1, <3>2, <3>4, Zenon
    <3> QED
      BY <3>3, <3>4
  <2>4. CASE StreamReset
    BY <2>4 DEF StreamReset, MetricsReset, LossIsExact, Remembers, Unseen
  <2>5. ASSUME NEW d \in 1..MaxPause, StreamPass(d)
        PROVE  LossIsExact' /\ \A x \in Orderly : Remembers(x)'
    BY <2>5 DEF StreamPass, LossInv, LossIsExact, Remembers
  <2>6. CASE UNCHANGED streamVars
    BY <2>6 DEF streamVars, LossInv, LossIsExact, Remembers
  <2> QED
    BY <2>1, <2>2, <2>3, <2>4, <2>5, <2>6 DEF StreamNext
<1>3. LossInv => LossIsExact
  BY DEF LossInv
<1> QED
  BY <1>1, <1>2, <1>3, StreamTypeCorrect, PTL DEF StreamSpec

-----------------------------------------------------------------------------

\* A code whose packets may come late: the packet remembered is one of the last
\* MaxLag + 1 numbers, and so are those that may still arrive.
RemembersRecent(m) ==
  /\ prev_by_msgcode[m].timestamp = heard[m]
  /\ heard[m] # None =>
       \E k \in (newest[m] - MaxLag)..newest[m] :
         prev_by_msgcode[m].sequence = k % MODULUS

LateInv ==
  /\ StreamTypeOK
  /\ LossIsNeverUnderstated
  /\ \A m \in Reordered : RemembersRecent(m)
  /\ \A m \in Reordered : skipped[m] \subseteq (newest[m] - MaxLag)..newest[m]

\* A new packet adds at least what the stream skipped, though the packet it is
\* compared with may be older than the newest one.
LEMMA LossOfArrivalAtLeast ==
  ASSUME LateInv, NEW m \in Reordered, MaxBurst[m] + MaxLag <= 14, NEW n \in Int,
         newest[m] < n, n <= newest[m] + 1 + MaxBurst[m], InStream(m)
  PROVE  LossOf(prev_by_msgcode[m], clock, n % MODULUS) >= n - newest[m] - 1
<1> DEFINE p == prev_by_msgcode[m]
<1>1. /\ m \in MsgCode /\ newest[m] \in Int /\ clock \in Int
      /\ heard[m] \in Int \cup {None} /\ p.timestamp = heard[m]
      /\ MaxLag \in Nat /\ MaxBurst[m] \in Nat /\ STREAM_RESTART_GAP \in Int
  BY StreamAssumption, ThresholdAssumption DEF LateInv, StreamTypeOK, RemembersRecent
<1>2. Continues(p, clock)
  BY <1>1 DEF Continues, IsRestart, InStream
<1>3. PICK k \in (newest[m] - MaxLag)..newest[m] : p.sequence = k % MODULUS
  BY DEF LateInv, RemembersRecent, InStream
<1>4. k \in Int /\ k <= n /\ n - k <= 15 /\ n - k >= n - newest[m] /\ n - k >= 1
  BY <1>1, <1>3
<1>5. p.sequence # None
  BY <1>3, <1>4, NumberTyped, NoneAssumption DEF Sequence, MODULUS
<1>6. SequenceGap(p.sequence, n % MODULUS) = n - k
  BY <1>3, <1>4, GapIsExact
<1>7. LossOf(p, clock, n % MODULUS) = IF n - k > 1 THEN n - k - 1 ELSE 0
  BY <1>2, <1>5, <1>6 DEF LossOf
<1> QED
  BY <1>1, <1>4, <1>7

\* Late packets only ever add to the loss of their code, for bursts and lags that
\* four bits can tell together.
THEOREM LossNeverUnderstatedCorrect ==
  ASSUME \A m \in Reordered : MaxBurst[m] + MaxLag <= 14
  PROVE  StreamSpec => []LossIsNeverUnderstated
<1> USE StreamAssumption
<1>1. StreamInit /\ StreamTypeOK => LateInv
  BY DEF StreamInit, MetricsInit, LateInv, LossIsNeverUnderstated, RemembersRecent, Unseen
<1>2. LateInv /\ StreamTypeOK' /\ [StreamNext]_streamVars => LateInv'
  <2> DEFINE Kept(x) == /\ loss_by_msgcode[x] >= missed[x]
                        /\ RemembersRecent(x)
                        /\ skipped[x] \subseteq (newest[x] - MaxLag)..newest[x]
  <2> SUFFICES ASSUME LateInv, StreamTypeOK', [StreamNext]_streamVars, NEW x \in Reordered
               PROVE  Kept(x)'
    BY DEF LateInv, LossIsNeverUnderstated
  <2>0. StreamTypeOK /\ MetricsTypeOK /\ clock \in Int /\ x \in MsgCode
    BY DEF LateInv, StreamTypeOK
  <2>t. /\ missed \in [MsgCode -> Nat] /\ heard \in [MsgCode -> Int \cup {None}]
        /\ newest \in [MsgCode -> Int] /\ skipped \in [MsgCode -> SUBSET Int]
        /\ loss_by_msgcode \in [MsgCode -> Nat]
    BY <2>0 DEF StreamTypeOK, MetricsTypeOK
  <2>k. Kept(x)
    BY DEF LateInv, LossIsNeverUnderstated
  \* a packet of another code
  <2>o. ASSUME NEW m \in MsgCode, NEW n \in Int, Calculate(clock, m, n % MODULUS), Hear(m),
               x # m, newest'[x] = newest[x], missed'[x] = missed[x],
               skipped'[x] = skipped[x]
        PROVE  Kept(x)'
    <3>1. /\ prev_by_msgcode'[x] = prev_by_msgcode[x]
          /\ loss_by_msgcode'[x] = loss_by_msgcode[x]
      BY <2>0, <2>o, NumberTyped, CalculateTyped
    <3> QED
      BY <2>o, <2>t, <2>k, <3>1 DEF RemembersRecent, Hear
  \* a packet of this code: its number is remembered, and the loss does not fall
  <2>s. ASSUME NEW n \in Int, Calculate(clock, x, n % MODULUS), Hear(x)
        PROVE  /\ prev_by_msgcode'[x].timestamp = heard'[x]
               /\ prev_by_msgcode'[x].sequence = n % MODULUS
               /\ loss_by_msgcode'[x] =
                    loss_by_msgcode[x] + LossOf(prev_by_msgcode[x], clock, n % MODULUS)
               /\ LossOf(prev_by_msgcode[x], clock, n % MODULUS) \in Nat
    <3>1. /\ prev_by_msgcode'[x] = NextPrev(prev_by_msgcode[x], clock, n % MODULUS)
          /\ loss_by_msgcode'[x] =
               loss_by_msgcode[x] + LossOf(prev_by_msgcode[x], clock, n % MODULUS)
      BY <2>0, <2>s, NumberTyped, CalculateTyped
    <3>2. LossOf(prev_by_msgcode[x], clock, n % MODULUS) \in Nat
      BY <2>0, NumberTyped, NextPrevOK DEF MetricsTypeOK
    <3> QED
      BY <2>0, <2>s, <2>t, <3>1, <3>2 DEF NextPrev, Hear
  <2>1. ASSUME NEW m \in MsgCode,
               NEW n \in (newest[m] + 1)..(newest[m] + 1 + MaxBurst[m]), Arrive(m, n)
        PROVE  Kept(x)'
    <3>1. n \in Int /\ newest[m] \in Int /\ n > newest[m]
      BY <2>t, <2>1
    <3>2. CASE m # x
      BY <2>o, <2>t, <2>1, <3>1, <3>2 DEF Arrive
    <3>3. CASE m = x
      <4>1. /\ prev_by_msgcode'[x].timestamp = heard'[x]
            /\ prev_by_msgcode'[x].sequence = n % MODULUS
            /\ loss_by_msgcode'[x] =
                 loss_by_msgcode[x] + LossOf(prev_by_msgcode[x], clock, n % MODULUS)
            /\ LossOf(prev_by_msgcode[x], clock, n % MODULUS) \in Nat
        BY <2>s, <2>1, <3>1, <3>3 DEF Arrive
      <4>2. InStream(x) =>
              LossOf(prev_by_msgcode[x], clock, n % MODULUS) >= n - newest[x] - 1
        BY <2>1, <3>1, <3>3, LossOfArrivalAtLeast
      <4>3. /\ newest'[x] = n /\ n \in (n - MaxLag)..n
            /\ missed'[x] = IF InStream(x) THEN missed[x] + (n - newest[x] - 1)
                            ELSE missed[x]
            /\ skipped'[x] = {k \in skipped[x] \cup ((newest[x] + 1)..(n - 1)) :
                                n - k <= MaxLag}
        BY <2>t, <2>1, <3>1, <3>3 DEF Arrive
      <4>4. loss_by_msgcode'[x] >= missed'[x]
        BY <2>t, <2>k, <3>1, <3>3, <4>1, <4>2, <4>3
      <4>5. RemembersRecent(x)'
        BY <4>1, <4>3 DEF RemembersRecent
      <4>6. skipped'[x] \subseteq (newest'[x] - MaxLag)..newest'[x]
        <5>1. ASSUME NEW k \in skipped'[x] PROVE k \in Int /\ k <= n /\ n - k <= MaxLag
          <6>1. k \in skipped[x] => k \in Int /\ k <= newest[x]
            BY <2>t, <2>k, <2>0
          <6> QED BY <3>1, <3>3, <4>3, <5>1, <6>1
        <5> QED BY <3>1, <4>3, <5>1
      <4> QED BY <4>4, <4>5, <4>6
    <3> QED BY <3>2, <3>3
  <2>2. ASSUME NEW m \in MsgCode, NEW n \in skipped[m], ArriveLate(m, n)
        PROVE  Kept(x)'
    <3>1. n \in Int
      BY <2>t, <2>2
    <3>2. CASE m # x
      BY <2>o, <2>t, <2>2, <3>1, <3>2 DEF ArriveLate
    <3>3. CASE m = x
      <4>1. /\ prev_by_msgcode'[x].timestamp = heard'[x]
            /\ prev_by_msgcode'[x].sequence = n % MODULUS
            /\ loss_by_msgcode'[x] =
                 loss_by_msgcode[x] + LossOf(prev_by_msgcode[x], clock, n % MODULUS)
            /\ LossOf(prev_by_msgcode[x], clock, n % MODULUS) \in Nat
        BY <2>s, <2>2, <3>1, <3>3 DEF ArriveLate
      <4>2. /\ newest' = newest /\ missed' = missed
            /\ n \in (newest[x] - MaxLag)..newest[x]
            /\ skipped'[x] \subseteq skipped[x]
        BY <2>t, <2>k, <2>2, <3>3 DEF ArriveLate
      <4>3. RemembersRecent(x)'
        BY <4>1, <4>2 DEF RemembersRecent
      <4> QED BY <2>t, <2>k, <2>0, <4>1, <4>2, <4>3
    <3> QED BY <3>2, <3>3
  <2>3. ASSUME NEW m \in MsgCode, ArriveAgain(m)
        PROVE  Kept(x)'
    <3>1. newest[m] \in Int
      BY <2>t, <2>3
    <3>2. CASE m # x
      BY <2>o, <2>3, <3>1, <3>2 DEF ArriveAgain
    <3>3. CASE m = x
      <4>1. /\ prev_by_msgcode'[x].timestamp = heard'[x]
            /\ prev_by_msgcode'[x].sequence = newest[x] % MODULUS
            /\ loss_by_msgcode'[x] =
                 loss_by_msgcode[x] + LossOf(prev_by_msgcode[x], clock, newest[x] % MODULUS)
            /\ LossOf(prev_by_msgcode[x], clock, newest[x] % MODULUS) \in Nat
        BY <2>s, <2>3, <3>1, <3>3 DEF ArriveAgain
      <4>2. /\ newest' = newest /\ missed' = missed /\ skipped' = skipped
            /\ newest[x] \in (newest[x] - MaxLag)..newest[x]
        BY <2>3, <3>1, <3>3 DEF ArriveAgain
      <4>3. RemembersRecent(x)'
        BY <4>1, <4>2 DEF RemembersRecent
      <4> QED BY <2>t, <2>k, <2>0, <4>1, <4>2, <4>3
    <3> QED BY <3>2, <3>3
  <2>4. CASE StreamReset
    BY <2>4, <2>k, <2>0 DEF StreamReset, MetricsReset, RemembersRecent, Unseen
  <2>5. ASSUME NEW d \in 1..MaxPause, StreamPass(d) PROVE Kept(x)'
    BY <2>5, <2>k DEF StreamPass, RemembersRecent
  <2>6. CASE UNCHANGED streamVars
    BY <2>6, <2>k DEF streamVars, RemembersRecent
  <2> QED
    BY <2>1, <2>2, <2>3, <2>4, <2>5, <2>6 DEF StreamNext
<1>3. LateInv => LossIsNeverUnderstated
  BY DEF LateInv
<1> QED
  BY <1>1, <1>2, <1>3, StreamTypeCorrect, PTL DEF StreamSpec
-----------------------------------------------------------------------------

\* The largest of some positions is one of them.
LEMMA MaxOfPositions ==
  ASSUME NEW n \in Nat, NEW S \in SUBSET (1..n), S # {}
  PROVE  Max(S) \in S /\ \A y \in S : y <= Max(S)
<1> DEFINE A == {n - x : x \in S}
<1>1. A \in SUBSET Nat /\ A # {}
  <2>1. ASSUME NEW x \in S PROVE n - x \in Nat
    <3>1. x \in 1..n
      OBVIOUS
    <3> QED BY <3>1
  <2>2. PICK x \in S : TRUE
    OBVIOUS
  <2> QED BY <2>1, <2>2
<1> HIDE DEF A
<1>2. PICK a \in A : \A b \in A : a <= b
  BY <1>1, LeastNatural
<1>3. PICK x \in S : a = n - x
  BY DEF A
<1>4. \A y \in S : x >= y
  <2>1. ASSUME NEW y \in S PROVE x >= y
    <3>1. n - y \in A
      BY DEF A
    <3> QED BY <1>2, <1>3, <3>1
  <2> QED BY <2>1
<1> QED BY <1>4 DEF Max

LEMMA JitterTyped ==
  ASSUME NEW p, PrevOK(p), NEW ts \in Int
  PROVE  /\ JitterOf(p, ts) \in Nat \cup {None}
         /\ JitterOf(p, ts) # None => JitterOf(p, ts) <= JITTER_NOISE
         /\ IntervalOf(p, ts) \in Int \cup {None}
  BY NoneAssumption, ThresholdAssumption
     DEF JitterOf, IntervalOf, PrevOK, Prev, Continues, Abs

\* _prune_old_records() after an append: it drops a few records from the head,
\* all of them too old, and stops at one that is not.
LEMMA PruneDropsHead ==
  ASSUME NEW rs \in Seq(Record), NEW cutoff \in Int, rs # <<>>,
         rs[Len(rs)].timestamp >= cutoff
  PROVE  \E k \in 0..(Len(rs) - 1) :
           /\ Prune(rs, cutoff) \in Seq(Record)
           /\ Len(Prune(rs, cutoff)) = Len(rs) - k
           /\ \A i \in 1..(Len(rs) - k) : Prune(rs, cutoff)[i] = rs[i + k]
           /\ \A i \in 1..k : rs[i].timestamp < cutoff
           /\ rs[k + 1].timestamp >= cutoff
<1> DEFINE IsOld(k) == /\ \A i \in 1..k : rs[i].timestamp < cutoff
                       /\ k < Len(rs) => rs[k + 1].timestamp >= cutoff
           A == {k \in Nat : k < Len(rs) /\ rs[k + 1].timestamp >= cutoff}
           old == CHOOSE k \in 0..Len(rs) : IsOld(k)
<1>1. Len(rs) \in Nat /\ Len(rs) # 0 /\ \A i \in 1..Len(rs) : rs[i].timestamp \in Int
  <2>1. \A i \in 1..Len(rs) : rs[i] \in Record
    BY ElementOfSeq
  <2> QED BY <2>1, EmptySeq, LenProperties DEF Record
<1>2. \E k \in 0..Len(rs) : IsOld(k)
  <2>1. A \in SUBSET Nat /\ Len(rs) - 1 \in A
    BY <1>1
  <2>2. PICK k \in A : \A j \in A : k <= j
    <3> HIDE DEF A
    <3> QED BY <2>1, LeastNatural
  <2>3. ASSUME NEW i \in 1..k PROVE rs[i].timestamp < cutoff
    <3>1. k \in Nat /\ k < Len(rs)
      OBVIOUS
    <3>2. i - 1 \in Nat /\ i - 1 < Len(rs) /\ i - 1 + 1 = i /\ i \in 1..Len(rs) /\ ~(k <= i - 1)
      BY <1>1, <3>1
    <3>3. i - 1 \notin A
      BY <2>2, <3>2
    <3> QED BY <1>1, <3>2, <3>3
  <2> QED BY <1>1, <2>2, <2>3
<1>3. old \in 0..Len(rs) /\ IsOld(old)
  <2> HIDE DEF IsOld
  <2> QED BY <1>2
<1>4. Prune(rs, cutoff) = SubSeq(rs, old + 1, Len(rs))
  BY DEF Prune
<1> HIDE DEF old
<1>5. old \in 0..(Len(rs) - 1)
  BY <1>1, <1>3
<1>6. /\ Prune(rs, cutoff) \in Seq(Record) /\ Len(Prune(rs, cutoff)) = Len(rs) - old
      /\ \A i \in 1..(Len(rs) - old) : Prune(rs, cutoff)[i] = rs[i + old]
  <2> DEFINE t == Prune(rs, cutoff)
             a == old + 1
             b == Len(rs)
  <2>1. a \in Int /\ b \in Int /\ a <= b /\ \A i \in a..b : rs[i] \in Record
    BY <1>1, <1>5, ElementOfSeq
  <2>2. b - a + 1 = Len(rs) - old /\ t = SubSeq(rs, a, b)
    BY <1>1, <1>4, <1>5
  <2> HIDE DEF a, b, t
  <2>3. t \in Seq(Record) /\ Len(t) = b - a + 1 /\ \A i \in 1..(b - a + 1) : t[i] = rs[a + i - 1]
    BY <2>1, <2>2, SubSeqProperties
  <2>4. \A i \in 1..(Len(rs) - old) : a + i - 1 = i + old
    BY <1>1, <1>5 DEF a
  <2> QED BY <2>2, <2>3, <2>4 DEF t
<1>7. (\A i \in 1..old : rs[i].timestamp < cutoff) /\ rs[old + 1].timestamp >= cutoff
  BY <1>1, <1>3, <1>5
<1> HIDE DEF IsOld, A
<1> QED BY <1>5, <1>6, <1>7

\* add() as a whole: the deque keeps its records from some place on, followed by
\* the new one; what it drops is the oldest record of a full deque, or too old.
IsStored(r, ts, m, k) ==
  /\ r.timestamp = ts /\ r.msg_code = m
  /\ r.jitter_ms = JitterOf(prev_by_msgcode[m], ts)
  /\ records' \in Seq(Record)
  /\ Len(records') = Len(records) + 1 - k /\ Len(records') \in 1..MaxRecords
  /\ records'[Len(records')] = r
  /\ \A i \in 1..(Len(records') - 1) : records'[i] = records[i + k]
  /\ \A i \in 1..k : \/ i = 1 /\ Len(records) = MaxRecords
                     \/ records[i].timestamp < ts - Window
  /\ records'[1].timestamp >= ts - Window

LEMMA AddStores ==
  ASSUME RecordsTypeOK, NEW ts \in Int, NEW m \in MsgCode, NEW seq \in Sequence,
         Add(ts, m, seq)
  PROVE  \E r \in Record, k \in 0..Len(records) : IsStored(r, ts, m, k) /\ r.sequence = seq
<1> DEFINE p == prev_by_msgcode[m]
           r == [timestamp |-> ts, msg_code |-> m, sequence |-> seq,
                 jitter_ms |-> JitterOf(p, ts), interval_ms |-> IntervalOf(p, ts)]
           u == Append(records, r)
           t == AppendBounded(records, r, MaxRecords)
<1>1. /\ r \in Record /\ r.timestamp = ts /\ r.msg_code = m /\ r.sequence = seq
      /\ r.jitter_ms = JitterOf(p, ts)
  BY JitterTyped DEF Record, RecordsTypeOK, MetricsTypeOK
<1>2. records' = Prune(t, ts - Window) /\ ts - Window \in Int /\ ts >= ts - Window
  BY RecordsAssumption DEF Add
<1> HIDE DEF r
<1>3. /\ records \in Seq(Record) /\ Len(records) \in Nat /\ Len(records) <= MaxRecords
      /\ u \in Seq(Record) /\ Len(u) = Len(records) + 1 /\ u[Len(records) + 1] = r
      /\ \A i \in 1..Len(records) : u[i] = records[i]
  BY <1>1, AppendProperties, LenProperties DEF RecordsTypeOK
<1>4. /\ t \in Seq(Record)
      /\ Len(t) = IF Len(records) + 1 <= MaxRecords THEN Len(records) + 1 ELSE MaxRecords
      /\ \A i \in 1..Len(t) : t[i] = u[Len(u) - Len(t) + i]
  <2>1. t = LastN(u, MaxRecords)
    BY DEF AppendBounded
  <2>2. MaxRecords \in Nat \ {0}
    BY RecordsAssumption
  <2> HIDE DEF u, t
  <2>3. /\ t \in Seq(Record)
        /\ Len(t) = IF Len(u) <= MaxRecords THEN Len(u) ELSE MaxRecords
        /\ \A i \in 1..Len(t) : t[i] = u[Len(u) - Len(t) + i]
    BY <1>3, <2>1, <2>2, LastNEnds
  <2> QED BY <1>3, <2>3
<1> HIDE DEF t, u
<1> DEFINE o == IF Len(records) = MaxRecords THEN 1 ELSE 0
<1>5. /\ o \in 0..1 /\ (o = 1 => Len(records) = MaxRecords)
      /\ Len(t) \in 1..MaxRecords /\ Len(t) = Len(records) + 1 - o
      /\ \A i \in 1..Len(t) : t[i] = u[o + i]
  <2>1. MaxRecords \in Nat \ {0}
    BY RecordsAssumption
  <2>2. /\ Len(u) - Len(t) = o
        /\ Len(t) \in 1..MaxRecords /\ Len(t) = Len(records) + 1 - o
    <3>1. CASE Len(records) = MaxRecords
      <4>1. Len(t) = MaxRecords /\ o = 1 /\ Len(u) - Len(t) = 1
        BY <1>3, <1>4, <2>1, <3>1
      <4> QED BY <2>1, <3>1, <4>1
    <3>2. CASE Len(records) # MaxRecords
      <4>1. Len(t) = Len(records) + 1 /\ o = 0 /\ Len(u) - Len(t) = 0
        BY <1>3, <1>4, <2>1, <3>2
      <4> QED BY <1>3, <2>1, <3>2, <4>1
    <3> QED BY <3>1, <3>2
  <2>3. o \in 0..1 /\ (o = 1 => Len(records) = MaxRecords)
    OBVIOUS
  <2> HIDE DEF o
  <2>4. \A i \in 1..Len(t) : t[i] = u[o + i]
    BY <1>4, <2>2
  <2> QED BY <2>2, <2>3, <2>4
<1> HIDE DEF o
<1>6. t # <<>> /\ t[Len(t)] = r
  <2>1. o + Len(t) = Len(records) + 1 /\ Len(t) \in 1..Len(t)
    BY <1>3, <1>5
  <2>2. t # <<>>
    BY <1>5
  <2> QED BY <1>3, <1>5, <2>1, <2>2
<1>7. PICK j \in 0..(Len(t) - 1) :
        /\ Prune(t, ts - Window) \in Seq(Record)
        /\ Len(Prune(t, ts - Window)) = Len(t) - j
        /\ \A i \in 1..(Len(t) - j) : Prune(t, ts - Window)[i] = t[i + j]
        /\ \A i \in 1..j : t[i].timestamp < ts - Window
        /\ t[j + 1].timestamp >= ts - Window
  BY <1>1, <1>2, <1>4, <1>6, PruneDropsHead
<1> DEFINE k == o + j
<1>8. k \in 0..Len(records) /\ Len(records') = Len(records) + 1 - k
      /\ Len(records') \in 1..MaxRecords /\ Len(records') = Len(t) - j
  <2>1. Len(records') = Len(t) - j
    BY <1>2, <1>7
  <2>2. o \in 0..1 /\ j \in 0..(Len(t) - 1) /\ MaxRecords \in Nat
    BY <1>5, RecordsAssumption
  <2>3. Len(records) \in Nat /\ Len(t) \in 1..MaxRecords /\ Len(t) = Len(records) + 1 - o
    BY <1>3, <1>5
  <2>4. Len(records') \in 1..MaxRecords
    BY ONLY <2>1, <2>2, <2>3
  <2>5. k \in 0..Len(records) /\ Len(records') = Len(records) + 1 - k
    BY ONLY <2>1, <2>2, <2>3
  <2> QED BY <2>1, <2>4, <2>5
<1>9. /\ records' \in Seq(Record)
      /\ records'[Len(records')] = r
      /\ records'[1].timestamp >= ts - Window
  <2>1. Len(t) - j \in 1..(Len(t) - j) /\ Len(t) - j + j = Len(t) /\ 1 \in 1..(Len(t) - j)
        /\ 1 + j = j + 1
    BY <1>5, <1>7
  <2> QED BY <1>2, <1>6, <1>7, <1>8, <2>1
<1>10. ASSUME NEW i \in 1..(Len(records') - 1) PROVE records'[i] = records[i + k]
  <2>1. /\ i \in 1..(Len(t) - j) /\ i + j \in 1..Len(t) /\ i + k \in 1..Len(records)
        /\ o + (i + j) = i + k
    BY <1>3, <1>5, <1>8
  <2>2. records'[i] = t[i + j] /\ t[i + j] = u[i + k]
    BY <1>2, <1>5, <1>7, <2>1
  <2> QED BY <1>3, <2>1, <2>2
<1>11. ASSUME NEW i \in 1..k
       PROVE  \/ i = 1 /\ Len(records) = MaxRecords
              \/ records[i].timestamp < ts - Window
  <2>1. CASE i > o
    <3>1. /\ i - o \in 1..j /\ i - o \in 1..Len(t) /\ o + (i - o) = i
          /\ i \in 1..Len(records)
      BY <1>3, <1>5, <1>8, <2>1
    <3>2. t[i - o] = u[i] /\ u[i] = records[i]
      BY <1>3, <1>5, <3>1
    <3> QED BY <1>7, <3>1, <3>2
  <2>2. CASE i <= o
    BY <1>5, <2>2
  <2> QED BY <1>5, <1>8, <2>1, <2>2
<1>12. IsStored(r, ts, m, k)
  <2> HIDE DEF k
  <2> QED BY <1>1, <1>8, <1>9, <1>10, <1>11 DEF IsStored
<1> QED BY <1>1, <1>8, <1>12

-----------------------------------------------------------------------------

Entry == [rec : Record, at : Int, base : Nat]

\* Types of the records and of the trace; what was added since the metrics were
\* reset knows when that was.
TraceTypeOK ==
  /\ RecordsTypeOK
  /\ now \in 0..MaxNow
  /\ added \in Seq(Entry)
  /\ base \in 0..Len(added)
  /\ \A j \in 1..Len(added) : j > base => added[j].base = base

\* A packet of the trace, as TraceNext has it.
IsInput(ts, m, seq) ==
  ts \in (now - Delay)..now /\ m \in MsgCode /\ seq \in SeqInput(ts)

LEMMA InputTyped ==
  ASSUME now \in 0..MaxNow, NEW ts, NEW m, NEW seq, IsInput(ts, m, seq)
  PROVE  ts \in Int /\ m \in MsgCode /\ seq \in Sequence
<1>1. ts \in (-Delay)..MaxNow
  BY TraceAssumption DEF IsInput
<1> QED BY <1>1, TraceAssumption DEF IsInput

\* A step of the trace: the record is stored and it is the newest entry.
IsTraced(r, ts, m, k) ==
  /\ IsStored(r, ts, m, k)
  /\ added' \in Seq(Entry) /\ Len(added') = Len(added) + 1 /\ Len(added) \in Nat
  /\ \A i \in 1..Len(added) : added'[i] = added[i]
  /\ added'[Len(added) + 1] = [rec |-> r, at |-> now, base |-> base]
  /\ base' = base
  /\ UNCHANGED <<now, chartVars>>

LEMMA AddTraced ==
  ASSUME TraceTypeOK, NEW ts, NEW m, NEW seq, IsInput(ts, m, seq), TraceAdd(ts, m, seq)
  PROVE  \E r \in Record, k \in 0..Len(records) : IsTraced(r, ts, m, k) /\ r.sequence = seq
<1>1. ts \in Int /\ m \in MsgCode /\ seq \in Sequence
  BY InputTyped DEF TraceTypeOK
<1>2. Add(ts, m, seq)
  BY DEF TraceAdd
<1>3. PICK r \in Record, k \in 0..Len(records) : IsStored(r, ts, m, k) /\ r.sequence = seq
  BY <1>1, <1>2, AddStores DEF TraceTypeOK
<1> DEFINE e == [rec |-> r, at |-> now, base |-> base]
<1>4. e \in Entry
  BY DEF TraceTypeOK, Entry
<1>5. added' = Append(added, e) /\ base' = base
  BY <1>3 DEF TraceAdd, IsStored
<1> HIDE DEF e
<1>6. /\ added' \in Seq(Entry) /\ Len(added') = Len(added) + 1 /\ Len(added) \in Nat
      /\ \A i \in 1..Len(added) : added'[i] = added[i]
      /\ added'[Len(added) + 1] = e
  BY <1>4, <1>5, AppendProperties, LenProperties DEF TraceTypeOK
<1>7. UNCHANGED <<now, chartVars>>
  BY <1>2 DEF Add
<1>8. IsTraced(r, ts, m, k)
  BY <1>3, <1>5, <1>6, <1>7 DEF IsTraced, e
<1> QED BY <1>3, <1>8

LEMMA PpsTyped == Len(records) \in Nat => Pps \in Nat
<1> SUFFICES ASSUME Len(records) \in Nat PROVE Pps \in Nat
  OBVIOUS
<1> DEFINE S == 1..Len(records)
           T == {i \in S : records[i].timestamp >= now - SECOND}
<1>1. IsFiniteSet(S)
  BY FS_Interval
<1>2. T \in SUBSET S
  OBVIOUS
<1> HIDE DEF S, T
<1>3. IsFiniteSet(T) /\ Cardinality(T) \in Nat
  BY <1>1, <1>2, FS_Subset, FS_CardinalityType
<1> QED BY <1>3 DEF Pps, T, S

LEMMA ChartTyped ==
  ASSUME NEW rs \in Seq(Record), NEW pps \in Nat
  PROVE  ChartOf(rs, pps) \in Seq(ChartPoint) /\ Len(ChartOf(rs, pps)) = Len(rs)
<1>1. Len(rs) \in Nat
  BY LenProperties
<1>2. ASSUME NEW i \in 1..Len(rs) PROVE ToChartPoint(rs[i], pps) \in ChartPoint
  <2>1. rs[i] \in Record
    BY ElementOfSeq
  <2> QED BY <2>1 DEF ToChartPoint, ChartPoint, Record, Usable
<1>3. ChartOf(rs, pps) \in [1..Len(rs) -> ChartPoint]
  BY <1>2 DEF ChartOf
<1> QED BY <1>1, <1>3

LEMMA AddTyped ==
  ASSUME TraceTypeOK, NEW ts, NEW m, NEW seq, IsInput(ts, m, seq), TraceAdd(ts, m, seq)
  PROVE  TraceTypeOK'
<1>1. ts \in Int /\ m \in MsgCode /\ seq \in Sequence
  BY InputTyped DEF TraceTypeOK
<1>2. PICK r \in Record, k \in 0..Len(records) : IsTraced(r, ts, m, k)
  BY AddTraced
<1>3. MetricsTypeOK'
  BY <1>1, CalculateTyped DEF TraceTypeOK, RecordsTypeOK, TraceAdd, Add
<1>4. ASSUME NEW i \in 1..Len(records'), records'[i].jitter_ms # None
      PROVE  records'[i].jitter_ms <= JITTER_NOISE
  <2>1. Len(records) \in Nat /\ Len(records') \in Nat /\ Len(records') = Len(records) + 1 - k
    BY <1>2, LenProperties DEF TraceTypeOK, RecordsTypeOK, IsTraced, IsStored
  <2>2. CASE i = Len(records')
    <3>1. records'[i].jitter_ms = JitterOf(prev_by_msgcode[m], ts)
      BY <1>2, <2>2 DEF IsTraced, IsStored
    <3> QED BY <1>1, <1>4, <3>1, JitterTyped DEF TraceTypeOK, RecordsTypeOK, MetricsTypeOK
  <2>3. CASE i # Len(records')
    <3>1. i \in 1..(Len(records') - 1) /\ i + k \in 1..Len(records)
      BY <2>1, <2>3
    <3>2. records'[i] = records[i + k]
      BY <1>2, <3>1 DEF IsTraced, IsStored
    <3> QED BY <1>4, <3>1, <3>2 DEF TraceTypeOK, RecordsTypeOK
  <2> QED BY <2>2, <2>3
<1>5. RecordsTypeOK'
  <2>1. /\ records' \in Seq(Record) /\ Len(records') <= MaxRecords
        /\ UNCHANGED <<now, chart_cache, chart_cache_time>>
    BY <1>2, RecordsAssumption DEF IsTraced, IsStored, chartVars
  <2> QED BY <1>3, <1>4, <2>1 DEF TraceTypeOK, RecordsTypeOK
<1>6. ASSUME NEW j \in 1..Len(added'), j > base' PROVE added'[j].base = base'
  <2>1. CASE j = Len(added) + 1
    BY <1>2, <2>1 DEF IsTraced
  <2>2. CASE j # Len(added) + 1
    <3>1. j \in 1..Len(added)
      BY <1>2, <2>2 DEF IsTraced
    <3> QED BY <1>2, <1>6, <3>1 DEF IsTraced, TraceTypeOK
  <2> QED BY <2>1, <2>2
<1> QED BY <1>2, <1>5, <1>6 DEF TraceTypeOK, IsTraced

\* The record deque is bounded, its records are well formed, no jitter in it
\* exceeds the noise filter, and the chart cache is bounded and dated.
THEOREM TraceTypeCorrect == TraceSpec => []TraceTypeOK
<1>1. TraceInit => TraceTypeOK
  BY UnseenTyped, RecordsAssumption, TraceAssumption
     DEF TraceInit, RecordsInit, MetricsInit, TraceTypeOK, RecordsTypeOK, MetricsTypeOK, PrevOK
<1>2. TraceTypeOK /\ [TraceNext]_traceVars => TraceTypeOK'
  <2> SUFFICES ASSUME TraceTypeOK, [TraceNext]_traceVars
               PROVE  TraceTypeOK'
    OBVIOUS
  <2>0. Len(added) \in Nat /\ Len(records) \in Nat
    BY LenProperties DEF TraceTypeOK, RecordsTypeOK
  <2>1. ASSUME NEW ts \in (now - Delay)..now, NEW m \in MsgCode, NEW seq \in SeqInput(ts),
               TraceAdd(ts, m, seq)
        PROVE  TraceTypeOK'
    BY <2>1, AddTyped DEF IsInput
  <2>m. MetricsReset => MetricsTypeOK'
    BY UnseenTyped DEF MetricsReset, MetricsTypeOK, PrevOK
  <2>2. CASE TraceReset
    <3>1. RecordsTypeOK'
      BY <2>2, <2>m, RecordsAssumption
         DEF TraceReset, RecordsReset, TraceTypeOK, RecordsTypeOK
    <3> QED BY <2>2, <3>1 DEF TraceReset, RecordsReset, TraceTypeOK
  <2>3. CASE TraceResetStream
    <3>1. RecordsTypeOK'
      BY <2>3, <2>m
         DEF TraceResetStream, ResetStreamState, TraceTypeOK, RecordsTypeOK, chartVars
    <3> QED BY <2>0, <2>3, <3>1 DEF TraceResetStream, ResetStreamState, TraceTypeOK
  <2>4. CASE TraceChart
    <3>0. MetricsTypeOK'
      BY <2>4 DEF TraceChart, GetChartData, metricsVars, MetricsTypeOK, TraceTypeOK,
                  RecordsTypeOK
    <3>1. CASE UNCHANGED chartVars
      BY <2>4, <3>0, <3>1
         DEF TraceChart, GetChartData, chartVars, TraceTypeOK, RecordsTypeOK
    <3>2. CASE /\ chart_cache' = ChartOf(LastN(records, ChartLimit), Pps)
               /\ chart_cache_time' = now
      <4>1. /\ LastN(records, ChartLimit) \in Seq(Record)
            /\ Len(LastN(records, ChartLimit)) <= ChartLimit
        BY <2>0, LastNEnds, RecordsAssumption DEF TraceTypeOK, RecordsTypeOK
      <4>2. chart_cache' \in Seq(ChartPoint) /\ Len(chart_cache') <= ChartLimit
        BY <2>0, <3>2, <4>1, ChartTyped, PpsTyped
      <4>3. chart_cache_time' \in Int /\ chart_cache_time' # None
        BY <3>2, NoneAssumption DEF TraceTypeOK, RecordsTypeOK
      <4> QED BY <2>4, <3>0, <4>2, <4>3
         DEF TraceChart, GetChartData, TraceTypeOK, RecordsTypeOK
    <3> QED BY <2>4, <3>1, <3>2 DEF TraceChart, GetChartData
  <2>5. ASSUME NEW d \in 1..MaxStep, TracePass(d)
        PROVE  TraceTypeOK'
    <3>1. now' \in 0..MaxNow /\ d \in Int
      BY <2>5, TraceAssumption DEF TracePass, Pass, TraceTypeOK
    <3> QED BY <2>5, <3>1
       DEF TracePass, Pass, chartVars, metricsVars, TraceTypeOK, RecordsTypeOK, MetricsTypeOK
  <2>6. CASE UNCHANGED traceVars
    BY <2>6 DEF traceVars, TraceTypeOK, RecordsTypeOK, MetricsTypeOK
  <2> QED
    BY <2>1, <2>2, <2>3, <2>4, <2>5, <2>6 DEF TraceNext
<1> QED
  BY <1>1, <1>2, PTL DEF TraceSpec

\* Packets in capture order are ordered as a whole, not only pairwise.
LEMMA OrderIsTotal ==
  ASSUME NEW s \in Seq(Entry),
         \A x \in 2..Len(s) : s[x - 1].rec.timestamp <= s[x].rec.timestamp,
         NEW i \in 1..Len(s), NEW j \in 1..Len(s), i <= j
  PROVE  s[i].rec.timestamp <= s[j].rec.timestamp
<1> DEFINE A == {x \in Nat : /\ i <= x /\ x <= Len(s)
                             /\ ~(s[i].rec.timestamp <= s[x].rec.timestamp)}
<1>0. Len(s) \in Nat /\ \A x \in 1..Len(s) : s[x].rec.timestamp \in Int
  <2>1. \A x \in 1..Len(s) : s[x] \in Entry
    BY ElementOfSeq
  <2> QED BY <2>1, LenProperties DEF Entry, Record
<1> SUFFICES ASSUME A # {} PROVE FALSE
  BY <1>0
<1>1. PICK x \in A : \A y \in A : x <= y
  <2>1. A \in SUBSET Nat
    OBVIOUS
  <2> HIDE DEF A
  <2> QED BY <2>1, LeastNatural
<1>2. x \in Nat /\ i <= x /\ x <= Len(s) /\ x # i
  <2>1. s[i].rec.timestamp <= s[i].rec.timestamp
    BY <1>0
  <2> QED BY <2>1
<1>3. x - 1 \in Nat /\ i <= x - 1 /\ x - 1 <= Len(s) /\ ~(x <= x - 1)
  BY <1>0, <1>2
<1>4. s[i].rec.timestamp <= s[x - 1].rec.timestamp
  <2>1. x - 1 \notin A
    <3> HIDE DEF A
    <3> QED BY <1>1, <1>3
  <2> QED BY <1>3, <2>1
<1>5. x \in 2..Len(s) /\ x \in 1..Len(s) /\ x - 1 \in 1..Len(s)
  BY <1>0, <1>2, <1>3
<1>6. s[x - 1].rec.timestamp <= s[x].rec.timestamp
  BY <1>5
<1>7. s[i].rec.timestamp <= s[x].rec.timestamp
  <2>1. /\ s[i].rec.timestamp \in Int /\ s[x].rec.timestamp \in Int
        /\ s[x - 1].rec.timestamp \in Int
    BY <1>0, <1>5
  <2> HIDE DEF A
  <2> QED BY <1>4, <1>6, <2>1
<1> QED BY <1>1, <1>7

\* The records that left, and the records that are still there.
DroppedLate ==
  \A i \in 1..(Len(added) - Len(records)) :
    \/ Len(added) - i >= MaxRecords
    \/ \E j \in (i + 1)..Len(added) : Given(i).timestamp < Given(j).timestamp - Window

KeptRecent ==
  InOrder => \A i \in 1..Len(records) :
    records[i].timestamp >= records[Len(records)].timestamp - Window

StoreInv == StoreIsTail /\ DroppedLate /\ KeptRecent

LEMMA AddKeepsTail ==
  ASSUME TraceTypeOK, StoreIsTail, NEW ts, NEW m,
         NEW r \in Record, NEW k \in 0..Len(records), IsTraced(r, ts, m, k)
  PROVE  StoreIsTail'
<1>1. /\ Len(added) \in Nat /\ Len(records) \in Nat /\ Len(records) <= Len(added)
      /\ Len(added') = Len(added) + 1 /\ Len(records') = Len(records) + 1 - k
      /\ Len(records') \in Nat /\ Len(records') # 0
  <2>1. added \in Seq(Entry) /\ records \in Seq(Record)
    BY Zenon DEF TraceTypeOK, RecordsTypeOK
  <2>2. Len(added) \in Nat /\ Len(records) \in Nat
    BY <2>1, LenProperties
  <2>3. /\ Len(added') = Len(added) + 1 /\ Len(records') = Len(records) + 1 - k
        /\ Len(records') \in 1..MaxRecords
    BY Zenon DEF IsTraced, IsStored
  <2> QED BY <2>2, <2>3 DEF StoreIsTail
<1>2. ASSUME NEW i \in 1..Len(records')
      PROVE  records'[i] = added'[Len(added') - Len(records') + i].rec
  <2>1. CASE i = Len(records')
    <3>1. Len(added') - Len(records') + i = Len(added) + 1
      BY <1>1, <2>1
    <3> QED BY <2>1, <3>1 DEF IsTraced, IsStored
  <2>2. CASE i # Len(records')
    <3>1. /\ i \in 1..(Len(records') - 1) /\ i + k \in 1..Len(records)
          /\ Len(added') - Len(records') + i = Len(added) - Len(records) + (i + k)
          /\ Len(added) - Len(records) + (i + k) \in 1..Len(added)
      BY <1>1, <2>2
    <3>2. records'[i] = records[i + k]
      BY <3>1 DEF IsTraced, IsStored
    <3>3. records[i + k] = added[Len(added) - Len(records) + (i + k)].rec
      BY <3>1 DEF StoreIsTail, Given
    <3> QED BY <3>1, <3>2, <3>3 DEF IsTraced
  <2> QED BY <2>1, <2>2
<1>3. records' # <<>>
  BY <1>1
<1> QED BY <1>1, <1>2, <1>3 DEF StoreIsTail, Given

LEMMA AddDropsLate ==
  ASSUME TraceTypeOK, StoreIsTail, DroppedLate, NEW ts \in Int, NEW m,
         NEW r \in Record, NEW k \in 0..Len(records), IsTraced(r, ts, m, k)
  PROVE  DroppedLate'
<1> DEFINE n == Len(added)
<1>1. /\ n \in Nat /\ Len(records) \in Nat /\ Len(records) <= n
      /\ Len(added') = n + 1 /\ Len(records') = Len(records) + 1 - k
      /\ MaxRecords \in Nat
  BY LenProperties, RecordsAssumption
     DEF TraceTypeOK, RecordsTypeOK, StoreIsTail, IsTraced, IsStored
<1>2. /\ \A i \in 1..n : added'[i] = added[i]
      /\ added'[n + 1].rec.timestamp = ts
  <2>1. /\ \A i \in 1..Len(added) : added'[i] = added[i]
        /\ added'[Len(added) + 1] = [rec |-> r, at |-> now, base |-> base]
    BY Zenon DEF IsTraced
  <2>2. r.timestamp = ts
    BY Zenon DEF IsTraced, IsStored
  <2>3. added'[Len(added) + 1].rec = r
    BY <2>1
  <2> HIDE DEF n
  <2> QED BY <2>1, <2>2, <2>3, Zenon DEF n
<1> SUFFICES ASSUME NEW i \in 1..(Len(added') - Len(records'))
             PROVE  \/ Len(added') - i >= MaxRecords
                    \/ \E j \in (i + 1)..Len(added') :
                         added'[i].rec.timestamp < added'[j].rec.timestamp - Window
  BY DEF DroppedLate, Given
<1> HIDE DEF n
<1>3. i \in 1..n /\ i \in 1..(n - Len(records) + k)
  BY <1>1
<1>4. CASE i <= n - Len(records)
  <2>1. \/ n - i >= MaxRecords
        \/ \E j \in (i + 1)..n : added[i].rec.timestamp < added[j].rec.timestamp - Window
    <3>1. i \in 1..(Len(added) - Len(records))
      BY <1>1, <1>3, <1>4 DEF n
    <3> QED BY <3>1 DEF DroppedLate, Given, n
  <2>2. CASE n - i >= MaxRecords
    BY <1>1, <1>3, <2>2
  <2>3. ASSUME NEW j \in (i + 1)..n, added[i].rec.timestamp < added[j].rec.timestamp - Window
        PROVE  \E x \in (i + 1)..Len(added') :
                 added'[i].rec.timestamp < added'[x].rec.timestamp - Window
    <3>1. j \in 1..n /\ j \in (i + 1)..Len(added')
      BY <1>1, <1>3
    <3> QED BY <1>2, <1>3, <2>3, <3>1
  <2> QED BY <2>1, <2>2, <2>3
<1>5. CASE i > n - Len(records)
  <2> DEFINE x == i - (n - Len(records))
  <2>1. x \in 1..k /\ x \in 1..Len(records) /\ n - Len(records) + x = i
    BY <1>1, <1>3, <1>5
  <2>2. records[x] = added[i].rec
    BY <2>1 DEF StoreIsTail, Given, n
  <2>3. \/ x = 1 /\ Len(records) = MaxRecords
        \/ records[x].timestamp < ts - Window
    BY <2>1 DEF IsTraced, IsStored
  <2>4. CASE x = 1 /\ Len(records) = MaxRecords
    <3> HIDE DEF x
    <3>1. Len(added') - i >= MaxRecords
      BY <1>1, <1>3, <2>1, <2>4
    <3> QED BY <3>1
  <2>5. CASE records[x].timestamp < ts - Window
    <3>1. n + 1 \in (i + 1)..Len(added')
      BY <1>1, <1>3
    <3>2. added'[i].rec.timestamp < added'[n + 1].rec.timestamp - Window
      BY <1>2, <1>3, <2>2, <2>5
    <3> QED BY <3>1, <3>2
  <2> HIDE DEF x
  <2> QED BY <2>3, <2>4, <2>5
<1> QED BY <1>1, <1>3, <1>4, <1>5

LEMMA AddKeepsRecent ==
  ASSUME TraceTypeOK', StoreIsTail', NEW ts \in Int, NEW m,
         NEW r \in Record, NEW k \in 0..Len(records), IsTraced(r, ts, m, k)
  PROVE  KeptRecent'
<1> SUFFICES ASSUME InOrder', NEW i \in 1..Len(records')
             PROVE  records'[i].timestamp >= records'[Len(records')].timestamp - Window
  BY DEF KeptRecent
<1> DEFINE a == Len(added') - Len(records')
<1>1. /\ Len(added') \in Nat /\ Len(records') \in Nat /\ Len(records') <= Len(added')
      /\ added' \in Seq(Entry)
  BY LenProperties DEF TraceTypeOK, RecordsTypeOK, StoreIsTail
<1>2. /\ a + 1 \in 1..Len(added') /\ a + i \in 1..Len(added') /\ a + 1 <= a + i
      /\ 1 \in 1..Len(records')
  BY <1>1
<1>3. /\ records'[1] = added'[a + 1].rec /\ records'[i] = added'[a + i].rec
  BY <1>2 DEF StoreIsTail, Given
<1>4. added'[a + 1].rec.timestamp <= added'[a + i].rec.timestamp
  <2> HIDE DEF a
  <2>1. \A x \in 2..Len(added') : added'[x - 1].rec.timestamp <= added'[x].rec.timestamp
    BY DEF InOrder, Given
  <2> QED BY <1>1, <1>2, <2>1, OrderIsTotal
<1>5. records'[1].timestamp >= ts - Window /\ records'[Len(records')].timestamp = ts
  BY DEF IsTraced, IsStored
<1>6. records'[1].timestamp \in Int /\ records'[i].timestamp \in Int
  <2>1. records'[1] \in Record /\ records'[i] \in Record
    BY <1>2, ElementOfSeq DEF TraceTypeOK, RecordsTypeOK
  <2> QED BY <2>1 DEF Record
<1>7. records'[1].timestamp <= records'[i].timestamp
  BY <1>3, <1>4
<1> QED BY <1>5, <1>6, <1>7, RecordsAssumption

LEMMA StoreInvNext == StoreInv /\ TraceTypeOK /\ TraceTypeOK' /\ [TraceNext]_traceVars => StoreInv'
<1> SUFFICES ASSUME StoreInv, TraceTypeOK, TraceTypeOK', [TraceNext]_traceVars
             PROVE  StoreInv'
  OBVIOUS
<1>1. ASSUME NEW ts \in (now - Delay)..now, NEW m \in MsgCode, NEW seq \in SeqInput(ts),
             TraceAdd(ts, m, seq)
      PROVE  StoreInv'
  <2>1. IsInput(ts, m, seq) /\ ts \in Int
    BY <1>1, InputTyped DEF IsInput, TraceTypeOK
  <2>2. PICK r \in Record, k \in 0..Len(records) : IsTraced(r, ts, m, k)
    BY <1>1, <2>1, AddTraced
  <2>3. StoreIsTail'
    BY <2>2, AddKeepsTail DEF StoreInv
  <2>4. DroppedLate'
    BY <2>1, <2>2, AddDropsLate DEF StoreInv
  <2>5. KeptRecent'
    BY <2>1, <2>2, <2>3, AddKeepsRecent
  <2> QED BY <2>3, <2>4, <2>5 DEF StoreInv
<1>2. CASE TraceReset
  BY <1>2 DEF TraceReset, RecordsReset, StoreInv, StoreIsTail, DroppedLate, KeptRecent
<1>3. ASSUME UNCHANGED <<records, added>> PROVE StoreInv'
  BY <1>3 DEF StoreInv, StoreIsTail, DroppedLate, KeptRecent, InOrder, Given
<1>4. CASE TraceResetStream
  BY <1>3, <1>4 DEF TraceResetStream, ResetStreamState
<1>5. CASE TraceChart
  BY <1>3, <1>5 DEF TraceChart, GetChartData
<1>6. ASSUME NEW d \in 1..MaxStep, TracePass(d) PROVE StoreInv'
  BY <1>3, <1>6 DEF TracePass, Pass
<1>7. CASE UNCHANGED traceVars
  BY <1>3, <1>7 DEF traceVars
<1> QED
  BY <1>1, <1>2, <1>4, <1>5, <1>6, <1>7 DEF TraceNext

\* The deque is a tail of the trace, and of the records behind its head each is gone
\* for a reason that lasts.
THEOREM StoreInvHolds == TraceSpec => []StoreInv
<1>1. TraceInit => StoreInv
  BY DEF TraceInit, RecordsInit, StoreInv, StoreIsTail, DroppedLate, KeptRecent
<1> QED
  BY <1>1, StoreInvNext, TraceTypeCorrect, PTL DEF TraceSpec

\* The deque is the newest part of all that was added, whatever the capacity,
\* the window, the order of the packets and the number of resets.
THEOREM StoreTailCorrect == TraceSpec => []StoreIsTail
  BY StoreInvHolds, PTL DEF StoreInv

\* A record leaves only when enough newer ones came or when it is too old, and
\* packets in capture order leave none in the deque that is too old.
THEOREM DroppedWhenDueCorrect == TraceSpec => []DroppedWhenDue
<1>1. StoreInv => DroppedWhenDue
  BY DEF StoreInv, DroppedLate, KeptRecent, DroppedWhenDue
<1> QED
  BY <1>1, StoreInvHolds, PTL

-----------------------------------------------------------------------------

\* The places of a code's packets since the metrics were reset, and all of them
\* but the last.
SameCode(s, b, m) == {j \in (b + 1)..Len(s) : s[j].rec.msg_code = m}

ButLast(S) == {j \in S : j < Max(S)}

\* What calculate() remembers of a code are its last packet and, unless that
\* restarted the stream, the interval before it.
RemembersLast(p, s, b, m) ==
  LET S   == SameCode(s, b, m)
      gap == s[Max(S)].rec.timestamp - s[Max(ButLast(S))].rec.timestamp
  IN /\ S = {} => p = Unseen
     /\ S # {} =>
          /\ p.timestamp = s[Max(S)].rec.timestamp
          /\ p.interval = IF ButLast(S) # {} /\ gap <= STREAM_RESTART_GAP
                          THEN gap ELSE None

\* t is s with one more entry, a packet of m captured at ts.
IsLonger(t, s, b, ts, m) ==
  /\ s \in Seq(Entry) /\ t \in Seq(Entry) /\ b \in 0..Len(s)
  /\ Len(s) \in Nat /\ Len(t) = Len(s) + 1
  /\ \A j \in 1..Len(s) : t[j] = s[j]
  /\ t[Len(t)].rec.timestamp = ts /\ t[Len(t)].rec.msg_code = m /\ t[Len(t)].base = b
  /\ \A j \in 1..Len(s) : j > b => s[j].base = b

LEMMA SameCodeGrows ==
  ASSUME NEW s, NEW t, NEW b, NEW ts, NEW m, IsLonger(t, s, b, ts, m)
  PROVE  /\ SameCode(t, b, m) = SameCode(s, b, m) \cup {Len(t)}
         /\ Max(SameCode(t, b, m)) = Len(t)
         /\ ButLast(SameCode(t, b, m)) = SameCode(s, b, m)
         /\ \A x : x # m => SameCode(t, b, x) = SameCode(s, b, x)
<1>1. /\ Len(s) \in Nat /\ Len(t) = Len(s) + 1 /\ b \in 0..Len(s)
      /\ \A j \in 1..Len(s) : t[j] = s[j]
      /\ t[Len(t)].rec.msg_code = m
  BY DEF IsLonger
<1>2. SameCode(t, b, m) = SameCode(s, b, m) \cup {Len(t)}
  BY <1>1 DEF SameCode
<1>3. Max(SameCode(t, b, m)) = Len(t)
  <2>1. Len(t) \in Nat /\ SameCode(t, b, m) \in SUBSET (1..Len(t)) /\ SameCode(t, b, m) # {}
    BY <1>1, <1>2 DEF SameCode
  <2>2. /\ Max(SameCode(t, b, m)) \in 1..Len(t)
        /\ \A y \in SameCode(t, b, m) : y <= Max(SameCode(t, b, m))
    BY <2>1, MaxOfPositions
  <2>3. Len(t) <= Max(SameCode(t, b, m))
    BY <1>2, <2>2
  <2> QED BY <2>1, <2>2, <2>3
<1>4. ButLast(SameCode(t, b, m)) = SameCode(s, b, m)
  <2>1. \A j \in SameCode(s, b, m) : j < Len(t)
    BY <1>1 DEF SameCode
  <2>2. ~(Len(t) < Len(t))
    BY <1>1
  <2> QED BY <1>2, <1>3, <2>1, <2>2, Zenon DEF ButLast
<1>5. ASSUME NEW x, x # m PROVE SameCode(t, b, x) = SameCode(s, b, x)
  BY <1>1, <1>5 DEF SameCode
<1> QED BY <1>2, <1>3, <1>4, <1>5

\* The last places lie in the trace that they are places of.
LEMMA LastPlaces ==
  ASSUME NEW s \in Seq(Entry), NEW b \in Nat, NEW m
  PROVE  /\ SameCode(s, b, m) # {} =>
              Max(SameCode(s, b, m)) \in SameCode(s, b, m) /\ Max(SameCode(s, b, m)) \in 1..Len(s)
         /\ ButLast(SameCode(s, b, m)) # {} =>
              /\ Max(ButLast(SameCode(s, b, m))) \in SameCode(s, b, m)
              /\ Max(ButLast(SameCode(s, b, m))) \in 1..Len(s)
<1>1. Len(s) \in Nat
  BY LenProperties
<1>2. SameCode(s, b, m) \in SUBSET (1..Len(s))
  BY <1>1 DEF SameCode
<1>3. ButLast(SameCode(s, b, m)) \in SUBSET SameCode(s, b, m)
  BY DEF ButLast
<1> QED BY <1>1, <1>2, <1>3, MaxOfPositions

LEMMA RemembersNext ==
  ASSUME NEW s, NEW t, NEW b, NEW ts \in Int, NEW m, IsLonger(t, s, b, ts, m),
         NEW p, RemembersLast(p, s, b, m), NEW seq
  PROVE  RemembersLast(NextPrev(p, ts, seq), t, b, m)
<1> DEFINE S == SameCode(s, b, m)
           T == SameCode(t, b, m)
           np == NextPrev(p, ts, seq)
<1>1. T # {} /\ Max(T) = Len(t) /\ ButLast(T) = S
  BY SameCodeGrows
<1>2. t[Len(t)].rec.timestamp = ts /\ np.timestamp = ts
      /\ np.interval = IF Continues(p, ts) THEN ts - p.timestamp ELSE None
  BY DEF IsLonger, NextPrev
<1>3. CASE S = {}
  <2>1. p = Unseen
    BY <1>3 DEF RemembersLast
  <2>2. np.interval = None
    BY <1>2, <2>1 DEF Unseen, Continues
  <2> QED BY <1>1, <1>2, <1>3, <2>2 DEF RemembersLast
<1>4. CASE S # {}
  <2>1. p.timestamp = s[Max(S)].rec.timestamp
    BY <1>4 DEF RemembersLast
  <2>2. Max(S) \in 1..Len(s)
    BY <1>4, LastPlaces DEF IsLonger
  <2>3. t[Max(S)] = s[Max(S)] /\ s[Max(S)] \in Entry
    BY <2>2, ElementOfSeq DEF IsLonger
  <2>4. p.timestamp \in Int /\ p.timestamp # None
    BY <2>1, <2>3, NoneAssumption DEF Entry, Record
  <2>5. Continues(p, ts) <=> ts - p.timestamp <= STREAM_RESTART_GAP
    BY <2>4, ThresholdAssumption DEF Continues, IsRestart
  <2>6. np.interval = IF ts - t[Max(S)].rec.timestamp <= STREAM_RESTART_GAP
                      THEN ts - t[Max(S)].rec.timestamp ELSE None
    BY <1>2, <2>1, <2>3, <2>5
  <2> HIDE DEF S, T, np
  <2> QED BY <1>1, <1>2, <1>4, <2>6 DEF RemembersLast, S, T, np
<1> QED BY <1>3, <1>4

LEMMA RemembersOthers ==
  ASSUME NEW s, NEW t, NEW b, NEW ts, NEW m, IsLonger(t, s, b, ts, m),
         NEW p, NEW x, x # m, RemembersLast(p, s, b, x)
  PROVE  RemembersLast(p, t, b, x)
<1> DEFINE S == SameCode(s, b, x)
<1>1. SameCode(t, b, x) = S
  BY SameCodeGrows
<1>2. S # {} => t[Max(S)] = s[Max(S)]
  BY LastPlaces DEF IsLonger
<1>3. ButLast(S) # {} => S # {} /\ t[Max(ButLast(S))] = s[Max(ButLast(S))]
  BY LastPlaces DEF IsLonger, ButLast
<1> HIDE DEF S
<1>4. /\ S = {} => p = Unseen
      /\ S # {} =>
           /\ p.timestamp = s[Max(S)].rec.timestamp
           /\ p.interval =
                IF /\ ButLast(S) # {}
                   /\ s[Max(S)].rec.timestamp - s[Max(ButLast(S))].rec.timestamp
                        <= STREAM_RESTART_GAP
                THEN s[Max(S)].rec.timestamp - s[Max(ButLast(S))].rec.timestamp ELSE None
  BY DEF RemembersLast, S
<1>5. /\ S = {} => p = Unseen
      /\ S # {} =>
           /\ p.timestamp = t[Max(S)].rec.timestamp
           /\ p.interval =
                IF /\ ButLast(S) # {}
                   /\ t[Max(S)].rec.timestamp - t[Max(ButLast(S))].rec.timestamp
                        <= STREAM_RESTART_GAP
                THEN t[Max(S)].rec.timestamp - t[Max(ButLast(S))].rec.timestamp ELSE None
  BY <1>2, <1>3, <1>4
<1> QED BY <1>1, <1>5 DEF RemembersLast

\* JitterByDefinition, of a trace that is named.
PriorIn(s, i) == {j \in (s[i].base + 1)..(i - 1) : s[j].rec.msg_code = s[i].rec.msg_code}

JitterIn(s, i) ==
  LET p == Max(PriorIn(s, i))
      q == Max(PriorIn(s, p) \cap PriorIn(s, i))
      last == s[i].rec.timestamp - s[p].rec.timestamp
      prior == s[p].rec.timestamp - s[q].rec.timestamp
  IN IF /\ PriorIn(s, i) # {} /\ PriorIn(s, p) \cap PriorIn(s, i) # {}
        /\ last <= STREAM_RESTART_GAP /\ prior <= STREAM_RESTART_GAP
        /\ Abs(last - prior) <= JITTER_NOISE
     THEN Abs(last - prior)
     ELSE None

\* One remembered packet and one interval give the jitter that all of the
\* history defines.
LEMMA JitterFromMemory ==
  ASSUME NEW s, NEW t, NEW b, NEW ts \in Int, NEW m, IsLonger(t, s, b, ts, m),
         NEW p, RemembersLast(p, s, b, m)
  PROVE  JitterOf(p, ts) = JitterIn(t, Len(t))
<1> DEFINE S == SameCode(s, b, m)
<1>0. /\ Len(s) \in Nat /\ Len(t) = Len(s) + 1 /\ b \in 0..Len(s) /\ s \in Seq(Entry)
      /\ \A j \in 1..Len(s) : t[j] = s[j]
      /\ t[Len(t)].rec.msg_code = m /\ t[Len(t)].base = b /\ t[Len(t)].rec.timestamp = ts
  BY DEF IsLonger
<1>1. PriorIn(t, Len(t)) = S
  BY <1>0 DEF PriorIn, SameCode
<1>2. CASE S = {}
  <2>1. p.timestamp = None
    BY <1>2 DEF RemembersLast, Unseen
  <2>2. JitterOf(p, ts) = None
    BY <2>1 DEF JitterOf, Continues
  <2> QED BY <1>1, <1>2, <2>2 DEF JitterIn
<1>3. CASE S # {}
  <2>1. Max(S) \in 1..Len(s) /\ Max(S) \in S
    <3>1. b \in Nat
      BY <1>0
    <3> HIDE DEF S
    <3> QED BY <1>0, <1>3, <3>1, LastPlaces DEF S
  <2>2. /\ t[Max(S)] = s[Max(S)] /\ s[Max(S)].rec.msg_code = m /\ Max(S) > b
        /\ s[Max(S)].base = b
    BY <1>0, <2>1 DEF IsLonger, SameCode
  <2>3. PriorIn(t, Max(S)) \cap PriorIn(t, Len(t)) = ButLast(S)
    <3>1. PriorIn(t, Max(S)) = {j \in (b + 1)..(Max(S) - 1) : t[j].rec.msg_code = m}
      BY <2>2 DEF PriorIn
    <3>2. \A j \in 1..Len(s) : t[j].rec.msg_code = s[j].rec.msg_code
      BY <1>0
    <3>3. ASSUME NEW j \in S, j < Max(S) PROVE j \in PriorIn(t, Max(S))
      <4>1. j \in (b + 1)..Len(s) /\ s[j].rec.msg_code = m
        BY DEF SameCode
      <4>2. j \in (b + 1)..(Max(S) - 1) /\ j \in 1..Len(s)
        BY <1>0, <2>1, <3>3, <4>1
      <4> QED BY <3>1, <3>2, <4>1, <4>2
    <3>4. ASSUME NEW j \in PriorIn(t, Max(S)), j \in S PROVE j < Max(S)
      BY <1>0, <2>1, <3>1, <3>4
    <3> HIDE DEF S
    <3> QED BY <1>1, <3>3, <3>4 DEF ButLast
  <2>4. /\ p.timestamp = s[Max(S)].rec.timestamp
        /\ p.timestamp \in Int /\ p.timestamp # None
    <3>1. s[Max(S)] \in Entry
      BY <1>0, <2>1, ElementOfSeq
    <3> QED BY <1>3, <3>1, NoneAssumption DEF RemembersLast, Entry, Record
  <2> DEFINE last == ts - p.timestamp
  <2>5. /\ t[Len(t)].rec.timestamp - t[Max(S)].rec.timestamp = last
        /\ last \in Int
    BY <1>0, <2>2, <2>4
  <2>6. Continues(p, ts) <=> last <= STREAM_RESTART_GAP
    BY <2>4, ThresholdAssumption DEF Continues, IsRestart
  <2> HIDE DEF last, S
  <2>7. CASE ButLast(S) = {}
    <3>1. p.interval = None
      BY <1>3, <2>7 DEF RemembersLast, S
    <3>2. JitterOf(p, ts) = None
      BY <3>1 DEF JitterOf
    <3> QED BY <1>1, <2>3, <2>7, <3>2 DEF JitterIn
  <2>8. CASE ButLast(S) # {}
    <3> DEFINE q == Max(ButLast(S))
               prior == s[Max(S)].rec.timestamp - s[q].rec.timestamp
    <3>1. q \in 1..Len(s) /\ t[q] = s[q]
      BY <1>0, <2>8, LastPlaces DEF S
    <3>2. prior \in Int /\ t[Max(S)].rec.timestamp - t[q].rec.timestamp = prior
      <4>1. s[q] \in Entry
        BY <1>0, <3>1, ElementOfSeq
      <4> QED BY <2>2, <2>4, <3>1, <4>1 DEF Entry, Record
    <3>3. p.interval = IF prior <= STREAM_RESTART_GAP THEN prior ELSE None
      BY <1>3, <2>8 DEF RemembersLast, S
    <3> HIDE DEF prior
    <3>4. JitterIn(t, Len(t)) =
            IF /\ last <= STREAM_RESTART_GAP /\ prior <= STREAM_RESTART_GAP
               /\ Abs(last - prior) <= JITTER_NOISE
            THEN Abs(last - prior) ELSE None
      BY <1>1, <1>3, <2>3, <2>5, <2>8, <3>2 DEF JitterIn
    <3>5. JitterOf(p, ts) =
            IF /\ last <= STREAM_RESTART_GAP /\ prior <= STREAM_RESTART_GAP
               /\ Abs(last - prior) <= JITTER_NOISE
            THEN Abs(last - prior) ELSE None
      <4>1. CASE prior <= STREAM_RESTART_GAP
        <5>1. p.interval = prior /\ p.interval # None
          BY <3>2, <3>3, <4>1, NoneAssumption
        <5> QED BY <2>6, <4>1, <5>1 DEF JitterOf, last
      <4>2. CASE ~(prior <= STREAM_RESTART_GAP)
        BY <3>3, <4>2 DEF JitterOf
      <4> QED BY <4>1, <4>2
    <3> QED BY <3>4, <3>5
  <2> QED BY <2>7, <2>8
<1> QED BY <1>2, <1>3

JitterInv ==
  /\ \A m \in MsgCode : RemembersLast(prev_by_msgcode[m], added, base, m)
  /\ added # <<>> => added[Len(added)].rec.jitter_ms = JitterIn(added, Len(added))

LEMMA AddKeepsJitter ==
  ASSUME TraceTypeOK, JitterInv, NEW ts, NEW m, NEW seq, IsInput(ts, m, seq),
         TraceAdd(ts, m, seq)
  PROVE  JitterInv'
<1> DEFINE p == prev_by_msgcode[m]
<1>1. ts \in Int /\ m \in MsgCode /\ seq \in Sequence
  BY InputTyped DEF TraceTypeOK
<1>2. PICK r \in Record, k \in 0..Len(records) : IsTraced(r, ts, m, k)
  BY AddTraced
<1>3. /\ prev_by_msgcode'[m] = NextPrev(p, ts, seq)
      /\ \A x \in MsgCode \ {m} : prev_by_msgcode'[x] = prev_by_msgcode[x]
  BY <1>1, CalculateTyped DEF TraceTypeOK, RecordsTypeOK, TraceAdd, Add
<1>4. IsLonger(added', added, base, ts, m) /\ base' = base
  BY <1>2 DEF IsLonger, IsTraced, IsStored, TraceTypeOK
<1>5. RemembersLast(p, added, base, m)
  BY <1>1 DEF JitterInv
<1>6. RemembersLast(prev_by_msgcode'[m], added', base, m)
  BY <1>1, <1>3, <1>4, <1>5, RemembersNext
<1>7. ASSUME NEW x \in MsgCode, x # m
      PROVE  RemembersLast(prev_by_msgcode'[x], added', base, x)
  BY <1>3, <1>4, <1>7, RemembersOthers DEF JitterInv
<1>8. added'[Len(added')].rec.jitter_ms = JitterIn(added', Len(added'))
  <2>1. JitterOf(p, ts) = JitterIn(added', Len(added'))
    BY <1>1, <1>4, <1>5, JitterFromMemory
  <2>2. added'[Len(added')].rec.jitter_ms = JitterOf(p, ts)
    BY <1>2 DEF IsTraced, IsStored
  <2> QED BY <2>1, <2>2
<1> QED BY <1>4, <1>6, <1>7, <1>8 DEF JitterInv

LEMMA NothingRemembered ==
  ASSUME NEW s, NEW b, Len(s) \in Nat, b = Len(s), NEW m
  PROVE  RemembersLast(Unseen, s, b, m)
<1>1. SameCode(s, b, m) = {}
  BY DEF SameCode
<1> QED BY <1>1 DEF RemembersLast

\* What is remembered of each code is its last packet and its last interval, as the
\* trace since the last reset has them.
THEOREM JitterInvHolds == TraceSpec => []JitterInv
<1>1. TraceInit => JitterInv
  <2>1. Len(<<>>) \in Nat /\ Len(<<>>) = 0
    OBVIOUS
  <2> QED BY <2>1, NothingRemembered DEF TraceInit, RecordsInit, MetricsInit, JitterInv
<1>2. JitterInv /\ TraceTypeOK /\ [TraceNext]_traceVars => JitterInv'
  <2> SUFFICES ASSUME JitterInv, TraceTypeOK, [TraceNext]_traceVars
               PROVE  JitterInv'
    OBVIOUS
  <2>0. Len(added) \in Nat
    BY LenProperties DEF TraceTypeOK
  <2>1. ASSUME NEW ts \in (now - Delay)..now, NEW m \in MsgCode, NEW seq \in SeqInput(ts),
               TraceAdd(ts, m, seq)
        PROVE  JitterInv'
    BY <2>1, AddKeepsJitter DEF IsInput
  <2>2. CASE TraceReset
    <3>1. Len(<<>>) \in Nat /\ Len(<<>>) = 0
      OBVIOUS
    <3> QED BY <2>2, <3>1, NothingRemembered DEF TraceReset, RecordsReset, MetricsReset, JitterInv
  <2>3. CASE TraceResetStream
    BY <2>0, <2>3, NothingRemembered
       DEF TraceResetStream, ResetStreamState, MetricsReset, JitterInv
  <2>4. ASSUME UNCHANGED <<prev_by_msgcode, added, base>> PROVE JitterInv'
    BY <2>4 DEF JitterInv
  <2>5. CASE TraceChart
    BY <2>4, <2>5 DEF TraceChart, GetChartData, metricsVars
  <2>6. ASSUME NEW d \in 1..MaxStep, TracePass(d) PROVE JitterInv'
    BY <2>4, <2>6 DEF TracePass, Pass, metricsVars
  <2>7. CASE UNCHANGED traceVars
    BY <2>4, <2>7 DEF traceVars
  <2> QED
    BY <2>1, <2>2, <2>3, <2>5, <2>6, <2>7 DEF TraceNext
<1> QED
  BY <1>1, <1>2, TraceTypeCorrect, PTL DEF TraceSpec

\* The jitter recorded last is the one that the history of its code defines, for
\* every number of codes, packets, resets and restarts.
THEOREM JitterCorrect == TraceSpec => []JitterMatchesHistory
<1>1. JitterInv => JitterMatchesHistory
  BY DEF JitterInv, JitterMatchesHistory, JitterByDefinition, JitterIn, Before, PriorIn, Given
<1> QED
  BY <1>1, JitterInvHolds, PTL

-----------------------------------------------------------------------------

\* c charts a run of the packets of s that ends at its place `last`.
IsRun(c, s, last) ==
  /\ last \in Len(c)..Len(s)
  /\ \A i \in DOMAIN c :
       LET r == s[last - Len(c) + i].rec
       IN /\ c[i].timestamp = r.timestamp
          /\ c[i].jitter = IF Usable(r) THEN r.jitter_ms ELSE 0

\* The cached chart was a run that ended in the newest packet when it was made.
CacheInv ==
  chart_cache_time # None =>
    /\ chart_cache_time <= now
    /\ \E last \in 0..Len(added) :
         /\ IsRun(chart_cache, added, last)
         /\ \A i \in (last + 1)..Len(added) : added[i].at >= chart_cache_time

LEMMA FreshChartIsRun ==
  ASSUME TraceTypeOK, StoreIsTail
  PROVE  /\ IsRun(ChartOf(LastN(records, ChartLimit), Pps), added, Len(added))
         /\ DOMAIN ChartOf(LastN(records, ChartLimit), Pps) =
              1..Len(ChartOf(LastN(records, ChartLimit), Pps))
<1> DEFINE l == LastN(records, ChartLimit)
           c == ChartOf(l, Pps)
<1>1. /\ Len(added) \in Nat /\ Len(records) \in Nat /\ Len(records) <= Len(added)
      /\ records \in Seq(Record)
  BY LenProperties DEF TraceTypeOK, RecordsTypeOK, StoreIsTail
<1>2. /\ l \in Seq(Record) /\ Len(l) <= Len(records)
      /\ \A i \in 1..Len(l) : l[i] = records[Len(records) - Len(l) + i]
  BY <1>1, LastNEnds, RecordsAssumption
<1>3. c \in Seq(ChartPoint) /\ Len(c) = Len(l)
  BY <1>1, <1>2, ChartTyped, PpsTyped
<1>4. Len(l) \in Nat /\ DOMAIN c = 1..Len(c)
  BY <1>2, <1>3, LenProperties
<1>5. ASSUME NEW i \in 1..Len(c)
      PROVE  LET r == added[Len(added) - Len(c) + i].rec
             IN /\ c[i].timestamp = r.timestamp
                /\ c[i].jitter = IF Usable(r) THEN r.jitter_ms ELSE 0
  <2>1. c[i] = ToChartPoint(l[i], Pps)
    BY <1>3, <1>5 DEF ChartOf
  <2> HIDE DEF l, c
  <2> DEFINE x == Len(records) - Len(l) + i
  <2>2. i \in 1..Len(l) /\ x \in 1..Len(records)
        /\ Len(added) - Len(records) + x = Len(added) - Len(c) + i
    BY <1>1, <1>2, <1>3, <1>4
  <2>3. l[i] = records[x]
    BY <1>2, <2>2
  <2> HIDE DEF x
  <2>4. records[x] = added[Len(added) - Len(c) + i].rec
    BY <2>2 DEF StoreIsTail, Given
  <2> QED BY <2>1, <2>3, <2>4 DEF ToChartPoint
<1> HIDE DEF l, c
<1>6. Len(added) \in Len(c)..Len(added)
  BY <1>1, <1>2, <1>3, <1>4
<1>7. IsRun(c, added, Len(added))
  BY <1>4, <1>5, <1>6 DEF IsRun
<1> QED BY <1>4, <1>7 DEF l, c

LEMMA AddKeepsCache ==
  ASSUME TraceTypeOK, CacheInv, NEW ts, NEW m,
         NEW r \in Record, NEW k \in 0..Len(records), IsTraced(r, ts, m, k)
  PROVE  CacheInv'
<1>1. /\ Len(added) \in Nat /\ Len(added') = Len(added) + 1
      /\ \A i \in 1..Len(added) : added'[i] = added[i]
      /\ added'[Len(added) + 1].at = now
      /\ UNCHANGED <<now, chart_cache, chart_cache_time>>
  BY DEF IsTraced, chartVars
<1> SUFFICES ASSUME chart_cache_time # None
             PROVE  \E last \in 0..Len(added') :
                      /\ IsRun(chart_cache, added', last)
                      /\ \A i \in (last + 1)..Len(added') : added'[i].at >= chart_cache_time
  BY <1>1 DEF CacheInv
<1>2. PICK last \in 0..Len(added) :
        /\ IsRun(chart_cache, added, last)
        /\ \A i \in (last + 1)..Len(added) : added[i].at >= chart_cache_time
  BY DEF CacheInv
<1>3. /\ chart_cache_time <= now /\ now \in Int /\ chart_cache_time \in Int
      /\ DOMAIN chart_cache = 1..Len(chart_cache) /\ Len(chart_cache) \in Nat
  BY LenProperties DEF CacheInv, TraceTypeOK, RecordsTypeOK
<1>4. ASSUME NEW i \in DOMAIN chart_cache
      PROVE  last - Len(chart_cache) + i \in 1..Len(added)
  BY <1>1, <1>2, <1>3 DEF IsRun
<1>5. last \in Len(chart_cache)..Len(added')
  BY <1>1, <1>2, <1>3 DEF IsRun
<1>6. IsRun(chart_cache, added', last)
  BY <1>1, <1>2, <1>4, <1>5 DEF IsRun
<1>7. ASSUME NEW i \in (last + 1)..Len(added') PROVE added'[i].at >= chart_cache_time
  <2>1. CASE i = Len(added) + 1
    BY <1>1, <1>3, <2>1
  <2>2. CASE i # Len(added) + 1
    <3>1. i \in (last + 1)..Len(added) /\ i \in 1..Len(added)
      BY <1>1, <1>2, <2>2
    <3> QED BY <1>1, <1>2, <3>1
  <2> QED BY <2>1, <2>2
<1>8. last \in 0..Len(added')
  BY <1>1, <1>2
<1> QED BY <1>6, <1>7, <1>8

\* The cached chart is a run of the trace, and what was added after the end of that run
\* came no earlier than the chart was built.
THEOREM CacheInvHolds == TraceSpec => []CacheInv
<1>1. TraceInit => CacheInv
  BY DEF TraceInit, RecordsInit, CacheInv
<1>2. CacheInv /\ TraceTypeOK /\ StoreInv /\ [TraceNext]_traceVars => CacheInv'
  <2> SUFFICES ASSUME CacheInv, TraceTypeOK, StoreInv, [TraceNext]_traceVars
               PROVE  CacheInv'
    OBVIOUS
  <2>0. Len(added) \in Nat /\ now \in Int
    BY LenProperties DEF TraceTypeOK, RecordsTypeOK
  <2>1. ASSUME NEW ts \in (now - Delay)..now, NEW m \in MsgCode, NEW seq \in SeqInput(ts),
               TraceAdd(ts, m, seq)
        PROVE  CacheInv'
    <3>1. PICK r \in Record, k \in 0..Len(records) : IsTraced(r, ts, m, k)
      BY <2>1, AddTraced DEF IsInput
    <3> QED BY <3>1, AddKeepsCache
  <2>2. CASE TraceReset
    BY <2>2 DEF TraceReset, RecordsReset, CacheInv
  <2>3. ASSUME UNCHANGED <<added, chart_cache, chart_cache_time>>, now' \in Int, now <= now'
        PROVE  CacheInv'
    <3>1. ASSUME chart_cache_time # None PROVE chart_cache_time <= now'
      <4>1. chart_cache_time \in Int /\ chart_cache_time <= now
        BY <3>1 DEF CacheInv, TraceTypeOK, RecordsTypeOK
      <4> QED BY <2>0, <2>3, <4>1
    <3> QED BY <2>3, <3>1 DEF CacheInv, IsRun
  <2>4. CASE TraceResetStream
    BY <2>0, <2>3, <2>4 DEF TraceResetStream, ResetStreamState, chartVars
  <2>5. CASE TraceChart
    <3>1. CASE UNCHANGED chartVars
      BY <2>0, <2>3, <2>5, <3>1 DEF TraceChart, GetChartData, chartVars
    <3>2. CASE /\ chart_cache' = ChartOf(LastN(records, ChartLimit), Pps)
               /\ chart_cache_time' = now
      <4>1. added' = added /\ now' = now
        BY <2>5 DEF TraceChart, GetChartData
      <4>2. IsRun(chart_cache', added, Len(added))
        BY <3>2, FreshChartIsRun DEF StoreInv
      <4>3. Len(added) \in 0..Len(added) /\ (Len(added) + 1)..Len(added) = {}
        BY <2>0
      <4>4. IsRun(chart_cache, added, Len(added))'
        BY <4>1, <4>2 DEF IsRun
      <4> QED BY <2>0, <3>2, <4>1, <4>3, <4>4 DEF CacheInv
    <3> QED BY <2>5, <3>1, <3>2 DEF TraceChart, GetChartData
  <2>6. ASSUME NEW d \in 1..MaxStep, TracePass(d) PROVE CacheInv'
    BY <2>0, <2>3, <2>6, TraceAssumption DEF TracePass, Pass, chartVars
  <2>7. CASE UNCHANGED traceVars
    BY <2>0, <2>3, <2>7 DEF traceVars
  <2> QED
    BY <2>1, <2>2, <2>4, <2>5, <2>6, <2>7 DEF TraceNext
<1> QED
  BY <1>1, <1>2, TraceTypeCorrect, StoreInvHolds, PTL DEF TraceSpec

\* The chart, from the cache or not, is a run of the packets added since the last
\* reset that lacks none older than the lifetime of the cache.
THEOREM ChartCorrect == TraceSpec => []ChartIsRecentRun
<1>1. CacheInv /\ TraceTypeOK /\ StoreInv => ChartIsRecentRun
  <2> SUFFICES ASSUME CacheInv, TraceTypeOK, StoreInv PROVE ChartIsRecentRun
    OBVIOUS
  <2> DEFINE c == ChartShown
  <2>0. Len(added) \in Nat /\ now \in Int
    BY LenProperties DEF TraceTypeOK, RecordsTypeOK
  <2>1. PICK last \in 0..Len(added) :
          /\ IsRun(c, added, last) /\ c \in Seq(ChartPoint)
          /\ \A i \in (last + 1)..Len(added) : now - added[i].at < SECOND
    <3>1. CASE CacheIsFresh
      <4>1. c = chart_cache /\ chart_cache_time # None /\ now - chart_cache_time < SECOND
        BY <3>1 DEF ChartShown, CacheIsFresh
      <4>2. PICK last \in 0..Len(added) :
              /\ IsRun(chart_cache, added, last)
              /\ \A i \in (last + 1)..Len(added) : added[i].at >= chart_cache_time
        BY <4>1 DEF CacheInv
      <4>3. chart_cache_time \in Int /\ chart_cache \in Seq(ChartPoint)
        BY <4>1 DEF TraceTypeOK, RecordsTypeOK
      <4>4. ASSUME NEW i \in (last + 1)..Len(added) PROVE now - added[i].at < SECOND
        <5>1. i \in 1..Len(added)
          BY <2>0, <4>2
        <5>2. added[i].at \in Int
          <6>1. added[i] \in Entry
            BY <5>1, ElementOfSeq DEF TraceTypeOK
          <6> QED BY <6>1 DEF Entry
        <5>3. added[i].at >= chart_cache_time /\ SECOND \in Int
          BY <4>2, RecordsAssumption
        <5> QED BY <2>0, <4>1, <4>3, <5>2, <5>3
      <4> HIDE DEF c
      <4> QED BY <4>1, <4>2, <4>3, <4>4
    <3>2. CASE ~CacheIsFresh
      <4>1. c = ChartOf(LastN(records, ChartLimit), Pps)
        BY <3>2 DEF ChartShown
      <4>2. IsRun(c, added, Len(added))
        BY <4>1, FreshChartIsRun DEF StoreInv
      <4>3. c \in Seq(ChartPoint)
        <5>1. records \in Seq(Record) /\ Len(records) \in Nat
          BY LenProperties DEF TraceTypeOK, RecordsTypeOK
        <5>2. LastN(records, ChartLimit) \in Seq(Record)
          BY <5>1, LastNEnds, RecordsAssumption
        <5> QED BY <4>1, <5>1, <5>2, ChartTyped, PpsTyped
      <4>4. Len(added) \in 0..Len(added) /\ (Len(added) + 1)..Len(added) = {}
        BY <2>0
      <4> HIDE DEF c
      <4> QED BY <4>2, <4>3, <4>4
    <3> QED BY <3>1, <3>2
  <2>2. Len(c) \in Nat /\ (Len(c) = 0 => c = <<>>)
    BY <2>1, LenProperties, EmptySeq
  <2>3. last \in Len(c)..Len(added) /\ (last = 0 => c = <<>>)
    BY <2>0, <2>1, <2>2 DEF IsRun
  <2>4. \A i \in DOMAIN c :
          LET r == added[last - Len(c) + i].rec
          IN /\ c[i].timestamp = r.timestamp
             /\ c[i].jitter = IF Usable(r) THEN r.jitter_ms ELSE 0
    BY <2>1 DEF IsRun
  <2> HIDE DEF c
  <2>5. \E x \in Len(c)..Len(added) :
          /\ \A i \in DOMAIN c :
               LET r == added[x - Len(c) + i].rec
               IN /\ c[i].timestamp = r.timestamp
                  /\ c[i].jitter = IF Usable(r) THEN r.jitter_ms ELSE 0
          /\ \A i \in (x + 1)..Len(added) : now - added[i].at < SECOND
          /\ added # <<>> /\ x = 0 => c = <<>>
    BY <2>1, <2>3, <2>4, Zenon
  <2> QED BY <2>5 DEF ChartIsRecentRun, Given, c
<1> QED
  BY <1>1, CacheInvHolds, TraceTypeCorrect, StoreInvHolds, PTL

-----------------------------------------------------------------------------

\* The index of the 95th percentile lies in the list, and at least 95 of 100
\* samples lie at or before it, for every number of samples.
THEOREM P95IndexCovers ==
  ASSUME NEW n \in Nat \ {0}
  PROVE  /\ P95Index(n) \in 0..(n - 1)
         /\ 100 * (P95Index(n) + 1) >= 95 * n
<1>1. (n * 95) \div 100 \in Nat /\ n - 1 \in Nat
  OBVIOUS
<1>2. P95Index(n) = IF (n * 95) \div 100 <= n - 1 THEN (n * 95) \div 100 ELSE n - 1
  BY <1>1 DEF P95Index, Min
<1>3. 100 * ((n * 95) \div 100) > 95 * n - 100 /\ 100 * ((n * 95) \div 100) <= 95 * n
  OBVIOUS
<1>4. (n * 95) \div 100 <= n - 1
  BY <1>3, <1>1
<1> QED BY <1>1, <1>2, <1>3, <1>4

LEMMA RoundUpTo ==
  ASSUME NEW d \in Nat \ {0}, NEW n \in Nat, NEW k \in Nat, n <= k * d
  PROVE  Round(n, d) \in 0..k
<1> DEFINE q == n \div d
           r == n % d
<1>1. q \in Nat /\ r \in 0..(d - 1) /\ n = d * q + r
  OBVIOUS
<1>2. q <= k
  BY <1>1, Z3
<1>3. q = k => r = 0
  BY <1>1, Z3
<1>4. CASE q = k
  BY <1>1, <1>3, <1>4 DEF Round
<1>5. CASE q < k
  BY <1>1, <1>5 DEF Round
<1> QED BY <1>1, <1>2, <1>4, <1>5

\* A loss rate is a percentage, however many packets came or were lost.
THEOREM LossRateIsPercentage ==
  ASSUME NEW pps \in Nat, NEW packet_loss \in Nat
  PROVE  LossRate(pps, packet_loss) \in Nat /\ LossRate(pps, packet_loss) <= 10000
<1>1. CASE pps + packet_loss = 0
  BY <1>1 DEF LossRate
<1>2. CASE pps + packet_loss # 0
  <2> DEFINE d == pps + packet_loss
             n == 10000 * packet_loss
             k == 10000
  <2>1. d \in Nat \ {0} /\ n \in Nat /\ k \in Nat /\ n <= k * d
    BY <1>2
  <2>2. LossRate(pps, packet_loss) = Round(n, d)
    BY <1>2 DEF LossRate
  <2> HIDE DEF d, n, k
  <2>3. Round(n, d) \in 0..k
    BY <2>1, RoundUpTo, Zenon
  <2>4. LossRate(pps, packet_loss) \in 0..k
    BY <2>2, <2>3, Zenon
  <2>5. LossRate(pps, packet_loss) \in Nat /\ LossRate(pps, packet_loss) <= k
    BY <2>1, <2>4
  <2> QED BY <2>5 DEF k
<1> QED BY <1>1, <1>2

\* The quality score stays between 0 and 100, however large jitter and loss grow.
THEOREM QualityIsBounded ==
  ASSUME NEW jitter \in Nat, NEW loss_rate \in Nat
  PROVE  QualityScore(jitter, loss_rate) \in 0..1000
<1> DEFINE js == Clamp(100 - 2 * jitter, 0, 100)
           ls == Clamp(1000 - loss_rate, 0, 1000)
           n == 60 * js + 4 * ls
           d == 10
           k == 1000
<1>1. js \in 0..100 /\ ls \in 0..1000
  BY DEF Clamp
<1>2. n \in Nat /\ d \in Nat \ {0} /\ k \in Nat /\ n <= k * d
  <2> HIDE DEF js, ls
  <2> QED BY <1>1
<1> HIDE DEF n, d, k
<1>3. Round(n, d) \in 0..k
  BY <1>2, RoundUpTo, Zenon
<1> QED BY <1>3 DEF QualityScore, n, d, k

-----------------------------------------------------------------------------

\* h gives the sum over each part of A, whichever member is taken last.
IsAdditive(h, g, A) ==
  /\ h \in [SUBSET A -> Int]
  /\ h[{}] = 0
  /\ \A T \in SUBSET A : \A x \in T : h[T] = h[T \ {x}] + g[x]

\* The recursion of SumFunctionOnSet().
Taking(f, g, S) ==
  [s \in SUBSET S |-> IF s = {} THEN 0
                      ELSE g[CHOOSE x \in s : TRUE] + f[s \ {CHOOSE x \in s : TRUE}]]

LEMMA SumDef ==
  ASSUME NEW g, NEW S
  PROVE  SumFunctionOnSet(g, S) = (CHOOSE f : f = Taking(f, g, S))[S]
BY DEF SumFunctionOnSet, FoldFunctionOnSet, MapThenFoldSet, Taking

\* A finite set allows for induction by its cardinality: a least part.
LEMMA LeastPart ==
  ASSUME NEW A, IsFiniteSet(A), NEW B \in SUBSET (SUBSET A), B # {}
  PROVE  \E T \in B : \A x \in T : T \ {x} \notin B
<1> DEFINE N == {n \in Nat : \E T \in B : Cardinality(T) = n}
<1>1. \A T \in B : IsFiniteSet(T) /\ Cardinality(T) \in Nat
  BY FS_Subset, FS_CardinalityType
<1>2. N # {} /\ N \in SUBSET Nat
  BY <1>1
<1>3. PICK n \in N : \A k \in N : n <= k
  BY <1>2, LeastNatural
<1>4. n \in Nat /\ \E T \in B : Cardinality(T) = n
  BY <1>3
<1>6. PICK T \in B : Cardinality(T) = n
  BY <1>4
<1>5. ASSUME NEW x \in T, T \ {x} \in B PROVE FALSE
  <2>1. Cardinality(T \ {x}) = Cardinality(T) - 1
    BY <1>1, FS_RemoveElement
  <2>2. Cardinality(T \ {x}) \in N
    BY <1>1, <1>5
  <2> HIDE DEF N
  <2>3. n <= n - 1
    BY <1>3, <1>6, <2>1, <2>2
  <2> QED BY <1>4, <2>3
<1> QED BY <1>5

LEMMA AdditiveExists ==
  ASSUME NEW A, IsFiniteSet(A), NEW g, \A x \in A : g[x] \in Int
  PROVE  \E h : IsAdditive(h, g, A)
<1> DEFINE B == {S \in SUBSET A : ~ \E h : IsAdditive(h, g, S)}
<1>1. ASSUME NEW S \in B, \A x \in S : S \ {x} \notin B PROVE FALSE
  <2>1. CASE S = {}
    <3> DEFINE h == [T \in SUBSET {} |-> 0]
    <3>1. IsAdditive(h, g, {})
      BY DEF IsAdditive
    <3> QED BY <1>1, <2>1, <3>1
  <2>2. CASE S # {}
    <3>1. PICK a \in S : TRUE
      BY <2>2
    <3>2. S \ {a} \in SUBSET A /\ S \ {a} \notin B
      BY <1>1, <3>1
    <3>3. PICK h : IsAdditive(h, g, S \ {a})
      BY <3>2
    <3> DEFINE e == [T \in SUBSET S |-> IF a \in T THEN h[T \ {a}] + g[a] ELSE h[T]]
    <3>4. g[a] \in Int
      OBVIOUS
    <3>5. ASSUME NEW T \in SUBSET S
          PROVE  /\ T \ {a} \in SUBSET (S \ {a}) /\ h[T \ {a}] \in Int
                 /\ a \notin T => T \in SUBSET (S \ {a}) /\ h[T] \in Int
      <4>1. T \ {a} \in SUBSET (S \ {a})
        OBVIOUS
      <4>2. a \notin T => T \in SUBSET (S \ {a})
        OBVIOUS
      <4> QED BY <3>3, <4>1, <4>2 DEF IsAdditive
    <3>6. e \in [SUBSET S -> Int] /\ e[{}] = 0
      BY <3>3, <3>4, <3>5 DEF IsAdditive
    <3>7. ASSUME NEW T \in SUBSET S, NEW x \in T PROVE e[T] = e[T \ {x}] + g[x]
      <4>0. T \ {x} \in SUBSET S
        OBVIOUS
      <4>1. CASE x = a
        <5>1. e[T] = h[T \ {a}] + g[a] /\ e[T \ {x}] = h[T \ {a}]
          BY <3>7, <4>0, <4>1
        <5> QED BY <4>1, <5>1
      <4>2. CASE x # a /\ a \in T
        <5>1. e[T] = h[T \ {a}] + g[a] /\ e[T \ {x}] = h[(T \ {x}) \ {a}] + g[a]
          BY <4>0, <4>2
        <5>2. (T \ {x}) \ {a} = (T \ {a}) \ {x} /\ x \in T \ {a} /\ T \ {a} \in SUBSET (S \ {a})
          BY <4>2
        <5>3. h[T \ {a}] = h[(T \ {a}) \ {x}] + g[x]
          BY <3>3, <5>2 DEF IsAdditive
        <5>4. h[(T \ {a}) \ {x}] \in Int /\ g[x] \in Int
          <6>1. (T \ {a}) \ {x} \in SUBSET (S \ {a}) /\ x \in A
            OBVIOUS
          <6> QED BY <3>3, <6>1 DEF IsAdditive
        <5>5. e[T] = (h[(T \ {a}) \ {x}] + g[x]) + g[a]
          BY <5>1, <5>3
        <5>6. e[T \ {x}] = h[(T \ {a}) \ {x}] + g[a]
          BY <5>1, <5>2
        <5> HIDE DEF e
        <5> QED BY <3>4, <5>4, <5>5, <5>6
      <4>3. CASE a \notin T
        <5>1. e[T] = h[T] /\ e[T \ {x}] = h[T \ {x}] /\ T \in SUBSET (S \ {a})
          BY <4>0, <4>3
        <5> QED BY <3>3, <5>1 DEF IsAdditive
      <4> QED BY <4>1, <4>2, <4>3
    <3> HIDE DEF e
    <3>8. IsAdditive(e, g, S)
      BY <3>6, <3>7 DEF IsAdditive
    <3> QED BY <1>1, <3>8
  <2> QED BY <2>1, <2>2
<1>2. B = {}
  <2> SUFFICES ASSUME B # {} PROVE FALSE
    OBVIOUS
  <2>1. B \in SUBSET (SUBSET A)
    OBVIOUS
  <2> HIDE DEF B
  <2> QED BY <1>1, <2>1, LeastPart
<1> QED BY <1>2

\* The sum is what an additive function says, for each part of a finite set.
LEMMA SumIsAdditive ==
  ASSUME NEW A, IsFiniteSet(A), NEW g, \A x \in A : g[x] \in Int, NEW h, IsAdditive(h, g, A), NEW S \in SUBSET A
  PROVE  SumFunctionOnSet(g, S) = h[S]
<1> DEFINE r == [T \in SUBSET S |-> h[T]]
           f == CHOOSE f : f = Taking(f, g, S)
<1>0. IsFiniteSet(S)
  BY FS_Subset
<1>1. r = Taking(r, g, S)
  <2>1. ASSUME NEW T \in SUBSET S
        PROVE  h[T] = IF T = {} THEN 0
                      ELSE g[CHOOSE x \in T : TRUE] + r[T \ {CHOOSE x \in T : TRUE}]
    <3>1. CASE T = {}
      BY <3>1 DEF IsAdditive
    <3>2. CASE T # {}
      <4> DEFINE x == CHOOSE x \in T : TRUE
      <4>1. x \in T
        BY <3>2
      <4> HIDE DEF x
      <4>2. T \in SUBSET A /\ T \ {x} \in SUBSET S /\ T \ {x} \in SUBSET A
        OBVIOUS
      <4>3. h[T] = h[T \ {x}] + g[x] /\ h[T \ {x}] \in Int /\ h[T] \in Int
        BY <4>1, <4>2 DEF IsAdditive
      <4>4. r[T \ {x}] = h[T \ {x}]
        BY <4>2
      <4>5. h[T] = g[x] + r[T \ {x}]
        <5>1. g[x] \in Int
          BY <4>1, <4>2
        <5> QED BY <4>3, <4>4, <5>1
      <4> QED BY <3>2, <4>5 DEF x
    <3> QED BY <3>1, <3>2
  <2>2. r = [T \in SUBSET S |-> IF T = {} THEN 0
                      ELSE g[CHOOSE x \in T : TRUE] + r[T \ {CHOOSE x \in T : TRUE}]]
    BY <2>1
  <2> QED BY <2>2 DEF Taking
<1> HIDE DEF r
<1>2. f = Taking(f, g, S)
  BY <1>1
<1> HIDE DEF f
<1>3. \A T \in SUBSET S : f[T] = h[T]
  <2> DEFINE B == {T \in SUBSET S : f[T] # h[T]}
  <2>1. ASSUME NEW T \in B, \A x \in T : T \ {x} \notin B PROVE FALSE
    <3>1. f[T] = IF T = {} THEN 0
                 ELSE g[CHOOSE x \in T : TRUE] + f[T \ {CHOOSE x \in T : TRUE}]
      BY <1>2, <2>1 DEF Taking
    <3>2. CASE T = {}
      BY <2>1, <3>1, <3>2 DEF IsAdditive
    <3>3. CASE T # {}
      <4> DEFINE x == CHOOSE x \in T : TRUE
      <4>1. x \in T
        BY <3>3
      <4>2. f[T] = g[x] + f[T \ {x}]
        BY <3>1, <3>3
      <4> HIDE DEF x
      <4>3. T \in SUBSET A /\ T \ {x} \in SUBSET S /\ T \ {x} \in SUBSET A
        OBVIOUS
      <4>4. f[T \ {x}] = h[T \ {x}]
        BY <2>1, <4>1, <4>3
      <4>5. h[T] = h[T \ {x}] + g[x] /\ h[T \ {x}] \in Int /\ h[T] \in Int
        BY <4>1, <4>3 DEF IsAdditive
      <4>6. g[x] \in Int
        BY <4>1, <4>3
      <4>7. f[T] = h[T]
        BY <4>2, <4>4, <4>5, <4>6
      <4> QED BY <2>1, <4>7
    <3> QED BY <3>2, <3>3
  <2>2. B = {}
    <3> SUFFICES ASSUME B # {} PROVE FALSE
      OBVIOUS
    <3>1. B \in SUBSET (SUBSET S)
      OBVIOUS
    <3> HIDE DEF B
    <3> QED BY <1>0, <2>1, <3>1, LeastPart
  <2> QED BY <2>2
<1> QED BY <1>3, SumDef DEF f

\* The sum over a finite set, and what its members add to it.
LEMMA SumTakes ==
  ASSUME NEW A, IsFiniteSet(A), NEW g, \A x \in A : g[x] \in Int
  PROVE  /\ SumFunctionOnSet(g, {}) = 0
         /\ \A S \in SUBSET A :
              /\ SumFunctionOnSet(g, S) \in Int
              /\ \A x \in S : SumFunctionOnSet(g, S) = SumFunctionOnSet(g, S \ {x}) + g[x]
<1>1. PICK h : IsAdditive(h, g, A)
  BY AdditiveExists
<1>2. \A S \in SUBSET A : SumFunctionOnSet(g, S) = h[S]
  BY <1>1, SumIsAdditive
<1>3. SumFunctionOnSet(g, {}) = 0
  BY <1>1, <1>2 DEF IsAdditive
<1>4. ASSUME NEW S \in SUBSET A
      PROVE  /\ SumFunctionOnSet(g, S) \in Int
             /\ \A x \in S : SumFunctionOnSet(g, S) = SumFunctionOnSet(g, S \ {x}) + g[x]
  <2>1. \A x \in S : S \ {x} \in SUBSET A
    OBVIOUS
  <2> QED BY <1>1, <1>2, <2>1 DEF IsAdditive
<1> QED BY <1>3, <1>4

LEMMA SumMonotone ==
  ASSUME NEW A, IsFiniteSet(A), NEW f, NEW g,
         \A x \in A : f[x] \in Int /\ g[x] \in Int /\ f[x] <= g[x]
  PROVE  SumFunctionOnSet(f, A) <= SumFunctionOnSet(g, A)
<1> DEFINE a(S) == SumFunctionOnSet(f, S)
           b(S) == SumFunctionOnSet(g, S)
           B == {S \in SUBSET A : ~(a(S) <= b(S))}
<1>1. /\ a({}) = 0
      /\ \A S \in SUBSET A : a(S) \in Int /\ \A x \in S : a(S) = a(S \ {x}) + f[x]
  BY SumTakes
<1>2. /\ b({}) = 0
      /\ \A S \in SUBSET A : b(S) \in Int /\ \A x \in S : b(S) = b(S \ {x}) + g[x]
  BY SumTakes
<1> HIDE DEF a, b
<1>3. ASSUME NEW S \in B, \A x \in S : S \ {x} \notin B PROVE FALSE
  <2>1. S # {}
    BY <1>1, <1>2, <1>3
  <2>2. PICK x \in S : TRUE
    BY <2>1
  <2>3. S \ {x} \in SUBSET A /\ x \in A
    OBVIOUS
  <2>4. a(S \ {x}) <= b(S \ {x})
    BY <1>3, <2>2, <2>3
  <2>5. a(S) = a(S \ {x}) + f[x] /\ b(S) = b(S \ {x}) + g[x]
    BY <1>1, <1>2, <2>2
  <2>6. /\ a(S \ {x}) \in Int /\ b(S \ {x}) \in Int
        /\ f[x] \in Int /\ g[x] \in Int /\ f[x] <= g[x]
    BY <1>1, <1>2, <2>3
  <2>7. a(S) <= b(S)
    BY <2>4, <2>5, <2>6
  <2> QED BY <1>3, <2>7
<1>4. B = {}
  <2> SUFFICES ASSUME B # {} PROVE FALSE
    OBVIOUS
  <2>1. B \in SUBSET (SUBSET A)
    OBVIOUS
  <2> HIDE DEF B
  <2> QED BY <1>3, <2>1, LeastPart
<1> QED BY <1>4 DEF a, b

LEMMA SumSame ==
  ASSUME NEW A, IsFiniteSet(A), NEW f, NEW g, \A x \in A : f[x] \in Int /\ f[x] = g[x]
  PROVE  SumFunctionOnSet(f, A) = SumFunctionOnSet(g, A)
<1>1. \A x \in A : f[x] <= g[x] /\ g[x] <= f[x] /\ g[x] \in Int
  OBVIOUS
<1>2. SumFunctionOnSet(f, A) <= SumFunctionOnSet(g, A)
  BY <1>1, SumMonotone
<1>3. SumFunctionOnSet(g, A) <= SumFunctionOnSet(f, A)
  BY <1>1, SumMonotone
<1>4. SumFunctionOnSet(f, A) \in Int /\ SumFunctionOnSet(g, A) \in Int
  BY <1>1, SumTakes
<1> QED BY <1>2, <1>3, <1>4

LEMMA SumOfZeros ==
  ASSUME NEW A, IsFiniteSet(A), NEW f, \A x \in A : f[x] = 0
  PROVE  SumFunctionOnSet(f, A) = 0
<1> DEFINE h == [S \in SUBSET A |-> 0]
<1>1. IsAdditive(h, f, A)
  <2>1. ASSUME NEW S \in SUBSET A, NEW x \in S PROVE h[S] = h[S \ {x}] + f[x]
    <3>1. S \ {x} \in SUBSET A /\ f[x] = 0
      OBVIOUS
    <3> QED BY <3>1
  <2> QED BY <2>1 DEF IsAdditive
<1>2. SumFunctionOnSet(f, A) = h[A]
  <2> HIDE DEF h
  <2> QED BY <1>1, SumIsAdditive
<1> QED BY <1>2

\* One value more is one sum more.
LEMMA SumOfChange ==
  ASSUME NEW A, IsFiniteSet(A), NEW f \in [A -> Int], NEW m \in A, NEW d \in Int,
         NEW g \in [A -> Int], g[m] = f[m] + d, \A x \in A \ {m} : g[x] = f[x]
  PROVE  SumFunction(g) = SumFunction(f) + d
<1>1. g \in [A -> Int] /\ g[m] = f[m] + d /\ \A x \in A \ {m} : g[x] = f[x]
  OBVIOUS
<1>2. SumFunction(f) = SumFunctionOnSet(f, A) /\ SumFunction(g) = SumFunctionOnSet(g, A)
  BY <1>1 DEF SumFunction
<1>3. SumFunctionOnSet(g, A) = SumFunctionOnSet(g, A \ {m}) + g[m]
  BY <1>1, SumTakes
<1>4. /\ SumFunctionOnSet(f, A) = SumFunctionOnSet(f, A \ {m}) + f[m]
      /\ SumFunctionOnSet(f, A \ {m}) \in Int
  <2>1. A \ {m} \in SUBSET A
    OBVIOUS
  <2> QED BY <2>1, SumTakes
<1>5. SumFunctionOnSet(g, A \ {m}) = SumFunctionOnSet(f, A \ {m})
  <2>1. IsFiniteSet(A \ {m}) /\ \A x \in A \ {m} : g[x] \in Int /\ g[x] = f[x]
    BY <1>1, FS_RemoveElement
  <2> QED BY <2>1, SumSame
<1>6. f[m] \in Int
  OBVIOUS
<1> QED BY <1>1, <1>2, <1>3, <1>4, <1>5, <1>6

\* Two sets without a common member.
LEMMA SumOfTwo ==
  ASSUME NEW A, IsFiniteSet(A), NEW f, \A x \in A : f[x] \in Int,
         NEW R \in SUBSET A, NEW S \in SUBSET A, R \cap S = {}
  PROVE  SumFunctionOnSet(f, R \cup S) = SumFunctionOnSet(f, R) + SumFunctionOnSet(f, S)
<1> DEFINE a(T) == SumFunctionOnSet(f, T)
           B == {T \in SUBSET S : a(R \cup T) # a(R) + a(T)}
<1>1. /\ a({}) = 0
      /\ \A T \in SUBSET A : a(T) \in Int /\ \A x \in T : a(T) = a(T \ {x}) + f[x]
  BY SumTakes
<1> HIDE DEF a
<1>2. ASSUME NEW T \in B, \A x \in T : T \ {x} \notin B PROVE FALSE
  <2>1. T # {}
    <3> SUFFICES ASSUME T = {} PROVE FALSE
      OBVIOUS
    <3>1. R \cup T = R
      OBVIOUS
    <3>2. a(R) \in Int /\ a(T) = 0
      BY <1>1
    <3> QED BY <1>2, <3>1, <3>2
  <2>2. PICK x \in T : TRUE
    BY <2>1
  <2>3. /\ R \cup T \in SUBSET A /\ x \in R \cup T /\ T \in SUBSET A /\ x \in A
        /\ T \ {x} \in SUBSET S /\ T \ {x} \in SUBSET A
        /\ (R \cup T) \ {x} = R \cup (T \ {x})
    BY <2>2
  <2>4. a(R \cup T) = a(R \cup (T \ {x})) + f[x]
    BY <1>1, <2>3
  <2>5. a(T) = a(T \ {x}) + f[x]
    BY <1>1, <2>2, <2>3
  <2>6. a(R \cup (T \ {x})) = a(R) + a(T \ {x})
    BY <1>2, <2>2, <2>3
  <2>7. a(R) \in Int /\ a(T \ {x}) \in Int /\ f[x] \in Int
    BY <1>1, <2>3
  <2>8. a(R \cup T) = a(R) + a(T)
    BY <2>4, <2>5, <2>6, <2>7
  <2> QED BY <1>2, <2>8
<1>3. B = {}
  <2> SUFFICES ASSUME B # {} PROVE FALSE
    OBVIOUS
  <2>1. B \in SUBSET (SUBSET S) /\ IsFiniteSet(S)
    BY FS_Subset
  <2> HIDE DEF B
  <2> QED BY <1>2, <2>1, LeastPart
<1> QED BY <1>3 DEF a

\* Sums of parts add up to the sum of the whole.
LEMMA SumOfParts ==
  ASSUME NEW A, IsFiniteSet(A), NEW f, \A x \in A : f[x] \in Int,
         NEW T, IsFiniteSet(T), NEW part \in [T -> SUBSET A],
         \A t \in T, u \in T : t # u => part[t] \cap part[u] = {},
         NEW g, \A t \in T : g[t] = SumFunctionOnSet(f, part[t])
  PROVE  SumFunctionOnSet(g, T) = SumFunctionOnSet(f, UNION {part[t] : t \in T})
<1> DEFINE a(S) == SumFunctionOnSet(f, S)
           b(U) == SumFunctionOnSet(g, U)
           w(U) == UNION {part[t] : t \in U}
           B == {U \in SUBSET T : b(U) # a(w(U))}
<1>1. a({}) = 0 /\ \A S \in SUBSET A : a(S) \in Int
  BY SumTakes
<1>2. \A t \in T : g[t] \in Int /\ g[t] = a(part[t])
  BY <1>1
<1>3. /\ b({}) = 0
      /\ \A U \in SUBSET T : b(U) \in Int /\ \A x \in U : b(U) = b(U \ {x}) + g[x]
  BY <1>2, SumTakes
<1>4. ASSUME NEW R \in SUBSET A, NEW S \in SUBSET A, R \cap S = {} PROVE a(R \cup S) = a(R) + a(S)
  BY <1>4, SumOfTwo
<1> HIDE DEF a, b
<1>5. ASSUME NEW U \in B, \A x \in U : U \ {x} \notin B PROVE FALSE
  <2>1. U # {}
    <3> SUFFICES ASSUME U = {} PROVE FALSE
      OBVIOUS
    <3>1. w(U) = {}
      OBVIOUS
    <3> HIDE DEF w
    <3> QED BY <1>1, <1>3, <1>5, <3>1
  <2>2. PICK x \in U : TRUE
    BY <2>1
  <2>3. U \ {x} \in SUBSET T /\ U \in SUBSET T /\ x \in T
    BY <2>2
  <2>4. w(U) = w(U \ {x}) \cup part[x]
    BY <2>2
  <2>5. w(U \ {x}) \in SUBSET A /\ part[x] \in SUBSET A
    <3>1. \A t \in U \ {x} : part[t] \in SUBSET A
      BY <2>3
    <3> QED BY <2>3, <3>1
  <2>6. w(U \ {x}) \cap part[x] = {}
    <3>1. \A t \in U \ {x} : part[t] \cap part[x] = {}
      BY <2>3
    <3> QED BY <3>1
  <2> HIDE DEF w
  <2>7. a(w(U)) = a(w(U \ {x})) + a(part[x])
    BY <1>4, <2>4, <2>5, <2>6
  <2>8. b(U \ {x}) = a(w(U \ {x}))
    BY <1>5, <2>2, <2>3
  <2>9. b(U) = b(U \ {x}) + g[x] /\ g[x] = a(part[x])
    BY <1>2, <1>3, <2>2, <2>3
  <2>10. b(U) = a(w(U))
    BY <2>7, <2>8, <2>9
  <2> QED BY <1>5, <2>10
<1>6. B = {}
  <2> SUFFICES ASSUME B # {} PROVE FALSE
    OBVIOUS
  <2>1. B \in SUBSET (SUBSET T)
    OBVIOUS
  <2> HIDE DEF B
  <2> QED BY <1>5, <2>1, LeastPart
<1> QED BY <1>6 DEF a, b

\* The sum over the first n places is at most that over a longer run of larger ones.
LEMMA SumOfFewer ==
  ASSUME NEW n \in Nat, NEW off \in Nat, NEW f, NEW g,
         \A i \in 1..n : f[i] \in Int /\ f[i] <= g[off + i],
         \A i \in 1..(off + n) : g[i] \in Nat
  PROVE  SumFunctionOnSet(f, 1..n) <= SumFunctionOnSet(g, 1..(off + n))
<1> DEFINE a(k) == SumFunctionOnSet(f, 1..k)
           b(k) == SumFunctionOnSet(g, 1..k)
           M == off + n
           B == {k \in 0..n : a(k) <= b(off + k)}
<1>1. a(0) = 0 /\ \A k \in 1..n : a(k) \in Int /\ a(k - 1) \in Int /\ a(k) = a(k - 1) + f[k]
  <2>1. IsFiniteSet(1..n) /\ 1..0 = {}
    BY FS_Interval
  <2>2. \A k \in 1..n : 1..k \in SUBSET (1..n) /\ 1..(k - 1) \in SUBSET (1..n)
                        /\ k \in 1..k /\ 1..(k - 1) = (1..k) \ {k}
    OBVIOUS
  <2> DEFINE A == 1..n
  <2>3. /\ SumFunctionOnSet(f, {}) = 0
        /\ \A S \in SUBSET A :
             /\ SumFunctionOnSet(f, S) \in Int
             /\ \A x \in S : SumFunctionOnSet(f, S) = SumFunctionOnSet(f, S \ {x}) + f[x]
    <3>1. IsFiniteSet(A) /\ \A x \in A : f[x] \in Int
      BY <2>1
    <3> HIDE DEF A
    <3> QED BY <3>1, SumTakes
  <2>4. a(0) = 0
    BY <2>1, <2>3
  <2>5. ASSUME NEW k \in 1..n
        PROVE  a(k) \in Int /\ a(k - 1) \in Int /\ a(k) = a(k - 1) + f[k]
    <3> DEFINE S == 1..k
    <3>1. S \in SUBSET A /\ S \ {k} \in SUBSET A /\ k \in S /\ 1..(k - 1) = S \ {k}
      BY <2>2
    <3> HIDE DEF S, A
    <3>2. SumFunctionOnSet(f, S) = SumFunctionOnSet(f, S \ {k}) + f[k]
      BY <2>3, <3>1
    <3>3. SumFunctionOnSet(f, S) \in Int /\ SumFunctionOnSet(f, S \ {k}) \in Int
      BY <2>3, <3>1
    <3> QED BY <3>1, <3>2, <3>3 DEF S
  <2> QED BY <2>4, <2>5
<1>m. M \in Nat /\ \A k \in 1..M : g[k] \in Nat
  OBVIOUS
<1> HIDE DEF M
<1>2. b(0) = 0 /\ \A k \in 1..M : b(k) \in Int /\ b(k - 1) \in Int /\ b(k) = b(k - 1) + g[k]
  <2>1. IsFiniteSet(1..M) /\ 1..0 = {}
    BY <1>m, FS_Interval
  <2>2. \A k \in 1..M : 1..k \in SUBSET (1..M) /\ 1..(k - 1) \in SUBSET (1..M)
                        /\ k \in 1..k /\ 1..(k - 1) = (1..k) \ {k}
    BY <1>m
  <2> DEFINE A == 1..M
  <2>3. /\ SumFunctionOnSet(g, {}) = 0
        /\ \A S \in SUBSET A :
             /\ SumFunctionOnSet(g, S) \in Int
             /\ \A x \in S : SumFunctionOnSet(g, S) = SumFunctionOnSet(g, S \ {x}) + g[x]
    <3>1. IsFiniteSet(A) /\ \A x \in A : g[x] \in Int
      BY <1>m, <2>1
    <3> HIDE DEF A
    <3> QED BY <3>1, SumTakes
  <2>4. b(0) = 0
    BY <2>1, <2>3
  <2>5. ASSUME NEW k \in 1..M
        PROVE  b(k) \in Int /\ b(k - 1) \in Int /\ b(k) = b(k - 1) + g[k]
    <3> DEFINE S == 1..k
    <3>1. S \in SUBSET A /\ S \ {k} \in SUBSET A /\ k \in S /\ 1..(k - 1) = S \ {k}
      BY <2>2
    <3> HIDE DEF S, A
    <3>2. SumFunctionOnSet(g, S) = SumFunctionOnSet(g, S \ {k}) + g[k]
      BY <2>3, <3>1
    <3>3. SumFunctionOnSet(g, S) \in Int /\ SumFunctionOnSet(g, S \ {k}) \in Int
      BY <2>3, <3>1
    <3> QED BY <3>1, <3>2, <3>3 DEF S
  <2> QED BY <2>4, <2>5
<1> USE DEF M
<1> HIDE DEF a, b
<1>3. 0 <= b(off)
  <2> DEFINE C == {k \in 0..off : b(k) \in Nat}
  <2>1. 0 \in C
    BY <1>2
  <2>2. ASSUME NEW k \in 1..off, k - 1 \in C PROVE k \in C
    <3>1. k \in 1..(off + n)
      OBVIOUS
    <3>2. b(k) = b(k - 1) + g[k] /\ g[k] \in Nat /\ b(k - 1) \in Nat
      BY <1>2, <2>2, <3>1
    <3> QED BY <3>2
  <2> HIDE DEF C
  <2>3. \A k \in 0..off : k \in C
    BY <2>1, <2>2, NumbersUpTo
  <2> QED BY <2>3 DEF C
<1>4. 0 \in B
  BY <1>1, <1>3
<1>5. ASSUME NEW k \in 1..n, k - 1 \in B PROVE k \in B
  <2>1. off + k \in 1..(off + n) /\ off + (k - 1) = (off + k) - 1
    OBVIOUS
  <2>2. a(k - 1) <= b((off + k) - 1)
    BY <1>5, <2>1
  <2>3. /\ a(k) = a(k - 1) + f[k] /\ a(k - 1) \in Int /\ f[k] \in Int /\ f[k] <= g[off + k]
        /\ b(off + k) = b((off + k) - 1) + g[off + k] /\ b((off + k) - 1) \in Int
        /\ g[off + k] \in Int
    BY <1>1, <1>2, <2>1
  <2> QED BY <2>2, <2>3
<1> HIDE DEF B
<1>6. \A k \in 0..n : k \in B
  BY <1>4, <1>5, NumbersUpTo
<1> QED BY <1>6 DEF B, a, b

-----------------------------------------------------------------------------

\* What the packet at a place of the trace counts as lost, by the packet of its
\* code before it.
LossIn(s, i) ==
  LET p   == s[Max(PriorIn(s, i))].rec
      gap == SequenceGap(p.sequence, s[i].rec.sequence)
  IN IF /\ PriorIn(s, i) # {}
        /\ s[i].rec.timestamp - p.timestamp <= STREAM_RESTART_GAP
        /\ gap > 1
     THEN gap - 1
     ELSE 0

LossesOf(s) == [i \in 1..Len(s) |-> LossIn(s, i)]

RemembersNumber(p, s, b, m) ==
  SameCode(s, b, m) # {} => p.sequence = s[Max(SameCode(s, b, m))].rec.sequence

LEMMA GapTyped ==
  ASSUME NEW a \in Sequence, NEW b \in Sequence
  PROVE  SequenceGap(a, b) \in Nat
BY DEF SequenceGap, Sequence, MODULUS

LEMMA PriorPlaces ==
  ASSUME NEW s \in Seq(Entry), NEW i \in 1..Len(s), PriorIn(s, i) # {}
  PROVE  /\ Max(PriorIn(s, i)) \in PriorIn(s, i)
         /\ Max(PriorIn(s, i)) \in 1..Len(s)
         /\ \A y \in PriorIn(s, i) : y <= Max(PriorIn(s, i))
<1>1. Len(s) \in Nat /\ s[i].base \in Nat
  <2>1. s[i] \in Entry
    BY ElementOfSeq
  <2> QED BY <2>1, LenProperties DEF Entry
<1>2. PriorIn(s, i) \in SUBSET (1..Len(s))
  BY <1>1 DEF PriorIn
<1> QED BY <1>1, <1>2, MaxOfPositions

LEMMA LossTyped ==
  ASSUME NEW s \in Seq(Entry), NEW i \in 1..Len(s)
  PROVE  LossIn(s, i) \in Nat
<1> DEFINE p == s[Max(PriorIn(s, i))].rec
           gap == SequenceGap(p.sequence, s[i].rec.sequence)
<1>1. CASE PriorIn(s, i) = {}
  BY <1>1 DEF LossIn
<1>2. CASE PriorIn(s, i) # {}
  <2>1. s[Max(PriorIn(s, i))] \in Entry /\ s[i] \in Entry
    BY <1>2, PriorPlaces, ElementOfSeq
  <2>2. p.sequence \in Sequence /\ s[i].rec.sequence \in Sequence
    BY <2>1 DEF Entry, Record
  <2>3. gap \in Nat
    BY <2>2, GapTyped
  <2> HIDE DEF p, gap
  <2>4. gap > 1 => gap - 1 \in Nat
    BY <2>3
  <2> QED BY <2>4 DEF LossIn, p, gap
<1> QED BY <1>1, <1>2

LEMMA LossKept ==
  ASSUME NEW s \in Seq(Entry), NEW t, NEW b, NEW ts, NEW m, IsLonger(t, s, b, ts, m),
         NEW i \in 1..Len(s)
  PROVE  LossIn(t, i) = LossIn(s, i)
<1>1. Len(s) \in Nat /\ \A j \in 1..Len(s) : t[j] = s[j]
  BY DEF IsLonger
<1>2. t[i] = s[i] /\ s[i].base \in Nat
  <2>1. s[i] \in Entry
    BY ElementOfSeq
  <2> QED BY <1>1, <2>1 DEF Entry
<1>3. PriorIn(t, i) = PriorIn(s, i)
  <2>1. \A j \in (s[i].base + 1)..(i - 1) : t[j] = s[j]
    BY <1>1, <1>2
  <2> QED BY <1>2, <2>1 DEF PriorIn
<1>4. PriorIn(s, i) # {} => t[Max(PriorIn(s, i))] = s[Max(PriorIn(s, i))]
  BY <1>1, PriorPlaces
<1> QED BY <1>2, <1>3, <1>4 DEF LossIn

\* What is remembered of a code is enough for the loss by the whole trace.
LEMMA LossFromMemory ==
  ASSUME NEW s, NEW t, NEW b, NEW ts \in Int, NEW m, IsLonger(t, s, b, ts, m),
         NEW p, RemembersLast(p, s, b, m), RemembersNumber(p, s, b, m)
  PROVE  LossOf(p, ts, t[Len(t)].rec.sequence) = LossIn(t, Len(t))
<1> DEFINE S == SameCode(s, b, m)
           seq == t[Len(t)].rec.sequence
<1>0. /\ Len(s) \in Nat /\ Len(t) = Len(s) + 1 /\ b \in 0..Len(s) /\ s \in Seq(Entry)
      /\ \A j \in 1..Len(s) : t[j] = s[j]
      /\ t[Len(t)].rec.msg_code = m /\ t[Len(t)].base = b /\ t[Len(t)].rec.timestamp = ts
  BY DEF IsLonger
<1>1. PriorIn(t, Len(t)) = S
  BY <1>0 DEF PriorIn, SameCode
<1>2. CASE S = {}
  <2>1. p.timestamp = None
    BY <1>2 DEF RemembersLast, Unseen
  <2>2. LossOf(p, ts, seq) = 0
    BY <2>1 DEF LossOf, Continues
  <2> QED BY <1>1, <1>2, <2>2 DEF LossIn
<1>3. CASE S # {}
  <2>1. Max(S) \in 1..Len(s)
    <3>1. b \in Nat
      BY <1>0
    <3> HIDE DEF S
    <3> QED BY <1>0, <1>3, <3>1, LastPlaces DEF S
  <2>2. t[Max(S)] = s[Max(S)] /\ s[Max(S)] \in Entry
    BY <1>0, <2>1, ElementOfSeq
  <2>3. /\ p.timestamp = t[Max(S)].rec.timestamp /\ p.timestamp \in Int /\ p.timestamp # None
        /\ p.sequence = t[Max(S)].rec.sequence /\ p.sequence # None
    <3>1. p.timestamp = t[Max(S)].rec.timestamp
      BY <1>3, <2>2 DEF RemembersLast
    <3>2. p.sequence = t[Max(S)].rec.sequence
      BY <1>3, <2>2 DEF RemembersNumber
    <3>3. t[Max(S)].rec.timestamp \in Int /\ t[Max(S)].rec.sequence \in Sequence
      BY <2>2 DEF Entry, Record
    <3>4. None \notin Sequence
      BY NoneAssumption DEF Sequence, MODULUS
    <3> QED BY <3>1, <3>2, <3>3, <3>4, NoneAssumption
  <2>4. Continues(p, ts) <=> ts - p.timestamp <= STREAM_RESTART_GAP
    BY <2>3, ThresholdAssumption DEF Continues, IsRestart
  <2> HIDE DEF S
  <2> QED BY <1>0, <1>1, <1>3, <2>3, <2>4 DEF LossIn, LossOf
<1> QED BY <1>2, <1>3

\* A packet more is remembered by its number; that of other codes stays.
LEMMA RemembersNumberNext ==
  ASSUME NEW s, NEW t, NEW b, NEW ts, NEW m, IsLonger(t, s, b, ts, m), NEW p, NEW x,
         RemembersNumber(p, s, b, x)
  PROVE  /\ RemembersNumber(NextPrev(p, ts, t[Len(t)].rec.sequence), t, b, m)
         /\ x # m => RemembersNumber(p, t, b, x)
<1>1. Max(SameCode(t, b, m)) = Len(t)
  BY SameCodeGrows
<1>2. RemembersNumber(NextPrev(p, ts, t[Len(t)].rec.sequence), t, b, m)
  BY <1>1 DEF RemembersNumber, NextPrev
<1>3. ASSUME x # m PROVE RemembersNumber(p, t, b, x)
  <2>1. SameCode(t, b, x) = SameCode(s, b, x)
    BY <1>3, SameCodeGrows
  <2>2. SameCode(s, b, x) # {} => t[Max(SameCode(s, b, x))] = s[Max(SameCode(s, b, x))]
    BY LastPlaces DEF IsLonger
  <2> QED BY <2>1, <2>2 DEF RemembersNumber
<1> QED BY <1>2, <1>3

\* As long as the stream was not reset, the losses counted so far are those that
\* the trace defines.
TotalInv ==
  /\ Len(added) <= MaxAdds
  /\ \A j \in 1..Len(added) : added[j].base < j
  /\ \A m \in MsgCode : RemembersNumber(prev_by_msgcode[m], added, base, m)
  /\ base = 0 => PacketLoss = SumFunctionOnSet(LossesOf(added), 1..Len(added))

LEMMA AddKeepsTotal ==
  ASSUME TraceTypeOK, JitterInv, TotalInv, NEW ts, NEW m, NEW seq, IsInput(ts, m, seq),
         TraceAdd(ts, m, seq)
  PROVE  TotalInv'
<1> DEFINE p == prev_by_msgcode[m]
           n == Len(added')
<1>1. ts \in Int /\ m \in MsgCode /\ seq \in Sequence
  BY InputTyped DEF TraceTypeOK
<1>2. PICK r \in Record, k \in 0..Len(records) : IsTraced(r, ts, m, k) /\ r.sequence = seq
  BY AddTraced
<1>3. /\ prev_by_msgcode'[m] = NextPrev(p, ts, seq)
      /\ \A x \in MsgCode \ {m} : prev_by_msgcode'[x] = prev_by_msgcode[x]
  BY <1>1, CalculateTyped DEF TraceTypeOK, RecordsTypeOK, TraceAdd, Add
<1>4. IsLonger(added', added, base, ts, m) /\ base' = base
  BY <1>2 DEF IsLonger, IsTraced, IsStored, TraceTypeOK
<1>5. /\ added \in Seq(Entry) /\ added' \in Seq(Entry) /\ Len(added) \in Nat
      /\ n = Len(added) + 1 /\ added'[n].rec.sequence = seq /\ added'[n].base = base
      /\ \A j \in 1..Len(added) : added'[j] = added[j]
  BY <1>2 DEF IsTraced, TraceTypeOK
<1> HIDE DEF n
<1>6. n <= MaxAdds
  BY <1>5, TraceAssumption DEF TraceAdd
<1>7. \A j \in 1..n : added'[j].base < j
  <2>1. base < n
    BY <1>5 DEF TraceTypeOK
  <2> QED BY <1>5, <2>1 DEF TotalInv
<1>8. ASSUME NEW x \in MsgCode PROVE RemembersNumber(prev_by_msgcode'[x], added', base, x)
  <2>1. RemembersNumber(prev_by_msgcode[x], added, base, x)
    BY DEF TotalInv
  <2>2. CASE x = m
    BY <1>3, <1>4, <1>5, <2>1, <2>2, RemembersNumberNext DEF n
  <2>3. CASE x # m
    BY <1>3, <1>4, <2>1, <2>3, RemembersNumberNext
  <2> QED BY <2>2, <2>3
<1>9. ASSUME base = 0 PROVE PacketLoss' = SumFunctionOnSet(LossesOf(added'), 1..n)
  <2> DEFINE d == LossOf(p, ts, seq)
             L == LossesOf(added)
             K == LossesOf(added')
  <2>1. d = LossIn(added', n)
    <3>1. RemembersLast(p, added, base, m) /\ RemembersNumber(p, added, base, m)
      BY <1>1 DEF JitterInv, TotalInv
    <3> QED BY <1>1, <1>4, <1>5, <3>1, LossFromMemory DEF n
  <2>2. \A i \in 1..n : K[i] = LossIn(added', i) /\ K[i] \in Int
    BY <1>5, LossTyped DEF LossesOf, n
  <2>3. \A i \in 1..Len(added) : L[i] \in Int /\ K[i] = L[i]
    <3>1. \A i \in 1..Len(added) : L[i] = LossIn(added, i) /\ L[i] \in Int
      BY <1>5, LossTyped DEF LossesOf
    <3>2. \A i \in 1..Len(added) : LossIn(added', i) = LossIn(added, i)
      BY <1>4, <1>5, LossKept
    <3>3. \A i \in 1..Len(added) : i \in 1..n
      BY <1>5
    <3> QED BY <2>2, <3>1, <3>2, <3>3
  <2> HIDE DEF K, L
  <2>4. SumFunctionOnSet(K, 1..n) = SumFunctionOnSet(K, 1..Len(added)) + K[n]
    <3> DEFINE A == 1..n
    <3>1. IsFiniteSet(A)
      BY <1>5, FS_Interval
    <3>2. n \in A /\ A \ {n} = 1..Len(added)
      BY <1>5
    <3>3. \A x \in A : K[x] \in Int
      BY <2>2
    <3> HIDE DEF A
    <3>4. SumFunctionOnSet(K, A) = SumFunctionOnSet(K, A \ {n}) + K[n]
      BY <3>1, <3>2, <3>3, SumTakes
    <3> QED BY <3>2, <3>4 DEF A
  <2>5. SumFunctionOnSet(K, 1..Len(added)) = SumFunctionOnSet(L, 1..Len(added))
    <3>1. IsFiniteSet(1..Len(added))
      BY <1>5, FS_Interval
    <3>2. \A i \in 1..Len(added) : K[i] \in Int /\ K[i] = L[i]
      BY <2>3
    <3> QED BY <3>1, <3>2, SumSame
  <2>6. PacketLoss' = PacketLoss + d
    <3>1. /\ loss_by_msgcode' \in [MsgCode -> Nat]
          /\ loss_by_msgcode'[m] = loss_by_msgcode[m] + d
          /\ \A x \in MsgCode \ {m} : loss_by_msgcode'[x] = loss_by_msgcode[x]
      BY <1>1, CalculateTyped DEF MetricsTypeOK, TraceTypeOK, RecordsTypeOK, TraceAdd, Add
    <3>2. loss_by_msgcode \in [MsgCode -> Int] /\ loss_by_msgcode' \in [MsgCode -> Int] /\ d \in Int
      <4>1. n \in 1..n
        BY <1>5
      <4>2. d \in Int
        BY <2>1, <2>2, <4>1
      <4>3. loss_by_msgcode' \in [MsgCode -> Int]
        BY <3>1
      <4>4. loss_by_msgcode \in [MsgCode -> Int]
        BY DEF TraceTypeOK, RecordsTypeOK, MetricsTypeOK
      <4> QED BY <4>2, <4>3, <4>4
    <3> HIDE DEF d
    <3>3. m \in MsgCode /\ IsFiniteSet(MsgCode)
      BY <1>1, StatsAssumption
    <3>4. SumFunction(loss_by_msgcode') = SumFunction(loss_by_msgcode) + d
      BY <3>1, <3>2, <3>3, SumOfChange
    <3> QED BY <3>4 DEF PacketLoss
  <2>7. PacketLoss = SumFunctionOnSet(L, 1..Len(added))
    BY <1>9 DEF TotalInv, L
  <2>8. K[n] = d
    <3>1. n \in 1..n
      BY <1>5
    <3> QED BY <2>1, <2>2, <3>1
  <2> QED BY <2>4, <2>5, <2>6, <2>7, <2>8 DEF K
<1> QED BY <1>4, <1>6, <1>7, <1>8, <1>9 DEF TotalInv, n

\* Nothing was lost yet.
LEMMA NoLosses ==
  ASSUME NEW f, f = [m \in MsgCode |-> 0]
  PROVE  SumFunction(f) = 0
<1>1. DOMAIN f = MsgCode /\ \A m \in MsgCode : f[m] = 0
  OBVIOUS
<1> QED BY <1>1, SumOfZeros, StatsAssumption DEF SumFunction

LEMMA NothingCounted ==
  ASSUME NEW s, Len(s) \in Nat, NEW b, b = Len(s)
  PROVE  /\ \A m : RemembersNumber(Unseen, s, b, m)
         /\ b = 0 => SumFunctionOnSet(LossesOf(s), 1..Len(s)) = 0
<1>1. \A m : SameCode(s, b, m) = {}
  BY DEF SameCode
<1>2. ASSUME b = 0 PROVE SumFunctionOnSet(LossesOf(s), 1..Len(s)) = 0
  <2>1. 1..Len(s) = {}
    BY <1>2
  <2>2. SumFunctionOnSet(LossesOf(s), {}) = 0
    BY FS_EmptySet, SumOfZeros
  <2> QED BY <2>1, <2>2
<1> QED BY <1>1, <1>2 DEF RemembersNumber

\* The losses are counted in full, for every number of codes, packets and restarts.
THEOREM TotalInvHolds == TraceSpec => []TotalInv
<1>1. TraceInit => TotalInv
  <2> SUFFICES ASSUME TraceInit PROVE TotalInv
    OBVIOUS
  <2>1. /\ added = <<>> /\ base = 0 /\ Len(added) = 0
        /\ prev_by_msgcode = [m \in MsgCode |-> Unseen]
        /\ loss_by_msgcode = [m \in MsgCode |-> 0]
    BY DEF TraceInit, RecordsInit, MetricsInit
  <2>2. PacketLoss = 0
    BY <2>1, NoLosses DEF PacketLoss
  <2>3. /\ \A m : RemembersNumber(Unseen, added, base, m)
        /\ SumFunctionOnSet(LossesOf(added), 1..Len(added)) = 0
    BY <2>1, NothingCounted
  <2> QED BY <2>1, <2>2, <2>3, TraceAssumption DEF TotalInv
<1>2. TotalInv /\ JitterInv /\ TraceTypeOK /\ [TraceNext]_traceVars => TotalInv'
  <2> SUFFICES ASSUME TotalInv, JitterInv, TraceTypeOK, [TraceNext]_traceVars
               PROVE  TotalInv'
    OBVIOUS
  <2>0. Len(added) \in Nat
    BY LenProperties DEF TraceTypeOK
  <2>1. ASSUME NEW ts \in (now - Delay)..now, NEW m \in MsgCode, NEW seq \in SeqInput(ts),
               TraceAdd(ts, m, seq)
        PROVE  TotalInv'
    BY <2>1, AddKeepsTotal DEF IsInput
  <2>2. CASE TraceReset
    <3>1. /\ added' = <<>> /\ base' = 0 /\ Len(added') = 0
          /\ prev_by_msgcode' = [m \in MsgCode |-> Unseen]
          /\ loss_by_msgcode' = [m \in MsgCode |-> 0]
      BY <2>2 DEF TraceReset, RecordsReset, MetricsReset
    <3>2. PacketLoss' = 0
      BY <3>1, NoLosses DEF PacketLoss
    <3>3. /\ \A m : RemembersNumber(Unseen, added', base', m)
          /\ SumFunctionOnSet(LossesOf(added'), 1..Len(added')) = 0
      BY <3>1, NothingCounted
    <3> QED BY <3>1, <3>2, <3>3, TraceAssumption DEF TotalInv
  <2>3. CASE TraceResetStream
    <3>1. /\ added' = added /\ base' = Len(added)
          /\ prev_by_msgcode' = [m \in MsgCode |-> Unseen]
          /\ loss_by_msgcode' = [m \in MsgCode |-> 0]
      BY <2>3 DEF TraceResetStream, ResetStreamState, MetricsReset
    <3>2. PacketLoss' = 0
      BY <3>1, NoLosses DEF PacketLoss
    <3>3. /\ \A m : RemembersNumber(Unseen, added, base', m)
          /\ base' = 0 => SumFunctionOnSet(LossesOf(added), 1..Len(added)) = 0
      BY <2>0, <3>1, NothingCounted
    <3> QED BY <3>1, <3>2, <3>3 DEF TotalInv
  <2>4. ASSUME UNCHANGED <<metricsVars, added, base>> PROVE TotalInv'
    BY <2>4 DEF TotalInv, metricsVars, PacketLoss
  <2>5. CASE TraceChart
    BY <2>4, <2>5 DEF TraceChart, GetChartData
  <2>6. ASSUME NEW d \in 1..MaxStep, TracePass(d) PROVE TotalInv'
    BY <2>4, <2>6 DEF TracePass, Pass
  <2>7. CASE UNCHANGED traceVars
    BY <2>4, <2>7 DEF traceVars, metricsVars
  <2> QED
    BY <2>1, <2>2, <2>3, <2>5, <2>6, <2>7 DEF TraceNext
<1> QED
  BY <1>1, <1>2, TraceTypeCorrect, JitterInvHolds, PTL DEF TraceSpec

-----------------------------------------------------------------------------

\* A later time is in no earlier second, and times of one second are close.
LEMMA SecondMonotone ==
  ASSUME NEW d \in Nat \ {0}, NEW a \in Int, NEW b \in Int, a <= b
  PROVE  /\ a \div d \in Int /\ b \div d \in Int
         /\ a \div d <= b \div d
         /\ a \div d = b \div d => b - a < d
<1> DEFINE p == a \div d
           q == b \div d
           e == d * (p - q)
<1>1. /\ p \in Int /\ q \in Int
      /\ d * p <= a /\ a < d * p + d /\ d * q <= b /\ b < d * q + d
  BY Z3
<1> HIDE DEF p, q
<1>2. p <= q
  <2> SUFFICES ASSUME p > q PROVE FALSE
    BY <1>1
  <2>1. PICK k \in Nat \ {0} : p = q + k
    <3>1. p - q \in Nat \ {0} /\ p = q + (p - q)
      BY <1>1
    <3> QED BY <3>1
  <2>2. d * p = d * q + d * k /\ d * k >= d
    BY <1>1, <2>1, Z3
  <2>3. d * p \in Int /\ d * q \in Int /\ d * k \in Int
    BY <1>1, <2>1
  <2> QED BY <1>1, <2>2, <2>3
<1>3. p = q => b - a < d
  <2>1. d * p \in Int
    BY <1>1
  <2> QED BY <1>1, <2>1
<1> QED BY <1>1, <1>2, <1>3 DEF p, q

\* The maximum of a set is the member that is above all.
LEMMA MaxIs ==
  ASSUME NEW S \in SUBSET Int, NEW x \in S, \A y \in S : y <= x
  PROVE  Max(S) = x
<1>1. \A z \in S : (\A y \in S : y <= z) => z = x
  <2> TAKE z \in S
  <2> HAVE \A y \in S : y <= z
  <2>1. x <= z /\ z <= x /\ x \in Int /\ z \in Int
    OBVIOUS
  <2> QED BY <2>1
<1>2. Max(S) = CHOOSE z \in S : \A y \in S : y <= z
  BY DEF Max
<1>3. \A y \in S : x >= y
  OBVIOUS
<1> QED BY <1>1, <1>3 DEF Max

\* The records are in the order of their capture.
StoreOrdered ==
  /\ records \in Seq(Record) /\ records # <<>>
  /\ \A i \in 1..Len(records), j \in 1..Len(records) :
       i <= j => records[i].timestamp <= records[j].timestamp

LEMMA StoreIsOrdered ==
  ASSUME TraceTypeOK, StoreIsTail, InOrder, records # <<>>
  PROVE  StoreOrdered
<1> DEFINE o == Len(added) - Len(records)
<1>1. /\ added \in Seq(Entry) /\ records \in Seq(Record) /\ Len(added) \in Nat
      /\ Len(records) \in Nat /\ o \in Nat /\ o + Len(records) = Len(added)
      /\ \A i \in 1..Len(records) : records[i] = added[o + i].rec
  <2>1. added \in Seq(Entry) /\ records \in Seq(Record)
    BY DEF TraceTypeOK, RecordsTypeOK
  <2>2. Len(added) \in Nat /\ Len(records) \in Nat
    BY <2>1, LenProperties
  <2> QED BY <2>1, <2>2 DEF StoreIsTail, Given
<1>2. \A x \in 2..Len(added) : added[x - 1].rec.timestamp <= added[x].rec.timestamp
  BY DEF InOrder, Given
<1> HIDE DEF o
<1>3. ASSUME NEW i \in 1..Len(records), NEW j \in 1..Len(records), i <= j
      PROVE  records[i].timestamp <= records[j].timestamp
  <2>1. o + i \in 1..Len(added) /\ o + j \in 1..Len(added) /\ o + i <= o + j
    BY <1>1, <1>3
  <2>2. added[o + i].rec.timestamp <= added[o + j].rec.timestamp
    BY <1>1, <1>2, <2>1, OrderIsTotal
  <2> QED BY <1>1, <2>2
<1> QED BY <1>1, <1>3 DEF StoreOrdered

LEMMA SecondsOrdered ==
  ASSUME StoreOrdered
  PROVE  /\ \A i \in 1..Len(records) : SecondOf(records[i]) \in Int
         /\ \A i \in 1..Len(records), j \in 1..Len(records) :
              i <= j => SecondOf(records[i]) <= SecondOf(records[j])
<1>1. \A i \in 1..Len(records) : records[i].timestamp \in Int
  <2> TAKE i \in 1..Len(records)
  <2>1. records[i] \in Record
    BY ElementOfSeq DEF StoreOrdered
  <2> QED BY <2>1 DEF Record
<1>2. ASSUME NEW i \in 1..Len(records), NEW j \in 1..Len(records), i <= j
      PROVE  SecondOf(records[i]) \in Int /\ SecondOf(records[i]) <= SecondOf(records[j])
  <2>1. records[i].timestamp <= records[j].timestamp
    BY <1>2 DEF StoreOrdered
  <2>2. SECOND \in Nat \ {0}
    BY RecordsAssumption
  <2> QED BY <1>1, <2>1, <2>2, SecondMonotone DEF SecondOf
<1>3. ASSUME NEW i \in 1..Len(records) PROVE SecondOf(records[i]) \in Int
  <2>1. i <= i
    OBVIOUS
  <2> QED BY <1>2, <2>1
<1> QED BY <1>2, <1>3

\* The last second is that of the newest record, and no second lies after it.
LEMMA LastSecond ==
  ASSUME StoreOrdered
  PROVE  /\ Len(records) \in Nat \ {0}
         /\ Seconds \in SUBSET Int /\ Max(Seconds) \in Seconds
         /\ Max(Seconds) = SecondOf(records[Len(records)])
         /\ \A s \in Seconds : s <= Max(Seconds)
<1> DEFINE n == Len(records)
           x == SecondOf(records[n])
<1>1. n \in Nat \ {0}
  BY LenProperties, EmptySeq DEF StoreOrdered
<1>2. n \in 1..n
  BY <1>1
<1>3. \A i \in 1..n : SecondOf(records[i]) \in Int /\ SecondOf(records[i]) <= x
  <2> TAKE i \in 1..n
  <2>1. i <= n
    BY <1>1
  <2> QED BY <1>2, <2>1, SecondsOrdered
<1>4. x \in Seconds
  BY <1>2 DEF Seconds
<1>5. Seconds \in SUBSET Int /\ \A s \in Seconds : s <= x
  BY <1>3 DEF Seconds
<1> HIDE DEF x
<1>6. Max(Seconds) = x
  BY <1>4, <1>5, MaxIs
<1> QED BY <1>1, <1>4, <1>5, <1>6 DEF x

\* There are at most as many seconds as records.
LEMMA SecondsFinite ==
  ASSUME Len(records) \in Nat
  PROVE  IsFiniteSet(Seconds) /\ Cardinality(Seconds) \in Nat /\ Cardinality(Seconds) <= Len(records)
<1> DEFINE n == Len(records)
           f == [i \in 1..n |-> SecondOf(records[i])]
<1>1. f \in Surjection(1..n, Seconds)
  <2>1. f \in [1..n -> Seconds]
    BY DEF Seconds
  <2>2. \A s \in Seconds : \E i \in 1..n : f[i] = s
    BY DEF Seconds
  <2> QED BY <2>1, <2>2 DEF Surjection
<1>2. n \in Nat
  OBVIOUS
<1> HIDE DEF f, n
<1>3. IsFiniteSet(1..n) /\ Cardinality(1..n) = IF 1 > n THEN 0 ELSE n - 1 + 1
  BY <1>2, FS_Interval
<1>4. Cardinality(1..n) = n
  BY <1>2, <1>3
<1>5. IsFiniteSet(Seconds) /\ Cardinality(Seconds) <= Cardinality(1..n)
  BY <1>1, <1>3, FS_Surjection
<1>6. Cardinality(Seconds) \in Nat
  BY <1>5, FS_CardinalityType
<1> QED BY <1>4, <1>5, <1>6 DEF n

\* A limit of at least as many seconds as there are leaves out none.
LEMMA AllSeconds ==
  ASSUME Len(records) \in Nat, NEW limit \in Nat, Cardinality(Seconds) <= limit,
         Seconds \in SUBSET Int
  PROVE  LastSeconds(limit) = Seconds
<1>1. ASSUME NEW s \in Seconds PROVE Cardinality({t \in Seconds : t > s}) < limit
  <2> DEFINE T == {t \in Seconds : t > s}
  <2>1. /\ IsFiniteSet(Seconds \ {s})
        /\ Cardinality(Seconds \ {s}) = Cardinality(Seconds) - 1
    BY SecondsFinite, FS_RemoveElement
  <2>2. s \in Int
    OBVIOUS
  <2>3. T \in SUBSET (Seconds \ {s})
    BY <2>2
  <2> HIDE DEF T
  <2>4. IsFiniteSet(T) /\ Cardinality(T) <= Cardinality(Seconds \ {s})
    BY <2>1, <2>3, FS_Subset
  <2>5. Cardinality(T) \in Nat
    BY <2>4, FS_CardinalityType
  <2>6. Cardinality(Seconds) \in Nat
    BY SecondsFinite
  <2>7. Cardinality(T) < limit
    BY <2>1, <2>4, <2>5, <2>6
  <2> QED BY <2>7 DEF T
<1> QED BY <1>1 DEF LastSeconds

\* The last second is listed, whatever the limit.
LEMMA LastIsListed ==
  ASSUME StoreOrdered, NEW limit \in Nat \ {0}
  PROVE  Max(Seconds) \in LastSeconds(limit) /\ LastSeconds(limit) \in SUBSET Seconds
<1> DEFINE last == Max(Seconds)
<1>1. last \in Seconds /\ last \in Int /\ \A t \in Seconds : t <= last /\ t \in Int
  BY LastSecond
<1> HIDE DEF last
<1>2. {t \in Seconds : t > last} = {}
  <2>1. ASSUME NEW t \in Seconds PROVE ~(t > last)
    <3>1. t \in Int /\ last \in Int /\ t <= last
      BY <1>1
    <3> QED BY <3>1
  <2> QED BY <2>1, Zenon
<1>3. Cardinality({t \in Seconds : t > last}) < limit
  BY <1>2, FS_EmptySet
<1> QED BY <1>1, <1>3 DEF LastSeconds, last

\* Every record is in the bucket of one second.
LEMMA BucketsCover ==
  UNION {Bucket(t) : t \in Seconds} = 1..Len(records)
BY DEF Bucket, Seconds

\* The records of the seconds listed, and the entry of the last of them.
Listed(limit) == UNION {Bucket(t) : t \in LastSeconds(limit)}
LastEntry(limit) == StatsHistory(limit)[Max(Seconds)]

\* A record is listed if the newest ones from it on lie in no more seconds than the
\* limit: the seconds from it on are its own and those that come after it.
LEMMA ListedLieInLimit ==
  ASSUME StoreOrdered, NEW limit \in Nat \ {0}, NEW i \in 1..Len(records)
  PROVE  i \in Listed(limit) <=>
           Cardinality({SecondOf(records[j]) : j \in i..Len(records)}) <= limit
<1> DEFINE n == Len(records)
           s == SecondOf(records[i])
           T == {t \in Seconds : t > s}
           F == {SecondOf(records[j]) : j \in i..n}
<1>1. n \in Nat /\ i \in 1..n /\ i..n \in SUBSET (1..n) /\ i \in i..n
  BY LastSecond
<1>2. \A j \in 1..n : SecondOf(records[j]) \in Int
  BY SecondsOrdered
<1>3. s \in Seconds /\ s \in Int /\ Seconds \in SUBSET Int
  BY <1>1, <1>2 DEF Seconds
<1>4. F = T \cup {s}
  <2>1. ASSUME NEW j \in i..n PROVE SecondOf(records[j]) \in T \cup {s}
    <3>1. j \in 1..n /\ i <= j
      BY <1>1
    <3>2. s <= SecondOf(records[j]) /\ SecondOf(records[j]) \in Int
      BY <1>2, <3>1, SecondsOrdered
    <3>3. SecondOf(records[j]) \in Seconds
      BY <3>1 DEF Seconds
    <3> QED BY <1>3, <3>2, <3>3
  <2>2. ASSUME NEW t \in T PROVE t \in F
    <3>1. PICK j \in 1..n : t = SecondOf(records[j])
      BY DEF Seconds
    <3>2. i <= j
      <4>1. j <= i => t <= s
        BY <3>1, SecondsOrdered
      <4>2. t > s /\ t \in Int
        BY <1>3
      <4> QED BY <1>1, <1>3, <3>1, <4>1, <4>2
    <3> QED BY <1>1, <3>1, <3>2
  <2>3. s \in F
    BY <1>1
  <2> QED BY <2>1, <2>2, <2>3
<1>5. IsFiniteSet(T) /\ Cardinality(T) \in Nat /\ s \notin T
  <2>1. IsFiniteSet(Seconds) /\ T \in SUBSET Seconds /\ s \notin T
    BY <1>1, <1>3, SecondsFinite
  <2> QED BY <2>1, FS_Subset, FS_CardinalityType
<1>6. Cardinality(F) = Cardinality(T) + 1
  <2> HIDE DEF T, F, s
  <2> QED BY <1>4, <1>5, FS_AddElement
<1>7. i \in Listed(limit) <=> s \in LastSeconds(limit)
  <2>1. ASSUME NEW t \in LastSeconds(limit), i \in Bucket(t) PROVE s \in LastSeconds(limit)
    BY <2>1 DEF Bucket
  <2>2. s \in LastSeconds(limit) => i \in Bucket(s)
    BY <1>1 DEF Bucket
  <2> QED BY <2>1, <2>2 DEF Listed
<1>8. s \in LastSeconds(limit) <=> Cardinality(T) < limit
  BY <1>3 DEF LastSeconds
<1> HIDE DEF T, F
<1>9. Cardinality(F) <= limit <=> Cardinality(T) < limit
  BY <1>5, <1>6
<1> QED BY <1>7, <1>8, <1>9 DEF F, n

\* What is listed is the newest part of the store.
LEMMA ListedAreRecent ==
  ASSUME StoreOrdered, NEW limit \in Nat \ {0}
  PROVE  Listed(limit) = RecentFrom(limit)..Len(records)
<1> DEFINE n == Len(records)
           K == {i \in 1..n : Cardinality({SecondOf(records[j]) : j \in i..n}) <= limit}
           m == RecentFrom(limit)
<1>1. n \in Nat \ {0}
  BY LastSecond
<1>2. Listed(limit) = K
  <2>1. Listed(limit) \in SUBSET (1..n)
    BY DEF Listed, Bucket
  <2> QED BY <2>1, ListedLieInLimit
<1>3. n \in K
  <2>1. n \in Bucket(Max(Seconds))
    BY <1>1, LastSecond DEF Bucket
  <2> QED BY <1>2, <2>1, LastIsListed DEF Listed
<1>4. ASSUME NEW i \in K, NEW j \in i..n PROVE j \in K
  <2>1. i \in 1..n /\ j \in 1..n /\ i <= j /\ j..n \in SUBSET (i..n)
    BY <1>1
  <2> DEFINE A == {SecondOf(records[k]) : k \in i..n}
             B == {SecondOf(records[k]) : k \in j..n}
  <2>2. B \in SUBSET A /\ A \in SUBSET Seconds
    <3>1. i..n \in SUBSET (1..n)
      BY <2>1
    <3> QED BY <2>1, <3>1 DEF Seconds
  <2>3. IsFiniteSet(Seconds)
    BY <1>1, SecondsFinite
  <2>4. Cardinality(A) <= limit
    OBVIOUS
  <2> HIDE DEF A, B
  <2>5. IsFiniteSet(A) /\ IsFiniteSet(B) /\ Cardinality(B) <= Cardinality(A)
    BY <2>2, <2>3, FS_Subset
  <2>6. Cardinality(A) \in Nat /\ Cardinality(B) \in Nat
    BY <2>5, FS_CardinalityType
  <2>7. Cardinality(B) <= limit
    BY <2>4, <2>5, <2>6
  <2> QED BY <2>1, <2>7 DEF B
<1>5. K \in SUBSET (1..n)
  OBVIOUS
<1>6. m = Min(K)
  BY DEF RecentFrom
<1> HIDE DEF K, m
<1>7. m \in K /\ \A i \in K : m <= i
  <2>1. K \in SUBSET Nat /\ K # {}
    BY <1>1, <1>3, <1>5
  <2>2. PICK x \in K : \A i \in K : x <= i
    BY <2>1, LeastNatural
  <2>3. Min(K) = CHOOSE z \in K : \A y \in K : z =< y
    BY DEF Min
  <2> QED BY <1>6, <2>2, <2>3
<1>8. K = m..n
  <2>1. \A i \in K : i \in m..n
    BY <1>1, <1>5, <1>7
  <2>2. \A j \in m..n : j \in K
    BY <1>4, <1>7
  <2> QED BY <2>1, <2>2
<1> QED BY <1>2, <1>8 DEF m, n

LEMMA LastEntryIs ==
  ASSUME StoreOrdered, NEW limit \in Nat \ {0}
  PROVE  /\ DOMAIN StatsHistory(limit) = LastSeconds(limit)
         /\ Max(Seconds) \in LastSeconds(limit)
         /\ LastEntry(limit).pps = Cardinality(Bucket(Max(Seconds)))
         /\ LastEntry(limit).packet_loss =
              SumFunction([t \in LastSeconds(limit) |-> BucketLoss(t)])
         /\ LastEntry(limit).jitter_current =
              IF UsableIndices \cap Bucket(Max(Seconds)) = {} THEN 0
              ELSE records[Max(UsableIndices \cap Bucket(Max(Seconds)))].jitter_ms
         /\ LastEntry(limit).jitter_p95 = P95Of(UsableIndices \cap Listed(limit))
<1> DEFINE last == Max(Seconds)
<1>1. last \in LastSeconds(limit) /\ {t \in LastSeconds(limit) : t <= last} = LastSeconds(limit)
  BY LastIsListed, LastSecond
<1>2. DOMAIN StatsHistory(limit) = LastSeconds(limit)
  BY DEF StatsHistory
<1>3. LastEntry(limit) = HistoryEntry(last, limit)
  BY <1>1 DEF LastEntry, StatsHistory
<1> HIDE DEF last
<1>4. HistoryEntry(last, limit).jitter_p95 = P95Of(UsableIndices \cap Listed(limit))
  BY <1>1 DEF HistoryEntry, Listed
<1>5. HistoryEntry(last, limit).packet_loss =
        SumFunction([t \in LastSeconds(limit) |-> BucketLoss(t)])
  BY <1>1 DEF HistoryEntry
<1>6. /\ HistoryEntry(last, limit).pps = Cardinality(Bucket(last))
      /\ HistoryEntry(last, limit).jitter_current =
              IF UsableIndices \cap Bucket(last) = {} THEN 0
              ELSE records[Max(UsableIndices \cap Bucket(last))].jitter_ms
  BY DEF HistoryEntry
<1> QED BY <1>1, <1>2, <1>3, <1>4, <1>5, <1>6 DEF last

\* The newest jitter of the last second is the newest of all.
LEMMA LastJitter ==
  ASSUME StoreOrdered, UsableIndices \cap Bucket(Max(Seconds)) # {}
  PROVE  /\ UsableIndices # {}
         /\ Max(UsableIndices \cap Bucket(Max(Seconds))) = Max(UsableIndices)
<1> DEFINE last == Max(Seconds)
           here == UsableIndices \cap Bucket(last)
           n == Len(records)
           M == Max(UsableIndices)
<1>1. n \in Nat /\ UsableIndices \in SUBSET (1..n) /\ UsableIndices # {}
  BY LastSecond DEF UsableIndices
<1>2. M \in UsableIndices /\ \A y \in UsableIndices : y <= M
  BY <1>1, MaxOfPositions
<1> HIDE DEF last, M, n
<1>3. PICK x \in UsableIndices : x \in Bucket(last)
  BY DEF last
<1>4. x \in 1..n /\ M \in 1..n /\ x <= M /\ SecondOf(records[x]) = last
  BY <1>1, <1>2, <1>3 DEF Bucket, n
<1>5. last <= SecondOf(records[M]) /\ SecondOf(records[M]) \in Int
  BY <1>4, SecondsOrdered DEF n
<1>6. SecondOf(records[M]) <= last /\ last \in Int
  <2>1. SecondOf(records[M]) \in Seconds
    BY <1>4 DEF Seconds, n
  <2> QED BY <2>1, LastSecond DEF last
<1>7. M \in Bucket(last)
  <2>1. SecondOf(records[M]) = last
    BY <1>5, <1>6
  <2> QED BY <1>4, <2>1 DEF Bucket, n
<1>8. M \in here /\ here \in SUBSET Int /\ \A y \in here : y <= M
  <2>1. here \in SUBSET UsableIndices /\ M \in here
    BY <1>2, <1>7
  <2> HIDE DEF here
  <2>2. UsableIndices \in SUBSET Int
    BY <1>1
  <2> QED BY <1>2, <2>1, <2>2
<1> HIDE DEF here
<1>9. Max(here) = M
  BY <1>8, MaxIs
<1> QED BY <1>1, <1>9 DEF here, M, last

\* The packets of the same code before a record in its second.
InSecond(i) ==
  {j \in 1..(i - 1) : /\ SecondOf(records[j]) = SecondOf(records[i])
                      /\ records[j].msg_code = records[i].msg_code}

\* What a record counts as lost within its second.
TermOf(i) ==
  LET gap == SequenceGap(records[Max(InSecond(i))].sequence, records[i].sequence)
  IN IF InSecond(i) # {} /\ gap > 1 THEN gap - 1 ELSE 0

Terms == [i \in 1..Len(records) |-> TermOf(i)]

LEMMA SecondPlaces ==
  ASSUME Len(records) \in Nat, NEW i \in 1..Len(records), InSecond(i) # {}
  PROVE  /\ Max(InSecond(i)) \in InSecond(i)
         /\ Max(InSecond(i)) \in 1..Len(records) /\ Max(InSecond(i)) < i
         /\ \A y \in InSecond(i) : y <= Max(InSecond(i))
<1> DEFINE S == InSecond(i)
<1>1. S \in SUBSET (1..Len(records))
  BY DEF InSecond
<1>2. \A j \in S : j < i
  BY DEF InSecond
<1> HIDE DEF S
<1>3. S # {}
  BY DEF S
<1>4. Max(S) \in S /\ \A y \in S : y <= Max(S)
  BY <1>1, <1>3, MaxOfPositions
<1>5. Max(S) \in 1..Len(records) /\ Max(S) < i
  BY <1>1, <1>2, <1>4
<1> QED BY <1>4, <1>5 DEF S

LEMMA TermsTyped ==
  ASSUME records \in Seq(Record), NEW i \in 1..Len(records)
  PROVE  TermOf(i) \in Nat /\ Terms[i] = TermOf(i)
<1> DEFINE a == records[Max(InSecond(i))].sequence
           gap == SequenceGap(a, records[i].sequence)
<1>1. CASE InSecond(i) = {}
  BY <1>1 DEF TermOf, Terms
<1>2. CASE InSecond(i) # {}
  <2>1. records[Max(InSecond(i))] \in Record /\ records[i] \in Record
    BY <1>2, SecondPlaces, ElementOfSeq, LenProperties
  <2>2. a \in Sequence /\ records[i].sequence \in Sequence
    BY <2>1 DEF Record
  <2>3. gap \in Nat
    BY <2>2, GapTyped
  <2> HIDE DEF gap, a
  <2>4. gap > 1 => gap - 1 \in Nat
    BY <2>3
  <2> QED BY <2>4 DEF TermOf, Terms, gap, a
<1> QED BY <1>1, <1>2

\* A bucket counts what its records count.
LEMMA BucketCounts ==
  ASSUME records \in Seq(Record), NEW s
  PROVE  BucketLoss(s) = SumFunctionOnSet(Terms, Bucket(s))
<1> DEFINE n == Len(records)
           before(i) == {j \in Bucket(s) : j < i /\ records[j].msg_code = records[i].msg_code}
           gap(i) == SequenceGap(records[Max(before(i))].sequence, records[i].sequence)
           f == [i \in Bucket(s) |-> IF before(i) # {} /\ gap(i) > 1 THEN gap(i) - 1 ELSE 0]
<1>1. n \in Nat /\ IsFiniteSet(1..n)
  BY LenProperties, FS_Interval
<1>2. Bucket(s) \in SUBSET (1..n)
  BY DEF Bucket
<1>3. IsFiniteSet(Bucket(s))
  BY <1>1, <1>2, FS_Subset
<1>4. ASSUME NEW i \in Bucket(s) PROVE f[i] \in Int /\ f[i] = Terms[i]
  <2>1. i \in 1..n /\ SecondOf(records[i]) = s
    BY DEF Bucket
  <2>2. before(i) = InSecond(i)
    <3>1. \A j \in 1..n : j < i <=> j \in 1..(i - 1)
      BY <1>1, <2>1
    <3>2. 1..(i - 1) \in SUBSET (1..n)
      BY <1>1, <2>1
    <3> QED BY <2>1, <3>1, <3>2 DEF Bucket, InSecond
  <2>3. f[i] = TermOf(i)
    BY <2>2 DEF TermOf
  <2> QED BY <2>1, <2>3, TermsTyped
<1>5. DOMAIN f = Bucket(s) /\ BucketLoss(s) = SumFunction(f)
  BY DEF BucketLoss
<1> HIDE DEF f
<1>6. SumFunctionOnSet(f, Bucket(s)) = SumFunctionOnSet(Terms, Bucket(s))
  BY <1>3, <1>4, SumSame
<1> QED BY <1>5, <1>6 DEF SumFunction

\* The history counts, second by second, what the records of its seconds count.
LEMMA HistoryCounts ==
  ASSUME records \in Seq(Record), NEW S \in SUBSET Seconds
  PROVE  SumFunction([t \in S |-> BucketLoss(t)])
           = SumFunctionOnSet(Terms, UNION {Bucket(t) : t \in S})
<1> DEFINE A == 1..Len(records)
           g == [t \in S |-> BucketLoss(t)]
           part == [t \in S |-> Bucket(t)]
<1>1. IsFiniteSet(A) /\ IsFiniteSet(S)
  BY LenProperties, FS_Interval, SecondsFinite, FS_Subset
<1>2. \A i \in A : Terms[i] \in Int
  BY TermsTyped
<1>3. part \in [S -> SUBSET A]
  BY DEF Bucket
<1>4. \A t \in S, u \in S : t # u => part[t] \cap part[u] = {}
  BY DEF Bucket
<1>5. \A t \in S : g[t] = SumFunctionOnSet(Terms, part[t])
  BY BucketCounts
<1>6. {part[t] : t \in S} = {Bucket(t) : t \in S}
  OBVIOUS
<1>7. DOMAIN g = S
  OBVIOUS
<1> HIDE DEF A, g, part
<1>8. SumFunctionOnSet(g, S) = SumFunctionOnSet(Terms, UNION {part[t] : t \in S})
  BY <1>1, <1>2, <1>3, <1>4, <1>5, SumOfParts
<1>9. SumFunction(g) = SumFunctionOnSet(Terms, UNION {Bucket(t) : t \in S})
  BY <1>6, <1>7, <1>8 DEF SumFunction
<1> QED BY <1>9 DEF g

\* Without a reset, every packet of the code that came before is prior.
LEMMA PriorFromStart ==
  ASSUME NEW s, NEW i, s[i].base = 0
  PROVE  \A j : j \in PriorIn(s, i) <=> /\ j \in 1..(i - 1)
                                     /\ s[j].rec.msg_code = s[i].rec.msg_code
<1>1. s[i].base + 1 = 1
  OBVIOUS
<1> QED BY <1>1 DEF PriorIn

\* While the stream was not reset, a record counts within its second no more than
\* the statistics counted when it came.
LEMMA TermAtMostLoss ==
  ASSUME TraceTypeOK, StoreIsTail, StoreOrdered,
         \A j \in 1..Len(added) : added[j].base = 0,
         NEW i \in 1..Len(records)
  PROVE  TermOf(i) <= LossIn(added, Len(added) - Len(records) + i)
<1> DEFINE o == Len(added) - Len(records)
           k == o + i
           q == Max(InSecond(i))
           P == PriorIn(added, k)
           p == Max(P)
<1>1. /\ added \in Seq(Entry) /\ records \in Seq(Record) /\ Len(added) \in Nat
      /\ Len(records) \in Nat /\ o \in Nat /\ o + Len(records) = Len(added)
      /\ \A x \in 1..Len(records) : records[x] = added[o + x].rec
  <2>1. added \in Seq(Entry) /\ records \in Seq(Record)
    BY DEF TraceTypeOK, RecordsTypeOK
  <2>2. Len(added) \in Nat /\ Len(records) \in Nat
    BY <2>1, LenProperties
  <2> QED BY <2>1, <2>2 DEF StoreIsTail, Given
<1> HIDE DEF o
<1>2. k \in 1..Len(added) /\ k = o + i
  BY <1>1
<1> HIDE DEF k
<1>3. LossIn(added, k) \in Nat
  BY <1>1, <1>2, LossTyped
<1>4. CASE InSecond(i) = {}
  BY <1>3, <1>4 DEF TermOf, k, o
<1>5. CASE InSecond(i) # {}
  <2>1. /\ q \in InSecond(i) /\ q \in 1..Len(records) /\ q < i
        /\ \A y \in InSecond(i) : y <= q
    BY <1>1, <1>5, SecondPlaces
  <2>2. \A j : j \in P <=> /\ j \in 1..(k - 1)
                         /\ added[j].rec.msg_code = records[i].msg_code
    <3>1. added[k].base = 0 /\ added[k].rec = records[i]
      BY <1>1, <1>2
    <3>2. \A j : j \in P <=> /\ j \in 1..(k - 1)
                           /\ added[j].rec.msg_code = added[k].rec.msg_code
      BY <3>1, PriorFromStart
    <3> QED BY <3>1, <3>2
  <2> HIDE DEF q, P
  <2>3. o + q \in P
    <3>1. o + q \in 1..(k - 1) /\ added[o + q].rec = records[q]
      BY <1>1, <1>2, <2>1
    <3> QED BY <2>1, <2>2, <3>1 DEF InSecond
  <2>4. p \in P /\ \A y \in P : y <= p
    BY <1>1, <1>2, <2>3, PriorPlaces DEF P
  <2> HIDE DEF p
  <2> DEFINE x == p - o
  <2>5. x \in 1..(i - 1) /\ x \in 1..Len(records) /\ q <= x /\ p = o + x
    <3>1. p \in 1..(k - 1) /\ o + q <= p
      BY <2>2, <2>3, <2>4
    <3> QED BY <1>1, <1>2, <2>1, <3>1
  <2> HIDE DEF x
  <2>6. records[x].msg_code = records[i].msg_code
    BY <1>1, <2>2, <2>4, <2>5
  <2>7. SecondOf(records[x]) = SecondOf(records[i])
    <3>1. SecondOf(records[q]) = SecondOf(records[i])
      BY <2>1 DEF InSecond
    <3>2. /\ SecondOf(records[q]) <= SecondOf(records[x])
          /\ SecondOf(records[x]) <= SecondOf(records[i])
          /\ SecondOf(records[x]) \in Int /\ SecondOf(records[i]) \in Int
      <4>1. q <= x /\ x <= i
        BY <2>5
      <4> QED BY <2>1, <2>5, <4>1, SecondsOrdered
    <3> QED BY <3>1, <3>2
  <2>8. x = q
    <3>1. x \in InSecond(i)
      BY <2>5, <2>6, <2>7 DEF InSecond
    <3>2. x <= q /\ x \in Int /\ q \in Int
      BY <2>1, <2>5, <3>1
    <3> QED BY <2>5, <3>2
  <2>9. added[p].rec = records[q]
    BY <1>1, <2>5, <2>8
  <2>10. records[i].timestamp - records[q].timestamp <= STREAM_RESTART_GAP
    <3> DEFINE a == records[q].timestamp
               b == records[i].timestamp
    <3>1. a \in Int /\ b \in Int
      <4>1. records[q] \in Record /\ records[i] \in Record
        BY <1>1, <2>1, ElementOfSeq
      <4> QED BY <4>1 DEF Record
    <3>2. a <= b
      <4>1. q <= i
        BY <2>1
      <4> QED BY <2>1, <4>1 DEF StoreOrdered
    <3>3. a \div SECOND = b \div SECOND
      BY <2>1 DEF InSecond, SecondOf
    <3> HIDE DEF a, b
    <3>4. b - a < SECOND
      BY <3>1, <3>2, <3>3, SecondMonotone, RecordsAssumption
    <3>5. b - a <= STREAM_RESTART_GAP
      BY <3>1, <3>4, StatsAssumption, RecordsAssumption, ThresholdAssumption
    <3> QED BY <3>5 DEF a, b
  <2>11. TermOf(i) = LossIn(added, k)
    <3>1. added[k].rec = records[i] /\ P # {}
      BY <1>1, <1>2, <2>3
    <3> QED BY <1>5, <2>9, <2>10, <3>1 DEF TermOf, LossIn, P, p, q
  <2> QED BY <1>3, <2>11 DEF k, o
<1> QED BY <1>4, <1>5

\* A sum of natural numbers is one.
LEMMA SumNatural ==
  ASSUME NEW A, IsFiniteSet(A), NEW f, \A x \in A : f[x] \in Nat
  PROVE  SumFunctionOnSet(f, A) \in Nat
<1> DEFINE z == [x \in A |-> 0]
<1>1. \A x \in A : z[x] = 0
  OBVIOUS
<1> HIDE DEF z
<1>2. SumFunctionOnSet(z, A) = 0
  BY <1>1, SumOfZeros
<1>3. \A x \in A : z[x] \in Int /\ f[x] \in Int /\ z[x] <= f[x]
  BY <1>1
<1>4. SumFunctionOnSet(z, A) <= SumFunctionOnSet(f, A)
  BY <1>3, SumMonotone
<1>5. SumFunctionOnSet(f, A) \in Int
  BY <1>3, SumTakes
<1> QED BY <1>2, <1>4, <1>5

\* A part of a sum of natural numbers is no more than the whole.
LEMMA SumOfPart ==
  ASSUME NEW A, IsFiniteSet(A), NEW f, \A x \in A : f[x] \in Nat, NEW S \in SUBSET A
  PROVE  /\ SumFunctionOnSet(f, S) \in Nat /\ SumFunctionOnSet(f, A) \in Nat
         /\ SumFunctionOnSet(f, S) <= SumFunctionOnSet(f, A)
<1> DEFINE R == A \ S
<1>1. /\ IsFiniteSet(S) /\ IsFiniteSet(R) /\ R \in SUBSET A /\ R \cap S = {}
      /\ R \cup S = A /\ \A x \in A : f[x] \in Int
  BY FS_Subset
<1>2. \A x \in R : f[x] \in Nat
  OBVIOUS
<1>3. SumFunctionOnSet(f, R \cup S) = SumFunctionOnSet(f, R) + SumFunctionOnSet(f, S)
  <2> HIDE DEF R
  <2> QED BY <1>1, SumOfTwo
<1>4. /\ SumFunctionOnSet(f, R) \in Nat /\ SumFunctionOnSet(f, S) \in Nat
      /\ SumFunctionOnSet(f, A) \in Nat
  <2> HIDE DEF R
  <2> QED BY <1>1, <1>2, SumNatural
<1> HIDE DEF R
<1> QED BY <1>1, <1>3, <1>4

\* When all that was added lies in one second, a record counts there just what the
\* statistics counted when it came.
LEMMA TermIsLoss ==
  ASSUME TraceTypeOK, StoreIsTail, StoreOrdered,
         \A j \in 1..Len(added) : added[j].base = 0,
         NEW s, Bucket(s) = 1..Len(added), NEW i \in 1..Len(records)
  PROVE  Len(records) = Len(added) /\ LossIn(added, i) <= TermOf(i)
<1>1. /\ added \in Seq(Entry) /\ records \in Seq(Record) /\ Len(added) \in Nat
      /\ Len(records) \in Nat /\ Len(records) <= Len(added)
  <2>1. added \in Seq(Entry) /\ records \in Seq(Record)
    BY DEF TraceTypeOK, RecordsTypeOK
  <2> QED BY <2>1, LenProperties DEF StoreIsTail
<1>2. 1..Len(added) \in SUBSET (1..Len(records))
  BY DEF Bucket
<1>3. Len(records) = Len(added)
  <2>1. Len(added) \in 1..Len(added)
    BY <1>1
  <2>2. Len(added) \in 1..Len(records)
    BY <1>2, <2>1
  <2> QED BY <1>1, <2>2
<1>4. \A x \in 1..Len(records) : records[x] = added[x].rec /\ SecondOf(records[x]) = s
  BY <1>1, <1>3 DEF StoreIsTail, Given, Bucket
<1>5. PriorIn(added, i) = InSecond(i)
  <2>1. added[i].base = 0 /\ added[i].rec = records[i]
    BY <1>3, <1>4
  <2>2. \A j \in 1..(i - 1) : /\ added[j].rec = records[j]
                              /\ SecondOf(records[j]) = SecondOf(records[i])
    <3>1. 1..(i - 1) \in SUBSET (1..Len(records))
      BY <1>1
    <3> QED BY <1>4, <3>1
  <2> QED BY <2>1, <2>2 DEF PriorIn, InSecond
<1>6. TermOf(i) \in Nat
  BY <1>1, TermsTyped
<1>7. CASE InSecond(i) = {}
  <2>1. LossIn(added, i) = 0
    BY <1>5, <1>7 DEF LossIn
  <2> QED BY <1>3, <1>6, <2>1
<1>8. CASE InSecond(i) # {}
  <2>1. added[Max(InSecond(i))].rec = records[Max(InSecond(i))] /\ added[i].rec = records[i]
    BY <1>1, <1>4, <1>8, SecondPlaces
  <2>2. CASE records[i].timestamp - records[Max(InSecond(i))].timestamp <= STREAM_RESTART_GAP
    <3>1. LossIn(added, i) = TermOf(i)
      BY <1>5, <1>8, <2>1, <2>2 DEF LossIn, TermOf
    <3> QED BY <1>3, <1>6, <3>1
  <2>3. CASE ~(records[i].timestamp - records[Max(InSecond(i))].timestamp <= STREAM_RESTART_GAP)
    <3>1. LossIn(added, i) = 0
      BY <1>5, <2>1, <2>3 DEF LossIn
    <3> QED BY <1>3, <1>6, <3>1
  <2> QED BY <2>2, <2>3
<1> QED BY <1>3, <1>7, <1>8

\* The history shows no more loss than the statistics, and as much when all that
\* was added lies in one second.
LEMMA HistoryLoss ==
  ASSUME TraceTypeOK, StoreIsTail, StoreOrdered, TotalInv, base = 0,
         \A j \in 1..Len(added) : added[j].base = 0
  PROVE  /\ SumFunctionOnSet(Terms, 1..Len(records)) \in Nat
         /\ PacketLoss \in Nat
         /\ SumFunctionOnSet(Terms, 1..Len(records)) <= PacketLoss
         /\ \A s : Bucket(s) = 1..Len(added) =>
              SumFunctionOnSet(Terms, 1..Len(records)) = PacketLoss
<1> DEFINE n == Len(records)
           N == Len(added)
           o == N - n
           L == LossesOf(added)
           t == SumFunctionOnSet(Terms, 1..n)
           l == SumFunctionOnSet(L, 1..N)
<1>1. /\ added \in Seq(Entry) /\ records \in Seq(Record) /\ N \in Nat
      /\ n \in Nat /\ o \in Nat /\ o + n = N
  <2>1. added \in Seq(Entry) /\ records \in Seq(Record)
    BY DEF TraceTypeOK, RecordsTypeOK
  <2>2. Len(added) \in Nat /\ Len(records) \in Nat
    BY <2>1, LenProperties
  <2> QED BY <2>1, <2>2 DEF StoreIsTail
<1>2. \A i \in 1..n : Terms[i] = TermOf(i) /\ Terms[i] \in Nat
  BY <1>1, TermsTyped
<1>3. \A i \in 1..N : L[i] = LossIn(added, i) /\ L[i] \in Nat
  BY <1>1, LossTyped DEF LossesOf
<1>4. PacketLoss = l
  BY DEF TotalInv
<1>5. \A i \in 1..n : Terms[i] \in Int /\ Terms[i] <= L[o + i]
  <2> TAKE i \in 1..n
  <2>1. TermOf(i) <= LossIn(added, o + i)
    BY TermAtMostLoss
  <2> HIDE DEF o, L
  <2>2. o + i \in 1..N
    BY <1>1
  <2> QED BY <1>2, <1>3, <2>1, <2>2
<1> HIDE DEF L, o, n, N
<1>6. t <= SumFunctionOnSet(L, 1..(o + n))
  <2>1. \A i \in 1..(o + n) : L[i] \in Nat
    BY <1>1, <1>3
  <2> QED BY <1>1, <1>5, <2>1, SumOfFewer
<1>7. t \in Nat /\ l \in Nat
  <2>1. IsFiniteSet(1..n) /\ IsFiniteSet(1..N)
    BY <1>1, FS_Interval
  <2>2. t \in Nat
    BY <1>2, <2>1, SumNatural
  <2>3. l \in Nat
    BY <1>3, <2>1, SumNatural
  <2> QED BY <2>2, <2>3
<1>8. ASSUME NEW s, Bucket(s) = 1..N PROVE t = l
  <2>1. \A i \in 1..n : n = N /\ L[i] <= Terms[i]
    <3> TAKE i \in 1..n
    <3>1. n = N /\ LossIn(added, i) <= TermOf(i)
      BY <1>8, TermIsLoss DEF n, N
    <3> QED BY <1>2, <1>3, <3>1
  <2>2. n = N
    <3>1. 1 \in 1..n
      BY <1>1, LastSecond DEF n
    <3> QED BY <2>1, <3>1
  <2>3. \A i \in 1..n : L[i] \in Int /\ Terms[i] \in Int /\ L[i] <= Terms[i]
    BY <1>2, <1>3, <2>1, <2>2
  <2>4. IsFiniteSet(1..n)
    BY <1>1, FS_Interval
  <2>5. SumFunctionOnSet(L, 1..n) <= t
    BY <2>3, <2>4, SumMonotone
  <2>6. l <= t /\ t <= l
    BY <1>1, <1>6, <2>2, <2>5
  <2> QED BY <1>7, <2>6
<1>9. t <= l
  BY <1>1, <1>6
<1> QED BY <1>4, <1>7, <1>8, <1>9 DEF n, N

-----------------------------------------------------------------------------

LEMMA TimesDistributes ==
  ASSUME NEW a \in Int, NEW b \in Int, NEW c \in Int
  PROVE  a * c \in Int /\ b * c \in Int /\ (a + b) * c = a * c + b * c
  BY Z3

LEMMA TimesMonotone ==
  ASSUME NEW a \in Int, NEW b \in Int, NEW c \in Nat
  PROVE  /\ a <= b => a * c <= b * c
         /\ c # 0 => (a * c <= b * c => a <= b)
<1>1. PICK k \in Int : b = a + k
  <2>1. b - a \in Int /\ b = a + (b - a)
    OBVIOUS
  <2> QED BY <2>1
<1>2. b * c = a * c + k * c /\ a * c \in Int /\ k * c \in Int
  BY <1>1, TimesDistributes
<1>3. k >= 0 => k * c >= 0
  BY <1>1, Z3
<1>4. k < 0 /\ c # 0 => k * c < 0
  BY <1>1, Z3
<1> QED BY <1>1, <1>2, <1>3, <1>4

\* A larger fraction is not rounded to a smaller number.
LEMMA RoundMonotone ==
  ASSUME NEW n1 \in Nat, NEW d1 \in Nat \ {0}, NEW n2 \in Nat, NEW d2 \in Nat \ {0},
         n1 * d2 <= n2 * d1
  PROVE  Round(n1, d1) <= Round(n2, d2)
<1> DEFINE q1 == n1 \div d1
           r1 == n1 % d1
           q2 == n2 \div d2
           r2 == n2 % d2
           D == d1 * d2
<1>1. /\ q1 \in Nat /\ r1 \in 0..(d1 - 1) /\ n1 = q1 * d1 + r1
      /\ q2 \in Nat /\ r2 \in 0..(d2 - 1) /\ n2 = q2 * d2 + r2
  BY Z3
<1>2. /\ Round(n1, d1) = IF 2 * r1 > d1 \/ (2 * r1 = d1 /\ q1 % 2 = 1) THEN q1 + 1 ELSE q1
      /\ Round(n2, d2) = IF 2 * r2 > d2 \/ (2 * r2 = d2 /\ q2 % 2 = 1) THEN q2 + 1 ELSE q2
  BY DEF Round
<1> HIDE DEF q1, r1, q2, r2, D
<1>3. n1 * d2 = q1 * D + r1 * d2 /\ n2 * d1 = q2 * D + r2 * d1
  <2>1. n1 * d2 = (q1 * d1) * d2 + r1 * d2
    BY <1>1, Z3
  <2>2. n2 * d1 = (q2 * d2) * d1 + r2 * d1
    BY <1>1, Z3
  <2>3. (q1 * d1) * d2 = q1 * D /\ (q2 * d2) * d1 = q2 * D
    BY <1>1, Z3 DEF D
  <2> QED BY <2>1, <2>2, <2>3
<1>4. /\ q1 * D \in Int /\ q2 * D \in Int /\ r1 * d2 \in Nat /\ r2 * d1 \in Int /\ D \in Nat \ {0}
      /\ r2 * d1 < D
  <2>1. D \in Nat \ {0} /\ r1 * d2 \in Nat /\ r2 * d1 \in Int
    BY <1>1, Z3 DEF D
  <2>2. q1 * D \in Int /\ q2 * D \in Int
    BY <1>1, <2>1
  <2>3. r2 * d1 + d1 <= D
    <3>1. r2 + 1 \in Int /\ r2 + 1 <= d2 /\ d2 \in Int /\ d1 \in Nat /\ r2 \in Int /\ d1 \in Int /\ 1 \in Int
      BY <1>1
    <3>2. (r2 + 1) * d1 <= d2 * d1
      BY <3>1, TimesMonotone
    <3>3. (r2 + 1) * d1 = r2 * d1 + 1 * d1
      BY <3>1, TimesDistributes
    <3>4. d2 * d1 = D /\ 1 * d1 = d1
      BY Z3 DEF D
    <3> QED BY <3>2, <3>3, <3>4
  <2> QED BY <2>1, <2>2, <2>3
<1>5. q1 <= q2
  <2> SUFFICES ASSUME q2 + 1 <= q1 PROVE FALSE
    BY <1>1
  <2>1. (q2 + 1) * D <= q1 * D /\ (q2 + 1) * D = q2 * D + 1 * D
    <3>1. q2 + 1 \in Int /\ q1 \in Int /\ q2 \in Int /\ D \in Nat /\ D \in Int /\ 1 \in Int
      BY <1>1, <1>4
    <3> QED BY <3>1, TimesMonotone, TimesDistributes
  <2> QED BY <1>3, <1>4, <2>1
<1>6. CASE q1 < q2
  BY <1>1, <1>2, <1>6
<1>7. CASE q1 = q2
  <2>1. r1 * d2 <= r2 * d1
    BY <1>3, <1>4, <1>7
  <2>2. d1 <= 2 * r1 => d2 <= 2 * r2
    <3> SUFFICES ASSUME d1 <= 2 * r1 PROVE d2 <= 2 * r2
      OBVIOUS
    <3>1. d1 * d2 <= (2 * r1) * d2
      <4>1. 2 * r1 \in Int /\ d1 \in Int /\ d2 \in Nat
        BY <1>1
      <4> QED BY <4>1, TimesMonotone
    <3>2. (2 * r1) * d2 = 2 * (r1 * d2) /\ 2 * (r2 * d1) = (2 * r2) * d1 /\ d1 * d2 = d2 * d1
      BY <1>1, Z3
    <3>3. d2 * d1 <= (2 * r2) * d1
      BY <1>4, <2>1, <3>1, <3>2
    <3>4. 2 * r2 \in Int /\ d2 \in Int /\ d1 \in Nat /\ d1 # 0
      BY <1>1
    <3> QED BY <3>3, <3>4, TimesMonotone
  <2>3. d1 < 2 * r1 => d2 < 2 * r2
    <3> SUFFICES ASSUME d1 < 2 * r1, 2 * r2 <= d2 PROVE FALSE
      BY <1>1
    <3>1. (d1 + 1) * d2 <= (2 * r1) * d2 /\ (2 * r2) * d1 <= d2 * d1
      <4>1. 2 * r1 \in Int /\ d1 + 1 \in Int /\ d1 + 1 <= 2 * r1 /\ d2 \in Nat /\ 2 * r2 \in Int
            /\ d2 \in Int /\ d1 \in Nat
        BY <1>1
      <4> QED BY <4>1, TimesMonotone
    <3>2. /\ (2 * r1) * d2 = 2 * (r1 * d2) /\ 2 * (r2 * d1) = (2 * r2) * d1 /\ d1 * d2 = d2 * d1
          /\ (d1 + 1) * d2 = d1 * d2 + d2
      BY <1>1, Z3
    <3> QED BY <1>4, <2>1, <3>1, <3>2 DEF D
  <2> QED BY <1>1, <1>2, <1>7, <2>2, <2>3
<1> QED BY <1>1, <1>5, <1>6, <1>7

\* More loss among fewer packets is not a smaller loss rate.
LEMMA LossRateMonotone ==
  ASSUME NEW p1 \in Nat \ {0}, NEW l1 \in Nat, NEW p2 \in Nat, NEW l2 \in Nat,
         l1 <= l2, p2 <= p1
  PROVE  LossRate(p1, l1) <= LossRate(p2, l2)
<1>1. CASE p2 + l2 = 0
  <2>1. l1 = 0 /\ l2 = 0 /\ p2 = 0
    BY <1>1
  <2>2. Round(10000 * 0, p1 + 0) = 0
    <3>1. 10000 * 0 = 0 /\ p1 + 0 = p1 /\ 0 \div p1 = 0 /\ 0 % p1 = 0
      BY Z3
    <3> QED BY <3>1 DEF Round
  <2> QED BY <2>1, <2>2 DEF LossRate
<1>2. CASE p2 + l2 # 0
  <2> DEFINE n1 == 10000 * l1
             d1 == p1 + l1
             n2 == 10000 * l2
             d2 == p2 + l2
  <2>1. n1 \in Nat /\ n2 \in Nat /\ d1 \in Nat \ {0} /\ d2 \in Nat \ {0}
    BY <1>2
  <2>2. n1 * d2 <= n2 * d1
    <3>1. l1 * p2 <= l2 * p1
      <4>1. l1 * p2 <= l2 * p2
        BY TimesMonotone
      <4>2. p2 * l2 <= p1 * l2
        BY TimesMonotone
      <4>3. /\ p2 * l2 = l2 * p2 /\ p1 * l2 = l2 * p1
            /\ l1 * p2 \in Int /\ l2 * p2 \in Int /\ l2 * p1 \in Int
        BY Z3
      <4> QED BY <4>1, <4>2, <4>3
    <3>2. n1 * d2 = 10000 * (l1 * p2) + 10000 * (l1 * l2)
      BY Z3
    <3>3. n2 * d1 = 10000 * (l2 * p1) + 10000 * (l1 * l2)
      BY Z3
    <3>4. l1 * p2 \in Int /\ l2 * p1 \in Int /\ l1 * l2 \in Int
      OBVIOUS
    <3> HIDE DEF n1, n2, d1, d2
    <3> QED BY <3>1, <3>2, <3>3, <3>4
  <2>3. LossRate(p1, l1) = Round(n1, d1) /\ LossRate(p2, l2) = Round(n2, d2)
    BY <2>1 DEF LossRate
  <2> HIDE DEF n1, n2, d1, d2
  <2>4. Round(n1, d1) <= Round(n2, d2)
    BY <2>1, <2>2, RoundMonotone
  <2> QED BY <2>3, <2>4
<1> QED BY <1>1, <1>2

\* A rate that does not grow has no upward trend.
LEMMA NoUpwardTrend ==
  ASSUME NEW prev \in Nat \ {0}, NEW pps \in Nat, pps <= prev
  PROVE  PpsTrend(prev, pps) <= 0
<1> DEFINE n == 10000 * (pps - prev)
           q == n \div prev
           r == n % prev
<1>1. n \in Int /\ n <= 0
  OBVIOUS
<1>2. PpsTrend(prev, pps) = Round(n, prev)
  BY NoneAssumption DEF PpsTrend
<1> HIDE DEF n
<1>3. CASE n = 0
  <2>1. q = 0 /\ r = 0
    BY <1>3, Z3
  <2> QED BY <1>2, <2>1 DEF Round
<1>4. CASE n # 0
  <2>1. q \in Int /\ q < 0
    BY <1>1, <1>4, Z3
  <2>2. Round(n, prev) = q \/ Round(n, prev) = q + 1
    BY DEF Round
  <2> HIDE DEF q
  <2> QED BY <1>2, <2>1, <2>2
<1> QED BY <1>3, <1>4

\* Less jitter and a smaller loss rate are no worse a quality.
LEMMA QualityMonotone ==
  ASSUME NEW j1 \in Nat, NEW l1 \in Nat, NEW j2 \in Nat, NEW l2 \in Nat, j1 <= j2, l1 <= l2
  PROVE  QualityScore(j2, l2) <= QualityScore(j1, l1)
<1> DEFINE n1 == 60 * Clamp(100 - 2 * j1, 0, 100) + 4 * Clamp(1000 - l1, 0, 1000)
           n2 == 60 * Clamp(100 - 2 * j2, 0, 100) + 4 * Clamp(1000 - l2, 0, 1000)
<1>1. n1 \in Nat /\ n2 \in Nat /\ n2 * 10 <= n1 * 10
  BY DEF Clamp
<1>2. QualityScore(j1, l1) = Round(n1, 10) /\ QualityScore(j2, l2) = Round(n2, 10)
  BY DEF QualityScore
<1> HIDE DEF n1, n2
<1>3. 10 \in Nat \ {0}
  OBVIOUS
<1>4. Round(n2, 10) <= Round(n1, 10)
  BY <1>1, <1>3, RoundMonotone
<1> QED BY <1>2, <1>4

LEMMA RoundTyped ==
  ASSUME NEW n \in Nat, NEW d \in Nat \ {0}
  PROVE  Round(n, d) \in Nat
<1> DEFINE q == n \div d
<1>1. q \in Nat /\ (Round(n, d) = q \/ Round(n, d) = q + 1)
  BY DEF Round
<1> HIDE DEF q
<1> QED BY <1>1

LEMMA QualityTyped ==
  ASSUME NEW jitter \in Nat, NEW loss_rate \in Nat
  PROVE  QualityScore(jitter, loss_rate) \in Nat
<1> DEFINE n == 60 * Clamp(100 - 2 * jitter, 0, 100) + 4 * Clamp(1000 - loss_rate, 0, 1000)
           d == 10
<1>1. n \in Nat /\ d \in Nat \ {0}
  BY DEF Clamp
<1>2. QualityScore(jitter, loss_rate) = Round(n, d)
  BY DEF QualityScore
<1> HIDE DEF n, d
<1> QED BY <1>1, <1>2, RoundTyped

LEMMA LossRateTyped ==
  ASSUME NEW pps \in Nat, NEW packet_loss \in Nat
  PROVE  LossRate(pps, packet_loss) \in Nat
<1> DEFINE n == 10000 * packet_loss
           d == pps + packet_loss
<1>1. n \in Nat /\ d \in Nat
  OBVIOUS
<1>2. LossRate(pps, packet_loss) = IF d = 0 THEN 0 ELSE Round(n, d)
  BY DEF LossRate
<1> HIDE DEF n, d
<1>3. d # 0 => Round(n, d) \in Nat
  BY <1>1, RoundTyped
<1> QED BY <1>2, <1>3

\* What the last entry of the history says, against the live statistics.
LastEntryFaithful(limit) ==
  LET last  == Max(Seconds)
      entry == LastEntry(limit)
  IN /\ entry.pps \in Nat \ {0}
     /\ entry.jitter_p95 = P95Of(UsableIndices \cap RecentFrom(limit)..Len(records))
     /\ Cardinality(Seconds) <= limit => entry.jitter_p95 = JitterP95
     /\ CurrentJitter \in Nat
     /\ entry.jitter_current \in {0, CurrentJitter}
     /\ (\A i \in 1..Len(added) : added[i].base = 0) /\ base = 0 =>
          /\ entry.packet_loss \in Nat /\ PacketLoss \in Nat
          /\ entry.packet_loss <= PacketLoss
          /\ Bucket(last) = 1..Len(added) => entry.packet_loss = PacketLoss

LEMMA JitterIsNumber ==
  ASSUME records \in Seq(Record)
  PROVE  CurrentJitter \in Nat
<1>1. CASE UsableIndices = {}
  BY <1>1 DEF CurrentJitter
<1>2. CASE UsableIndices # {}
  <2> DEFINE M == Max(UsableIndices)
  <2>1. Len(records) \in Nat /\ UsableIndices \in SUBSET (1..Len(records))
    BY LenProperties DEF UsableIndices
  <2>2. M \in UsableIndices
    BY <1>2, <2>1, MaxOfPositions
  <2> HIDE DEF M
  <2>3. M \in 1..Len(records) /\ records[M].jitter_ms # None
    BY <2>2 DEF UsableIndices, Usable
  <2>4. records[M] \in Record
    BY <2>3, ElementOfSeq
  <2>5. records[M].jitter_ms \in Nat
    BY <2>3, <2>4 DEF Record
  <2> QED BY <1>2, <2>5 DEF CurrentJitter, M
<1> QED BY <1>1, <1>2

LEMMA LastEntryIsFaithful ==
  ASSUME TraceTypeOK, StoreIsTail, TotalInv, InOrder, records # <<>>, NEW limit \in Limits
  PROVE  LastEntryFaithful(limit)
<1> DEFINE last == Max(Seconds)
           entry == LastEntry(limit)
<1>1. StoreOrdered /\ limit \in Nat \ {0}
  BY StoreIsOrdered, TraceAssumption
<1>2. Len(records) \in Nat \ {0} /\ records \in Seq(Record)
  BY <1>1, LastSecond DEF StoreOrdered
<1>3. /\ entry.pps = Cardinality(Bucket(last))
      /\ entry.packet_loss = SumFunction([t \in LastSeconds(limit) |-> BucketLoss(t)])
      /\ entry.jitter_current = IF UsableIndices \cap Bucket(last) = {} THEN 0
                                ELSE records[Max(UsableIndices \cap Bucket(last))].jitter_ms
      /\ entry.jitter_p95 = P95Of(UsableIndices \cap Listed(limit))
  BY <1>1, LastEntryIs
<1>4. entry.packet_loss = SumFunctionOnSet(Terms, Listed(limit))
  <2>1. LastSeconds(limit) \in SUBSET Seconds
    BY <1>1, LastIsListed
  <2> QED BY <1>2, <1>3, <2>1, HistoryCounts DEF Listed
<1>5. Cardinality(Bucket(last)) \in Nat \ {0}
  <2>1. Len(records) \in Bucket(last)
    BY <1>1, <1>2, LastSecond DEF Bucket
  <2>2. IsFiniteSet(Bucket(last))
    <3>1. IsFiniteSet(1..Len(records)) /\ Bucket(last) \in SUBSET (1..Len(records))
      BY <1>2, FS_Interval DEF Bucket
    <3> QED BY <3>1, FS_Subset
  <2> QED BY <2>1, <2>2, FS_CardinalityType, FS_EmptySet
<1>6. entry.jitter_current \in {0, CurrentJitter}
  <2>1. CASE UsableIndices \cap Bucket(last) = {}
    BY <1>3, <2>1
  <2>2. CASE UsableIndices \cap Bucket(last) # {}
    BY <1>1, <1>3, <2>2, LastJitter DEF CurrentJitter
  <2> QED BY <2>1, <2>2
<1>7. ASSUME \A i \in 1..Len(added) : added[i].base = 0, base = 0
      PROVE  /\ entry.packet_loss \in Nat /\ PacketLoss \in Nat
             /\ entry.packet_loss <= PacketLoss
             /\ Bucket(last) = 1..Len(added) => entry.packet_loss = PacketLoss
  <2> DEFINE A == 1..Len(records)
             whole == SumFunctionOnSet(Terms, A)
  <2>1. /\ whole \in Nat /\ PacketLoss \in Nat /\ whole <= PacketLoss
        /\ Bucket(last) = 1..Len(added) => whole = PacketLoss
    BY <1>1, <1>7, HistoryLoss
  <2>2. Listed(limit) \in SUBSET A
    BY DEF Listed, Bucket
  <2>3. IsFiniteSet(A) /\ \A x \in A : Terms[x] \in Nat
    <3>1. \A x \in A : Terms[x] \in Nat
      BY <1>2, TermsTyped
    <3>2. IsFiniteSet(1..Len(records))
      BY <1>2, FS_Interval
    <3> QED BY <3>1, <3>2
  <2>4. Bucket(last) = 1..Len(added) => Listed(limit) = A
    <3>1. Len(added) \in Nat /\ Len(records) <= Len(added)
      BY LenProperties DEF TraceTypeOK, StoreIsTail
    <3>2. A \in SUBSET (1..Len(added))
      BY <1>2, <3>1
    <3>3. Bucket(last) \in SUBSET Listed(limit)
      BY <1>1, LastIsListed DEF Listed
    <3> QED BY <2>2, <3>2, <3>3
  <2> HIDE DEF A, entry
  <2>5. entry.packet_loss \in Nat /\ entry.packet_loss <= whole
    BY <1>4, <2>2, <2>3, SumOfPart
  <2> QED BY <1>4, <2>1, <2>4, <2>5
<1>8. CurrentJitter \in Nat
  BY <1>2, JitterIsNumber
<1>9. entry.jitter_p95 = P95Of(UsableIndices \cap RecentFrom(limit)..Len(records))
  BY <1>1, <1>3, ListedAreRecent
<1>10. ASSUME Cardinality(Seconds) <= limit PROVE entry.jitter_p95 = JitterP95
  <2>1. LastSeconds(limit) = Seconds
    BY <1>1, <1>2, <1>10, AllSeconds, LastSecond
  <2>2. UsableIndices \cap Listed(limit) = UsableIndices
    BY <2>1, BucketsCover DEF Listed, UsableIndices
  <2> QED BY <1>3, <2>2 DEF JitterP95
<1> HIDE DEF entry, last
<1>11. entry.pps \in Nat \ {0}
  BY <1>3, <1>5
<1> QED BY <1>6, <1>7, <1>8, <1>9, <1>10, <1>11 DEF LastEntryFaithful, entry, last

\* The last entry of get_stats_history() has the P95 of the newest records that lie
\* in as many seconds as are read, so that of get_stats_dict() while the store has no
\* more, its jitter, and its loss when all lies in one second: for every limit,
\* store, trace and set of codes.
THEOREM HistoryEndsCorrect == TraceSpec => []HistoryEndsInStats
<1>1. TraceTypeOK /\ StoreInv /\ TotalInv => HistoryEndsInStats
  <2> SUFFICES ASSUME TraceTypeOK, StoreInv, TotalInv, InOrder, records # <<>>,
                      NEW limit \in Limits
               PROVE  LET last  == Max(Seconds)
                          entry == LastEntry(limit)
                      IN /\ entry.jitter_p95 =
                              P95Of(UsableIndices \cap RecentFrom(limit)..Len(records))
                         /\ Cardinality(Seconds) <= limit => entry.jitter_p95 = JitterP95
                         /\ entry.jitter_current \in {0, CurrentJitter}
                         /\ Bucket(last) = 1..Len(added) /\ base = 0 =>
                              entry.packet_loss = PacketLoss
    BY DEF HistoryEndsInStats, LastEntry
  <2>1. LastEntryFaithful(limit)
    BY LastEntryIsFaithful DEF StoreInv
  <2>2. base = 0 => \A i \in 1..Len(added) : added[i].base = 0
    <3>1. \A i \in 1..Len(added) : i > 0
      OBVIOUS
    <3> QED BY <3>1 DEF TraceTypeOK
  <2> QED BY <2>1, <2>2 DEF LastEntryFaithful
<1> QED
  BY <1>1, TraceTypeCorrect, StoreInvHolds, TotalInvHolds, PTL

\* get_stats_history() forgets losses only, so that extract_batch() trains the
\* forest on a last second that looks no worse than extract() would show it live:
\* for every store, trace and set of codes, with packets in capture order.
THEOREM SkewCorrect == TraceSpec => []SkewIsOneSided
<1>1. TraceTypeOK /\ StoreInv /\ TotalInv => SkewIsOneSided
  <2> SUFFICES ASSUME TraceTypeOK, StoreInv, TotalInv, InOrder, records # <<>>,
                      \A i \in 1..Len(added) : added[i].base = base, NEW limit \in Limits
               PROVE  LET last    == Max(Seconds)
                          history == StatsHistory(limit)
                          entry   == history[last]
                          trained == ExtractBatch(history, None)[last]
                          live    == Extract(StatsDict, entry.pps)
                      IN /\ entry.packet_loss <= PacketLoss
                         /\ Pps <= entry.pps =>
                              /\ trained.loss_rate <= live.loss_rate
                              /\ live.pps_trend <= 0
                              /\ trained.quality_score >= live.quality_score
    BY DEF SkewIsOneSided
  <2> DEFINE last    == Max(Seconds)
             history == StatsHistory(limit)
             entry   == LastEntry(limit)
             trained == ExtractBatch(history, None)[last]
             live    == Extract(StatsDict, entry.pps)
  <2>1. LastEntryFaithful(limit)
    BY LastEntryIsFaithful DEF StoreInv
  <2>2. /\ Len(added) \in Nat /\ Len(records) \in Nat \ {0} /\ Len(records) <= Len(added)
        /\ StoreOrdered
    <3>1. StoreOrdered
      BY StoreIsOrdered DEF StoreInv
    <3> QED BY <3>1, LastSecond, LenProperties DEF TraceTypeOK, StoreInv, StoreIsTail
  <2>3. base = 0
    <3>1. 1 \in 1..Len(added)
      BY <2>2
    <3>2. base < 1 /\ base \in Nat
      BY <2>2, <3>1 DEF TotalInv, TraceTypeOK
    <3> QED BY <3>2
  <2>4. entry.packet_loss \in Nat /\ PacketLoss \in Nat /\ entry.packet_loss <= PacketLoss
    BY <2>1, <2>3 DEF LastEntryFaithful
  <2>5. last \in DOMAIN history /\ history[last] = entry
    <3>1. limit \in Nat \ {0}
      BY TraceAssumption
    <3> QED BY <2>2, <3>1, LastEntryIs DEF LastEntry
  <2>6. /\ trained.loss_rate = LossRate(entry.pps, entry.packet_loss)
        /\ trained.quality_score = QualityScore(entry.jitter_current, trained.loss_rate)
    <3> HIDE DEF history, last, entry
    <3> QED BY <2>5 DEF ExtractBatch, Extract
  <2>7. /\ live.loss_rate = LossRate(Pps, PacketLoss)
        /\ live.quality_score = QualityScore(CurrentJitter, live.loss_rate)
        /\ live.pps_trend = PpsTrend(entry.pps, Pps)
    BY DEF Extract, StatsDict
  <2>8. /\ Pps \in Nat /\ entry.pps \in Nat \ {0} /\ CurrentJitter \in Nat
        /\ entry.jitter_current \in {0, CurrentJitter}
    BY <2>1, <2>2, PpsTyped DEF LastEntryFaithful
  <2> HIDE DEF entry, trained, live
  <2>9. ASSUME Pps <= entry.pps
        PROVE  /\ trained.loss_rate <= live.loss_rate
               /\ live.pps_trend <= 0
               /\ trained.quality_score >= live.quality_score
    <3>1. trained.loss_rate <= live.loss_rate
      BY <2>4, <2>6, <2>7, <2>8, <2>9, LossRateMonotone
    <3>2. live.pps_trend <= 0
      BY <2>7, <2>8, <2>9, NoUpwardTrend
    <3>3. trained.loss_rate \in Nat /\ live.loss_rate \in Nat
      <4>1. entry.pps \in Nat
        BY <2>8
      <4>2. trained.loss_rate \in Nat
        BY <2>4, <2>6, <4>1, LossRateTyped
      <4>3. live.loss_rate \in Nat
        BY <2>4, <2>7, <2>8, LossRateTyped
      <4> QED BY <4>2, <4>3
    <3>4. live.quality_score <= trained.quality_score
      <4>1. entry.jitter_current \in Nat /\ entry.jitter_current <= CurrentJitter
        BY <2>8
      <4> QED BY <2>6, <2>7, <2>8, <3>1, <3>3, <4>1, QualityMonotone
    <3>5. trained.quality_score \in Int /\ live.quality_score \in Int
      <4>1. entry.jitter_current \in Nat
        BY <2>8
      <4>2. trained.quality_score \in Nat /\ live.quality_score \in Nat
        BY <2>6, <2>7, <2>8, <3>3, <4>1, QualityTyped
      <4> QED BY <4>2
    <3> QED BY <3>1, <3>2, <3>4, <3>5
  <2> QED BY <2>4, <2>5, <2>9 DEF trained, live, entry, last, history
<1> QED
  BY <1>1, TraceTypeCorrect, StoreInvHolds, TotalInvHolds, PTL
=============================================================================
