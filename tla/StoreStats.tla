------------------------------ MODULE StoreStats ------------------------------
(***************************************************************************)
(* The statistics PacketStore reads from its records: the KPIs of          *)
(* get_stats_dict() and the per-second history the ML model trains on.     *)
(***************************************************************************)
EXTENDS PacketRecords, FiniteSetsExt

\* A message code has 16 bits, and a restart gap is 3 seconds.
ASSUME StatsAssumption == IsFiniteSet(MsgCode) /\ SECOND <= STREAM_RESTART_GAP

\* get_total_loss() and get_packet_loss()
PacketLoss == SumFunction(loss_by_msgcode)

UsableIndices == {i \in 1..Len(records) : Usable(records[i])}

\* get_current_jitter(): the newest jitter there is, else 0.
CurrentJitter ==
  IF UsableIndices = {} THEN 0 ELSE records[Max(UsableIndices)].jitter_ms

\* int(n * 0.95), kept inside the list
P95Index(n) == Min({(n * 95) \div 100, n - 1})

\* The jitter at zero-based place k of the jitters of S in ascending order.
RankedJitter(S, k) ==
  CHOOSE v \in {records[i].jitter_ms : i \in S} :
    /\ Cardinality({i \in S : records[i].jitter_ms < v}) <= k
    /\ Cardinality({i \in S : records[i].jitter_ms <= v}) > k

\* The P95 of the jitters of S, 0 if there are none.
P95Of(S) == IF S = {} THEN 0 ELSE RankedJitter(S, P95Index(Cardinality(S)))

\* get_jitter_p95()
JitterP95 == P95Of(UsableIndices)

\* ---- get_stats_history()

SecondOf(r) == r.timestamp \div SECOND

Seconds == {SecondOf(records[i]) : i \in 1..Len(records)}

\* The indices of the records of one second.
Bucket(s) == {i \in 1..Len(records) : SecondOf(records[i]) = s}

\* Mutation of BucketLoss: counts the gap instead of what is missing in it.
BucketGaps(s) ==
  LET before(i) == {j \in Bucket(s) : j < i /\ records[j].msg_code = records[i].msg_code}
      gap(i) == SequenceGap(records[Max(before(i))].sequence, records[i].sequence)
  IN SumFunction([i \in Bucket(s) |-> IF before(i) # {} THEN gap(i) ELSE 0])

\* The gaps between records of one code within one second, as losses.
BucketLoss(s) ==
  LET before(i) == {j \in Bucket(s) : j < i /\ records[j].msg_code = records[i].msg_code}
      gap(i) == SequenceGap(records[Max(before(i))].sequence, records[i].sequence)
  IN SumFunction([i \in Bucket(s) |-> IF before(i) # {} /\ gap(i) > 1 THEN gap(i) - 1 ELSE 0])

\* Mutation of LastSeconds: one second too many.
LastSecondsPlusOne(limit) ==
  {s \in Seconds : Cardinality({t \in Seconds : t > s}) <= limit}

\* The last `limit` seconds that hold a record.
LastSeconds(limit) ==
  {s \in Seconds : Cardinality({t \in Seconds : t > s}) < limit}

\* The entry of second s: loss and jitter accumulate over the seconds listed.
HistoryEntry(s, limit) ==
  LET upTo   == {t \in LastSeconds(limit) : t <= s}
      here   == UsableIndices \cap Bucket(s)
      soFar  == UNION {Bucket(t) : t \in upTo}
  IN [pps            |-> Cardinality(Bucket(s)),
      packet_loss    |-> SumFunction([t \in upTo |-> BucketLoss(t)]),
      jitter_current |-> IF here = {} THEN 0 ELSE records[Max(here)].jitter_ms,
      jitter_p95     |-> P95Of(UsableIndices \cap soFar)]

StatsHistory(limit) == [s \in LastSeconds(limit) |-> HistoryEntry(s, limit)]
=============================================================================
