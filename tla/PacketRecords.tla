---------------------------- MODULE PacketRecords ----------------------------
(***************************************************************************)
(* store/packet_store.py, the packet side of class PacketStore: the record *)
(* deque with its jitter and loss, the window that prunes it, the chart    *)
(* cache and the statistics read from the records.  StoreJournal models    *)
(* the other side.  Every method runs under the store's lock, so every     *)
(* method is one action or, when it only reads, one operator.              *)
(***************************************************************************)
EXTENDS NetworkMetrics, BoundedSeq, FiniteSets

CONSTANTS Window,          \* window_sec, 3600 s
          MaxRecords,      \* maxlen of the record deque, 360000
          SECOND,          \* one second: PPS window, chart cache lifetime
          JITTER_OUTLIER,  \* JITTER_OUTLIER_THRESHOLD_MS, 200
          ChartLimit       \* limit of get_chart_data(), 180

ASSUME RecordsAssumption ==
  /\ MaxRecords \in Nat \ {0} /\ ChartLimit \in Nat \ {0}
  /\ Window \in Nat /\ SECOND \in Nat \ {0} /\ JITTER_OUTLIER \in Nat

VARIABLES now,               \* datetime.now()
          records,           \* self._records
          chart_cache,       \* self._chart_cache
          chart_cache_time   \* self._chart_cache_time

chartVars == <<chart_cache, chart_cache_time>>
recordsVars == <<now, records, chart_cache, chart_cache_time, metricsVars>>

\* PacketRecord, without the fields that are only displayed.
Record == [timestamp : Int, msg_code : MsgCode, sequence : Sequence,
           jitter_ms : Nat \cup {None}, interval_ms : Int \cup {None}]

ChartPoint == [timestamp : Int, pps : Nat, jitter : Nat]

RecordsInit ==
  /\ MetricsInit
  /\ now = 0
  /\ records = <<>>
  /\ chart_cache = <<>> /\ chart_cache_time = None

\* Mutation of Prune: <= for <, so that the window is one short.
PruneAtCutoff(rs, cutoff) ==
  LET old == CHOOSE k \in 0..Len(rs) :
               /\ \A i \in 1..k : rs[i].timestamp <= cutoff
               /\ k < Len(rs) => rs[k + 1].timestamp > cutoff
  IN SubSeq(rs, old + 1, Len(rs))

\* Mutation of Prune: drops every old record, wherever it is.
PruneAnywhere(rs, cutoff) == SelectSeq(rs, LAMBDA r : r.timestamp >= cutoff)

\* _prune_old_records(): only the head of the deque is looked at.
Prune(rs, cutoff) ==
  LET old == CHOOSE k \in 0..Len(rs) :
               /\ \A i \in 1..k : rs[i].timestamp < cutoff
               /\ k < Len(rs) => rs[k + 1].timestamp >= cutoff
  IN SubSeq(rs, old + 1, Len(rs))

\* add(): metrics, append, prune by the time of the packet just added.
Add(ts, m, seq) ==
  LET p == prev_by_msgcode[m]
      r == [timestamp |-> ts, msg_code |-> m, sequence |-> seq,
            jitter_ms |-> JitterOf(p, ts), interval_ms |-> IntervalOf(p, ts)]
  IN /\ Calculate(ts, m, seq)
     /\ records' = Prune(AppendBounded(records, r, MaxRecords), ts - Window)
     /\ UNCHANGED <<now, chartVars>>

\* Mutation of RecordsReset: the chart cache stays.
RecordsResetKeepsChart ==
  records' = <<>> /\ MetricsReset /\ UNCHANGED <<now, chartVars>>

\* reset(), packet side
RecordsReset ==
  /\ records' = <<>>
  /\ MetricsReset
  /\ chart_cache' = <<>> /\ chart_cache_time' = None
  /\ UNCHANGED now

\* reset_stream_state()
ResetStreamState == MetricsReset /\ UNCHANGED <<now, records, chartVars>>

\* get_pps()
Pps == Cardinality({i \in 1..Len(records) : records[i].timestamp >= now - SECOND})

Usable(r) == r.jitter_ms # None /\ r.jitter_ms <= JITTER_OUTLIER

\* to_chart_point()
ToChartPoint(r, pps) ==
  [timestamp |-> r.timestamp, pps |-> pps,
   jitter |-> IF Usable(r) THEN r.jitter_ms ELSE 0]

ChartOf(rs, pps) == [i \in 1..Len(rs) |-> ToChartPoint(rs[i], pps)]

CacheIsFresh == chart_cache_time # None /\ now - chart_cache_time < SECOND

\* get_chart_data() hands out the cache while it is fresh, and otherwise
\* fills it, unless there is nothing to chart.
GetChartData ==
  /\ IF CacheIsFresh \/ records = <<>>
     THEN UNCHANGED chartVars
     ELSE /\ chart_cache' = ChartOf(LastN(records, ChartLimit), Pps)
          /\ chart_cache_time' = now
  /\ UNCHANGED <<now, records, metricsVars>>

\* what a call to get_chart_data() returns in this state
ChartShown ==
  IF CacheIsFresh THEN chart_cache
  ELSE ChartOf(LastN(records, ChartLimit), Pps)

Pass(d) == now' = now + d /\ UNCHANGED <<records, chartVars, metricsVars>>

-----------------------------------------------------------------------------

\* The deque is bounded and its records are well formed; a jitter that was
\* recorded passed the noise filter; a filled cache has a time.
RecordsTypeOK ==
  /\ MetricsTypeOK
  /\ now \in Int
  /\ records \in Seq(Record) /\ Len(records) <= MaxRecords
  /\ \A i \in 1..Len(records) :
       records[i].jitter_ms # None => records[i].jitter_ms <= JITTER_NOISE
  /\ chart_cache \in Seq(ChartPoint) /\ Len(chart_cache) <= ChartLimit
  /\ chart_cache_time \in Int \cup {None}
  /\ chart_cache # <<>> => chart_cache_time # None
=============================================================================
