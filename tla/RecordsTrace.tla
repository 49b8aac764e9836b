----------------------------- MODULE RecordsTrace -----------------------------
(***************************************************************************)
(* The packet side of the store with a trace of every record it was given  *)
(* since the last reset(), against which its deque, its jitter, its chart  *)
(* cache and its statistics are judged.                                    *)
(***************************************************************************)
EXTENDS FeatureExtractor

CONSTANTS SeqInput(_),\* bound: sequence numbers of a packet captured at a time
          Limits,     \* seconds that get_stats_history() is asked for, 120
          Delay,      \* bound: time from capture to add()
          MaxAdds,    \* bound on the records added between two resets
          MaxNow,     \* bound on the clock
          MaxStep     \* bound: longest step of the clock

ASSUME TraceAssumption ==
  /\ Delay \in Nat /\ MaxAdds \in Nat /\ MaxNow \in Nat /\ MaxStep \in Nat
  /\ Limits \subseteq Nat \ {0}
  /\ \A ts \in (-Delay)..MaxNow : SeqInput(ts) \subseteq Sequence

VARIABLES added,      \* [rec, at, base] for every add() since reset()
          base        \* Len(added) when the metrics were last reset

traceVars == <<now, records, chart_cache, chart_cache_time, prev_by_msgcode,
               loss_by_msgcode, added, base>>

TraceInit == RecordsInit /\ added = <<>> /\ base = 0

TraceAdd(ts, m, seq) ==
  /\ Len(added) < MaxAdds
  /\ Add(ts, m, seq)
  /\ added' = Append(added, [rec  |-> records'[Len(records')], at |-> now,
                             base |-> base])
  /\ UNCHANGED base

TraceReset == RecordsReset /\ added' = <<>> /\ base' = 0

TraceResetStream == ResetStreamState /\ base' = Len(added) /\ UNCHANGED added

TraceChart == GetChartData /\ UNCHANGED <<added, base>>

TracePass(d) == now + d <= MaxNow /\ Pass(d) /\ UNCHANGED <<added, base>>

TraceNext ==
  \/ \E ts \in (now - Delay)..now, m \in MsgCode :
       \E seq \in SeqInput(ts) : TraceAdd(ts, m, seq)
  \/ TraceReset
  \/ TraceResetStream
  \/ TraceChart
  \/ \E d \in 1..MaxStep : TracePass(d)

TraceSpec == TraceInit /\ [][TraceNext]_traceVars

-----------------------------------------------------------------------------

Given(i) == added[i].rec

\* Were the packets added in the order of their capture?
InOrder == \A i \in 2..Len(added) : Given(i - 1).timestamp <= Given(i).timestamp

\* The deque is the newest part of what was added: nothing vanishes from the
\* middle, nothing is reordered, and the newest packet is always there.
StoreIsTail ==
  /\ Len(records) <= Len(added)
  /\ \A i \in 1..Len(records) :
       records[i] = Given(Len(added) - Len(records) + i)
  /\ added # <<>> => records # <<>>

\* A record leaves only when MaxRecords newer ones came, or when a later packet
\* was captured more than the window after it; and with packets in capture order
\* it does leave then.
DroppedWhenDue ==
  /\ \A i \in 1..(Len(added) - Len(records)) :
       \/ Len(added) - i >= MaxRecords
       \/ \E j \in (i + 1)..Len(added) : Given(i).timestamp < Given(j).timestamp - Window
  /\ InOrder => \A i \in 1..Len(records) :
       records[i].timestamp >= records[Len(records)].timestamp - Window

\* The packets of the same code that came before the i-th since the metrics
\* were reset.
Before(i) == {j \in (added[i].base + 1)..(i - 1) : Given(j).msg_code = Given(i).msg_code}

\* The jitter of a packet by its definition: the change between the last two
\* intervals of its code, when neither interval is a restart and it is small.
JitterByDefinition(i) ==
  LET p == Max(Before(i))
      q == Max(Before(p) \cap Before(i))
      last == Given(i).timestamp - Given(p).timestamp
      prior == Given(p).timestamp - Given(q).timestamp
  IN IF /\ Before(i) # {} /\ Before(p) \cap Before(i) # {}
        /\ last <= STREAM_RESTART_GAP /\ prior <= STREAM_RESTART_GAP
        /\ Abs(last - prior) <= JITTER_NOISE
     THEN Abs(last - prior)
     ELSE None

\* The jitter add() computed last, from one remembered packet per code, is the
\* jitter the whole history defines, across restarts, other codes and stream resets.
JitterMatchesHistory ==
  added # <<>> => Given(Len(added)).jitter_ms = JitterByDefinition(Len(added))

\* What get_chart_data() returns is a run of packets added since the last
\* reset(), in order, that misses no packet that was added a second ago or
\* earlier: the cache is never older than its lifetime and never survives reset.
ChartIsRecentRun ==
  LET chart == ChartShown
  IN \E last \in Len(chart)..Len(added) :
       /\ \A i \in DOMAIN chart :
            LET r == Given(last - Len(chart) + i)
            IN /\ chart[i].timestamp = r.timestamp
               /\ chart[i].jitter = IF Usable(r) THEN r.jitter_ms ELSE 0
       /\ \A i \in (last + 1)..Len(added) : now - added[i].at < SECOND
       /\ added # <<>> /\ last = 0 => chart = <<>>

\* What the training history forgets, the losses between two seconds, it may
\* only forget: while the stream was not reset, its last second never looks
\* worse to the forest than the live statistics do, by the loss and by the
\* quality, unless more packets came within the last second than in that one.
\* Packets out of order are left aside: within its second a late one is compared
\* with another packet than when it came.
SkewIsOneSided ==
  InOrder /\ records # <<>> /\ (\A i \in 1..Len(added) : added[i].base = base) =>
   \A limit \in Limits :
    LET last    == Max(Seconds)
        history == StatsHistory(limit)
        entry   == history[last]
        trained == ExtractBatch(history, None)[last]
        live    == Extract(StatsDict, entry.pps)
    IN /\ entry.packet_loss <= PacketLoss
       /\ Pps <= entry.pps =>
            /\ trained.loss_rate <= live.loss_rate
            /\ live.pps_trend <= 0
            /\ trained.quality_score >= live.quality_score

\* The first of the newest records that lie in at most `limit` different seconds.
RecentFrom(limit) ==
  Min({i \in 1..Len(records) :
         Cardinality({SecondOf(records[j]) : j \in i..Len(records)}) <= limit})

\* How far the training history ends in what prediction sees, for packets in
\* capture order: the P95 of its last second is that of the newest records that
\* lie in as many seconds as are read, which is the live one only if the store
\* has no more; its jitter, if any, is the live one; and so is the loss, when all
\* that was added lies in that second and the stream was not reset.
HistoryEndsInStats ==
  InOrder /\ records # <<>> =>
   \A limit \in Limits :
    LET last  == Max(Seconds)
        entry == StatsHistory(limit)[last]
    IN /\ entry.jitter_p95 =
            P95Of(UsableIndices \cap RecentFrom(limit)..Len(records))
       /\ Cardinality(Seconds) <= limit => entry.jitter_p95 = JitterP95
       /\ entry.jitter_current \in {0, CurrentJitter}
       /\ Bucket(last) = 1..Len(added) /\ base = 0 => entry.packet_loss = PacketLoss
=============================================================================
