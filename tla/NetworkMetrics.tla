---------------------------- MODULE NetworkMetrics ----------------------------
(***************************************************************************)
(* store/packet_store.py, class NetworkMetrics: the RFC 3550 style jitter  *)
(* and the sequence-gap packet loss, per message code.  Times and          *)
(* thresholds are in one unit (milliseconds in the program).               *)
(*                                                                         *)
(* A message code the program has not met has no entry in its dicts; here  *)
(* it has an entry with a timestamp of None and a loss of 0, which the     *)
(* code treats alike.                                                      *)
(***************************************************************************)
EXTENDS Integers

CONSTANTS MsgCode,             \* message codes
          None,                \* Python's None
          STREAM_RESTART_GAP,  \* STREAM_RESTART_GAP_MS, 3000
          JITTER_NOISE         \* JITTER_NOISE_THRESHOLD_MS, 5

ASSUME NoneAssumption == None \notin Int
ASSUME ThresholdAssumption ==
  JITTER_NOISE \in Nat /\ STREAM_RESTART_GAP \in Nat \ {0}

VARIABLES prev_by_msgcode,     \* timestamp, interval and sequence last seen
          loss_by_msgcode      \* packets counted as lost

metricsVars == <<prev_by_msgcode, loss_by_msgcode>>

MODULUS == 16                  \* the sequence number has four bits
Sequence == 0..(MODULUS - 1)

Unseen == [timestamp |-> None, interval |-> None, sequence |-> None]

Prev == [timestamp : Int \cup {None}, interval : Int \cup {None},
         sequence : Sequence \cup {None}]

Abs(n) == IF n < 0 THEN -n ELSE n

MetricsInit ==
  /\ prev_by_msgcode = [m \in MsgCode |-> Unseen]
  /\ loss_by_msgcode = [m \in MsgCode |-> 0]

\* interval_ms of calculate()
IntervalOf(p, ts) == IF p.timestamp = None THEN None ELSE ts - p.timestamp

\* A gap that long is taken for a restart of the stream.
IsRestart(p, ts) == p.timestamp # None /\ ts - p.timestamp > STREAM_RESTART_GAP

\* The packet continues the stream of its message code.
Continues(p, ts) == p.timestamp # None /\ ~IsRestart(p, ts)


\* jitter_ms of calculate(): the change of the interval, when it is small.
JitterOf(p, ts) ==
  IF /\ Continues(p, ts)
     /\ p.interval # None
     /\ p.interval <= STREAM_RESTART_GAP
     /\ Abs((ts - p.timestamp) - p.interval) <= JITTER_NOISE
  THEN Abs((ts - p.timestamp) - p.interval)
  ELSE None

\* Mutation of NextPrev: a restart keeps the interval from before it.
NextPrevKeepsInterval(p, ts, seq) ==
  [timestamp |-> ts,
   interval  |-> IF Continues(p, ts) THEN ts - p.timestamp ELSE p.interval,
   sequence  |-> seq]

\* The state calculate() leaves for the message code.
NextPrev(p, ts, seq) ==
  [timestamp |-> ts,
   interval  |-> IF Continues(p, ts) THEN ts - p.timestamp ELSE None,
   sequence  |-> seq]

\* Mutation of SequenceGap: forgets the wrap-around.
SequenceGapUnwrapped(from, to) == to - from

SequenceGap(from, to) == (to - from) % MODULUS

\* Mutation of LossOf: a single lost packet is overlooked.
LossOfLongGap(p, ts, seq) ==
  IF Continues(p, ts) /\ p.sequence # None /\ SequenceGap(p.sequence, seq) > 2
  THEN SequenceGap(p.sequence, seq) - 1 ELSE 0

\* What calculate() adds to the loss of the message code.
LossOf(p, ts, seq) ==
  IF Continues(p, ts) /\ p.sequence # None /\ SequenceGap(p.sequence, seq) > 1
  THEN SequenceGap(p.sequence, seq) - 1
  ELSE 0

\* calculate() without its result, which JitterOf and IntervalOf give.
Calculate(ts, m, seq) ==
  LET p == prev_by_msgcode[m]
  IN /\ prev_by_msgcode' = [prev_by_msgcode EXCEPT ![m] = NextPrev(p, ts, seq)]
     /\ loss_by_msgcode' = [loss_by_msgcode EXCEPT ![m] = @ + LossOf(p, ts, seq)]

MetricsReset ==
  /\ prev_by_msgcode' = [m \in MsgCode |-> Unseen]
  /\ loss_by_msgcode' = [m \in MsgCode |-> 0]

\* The state of one message code is consistent: nothing is known before the
\* first packet, and an interval that was kept is never that of a restart.
PrevOK(p) ==
  /\ p \in Prev
  /\ (p.timestamp = None) <=> (p.sequence = None)
  /\ p.interval # None => p.timestamp # None /\ p.interval <= STREAM_RESTART_GAP

MetricsTypeOK ==
  /\ prev_by_msgcode \in [MsgCode -> Prev]
  /\ loss_by_msgcode \in [MsgCode -> Nat]
  /\ \A m \in MsgCode : PrevOK(prev_by_msgcode[m])
=============================================================================
