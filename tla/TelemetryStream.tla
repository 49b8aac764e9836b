--------------------------- MODULE TelemetryStream ---------------------------
(***************************************************************************)
(* NetworkMetrics fed by a sender and a network.  The sender numbers the   *)
(* packets of each message code 0, 1, 2, ...; the header carries the last  *)
(* four bits (docs/03_ICD_SPECIFICATION.md).  The network loses packets    *)
(* and delivers some of the codes in Reordered late, though not so late    *)
(* that more than MaxLag newer numbers were sent.                          *)
(***************************************************************************)
EXTENDS NetworkMetrics, FiniteSets

CONSTANTS MaxBurst,    \* bound: longest run of consecutive losses of a code
          MaxArrivals, \* bound: packets delivered
          MaxPause,    \* bound: time between two packets of the stream
          MaxClock,    \* bound on the clock
          Reordered,   \* codes of which a skipped packet may still arrive
          MaxLag       \* how far behind the newest one it may then be

ASSUME StreamAssumption ==
  /\ MaxBurst \in [MsgCode -> Nat] /\ MaxArrivals \in Nat /\ MaxClock \in Nat
  /\ MaxPause \in Nat /\ MaxLag \in Nat /\ Reordered \subseteq MsgCode

VARIABLES clock,       \* datetime.now() at the receiver
          heard,       \* when a packet last arrived since the last reset
          newest,      \* the highest number that arrived, or -1
          arrivals,    \* how many packets arrived
          skipped,     \* numbers below `newest` that may still arrive
          missed       \* numbers skipped within a stream since the last reset

streamVars ==
  <<prev_by_msgcode, loss_by_msgcode, clock, heard, newest, arrivals, skipped, missed>>

StreamInit ==
  /\ MetricsInit
  /\ clock = 0
  /\ heard = [m \in MsgCode |-> None]
  /\ newest = [m \in MsgCode |-> -1]
  /\ arrivals = 0
  /\ skipped = [m \in MsgCode |-> {}]
  /\ missed = [m \in MsgCode |-> 0]

\* The stream of m has not been silent for longer than the restart gap.
InStream(m) == heard[m] # None /\ clock - heard[m] <= STREAM_RESTART_GAP

Hear(m) == heard' = [heard EXCEPT ![m] = clock]

\* Packet n of m arrives; those between the newest one and n are skipped, and
\* those more than MaxLag behind n will not come any more.  A skip counts as a
\* loss of the stream when the stream was not interrupted.
Arrive(m, n) ==
  /\ arrivals < MaxArrivals
  /\ n > newest[m] /\ n <= newest[m] + 1 + MaxBurst[m]
  /\ Calculate(clock, m, n % MODULUS)
  /\ newest' = [newest EXCEPT ![m] = n]
  /\ arrivals' = arrivals + 1
  /\ skipped' = IF m \in Reordered
                THEN [skipped EXCEPT ![m] =
                        {k \in @ \cup ((newest[m] + 1)..(n - 1)) : n - k <= MaxLag}]
                ELSE skipped
  /\ missed' = IF InStream(m)
               THEN [missed EXCEPT ![m] = @ + (n - newest[m] - 1)]
               ELSE missed
  /\ Hear(m)
  /\ UNCHANGED clock

\* A skipped packet arrives after all.
ArriveLate(m, n) ==
  /\ m \in Reordered
  /\ arrivals < MaxArrivals
  /\ n \in skipped[m]
  /\ Calculate(clock, m, n % MODULUS)
  /\ arrivals' = arrivals + 1
  /\ skipped' = [skipped EXCEPT ![m] = @ \ {n}]
  /\ Hear(m)
  /\ UNCHANGED <<clock, newest, missed>>

\* The newest packet arrives twice (with other bytes in between, so that the
\* queue's duplicate check lets it pass).
ArriveAgain(m) ==
  /\ newest[m] >= 0 /\ arrivals < MaxArrivals
  /\ Calculate(clock, m, newest[m] % MODULUS)
  /\ arrivals' = arrivals + 1
  /\ Hear(m)
  /\ UNCHANGED <<clock, newest, skipped, missed>>

\* reset() and reset_stream_state() of the store
StreamReset ==
  /\ MetricsReset
  /\ heard' = [m \in MsgCode |-> None]
  /\ missed' = [m \in MsgCode |-> 0]
  /\ UNCHANGED <<clock, newest, arrivals, skipped>>

StreamPass(d) ==
  /\ clock + d <= MaxClock
  /\ clock' = clock + d
  /\ UNCHANGED <<prev_by_msgcode, loss_by_msgcode, heard, newest, arrivals,
                 skipped, missed>>

StreamNext ==
  \/ \E m \in MsgCode : \E n \in (newest[m] + 1)..(newest[m] + 1 + MaxBurst[m]) :
       Arrive(m, n)
  \/ \E m \in MsgCode : \E n \in skipped[m] : ArriveLate(m, n)
  \/ \E m \in MsgCode : ArriveAgain(m)
  \/ StreamReset
  \/ \E d \in 1..MaxPause : StreamPass(d)

StreamSpec == StreamInit /\ [][StreamNext]_streamVars

-----------------------------------------------------------------------------

StreamTypeOK ==
  /\ MetricsTypeOK
  /\ clock \in Nat
  /\ heard \in [MsgCode -> Int \cup {None}]
  /\ newest \in [MsgCode -> Int]
  /\ arrivals \in Nat
  /\ skipped \in [MsgCode -> SUBSET Int]
  /\ missed \in [MsgCode -> Nat]

\* With packets in order and bursts that the four-bit number can tell (gaps of
\* at most 15), the loss of calculate() is what the stream really lost between
\* the packets received since the last reset, restarts of the stream aside:
\* wrap-around, duplicates, silence, resets and what happens to other message
\* codes add or hide nothing.
LossIsExact == \A m \in MsgCode \ Reordered : loss_by_msgcode[m] = missed[m]

\* Packets that arrive late only ever add to the loss, as long as a late packet
\* and the next new one are at most 15 numbers apart: what the stream really
\* missed is counted, though the gap back to a late packet is read as a gap of
\* up to 15 forward.
LossIsNeverUnderstated ==
  \A m \in Reordered : loss_by_msgcode[m] >= missed[m]
=============================================================================
