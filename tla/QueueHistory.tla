----------------------------- MODULE QueueHistory -----------------------------
(***************************************************************************)
(* The packet queue with the history its promise is about: what was put    *)
(* and which puts reached the processor.  The n-th packet put has capture  *)
(* time n, so that a queued packet names its place in that history.  The   *)
(* history follows the queue's steps and never guides them.                *)
(***************************************************************************)
EXTENDS PacketQueue, FiniteSets

CONSTANT MaxPuts      \* bound on the number of put() calls

ASSUME HistoryAssumption == MaxPuts \in Nat /\ 1..MaxPuts \subseteq Time

VARIABLES offered,    \* the bytes of the packets put, in order
          delivered,  \* the places of the packets get_all() has returned
          taken       \* Len(offered) at the last get_all() or clear()

historyVars == <<queue, last_packet, offered, delivered, taken>>

PlaceOf(q) == [i \in 1..Len(q) |-> q[i].capture_time]

HistoryInit == QueueInit /\ offered = <<>> /\ delivered = <<>> /\ taken = 0

HistoryPut(r) ==
  /\ Len(offered) < MaxPuts
  /\ Put([capture_time |-> Len(offered) + 1, raw_data |-> r])
  /\ offered' = Append(offered, r)
  /\ UNCHANGED <<delivered, taken>>

HistoryGetAll ==
  /\ GetAll
  /\ delivered' = delivered \o PlaceOf(queue)
  /\ taken' = Len(offered)
  /\ UNCHANGED offered

HistoryClear ==
  /\ Clear
  /\ taken' = Len(offered)
  /\ UNCHANGED <<offered, delivered>>

HistoryNext == (\E r \in Raw : HistoryPut(r)) \/ HistoryGetAll \/ HistoryClear

HistorySpec == HistoryInit /\ [][HistoryNext]_historyVars

-----------------------------------------------------------------------------

Fifo == INSTANCE LossyFifo WITH Content <- Raw, Capacity <- MaxSize

\* The queue implements the lossy FIFO: what get_all() returns is exactly the
\* newest MaxSize of the packets put since the last drain, without those that
\* repeat the packet put before them, in the order of their puts - although
\* put() decides on each packet as it comes, and across drains and overflows.
ImplementsLossyFifo == Fifo!Spec
=============================================================================
