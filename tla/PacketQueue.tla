----------------------------- MODULE PacketQueue -----------------------------
(***************************************************************************)
(* pipeline/queue.py: the queue between the sniffer threads (put) and the  *)
(* polling callback (get_all).  Every method runs under the queue's own    *)
(* lock, so every method is one action.  A packet is the tuple             *)
(* (capture_time, raw_data).                                               *)
(***************************************************************************)
EXTENDS BoundedSeq

CONSTANTS Time,       \* capture times
          Raw,        \* raw payloads, compared as bytes
          MaxSize,    \* maxlen of the deque (1000 in the program)
          NoPacket    \* None, the initial _last_packet

Packet == [capture_time : Time, raw_data : Raw]

ASSUME MaxSizeAssumption == MaxSize \in Nat \ {0}
ASSUME NoPacketAssumption == NoPacket \notin Packet

VARIABLES queue,        \* self._queue
          last_packet   \* self._last_packet

queueVars == <<queue, last_packet>>

QueueInit == queue = <<>> /\ last_packet = NoPacket

\* Mutation of IsRepeat: compares the whole tuple, capture time included.
IsRepeatOfTuple(p) == last_packet # NoPacket /\ p = last_packet

\* put() compares the bytes only; the capture time may differ.
IsRepeat(p) == last_packet # NoPacket /\ p.raw_data = last_packet.raw_data

\* Mutation of Put: a full queue refuses the new packet.
PutRefuses(p) ==
  IF IsRepeat(p) \/ Len(queue) = MaxSize THEN UNCHANGED queueVars
  ELSE last_packet' = p /\ queue' = Append(queue, p)

Put(p) ==
  \/ /\ IsRepeat(p)
     /\ UNCHANGED queueVars
  \/ /\ ~IsRepeat(p)
     /\ last_packet' = p
     /\ queue' = AppendBounded(queue, p, MaxSize)

\* get_all() hands the whole queue to its caller and keeps _last_packet.
GetAll == queue' = <<>> /\ UNCHANGED last_packet

\* clear() does the same and hands out nothing.
Clear == queue' = <<>> /\ UNCHANGED last_packet

QueueNext == (\E p \in Packet : Put(p)) \/ GetAll \/ Clear

QueueSpec == QueueInit /\ [][QueueNext]_queueVars

-----------------------------------------------------------------------------

\* The queue holds packets, never more than the deque's maxlen.
QueueTypeOK ==
  /\ queue \in Seq(Packet)
  /\ Len(queue) <= MaxSize
  /\ last_packet \in Packet \cup {NoPacket}

\* No two neighbours of the queue carry the same bytes: the duplicate check of
\* put() sees the last accepted packet even after an overflow has dropped others.
NoRepeatInQueue ==
  \A i \in 1..(Len(queue) - 1) : queue[i].raw_data # queue[i + 1].raw_data

\* The packet put() compares with is the newest packet of the queue, whatever
\* was drained or overwritten before: a drain must not leave it behind.
TailIsLastPacket ==
  queue # <<>> => last_packet # NoPacket /\ queue[Len(queue)] = last_packet
=============================================================================
