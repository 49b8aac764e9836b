------------------------- MODULE ServiceProviderProofs -------------------------
(***************************************************************************)
(* The provider for any number of threads, sniffers and packets, and for   *)
(* every size of the queue.                                                *)
(*                                                                         *)
(* First the program uses the capture service as its specification says,   *)
(* so that what is proved there holds here; then the types and the         *)
(* provider's lock; then the order of the packets, on which the counters   *)
(* and the payload on display rest; at last the way of the packets, which  *)
(* implements TelemetryChannel.                                            *)
(***************************************************************************)
EXTENDS ServiceProvider, BoundedSeqProofs

C == INSTANCE CaptureServiceProofs WITH Caller <- {Service}

-----------------------------------------------------------------------------
(* The capture service in the program *)

LEMMA CallIsCall ==
  ASSUME NEW o \in {"start", "toggle", "direction"}, Capture!Call(Service, o)
  PROVE  C!CaptureNext
<1>1. C!Call(Service, o)
  <2>1. \A S : Capture!Cardinality(S) = C!Cardinality(S)
    BY DEF Capture!Cardinality, C!Cardinality
  <2> QED
    BY <2>1 DEF Capture!Call, C!Call, Capture!serviceVars, C!serviceVars,
                Capture!threadVars, C!threadVars
<1> QED BY <1>1 DEF C!CaptureNext, C!Operation

LEMMA CallerStepIsStep == Capture!CallerStep(Service) => C!CaptureNext
<1>1. Capture!CallerStep(Service) => C!CallerStep(Service)
  BY DEF C!CallerStep, Capture!CallerStep, C!ToggleReads, Capture!ToggleReads,
         C!StartWaits, Capture!StartWaits, C!Start, Capture!Start,
         C!StopWaits, Capture!StopWaits, C!Stop, Capture!Stop,
         C!TurnWaits, Capture!TurnWaits, C!Turn, Capture!Turn,
         C!BeginCleanup, Capture!BeginCleanup, C!CleanedUp, Capture!CleanedUp,
         C!IsRunning, Capture!IsRunning, C!Opposite, Capture!Opposite,
         C!serviceVars, Capture!serviceVars, C!threadVars, Capture!threadVars
<1> QED BY <1>1 DEF C!CaptureNext

LEMMA ThreadStepIsStep ==
  ASSUME NEW s \in Sniffer,
         \/ Capture!ThreadOpens(s) \/ Capture!ThreadFails(s) \/ Capture!ThreadChecks(s)
         \/ Capture!ThreadReceives(s) \/ Capture!ThreadPuts(s)
  PROVE  C!CaptureNext
<1>1. C!ThreadStep(s)
  BY DEF C!ThreadStep, C!ThreadOpens, Capture!ThreadOpens, C!ThreadFails,
         Capture!ThreadFails, C!ThreadChecks, Capture!ThreadChecks, C!ThreadReceives,
         Capture!ThreadReceives, C!ThreadPuts, Capture!ThreadPuts, C!serviceVars,
         Capture!serviceVars
<1> QED BY <1>1 DEF C!CaptureNext, C!Sniffer, Sniffer

\* The steps of a server thread that leave the capture service alone.
QuietStep(t) ==
  \/ BeginUpdate(t) \/ ProcessOne(t) \/ UpdateStats(t) \/ Observe(t)
  \/ Record(t) \/ Build(t) \/ Ask(t) \/ Read(t) \/ Respond(t)
  \/ EndToggle(t) \/ BeginTurn(t) \/ EndTurn(t) \/ ClearStore(t) \/ ClearStats(t)

LEMMA QuietStepIsQuiet ==
  ASSUME NEW t \in Thread, QuietStep(t)
  PROVE  UNCHANGED <<captureVars, held, puts>>
BY DEF QuietStep, BeginUpdate, ProcessOne, UpdateStats, Observe, Record, Build, Ask, Read,
       Respond, EndToggle, BeginTurn, EndTurn, ClearStore, ClearStats, snifferVars

LEMMA StepOfCapture == [ProviderNext]_providerVars => [C!CaptureNext]_(C!captureVars)
<1> SUFFICES ASSUME [ProviderNext]_providerVars PROVE [C!CaptureNext]_(C!captureVars)
  OBVIOUS
<1>0. UNCHANGED captureVars => UNCHANGED C!captureVars
  BY DEF captureVars, C!captureVars
<1>1. CASE Startup
  BY <1>1, CallIsCall DEF Startup
<1>2. CASE CaptureStep
  BY <1>2, CallerStepIsStep, ThreadStepIsStep DEF CaptureStep
<1>3. ASSUME NEW s \in Sniffer, NEW k \in Kind, Receive(s, k) PROVE C!CaptureNext
  BY <1>3, ThreadStepIsStep DEF Receive
<1>4. ASSUME NEW s \in Sniffer, PutHeld(s) PROVE C!CaptureNext
  BY <1>4, ThreadStepIsStep DEF PutHeld
<1>5. ASSUME NEW t \in Thread, Poll(t) \/ \E b \in Button : Press(t, b)
      PROVE  UNCHANGED captureVars
  BY <1>5 DEF Poll, Press, snifferVars
<1>6. ASSUME NEW t \in Thread, ThreadStep(t) PROVE C!CaptureNext \/ UNCHANGED captureVars
  <2>1. CASE QuietStep(t)
    BY <2>1, QuietStepIsQuiet
  <2>2. CASE BeginToggle(t)
    BY <2>2, CallIsCall DEF BeginToggle
  <2>3. CASE TurnResetsStore(t)
    BY <2>3, CallIsCall DEF TurnResetsStore
  <2> QED BY <1>6, <2>1, <2>2, <2>3 DEF ThreadStep, QuietStep
<1>7. CASE Tick
  BY <1>0, <1>7 DEF Tick, snifferVars
<1>8. CASE UNCHANGED providerVars
  BY <1>8 DEF providerVars, C!captureVars
<1> QED
  BY <1>0, <1>1, <1>2, <1>3, <1>4, <1>5, <1>6, <1>7, <1>8 DEF ProviderNext, Thread

\* The program calls the capture service as its specification says; what is proved
\* of the service for any callers therefore holds in the program, where all calls
\* come under the provider's lock.
THEOREM ProviderUsesCapture == ProviderSpec => C!CaptureSteps /\ []C!CaptureInv
<1>1. ProviderInit => C!CaptureInit
  BY DEF ProviderInit, Capture!CaptureInit, C!CaptureInit, Capture!Sniffer, C!Sniffer
<1>2. C!CaptureAssumption
  BY ProviderAssumption DEF C!CaptureAssumption
<1>3. C!CaptureNoneAssumption
  BY ProviderAssumption, StatsNoneAssumption DEF C!CaptureNoneAssumption, Service
<1>4. ProviderSpec => C!CaptureSteps
  BY <1>1, StepOfCapture, PTL DEF ProviderSpec, C!CaptureSteps
<1> QED BY <1>2, <1>3, <1>4, C!CaptureInvHolds, PTL

-----------------------------------------------------------------------------
(* The provider's lock *)

\* Where a thread is that has taken the provider's lock.
Holding == {"process", "observe", "record", "build", "ask", "read",
            "toggling", "reset_store", "turning"}

Place == Holding \cup {"idle", "update", "toggle", "direction", "clear", "clear_stats"}

LockInv ==
  /\ step \in [Thread -> Place]
  /\ \A t \in Thread : step[t] \in Holding => provider_lock = t

\* A thread goes from one place to another.
LEMMA MoveKeepsLock ==
  ASSUME LockInv, NEW t \in Thread, NEW x \in Place, Go(t, x),
         \/ provider_lock = None /\ provider_lock' = t
         \/ provider_lock' = provider_lock /\ (x \in Holding => step[t] \in Holding)
         \/ provider_lock' = None /\ step[t] \in Holding /\ x \notin Holding
  PROVE  LockInv'
<1>1. step' \in [Thread -> Place] /\ step'[t] = x
  BY DEF Go, LockInv
<1>2. ASSUME NEW u \in Thread, step'[u] \in Holding PROVE provider_lock' = u
  <2>1. CASE u # t
    <3>1. step[u] \in Holding /\ provider_lock = u
      BY <1>2, <2>1 DEF Go, LockInv
    <3> QED BY <2>1, <3>1, ProviderAssumption DEF LockInv
  <2>2. CASE u = t
    BY <1>1, <1>2, <2>2 DEF LockInv
  <2> QED BY <2>1, <2>2
<1> QED BY <1>1, <1>2 DEF LockInv

LEMMA LockInit == ProviderInit => LockInv
BY DEF ProviderInit, LockInv, Place, Holding

LEMMA LockNext == LockInv /\ [ProviderNext]_providerVars => LockInv'
<1> SUFFICES ASSUME LockInv, [ProviderNext]_providerVars PROVE LockInv'
  OBVIOUS
<1> USE DEF Holding, Place
<1>0. UNCHANGED <<step, provider_lock>> => LockInv'
  BY DEF LockInv
<1>1. CASE Startup \/ CaptureStep \/ Tick
  BY <1>0, <1>1 DEF Startup, CaptureStep, Tick, threadVars
<1>2. ASSUME NEW s \in Sniffer, PutHeld(s) \/ \E k \in Kind : Receive(s, k) PROVE LockInv'
  BY <1>0, <1>2 DEF PutHeld, Receive, threadVars
<1>3. ASSUME NEW t \in Thread, Poll(t) PROVE LockInv'
  BY <1>3, MoveKeepsLock DEF Poll
<1>4. ASSUME NEW t \in Thread, NEW b \in Button, Press(t, b) PROVE LockInv'
  <2>1. b \in {"toggle", "direction", "clear"}
    BY ProviderAssumption
  <2> QED BY <1>4, <2>1, MoveKeepsLock DEF Press
<1>5. ASSUME NEW t \in Thread, ThreadStep(t) PROVE LockInv'
  <2>1. CASE BeginUpdate(t)
    BY <2>1, MoveKeepsLock DEF BeginUpdate
  <2>2. CASE ProcessOne(t) \/ Read(t)
    BY <1>0, <2>2 DEF ProcessOne, Read
  <2>3. CASE UpdateStats(t)
    BY <2>3, MoveKeepsLock DEF UpdateStats
  <2>4. CASE Observe(t)
    BY <2>4, MoveKeepsLock DEF Observe
  <2>5. CASE Record(t)
    BY <2>5, MoveKeepsLock DEF Record
  <2>6. CASE Build(t)
    <3>1. Go(t, "ask") \/ Go(t, "read")
      BY <2>6 DEF Build
    <3> QED BY <2>6, <3>1, MoveKeepsLock DEF Build
  <2>7. CASE Ask(t)
    BY <2>7, MoveKeepsLock DEF Ask
  <2>8. CASE Respond(t)
    BY <2>8, MoveKeepsLock DEF Respond
  <2>9. CASE BeginToggle(t)
    BY <2>9, MoveKeepsLock DEF BeginToggle
  <2>10. CASE EndToggle(t)
    BY <2>10, MoveKeepsLock DEF EndToggle
  <2>11. CASE BeginTurn(t)
    BY <2>11, MoveKeepsLock DEF BeginTurn
  <2>12. CASE TurnResetsStore(t)
    BY <2>12, MoveKeepsLock DEF TurnResetsStore
  <2>13. CASE EndTurn(t)
    BY <2>13, MoveKeepsLock DEF EndTurn
  <2>14. CASE ClearStore(t)
    BY <2>14, MoveKeepsLock DEF ClearStore
  <2>15. CASE ClearStats(t)
    BY <2>15, MoveKeepsLock DEF ClearStats
  <2> QED
    BY <1>5, <2>1, <2>2, <2>3, <2>4, <2>5, <2>6, <2>7, <2>8, <2>9, <2>10, <2>11, <2>12, <2>13,
       <2>14, <2>15 DEF ThreadStep
<1>6. CASE UNCHANGED providerVars
  BY <1>0, <1>6 DEF providerVars
<1> QED
  BY <1>1, <1>2, <1>3, <1>4, <1>5, <1>6 DEF ProviderNext, Thread

\* At most one thread is anywhere between taking and releasing the lock.
LEMMA OneHolds ==
  ASSUME LockInv, NEW t \in Thread, NEW u \in Thread,
         step[t] \in Holding, step[u] \in Holding
  PROVE  t = u
BY DEF LockInv

-----------------------------------------------------------------------------
(* What the threads, the queue and the store hold *)

Direction == {"status", "control"}
HeldPacket == [direction : Direction, kind : PacketKind]
StoredRecord == [n : Nat, direction : Direction, kind : PacketKind,
                 against : Direction \cup {None}]

\* The queue's side: packets are numbered as they are put.
QueueInv ==
  /\ puts \in Nat
  /\ queue \in Seq(Queue!Packet) /\ Len(queue) <= QueueSize
  /\ last_packet \in Queue!Packet \cup {None}
  /\ last_packet # None => last_packet.raw_data.n <= puts
  /\ held \in [Sniffer -> HeldPacket \cup {None}]
  /\ \A s \in Sniffer : thread[s] = "captured" => held[s] \in HeldPacket

\* The packet a sniffer's thread puts.
NextPacket(s) ==
  [capture_time |-> 0,
   raw_data |-> [n |-> puts + 1, direction |-> held[s].direction, kind |-> held[s].kind]]

\* Its number is new, so that the queue never takes it for a repeat.
LEMMA PutAppends ==
  ASSUME QueueInv, NEW s \in Sniffer, PutHeld(s)
  PROVE  /\ NextPacket(s) \in Queue!Packet
         /\ queue' = AppendBounded(queue, NextPacket(s), QueueSize)
         /\ last_packet' = NextPacket(s) /\ puts' = puts + 1
         /\ held' = [held EXCEPT ![s] = None]
         /\ thread[s] = "captured" /\ thread' = [thread EXCEPT ![s] = "filtering"]
<1>1. thread[s] = "captured" /\ thread' = [thread EXCEPT ![s] = "filtering"]
      /\ puts' = puts + 1 /\ held' = [held EXCEPT ![s] = None]
      /\ Queue!Put(NextPacket(s))
  BY DEF PutHeld, Capture!ThreadPuts, NextPacket
<1>2. held[s] \in HeldPacket /\ puts + 1 \in Nat /\ 0 \in {0}
  BY <1>1 DEF QueueInv
<1>3. NextPacket(s) \in Queue!Packet /\ NextPacket(s).raw_data.n = puts + 1
  <2>1. NextPacket(s).raw_data \in RawPacket
    BY <1>2 DEF NextPacket, RawPacket, HeldPacket, Direction
  <2> QED BY <2>1 DEF NextPacket, Queue!Packet
<1>4. ~Queue!IsRepeat(NextPacket(s))
  <2>1. CASE last_packet = None
    BY <2>1 DEF Queue!IsRepeat
  <2>2. CASE last_packet # None
    <3>1. last_packet.raw_data.n \in Nat /\ last_packet.raw_data.n <= puts
      BY <2>2 DEF QueueInv, Queue!Packet, RawPacket
    <3>2. last_packet.raw_data # NextPacket(s).raw_data
      BY <1>3, <3>1 DEF QueueInv
    <3> QED BY <3>2 DEF Queue!IsRepeat
  <2> QED BY <2>1, <2>2
<1>5. Queue!AppendBounded(queue, NextPacket(s), QueueSize)
        = AppendBounded(queue, NextPacket(s), QueueSize)
  BY DEF Queue!AppendBounded, Queue!LastN, AppendBounded, LastN
<1> QED BY <1>1, <1>3, <1>4, <1>5 DEF Queue!Put

LEMMA QueueInit == ProviderInit => QueueInv
<1>1. Len(<<>>) <= QueueSize
  BY EmptySeq, ProviderAssumption
<1> QED
  BY <1>1 DEF ProviderInit, Queue!QueueInit, Capture!CaptureInit, Capture!Sniffer, Sniffer, QueueInv

LEMMA QueueNext ==
  QueueInv /\ C!CaptureInv /\ [ProviderNext]_providerVars => QueueInv'
<1> SUFFICES ASSUME QueueInv, C!CaptureInv, [ProviderNext]_providerVars PROVE QueueInv'
  OBVIOUS
<1>t. /\ thread \in [Sniffer -> {"none", "opening", "sniffing", "captured", "filtering", "dead"}]
      /\ \A s \in Sniffer : thread[s] # "none" => filter[s] \in Direction
  BY DEF C!CaptureInv, C!CaptureTypeOK, C!NoThreadYet, C!Sniffer, Sniffer, C!Direction, Direction
<1>0. ASSUME UNCHANGED <<puts, held>>,
             queue' \in {queue, <<>>}, last_packet' = last_packet,
             \A s \in Sniffer : thread'[s] = "captured" => thread[s] = "captured"
      PROVE  QueueInv'
  <2>1. queue' \in Seq(Queue!Packet) /\ Len(queue') <= QueueSize
    <3>1. CASE queue' = queue
      BY <3>1 DEF QueueInv
    <3>2. CASE queue' = <<>>
      <4>1. Len(<<>>) <= QueueSize
        BY EmptySeq, ProviderAssumption
      <4> QED BY <3>2, <4>1
    <3> QED BY <1>0, <3>1, <3>2
  <2>2. \A s \in Sniffer : thread'[s] = "captured" => held'[s] \in HeldPacket
    BY <1>0 DEF QueueInv
  <2> QED BY <1>0, <2>1, <2>2 DEF QueueInv
<1>1. ASSUME NEW o, Capture!Call(Service, o) PROVE thread' = thread
  BY <1>1 DEF Capture!Call, Capture!threadVars
<1>2. CASE Startup
  BY <1>0, <1>1, <1>2 DEF Startup
<1>3. CASE CaptureStep
  <2>1. ASSUME NEW s \in Sniffer
        PROVE  thread'[s] = "captured" => thread[s] = "captured"
    <3>1. CASE Capture!CallerStep(Service)
      BY <1>t, <3>1
         DEF Capture!CallerStep, Capture!ToggleReads, Capture!StartWaits, Capture!Start,
             Capture!StopWaits, Capture!Stop, Capture!TurnWaits, Capture!Turn,
             Capture!BeginCleanup, Capture!threadVars
    <3>2. ASSUME NEW r \in Sniffer,
                 Capture!ThreadOpens(r) \/ Capture!ThreadFails(r) \/ Capture!ThreadChecks(r)
          PROVE  thread'[s] = "captured" => thread[s] = "captured"
      BY <1>t, <3>2 DEF Capture!ThreadOpens, Capture!ThreadFails, Capture!ThreadChecks
    <3> QED BY <1>3, <3>1, <3>2 DEF CaptureStep
  <2> QED BY <1>0, <1>3, <2>1 DEF CaptureStep
<1>4. ASSUME NEW s \in Sniffer, NEW k \in Kind, Receive(s, k) PROVE QueueInv'
  <2> DEFINE h == [direction |-> filter[s], kind |-> k]
  <2>1. /\ thread[s] = "sniffing" /\ thread' = [thread EXCEPT ![s] = "captured"]
        /\ held' = [held EXCEPT ![s] = h]
        /\ UNCHANGED <<queue, last_packet, puts>>
    BY <1>4 DEF Receive, Capture!ThreadReceives
  <2>2. h \in HeldPacket
    BY <1>t, <2>1, ProviderAssumption DEF HeldPacket
  <2> HIDE DEF h
  <2> QED BY <1>t, <2>1, <2>2 DEF QueueInv
<1>5. ASSUME NEW s \in Sniffer, PutHeld(s) PROVE QueueInv'
  <2>1. /\ NextPacket(s) \in Queue!Packet
        /\ queue' = AppendBounded(queue, NextPacket(s), QueueSize)
        /\ last_packet' = NextPacket(s) /\ puts' = puts + 1
        /\ held' = [held EXCEPT ![s] = None]
        /\ thread[s] = "captured" /\ thread' = [thread EXCEPT ![s] = "filtering"]
    BY <1>5, PutAppends
  <2>2. queue' \in Seq(Queue!Packet) /\ Len(queue') <= QueueSize
    BY <2>1, ProviderAssumption, AppendBoundedShifts DEF QueueInv, IsShift
  <2>3. NextPacket(s).raw_data.n = puts + 1
    BY DEF NextPacket
  <2> QED BY <1>t, <2>1, <2>2, <2>3 DEF QueueInv
<1>6. ASSUME NEW t \in Thread, Poll(t) \/ \E b \in Button : Press(t, b) PROVE QueueInv'
  BY <1>0, <1>6 DEF Poll, Press, snifferVars, captureVars
<1>7. ASSUME NEW t \in Thread, ThreadStep(t) PROVE QueueInv'
  <2>1. CASE BeginUpdate(t)
    BY <1>0, <2>1 DEF BeginUpdate, Queue!GetAll, captureVars
  <2>2. CASE BeginToggle(t)
    BY <1>0, <1>1, <2>2 DEF BeginToggle
  <2>3. CASE TurnResetsStore(t)
    BY <1>0, <1>1, <2>3 DEF TurnResetsStore
  <2>4. CASE UNCHANGED snifferVars
    BY <1>0, <2>4 DEF snifferVars, captureVars
  <2> QED
    BY <1>7, <2>1, <2>2, <2>3, <2>4
       DEF ThreadStep, ProcessOne, UpdateStats, Observe, Record, Build, Ask, Read, Respond,
           EndToggle, BeginTurn, EndTurn, ClearStore, ClearStats
<1>8. CASE Tick
  BY <1>0, <1>8 DEF Tick, snifferVars, captureVars
<1>9. CASE UNCHANGED providerVars
  BY <1>0, <1>9 DEF providerVars
<1> QED
  BY <1>2, <1>3, <1>4, <1>5, <1>6, <1>7, <1>8, <1>9 DEF ProviderNext, Thread

\* The threads' side: only a thread that processes has packets left and counts
\* that the stats service does not have yet, and only one that reads has read.
Counts == [count : Nat, success_count : Nat, checksum_fail_count : Nat,
           last_payload : Nat \cup {None}]

ThreadInv ==
  /\ todo \in [Thread -> Seq(Queue!Packet)]
  /\ result \in [Thread -> Counts]
  /\ response \in [Thread -> Seq(Nat)]
  /\ \A t \in Thread : todo[t] # <<>> \/ result[t] # NoResult => step[t] = "process"
  /\ \A t \in Thread : response[t] # <<>> => step[t] = "read"

\* The store's side, with the counters of the stats service.
StoreInv ==
  /\ stored \in Seq(StoredRecord)
  /\ remembered \in Direction \cup {None}
  /\ total_packets \in Nat /\ parse_success \in Nat /\ checksum_fail \in Nat
  /\ last_payload \in Nat \cup {None}

LEMMA NoResultTyped == NoResult \in Counts
BY DEF NoResult, Counts

\* The packet in work, and what is made of it.
InWork(t) == Head(todo[t]).raw_data

MadeOf(p) == [n |-> p.n, direction |-> p.direction, kind |-> p.kind, against |-> remembered]

LEMMA ProcessTyped ==
  ASSUME ThreadInv, StoreInv, NEW t \in Thread, ProcessOne(t)
  PROVE  /\ InWork(t) \in RawPacket /\ MadeOf(InWork(t)) \in StoredRecord
         /\ Head(todo[t]) = todo[t][1]
         /\ todo[t] \in Seq(Queue!Packet) /\ Tail(todo[t]) \in Seq(Queue!Packet)
         /\ todo[t] # <<>> /\ step[t] = "process"
         /\ stored' = Append(stored, MadeOf(InWork(t)))
         /\ remembered' = InWork(t).direction
         /\ result' = [result EXCEPT ![t] = Tally(result[t], InWork(t))]
         /\ todo' = [todo EXCEPT ![t] = Tail(todo[t])]
         /\ Overlap(t)
         /\ UNCHANGED <<queue, last_packet, puts, step, total_packets, parse_success,
                        checksum_fail, last_payload, response>>
<1>1. todo[t] \in Seq(Queue!Packet) /\ todo[t] # <<>> /\ result \in [Thread -> Counts]
  BY DEF ProcessOne, ThreadInv
<1>2. /\ Head(todo[t]) = todo[t][1] /\ Head(todo[t]) \in Queue!Packet
      /\ Tail(todo[t]) \in Seq(Queue!Packet)
  BY <1>1, HeadTailProperties
<1>3. InWork(t) \in RawPacket
  BY <1>2 DEF InWork, Queue!Packet
<1>4. MadeOf(InWork(t)) \in StoredRecord
  BY <1>3 DEF MadeOf, RawPacket, StoredRecord, StoreInv, Direction
<1>5. /\ step[t] = "process"
      /\ stored' = Append(stored, MadeOf(InWork(t)))
      /\ remembered' = InWork(t).direction
      /\ todo' = [todo EXCEPT ![t] = Tail(todo[t])]
      /\ Overlap(t)
  BY DEF ProcessOne, Process, InWork, MadeOf
<1>6. result' = [result EXCEPT ![t] = Tally(result[t], InWork(t))]
  BY <1>1 DEF ProcessOne, InWork
<1>7. UNCHANGED <<queue, last_packet, puts, step, total_packets, parse_success,
                  checksum_fail, last_payload, response>>
  BY DEF ProcessOne, snifferVars, statsVars
<1> QED BY <1>1, <1>2, <1>3, <1>4, <1>5, <1>6, <1>7

LEMMA TallyTyped ==
  ASSUME NEW r \in Counts, NEW p \in RawPacket
  PROVE  Tally(r, p) \in Counts /\ Tally(r, p) # NoResult
<1>1. Tally(r, p).count = r.count + 1 /\ r.count \in Nat
  BY DEF Tally, Counts
<1>2. Tally(r, p) \in Counts
  BY DEF Tally, Counts, RawPacket
<1>3. NoResult.count = 0
  BY DEF NoResult
<1> QED BY <1>1, <1>2, <1>3

LEMMA ThreadInit == ProviderInit => ThreadInv
<1>1. <<>> \in Seq(Queue!Packet) /\ <<>> \in Seq(Nat)
  OBVIOUS
<1> QED BY <1>1, NoResultTyped DEF ProviderInit, ThreadInv

\* The newest packet in the store, by number.
LEMMA NewestTyped ==
  ASSUME StoreInv PROVE Newest \in Nat
<1>1. CASE stored = <<>>
  BY <1>1 DEF Newest
<1>2. CASE stored # <<>>
  <2>1. Len(stored) \in 1..Len(stored)
    BY <1>2, EmptySeq, LenProperties DEF StoreInv
  <2>2. stored[Len(stored)] \in StoredRecord
    BY <2>1, ElementOfSeq DEF StoreInv
  <2> QED BY <1>2, <2>2 DEF Newest, Last, StoredRecord
<1> QED BY <1>1, <1>2

LEMMA ThreadNext ==
  LockInv /\ QueueInv /\ StoreInv /\ ThreadInv /\ [ProviderNext]_providerVars => ThreadInv'
<1> SUFFICES ASSUME LockInv, QueueInv, StoreInv, ThreadInv, [ProviderNext]_providerVars
             PROVE  ThreadInv'
  OBVIOUS
<1>0. UNCHANGED <<todo, result, response, step>> => ThreadInv'
  BY DEF ThreadInv
<1>g. ASSUME NEW t \in Thread, NEW x, Go(t, x), UNCHANGED <<todo, result, response>>,
             step[t] \notin {"process", "read"}
      PROVE  ThreadInv'
  BY <1>g DEF Go, LockInv, ThreadInv
<1>1. CASE Startup \/ CaptureStep \/ Tick
  BY <1>0, <1>1 DEF Startup, CaptureStep, Tick, threadVars
<1>2. ASSUME NEW s \in Sniffer, PutHeld(s) \/ \E k \in Kind : Receive(s, k) PROVE ThreadInv'
  BY <1>0, <1>2 DEF PutHeld, Receive, threadVars
<1>3. ASSUME NEW t \in Thread, Poll(t) PROVE ThreadInv'
  BY <1>3, <1>g DEF Poll
<1>4. ASSUME NEW t \in Thread, NEW b \in Button, Press(t, b) PROVE ThreadInv'
  BY <1>4, <1>g DEF Press
<1>5. ASSUME NEW t \in Thread, ThreadStep(t) PROVE ThreadInv'
  <2>1. CASE BeginUpdate(t)
    <3>1. /\ todo' = [todo EXCEPT ![t] = queue] /\ step' = [step EXCEPT ![t] = "process"]
          /\ UNCHANGED <<result, response>> /\ step[t] = "update"
      BY <2>1 DEF BeginUpdate, Go
    <3> QED BY <3>1 DEF LockInv, QueueInv, ThreadInv
  <2>2. CASE ProcessOne(t)
    <3>1. result[t] \in Counts /\ InWork(t) \in RawPacket
      BY <2>2, ProcessTyped DEF ThreadInv
    <3>2. Tally(result[t], InWork(t)) \in Counts
      BY <3>1, TallyTyped
    <3>3. /\ todo' = [todo EXCEPT ![t] = Tail(todo[t])]
          /\ result' = [result EXCEPT ![t] = Tally(result[t], InWork(t))]
          /\ step[t] = "process" /\ UNCHANGED <<step, response>>
          /\ Tail(todo[t]) \in Seq(Queue!Packet)
      BY <2>2, ProcessTyped
    <3> QED BY <3>2, <3>3 DEF ThreadInv
  <2>3. CASE UpdateStats(t)
    <3>1. /\ result' = [result EXCEPT ![t] = NoResult] /\ step' = [step EXCEPT ![t] = "observe"]
          /\ UNCHANGED <<todo, response>> /\ step[t] = "process" /\ todo[t] = <<>>
      BY <2>3 DEF UpdateStats, Go
    <3> QED BY <3>1, NoResultTyped DEF LockInv, ThreadInv
  <2>4. CASE Read(t)
    <3>1. /\ response' = [response EXCEPT ![t] = Append(response[t], Newest)]
          /\ UNCHANGED <<todo, result, step>> /\ step[t] = "read"
      BY <2>4 DEF Read, ThreadInv
    <3>2. Append(response[t], Newest) \in Seq(Nat)
      BY NewestTyped, AppendProperties DEF ThreadInv
    <3> QED BY <3>1, <3>2 DEF ThreadInv
  <2>5. CASE Respond(t)
    <3>1. /\ response' = [response EXCEPT ![t] = <<>>] /\ step' = [step EXCEPT ![t] = "idle"]
          /\ UNCHANGED <<todo, result>> /\ step[t] = "read" /\ <<>> \in Seq(Nat)
      BY <2>5 DEF Respond, Go
    <3> QED BY <3>1 DEF LockInv, ThreadInv
  <2>6. CASE Observe(t) \/ Record(t) \/ Ask(t)
    BY <1>g, <2>6 DEF Observe, Record, Ask
  <2>7. CASE Build(t)
    BY <1>g, <2>7 DEF Build
  <2>8. CASE BeginToggle(t) \/ EndToggle(t) \/ BeginTurn(t) \/ TurnResetsStore(t) \/ EndTurn(t)
    BY <1>g, <2>8 DEF BeginToggle, EndToggle, BeginTurn, TurnResetsStore, EndTurn
  <2>9. CASE ClearStore(t) \/ ClearStats(t)
    BY <1>g, <2>9 DEF ClearStore, ClearStats
  <2> QED
    BY <1>5, <2>1, <2>2, <2>3, <2>4, <2>5, <2>6, <2>7, <2>8, <2>9 DEF ThreadStep
<1>6. CASE UNCHANGED providerVars
  BY <1>0, <1>6 DEF providerVars
<1> QED
  BY <1>1, <1>2, <1>3, <1>4, <1>5, <1>6 DEF ProviderNext, Thread

LEMMA StoreInit == ProviderInit => StoreInv
BY DEF ProviderInit, StatsInit, StoreInv

LEMMA StoreNext == ThreadInv /\ StoreInv /\ [ProviderNext]_providerVars => StoreInv'
<1> SUFFICES ASSUME ThreadInv, StoreInv, [ProviderNext]_providerVars PROVE StoreInv'
  OBVIOUS
<1>0. UNCHANGED <<stored, remembered, countVars, last_payload>> => StoreInv'
  BY DEF StoreInv, countVars
<1>1. CASE Startup \/ CaptureStep \/ Tick
  BY <1>0, <1>1 DEF Startup, CaptureStep, Tick, storeVars, statsVars, countVars
<1>2. ASSUME NEW s \in Sniffer, PutHeld(s) \/ \E k \in Kind : Receive(s, k) PROVE StoreInv'
  BY <1>0, <1>2 DEF PutHeld, Receive, storeVars, statsVars, countVars
<1>3. ASSUME NEW t \in Thread, Poll(t) \/ \E b \in Button : Press(t, b) PROVE StoreInv'
  BY <1>0, <1>3 DEF Poll, Press, storeVars, statsVars, countVars
<1>4. ASSUME NEW t \in Thread, ThreadStep(t) PROVE StoreInv'
  <2>1. CASE ProcessOne(t)
    <3>1. stored' \in Seq(StoredRecord)
      BY <2>1, ProcessTyped, AppendProperties DEF StoreInv
    <3>2. remembered' \in Direction
      BY <2>1, ProcessTyped DEF RawPacket, Direction
    <3>3. UNCHANGED <<total_packets, parse_success, checksum_fail, last_payload>>
      BY <2>1, ProcessTyped
    <3> QED BY <3>1, <3>2, <3>3 DEF StoreInv
  <2>2. CASE UpdateStats(t)
    <3>1. Count(result[t]) /\ Keep(result[t].last_payload) /\ UNCHANGED <<stored, remembered>>
          /\ result[t] \in Counts
      BY <2>2 DEF UpdateStats, Update, storeVars, ThreadInv
    <3>2. /\ result[t].count \in Nat /\ result[t].success_count \in Nat
          /\ result[t].checksum_fail_count \in Nat
          /\ result[t].last_payload \in Nat \cup {None}
      BY <3>1 DEF Counts
    <3>3. total_packets' \in Nat /\ parse_success' \in Nat /\ checksum_fail' \in Nat
      <4>1. /\ total_packets' = total_packets + result[t].count
            /\ parse_success' = parse_success + result[t].success_count
            /\ checksum_fail' = checksum_fail + result[t].checksum_fail_count
        BY <3>1 DEF Count
      <4>2. total_packets \in Nat /\ parse_success \in Nat /\ checksum_fail \in Nat
        BY DEF StoreInv
      <4> QED BY <3>2, <4>1, <4>2
    <3>4. last_payload' \in Nat \cup {None}
      BY <3>1, <3>2 DEF Keep, StoreInv
    <3> QED BY <3>1, <3>3, <3>4 DEF StoreInv
  <2>3. CASE EndToggle(t)
    BY <2>3 DEF EndToggle, statsVars, StoreInv
  <2>4. CASE BeginTurn(t) \/ ClearStats(t)
    BY <2>4 DEF BeginTurn, ClearStats, StatsReset, storeVars, StoreInv
  <2>5. CASE TurnResetsStore(t) \/ ClearStore(t)
    <3>1. stored' = <<>> /\ remembered' = None /\ UNCHANGED statsVars
      BY <2>5 DEF TurnResetsStore, ClearStore, StoreReset
    <3>2. stored' \in Seq(StoredRecord)
      BY <3>1
    <3> QED BY <3>1, <3>2 DEF statsVars, StoreInv
  <2>6. CASE Record(t)
    BY <1>0, <2>6 DEF Record, statsVars, countVars
  <2>7. CASE UNCHANGED <<storeVars, statsVars>>
    BY <1>0, <2>7 DEF storeVars, statsVars, countVars
  <2> QED
    BY <1>4, <2>1, <2>2, <2>3, <2>4, <2>5, <2>6, <2>7
       DEF ThreadStep, BeginUpdate, Observe, Build, Ask, Read, Respond, BeginToggle, EndTurn
<1>5. CASE UNCHANGED providerVars
  BY <1>0, <1>5 DEF providerVars, countVars
<1> QED
  BY <1>1, <1>2, <1>3, <1>4, <1>5 DEF ProviderNext, Thread

-----------------------------------------------------------------------------
(* What a response shows *)

\* What a thread has read so far is what it would read now, unless the store was
\* emptied since.
ResponseInv ==
  \A t \in Thread : \A i \in 1..Len(response[t]) :
    /\ Newest \in {response[t][i], 0}
    /\ \A j \in 1..Len(response[t]) : i < j => response[t][j] \in {response[t][i], 0}

\* While a thread reads, no other thread processes.
LEMMA NobodyProcesses ==
  ASSUME LockInv, ThreadInv, NEW t \in Thread, step[t] \in Holding \ {"read"}, NEW u \in Thread
  PROVE  response[u] = <<>>
BY OneHolds DEF ThreadInv, Holding

LEMMA ResponseNext ==
  LockInv /\ ThreadInv /\ StoreInv /\ ResponseInv /\ [ProviderNext]_providerVars => ResponseInv'
<1> SUFFICES ASSUME LockInv, ThreadInv, StoreInv, ResponseInv, [ProviderNext]_providerVars
             PROVE  ResponseInv'
  OBVIOUS
<1>0. UNCHANGED <<stored, response>> => ResponseInv'
  BY DEF ResponseInv, Newest
<1>1. CASE Startup \/ CaptureStep \/ Tick
  BY <1>0, <1>1 DEF Startup, CaptureStep, Tick, storeVars, threadVars
<1>2. ASSUME NEW s \in Sniffer, PutHeld(s) \/ \E k \in Kind : Receive(s, k) PROVE ResponseInv'
  BY <1>0, <1>2 DEF PutHeld, Receive, storeVars, threadVars
<1>3. ASSUME NEW t \in Thread, Poll(t) \/ \E b \in Button : Press(t, b) PROVE ResponseInv'
  BY <1>0, <1>3 DEF Poll, Press, storeVars
<1>4. ASSUME NEW t \in Thread, ThreadStep(t) PROVE ResponseInv'
  <2>1. CASE ProcessOne(t)
    <3>1. step[t] = "process" /\ response' = response
      BY <2>1, ProcessTyped
    <3>2. \A u \in Thread : response'[u] = <<>>
      BY <3>1, NobodyProcesses DEF Holding
    <3> QED BY <3>2 DEF ResponseInv
  <2>2. CASE TurnResetsStore(t) \/ ClearStore(t)
    <3>1. Newest' = 0 /\ response' = response
      BY <2>2 DEF TurnResetsStore, ClearStore, StoreReset, Newest
    <3> QED BY <3>1 DEF ResponseInv
  <2>3. CASE Read(t)
    <3> DEFINE r == response[t]
               n == Len(response[t])
    <3>1. /\ response' = [response EXCEPT ![t] = Append(r, Newest)] /\ Newest' = Newest
          /\ r \in Seq(Nat) /\ response \in [Thread -> Seq(Nat)] /\ Newest \in Nat
      BY <2>3, NewestTyped DEF Read, ThreadInv, storeVars, Newest
    <3>2. /\ n \in Nat /\ Len(Append(r, Newest)) = n + 1 /\ Append(r, Newest)[n + 1] = Newest
          /\ \A i \in 1..n : Append(r, Newest)[i] = r[i]
      BY <3>1, AppendProperties, LenProperties
    <3>3. \A u \in Thread \ {t} : response'[u] = response[u]
      BY <3>1
    <3>4. Len(response'[t]) = n + 1 /\ response'[t][n + 1] = Newest
          /\ \A i \in 1..n : response'[t][i] = r[i]
      BY <3>1, <3>2
    <3>5. ASSUME NEW i \in 1..(n + 1)
          PROVE  /\ Newest \in {response'[t][i], 0}
                 /\ \A j \in 1..(n + 1) : i < j => response'[t][j] \in {response'[t][i], 0}
      <4>1. CASE i = n + 1
        BY <3>2, <3>4, <4>1
      <4>2. CASE i # n + 1
        <5>1. i \in 1..n
          BY <3>2, <4>2
        <5>2. ASSUME NEW j \in 1..(n + 1), i < j PROVE response'[t][j] \in {response'[t][i], 0}
          <6>1. CASE j = n + 1
            BY <3>4, <5>1, <6>1 DEF ResponseInv
          <6>2. CASE j # n + 1
            <7>1. j \in 1..n
              BY <3>2, <6>2
            <7> QED BY <3>4, <5>1, <5>2, <7>1 DEF ResponseInv
          <6> QED BY <6>1, <6>2
        <5> QED BY <3>4, <5>1, <5>2 DEF ResponseInv
      <4> QED BY <4>1, <4>2
    <3> HIDE DEF n, r
    <3>6. ASSUME NEW u \in Thread, NEW i \in 1..Len(response'[u])
          PROVE  /\ Newest' \in {response'[u][i], 0}
                 /\ \A j \in 1..Len(response'[u]) :
                      i < j => response'[u][j] \in {response'[u][i], 0}
      <4>1. CASE u = t
        <5>1. i \in 1..(n + 1) /\ Len(response'[u]) = n + 1 /\ Newest' = Newest
          BY <3>1, <3>4, <3>6, <4>1
        <5> QED BY <3>5, <4>1, <5>1
      <4>2. CASE u # t
        BY <3>1, <3>3, <3>6, <4>2 DEF ResponseInv
      <4> QED BY <4>1, <4>2
    <3> QED BY <3>6 DEF ResponseInv
  <2>4. CASE Respond(t)
    <3>1. response' = [response EXCEPT ![t] = <<>>] /\ stored' = stored
          /\ response \in [Thread -> Seq(Nat)]
      BY <2>4 DEF Respond, storeVars, ThreadInv
    <3>2. Newest' = Newest /\ \A u \in Thread : response'[u] \in {<<>>, response[u]}
      BY <3>1 DEF Newest
    <3> QED BY <3>2 DEF ResponseInv
  <2>5. CASE UNCHANGED <<stored, response>>
    BY <1>0, <2>5
  <2> QED
    BY <1>4, <2>1, <2>2, <2>3, <2>4, <2>5
       DEF ThreadStep, BeginUpdate, UpdateStats, Observe, Record, Build, Ask, BeginToggle,
           EndToggle, BeginTurn, EndTurn, ClearStats, storeVars
<1>5. CASE UNCHANGED providerVars
  BY <1>0, <1>5 DEF providerVars
<1> QED
  BY <1>1, <1>2, <1>3, <1>4, <1>5 DEF ProviderNext, Thread

ServerInv == LockInv /\ QueueInv /\ ThreadInv /\ StoreInv

\* Types of all that the threads share, and mutual exclusion by the provider's lock,
\* which everything else rests on.
THEOREM ServerInvHolds == ProviderSpec => []ServerInv
<1>1. ProviderInit => ServerInv
  BY LockInit, QueueInit, ThreadInit, StoreInit DEF ServerInv
<1>2. ServerInv /\ C!CaptureInv /\ [ProviderNext]_providerVars => ServerInv'
  BY LockNext, QueueNext, ThreadNext, StoreNext DEF ServerInv
<1> QED BY <1>1, <1>2, ProviderUsesCapture, PTL DEF ProviderSpec

\* However often a response reads the store, it shows one state of it or nothing.
THEOREM ResponseCorrect == ProviderSpec => []ResponseIsOneState
<1>1. ProviderInit => ResponseInv
  BY DEF ProviderInit, ResponseInv
<1>2. ServerInv /\ ResponseInv /\ [ProviderNext]_providerVars => ResponseInv'
  BY ResponseNext DEF ServerInv
<1>3. ResponseInv => ResponseIsOneState
  BY DEF ResponseInv, ResponseIsOneState
<1> QED BY <1>1, <1>2, <1>3, ServerInvHolds, PTL DEF ProviderSpec
-----------------------------------------------------------------------------
(* What a response says of the connection *)

\* Where a thread is while the capture service works for it.
Calling == {"toggling", "turning"}

\* A response that will say connected belongs to a capture that is on: it can only
\* be turned off by a thread that holds the lock, and requests come after startup.
ShowInv ==
  /\ observed \in [Thread -> BOOLEAN]
  /\ \A t \in Thread : observed[t] => step[t] \in {"record", "read"}
  /\ created = 0 => \A t \in Thread : step[t] = "idle"
  /\ pc[Service] # "idle" => created = 0 \/ \E t \in Thread : step[t] \in Calling
  /\ \A t \in Thread :
       step[t] = "ask" \/ (step[t] = "read" /\ observed[t]) => sniffer # None

\* What the capture service does: it turns the capture off only in the middle of
\* an operation.
LEMMA CaptureTurnsOff ==
  ASSUME C!CaptureInv,
         \/ Capture!CallerStep(Service)
         \/ \E s \in Sniffer : \/ Capture!ThreadOpens(s) \/ Capture!ThreadFails(s)
                               \/ Capture!ThreadChecks(s) \/ Capture!ThreadReceives(s)
                               \/ Capture!ThreadPuts(s)
         \/ \E o \in {"start", "toggle", "direction"} : Capture!Call(Service, o)
  PROVE  /\ created' = 0 => created = 0
         /\ sniffer' = None => sniffer = None \/ pc[Service] # "idle"
         /\ \/ Capture!Call(Service, "start") \/ Capture!Call(Service, "toggle")
            \/ Capture!Call(Service, "direction")
            \/ pc'[Service] # "idle" => pc[Service] # "idle" /\ created' = created
<1>t. created \in Nat /\ pc \in [{Service} -> C!Operation \cup C!Joining \cup {"idle", "stop"}]
  BY ProviderAssumption DEF C!CaptureInv, C!CaptureTypeOK
<1>1. CASE Capture!CallerStep(Service)
  <2>1. CASE Capture!Start(Service)
    BY <1>t, <2>1 DEF Capture!Start, Capture!CleanedUp, Capture!threadVars
  <2>2. CASE ~Capture!Start(Service)
    BY <1>t, <1>1, <2>2
       DEF Capture!CallerStep, Capture!ToggleReads, Capture!StartWaits, Capture!StopWaits,
           Capture!Stop, Capture!TurnWaits, Capture!Turn, Capture!BeginCleanup,
           Capture!CleanedUp, Capture!serviceVars, Capture!threadVars
  <2> QED BY <2>1, <2>2
<1>2. ASSUME NEW s \in Sniffer,
             \/ Capture!ThreadOpens(s) \/ Capture!ThreadFails(s) \/ Capture!ThreadChecks(s)
             \/ Capture!ThreadReceives(s) \/ Capture!ThreadPuts(s)
      PROVE  created' = created /\ sniffer' = sniffer /\ pc' = pc
  BY <1>2 DEF Capture!ThreadOpens, Capture!ThreadFails, Capture!ThreadChecks,
              Capture!ThreadReceives, Capture!ThreadPuts, Capture!serviceVars
<1>3. ASSUME NEW o \in {"start", "toggle", "direction"}, Capture!Call(Service, o)
      PROVE  created' = created /\ sniffer' = sniffer
  BY <1>3 DEF Capture!Call, Capture!serviceVars
<1> QED BY <1>1, <1>2, <1>3
LEMMA ShowInit == ProviderInit => ShowInv
BY DEF ProviderInit, Capture!CaptureInit, Service, ShowInv

LEMMA ShowNext ==
  LockInv /\ C!CaptureInv /\ ShowInv /\ [ProviderNext]_providerVars => ShowInv'
<1> SUFFICES ASSUME LockInv, C!CaptureInv, ShowInv, [ProviderNext]_providerVars
             PROVE  ShowInv'
  OBVIOUS
<1> USE DEF Calling, Holding
<1>0. ASSUME UNCHANGED <<created, pc, sniffer>>, NEW t \in Thread, NEW x, Go(t, x),
             \/ /\ observed' = observed
                /\ ~observed[t] \/ x = "read"
                /\ x = "read" => step[t] = "ask"
             \/ /\ observed' = [observed EXCEPT ![t] = FALSE]
             \/ /\ x \in {"record", "read"} /\ \E b \in BOOLEAN : observed' = [observed EXCEPT ![t] = b]
                /\ x = "read" => step[t] = "ask",
             x = "ask" => sniffer # None,
             step[t] \in Calling => pc[Service] = "idle" \/ x \in Calling,
             step[t] # "idle" \/ created # 0
      PROVE  ShowInv'
  BY <1>0 DEF Go, LockInv, ShowInv
<1>1. ASSUME UNCHANGED <<step, observed>>,
             created' = 0 => created = 0,
             sniffer' = None => sniffer = None \/ pc[Service] # "idle",
             \/ created' = 0
             \/ pc'[Service] # "idle" => pc[Service] # "idle" /\ created' = created
      PROVE  ShowInv'
  <2>1. ASSUME NEW t \in Thread, step[t] = "ask" \/ (step[t] = "read" /\ observed[t]),
               sniffer' = None
        PROVE  FALSE
    <3>1. pc[Service] # "idle" /\ sniffer # None
      BY <1>1, <2>1 DEF ShowInv
    <3>2. PICK u \in Thread : step[u] \in Calling
      BY <2>1, <3>1 DEF ShowInv
    <3>3. u = t
      BY <2>1, <3>2, OneHolds
    <3> QED BY <2>1, <3>2, <3>3
  <2> QED BY <1>1, <2>1 DEF ShowInv
<1>2. ASSUME NEW t \in Thread, NEW o \in {"start", "toggle", "direction"},
             Capture!Call(Service, o), NEW x \in Calling, Go(t, x), observed' = observed,
             step[t] \notin {"idle", "record", "read"}
      PROVE  ShowInv'
  <2>1. UNCHANGED <<created, sniffer>>
    BY <1>2 DEF Capture!Call, Capture!serviceVars
  <2> QED BY <1>2, <2>1 DEF Go, LockInv, ShowInv
<1>3. CASE Startup
  <2>1. created' = 0 /\ sniffer' = sniffer
    BY <1>3 DEF Startup, Capture!Call, Capture!serviceVars
  <2> QED BY <1>1, <1>3, <2>1 DEF Startup, threadVars, ShowInv
<1>4. CASE CaptureStep
  <2>1. /\ created' = 0 => created = 0
        /\ sniffer' = None => sniffer = None \/ pc[Service] # "idle"
        /\ pc'[Service] # "idle" => pc[Service] # "idle" /\ created' = created
    <3>1. CASE Capture!CallerStep(Service)
      <4>1. ~Capture!Call(Service, "start") /\ ~Capture!Call(Service, "toggle")
            /\ ~Capture!Call(Service, "direction")
        BY <3>1 DEF Capture!Call, Capture!CallerStep, Capture!ToggleReads, Capture!StartWaits,
                    Capture!Start, Capture!StopWaits, Capture!Stop, Capture!TurnWaits,
                    Capture!Turn, Capture!CleanedUp
      <4> QED BY <3>1, <4>1, CaptureTurnsOff
    <3>2. ASSUME NEW s \in Sniffer,
                 Capture!ThreadOpens(s) \/ Capture!ThreadFails(s) \/ Capture!ThreadChecks(s)
          PROVE  UNCHANGED <<created, sniffer, pc>>
      BY <3>2 DEF Capture!ThreadOpens, Capture!ThreadFails, Capture!ThreadChecks,
                  Capture!serviceVars
    <3> QED BY <1>4, <3>1, <3>2 DEF CaptureStep
  <2> QED BY <1>1, <1>4, <2>1 DEF CaptureStep, threadVars
<1>5. ASSUME NEW s \in Sniffer, PutHeld(s) \/ \E k \in Kind : Receive(s, k) PROVE ShowInv'
  <2>1. UNCHANGED <<created, sniffer, pc, step, observed>>
    BY <1>5 DEF PutHeld, Receive, Capture!ThreadPuts, Capture!ThreadReceives,
                Capture!serviceVars, threadVars
  <2> QED BY <1>1, <2>1
<1>6. ASSUME NEW t \in Thread, Poll(t) PROVE ShowInv'
  <2>1. created # 0 /\ ~observed[t]
    BY <1>6, ProviderAssumption DEF Poll, ShowInv
  <2> QED BY <1>0, <1>6, <2>1 DEF Poll, snifferVars, captureVars
<1>7. ASSUME NEW t \in Thread, NEW b \in Button, Press(t, b) PROVE ShowInv'
  <2>1. created # 0 /\ b \in {"toggle", "direction", "clear"} /\ ~observed[t]
    BY <1>7, ProviderAssumption DEF Press, ShowInv
  <2> QED BY <1>0, <1>7, <2>1 DEF Press, snifferVars, captureVars
<1>8. ASSUME NEW t \in Thread, ThreadStep(t) PROVE ShowInv'
  <2>0. QuietStep(t) => UNCHANGED <<created, sniffer, pc>>
    BY QuietStepIsQuiet DEF captureVars
  <2>1. CASE BeginUpdate(t)
    BY <1>0, <2>0, <2>1 DEF BeginUpdate, QuietStep, ShowInv
  <2>2. CASE ProcessOne(t) \/ Read(t)
    BY <1>1, <2>0, <2>2 DEF ProcessOne, Read, QuietStep
  <2>3. CASE UpdateStats(t)
    BY <1>0, <2>0, <2>3 DEF UpdateStats, QuietStep, ShowInv
  <2>4. CASE Observe(t)
    BY <1>0, <2>0, <2>4 DEF Observe, QuietStep, IsConnected
  <2>5. CASE Record(t)
    BY <1>0, <2>0, <2>5 DEF Record, QuietStep
  <2>6. CASE Build(t)
    BY <2>0, <2>6 DEF Build, Go, QuietStep, Capture!IsRunning, LockInv, ShowInv
  <2>7. CASE Ask(t)
    BY <1>0, <2>0, <2>7 DEF Ask, QuietStep, IsConnected
  <2>8. CASE Respond(t)
    BY <1>0, <2>0, <2>8 DEF Respond, QuietStep
  <2>9. CASE BeginToggle(t)
    BY <1>2, <2>9 DEF BeginToggle
  <2>10. CASE EndToggle(t)
    BY <1>0, <2>0, <2>10 DEF EndToggle, QuietStep, ShowInv
  <2>11. CASE BeginTurn(t)
    BY <1>0, <2>0, <2>11 DEF BeginTurn, QuietStep, ShowInv
  <2>12. CASE TurnResetsStore(t)
    BY <1>2, <2>12 DEF TurnResetsStore
  <2>13. CASE EndTurn(t)
    BY <1>0, <2>0, <2>13 DEF EndTurn, QuietStep, ShowInv
  <2>14. CASE ClearStore(t)
    BY <1>0, <2>0, <2>14 DEF ClearStore, QuietStep, ShowInv
  <2>15. CASE ClearStats(t)
    BY <1>0, <2>0, <2>15 DEF ClearStats, QuietStep, ShowInv
  <2> QED
    BY <1>8, <2>1, <2>2, <2>3, <2>4, <2>5, <2>6, <2>7, <2>8, <2>9, <2>10, <2>11, <2>12, <2>13,
       <2>14, <2>15 DEF ThreadStep
<1>9. CASE Tick
  BY <1>1, <1>9 DEF Tick, snifferVars, captureVars, threadVars
<1>10. CASE UNCHANGED providerVars
  BY <1>1, <1>10 DEF providerVars
<1> QED
  BY <1>3, <1>4, <1>5, <1>6, <1>7, <1>8, <1>9, <1>10 DEF ProviderNext, Thread

\* No response says connected that was built while the capture was being turned off,
\* or after: for any number of threads that poll, toggle and turn at once.
THEOREM OffCorrect == ProviderSpec => OffIsShown
<1>1. ServerInv /\ C!CaptureInv /\ ShowInv /\ [ProviderNext]_providerVars => ShowInv'
  BY ShowNext DEF ServerInv
<1>2. LockInv /\ ShowInv /\ [ProviderNext]_providerVars
        => [shown # TRUE /\ shown' = TRUE => sniffer # None]_shown
  <2> SUFFICES ASSUME LockInv, ShowInv, [ProviderNext]_providerVars, shown' # shown,
                      shown' = TRUE
               PROVE  sniffer # None
    OBVIOUS
  <2>1. PICK t \in Thread : ThreadStep(t)
    BY DEF ProviderNext, Startup, CaptureStep, Receive, PutHeld, Poll, Press, Tick, threadVars,
           providerVars
  <2>2. Respond(t)
    BY <2>1, ProviderAssumption
       DEF ThreadStep, BeginUpdate, ProcessOne, UpdateStats, Observe, Record, Build, Ask, Read,
           BeginToggle, EndToggle, BeginTurn, TurnResetsStore, EndTurn, ClearStore, ClearStats
  <2> QED BY <2>2 DEF Respond, ShowInv
<1> QED
  BY <1>1, <1>2, ShowInit, ServerInvHolds, ProviderUsesCapture, PTL
     DEF ProviderSpec, OffIsShown, ServerInv
-----------------------------------------------------------------------------
(* The order of the packets *)

\* The numbers of the packets in a batch or in the queue.
Rising(q) == \A i, j \in 1..Len(q) : i < j => q[i].raw_data.n < q[j].raw_data.n
Above(n, q) == \A i \in 1..Len(q) : n < q[i].raw_data.n
UpTo(n, q) == \A i \in 1..Len(q) : q[i].raw_data.n <= n

\* What is stored was put before what a thread has left of its batch, and that
\* before what waits in the queue.
OrderInv ==
  /\ Rising(queue) /\ UpTo(puts, queue)
  /\ \A t \in Thread : /\ Rising(todo[t]) /\ UpTo(puts, todo[t])
                       /\ \A i \in 1..Len(todo[t]) : Above(todo[t][i].raw_data.n, queue)
  /\ \A i \in 1..Len(stored) : /\ stored[i].n <= puts /\ Above(stored[i].n, queue)
                               /\ \A t \in Thread : Above(stored[i].n, todo[t])
                               /\ \A j \in 1..Len(stored) : i < j => stored[i].n < stored[j].n

LEMMA NumberTyped ==
  ASSUME NEW q \in Seq(Queue!Packet), NEW i \in 1..Len(q)
  PROVE  q[i].raw_data.n \in Nat /\ q[i].raw_data \in RawPacket
<1>1. q[i] \in Queue!Packet
  BY ElementOfSeq
<1> QED BY <1>1 DEF Queue!Packet, RawPacket

\* Of what a bounded queue held, the rest is as it was.
LEMMA PutKeepsOrder ==
  ASSUME NEW q \in Seq(Queue!Packet), NEW e \in Queue!Packet, NEW m \in Nat,
         Rising(q), UpTo(m, q), e.raw_data.n = m + 1
  PROVE  LET r == AppendBounded(q, e, QueueSize)
         IN /\ Rising(r) /\ UpTo(m + 1, r)
            /\ \A n \in Nat : n <= m /\ Above(n, q) => Above(n, r)
<1> DEFINE r == AppendBounded(q, e, QueueSize)
<1>1. r \in Seq(Queue!Packet) /\ IsShift(r, q, e, QueueSize)
  BY ProviderAssumption, AppendBoundedShifts
<1> HIDE DEF r
<1>2. PICK k \in 0..Len(q) : /\ Len(r) = Len(q) + 1 - k
                             /\ \A i \in 1..(Len(r) - 1) : r[i] = q[i + k]
  BY <1>1 DEF IsShift
<1>3. Len(q) \in Nat /\ Len(r) \in Nat /\ r[Len(r)] = e
  BY <1>1, LenProperties DEF IsShift
<1>4. ASSUME NEW i \in 1..Len(r), i # Len(r)
      PROVE  i + k \in 1..Len(q) /\ r[i] = q[i + k] /\ r[i].raw_data.n \in Nat
  <2>1. i \in 1..(Len(r) - 1)
    BY <1>3, <1>4
  <2>2. i + k \in 1..Len(q)
    BY <1>2, <1>3, <2>1
  <2>3. q[i + k].raw_data.n \in Nat
    BY <2>2, NumberTyped
  <2> QED BY <1>2, <2>1, <2>2, <2>3
<1>5. Rising(r)
  <2> SUFFICES ASSUME NEW i \in 1..Len(r), NEW j \in 1..Len(r), i < j
               PROVE  r[i].raw_data.n < r[j].raw_data.n
    BY DEF Rising
  <2>1. i # Len(r)
    BY <1>3
  <2>2. CASE j = Len(r)
    <3>1. r[i].raw_data.n <= m /\ r[i].raw_data.n \in Nat
      BY <1>4, <2>1 DEF UpTo
    <3> QED BY <1>3, <2>2, <3>1
  <2>3. CASE j # Len(r)
    <3>1. i + k < j + k
      BY <1>2
    <3> QED BY <1>4, <2>1, <2>3, <3>1 DEF Rising
  <2> QED BY <2>2, <2>3
<1>6. UpTo(m + 1, r)
  <2> SUFFICES ASSUME NEW i \in 1..Len(r) PROVE r[i].raw_data.n <= m + 1
    BY DEF UpTo
  <2>1. CASE i # Len(r)
    <3>1. r[i].raw_data.n <= m /\ r[i].raw_data.n \in Nat
      BY <1>4, <2>1 DEF UpTo
    <3> QED BY <3>1
  <2> QED BY <1>3, <2>1
<1>7. ASSUME NEW n \in Nat, n <= m, Above(n, q) PROVE Above(n, r)
  <2> SUFFICES ASSUME NEW i \in 1..Len(r) PROVE n < r[i].raw_data.n
    BY DEF Above
  <2>1. CASE i # Len(r)
    BY <1>4, <1>7, <2>1 DEF Above
  <2> QED BY <1>3, <1>7, <2>1
<1> QED BY <1>5, <1>6, <1>7 DEF r

\* A batch of which the first packet is taken.
LEMMA TakeKeepsOrder ==
  ASSUME NEW q \in Seq(Queue!Packet), q # <<>>, Rising(q)
  PROVE  /\ Tail(q) \in Seq(Queue!Packet) /\ 1 \in 1..Len(q) /\ Head(q) = q[1]
         /\ Len(Tail(q)) = Len(q) - 1
         /\ \A i \in 1..Len(Tail(q)) : i + 1 \in 1..Len(q) /\ Tail(q)[i] = q[i + 1]
         /\ Rising(Tail(q)) /\ Above(q[1].raw_data.n, Tail(q))
<1>1. /\ Tail(q) \in Seq(Queue!Packet) /\ Head(q) = q[1] /\ Len(Tail(q)) = Len(q) - 1
      /\ \A i \in 1..Len(Tail(q)) : Tail(q)[i] = q[i + 1]
  BY HeadTailProperties
<1>2. Len(q) \in Nat /\ 1 \in 1..Len(q)
  BY EmptySeq, LenProperties
<1>3. \A i \in 1..Len(Tail(q)) : i + 1 \in 1..Len(q) /\ 1 < i + 1
  BY <1>1, <1>2
<1>4. Above(q[1].raw_data.n, Tail(q))
  BY <1>1, <1>2, <1>3 DEF Above, Rising
<1>5. Rising(Tail(q))
  <2> SUFFICES ASSUME NEW i \in 1..Len(Tail(q)), NEW j \in 1..Len(Tail(q)), i < j
               PROVE  Tail(q)[i].raw_data.n < Tail(q)[j].raw_data.n
    BY DEF Rising
  <2>1. i + 1 < j + 1 /\ i + 1 \in 1..Len(q) /\ j + 1 \in 1..Len(q)
    BY <1>3
  <2> QED BY <1>1, <2>1 DEF Rising
<1> QED BY <1>1, <1>2, <1>3, <1>4, <1>5
LEMMA OrderInit == ProviderInit => OrderInv
<1>1. Len(<<>>) = 0
  BY EmptySeq
<1>2. 1..0 = {}
  OBVIOUS
<1> QED BY <1>1, <1>2 DEF ProviderInit, Queue!QueueInit, OrderInv, Rising, UpTo, Above

LEMMA OrderNext == ServerInv /\ OrderInv /\ [ProviderNext]_providerVars => OrderInv'
<1> SUFFICES ASSUME ServerInv, OrderInv, [ProviderNext]_providerVars PROVE OrderInv'
  OBVIOUS
<1>e. Len(<<>>) = 0 /\ 1..0 = {}
  BY EmptySeq
<1>t. /\ queue \in Seq(Queue!Packet) /\ puts \in Nat
      /\ todo \in [Thread -> Seq(Queue!Packet)] /\ stored \in Seq(StoredRecord)
  BY DEF ServerInv, QueueInv, ThreadInv, StoreInv
<1>n. /\ \A i \in 1..Len(stored) : stored[i].n \in Nat
      /\ \A t \in Thread : \A i \in 1..Len(todo[t]) : todo[t][i].raw_data.n \in Nat
  <2>1. \A i \in 1..Len(stored) : stored[i] \in StoredRecord
    BY <1>t, ElementOfSeq
  <2>2. \A t \in Thread : \A i \in 1..Len(todo[t]) : todo[t][i].raw_data.n \in Nat
    BY <1>t, NumberTyped
  <2> QED BY <2>1, <2>2 DEF StoredRecord
<1>0. UNCHANGED <<queue, puts, todo, stored>> => OrderInv'
  BY DEF OrderInv, Rising, UpTo, Above
<1>1. CASE Startup \/ CaptureStep \/ Tick
  BY <1>0, <1>1 DEF Startup, CaptureStep, Tick, snifferVars, storeVars, threadVars
<1>2. ASSUME NEW s \in Sniffer, NEW k \in Kind, Receive(s, k) PROVE OrderInv'
  BY <1>0, <1>2 DEF Receive, storeVars, threadVars
<1>3. ASSUME NEW s \in Sniffer, PutHeld(s) PROVE OrderInv'
  <2>1. /\ queue' = AppendBounded(queue, NextPacket(s), QueueSize) /\ puts' = puts + 1
        /\ NextPacket(s) \in Queue!Packet /\ NextPacket(s).raw_data.n = puts + 1
        /\ UNCHANGED <<todo, stored>>
    BY <1>3, PutAppends DEF ServerInv, NextPacket, PutHeld, storeVars, threadVars
  <2>2. Rising(queue) /\ UpTo(puts, queue)
    BY DEF OrderInv
  <2>3. /\ Rising(queue') /\ UpTo(puts + 1, queue')
        /\ \A n \in Nat : n <= puts /\ Above(n, queue) => Above(n, queue')
    BY <1>t, <2>1, <2>2, PutKeepsOrder
  <2>4. ASSUME NEW t \in Thread
        PROVE  /\ Rising(todo[t]) /\ UpTo(puts + 1, todo[t])
               /\ \A i \in 1..Len(todo[t]) : Above(todo[t][i].raw_data.n, queue')
    <3>1. ASSUME NEW i \in 1..Len(todo[t])
          PROVE  todo[t][i].raw_data.n <= puts /\ Above(todo[t][i].raw_data.n, queue)
      BY DEF OrderInv, UpTo
    <3> QED BY <1>t, <1>n, <2>3, <3>1 DEF OrderInv, UpTo
  <2>5. ASSUME NEW i \in 1..Len(stored)
        PROVE  /\ stored[i].n <= puts + 1 /\ Above(stored[i].n, queue')
               /\ \A t \in Thread : Above(stored[i].n, todo[t])
               /\ \A j \in 1..Len(stored) : i < j => stored[i].n < stored[j].n
    BY <1>t, <1>n, <2>3 DEF OrderInv
  <2> QED BY <2>1, <2>3, <2>4, <2>5 DEF OrderInv, Rising, UpTo, Above
<1>4. ASSUME NEW t \in Thread, Poll(t) \/ \E b \in Button : Press(t, b) PROVE OrderInv'
  BY <1>0, <1>4 DEF Poll, Press, snifferVars, storeVars
<1>5. ASSUME NEW t \in Thread, ThreadStep(t) PROVE OrderInv'
  <2>1. CASE BeginUpdate(t)
    <3>1. /\ todo' = [todo EXCEPT ![t] = queue] /\ queue' = <<>> /\ UNCHANGED <<puts, stored>>
      BY <2>1 DEF BeginUpdate, Queue!GetAll, storeVars
    <3>2. Rising(queue') /\ UpTo(puts, queue') /\ \A n : Above(n, queue')
      BY <1>e, <3>1 DEF Rising, UpTo, Above
    <3>3. \A u \in Thread : todo'[u] = IF u = t THEN queue ELSE todo[u]
      BY <1>t, <3>1
    <3>4. ASSUME NEW u \in Thread
          PROVE  /\ Rising(todo'[u]) /\ UpTo(puts, todo'[u])
                 /\ \A i \in 1..Len(todo'[u]) : Above(todo'[u][i].raw_data.n, queue')
      BY <3>2, <3>3 DEF OrderInv
    <3>5. \A i \in 1..Len(stored), u \in Thread : Above(stored[i].n, todo'[u])
      BY <3>3 DEF OrderInv
    <3> QED BY <3>1, <3>2, <3>4, <3>5 DEF OrderInv, Rising, UpTo, Above
  <2>2. CASE ProcessOne(t)
    <3> DEFINE p == InWork(t)
               q == todo[t]
    <3>1. /\ q \in Seq(Queue!Packet) /\ q # <<>> /\ step[t] = "process"
          /\ stored' = Append(stored, MadeOf(p)) /\ MadeOf(p) \in StoredRecord
          /\ todo' = [todo EXCEPT ![t] = Tail(q)] /\ UNCHANGED <<queue, puts>>
      BY <2>2, ProcessTyped DEF ServerInv
    <3>2. /\ 1 \in 1..Len(q) /\ Head(q) = q[1]
          /\ \A i \in 1..Len(Tail(q)) : i + 1 \in 1..Len(q) /\ Tail(q)[i] = q[i + 1]
          /\ Rising(Tail(q)) /\ Above(q[1].raw_data.n, Tail(q))
      BY <3>1, TakeKeepsOrder DEF OrderInv
    <3>3. MadeOf(p).n = q[1].raw_data.n
      BY <3>2 DEF InWork, MadeOf
    <3>4. \A u \in Thread : todo'[u] = IF u = t THEN Tail(q) ELSE todo[u]
      BY <1>t, <3>1
    <3>5. \A u \in Thread \ {t} : todo[u] = <<>>
      BY <3>1, OneHolds DEF ServerInv, ThreadInv, Holding
    <3>6. \A n : \A u \in Thread \ {t} : Above(n, todo'[u])
      BY <1>e, <3>4, <3>5 DEF Above
    <3>7. ASSUME NEW u \in Thread
          PROVE  /\ Rising(todo'[u]) /\ UpTo(puts, todo'[u])
                 /\ \A i \in 1..Len(todo'[u]) : Above(todo'[u][i].raw_data.n, queue)
      <4>1. CASE u # t
        BY <3>4, <4>1 DEF OrderInv
      <4>2. CASE u = t
        <5>1. \A i \in 1..Len(q) : q[i].raw_data.n <= puts /\ Above(q[i].raw_data.n, queue)
          BY DEF OrderInv, UpTo
        <5>2. \A i \in 1..Len(Tail(q)) : /\ Tail(q)[i].raw_data.n <= puts
                                         /\ Above(Tail(q)[i].raw_data.n, queue)
          BY <3>2, <5>1
        <5>3. todo'[u] = Tail(q)
          BY <3>4, <4>2
        <5> QED BY <3>2, <5>2, <5>3 DEF UpTo
      <4> QED BY <4>1, <4>2
    <3>8. /\ Len(stored') = Len(stored) + 1 /\ stored'[Len(stored) + 1] = MadeOf(p)
          /\ \A i \in 1..Len(stored) : stored'[i] = stored[i]
          /\ Len(stored) \in Nat
      BY <1>t, <3>1, AppendProperties, LenProperties
    <3>9. ASSUME NEW i \in 1..Len(stored')
          PROVE  /\ stored'[i].n <= puts /\ Above(stored'[i].n, queue)
                 /\ \A u \in Thread : Above(stored'[i].n, todo'[u])
      <4>1. CASE i = Len(stored) + 1
        <5>1. stored'[i].n = q[1].raw_data.n
          BY <3>3, <3>8, <4>1
        <5>2. q[1].raw_data.n <= puts /\ Above(q[1].raw_data.n, queue)
          BY <3>2 DEF OrderInv, UpTo
        <5>3. \A u \in Thread : Above(q[1].raw_data.n, todo'[u])
          BY <3>2, <3>4, <3>6
        <5> QED BY <5>1, <5>2, <5>3
      <4>2. CASE i # Len(stored) + 1
        <5>1. i \in 1..Len(stored) /\ stored'[i] = stored[i]
          BY <3>8, <4>2
        <5>2. Above(stored[i].n, Tail(q))
          <6>1. Above(stored[i].n, q)
            BY <5>1 DEF OrderInv
          <6> QED BY <3>2, <6>1 DEF Above
        <5>3. \A u \in Thread : Above(stored[i].n, todo'[u])
          BY <3>4, <3>6, <5>2
        <5> QED BY <5>1, <5>3 DEF OrderInv
      <4> QED BY <4>1, <4>2
    <3>10. Rising(queue) /\ UpTo(puts, queue)
      BY DEF OrderInv
    <3>11. ASSUME NEW i \in 1..Len(stored'), NEW j \in 1..Len(stored'), i < j
           PROVE  stored'[i].n < stored'[j].n
      <4>1. i \in 1..Len(stored) /\ stored'[i] = stored[i]
        BY <3>8, <3>11
      <4>2. CASE j = Len(stored) + 1
        <5>1. stored'[j].n = q[1].raw_data.n
          BY <3>3, <3>8, <4>2
        <5>2. stored[i].n < q[1].raw_data.n
          BY <3>2, <4>1 DEF OrderInv, Above
        <5> QED BY <4>1, <5>1, <5>2
      <4>3. CASE j # Len(stored) + 1
        <5>1. j \in 1..Len(stored) /\ stored'[j] = stored[j]
          BY <3>8, <4>3
        <5> QED BY <3>11, <4>1, <5>1 DEF OrderInv
      <4> QED BY <4>2, <4>3
    <3> HIDE DEF p, q
    <3>12. Rising(queue') /\ UpTo(puts', queue')
      BY <3>1, <3>10
    <3>13. \A u \in Thread : /\ Rising(todo'[u]) /\ UpTo(puts', todo'[u])
                             /\ \A i \in 1..Len(todo'[u]) : Above(todo'[u][i].raw_data.n, queue')
      BY <3>1, <3>7
    <3>14. \A i \in 1..Len(stored') : /\ stored'[i].n <= puts' /\ Above(stored'[i].n, queue')
                                      /\ \A u \in Thread : Above(stored'[i].n, todo'[u])
                                      /\ \A j \in 1..Len(stored') : i < j => stored'[i].n < stored'[j].n
      BY <3>1, <3>9, <3>11
    <3> QED BY <3>12, <3>13, <3>14 DEF OrderInv, Rising, UpTo, Above
  <2>3. CASE TurnResetsStore(t) \/ ClearStore(t)
    <3>1. stored' = <<>> /\ UNCHANGED <<queue, puts, todo>>
      BY <2>3 DEF TurnResetsStore, ClearStore, StoreReset, snifferVars
    <3> QED BY <1>e, <3>1 DEF OrderInv, Rising, UpTo, Above
  <2>4. CASE UNCHANGED <<queue, puts, todo, stored>>
    BY <1>0, <2>4
  <2> QED
    BY <1>5, <2>1, <2>2, <2>3, <2>4
       DEF ThreadStep, UpdateStats, Observe, Record, Build, Ask, Read, Respond, BeginToggle,
           EndToggle, BeginTurn, EndTurn, ClearStats, snifferVars, storeVars
<1>6. CASE UNCHANGED providerVars
  BY <1>0, <1>6 DEF providerVars
<1> QED
  BY <1>1, <1>2, <1>3, <1>4, <1>5, <1>6 DEF ProviderNext, Thread
-----------------------------------------------------------------------------
(* The counters and the payload on display *)

\* What StatsMatchStore compares, as functions of results and records.
InFlightIn(r) ==
  LET busy == {t \in Thread : r[t] # NoResult}
  IN IF busy = {} THEN NoResult ELSE r[CHOOSE t \in busy : TRUE]

OfKind(s, kinds) == {i \in 1..Len(s) : s[i].kind \in kinds}

PayloadsIn(s) == {s[i].n : i \in {j \in 1..Len(s) : s[j].kind # "short"}}

PayloadIn(s) == IF PayloadsIn(s) = {} THEN None ELSE Max(PayloadsIn(s))

\* The counters n, ok and bad and a payload match the records s, with a result r
\* that is still to be counted.
Matches(n, ok, bad, payload, r, s) ==
  /\ n + r.count = Len(s)
  /\ ok + r.success_count = Cardinality(OfKind(s, {"damaged", "sound"}))
  /\ bad + r.checksum_fail_count = Cardinality(OfKind(s, {"short", "damaged"}))
  /\ (IF r.last_payload # None THEN r.last_payload ELSE payload) = PayloadIn(s)

StatsMatch ==
  Matches(total_packets, parse_success, checksum_fail, last_payload, InFlightIn(result), stored)

\* Between the two resets of a turn the counters are zero and nothing is on its way
\* to them, whatever a clear does meanwhile: this is why every turn puts right what
\* a clear left behind.
TurnInv ==
  (\E t \in Thread : step[t] = "reset_store") =>
    /\ total_packets = 0 /\ parse_success = 0 /\ checksum_fail = 0
    /\ last_payload = None /\ \A t \in Thread : result[t] = NoResult

\* While nobody is between two resets, all matches; between those of a clear the
\* store is empty.
StatsInv ==
  /\ overlapped \in BOOLEAN
  /\ ~overlapped =>
       /\ (\E t \in Thread : step[t] = "clear_stats") =>
            stored = <<>> /\ \A t \in Thread : result[t] = NoResult
       /\ (\A t \in Thread : step[t] \notin {"reset_store", "clear_stats"}) => StatsMatch

LEMMA InFlightIsOne ==
  ASSUME NEW r, NEW t \in Thread, \A u \in Thread \ {t} : r[u] = NoResult
  PROVE  InFlightIn(r) = r[t]
<1> DEFINE busy == {u \in Thread : r[u] # NoResult}
<1>1. CASE busy = {}
  BY <1>1 DEF InFlightIn
<1>2. CASE busy # {}
  <2>1. busy = {t}
    BY <1>2
  <2> HIDE DEF busy
  <2>2. (CHOOSE u \in busy : TRUE) = t
    BY <2>1
  <2> QED BY <1>2, <2>2 DEF InFlightIn, busy
<1> QED BY <1>1, <1>2

LEMMA InFlightIsNone ==
  ASSUME NEW r, \A u \in Thread : r[u] = NoResult
  PROVE  InFlightIn(r) = NoResult
BY DEF InFlightIn

\* A record more of its kind.
LEMMA KindGrows ==
  ASSUME NEW s \in Seq(StoredRecord), NEW e \in StoredRecord, NEW kinds
  PROVE  /\ Cardinality(OfKind(s, kinds)) \in Nat
         /\ Cardinality(OfKind(Append(s, e), kinds))
              = Cardinality(OfKind(s, kinds)) + (IF e.kind \in kinds THEN 1 ELSE 0)
<1> DEFINE n == Len(s)
           a == Append(s, e)
<1>1. /\ n \in Nat /\ Len(a) = n + 1 /\ a[n + 1] = e
      /\ \A i \in 1..n : a[i] = s[i]
  BY AppendProperties, LenProperties
<1> HIDE DEF a, n
<1>2. Len(s) = n
  BY DEF n
<1>3. IsFiniteSet(OfKind(s, kinds)) /\ n + 1 \notin OfKind(s, kinds)
  <2>1. n + 1 \notin 1..n /\ IsFiniteSet(1..n)
    BY <1>1, FS_Interval
  <2> QED BY <1>2, <2>1, FS_Subset DEF OfKind
<1>4. Cardinality(OfKind(s, kinds)) \in Nat
  BY <1>3, FS_CardinalityType
<1>5. 1..(n + 1) = (1..n) \cup {n + 1}
  BY <1>1
<1>6. CASE e.kind \in kinds
  <2>1. OfKind(a, kinds) = OfKind(s, kinds) \cup {n + 1}
    BY <1>1, <1>2, <1>5, <1>6 DEF OfKind
  <2> QED BY <1>3, <1>4, <1>6, <2>1, FS_AddElement DEF a
<1>7. CASE e.kind \notin kinds
  <2>1. OfKind(a, kinds) = OfKind(s, kinds)
    BY <1>1, <1>2, <1>5, <1>7 DEF OfKind
  <2> QED BY <1>4, <1>7, <2>1 DEF a
<1> QED BY <1>4, <1>6, <1>7

\* The newest record with a payload is the one added last, if it has one.
LEMMA PayloadGrows ==
  ASSUME NEW s \in Seq(StoredRecord), NEW e \in StoredRecord,
         \A i \in 1..Len(s) : s[i].n < e.n
  PROVE  PayloadIn(Append(s, e)) = IF e.kind # "short" THEN e.n ELSE PayloadIn(s)
<1> DEFINE n == Len(s)
           a == Append(s, e)
<1>1. /\ n \in Nat /\ Len(a) = n + 1 /\ a[n + 1] = e
      /\ \A i \in 1..n : a[i] = s[i]
  BY AppendProperties, LenProperties
<1>2. \A i \in 1..n : s[i].n \in Nat
  <2>1. \A i \in 1..n : s[i] \in StoredRecord
    BY ElementOfSeq
  <2> HIDE DEF n
  <2> QED BY <2>1 DEF StoredRecord
<1> HIDE DEF a, n
<1>3. Len(s) = n /\ \A i \in 1..n : s[i].n < e.n
  BY DEF n
<1>4. 1..(n + 1) = (1..n) \cup {n + 1}
  BY <1>1
<1>5. CASE e.kind # "short"
  <2>1. PayloadsIn(a) = PayloadsIn(s) \cup {e.n}
    BY <1>1, <1>3, <1>4, <1>5 DEF PayloadsIn
  <2>2. \A x \in PayloadsIn(s) : x \in Nat /\ x < e.n
    BY <1>2, <1>3 DEF PayloadsIn
  <2>3. e.n \in Nat
    BY DEF StoredRecord
  <2> DEFINE S == PayloadsIn(a)
  <2>4. e.n \in S /\ \A y \in S : e.n >= y /\ y \in Nat
    BY <2>1, <2>2, <2>3
  <2> HIDE DEF S
  <2>5. Max(S) = e.n
    <3>1. \A x \in S : (\A y \in S : x >= y) => x = e.n
      BY <2>3, <2>4
    <3> QED BY <2>4, <3>1 DEF Max
  <2> QED BY <1>5, <2>4, <2>5 DEF PayloadIn, S, a
<1>6. CASE e.kind = "short"
  <2>1. PayloadsIn(a) = PayloadsIn(s)
    BY <1>1, <1>3, <1>4, <1>6 DEF PayloadsIn
  <2> QED BY <1>6, <2>1 DEF PayloadIn, a
<1> QED BY <1>5, <1>6

LEMMA EmptyMatches == Matches(0, 0, 0, None, NoResult, <<>>)
<1>1. Len(<<>>) = 0 /\ 1..0 = {}
  BY EmptySeq
<1>2. \A kinds : OfKind(<<>>, kinds) = {}
  BY <1>1 DEF OfKind
<1>3. PayloadsIn(<<>>) = {}
  BY <1>1 DEF PayloadsIn
<1>4. Cardinality({}) = 0
  BY FS_EmptySet
<1>5. /\ NoResult.count = 0 /\ NoResult.success_count = 0
      /\ NoResult.checksum_fail_count = 0 /\ NoResult.last_payload = None
  BY DEF NoResult
<1>6. PayloadIn(<<>>) = None
  BY <1>3 DEF PayloadIn
<1>7. \A kinds : Cardinality(OfKind(<<>>, kinds)) = 0
  BY <1>2, <1>4
<1> QED BY <1>1, <1>5, <1>6, <1>7 DEF Matches

\* A packet that is stored and counted in the result.
LEMMA TallyMatches ==
  ASSUME NEW n \in Nat, NEW ok \in Nat, NEW bad \in Nat, NEW payload \in Nat \cup {None},
         NEW r \in Counts, NEW s \in Seq(StoredRecord), Matches(n, ok, bad, payload, r, s),
         NEW p \in RawPacket, NEW e \in StoredRecord, e.n = p.n, e.kind = p.kind,
         \A i \in 1..Len(s) : s[i].n < p.n
  PROVE  Matches(n, ok, bad, payload, Tally(r, p), Append(s, e))
<1>1. /\ r.count \in Nat /\ r.success_count \in Nat /\ r.checksum_fail_count \in Nat
      /\ p.kind \in PacketKind /\ p.n \in Nat
  BY DEF Counts, RawPacket
<1>2. /\ Tally(r, p).count = r.count + 1
      /\ Tally(r, p).success_count = r.success_count + (IF p.kind # "short" THEN 1 ELSE 0)
      /\ Tally(r, p).checksum_fail_count
           = r.checksum_fail_count + (IF p.kind # "sound" THEN 1 ELSE 0)
      /\ Tally(r, p).last_payload = IF p.kind # "short" THEN p.n ELSE r.last_payload
  BY DEF Tally
<1>3. Len(Append(s, e)) = Len(s) + 1 /\ Len(s) \in Nat
  BY AppendProperties, LenProperties
<1>4. n + Tally(r, p).count = Len(Append(s, e))
  <2>1. n + r.count = Len(s) /\ n \in Nat
    BY DEF Matches
  <2>2. Tally(r, p).count = r.count + 1 /\ r.count \in Nat
    BY <1>1, <1>2
  <2>3. Len(Append(s, e)) = Len(s) + 1
    BY <1>3
  <2> DEFINE a == Tally(r, p).count
             b == Len(Append(s, e))
             c == r.count
             l == Len(s)
  <2> HIDE DEF a, b, c, l
  <2>4. n + c = l /\ n \in Nat /\ a = c + 1 /\ c \in Nat /\ b = l + 1
    BY <2>1, <2>2, <2>3, Zenon DEF a, b, c, l
  <2>5. n + a = b
    BY <2>4
  <2> QED BY <2>5, Zenon DEF a, b
<1>5. ok + Tally(r, p).success_count = Cardinality(OfKind(Append(s, e), {"damaged", "sound"}))
  <2>1. Cardinality(OfKind(Append(s, e), {"damaged", "sound"}))
          = ok + r.success_count + (IF e.kind \in {"damaged", "sound"} THEN 1 ELSE 0)
    BY KindGrows DEF Matches
  <2>2. e.kind \in {"damaged", "sound"} <=> p.kind # "short"
    BY <1>1 DEF PacketKind
  <2> QED BY <1>1, <1>2, <2>1, <2>2
<1>6. bad + Tally(r, p).checksum_fail_count
        = Cardinality(OfKind(Append(s, e), {"short", "damaged"}))
  <2>1. Cardinality(OfKind(Append(s, e), {"short", "damaged"}))
          = bad + r.checksum_fail_count + (IF e.kind \in {"short", "damaged"} THEN 1 ELSE 0)
    BY KindGrows DEF Matches
  <2>2. e.kind \in {"short", "damaged"} <=> p.kind # "sound"
    BY <1>1 DEF PacketKind
  <2> QED BY <1>1, <1>2, <2>1, <2>2
<1>7. (IF Tally(r, p).last_payload # None THEN Tally(r, p).last_payload ELSE payload)
        = PayloadIn(Append(s, e))
  <2>1. PayloadIn(Append(s, e)) = IF p.kind # "short" THEN p.n ELSE PayloadIn(s)
    BY PayloadGrows
  <2>2. p.n # None
    BY <1>1, StatsNoneAssumption
  <2> QED BY <1>2, <2>1, <2>2 DEF Matches
<1> QED BY <1>4, <1>5, <1>6, <1>7 DEF Matches

\* A result that is counted.
LEMMA UpdateMatches ==
  ASSUME NEW n \in Nat, NEW ok \in Nat, NEW bad \in Nat, NEW payload,
         NEW r \in Counts, NEW s, Matches(n, ok, bad, payload, r, s)
  PROVE  Matches(n + r.count, ok + r.success_count, bad + r.checksum_fail_count,
                 IF r.last_payload # None THEN r.last_payload ELSE payload, NoResult, s)
BY DEF Matches, NoResult, Counts
LEMMA StatsInvInit == ProviderInit => StatsInv
<1> SUFFICES ASSUME ProviderInit PROVE StatsInv
  OBVIOUS
<1>1. InFlightIn(result) = NoResult
  BY InFlightIsNone DEF ProviderInit
<1>2. StatsMatch
  BY <1>1, EmptyMatches DEF ProviderInit, StatsInit, StatsMatch
<1> QED BY <1>2 DEF ProviderInit, StatsInv

\* While a thread processes, the result in flight is its own.
LEMMA InFlightIsItsOwn ==
  ASSUME LockInv, ThreadInv, NEW t \in Thread, step[t] = "process"
  PROVE  /\ InFlightIn(result) = result[t]
         /\ \A u \in Thread \ {t} : result[u] = NoResult /\ step[u] # "process"
<1>1. \A u \in Thread \ {t} : result[u] = NoResult /\ step[u] # "process"
  BY OneHolds DEF ThreadInv, Holding
<1> QED BY <1>1, InFlightIsOne

LEMMA NoneInFlight ==
  ASSUME ThreadInv, \A t \in Thread : step[t] # "process"
  PROVE  \A t \in Thread : result[t] = NoResult
BY DEF ThreadInv

LEMMA TurnNext == ServerInv /\ TurnInv /\ [ProviderNext]_providerVars => TurnInv'
<1> SUFFICES ASSUME ServerInv, TurnInv, [ProviderNext]_providerVars
             PROVE  TurnInv'
  OBVIOUS
<1>t. step \in [Thread -> Place] /\ result \in [Thread -> Counts]
  BY DEF ServerInv, LockInv, ThreadInv
<1>0. UNCHANGED <<result, countVars, last_payload, step>> => TurnInv'
  BY DEF TurnInv, countVars
<1>g. ASSUME UNCHANGED <<result, countVars, last_payload>>,
             NEW t \in Thread, NEW x, Go(t, x), x # "reset_store"
      PROVE  TurnInv'
  <2>1. \A u \in Thread : step'[u] = "reset_store" => step[u] = "reset_store"
    BY <1>g, <1>t DEF Go
  <2> QED BY <1>g, <2>1 DEF TurnInv, countVars
<1>n. ASSUME NEW t \in Thread, step[t] = "process", step' = step \/ Go(t, "observe")
      PROVE  TurnInv'
  <2>1. \A u \in Thread : step[u] # "reset_store"
    BY <1>n, OneHolds DEF ServerInv, Holding
  <2>2. \A u \in Thread : step'[u] # "reset_store"
    BY <1>n, <1>t, <2>1 DEF Go
  <2> QED BY <2>2 DEF TurnInv
<1>1. CASE Startup \/ CaptureStep \/ Tick
  BY <1>0, <1>1 DEF Startup, CaptureStep, Tick, statsVars, countVars, threadVars
<1>2. ASSUME NEW s \in Sniffer, PutHeld(s) \/ \E k \in Kind : Receive(s, k) PROVE TurnInv'
  BY <1>0, <1>2 DEF PutHeld, Receive, statsVars, countVars, threadVars
<1>3. ASSUME NEW t \in Thread, Poll(t) PROVE TurnInv'
  BY <1>g, <1>3 DEF Poll, statsVars, countVars
<1>4. ASSUME NEW t \in Thread, NEW b \in Button, Press(t, b) PROVE TurnInv'
  <2>1. b \in {"toggle", "direction", "clear"}
    BY ProviderAssumption
  <2> QED BY <1>g, <1>4, <2>1 DEF Press, statsVars, countVars
<1>5. ASSUME NEW t \in Thread, BeginTurn(t) PROVE TurnInv'
  <2>1. \A u \in Thread : step[u] \notin Holding
    BY <1>5, ProviderAssumption DEF BeginTurn, ServerInv, LockInv
  <2>2. \A u \in Thread : result[u] = NoResult
    BY <2>1, NoneInFlight DEF ServerInv, Holding
  <2> QED BY <1>5, <2>2 DEF BeginTurn, StatsReset, TurnInv
<1>6. ASSUME NEW t \in Thread, ClearStats(t) PROVE TurnInv'
  <2>1. /\ total_packets' = 0 /\ parse_success' = 0 /\ checksum_fail' = 0
        /\ last_payload' = None /\ result' = result /\ step' = [step EXCEPT ![t] = "idle"]
    BY <1>6 DEF ClearStats, StatsReset, Go
  <2>2. \A u \in Thread : step'[u] = "reset_store" => step[u] = "reset_store"
    BY <1>t, <2>1
  <2> QED BY <2>1, <2>2 DEF TurnInv
<1>7. ASSUME NEW t \in Thread, ThreadStep(t) PROVE TurnInv'
  <2>1. CASE ProcessOne(t) \/ UpdateStats(t)
    BY <1>n, <2>1 DEF ProcessOne, UpdateStats
  <2>2. CASE BeginUpdate(t) \/ Observe(t) \/ Record(t) \/ Ask(t) \/ Respond(t)
    BY <1>g, <2>2 DEF BeginUpdate, Observe, Record, Ask, Respond, statsVars, countVars
  <2>3. CASE Build(t)
    BY <1>g, <2>3 DEF Build, statsVars, countVars
  <2>4. CASE Read(t)
    BY <1>0, <2>4 DEF Read, statsVars, countVars
  <2>5. CASE BeginToggle(t) \/ EndToggle(t) \/ EndTurn(t)
    BY <1>g, <2>5 DEF BeginToggle, EndToggle, EndTurn, statsVars, countVars
  <2>6. CASE TurnResetsStore(t) \/ ClearStore(t)
    BY <1>g, <2>6 DEF TurnResetsStore, ClearStore, statsVars, countVars
  <2> QED
    BY <1>5, <1>6, <1>7, <2>1, <2>2, <2>3, <2>4, <2>5, <2>6 DEF ThreadStep
<1>8. CASE UNCHANGED providerVars
  BY <1>0, <1>8 DEF providerVars, countVars
<1> QED
  BY <1>1, <1>2, <1>3, <1>4, <1>7, <1>8 DEF ProviderNext, Thread

LEMMA TurnInvHolds == ProviderSpec => []TurnInv
<1>1. ProviderInit => TurnInv
  BY DEF ProviderInit, TurnInv
<1> QED BY <1>1, TurnNext, ServerInvHolds, PTL DEF ProviderSpec

LEMMA StatsNext ==
  ServerInv /\ OrderInv /\ TurnInv /\ StatsInv /\ [ProviderNext]_providerVars => StatsInv'
<1> SUFFICES ASSUME ServerInv, OrderInv, TurnInv, StatsInv, [ProviderNext]_providerVars
             PROVE  StatsInv'
  OBVIOUS
<1>t. /\ step \in [Thread -> Place] /\ result \in [Thread -> Counts]
      /\ stored \in Seq(StoredRecord) /\ todo \in [Thread -> Seq(Queue!Packet)]
      /\ total_packets \in Nat /\ parse_success \in Nat /\ checksum_fail \in Nat
      /\ last_payload \in Nat \cup {None}
  BY DEF ServerInv, LockInv, ThreadInv, StoreInv
<1>m. UNCHANGED <<stored, result, countVars, last_payload>> => StatsMatch' = StatsMatch
  BY DEF StatsMatch, countVars
<1>0. ASSUME UNCHANGED <<stored, result, countVars, last_payload, overlapped, step>>
      PROVE  StatsInv'
  BY <1>0, <1>m DEF StatsInv, countVars
<1>g. ASSUME UNCHANGED <<stored, result, countVars, last_payload, overlapped>>,
             NEW t \in Thread, NEW x, Go(t, x),
             step[t] \notin {"reset_store", "clear_stats"}, x \notin {"reset_store", "clear_stats"}
      PROVE  StatsInv'
  <2>1. \A u \in Thread : /\ step'[u] = "reset_store" <=> step[u] = "reset_store"
                          /\ step'[u] = "clear_stats" <=> step[u] = "clear_stats"
    BY <1>g, <1>t DEF Go
  <2> QED BY <1>g, <1>m, <2>1 DEF StatsInv, countVars
<1>h. ASSUME NEW t \in Thread, Overlap(t), ~overlapped'
      PROVE  /\ ~overlapped /\ overlapped' \in BOOLEAN
             /\ \A u \in Thread \ {t} : step[u] \notin {"process", "reset_store", "clear_stats"}
  BY <1>h DEF Overlap, HalfDone, StatsInv
<1>o. ASSUME NEW t \in Thread, Overlap(t) PROVE overlapped' \in BOOLEAN
  BY <1>o DEF Overlap, StatsInv
<1>z. ASSUME stored' = <<>>, \A t \in Thread : result'[t] = NoResult, last_payload' = None,
             total_packets' = 0, parse_success' = 0, checksum_fail' = 0
      PROVE  StatsMatch'
  <2>1. InFlightIn(result') = NoResult
    BY <1>z, InFlightIsNone
  <2> QED BY <1>z, <2>1, EmptyMatches DEF StatsMatch
<1>1. CASE Startup \/ CaptureStep \/ Tick
  BY <1>0, <1>1 DEF Startup, CaptureStep, Tick, storeVars, statsVars, countVars, threadVars
<1>2. ASSUME NEW s \in Sniffer, PutHeld(s) \/ \E k \in Kind : Receive(s, k) PROVE StatsInv'
  BY <1>0, <1>2 DEF PutHeld, Receive, storeVars, statsVars, countVars, threadVars
<1>3. ASSUME NEW t \in Thread, Poll(t) PROVE StatsInv'
  BY <1>g, <1>3 DEF Poll, storeVars, statsVars, countVars
<1>4. ASSUME NEW t \in Thread, NEW b \in Button, Press(t, b) PROVE StatsInv'
  <2>1. b \in {"toggle", "direction", "clear"}
    BY ProviderAssumption
  <2> QED BY <1>g, <1>4, <2>1 DEF Press, storeVars, statsVars, countVars
<1>5. ASSUME NEW t \in Thread, ProcessOne(t) PROVE StatsInv'
  <2> DEFINE p == InWork(t)
             e == MadeOf(p)
  <2>1. /\ p \in RawPacket /\ e \in StoredRecord /\ step[t] = "process" /\ todo[t] # <<>>
        /\ stored' = Append(stored, e) /\ Head(todo[t]) = todo[t][1]
        /\ result' = [result EXCEPT ![t] = Tally(result[t], p)] /\ Overlap(t)
        /\ UNCHANGED <<step, total_packets, parse_success, checksum_fail, last_payload>>
    BY <1>5, ProcessTyped DEF ServerInv
  <2>2. e.n = p.n /\ e.kind = p.kind
    BY DEF MadeOf
  <2>3. \A i \in 1..Len(stored) : stored[i].n < p.n
    <3>1. 1 \in 1..Len(todo[t])
      BY <1>t, <2>1, EmptySeq, LenProperties
    <3> QED BY <2>1, <3>1 DEF OrderInv, Above, InWork
  <2>4. /\ InFlightIn(result) = result[t]
        /\ \A u \in Thread \ {t} : result[u] = NoResult
    BY <2>1, InFlightIsItsOwn DEF ServerInv
  <2>5. InFlightIn(result') = Tally(result[t], p)
    <3>1. result'[t] = Tally(result[t], p) /\ \A u \in Thread \ {t} : result'[u] = NoResult
      BY <1>t, <2>1, <2>4
    <3> QED BY <3>1, InFlightIsOne
  <2>6. CASE ~overlapped'
    <3>1. ~overlapped /\ \A u \in Thread : step[u] \notin {"reset_store", "clear_stats"}
      BY <1>h, <2>1, <2>6
    <3>2. Matches(total_packets, parse_success, checksum_fail, last_payload, result[t], stored)
      BY <2>4, <3>1 DEF StatsInv, StatsMatch
    <3> HIDE DEF p, e
    <3>3. Matches(total_packets, parse_success, checksum_fail, last_payload,
                  Tally(result[t], p), Append(stored, e))
      BY <1>t, <2>1, <2>2, <2>3, <3>2, TallyMatches
    <3>4. StatsMatch'
      BY <2>1, <2>5, <3>3 DEF StatsMatch
    <3> QED BY <1>h, <2>1, <2>6, <3>1, <3>4 DEF StatsInv
  <2> QED BY <1>o, <2>1, <2>6 DEF StatsInv
<1>6. ASSUME NEW t \in Thread, UpdateStats(t) PROVE StatsInv'
  <2> DEFINE r == result[t]
  <2>1. /\ step[t] = "process" /\ step' = [step EXCEPT ![t] = "observe"] /\ Overlap(t)
        /\ result' = [result EXCEPT ![t] = NoResult] /\ stored' = stored
        /\ total_packets' = total_packets + r.count
        /\ parse_success' = parse_success + r.success_count
        /\ checksum_fail' = checksum_fail + r.checksum_fail_count
        /\ last_payload' = IF r.last_payload # None THEN r.last_payload ELSE last_payload
    BY <1>6 DEF UpdateStats, Update, Count, Keep, Go, storeVars
  <2>2. /\ InFlightIn(result) = r
        /\ \A u \in Thread \ {t} : result[u] = NoResult
    BY <2>1, InFlightIsItsOwn DEF ServerInv
  <2>3. InFlightIn(result') = NoResult
    <3>1. \A u \in Thread : result'[u] = NoResult
      BY <1>t, <2>1, <2>2
    <3> QED BY <3>1, InFlightIsNone
  <2>4. CASE ~overlapped'
    <3>1. ~overlapped /\ \A u \in Thread : step[u] \notin {"reset_store", "clear_stats"}
      BY <1>h, <2>1, <2>4
    <3>2. \A u \in Thread : step'[u] \notin {"reset_store", "clear_stats"}
      BY <1>t, <2>1, <3>1
    <3>3. Matches(total_packets, parse_success, checksum_fail, last_payload, r, stored)
      BY <2>2, <3>1 DEF StatsInv, StatsMatch
    <3>4. r \in Counts
      BY <1>t
    <3> HIDE DEF r
    <3>5. StatsMatch'
      BY <1>t, <2>1, <2>3, <3>3, <3>4, UpdateMatches DEF StatsMatch
    <3> QED BY <1>h, <2>1, <2>4, <3>2, <3>5 DEF StatsInv
  <2> QED BY <1>o, <2>1, <2>4 DEF StatsInv
<1>7. ASSUME NEW t \in Thread, BeginTurn(t) PROVE StatsInv'
  <2>1. /\ provider_lock = None /\ step' = [step EXCEPT ![t] = "reset_store"]
        /\ total_packets' = 0 /\ parse_success' = 0 /\ checksum_fail' = 0
        /\ last_payload' = None /\ UNCHANGED <<stored, result, overlapped>>
    BY <1>7 DEF BeginTurn, StatsReset, Go, storeVars
  <2>2. \A u \in Thread : step[u] \notin Holding
    BY <2>1, ProviderAssumption DEF ServerInv, LockInv
  <2>3. \A u \in Thread : result[u] = NoResult
    BY <2>2, NoneInFlight DEF ServerInv, Holding
  <2>4. step'[t] = "reset_store" /\ \A u \in Thread \ {t} : step'[u] = step[u]
    BY <1>t, <2>1
  <2>5. \A u \in Thread : step'[u] = "clear_stats" => step[u] = "clear_stats"
    BY <2>4
  <2> QED BY <2>1, <2>3, <2>4, <2>5 DEF StatsInv
<1>8. ASSUME NEW t \in Thread, TurnResetsStore(t) PROVE StatsInv'
  <2>1. /\ step[t] = "reset_store" /\ step' = [step EXCEPT ![t] = "turning"] /\ stored' = <<>>
        /\ UNCHANGED <<total_packets, parse_success, checksum_fail, last_payload, result>>
        /\ overlapped' = FALSE
    BY <1>8 DEF TurnResetsStore, StoreReset, Go, statsVars
  <2>2. /\ total_packets = 0 /\ parse_success = 0 /\ checksum_fail = 0
        /\ last_payload = None /\ \A u \in Thread : result[u] = NoResult
    BY <2>1 DEF TurnInv
  <2>3. StatsMatch'
    BY <1>z, <2>1, <2>2
  <2> QED BY <2>1, <2>2, <2>3 DEF StatsInv
<1>9. ASSUME NEW t \in Thread, ClearStore(t) PROVE StatsInv'
  <2>1. /\ step[t] = "clear" /\ step' = [step EXCEPT ![t] = "clear_stats"] /\ stored' = <<>>
        /\ overlapped' = HalfDone(t) /\ UNCHANGED result
    BY <1>9 DEF ClearStore, StoreReset, Go
  <2>o. overlapped' \in BOOLEAN
    BY <2>1 DEF HalfDone
  <2>2. CASE ~overlapped'
    <3>1. \A u \in Thread : step[u] \notin {"process", "reset_store", "clear_stats"}
      BY <2>1, <2>2 DEF HalfDone
    <3>2. \A u \in Thread : result'[u] = NoResult
      BY <2>1, <3>1, NoneInFlight DEF ServerInv
    <3>3. step'[t] = "clear_stats" /\ \A u \in Thread : step'[u] # "reset_store"
      BY <1>t, <2>1, <3>1
    <3> QED BY <2>o, <2>1, <3>2, <3>3 DEF StatsInv
  <2> QED BY <2>o, <2>2 DEF StatsInv
<1>10. ASSUME NEW t \in Thread, ClearStats(t) PROVE StatsInv'
  <2>1. /\ step[t] = "clear_stats" /\ step' = [step EXCEPT ![t] = "idle"]
        /\ total_packets' = 0 /\ parse_success' = 0 /\ checksum_fail' = 0
        /\ last_payload' = None /\ Overlap(t) /\ UNCHANGED <<stored, result>>
    BY <1>10 DEF ClearStats, StatsReset, Go, storeVars
  <2>2. CASE ~overlapped'
    <3>1. ~overlapped /\ \A u \in Thread \ {t} : step[u] \notin {"reset_store", "clear_stats"}
      BY <1>h, <2>1, <2>2
    <3>2. stored' = <<>> /\ \A u \in Thread : result'[u] = NoResult
      BY <2>1, <3>1 DEF StatsInv
    <3>3. StatsMatch'
      BY <1>z, <2>1, <3>2
    <3>4. \A u \in Thread : step'[u] \notin {"reset_store", "clear_stats"}
      BY <1>t, <2>1, <3>1
    <3> QED BY <1>o, <2>1, <3>3, <3>4 DEF StatsInv
  <2> QED BY <1>o, <2>1, <2>2 DEF StatsInv
<1>11. ASSUME NEW t \in Thread, ThreadStep(t) PROVE StatsInv'
  <2>1. CASE BeginUpdate(t)
    BY <1>g, <2>1 DEF BeginUpdate, storeVars, statsVars, countVars
  <2>2. CASE Observe(t) \/ Record(t) \/ Ask(t) \/ Respond(t)
    BY <1>g, <2>2 DEF Observe, Record, Ask, Respond, storeVars, statsVars, countVars
  <2>3. CASE Build(t)
    BY <1>g, <2>3 DEF Build, storeVars, statsVars, countVars
  <2>4. CASE Read(t)
    BY <1>0, <2>4 DEF Read, storeVars, statsVars, countVars
  <2>5. CASE BeginToggle(t) \/ EndToggle(t) \/ EndTurn(t)
    BY <1>g, <2>5 DEF BeginToggle, EndToggle, EndTurn, storeVars, statsVars, countVars
  <2> QED
    BY <1>5, <1>6, <1>7, <1>8, <1>9, <1>10, <1>11, <2>1, <2>2, <2>3, <2>4, <2>5 DEF ThreadStep
<1>12. CASE UNCHANGED providerVars
  BY <1>0, <1>12 DEF providerVars, countVars
<1> QED
  BY <1>1, <1>2, <1>3, <1>4, <1>11, <1>12 DEF ProviderNext, Thread

\* The numbers rise in the store, from there over the batch to the queue, and never
\* fall in between: no packet is stored twice, and none after one put later.
THEOREM OrderInvHolds == ProviderSpec => []OrderInv
BY OrderInit, OrderNext, ServerInvHolds, PTL DEF ProviderSpec

\* Counters and payload on display are those of the records, for any number of
\* threads - but between the two resets of a turn or a clear, and but after a clear
\* that ran into another operation: then from the next clear that does not, or turn.
THEOREM StatsCorrect == ProviderSpec => []StatsMatchStore
<1>1. ServerInv /\ StatsInv => StatsMatchStore
  <2>1. InFlightIn(result) = InFlight
    BY DEF InFlightIn, InFlight
  <2>2. \A kinds : Stored(kinds) = Cardinality(OfKind(stored, kinds))
    BY DEF Stored, OfKind
  <2>3. PayloadIn(stored) = NewestPayload
    BY DEF PayloadIn, PayloadsIn, NewestPayload
  <2> QED BY <2>1, <2>2, <2>3 DEF StatsInv, StatsMatch, Matches, StatsMatchStore, LatestPayload
<1> QED
  BY <1>1, StatsInvInit, StatsNext, TurnInvHolds, OrderInvHolds, ServerInvHolds, PTL
     DEF ProviderSpec

-----------------------------------------------------------------------------
(* By how much the counters may exceed the records *)

\* The counters n, ok and bad, with a result r that is still to be counted, exceed
\* the records s by no more than a batch.
Leads(n, ok, bad, r, s) ==
  /\ n + r.count <= Len(s) + QueueSize
  /\ ok + r.success_count <= Cardinality(OfKind(s, {"damaged", "sound"})) + QueueSize
  /\ bad + r.checksum_fail_count <= Cardinality(OfKind(s, {"short", "damaged"})) + QueueSize

\* What a batch still brings is bounded by the queue it was taken from.
Brings(q, r) ==
  /\ Len(q) + r.count <= QueueSize
  /\ r.success_count <= r.count /\ r.checksum_fail_count <= r.count

LeadInv ==
  /\ \A t \in Thread : Brings(todo[t], result[t])
  /\ (\A t \in Thread : step[t] \notin {"reset_store", "clear_stats"}) =>
       Leads(total_packets, parse_success, checksum_fail, InFlightIn(result), stored)

LEMMA SizeIsNat == QueueSize \in Nat \ {0}
BY ProviderAssumption

\* Nothing to come, of a batch as large as the queue at most.
LEMMA NothingBrings ==
  ASSUME NEW q \in Seq(Queue!Packet), Len(q) <= QueueSize
  PROVE  Brings(q, NoResult)
<1>1. Len(q) \in Nat
  BY LenProperties
<1> QED BY <1>1, SizeIsNat DEF Brings, NoResult

LEMMA NoneBrings == <<>> \in Seq(Queue!Packet) /\ Len(<<>>) = 0 /\ Brings(<<>>, NoResult)
<1>1. <<>> \in Seq(Queue!Packet) /\ Len(<<>>) = 0
  OBVIOUS
<1>2. 0 + 0 <= QueueSize
  BY SizeIsNat
<1>3. /\ NoResult.count = 0 /\ NoResult.success_count = 0
      /\ NoResult.checksum_fail_count = 0
  BY DEF NoResult
<1> QED BY <1>1, <1>2, <1>3 DEF Brings

\* Counters of zero exceed no records by more than a batch brings.
LEMMA ZeroLeads ==
  ASSUME NEW r \in Counts, NEW q \in Seq(Queue!Packet), Brings(q, r),
         NEW s \in Seq(StoredRecord)
  PROVE  Leads(0, 0, 0, r, s)
<1>1. Len(q) \in Nat /\ Len(s) \in Nat
  BY LenProperties
<1>2. \A kinds : Cardinality(OfKind(s, kinds)) \in Nat
  <2>1. IsFiniteSet(1..Len(s))
    BY <1>1, FS_Interval
  <2>2. \A kinds : OfKind(s, kinds) \subseteq 1..Len(s)
    BY DEF OfKind
  <2> QED BY <2>1, <2>2, FS_Subset, FS_CardinalityType
<1>3. r.count \in Nat /\ r.success_count \in Nat /\ r.checksum_fail_count \in Nat
  BY DEF Counts
<1>4. r.count <= QueueSize /\ r.success_count <= QueueSize /\ r.checksum_fail_count <= QueueSize
  BY <1>1, <1>3, SizeIsNat DEF Brings
<1>5. \A a, b \in Nat : a <= QueueSize => 0 + a <= b + QueueSize
  BY SizeIsNat
<1> QED BY <1>1, <1>2, <1>3, <1>4, <1>5 DEF Leads

\* A packet that is stored and counted in the result, both by its kind.
LEMMA TallyLeads ==
  ASSUME NEW n \in Nat, NEW ok \in Nat, NEW bad \in Nat, NEW r \in Counts,
         NEW s \in Seq(StoredRecord), Leads(n, ok, bad, r, s),
         NEW p \in RawPacket, NEW e \in StoredRecord, e.kind = p.kind
  PROVE  Leads(n, ok, bad, Tally(r, p), Append(s, e))
<1> DEFINE good == {"damaged", "sound"}
           wrong == {"short", "damaged"}
           a == Append(s, e)
           t == Tally(r, p)
<1>1. /\ r.count \in Nat /\ r.success_count \in Nat /\ r.checksum_fail_count \in Nat
      /\ p.kind \in {"short", "damaged", "sound"}
  BY DEF Counts, RawPacket, PacketKind
<1>2. /\ t.count = r.count + 1
      /\ t.success_count = r.success_count + (IF p.kind # "short" THEN 1 ELSE 0)
      /\ t.checksum_fail_count = r.checksum_fail_count + (IF p.kind # "sound" THEN 1 ELSE 0)
  BY DEF Tally
<1>3. Len(a) = Len(s) + 1 /\ Len(s) \in Nat
  BY AppendProperties, LenProperties
<1>4. /\ Cardinality(OfKind(s, good)) \in Nat
      /\ Cardinality(OfKind(a, good))
           = Cardinality(OfKind(s, good)) + (IF e.kind \in good THEN 1 ELSE 0)
  BY KindGrows
<1>5. /\ Cardinality(OfKind(s, wrong)) \in Nat
      /\ Cardinality(OfKind(a, wrong))
           = Cardinality(OfKind(s, wrong)) + (IF e.kind \in wrong THEN 1 ELSE 0)
  BY KindGrows
<1>6. (e.kind \in good <=> p.kind # "short") /\ (e.kind \in wrong <=> p.kind # "sound")
  BY <1>1
<1>7. /\ n + r.count <= Len(s) + QueueSize
      /\ ok + r.success_count <= Cardinality(OfKind(s, good)) + QueueSize
      /\ bad + r.checksum_fail_count <= Cardinality(OfKind(s, wrong)) + QueueSize
  BY DEF Leads
<1> HIDE DEF a, t
<1>8. \A x, y, z, d \in Nat : x + y <= z + QueueSize => x + (y + d) <= (z + d) + QueueSize
  BY SizeIsNat
<1> DEFINE g == IF p.kind # "short" THEN 1 ELSE 0
           w == IF p.kind # "sound" THEN 1 ELSE 0
<1>9. g \in Nat /\ w \in Nat /\ 1 \in Nat
  OBVIOUS
<1>10. /\ t.success_count = r.success_count + g /\ t.checksum_fail_count = r.checksum_fail_count + w
       /\ Cardinality(OfKind(a, good)) = Cardinality(OfKind(s, good)) + g
       /\ Cardinality(OfKind(a, wrong)) = Cardinality(OfKind(s, wrong)) + w
  BY <1>2, <1>4, <1>5, <1>6
<1> HIDE DEF g, w, good, wrong
<1>11. n + t.count <= Len(a) + QueueSize
  BY <1>1, <1>2, <1>3, <1>7, <1>8, <1>9
<1>12. ok + t.success_count <= Cardinality(OfKind(a, good)) + QueueSize
  BY <1>1, <1>4, <1>7, <1>8, <1>9, <1>10
<1>13. bad + t.checksum_fail_count <= Cardinality(OfKind(a, wrong)) + QueueSize
  BY <1>1, <1>5, <1>7, <1>8, <1>9, <1>10
<1> QED BY <1>11, <1>12, <1>13 DEF Leads, good, wrong, a, t

\* The same packet on the side of the batch.
LEMMA TallyBrings ==
  ASSUME NEW q \in Seq(Queue!Packet), q # <<>>, NEW r \in Counts, Brings(q, r),
         NEW p \in RawPacket
  PROVE  Brings(Tail(q), Tally(r, p))
<1>1. Len(q) \in Nat \ {0} /\ Len(Tail(q)) = Len(q) - 1
  BY EmptySeq, LenProperties, HeadTailProperties
<1>2. r.count \in Nat /\ r.success_count \in Nat /\ r.checksum_fail_count \in Nat
  BY DEF Counts
<1>3. /\ Tally(r, p).count = r.count + 1
      /\ Tally(r, p).success_count \in {r.success_count, r.success_count + 1}
      /\ Tally(r, p).checksum_fail_count \in {r.checksum_fail_count, r.checksum_fail_count + 1}
  BY <1>2 DEF Tally
<1> QED BY <1>1, <1>2, <1>3, SizeIsNat DEF Brings

\* A result that is counted.
LEMMA UpdateLeads ==
  ASSUME NEW n \in Nat, NEW ok \in Nat, NEW bad \in Nat, NEW r \in Counts,
         NEW s, Leads(n, ok, bad, r, s)
  PROVE  Leads(n + r.count, ok + r.success_count, bad + r.checksum_fail_count, NoResult, s)
BY DEF Leads, NoResult, Counts

LEMMA LeadInvInit == ProviderInit => LeadInv
<1> SUFFICES ASSUME ProviderInit PROVE LeadInv
  OBVIOUS
<1>1. InFlightIn(result) = NoResult
  BY InFlightIsNone DEF ProviderInit
<1>2. <<>> \in Seq(StoredRecord)
  OBVIOUS
<1>3. Leads(0, 0, 0, NoResult, <<>>)
  BY <1>2, NoneBrings, ZeroLeads, NoResultTyped
<1> QED BY <1>1, <1>3, NoneBrings DEF ProviderInit, StatsInit, LeadInv

LEMMA LeadNext ==
  ServerInv /\ TurnInv /\ LeadInv /\ [ProviderNext]_providerVars => LeadInv'
<1> SUFFICES ASSUME ServerInv, TurnInv, LeadInv, [ProviderNext]_providerVars
             PROVE  LeadInv'
  OBVIOUS
<1>t. /\ step \in [Thread -> Place] /\ result \in [Thread -> Counts]
      /\ stored \in Seq(StoredRecord) /\ todo \in [Thread -> Seq(Queue!Packet)]
      /\ total_packets \in Nat /\ parse_success \in Nat /\ checksum_fail \in Nat
  BY DEF ServerInv, LockInv, ThreadInv, StoreInv
<1>0. ASSUME UNCHANGED <<todo, stored, result, countVars, step>> PROVE LeadInv'
  BY <1>0 DEF LeadInv, countVars
<1>g. ASSUME UNCHANGED <<stored, result, countVars>>, \A u \in Thread : Brings(todo'[u], result[u]),
             NEW t \in Thread, NEW x, Go(t, x), step[t] \notin {"reset_store", "clear_stats"}
      PROVE  LeadInv'
  <2>1. \A u \in Thread : step[u] \in {"reset_store", "clear_stats"} =>
                          step'[u] \in {"reset_store", "clear_stats"}
    BY <1>g, <1>t DEF Go
  <2> QED BY <1>g, <2>1 DEF LeadInv, countVars
<1>b. \A u \in Thread : Brings(todo[u], result[u])
  BY DEF LeadInv
<1>i. InFlightIn(result) \in Counts /\ Brings(<<>>, InFlightIn(result))
  <2>1. CASE \A u \in Thread : result[u] = NoResult
    BY <2>1, InFlightIsNone, NoResultTyped, NoneBrings
  <2>2. ASSUME NEW t \in Thread, result[t] # NoResult
        PROVE  InFlightIn(result) \in Counts /\ Brings(<<>>, InFlightIn(result))
    <3>1. step[t] = "process"
      BY <2>2 DEF ServerInv, ThreadInv
    <3>2. InFlightIn(result) = result[t]
      BY <3>1, InFlightIsItsOwn DEF ServerInv
    <3>3. Len(todo[t]) \in Nat /\ Len(<<>>) = 0 /\ result[t] \in Counts
      BY <1>t, LenProperties
    <3> QED BY <1>b, <3>2, <3>3, SizeIsNat DEF Brings, Counts
  <2> QED BY <2>1, <2>2
<1>1. CASE Startup \/ CaptureStep \/ Tick
  BY <1>0, <1>1 DEF Startup, CaptureStep, Tick, storeVars, statsVars, countVars, threadVars
<1>2. ASSUME NEW s \in Sniffer, PutHeld(s) \/ \E k \in Kind : Receive(s, k) PROVE LeadInv'
  BY <1>0, <1>2 DEF PutHeld, Receive, storeVars, statsVars, countVars, threadVars
<1>3. ASSUME NEW t \in Thread, Poll(t) PROVE LeadInv'
  BY <1>b, <1>g, <1>3 DEF Poll, storeVars, statsVars, countVars
<1>4. ASSUME NEW t \in Thread, NEW b \in Button, Press(t, b) PROVE LeadInv'
  BY <1>b, <1>g, <1>4 DEF Press, storeVars, statsVars, countVars
<1>5. ASSUME NEW t \in Thread, BeginUpdate(t) PROVE LeadInv'
  <2>1. /\ step[t] = "update" /\ Go(t, "process") /\ todo' = [todo EXCEPT ![t] = queue]
        /\ UNCHANGED <<stored, result, countVars>>
    BY <1>5 DEF BeginUpdate, storeVars, statsVars, countVars
  <2>2. result[t] = NoResult /\ queue \in Seq(Queue!Packet) /\ Len(queue) <= QueueSize
    BY <2>1 DEF ServerInv, ThreadInv, QueueInv
  <2>3. Brings(queue, result[t])
    BY <2>2, NothingBrings
  <2>4. \A u \in Thread : Brings(todo'[u], result[u])
    BY <1>b, <1>t, <2>1, <2>3
  <2> QED BY <1>g, <2>1, <2>4
<1>6. ASSUME NEW t \in Thread, ProcessOne(t) PROVE LeadInv'
  <2> DEFINE p == InWork(t)
             e == MadeOf(p)
  <2>1. /\ p \in RawPacket /\ e \in StoredRecord /\ step[t] = "process" /\ todo[t] # <<>>
        /\ stored' = Append(stored, e) /\ todo' = [todo EXCEPT ![t] = Tail(todo[t])]
        /\ result' = [result EXCEPT ![t] = Tally(result[t], p)]
        /\ UNCHANGED <<step, total_packets, parse_success, checksum_fail>>
    BY <1>6, ProcessTyped DEF ServerInv
  <2>2. e.kind = p.kind
    BY DEF MadeOf
  <2>3. /\ InFlightIn(result) = result[t]
        /\ \A u \in Thread \ {t} : result[u] = NoResult
    BY <2>1, InFlightIsItsOwn DEF ServerInv
  <2>4. InFlightIn(result') = Tally(result[t], p)
    <3>1. result'[t] = Tally(result[t], p) /\ \A u \in Thread \ {t} : result'[u] = NoResult
      BY <1>t, <2>1, <2>3
    <3> QED BY <3>1, InFlightIsOne
  <2> HIDE DEF p, e
  <2>5. Brings(Tail(todo[t]), Tally(result[t], p))
    BY <1>b, <1>t, <2>1, TallyBrings
  <2>6. \A u \in Thread : Brings(todo'[u], result'[u])
    BY <1>b, <1>t, <2>1, <2>5
  <2>7. ASSUME \A u \in Thread : step'[u] \notin {"reset_store", "clear_stats"}
        PROVE  Leads(total_packets, parse_success, checksum_fail, InFlightIn(result), stored)'
    <3>1. Leads(total_packets, parse_success, checksum_fail, result[t], stored)
      BY <2>1, <2>3, <2>7 DEF LeadInv
    <3>2. Leads(total_packets, parse_success, checksum_fail, Tally(result[t], p), Append(stored, e))
      BY <1>t, <2>1, <2>2, <3>1, TallyLeads
    <3> QED BY <2>1, <2>4, <3>2
  <2> QED BY <2>6, <2>7 DEF LeadInv
<1>7. ASSUME NEW t \in Thread, UpdateStats(t) PROVE LeadInv'
  <2> DEFINE r == result[t]
  <2>1. /\ step[t] = "process" /\ step' = [step EXCEPT ![t] = "observe"]
        /\ result' = [result EXCEPT ![t] = NoResult] /\ stored' = stored
        /\ todo[t] = <<>> /\ todo' = todo
        /\ total_packets' = total_packets + r.count
        /\ parse_success' = parse_success + r.success_count
        /\ checksum_fail' = checksum_fail + r.checksum_fail_count
    BY <1>7 DEF UpdateStats, Update, Count, Go, storeVars
  <2>2. /\ InFlightIn(result) = r
        /\ \A u \in Thread \ {t} : result[u] = NoResult
    BY <2>1, InFlightIsItsOwn DEF ServerInv
  <2>3. InFlightIn(result') = NoResult
    <3>1. \A u \in Thread : result'[u] = NoResult
      BY <1>t, <2>1, <2>2
    <3> QED BY <3>1, InFlightIsNone
  <2>4. Brings(<<>>, NoResult)
    BY NoneBrings
  <2>5. \A u \in Thread : Brings(todo'[u], result'[u])
    BY <1>b, <1>t, <2>1, <2>4
  <2>6. ASSUME \A u \in Thread : step'[u] \notin {"reset_store", "clear_stats"}
        PROVE  Leads(total_packets, parse_success, checksum_fail, InFlightIn(result), stored)'
    <3>1. \A u \in Thread : step[u] \notin {"reset_store", "clear_stats"}
      BY <1>t, <2>1, <2>6
    <3>2. Leads(total_packets, parse_success, checksum_fail, r, stored) /\ r \in Counts
      BY <1>t, <2>2, <3>1 DEF LeadInv
    <3> HIDE DEF r
    <3>3. Leads(total_packets + r.count, parse_success + r.success_count,
                checksum_fail + r.checksum_fail_count, NoResult, stored)
      BY <1>t, <3>2, UpdateLeads
    <3> QED BY <2>1, <2>3, <3>3
  <2> QED BY <2>5, <2>6 DEF LeadInv
<1>8. ASSUME NEW t \in Thread, BeginTurn(t) \/ ClearStore(t) PROVE LeadInv'
  <2>1. /\ step' = [step EXCEPT ![t] = "reset_store"] \/ step' = [step EXCEPT ![t] = "clear_stats"]
        /\ UNCHANGED <<todo, result>>
    BY <1>8 DEF BeginTurn, ClearStore, Go
  <2>2. step'[t] \in {"reset_store", "clear_stats"}
    BY <1>t, <2>1
  <2> QED BY <1>b, <2>1, <2>2 DEF LeadInv
<1>9. ASSUME NEW t \in Thread, TurnResetsStore(t) \/ ClearStats(t) PROVE LeadInv'
  <2>1. /\ total_packets' = 0 /\ parse_success' = 0 /\ checksum_fail' = 0
        /\ UNCHANGED <<todo, result>> /\ stored' \in Seq(StoredRecord)
    <3>1. CASE TurnResetsStore(t)
      <4>1. total_packets = 0 /\ parse_success = 0 /\ checksum_fail = 0
        BY <3>1 DEF TurnResetsStore, TurnInv
      <4> QED BY <3>1, <4>1 DEF TurnResetsStore, StoreReset, statsVars
    <3>2. CASE ClearStats(t)
      BY <1>t, <3>2 DEF ClearStats, StatsReset, storeVars
    <3> QED BY <1>9, <3>1, <3>2
  <2>2. <<>> \in Seq(Queue!Packet)
    OBVIOUS
  <2>3. Leads(0, 0, 0, InFlightIn(result), stored')
    BY <1>i, <2>1, <2>2, ZeroLeads
  <2> QED BY <1>b, <2>1, <2>3 DEF LeadInv
<1>10. ASSUME NEW t \in Thread, ThreadStep(t) PROVE LeadInv'
  <2>1. CASE Observe(t) \/ Record(t) \/ Ask(t) \/ Respond(t)
    BY <1>b, <1>g, <2>1 DEF Observe, Record, Ask, Respond, storeVars, statsVars, countVars
  <2>2. CASE Build(t)
    BY <1>b, <1>g, <2>2 DEF Build, storeVars, statsVars, countVars
  <2>3. CASE Read(t)
    BY <1>0, <2>3 DEF Read, storeVars, statsVars, countVars
  <2>4. CASE BeginToggle(t) \/ EndToggle(t) \/ EndTurn(t)
    BY <1>b, <1>g, <2>4 DEF BeginToggle, EndToggle, EndTurn, storeVars, statsVars, countVars
  <2> QED
    BY <1>5, <1>6, <1>7, <1>8, <1>9, <1>10, <2>1, <2>2, <2>3, <2>4 DEF ThreadStep
<1>11. CASE UNCHANGED providerVars
  BY <1>0, <1>11 DEF providerVars, countVars
<1> QED
  BY <1>1, <1>2, <1>3, <1>4, <1>10, <1>11 DEF ProviderNext, Thread

\* Whatever a clear_logs() runs into, for any number of threads: once no thread is
\* between two resets the counters exceed the records by a batch at most, and a
\* batch is no larger than the queue.
THEOREM LeadCorrect == ProviderSpec => []CountersLeadByABatch
<1>1. LeadInv => CountersLeadByABatch
  <2>1. InFlightIn(result) = InFlight
    BY DEF InFlightIn, InFlight
  <2>2. \A kinds : Stored(kinds) = Cardinality(OfKind(stored, kinds))
    BY DEF Stored, OfKind
  <2> QED BY <2>1, <2>2 DEF LeadInv, Leads, CountersLeadByABatch
<1> QED
  BY <1>1, LeadInvInit, LeadNext, TurnInvHolds, ServerInvHolds, PTL DEF ProviderSpec

-----------------------------------------------------------------------------
(* From the sniffers to the store: the channel *)

\* The numbers of the packets of a list, and those on their way to the store.
Numbers(q) == [i \in 1..Len(q) |-> q[i].raw_data.n]

OnTheWay(batches, q) ==
  LET draining == {t \in Thread : batches[t] # <<>>}
  IN (IF draining = {} THEN <<>> ELSE Numbers(batches[CHOOSE t \in draining : TRUE]))
     \o Numbers(q)

\* The numbers of what the store holds.
Kept == [i \in 1..Len(stored) |-> stored[i].n]

LEMMA NumbersTyped ==
  ASSUME NEW q \in Seq(Queue!Packet)
  PROVE  /\ Numbers(q) \in Seq(Nat) /\ Len(Numbers(q)) = Len(q)
         /\ \A i \in 1..Len(q) : Numbers(q)[i] = q[i].raw_data.n
<1>1. \A i \in 1..Len(q) : q[i].raw_data.n \in Nat
  BY NumberTyped
<1>2. Len(q) \in Nat
  BY LenProperties
<1> QED BY <1>1, <1>2 DEF Numbers

LEMMA NumbersOfNone == Numbers(<<>>) = <<>>
<1>1. Len(<<>>) = 0 /\ 1..0 = {}
  BY EmptySeq
<1> QED BY <1>1 DEF Numbers

LEMMA NumbersOfAppend ==
  ASSUME NEW q \in Seq(Queue!Packet), NEW e \in Queue!Packet
  PROVE  Numbers(Append(q, e)) = Append(Numbers(q), e.raw_data.n)
<1> DEFINE c == Append(q, e)
           l == Numbers(c)
           a == Numbers(q)
           r == Append(a, e.raw_data.n)
<1>1. e.raw_data.n \in Nat
  BY DEF Queue!Packet, RawPacket
<1>2. /\ c \in Seq(Queue!Packet) /\ Len(c) = Len(q) + 1 /\ c[Len(q) + 1] = e
      /\ \A i \in 1..Len(q) : c[i] = q[i]
  BY AppendProperties
<1>3. Len(q) \in Nat
  BY LenProperties
<1> HIDE DEF c
<1>4. l \in Seq(Nat) /\ Len(l) = Len(c) /\ \A i \in 1..Len(c) : l[i] = c[i].raw_data.n
  BY <1>2, NumbersTyped
<1>5. a \in Seq(Nat) /\ Len(a) = Len(q) /\ \A i \in 1..Len(q) : a[i] = q[i].raw_data.n
  BY NumbersTyped
<1> HIDE DEF a
<1>6. /\ r \in Seq(Nat) /\ Len(r) = Len(a) + 1 /\ r[Len(a) + 1] = e.raw_data.n
      /\ \A i \in 1..Len(a) : r[i] = a[i]
  BY <1>1, <1>5, AppendProperties
<1> HIDE DEF l, r
<1>7. ASSUME NEW i \in 1..Len(l) PROVE l[i] = r[i]
  <2>1. CASE i = Len(q) + 1
    BY <1>2, <1>4, <1>5, <1>6, <2>1
  <2>2. CASE i # Len(q) + 1
    <3>1. i \in 1..Len(q) /\ i \in 1..Len(c) /\ i \in 1..Len(a)
      BY <1>2, <1>3, <1>4, <1>5, <2>2
    <3> QED BY <1>2, <1>4, <1>5, <1>6, <3>1
  <2> QED BY <2>1, <2>2
<1>8. Len(l) = Len(r)
  BY <1>2, <1>4, <1>5, <1>6
<1>9. l = r
  BY <1>4, <1>6, <1>7, <1>8, SeqEqual
<1> QED BY <1>9 DEF l, r, a, c

LEMMA NumbersOfTail ==
  ASSUME NEW q \in Seq(Queue!Packet), q # <<>>
  PROVE  /\ Numbers(q) # <<>> /\ Numbers(q)[1] = q[1].raw_data.n
         /\ Numbers(Tail(q)) = Tail(Numbers(q))
<1> DEFINE c == Tail(q)
           a == Numbers(q)
           l == Numbers(c)
           r == Tail(a)
<1>1. /\ c \in Seq(Queue!Packet) /\ Len(c) = Len(q) - 1
      /\ \A i \in 1..Len(c) : c[i] = q[i + 1]
  BY HeadTailProperties
<1>2. Len(q) \in Nat \ {0}
  BY EmptySeq
<1>3. a \in Seq(Nat) /\ Len(a) = Len(q) /\ \A i \in 1..Len(q) : a[i] = q[i].raw_data.n
  BY NumbersTyped
<1> HIDE DEF a, c
<1>4. a # <<>> /\ a[1] = q[1].raw_data.n
  BY <1>2, <1>3, EmptySeq
<1>5. l \in Seq(Nat) /\ Len(l) = Len(c) /\ \A i \in 1..Len(c) : l[i] = c[i].raw_data.n
  BY <1>1, NumbersTyped
<1>6. r \in Seq(Nat) /\ Len(r) = Len(a) - 1 /\ \A i \in 1..Len(r) : r[i] = a[i + 1]
  BY <1>3, <1>4, HeadTailProperties
<1> HIDE DEF l, r
<1>7. Len(l) = Len(r)
  BY <1>1, <1>3, <1>5, <1>6
<1>8. ASSUME NEW i \in 1..Len(l) PROVE l[i] = r[i]
  <2>1. i \in 1..Len(c) /\ i \in 1..Len(r) /\ i + 1 \in 1..Len(q)
    BY <1>1, <1>2, <1>5, <1>7
  <2> QED BY <1>1, <1>3, <1>5, <1>6, <2>1
<1>9. l = r
  BY <1>5, <1>6, <1>7, <1>8, SeqEqual
<1> QED BY <1>4, <1>9 DEF l, r, a, c

\* Nothing is on its way but the queue, or what one thread has and the queue behind it.
LEMMA NoneDraining ==
  ASSUME NEW b, NEW q \in Seq(Queue!Packet), \A t \in Thread : b[t] = <<>>
  PROVE  OnTheWay(b, q) = Numbers(q)
<1>1. {t \in Thread : b[t] # <<>>} = {}
  OBVIOUS
<1>2. Numbers(q) \in Seq(Nat)
  BY NumbersTyped
<1>3. <<>> \o Numbers(q) = Numbers(q)
  BY <1>2, ConcatEmptySeq
<1> QED BY <1>1, <1>3 DEF OnTheWay

LEMMA OneDraining ==
  ASSUME NEW b, NEW q \in Seq(Queue!Packet), NEW t \in Thread,
         \A u \in Thread \ {t} : b[u] = <<>>
  PROVE  OnTheWay(b, q) = Numbers(b[t]) \o Numbers(q)
<1>1. CASE b[t] = <<>>
  <2>1. \A u \in Thread : b[u] = <<>>
    BY <1>1
  <2>2. OnTheWay(b, q) = Numbers(q)
    BY <2>1, NoneDraining
  <2>3. Numbers(q) \in Seq(Nat)
    BY NumbersTyped
  <2>4. <<>> \o Numbers(q) = Numbers(q)
    BY <2>3, ConcatEmptySeq
  <2> QED BY <1>1, <2>2, <2>4, NumbersOfNone
<1>2. CASE b[t] # <<>>
  <2>1. {u \in Thread : b[u] # <<>>} = {t}
    BY <1>2
  <2>2. (CHOOSE u \in {t} : TRUE) = t
    OBVIOUS
  <2> QED BY <2>1, <2>2 DEF OnTheWay
<1> QED BY <1>1, <1>2

\* What the store holds when a record is added.
LEMMA KeptGrows ==
  ASSUME stored \in Seq(StoredRecord), NEW r \in StoredRecord, stored' = Append(stored, r)
  PROVE  Kept' = Append(Kept, r.n)
<1>1. /\ stored' \in Seq(StoredRecord) /\ Len(stored') = Len(stored) + 1
      /\ stored'[Len(stored) + 1] = r
      /\ \A i \in 1..Len(stored) : stored'[i] = stored[i]
  BY AppendProperties
<1>2. Len(stored) \in Nat /\ r.n \in Nat /\ \A i \in 1..Len(stored) : stored[i].n \in Nat
  <2>1. \A i \in 1..Len(stored) : stored[i] \in StoredRecord
    BY ElementOfSeq
  <2> QED BY <2>1, LenProperties DEF StoredRecord
<1>3. Kept \in Seq(Nat) /\ Len(Kept) = Len(stored) /\ \A i \in 1..Len(stored) : Kept[i] = stored[i].n
  BY <1>2 DEF Kept
<1>4. ASSUME NEW i \in 1..Len(stored') PROVE stored'[i].n \in Nat
  <2>1. CASE i = Len(stored) + 1
    BY <1>1, <1>2, <2>1
  <2>2. CASE i # Len(stored) + 1
    <3>1. i \in 1..Len(stored)
      BY <1>1, <1>2, <2>2
    <3> QED BY <1>1, <1>2, <3>1
  <2> QED BY <2>1, <2>2
<1>5. /\ Kept' \in Seq(Nat) /\ Len(Kept') = Len(stored) + 1
      /\ \A i \in 1..(Len(stored) + 1) : Kept'[i] = stored'[i].n
  BY <1>1, <1>2, <1>4 DEF Kept
<1> DEFINE l == Kept'
           r2 == Append(Kept, r.n)
<1>6. /\ r2 \in Seq(Nat) /\ Len(r2) = Len(stored) + 1 /\ r2[Len(stored) + 1] = r.n
      /\ \A i \in 1..Len(stored) : r2[i] = stored[i].n
  <2>1. /\ r2 \in Seq(Nat) /\ Len(r2) = Len(Kept) + 1 /\ r2[Len(Kept) + 1] = r.n
        /\ \A i \in 1..Len(Kept) : r2[i] = Kept[i]
    BY <1>2, <1>3, AppendProperties
  <2> HIDE DEF r2
  <2> QED BY <1>3, <2>1
<1>7. l \in Seq(Nat) /\ Len(l) = Len(stored) + 1
      /\ \A i \in 1..(Len(stored) + 1) : l[i] = stored'[i].n
  BY <1>5
<1> HIDE DEF l, r2
<1>8. ASSUME NEW i \in 1..Len(l) PROVE l[i] = r2[i]
  <2>1. i \in 1..(Len(stored) + 1)
    BY <1>7
  <2>2. CASE i = Len(stored) + 1
    BY <1>1, <1>6, <1>7, <2>1, <2>2
  <2>3. CASE i # Len(stored) + 1
    <3>1. i \in 1..Len(stored)
      BY <1>2, <2>1, <2>3
    <3> QED BY <1>1, <1>6, <1>7, <2>1, <3>1
  <2> QED BY <2>2, <2>3
<1>9. l = r2
  BY <1>6, <1>7, <1>8, SeqEqual
<1> QED BY <1>9 DEF l, r2

LEMMA MappedWaiting == Waiting = OnTheWay(todo, queue) /\ Waiting' = OnTheWay(todo', queue')
  BY DEF Waiting, OnTheWay, Batch, Numbers

\* A packet put enters at the end, and of those in a full queue the first is lost.
LEMMA PutEnters ==
  ASSUME NEW a \in Seq(Nat), NEW q \in Seq(Queue!Packet), Len(q) <= QueueSize,
         NEW e \in Queue!Packet
  PROVE  LET w == a \o Numbers(q)
             w2 == a \o Numbers(AppendBounded(q, e, QueueSize))
             n == e.raw_data.n
         IN \/ w2 = Append(w, n)
            \/ /\ Len(w) >= QueueSize
               /\ w2 = Append(RemoveAt(w, Len(w) - QueueSize + 1), n)
<1> DEFINE b == Numbers(q)
           w == a \o b
           n == e.raw_data.n
<1>0. n \in Nat
  BY DEF Queue!Packet, RawPacket
<1>1. b \in Seq(Nat) /\ Len(b) = Len(q)
  BY NumbersTyped
<1> HIDE DEF b, n
<1>2. CASE AppendBounded(q, e, QueueSize) = Append(q, e)
  <2>1. Numbers(AppendBounded(q, e, QueueSize)) = Append(b, n)
    BY <1>2, NumbersOfAppend DEF b, n
  <2>2. a \o Append(b, n) = Append(w, n)
    BY <1>0, <1>1, ConcatAppend
  <2> QED BY <2>1, <2>2 DEF b, n
<1>3. CASE /\ Len(q) = QueueSize /\ q # <<>>
           /\ AppendBounded(q, e, QueueSize) = Append(Tail(q), e)
  <2>1. Tail(q) \in Seq(Queue!Packet)
    BY <1>3, HeadTailProperties
  <2>2. b # <<>> /\ Numbers(Tail(q)) = Tail(b)
    BY <1>3, NumbersOfTail DEF b
  <2>3. Numbers(AppendBounded(q, e, QueueSize)) = Append(Tail(b), n)
    BY <1>3, <2>1, <2>2, NumbersOfAppend DEF n
  <2>4. Tail(b) \in Seq(Nat)
    BY <1>1, <2>2, HeadTailProperties
  <2>5. a \o Append(Tail(b), n) = Append(a \o Tail(b), n)
    BY <1>0, <2>4, ConcatAppend
  <2>6. RemoveAt(w, Len(w) - Len(b) + 1) = a \o Tail(b)
    BY <1>1, <2>2, ConcatCut DEF RemoveAt
  <2>7. Len(w) >= QueueSize
    <3>1. Len(w) = Len(a) + Len(b) /\ Len(a) \in Nat
      BY <1>1, ConcatProperties, LenProperties
    <3> QED BY <1>1, <1>3, <3>1, ProviderAssumption
  <2>8. Len(b) = QueueSize
    BY <1>1, <1>3
  <2> QED BY <2>3, <2>5, <2>6, <2>7, <2>8 DEF b, n
<1>4. QueueSize \in Nat \ {0}
  BY ProviderAssumption
<1> QED BY <1>2, <1>3, <1>4, AppendBoundedDrops

LEMMA ChannelStart == ProviderInit => Channel!ChannelInit
<1> SUFFICES ASSUME ProviderInit PROVE Channel!ChannelInit
  OBVIOUS
<1>1. queue = <<>> /\ stored = <<>> /\ puts = 0 /\ \A t \in Thread : todo[t] = <<>>
  BY DEF ProviderInit, Queue!QueueInit
<1>2. <<>> \in Seq(Queue!Packet)
  BY EmptySeq
<1>3. Waiting = <<>>
  BY <1>1, <1>2, NoneDraining, MappedWaiting, NumbersOfNone
<1>4. Kept = <<>>
  <2>1. Len(<<>>) = 0 /\ 1..0 = {}
    BY EmptySeq
  <2> QED BY <1>1, <2>1 DEF Kept
<1> QED BY <1>1, <1>3, <1>4 DEF Channel!ChannelInit, Kept

LEMMA ChannelStep == ServerInv /\ [ProviderNext]_providerVars => [Channel!ChannelNext]_(Channel!channelVars)
<1> SUFFICES ASSUME ServerInv, [ProviderNext]_providerVars
             PROVE  [Channel!ChannelNext]_(Channel!channelVars)
  OBVIOUS
<1>t. /\ queue \in Seq(Queue!Packet) /\ Len(queue) <= QueueSize /\ puts \in Nat
      /\ todo \in [Thread -> Seq(Queue!Packet)] /\ stored \in Seq(StoredRecord)
  BY DEF ServerInv, QueueInv, ThreadInv, StoreInv
<1>v. UNCHANGED <<puts, Waiting, Kept>> => UNCHANGED Channel!channelVars
  BY DEF Channel!channelVars, Kept
<1>0. ASSUME UNCHANGED <<queue, todo, puts, stored>>
      PROVE  UNCHANGED Channel!channelVars
  <2>1. Waiting' = Waiting
    BY <1>0, MappedWaiting
  <2>2. Kept' = Kept
    BY <1>0 DEF Kept
  <2> QED BY <1>0, <1>v, <2>1, <2>2
<1>1. CASE Startup \/ CaptureStep \/ Tick
  BY <1>0, <1>1 DEF Startup, CaptureStep, Tick, snifferVars, storeVars, threadVars
<1>2. ASSUME NEW s \in Sniffer, NEW k \in Kind, Receive(s, k)
      PROVE  UNCHANGED Channel!channelVars
  BY <1>0, <1>2 DEF Receive, storeVars, threadVars
<1>3. ASSUME NEW s \in Sniffer, PutHeld(s) PROVE Channel!Enter
  <2>1. /\ queue' = AppendBounded(queue, NextPacket(s), QueueSize) /\ puts' = puts + 1
        /\ NextPacket(s) \in Queue!Packet /\ NextPacket(s).raw_data.n = puts + 1
        /\ UNCHANGED <<todo, stored>>
    BY <1>3, PutAppends DEF ServerInv, NextPacket, PutHeld, storeVars, threadVars
  <2>2. queue' \in Seq(Queue!Packet)
    BY <1>t, <2>1, ProviderAssumption, AppendBoundedShifts
  <2>3. PICK a \in Seq(Nat) : Waiting = a \o Numbers(queue) /\ Waiting' = a \o Numbers(queue')
    <3>1. CASE \A t \in Thread : todo[t] = <<>>
      <4>1. Waiting = Numbers(queue) /\ Waiting' = Numbers(queue')
        BY <1>t, <2>1, <2>2, <3>1, NoneDraining, MappedWaiting
      <4>2. /\ Numbers(queue) = <<>> \o Numbers(queue) /\ Numbers(queue') = <<>> \o Numbers(queue')
            /\ <<>> \in Seq(Nat)
        BY <1>t, <2>2, NumbersTyped, ConcatEmptySeq, EmptySeq
      <4> QED BY <4>1, <4>2
    <3>2. ASSUME NEW t \in Thread, todo[t] # <<>>
          PROVE  \E a \in Seq(Nat) : Waiting = a \o Numbers(queue) /\ Waiting' = a \o Numbers(queue')
      <4>1. \A u \in Thread \ {t} : todo[u] = <<>>
        BY <3>2, OneHolds DEF ServerInv, ThreadInv, Holding
      <4>2. Waiting = Numbers(todo[t]) \o Numbers(queue) /\ Waiting' = Numbers(todo[t]) \o Numbers(queue')
        BY <1>t, <2>1, <2>2, <4>1, OneDraining, MappedWaiting
      <4>3. Numbers(todo[t]) \in Seq(Nat)
        BY <1>t, NumbersTyped
      <4> QED BY <4>2, <4>3
    <3> QED BY <3>1, <3>2
  <2>4. \/ Waiting' = Append(Waiting, puts + 1)
        \/ /\ Len(Waiting) >= QueueSize
           /\ Waiting' = Append(RemoveAt(Waiting, Len(Waiting) - QueueSize + 1), puts + 1)
    BY <1>t, <2>1, <2>3, PutEnters
  <2>5. Kept' = Kept
    BY <2>1 DEF Kept
  <2>6. \A w, i : Channel!RemoveAt(w, i) = RemoveAt(w, i)
    BY DEF Channel!RemoveAt, RemoveAt
  <2> QED BY <2>1, <2>4, <2>5, <2>6 DEF Channel!Enter, Kept
<1>4. ASSUME NEW t \in Thread, Poll(t) \/ \E b \in Button : Press(t, b)
      PROVE  UNCHANGED Channel!channelVars
  BY <1>0, <1>4 DEF Poll, Press, snifferVars, storeVars
<1>5. ASSUME NEW t \in Thread, ThreadStep(t) PROVE [Channel!ChannelNext]_(Channel!channelVars)
  <2>1. CASE BeginUpdate(t)
    <3>1. /\ todo' = [todo EXCEPT ![t] = queue] /\ queue' = <<>> /\ UNCHANGED <<puts, stored>>
          /\ provider_lock = None
      BY <2>1 DEF BeginUpdate, Queue!GetAll, storeVars
    <3>2. \A u \in Thread : todo[u] = <<>>
      BY <3>1, ProviderAssumption DEF ServerInv, ThreadInv, LockInv, Holding
    <3>3. Waiting = Numbers(queue)
      BY <1>t, <3>2, NoneDraining, MappedWaiting
    <3>4. todo'[t] = queue /\ \A u \in Thread \ {t} : todo'[u] = <<>>
      BY <1>t, <3>1, <3>2
    <3>5. queue' \in Seq(Queue!Packet)
      BY <3>1
    <3>6. Waiting' = Numbers(queue) \o Numbers(queue')
      BY <3>4, <3>5, OneDraining, MappedWaiting
    <3>7. Numbers(queue) \o <<>> = Numbers(queue)
      BY <1>t, NumbersTyped, ConcatEmptySeq
    <3>8. Waiting' = Waiting
      BY <3>1, <3>3, <3>6, <3>7, NumbersOfNone
    <3>9. Kept' = Kept
      BY <3>1 DEF Kept
    <3> QED BY <1>v, <3>1, <3>8, <3>9
  <2>2. CASE ProcessOne(t)
    <3> DEFINE p == InWork(t)
               q == todo[t]
    <3>1. /\ q \in Seq(Queue!Packet) /\ q # <<>> /\ step[t] = "process" /\ Head(q) = q[1]
          /\ stored' = Append(stored, MadeOf(p)) /\ MadeOf(p) \in StoredRecord
          /\ todo' = [todo EXCEPT ![t] = Tail(q)] /\ UNCHANGED <<queue, puts>>
      BY <2>2, ProcessTyped DEF ServerInv
    <3>2. MadeOf(p).n = q[1].raw_data.n
      BY <3>1 DEF InWork, MadeOf
    <3>3. \A u \in Thread \ {t} : todo[u] = <<>> /\ todo'[u] = <<>>
      BY <1>t, <3>1, OneHolds DEF ServerInv, ThreadInv, Holding
    <3>4. todo'[t] = Tail(q)
      BY <1>t, <3>1
    <3>5. Waiting = Numbers(q) \o Numbers(queue)
      BY <1>t, <3>3, OneDraining, MappedWaiting
    <3>6. Waiting' = Numbers(Tail(q)) \o Numbers(queue)
      <4>1. OnTheWay(todo', queue) = Numbers(todo'[t]) \o Numbers(queue)
        BY <1>t, <3>3, OneDraining
      <4> QED BY <3>1, <3>4, <4>1, MappedWaiting
    <3>7. /\ Numbers(q) \in Seq(Nat) /\ Numbers(queue) \in Seq(Nat) /\ Numbers(q) # <<>>
          /\ Numbers(q)[1] = q[1].raw_data.n /\ Numbers(Tail(q)) = Tail(Numbers(q))
      BY <1>t, <3>1, NumbersTyped, NumbersOfTail
    <3>8. /\ Waiting # <<>> /\ Head(Waiting) = q[1].raw_data.n /\ Waiting' = Tail(Waiting)
      <4> DEFINE a == Numbers(q)
                 b == Numbers(queue)
      <4>1. a \in Seq(Nat) /\ b \in Seq(Nat) /\ a # <<>>
        BY <3>7
      <4> HIDE DEF a, b
      <4>2. a \o b # <<>> /\ Head(a \o b) = a[1] /\ Tail(a \o b) = Tail(a) \o b
        BY <4>1, ConcatTail, Zenon
      <4>3. Waiting = a \o b /\ a[1] = q[1].raw_data.n /\ Waiting' = Tail(a) \o b
        BY <3>5, <3>6, <3>7, Zenon DEF a, b
      <4> QED BY <4>2, <4>3, Zenon
    <3>9. Kept' = Append(Kept, q[1].raw_data.n)
      BY <1>t, <3>1, <3>2, KeptGrows
    <3> QED BY <3>1, <3>8, <3>9 DEF Channel!ChannelNext, Channel!Deliver, Kept
  <2>3. CASE TurnResetsStore(t) \/ ClearStore(t)
    <3>1. stored' = <<>> /\ UNCHANGED <<queue, puts, todo>>
      BY <2>3 DEF TurnResetsStore, ClearStore, StoreReset, snifferVars
    <3>2. Kept' = <<>>
      <4>1. Len(<<>>) = 0 /\ 1..0 = {}
        BY EmptySeq
      <4> QED BY <3>1, <4>1 DEF Kept
    <3>3. Waiting' = Waiting
      BY <3>1, MappedWaiting
    <3> QED BY <3>1, <3>2, <3>3 DEF Channel!ChannelNext, Channel!Forget, Kept
  <2>4. CASE UNCHANGED <<queue, todo, puts, stored>>
    BY <1>0, <2>4
  <2> QED
    BY <1>5, <2>1, <2>2, <2>3, <2>4
       DEF ThreadStep, UpdateStats, Observe, Record, Build, Ask, Read, Respond, BeginToggle,
           EndToggle, BeginTurn, EndTurn, ClearStats, snifferVars, storeVars
<1>6. CASE UNCHANGED providerVars
  BY <1>0, <1>6 DEF providerVars
<1> QED
  BY <1>1, <1>2, <1>3, <1>4, <1>5, <1>6 DEF ProviderNext, Thread, Channel!ChannelNext

\* Sniffers, queue, processor and provider implement the channel: each step puts a
\* packet in, stores the first one, empties the store, or changes nothing that counts.
THEOREM ProviderIsChannel == ProviderSpec => IsChannel
BY ChannelStart, ChannelStep, ServerInvHolds, PTL
   DEF ProviderSpec, IsChannel, Channel!ChannelSpec
=============================================================================
