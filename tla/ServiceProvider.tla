---------------------------- MODULE ServiceProvider ----------------------------
(***************************************************************************)
(* services/service_provider.py with the callbacks that use it: threads of *)
(* the web server poll, toggle the connection, turn the direction and      *)
(* clear the logs, while sniffer threads fill the packet queue.  The       *)
(* provider's lock serialises all of these but clear_logs(); store, stats, *)
(* queue and capture service each take a lock of their own per call, so    *)
(* each of their calls is one step of the thread that makes it.            *)
(*                                                                         *)
(* The store is reduced to its records in order, with the direction each   *)
(* was captured in and that of the packet its jitter and loss were         *)
(* measured against, as if all packets had one message code.               *)
(***************************************************************************)
EXTENDS StatsService, SequencesExt

CONSTANTS Poller,        \* threads of the interval callback
          User,          \* threads of the buttons' callbacks
          Button,        \* bound: which of the buttons are pressed
          MaxSniffers,   \* bound on the sniffers created
          MaxLate,       \* bound on the packets one sniffer captures
          QueueSize,     \* maxlen of the packet queue, 1000
          StoreReads,    \* how often a response reads the store, 18 at most
          Kind           \* how packets parse: a subset of PacketKind

Thread == Poller \cup User

\* too short to parse; with a wrong checksum; sound
PacketKind == {"short", "damaged", "sound"}

ASSUME ProviderAssumption ==
  /\ Poller \cap User = {}
  /\ None \notin Thread /\ None # "service" /\ None \notin BOOLEAN
  /\ Kind \subseteq PacketKind
  /\ {StoreReads, MaxSniffers, MaxLate} \subseteq Nat /\ QueueSize \in Nat \ {0}
  /\ Button \subseteq {"toggle", "direction", "clear"}

VARIABLES lock, direction, sniffer, created, filter, running, thread, received,
          late, pc,                               \* CaptureService
          queue, last_packet,                     \* PacketQueue
          held,              \* the packet a sniffer thread is about to put
          puts,              \* how many packets were put into the queue
          stored,            \* self._records of the store
          remembered,        \* direction of the packet NetworkMetrics remembers
          last_connection_state,  \* of the store's connection history
          provider_lock,     \* self._lock
          step,              \* where each thread is
          todo,              \* the rest of the list get_all() returned to it
          result,            \* its BatchProcessResult so far
          observed,          \* what is_connected() told it
          response,          \* what its response read of the store: newest packets
          shown,             \* `connected` of the latest response
          overlapped         \* history: did a clear_logs() run into another operation,
                             \* with no reset since that ran into none?

captureVars == <<lock, direction, sniffer, created, filter, running, thread,
                 received, late, pc>>
snifferVars == <<captureVars, queue, last_packet, held, puts>>
storeVars == <<stored, remembered, last_connection_state>>
threadVars == <<provider_lock, step, todo, result, observed, response, shown>>
providerVars == <<lock, direction, sniffer, created, filter, running, thread,
                  received, late, pc, queue,
                  last_packet, held, puts, stored, remembered,
                  last_connection_state, provider_lock, step, todo, result,
                  observed, response, shown, overlapped, total_packets,
                  parse_success, checksum_fail, packet_age, last_payload>>

\* Calls of the capture service come one at a time, under the provider's lock.
Service == "service"
Sniffer == 1..MaxSniffers

Capture == INSTANCE CaptureService WITH Caller <- {Service}

\* The n-th packet put carries its number, direction and kind.
RawPacket == [n : Nat, direction : {"status", "control"}, kind : PacketKind]
Queue == INSTANCE PacketQueue
           WITH Time <- {0}, Raw <- RawPacket, MaxSize <- QueueSize, NoPacket <- None

NoResult ==
  [count |-> 0, success_count |-> 0, checksum_fail_count |-> 0, last_payload |-> None]

ProviderInit ==
  /\ Capture!CaptureInit /\ Queue!QueueInit /\ StatsInit
  /\ held = [s \in Sniffer |-> None] /\ puts = 0
  /\ stored = <<>> /\ remembered = None /\ last_connection_state = None
  /\ provider_lock = None
  /\ step = [t \in Thread |-> "idle"]
  /\ todo = [t \in Thread |-> <<>>]
  /\ result = [t \in Thread |-> NoResult]
  /\ observed = [t \in Thread |-> FALSE]
  /\ response = [t \in Thread |-> <<>>]
  /\ shown = None /\ overlapped = FALSE

-----------------------------------------------------------------------------
(* The capture side *)

\* create_app() starts the capture before the server takes requests.
Startup ==
  /\ created = 0
  /\ Capture!Call(Service, "start")
  /\ UNCHANGED <<queue, last_packet, held, puts, storeVars, statsVars,
                 threadVars, overlapped>>

\* A thread of the capture service or of a sniffer that touches nothing else.
CaptureStep ==
  /\ \/ Capture!CallerStep(Service)
     \/ \E s \in Sniffer : Capture!ThreadOpens(s) \/ Capture!ThreadFails(s)
                           \/ Capture!ThreadChecks(s)
  /\ UNCHANGED <<queue, last_packet, held, puts, storeVars, statsVars,
                 threadVars, overlapped>>

Receive(s, k) ==
  /\ Capture!ThreadReceives(s)
  /\ held' = [held EXCEPT ![s] = [direction |-> filter[s], kind |-> k]]
  /\ UNCHANGED <<queue, last_packet, puts, storeVars, statsVars, threadVars,
                 overlapped>>

PutHeld(s) ==
  /\ Capture!ThreadPuts(s)
  /\ Queue!Put([capture_time |-> 0,
                raw_data |-> [n |-> puts + 1, direction |-> held[s].direction,
                              kind |-> held[s].kind]])
  /\ puts' = puts + 1
  /\ held' = [held EXCEPT ![s] = None]
  /\ UNCHANGED <<storeVars, statsVars, threadVars, overlapped>>

-----------------------------------------------------------------------------
(* The store, as far as the provider uses it *)

\* _process_one(): the packet is parsed and added to the store.
Process(p) ==
  /\ stored' = Append(stored, [n |-> p.n, direction |-> p.direction,
                               kind |-> p.kind, against |-> remembered])
  /\ remembered' = p.direction
  /\ UNCHANGED last_connection_state

\* What a read of the store shows, by its newest packet.
Newest == IF stored = <<>> THEN 0 ELSE Last(stored).n

StoreReset ==
  stored' = <<>> /\ remembered' = None /\ last_connection_state' = None

\* What process_pending() adds to its result for the packet.
Tally(r, p) ==
  [count               |-> r.count + 1,
   success_count       |-> r.success_count + (IF p.kind # "short" THEN 1 ELSE 0),
   checksum_fail_count |-> r.checksum_fail_count + (IF p.kind # "sound" THEN 1 ELSE 0),
   last_payload        |-> IF p.kind # "short" THEN p.n ELSE r.last_payload]

-----------------------------------------------------------------------------
(* Threads of the web server *)

Go(t, s) == step' = [step EXCEPT ![t] = s]

\* Threads for which a sniffer may yet be created (for the bound).
Reserving == {t \in Thread : step[t] \in
               {"toggle", "toggling", "direction", "reset_store", "turning"}}

\* Is another thread between storing packets and counting them, or between the
\* resets of store and stats?
HalfDone(t) == \E u \in Thread \ {t} :
  step[u] \in {"process", "reset_store", "clear_stats"}

Overlap(t) == overlapped' = (overlapped \/ HalfDone(t))

\* The interval fires.
Poll(t) ==
  /\ step[t] = "idle" /\ created > 0
  /\ Go(t, "update")
  /\ UNCHANGED <<snifferVars, storeVars, statsVars, provider_lock, todo, result,
                 observed, response, shown, overlapped>>

\* A button is pressed.
Press(t, b) ==
  /\ step[t] = "idle" /\ created > 0
  /\ b # "clear" => created + Cardinality(Reserving) < MaxSniffers
  /\ Go(t, b)
  /\ UNCHANGED <<snifferVars, storeVars, statsVars, provider_lock, todo, result,
                 observed, response, shown, overlapped>>

\* ---- update_data()

\* Mutation of BeginUpdate: update_data() without the provider's lock.
BeginUpdateUnlocked(t) ==
  /\ step[t] = "update"
  /\ UNCHANGED provider_lock
  /\ Queue!GetAll
  /\ todo' = [todo EXCEPT ![t] = queue]
  /\ shown' = None
  /\ Go(t, "process")
  /\ UNCHANGED <<captureVars, held, puts, storeVars, statsVars, result, observed, response, overlapped>>

\* Mutation of BeginUpdate: nothing is done while the capture is off.
BeginUpdateRunning(t) ==
  /\ step[t] = "update" /\ provider_lock = None
  /\ IF Capture!IsRunning
     THEN /\ provider_lock' = t
          /\ Queue!GetAll
          /\ todo' = [todo EXCEPT ![t] = queue]
          /\ Go(t, "process")
     ELSE /\ Go(t, "idle")
          /\ UNCHANGED <<queue, last_packet, provider_lock, todo>>
  /\ shown' = None
  /\ UNCHANGED <<captureVars, held, puts, storeVars, statsVars, result, observed, response, overlapped>>

BeginUpdate(t) ==
  /\ step[t] = "update" /\ provider_lock = None
  /\ provider_lock' = t
  /\ Queue!GetAll
  /\ todo' = [todo EXCEPT ![t] = queue]
  /\ shown' = None
  /\ Go(t, "process")
  /\ UNCHANGED <<captureVars, held, puts, storeVars, statsVars, result, observed, response, overlapped>>

\* process_pending(): one round of its loop.
ProcessOne(t) ==
  /\ step[t] = "process" /\ todo[t] # <<>>
  /\ LET p == Head(todo[t]).raw_data
     IN /\ Process(p)
        /\ result' = [result EXCEPT ![t] = Tally(@, p)]
  /\ todo' = [todo EXCEPT ![t] = Tail(@)]
  /\ Overlap(t)
  /\ UNCHANGED <<snifferVars, statsVars, provider_lock, step, observed, response, shown>>

UpdateStats(t) ==
  /\ step[t] = "process" /\ todo[t] = <<>>
  /\ Update(result[t])
  /\ result' = [result EXCEPT ![t] = NoResult]
  /\ Go(t, "observe")
  /\ Overlap(t)
  /\ UNCHANGED <<snifferVars, storeVars, provider_lock, todo, observed, response, shown>>

Observe(t) ==
  /\ step[t] = "observe"
  /\ observed' = [observed EXCEPT ![t] = IsConnected]
  /\ Go(t, "record")
  /\ UNCHANGED <<snifferVars, storeVars, statsVars, provider_lock, todo, result,
                 response, shown, overlapped>>

\* record_connection_change()
Record(t) ==
  /\ step[t] = "record"
  /\ last_connection_state' = observed[t]
  /\ observed' = [observed EXCEPT ![t] = FALSE]
  /\ Go(t, "build")
  /\ UNCHANGED <<snifferVars, stored, remembered, statsVars, provider_lock, todo,
                 result, response, shown, overlapped>>

\* _build_data() reads is_running, and is_connected() only if that is true.
Build(t) ==
  /\ step[t] = "build"
  /\ Go(t, IF Capture!IsRunning THEN "ask" ELSE "read")
  /\ UNCHANGED <<snifferVars, storeVars, statsVars, provider_lock, todo, result,
                 observed, response, shown, overlapped>>

Ask(t) ==
  /\ step[t] = "ask"
  /\ observed' = [observed EXCEPT ![t] = IsConnected]
  /\ Go(t, "read")
  /\ UNCHANGED <<snifferVars, storeVars, statsVars, provider_lock, todo, result,
                 response, shown, overlapped>>

\* predict() and then build() read the store, each time under its lock alone.
Read(t) ==
  /\ step[t] = "read" /\ Len(response[t]) < StoreReads
  /\ response' = [response EXCEPT ![t] = Append(@, Newest)]
  /\ UNCHANGED <<snifferVars, storeVars, statsVars, provider_lock, step, todo,
                 result, observed, shown, overlapped>>

Respond(t) ==
  /\ step[t] = "read" /\ Len(response[t]) = StoreReads
  /\ shown' = observed[t]
  /\ observed' = [observed EXCEPT ![t] = FALSE]
  /\ response' = [response EXCEPT ![t] = <<>>]
  /\ provider_lock' = None
  /\ Go(t, "idle")
  /\ UNCHANGED <<snifferVars, storeVars, statsVars, todo, result, overlapped>>

\* ---- on_connection_toggle(): toggle_connection(), then update_data()

\* Mutation of BeginToggle: toggle_connection() without the provider's lock.
BeginToggleUnlocked(t) ==
  /\ step[t] = "toggle"
  /\ Capture!Call(Service, "toggle")
  /\ Go(t, "toggling")
  /\ UNCHANGED <<queue, last_packet, held, puts, storeVars, statsVars, todo, result,
                 provider_lock, observed, response, shown, overlapped>>

BeginToggle(t) ==
  /\ step[t] = "toggle" /\ provider_lock = None
  /\ provider_lock' = t
  /\ Capture!Call(Service, "toggle")
  /\ Go(t, "toggling")
  /\ UNCHANGED <<queue, last_packet, held, puts, storeVars, statsVars, todo, result,
                 observed, response, shown, overlapped>>

\* reset_stream_state(), and on to update_data()
EndToggle(t) ==
  /\ step[t] = "toggling" /\ pc[Service] = "idle"
  /\ remembered' = None
  /\ provider_lock' = None
  /\ Go(t, "update")
  /\ UNCHANGED <<snifferVars, stored, last_connection_state, statsVars, todo, result,
                 observed, response, shown, overlapped>>

\* ---- toggle_direction()

BeginTurn(t) ==
  /\ step[t] = "direction" /\ provider_lock = None
  /\ provider_lock' = t
  /\ StatsReset
  /\ Go(t, "reset_store")
  /\ UNCHANGED <<snifferVars, storeVars, todo, result, observed, response, shown,
                 overlapped>>

TurnResetsStore(t) ==
  /\ step[t] = "reset_store"
  /\ StoreReset
  /\ Capture!Call(Service, "direction")
  /\ Go(t, "turning")
  /\ overlapped' = FALSE
  /\ UNCHANGED <<queue, last_packet, held, puts, statsVars, provider_lock, todo,
                 result, observed, response, shown>>

EndTurn(t) ==
  /\ step[t] = "turning" /\ pc[Service] = "idle"
  /\ provider_lock' = None
  /\ Go(t, "idle")
  /\ UNCHANGED <<snifferVars, storeVars, statsVars, todo, result, observed, response, shown, overlapped>>

\* ---- clear_logs(), without the provider's lock

ClearStore(t) ==
  /\ step[t] = "clear"
  /\ StoreReset
  /\ Go(t, "clear_stats")
  /\ overlapped' = HalfDone(t)
  /\ UNCHANGED <<snifferVars, statsVars, provider_lock, todo, result, observed, response,
                 shown>>

ClearStats(t) ==
  /\ step[t] = "clear_stats"
  /\ StatsReset
  /\ Go(t, "idle")
  /\ Overlap(t)
  /\ UNCHANGED <<snifferVars, storeVars, provider_lock, todo, result, observed, response,
                 shown>>

-----------------------------------------------------------------------------

Tick ==
  /\ packet_age' = Older(packet_age)
  /\ packet_age' # packet_age
  /\ UNCHANGED <<snifferVars, storeVars, countVars, last_payload, threadVars, overlapped>>

ThreadStep(t) ==
  \/ BeginUpdate(t) \/ ProcessOne(t) \/ UpdateStats(t) \/ Observe(t)
  \/ Record(t) \/ Build(t) \/ Ask(t) \/ Read(t) \/ Respond(t)
  \/ BeginToggle(t) \/ EndToggle(t)
  \/ BeginTurn(t) \/ TurnResetsStore(t) \/ EndTurn(t)
  \/ ClearStore(t) \/ ClearStats(t)

ProviderNext ==
  \/ Startup \/ CaptureStep
  \/ \E s \in Sniffer, k \in Kind : Receive(s, k)
  \/ \E s \in Sniffer : PutHeld(s)
  \/ \E t \in Poller : Poll(t)
  \/ \E t \in User, b \in Button : Press(t, b)
  \/ \E t \in Thread : ThreadStep(t)
  \/ Tick

\* The browser polls for as long as the page is open and not paused, every
\* thread that can run does, sniffers hand over what they hold, time passes.  A
\* poll that waits for the provider's lock gets it in the end: whoever presses
\* buttons leaves it free for longer than a waiting thread takes to wake up.
ProviderFairness ==
  /\ WF_providerVars(Startup)
  /\ WF_providerVars(CaptureStep)
  /\ \A s \in Sniffer : WF_providerVars(PutHeld(s))
  /\ \A t \in Poller : WF_providerVars(Poll(t))
  /\ \A t \in Thread : WF_providerVars(ThreadStep(t))
  /\ \A t \in Thread : SF_providerVars(BeginUpdate(t))
  /\ WF_providerVars(Tick)

ProviderSpec ==
  ProviderInit /\ [][ProviderNext]_providerVars /\ ProviderFairness

-----------------------------------------------------------------------------

\* A response shows one state of the store, however often it reads it: what it
\* reads later is what it read before, or nothing, if a clear_logs() came between.
\* (The chart may come from its cache; RecordsTrace says how old that can be.)
ResponseIsOneState ==
  \A t \in Thread : \A i, j \in 1..Len(response[t]) :
    i < j => response[t][j] \in {response[t][i], 0}

\* The packets on their way to the store, and those it got: what a thread still
\* has of its batch, and the queue behind that.
Batch(t) == [i \in 1..Len(todo[t]) |-> todo[t][i].raw_data.n]
Waiting ==
  LET draining == {t \in Thread : todo[t] # <<>>}
  IN (IF draining = {} THEN <<>> ELSE Batch(CHOOSE t \in draining : TRUE))
     \o [i \in 1..Len(queue) |-> queue[i].raw_data.n]

Channel == INSTANCE TelemetryChannel
  WITH Capacity <- QueueSize, entered <- puts, waiting <- Waiting,
       kept <- [i \in 1..Len(stored) |-> stored[i].n]

\* Queue, processor and provider together are a channel: every packet put goes to
\* the store once and in the order of the puts, but for the oldest in a full queue,
\* though the threads of the server drain the queue and store one packet at a time.
IsChannel == Channel!ChannelSpec

\* The counts of an update under way.
InFlight ==
  LET busy == {t \in Thread : result[t] # NoResult}
  IN IF busy = {} THEN NoResult ELSE result[CHOOSE t \in busy : TRUE]

Stored(kinds) == Cardinality({i \in 1..Len(stored) : stored[i].kind \in kinds})

NewestPayload ==
  LET n == {stored[i].n : i \in {j \in 1..Len(stored) : stored[j].kind # "short"}}
  IN IF n = {} THEN None ELSE Max(n)

LatestPayload ==
  IF InFlight.last_payload # None THEN InFlight.last_payload ELSE last_payload

\* The counters of the stats service and those of an update under way together
\* count exactly the records of the store, by kind, and the payload on display is
\* that of its newest record with one - but while a thread is between the two
\* resets, and but after a clear_logs() that ran into another operation, which it
\* can, for it takes no lock: then until the next clear that runs into none, or turn.
StatsMatchStore ==
  ~overlapped /\ (\A t \in Thread : step[t] \notin {"reset_store", "clear_stats"}) =>
    /\ total_packets + InFlight.count = Len(stored)
    /\ parse_success + InFlight.success_count = Stored({"damaged", "sound"})
    /\ checksum_fail + InFlight.checksum_fail_count = Stored({"short", "damaged"})
    /\ LatestPayload = NewestPayload

\* Whatever a clear_logs() ran into, once no thread is between the two resets no
\* counter exceeds the records of the store by more than one batch of an update: a
\* clear in the middle of one takes away records that are counted afterwards.
CountersLeadByABatch ==
  (\A t \in Thread : step[t] \notin {"reset_store", "clear_stats"}) =>
    /\ total_packets + InFlight.count <= Len(stored) + QueueSize
    /\ parse_success + InFlight.success_count <= Stored({"damaged", "sound"}) + QueueSize
    /\ checksum_fail + InFlight.checksum_fail_count
         <= Stored({"short", "damaged"}) + QueueSize

\* service_provider.py:134, "when the capture is off, the data shows disconnected
\* at once": no response that was built while the capture was being turned off,
\* or after, says connected.
OffIsShown == [][ shown # TRUE /\ shown' = TRUE => sniffer # None ]_shown

\* Every packet in the queue is taken to the store or overwritten, whatever is
\* pressed: no button and no failing sniffer stops the draining for ever.
QueueIsDrained == queue # <<>> ~> queue = <<>>

\* When packets stop coming, the connection is recorded as lost.  (The bounds on
\* sniffers and their packets make them stop in every behaviour of the model.)
SilenceIsNoticed == <>[](last_connection_state # TRUE)

\* packet_store.py:507, the stream state is reset "to prevent jitter pollution when
\* the direction is turned": no packet is measured against one of the other
\* direction.
MeasuredWithinDirection ==
  \A i \in 1..Len(stored) : stored[i].against \in {None, stored[i].direction}
=============================================================================
