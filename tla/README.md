# UGV-MON in TLA+

A verification project for the UGV monitoring dashboard (`src/ugv_mon`): a Dash
web application that sniffs UDP datagrams of a vehicle, parses them, keeps an
hour of packet records with jitter and loss, and shows the state of the link, of
the vehicle and of an anomaly detector in a browser.

The modules model the live path from the network interface to the response that
the browser polls. TLC checks them on small instances; TLAPS proves the theorems
listed below for every value of the constants. `PROJECT.json` maps every
definition to the source lines it stands for, and every property to a mutation
of the code that breaks it.

    tlc -workers 2 -config MCQueueHistory.cfg MCQueueHistory
    tlapm PipelineProofs.tla

## 1. The system

    interface --> sniffer thread --> PacketQueue --> PacketProcessor --> PacketStore
                  (CaptureService)                   (ICDParser)             |
                        ^                                 ^                  v
                        | toggle, turn                    | update_data   statistics, chart,
                        |                                 |               histories, ML
                    ServiceProvider <--- callbacks of the web server's threads <--- browser

| Part | State | Operations | Hard behaviour |
|---|---|---|---|
| `pipeline/queue.py` PacketQueue | deque of 1000, last packet | put, get_all, clear | duplicate check across overflow and draining |
| `pipeline/sniffer.py` PacketSniffer | `_running`, thread | start, stop, capture loop | stop filter runs only after a packet; join gives up after 2 s |
| `services/capture_service.py` CaptureService | lock, ports, sniffer | start, stop, toggle, toggle_direction | threads that outlive their sniffer, a lock that is held across a join |
| `pipeline/icd_parser.py` ICDParser | four counters | parse, reset_stats | truncated and damaged datagrams, packed bit fields |
| `pipeline/processor.py` PacketProcessor | none of its own | process_pending | a batch is stored packet by packet |
| `store/packet_store.py` NetworkMetrics | last packet and loss per message code | calculate, reset | four-bit numbers, restarts, reordering |
| same file, PacketStore: records | deque with window, chart cache | add, prune, reset, statistics | late captures, cached chart, percentiles |
| same file, PacketStore: journal | connection and mode histories, emergencies | record_*, reset | histories that are cut |
| `services/stats_service.py` StatsService | counters, time of last packet, last payload | update, reset, is_connected | which time counts |
| `services/service_provider.py` ServiceProvider | lock | update_data, toggle_connection, toggle_direction, clear_logs | concurrent callbacks, one of which takes no lock |
| `callbacks/update_callbacks.py` | stores of the page in the browser | poll, buttons, pause, drag | requests that overtake each other |
| `services/ml_service.py`, `analysis/ml_pipeline.py` | two histories, result cache | predict, train, reset | clearing during a prediction, training that fails |
| `analysis/ml_anomaly_detector.py` | forest, fitted or not; model file | fit, predict, save, load | crash while saving |
| `analysis/feature_extractor.py` | the last rate | extract, extract_batch | training and live rows that differ |
| `analysis/rule_detector.py` | none | detect | none |
| `services/dashboard_builder.py` | none | build | up to eighteen reads of the store for one response, each under its lock alone |
| `ui/panels/`, `ui/ml/` | none | rows, lamps, colours and regions of what the builder hands them | lists cut three times; scores compared anew with the threshold of the moment |
| `ui/layouts/`, `ui/components/`, `styles.py` | the stores of the page | rendering | none |
| `mock/mock_data.py` | random demo state | demo data | buttons that have no effect; a list that polls share without a lock |

**Interaction.** The server runs callbacks in threads of its own. `update_data`,
`toggle_connection` and `toggle_direction` hold the provider's lock from end to
end; `clear_logs` does not. So the capture service, which gives its lock free in the
middle of `toggle` and `toggle_direction`, has one caller at a time in this program;
what the `capture` run and its theorems show for several holds of the class. Queue, store, stats service and capture service have
a lock each that they take per call. Sniffer threads share with the rest only the
queue and their own `_running`.

**What makes the parts correct.** The queue loses only the oldest packets and
never delivers one capture twice in a row. A sniffer that is not the service's own
stops. The loss is what the stream lost, the jitter what the definition over the
whole history says. The records are the newest part of what was added. The chart
is at most a second old. The histories are coherent after being cut. The counters
of the stats service are those of the stored records, except between two resets and
except after a `clear_logs` that ran into another operation: then they exceed the
records by at most a batch, until the next clear that runs into none, or turn. The
journal tells what the records tell. From the sniffers to the store, packets go once and in order. A
response shows one state of the store, and one built while the capture is off does not
say connected. The panels show the present state on top of how it came about. Time line and chart of the anomaly scores show the same predictions and
paint what the forest found; a model in use is one that was fitted or saved as a whole; a rule that is broken is an anomaly
whatever the forest says. The browser comes to show what the server has, and a
paused screen stands still.

## 2. Modules

| Module | Models | How |
|---|---|---|
| `BoundedSeq` | bounded deques and lists cut to their last n items | operators |
| `PacketQueue` | `pipeline/queue.py` | one action per method |
| `LossyFifo` | what the queue promises: a FIFO that may lose from its head or refuse an item | abstract specification |
| `QueueHistory` | the queue with the sequences of what was put and delivered; refines `LossyFifo` | history variables |
| `NetworkMetrics` | class `NetworkMetrics`; `JitterOf`, `LossOf`, `NextPrev` are the three results of `calculate` | operators and two actions |
| `TelemetryStream` | `NetworkMetrics` fed by a sender that numbers its packets and a network that loses, repeats and delays them | composition with the environment |
| `PacketRecords` | records, window, chart cache | extends `NetworkMetrics` |
| `StoreStats` | statistics and the per-second training history | operators over the records |
| `RecordsTrace` | the store with the trace of every record added | history variables |
| `StoreJournal` | connection and mode histories, emergency counts | one action per method |
| `PacketProcessor` | `processor.py` with the journal: one action per call it makes of the store; extends `StoreJournal` | composition; `clear_logs` comes between any two calls |
| `HistoryPanels` | `ui/panels/history.py`, `_common.py` with the reads of the store and the builder | operators over the histories of `StoreJournal` |
| `FeatureExtractor` | `feature_extractor.py` over the statistics of `StoreStats` | operators |
| `CaptureService` | `capture_service.py` with the sniffer threads | each `with self._lock` block is an action, split at the join |
| `ICDParser` | the parser with a sender and a damaging network, and the lamps and devices that a payload lights | byte sequences |
| `StatsService` | `stats_service.py` | time is the age of the last packet |
| `TelemetryChannel` | what the way from the sniffers to the store promises: once, in order, the oldest lost first | abstract specification |
| `ServiceProvider` | provider, callbacks, processor loop, the builder's reads; instantiates `CaptureService` and `PacketQueue`, extends `StatsService`, refines `TelemetryChannel` | one action per call that takes a lock |
| `MLCharts` | `_split_by_status` and `_find_anomaly_regions` of `ui/ml/` | operators |
| `MLService` | `ml_service.py`, `ml_pipeline.py`, `rule_detector.py`, the life cycle of `ml_anomaly_detector.py` and its file | one action per step of `predict()`; crash and restart of the process |
| `DashboardClient` | `update_callbacks.py`: a browser tab, its requests, the answers; live or with `mock_data.py` | one action per callback, per answer and per drawing |

`MC*` modules and `.cfg` files give the constants small values. `*Proofs` modules
hold the theorems: `BoundedSeqProofs` (lemmas about bounded sequences, their ends,
selections from them, least numbers and functions given by recursion), `PipelineProofs`
(queue, `QueueHistory` and parser),
`CaptureServiceProofs`, `ProcessorProofs` (journal, processor, panels), `RecordsProofs`
(stream, records, features), `ServiceProviderProofs`, `MLServiceProofs` and
`DashboardClientProofs`. Definitions whose comment says "Mutation of ..." are faulty
variants kept next to the definition they vary; no specification uses them.

Names follow the source (`prev_by_msgcode`, `last_connection_state`,
`toggle_direction`'s button is `"direction"`). Python's `None` is a model value.

**Data that is abstracted.** Raw datagrams in the queue are model values, since
only their equality matters there; they are bytes in `ICDParser` only. Times are
integers in one unit. `packet_age` counts up to the timeout. A `PacketRecord` has
the fields the statistics use; labels, sizes and formatted strings are left out.
In `ServiceProvider` the store is reduced to its records in order, each with the
direction it was captured in and that of the packet its jitter was measured
against, as if both directions used one message code (packets too short to parse
always do: code 0; heartbeats may). In `PacketProcessor` a packet is what the parser
makes of it, and in `ServiceProvider` a payload is the number of its packet. What a
response reads of the store is told by the newest record it sees. The forest of `MLService` may return any verdict of a small set; its
rates, scores, thresholds and confidences are percentages. Time stamps of its
histories are left out; an entry carries the epoch it was begun in instead. The server of `DashboardClient` is
reduced to what a browser can tell two answers apart by: the connection, the
direction and how often the store was emptied.

**Steps.** Every method that runs under one lock is one step. Two waits split
methods: the join of a sniffer thread, which the model may end at any moment
because its timeout may fire at any moment, and the calls `update_data`,
`toggle_direction` and `clear_logs` make one after the other, each of which takes
another lock. `toggle` reads `is_running` in one step and acts in another, as
the code does. `predict()` is split at every call after which `clear_logs` can be
seen, and `save()` at what a crash can leave in the file. In the browser a request
takes its State when it is sent, and the callbacks that draw run after the data
changed, so that what is shown trails what is stored.

## 3. Runs

| Run | Question | States |
|---|---|---|
| `queue_history` | Does the queue hold no repeat and implement `LossyFifo`: lose only what it may, in order? | 11 thousand |
| `stream` | Is the loss exact in order, and never too small out of order? | 1.0 million |
| `records` | Deque, window, chart cache, jitter, features and training history, cut to its last seconds or whole, against the trace of all that was added | 1.7 million |
| `processor` | Are the histories coherent when cut and reset, do they tell what the records tell, and do the panels tell the present state and how it came about? | 3.6 million |
| `capture` | Can a sniffer be left running, capture the wrong direction, or put more than one packet after it was stopped? Is the lock always released? | 50 thousand |
| `parser` | Is what was sent what is read, and what the lamps show? Is damage noticed? Is each counter that of the datagrams parsed, kind by kind? | 0.10 million |
| `provider_order` | Does each response show one state? Do counters and payload belong to the records, and by how much can the counters exceed them after a clear? No "connected" after turning off? Do queue, processor and provider implement `TelemetryChannel`? | 1.6 million |
| `provider_liveness` | Is the queue drained, is silence noticed? | 0.25 million |
| `ml` | Do time line and chart agree with each other and with the forest, is the model in use a whole one, is each verdict the forest's, does neither detector silence the other, is a model ever fitted? | 0.91 million |
| `client` | Does a paused screen hold, and does the screen settle on what the server has, live and with mock data? | 0.37 million |
| `provider_direction`, `ml_restart` | expected violations, see section 6 | |

**Bounds and why they are enough.**

- *Queue*: two places, three datagrams, five puts: every packet can be overwritten,
  repeated at both ends, and drained in between.
- *Stream*: three packets of two message codes. Bursts of 14 make the gap of 15, the
  largest the number can tell, and let numbers reach 44, two wraps. The code whose
  packets come late has bursts of up to 9 and a lag of up to 5: together 14, the most at
  which four bits still tell a late packet from one far ahead. One pause is longer than
  the restart gap.
- *Records*: four records of two message codes against a deque of three, a window of
  three time units, captures one unit late, and steps of the clock below and above the
  restart gap, the cache lifetime and the window. Four records are needed for a jitter
  that a restart must not see. The sender starts at time 0. Numbers skip two per time unit, and at time 4 none or two,
  so that losses within and between seconds occur and two packets of one time may differ. A second is two
  units long, so that the store spans up to three of them; the training history is
  asked for one, which cuts it, and for two, which cuts it or takes it whole, where the
  program asks a store of 3600 seconds for 120.
- *Processor*: batches of two, four records between resets, so that three transitions
  meet a history of two. Four connection entries are kept, three read, two shown: each
  cut is at work, in the order of the program's 100, 10 and 5. The modes are symmetric.
  Durations are 0, which is shown blank, or 1.
- *Capture*: two callers reach every pair of operations; three sniffers allow one
  zombie beside two others; two packets per thread let a stopped one try a second.
- *Parser*: one datagram at a time with every byte damaged in two ways (a low and
  the top bit) and every truncation; two parses make the counters differ. The payload is
  scaled from 87 bytes to 6, one more than the parser reads; the fields take their
  smallest and largest values with the unused bits both ways.
- *Provider*: one polling thread and one of the buttons, two sniffers, a queue of
  two, two packets each (one in the liveness run): packets overflow, wait, or come
  from a stopped sniffer. All three buttons are pressed in both runs. A response reads
  the store twice instead of eighteen times: if any two reads differ, so can two neighbours.
- *ML*: two seconds of history are enough to fit, three records and two scores are
  kept, two of each shown, so that the records are cut and shown in part; the process
  starts twice, so that a file of one run meets the next; the store's statistics break
  a rule or none, the forest says yes or no, with a score
  that only the default threshold would call an anomaly, with one below its own, and with
  one that was rounded to it.
- *Client*: two requests under way overtake each other; two clicks make a double
  click or two buttons; one drag and one reload at any moment. A request takes a free slot, it does not matter
  which. The mode is chosen at the start, as the program does.

Deadlock is checked in `provider_*` and `client`, where polling never ends. The other
models stop at their bounds.

**Fairness.** `CaptureFairness`: every caller inside an operation goes on, and a
sniffer thread that holds a packet hands it over and checks the stop filter. The
interpreter's scheduler justifies both. Packets need not arrive, so a stopped
thread may wait for ever. `ProviderFairness` adds that the browser's interval
fires again and again (the page is open and not paused), that server threads run,
that time passes, and that an update which is ready again and again gets the
provider's lock: whoever presses buttons for ever leaves it free for longer than a
poll needs. Without that, one who turns the direction without end while the capture
is off keeps every poll out. Nothing is assumed of the interface. `MLSpec`: a call of
`predict()` goes on, and the next one comes. `ClientFairness`: the interval fires,
requests are served, answers arrive and are drawn, a drag is over after 2.5 seconds,
and not every poll is overtaken by the next, which is sent two seconds later.

## 4. Proofs

| Theorem | States | Assumes of the constants |
|---|---|---|
| `PipelineProofs!QueueTypeCorrect` | `[]QueueTypeOK` | `MaxSize` positive, `NoPacket` no packet |
| `PipelineProofs!NoRepeatCorrect` | `[]NoRepeatInQueue` | same |
| `PipelineProofs!TailCorrect` | `[]TailIsLastPacket` | same |
| `PipelineProofs!HistoryUsesQueue` | `HistorySpec => QueueSpec` | and a number for each put |
| `PipelineProofs!QueueImplementsLossyFifo` | `HistorySpec => ImplementsLossyFifo` | same |
| `PipelineProofs!ParserDecodes`, `OneByteOfDamageIsNoticed`, `ParserTypeCorrect`, `ParserCountersAddUp` | `[]DecodesWhatWasSent`, `[]DamageIsNoticed`, `[]ParserTypeOK`, `[]CountersAddUp` | a payload of 5 to 255 bytes, frame fields within their widths, damage that changes its byte, `None` neither header nor payload |
| `CaptureServiceProofs!CaptureInvHolds` | `[]CaptureInv` of the safety part `CaptureSteps` | bounds natural numbers, `None` no caller, number or boolean |
| `CaptureServiceProofs!OnlyCurrentCorrect`, `FilterCorrect`, `OneLateCorrect` | `[]OnlyCurrentRuns`, `[]FilterFollowsDirection`, `[]OneLatePacket` | same |
| `ProcessorProofs!JournalTypeCorrect` | `[]JournalTypeOK` | both maxima positive, `None` no mode, boolean or integer |
| `ProcessorProofs!AlternationCorrect`, `TilingCorrect`, `ChainCorrect` | `[]ConnectionsAlternate`, `[]DurationsTile`, `[]TransitionsChain` | same |
| `ProcessorProofs!ProcessorUsesJournal` | `ProcessorSpec => JournalSpec` | and of a parse result: it has sources if and only if it has a mode |
| `ProcessorProofs!ProgramAlternates`, `ProgramTiles`, `ProgramChains` | the journal's properties of `ProcessorSpec` | same |
| `ProcessorProofs!EmergenciesCounted` | `ProcessorSpec => []EmergenciesTold` | same |
| `ProcessorProofs!TransitionsFollowRecords` | `ProcessorSpec => []TransitionsTold` | same |
| `ProcessorProofs!ProgramPanelsTell` | `ProcessorSpec => []PanelsTellNow` | and both limits of the panels positive |
| `RecordsProofs!StreamTypeCorrect` | `[]StreamTypeOK` | thresholds natural numbers |
| `RecordsProofs!LossExactCorrect` | `[]LossIsExact` | and bursts of at most 14 for codes that keep their order |
| `RecordsProofs!LossNeverUnderstatedCorrect` | `[]LossIsNeverUnderstated` | and burst and lag together at most 14 for codes that do not |
| `RecordsProofs!TraceTypeCorrect` | `[]TraceTypeOK` | capacity and chart limit positive, window, lifetimes and thresholds natural numbers |
| `RecordsProofs!StoreTailCorrect`, `DroppedWhenDueCorrect` | `[]StoreIsTail`, `[]DroppedWhenDue` | same |
| `RecordsProofs!JitterCorrect`, `ChartCorrect` | `[]JitterMatchesHistory`, `[]ChartIsRecentRun` | same |
| `RecordsProofs!HistoryEndsCorrect`, `SkewCorrect` | `[]HistoryEndsInStats`, `[]SkewIsOneSided` | and finitely many message codes, a second no longer than the restart gap, a positive number of seconds asked for |
| `RecordsProofs!P95IndexCovers` | the percentile's index, for every number of samples | none |
| `RecordsProofs!LossRateIsPercentage`, `QualityIsBounded` | bounds of the features | none |
| `MLServiceProofs!NoHalfModelCorrect`, `OneLateRecordCorrect`, `VerdictCorrect`, `EitherDetectorCorrect` | `[]NoHalfModel`, `[]OneLateRecord`, `[]VerdictIsTheForests`, `[]EitherDetectorCounts` | lengths positive; a verdict lies on its side of the forest's threshold, and its confidence is at least the rules'; every statistic has a checksum rate, which has a limit; `None` neither verdict nor model |
| `MLServiceProofs!TimelineCorrect` | `[]TimelineMatchesChart` | and no more scores kept than records |
| `MLServiceProofs!ChartsCorrect` | `[]ChartsAgreeWithForest` | and both thresholds at most 0, scores integers |
| `ServiceProviderProofs!ProviderUsesCapture` | `ProviderSpec` takes the capture service's steps and keeps its invariant | `None` no thread, no boolean and not the service; `QueueSize` positive |
| `ServiceProviderProofs!ServerInvHolds` | types, and mutual exclusion by the provider's lock | same |
| `ServiceProviderProofs!ResponseCorrect` | `[]ResponseIsOneState` | same |
| `ServiceProviderProofs!OffCorrect` | `ProviderSpec => OffIsShown` | same |
| `ServiceProviderProofs!OrderInvHolds` | packet numbers rise from the store over the batch to the queue | same |
| `ServiceProviderProofs!StatsCorrect`, `LeadCorrect` | `[]StatsMatchStore`, `[]CountersLeadByABatch` | same |
| `ServiceProviderProofs!ProviderIsChannel` | `ProviderSpec => IsChannel` | same |
| `DashboardClientProofs!ClientTypeCorrect` | `[]ClientTypeOK` | bounds natural numbers, finitely many slots, `None` no slot |
| `DashboardClientProofs!PausedScreenCorrect` | `[]PausedScreenHolds` | same |

The assumptions are the named `ASSUME`s of the modules, which TLC evaluates on every
run. No bound on the length of a behaviour is assumed: the bounds that the runs set
(puts, sniffers, clocks, clicks) are constants too.

*Queue.* No repeat in the queue is inductive only together with the fact that the
tail of a non-empty queue is the remembered packet, for that is what `put` compares
with. Overflow is handled by `AppendBoundedShifts` (`BoundedSeqProofs`): what
`AppendBounded` leaves is a shift of the sequence with the new item at its end, so
facts about neighbours survive.

*Induction.* No rule of induction over data is at hand, so that an argument by
induction takes a least counterexample: the least number that breaks the claim
(`LeastNatural`, `NumbersUpTo`), or a part of a finite set that breaks it while no part with a
member less does (`LeastPart`). In the same way it is shown that a function given by
recursion exists (`Recursion`, `AdditiveExists`), and so what the folds and selections
that the models are written with compute: `Among` keeps what satisfies a condition, item by
item (`AmongCollects`, `AmongAppend`), and `SumFunctionOnSet` adds a member's value
whichever member is taken last (`SumTakes`).

*Lossy FIFO.* `HistoryInv` says that the queue lists, in the order of the puts, the
newest of the packets that wait (`ListsNewest`). An ascending listing of a set is
unique (`OneListing`), which makes it the sequence the abstract specification keeps;
`PutLists` and `PutWaits` follow one put through both.

*Parser.* `ParserInv` says that what arrived is what was encoded, or that with one byte
damaged, or cut short; and that the result is the parse of it.
Of the counters it says that each lies between the number of datagrams that must count
and the number of those that may; `KindSays` gives for a datagram in hand what its kind
says of its parse, which is what one more of that kind may add to each counter.
The rest is about `ParseResult` alone. A checksum is a sum over a run of bytes, and
one changed byte changes such a sum by less than a word holds (`SumChanges`), so that it
differs whatever the other bytes are (`DamageShows`). Fields are read back bit by bit:
`LampBits` and `GridWord` take the sums of powers of two apart that sender and panels are
written with.

*Capture.* `CaptureInv` adds to the properties what they rest on: what the lock
protects while a caller is inside (`LockProtects`), that no sniffer runs before it was
made and that each was made for a direction (`NoThreadYet`), and that a thread which put
a packet after its stop is at the stop filter or beyond (`LateIsLast`).

*Journal.* The invariant `JournalInv` is the conjunction of all four properties:
closing the last entry needs its duration to be open, which only tiling says, and
comparing a new state with the remembered one proves alternation only if the
remembered state is that of the last entry. The same shift lemma carries both
histories through their cuts.

*Processor.* `ProcessorUsesJournal` is a refinement with the identity as its mapping:
each step is one of the journal or leaves it alone, given that the packet in work is
one the parser returned (`WorkInv`). The journal's theorems, proved for any order of
calls, so hold for the order in which the program makes them. `EmergenciesCounted`
follows the count of records with a source through each call: one packet at a time is
between its emergency and its record. `TransitionsFollowRecords` has `ToldInv`: the
journal tells all the records, or all but the first, whose packet was in work when the
logs were cleared. It rests on what a selection of the changes becomes when a mode is
added (`ChangesGrow`) and on a bounded list of the changes being the end of all of them
(`BoundedEnds`), so that the cut of the history needs no case of its own.

*Panels.* What is shown is the reverse of the last entries of the last entries of a
history. `LastNEnds` and `PanelReadsBack` say that row `i` is the entry `i - 1` before
the newest, however the list was cut, so that neighbours in the panel are neighbours
in the history (`ConnectionsShown`, `ModesShown`); the rest are the journal's theorems
in the running program. No relation between the three limits is assumed.

*Loss.* `LossInv` adds `Remembers`: the packet `NetworkMetrics` remembers of a code
is the newest one of the stream, remembered when it was heard. With it a packet at
most 15 numbers ahead adds exactly what was skipped (`GapIsExact`,
`LossOfArrival`). Packets of a code that may come late do not disturb the others.
The bound of 14 is sharp: a burst of 15 makes the gap 0. For a code whose packets come
late the remembered packet lies behind the newest by at most the lag, and as long as
burst and lag stay within 14 a step ahead counts no less than was skipped.

*Records.* Pruning only takes records from the front, so the deque is a tail of the
trace, and each record taken has a reason at that moment that later additions do not
take away (`DroppedLate`); with captures in order the first record kept is the oldest,
which bounds all others (`OrderIsTotal`). The jitter needs the packet remembered of a
code to be the newest of its code since the reset. The chart is compared with the trace
at the time it was made, and what was added later is younger than the cache.

*Features.* `RoundUpTo` bounds a rounded quotient by what bounds the quotient; the
rest is arithmetic. The number of samples at which `int(n * 0.95)` changes what it
leaves out, 20 and its multiples, is beyond TLC's instances and covered by the proof.

*Training history.* `TotalInv` makes the counters of `calculate()` a sum over the trace
of what each packet counted when it came (`LossIn`). The history is a sum over its
seconds of sums over their records, which is a sum over all records (`SumOfParts`). While
the stream was not reset and packets come in order, a record with a predecessor in its
second has the same predecessor in the trace, and is close enough to it that no restart
lies between (`TermAtMostLoss`: here a second must not be longer than the restart gap);
other records count nothing in the history. So the history is at most the counter
(`HistoryLoss`), and equal when all lies in one second. Rate and quality follow from
rounding being monotone in the fraction (`RoundMonotone`). The newest record with a jitter, if it
is in the last second at all, is the newest of all records (`LastJitter`). With packets
in order, the records of the seconds asked for are the end of the deque (`Listed`,
`RecentFrom`), which is all of it only if it spans no more seconds: the P95 of the last
entry is theirs, not that of the store. Capture order
is needed: a late packet is compared with another one than when it came, and TLC shows
the history ahead of the counter without it.

*ML charts.* `TimelineInv`: chart and time line are cut separately, and of the scored
records and the scores one is always the end of the other (`EndAlike`), since each is a
bounded list of the same additions; with no more scores kept
than records, the scores are never the longer list. `ChartInv`: what is in the
histories was judged by the forest's threshold or, before there is a forest, is
normal by every threshold (`BlankIsJudged`), because histories, cache and model live and
die together. Which regions the time line draws then depends on the points alone.

*ML service.* `ModelInv` says what each step of saving leaves in file and memory: a
whole file is the model in memory while the process runs, and saving begins only with a
model. Crash and restart keep that. `EpochInv`: a prediction that began before the logs
were cleared finds no records, so that its own becomes the first. `VerdictInv`: the
cache holds only what the forest said, and from asking the model to the response it is
the forest that answered. `ResponseInv`: a response not delivered yet is still what
rules and forest together say.

*Provider.* The program is a composition: `ProviderUsesCapture` shows that the
provider's steps are steps of the capture service with one caller, so that the
theorems of `CaptureServiceProofs`, taken by `INSTANCE`, hold in it. `LockInv` gives
mutual exclusion: `clear_logs` is in no place that needs the lock. So at most one
thread has a batch, and nobody stores while a response is being read
(`NobodyProcesses`). `ShowInv` follows a poll from asking for the connection to its
answer, during which nobody else can turn the capture off (`CaptureTurnsOff`).
Counters are followed through the phases of a batch: what was stored is what was
counted and what is in the result (`Matches`), and the payload on display is that of
the record with the highest number, for which `OrderInv` is needed: numbers rise from
the store over the batch to the queue. A clear takes no lock, so that it can
empty the store while a batch is being stored; from then until a clear runs into
nothing, or a turn empties both, the two are not compared (`overlapped`). That a turn
which is between its resets has nothing counted and no batch is `TurnInv`. `LeadInv` is
what holds all the same: whoever empties the store empties the counters too, which
leaves them ahead by no more than the update under way brings (`Leads`), and that is
no more than a queue holds, whatever is still to do or in the result (`Brings`).

*Channel.* The line of the abstract specification is the batch of the one thread that
drains, with the queue behind it (`OneDraining`, `NoneDraining`). Draining changes
nothing of it, a round of the loop takes its head, and a put adds to its end
(`ConcatAppend`) or also cuts out the first of the queue (`ConcatCut`), which is what
`RemoveAt` says. The duplicate check never interferes, since every packet put is new
(`PutAppends`).

*Client.* `HoldInv` says that a paused page has shown no poll since the pause, or one
and then no other is under way that it would apply (`NothingToShow`): whatever was
sent after the pause carries it and stays unanswered, and of those sent before only
the last counts. Number of slots, clicks, drags and reloads are arbitrary.

**Model-checked only.** Liveness is beyond the provers: `QueueIsDrained`,
`SilenceIsNoticed`, `LockIsReleased`, `StoppedThreadEnds`, `EnoughIsTrained` and
`ScreenSettles`. So are the two expected violations of section 6, which are runs only. Every
other property of a run is stated by a theorem. The type invariants are the other way
round: theorems give them for every value of the constants, and no run lists them.

## 5. Not modelled

- What is left of `ui/`, `styles.py` and `services/dashboard_builder.py`: they render or
  copy fields and decide nothing.
- `analysis/ml_anomaly_detector.py`'s Isolation Forest, its scores and the features
  that contributed: numerical, external.
- `config.py`, the labels of `models.py`, `scripts/`, `portfolio-site/`, and what
  `run.py` asks of the command line.
- `get_availability`, `get_logs`, `get_emergency_counts` and the four rates: reads that
  count or copy the records and keep nothing.
- `mock/mock_data.py` beyond what a poll answers: its random values, and the sequence
  number and log list that polls change without a lock, where a lost update costs a
  line of a demo.
- Values that a response shares with the store: the cached chart and the entries of the
  connection history are handed out as they are, and can change while the response is
  serialised. The models hand out values.
- Not yet: when the feature extractor forgets its last rate; capture times of queued
  packets in `ServiceProvider`.

## 6. Where code and documents disagree

Checked by a run that TLC finds violated:

- `provider_direction`: packets of the old direction enter the store that was reset
  for the new one (`services/service_provider.py:90`).
- `ml_restart`: `analysis/ml_pipeline.py:198` does not catch the `EOFError` of a model
  file that a crash left empty or cut between two pickle frames, and
  `MLService._init_detectors()` catches `ImportError` only, so that the application
  does not start until the file is removed; `services/ml_service.py:50` says the rules
  always run, for the cold start.

Met while reading, without a run:

- `pipeline/icd_parser.py:186`: without an emergency source the list holds the label
  for none, and `models.py:201` asks whether the list is empty: every operational packet
  counts as an emergency.
- `services/stats_service.py:76` takes the time at which a batch is processed; the
  docstring at line 108 says of reception. Packets that waited in the queue make a
  silent connection look alive.
- `analysis/rule_detector.py:80`: `get_stats_dict()` has no `loss_rate`, so that the rule
  for losses (`docs/05_ML_ANOMALY_DETECTION.md:136`) never fires on the live path, and the loss axis
  of the 3D chart is always 0. The rule for jitter asks for more than 50 ms, but
  `add()` records at most 5; the jitters of 997 and 998 ms in the example of
  `docs/04_KPI_METRICS.md:145` to 157 are dropped as noise.
- `docs/05_ML_ANOMALY_DETECTION.md:181` and `:194`: training is said to need 500 samples;
  `ML_MIN_TRAINING_SAMPLES` is 120 (`constants.py:43`).
- `services/service_provider.py:159`: a `clear_logs()` in the middle of an update takes
  away records that are counted afterwards, and an update in the middle of a
  `clear_logs()` leaves records whose count is thrown away: counters, rates and payload then belong to other
  records than the store holds. `StatsMatchStore` names that case and says when it ends;
  `CountersLeadByABatch` bounds by how much the counters are ahead.
- `services/ml_service.py:133` ignores what `train()` returns: after a fit that failed the
  response says ready. `EnoughIsTrained` names that case.
- `services/service_provider.py:95`: turning the direction leaves the histories of the
  anomaly detector. No caller resets `MLPipeline`, so its cache and the rate its
  extractor remembers outlive a clear.
- `analysis/feature_extractor.py:185`: the comment gives 100 points up to 5 ms, the code 90;
  and the loss rate divides a cumulative loss by the packets of one second.
- `callbacks/update_callbacks.py:143`: the clear button answers with the data it was
  called with; while paused, a clear also restores the label of an old direction. Two
  quick clicks on the pause button pause once (line 132).
- `pipeline/processor.py:85` counts a packet too short for a checksum as a checksum
  failure; `docs/04_KPI_METRICS.md:61` and the parser do not.
- `callbacks/update_callbacks.py:240` leaves the 3D chart alone while it is being moved,
  but every change of the data redraws the panel around it (line 74), with the chart.
- `ui/panels/history.py:22`: `if duration` shows a period of 0 seconds blank, like one that
  is still open.
- `ui/ml/anomaly_3d.py:215` compares a score that was rounded to four digits with a
  threshold that was not: an anomaly at the threshold is drawn as a warning.
  `ui/ml/anomaly_timeline.py:122`: an anomaly that is the newest point and alone gets a
  region without width. What only the rules found is announced as an anomaly and drawn
  normal in both charts. `ChartsAgreeWithForest` names these cases.
- `ui/ml/feature_importance.py:21` says that all features are normal whenever none
  stands out, also when the forest reports an anomaly that no single one explains.
- `ui/layouts/charts.py:45` takes a chart point for a poll and shows 30 of them as a
  minute; live points are one per packet.
- `ui/components/log_table.py:220`: no callback is wired to the filters and the search
  field of the log table.
- `ui/components/device_grid.py:54` names a device AUX that is called ACAM everywhere else.
- `mock/mock_data.py:128` appends the first logs oldest first; line 202 puts later ones at the
  head and cuts the end, so that the newest of the first 15 are cut first.
- `store/packet_store.py:105`: a packet that arrives late counts as up to 14 lost
  ones, although `docs/04_KPI_METRICS.md:81` counts missing ones; and 15 consecutive
  losses already go unnoticed, although `docs/09_PORTFOLIO_REVIEW.md:46` says 16.
- `store/packet_store.py:351`: the training history forgets losses between two
  seconds, `get_stats_dict()` does not, although lines 304 to 306 promise one
  distribution. `HistoryEndsInStats` says when the losses agree, `SkewIsOneSided` that with
  packets in capture order they only differ one way.
- `services/ml_service.py:131` asks for 120 seconds of a store that holds 3600;
  `get_stats_history()` cuts (`store/packet_store.py:325`) before it collects jitters, while
  `get_stats_dict()` takes the P95 of the whole store. Once the store spans more seconds
  than were asked for the two differ, against the same lines 304 to 306:
  `HistoryEndsInStats` says whose P95 the history ends with and when it is the live one.
- `store/packet_store.py:288`: availability is a count of packets against 100 a
  second, `docs/04_KPI_METRICS.md:103` defines it as a share of time.
- `services/capture_service.py:86`: `start()` always returns True, also when the
  interface cannot be opened. Line 124: a sniffer whose thread died counts as running
  when the direction is turned, against the comment at line 143.
- `pipeline/icd_parser.py:75`: the length is not compared with the header's data
  length, as `docs/03_ICD_SPECIFICATION.md:117` says. Line 145: the sequence number is
  bits 24 to 27 of the timestamp, `docs/04_KPI_METRICS.md:93` says its low four bits.
- `services/service_provider.py:87`: toggling resets the stream state only,
  `docs/06_DATA_FLOW_GUIDE.md:168` says store and stats.

## 7. Plan

1. *Done*: queue, metrics, store, journal, processor, capture, parser, stats, provider,
   features, ML service, browser live and with mock data, history panels and ML charts;
   two abstract specifications (`LossyFifo`, `TelemetryChannel`); the first proofs.
2. *Done*: proofs of every safety property that a run checks, and of both refinements.
   Left of the proofs: `FilterFollowsDirection` and `OneLatePacket` stated of the
   provider, which has them through `ProviderUsesCapture`.
3. Provider: capture times of queued packets, so that off-time measured as an interval
   after two toggles can be stated; `predict()` of `MLService` inside `update_data`.
4. The extractor's last rate across training, caching and clears.
5. Abstract specifications: a classifier that is trained at most once per model file,
   implemented by `MLService`; a screen that shows some recent state of the server,
   implemented by `DashboardClient`.
