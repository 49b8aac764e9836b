---------------------------- MODULE CaptureService ----------------------------
(***************************************************************************)
(* services/capture_service.py and pipeline/sniffer.py: callers that       *)
(* start, stop, toggle and turn the capture, and the sniffer threads they  *)
(* create.  Each `with self._lock` block of the service is one action,     *)
(* split where it waits for a sniffer thread: join(timeout=2.0) returns    *)
(* when the thread has ended or when the time is up, whichever comes       *)
(* first, and the model lets the time be up at any moment.                 *)
(*                                                                         *)
(* A sniffer thread is in scapy's sniff(): it opens the interface, then    *)
(* for every packet runs _process_packet (which calls the queue's put) and *)
(* only afterwards the stop filter.  A thread told to stop while no packet *)
(* comes therefore lives on until the next one.                            *)
(***************************************************************************)
EXTENDS Integers, FiniteSets

CONSTANTS Caller,        \* threads that call the service
          MaxSniffers,   \* bound on the PacketSniffer objects created
          MaxLate,       \* bound on the packets one thread receives
          None           \* None, and the holder of a free lock

ASSUME CaptureAssumption == MaxSniffers \in Nat /\ MaxLate \in Nat
ASSUME CaptureNoneAssumption == None \notin Caller \cup Int \cup BOOLEAN

Sniffer == 1..MaxSniffers
Direction == {"status", "control"}

VARIABLES lock,          \* self._lock
          direction,     \* self._direction, which fixes both ports
          sniffer,       \* self._sniffer, or None
          created,       \* how many PacketSniffer objects were made
          filter,        \* the direction each sniffer was made for
          running,       \* _running of each sniffer
          thread,        \* where the thread of each sniffer is
          received,      \* packets each thread has received
          late,          \* packets each thread put after its _running was cleared
          pc             \* where each caller is

serviceVars == <<lock, direction, sniffer, created, filter>>
threadVars == <<thread, received, late>>
captureVars == <<lock, direction, sniffer, created, filter, running, thread,
                 received, late, pc>>

Operation == {"start", "stop", "toggle", "direction"}

CaptureInit ==
  /\ lock = None /\ direction = "status" /\ sniffer = None /\ created = 0
  /\ filter = [s \in Sniffer |-> None]
  /\ running = [s \in Sniffer |-> FALSE]
  /\ thread = [s \in Sniffer |-> "none"]
  /\ received = [s \in Sniffer |-> 0]
  /\ late = [s \in Sniffer |-> 0]
  /\ pc = [c \in Caller |-> "idle"]

-----------------------------------------------------------------------------
(* Sniffer threads *)

ThreadOpens(s) ==
  /\ thread[s] = "opening"
  /\ thread' = [thread EXCEPT ![s] = "sniffing"]
  /\ UNCHANGED <<serviceVars, running, received, late, pc>>

\* sniff() raises: PermissionError on opening, OSError at any time.
ThreadFails(s) ==
  /\ thread[s] \in {"opening", "sniffing"}
  /\ thread' = [thread EXCEPT ![s] = "dead"]
  /\ running' = [running EXCEPT ![s] = FALSE]
  /\ UNCHANGED <<serviceVars, received, late, pc>>

\* A packet of the sniffer's direction arrives; it gets its capture time.
ThreadReceives(s) ==
  /\ thread[s] = "sniffing"
  /\ received[s] < MaxLate
  /\ thread' = [thread EXCEPT ![s] = "captured"]
  /\ received' = [received EXCEPT ![s] = @ + 1]
  /\ UNCHANGED <<serviceVars, running, late, pc>>

\* _process_packet() hands it to the queue.
ThreadPuts(s) ==
  /\ thread[s] = "captured"
  /\ thread' = [thread EXCEPT ![s] = "filtering"]
  /\ late' = [late EXCEPT ![s] = IF running[s] THEN @ ELSE @ + 1]
  /\ UNCHANGED <<serviceVars, running, received, pc>>

\* Mutation of ThreadChecks: the stop filter never says yes.
ThreadNeverStops(s) ==
  /\ thread[s] = "filtering"
  /\ thread' = [thread EXCEPT ![s] = "sniffing"]
  /\ UNCHANGED <<serviceVars, running, received, late, pc>>

\* stop_filter: lambda _: not self._running
ThreadChecks(s) ==
  /\ thread[s] = "filtering"
  /\ thread' = [thread EXCEPT ![s] = IF running[s] THEN "sniffing" ELSE "dead"]
  /\ UNCHANGED <<serviceVars, running, received, late, pc>>

-----------------------------------------------------------------------------
(* Callers *)

IsRunning == sniffer # None /\ running[sniffer]

Opposite(d) == IF d = "status" THEN "control" ELSE "status"

\* A caller enters the service.  (The bound leaves a sniffer for everyone.)
Call(c, o) ==
  /\ pc[c] = "idle"
  /\ created + Cardinality({d \in Caller : pc[d] # "idle"}) < MaxSniffers
  /\ pc' = [pc EXCEPT ![c] = o]
  /\ UNCHANGED <<serviceVars, running, threadVars>>

\* toggle() reads is_running under the lock and acts without it.
ToggleReads(c) ==
  /\ pc[c] = "toggle"
  /\ lock = None
  /\ pc' = [pc EXCEPT ![c] = IF IsRunning THEN "stop" ELSE "start"]
  /\ UNCHANGED <<serviceVars, running, threadVars>>

\* _cleanup_sniffer() stops a running sniffer and joins its thread; the three
\* operations enter it under the lock and wait at the join.
BeginCleanup(c, waiting) ==
  /\ lock = None /\ IsRunning
  /\ lock' = c
  /\ running' = [running EXCEPT ![sniffer] = FALSE]
  /\ pc' = [pc EXCEPT ![c] = waiting]
  /\ UNCHANGED <<direction, sniffer, created, filter, threadVars>>

\* Mutation of CleanedUp: goes on without stopping a running sniffer.
NotCleanedUp(c, entered, waiting) ==
  pc[c] \in {entered, waiting} /\ lock \in {None, c}

\* Mutation of CleanedUp: join() without a timeout.
CleanedUpForSure(c, entered, waiting) ==
  \/ pc[c] = waiting /\ lock = c /\ thread[sniffer] = "dead"
  \/ pc[c] = entered /\ lock = None /\ ~IsRunning

\* The lock is c's, or is free and there is no running sniffer to join.
CleanedUp(c, entered, waiting) ==
  \/ pc[c] = waiting /\ lock = c
  \/ pc[c] = entered /\ lock = None /\ ~IsRunning

\* Mutation of Start: the ports of the first direction.
StartFirstDirection(c) ==
  /\ CleanedUp(c, "start", "start_join")
  /\ created < MaxSniffers
  /\ created' = created + 1
  /\ sniffer' = created'
  /\ filter' = [filter EXCEPT ![created'] = "status"]
  /\ running' = [running EXCEPT ![created'] = TRUE]
  /\ thread' = [thread EXCEPT ![created'] = "opening"]
  /\ lock' = None
  /\ pc' = [pc EXCEPT ![c] = "idle"]
  /\ UNCHANGED <<direction, received, late>>

\* start(): a new sniffer for the present direction.  Its thread opens the
\* interface later, so start() has nothing to report but success.
StartWaits(c) == pc[c] = "start" /\ BeginCleanup(c, "start_join")

Start(c) ==
  /\ CleanedUp(c, "start", "start_join")
  /\ created < MaxSniffers
  /\ created' = created + 1
  /\ sniffer' = created'
  /\ filter' = [filter EXCEPT ![created'] = direction]
  /\ running' = [running EXCEPT ![created'] = TRUE]
  /\ thread' = [thread EXCEPT ![created'] = "opening"]
  /\ lock' = None
  /\ pc' = [pc EXCEPT ![c] = "idle"]
  /\ UNCHANGED <<direction, received, late>>

StopWaits(c) == pc[c] = "stop" /\ BeginCleanup(c, "stop_join")

Stop(c) ==
  /\ CleanedUp(c, "stop", "stop_join")
  /\ sniffer' = None
  /\ lock' = None
  /\ pc' = [pc EXCEPT ![c] = "idle"]
  /\ UNCHANGED <<direction, created, filter, running, threadVars>>

TurnWaits(c) == pc[c] = "direction" /\ BeginCleanup(c, "direction_join")

\* toggle_direction(): swaps the ports and, once the lock is free again, starts
\* a new sniffer if there was one at all.
Turn(c) ==
  /\ CleanedUp(c, "direction", "direction_join")
  /\ sniffer' = None
  /\ direction' = Opposite(direction)
  /\ lock' = None
  /\ pc' = [pc EXCEPT ![c] = IF sniffer # None THEN "start" ELSE "idle"]
  /\ UNCHANGED <<created, filter, running, threadVars>>

CallerStep(c) ==
  \/ ToggleReads(c)
  \/ StartWaits(c) \/ Start(c)
  \/ StopWaits(c)  \/ Stop(c)
  \/ TurnWaits(c)  \/ Turn(c)

ThreadStep(s) ==
  ThreadOpens(s) \/ ThreadFails(s) \/ ThreadReceives(s) \/ ThreadPuts(s) \/ ThreadChecks(s)

CaptureNext ==
  \/ \E c \in Caller, o \in Operation : Call(c, o)
  \/ \E c \in Caller : CallerStep(c)
  \/ \E s \in Sniffer : ThreadStep(s)

\* The operating system runs every thread that can run: callers finish their
\* calls and a sniffer thread that holds a packet goes on.  Packets need not come.
CaptureFairness ==
  /\ \A c \in Caller : WF_captureVars(CallerStep(c))
  /\ \A s \in Sniffer : WF_captureVars(ThreadPuts(s) \/ ThreadChecks(s))

CaptureSpec == CaptureInit /\ [][CaptureNext]_captureVars /\ CaptureFairness

-----------------------------------------------------------------------------

\* A sniffer that is not the service's own has been told to stop: whatever
\* callers interleave, no sniffer is left behind that captures for ever.
OnlyCurrentRuns == \A s \in Sniffer : running[s] => sniffer = s

\* The sniffer that runs captures the direction the service reports.
FilterFollowsDirection == IsRunning => filter[sniffer] = direction

\* A thread that was told to stop puts at most one more packet into the queue.
OneLatePacket == \A s \in Sniffer : late[s] <= 1

\* Whoever holds the lock of the service gives it back, though the thread it
\* joins may wait for a packet that never comes.
LockIsReleased == lock # None ~> lock = None

\* A stopped thread that gets a packet ends.
StoppedThreadEnds ==
  \A s \in Sniffer : (thread[s] = "captured" /\ ~running[s]) ~> thread[s] = "dead"
=============================================================================
