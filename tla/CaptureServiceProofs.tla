------------------------- MODULE CaptureServiceProofs -------------------------
(***************************************************************************)
(* The capture service for any number of callers, sniffers and packets:    *)
(* what its lock protects although it is held across a join that may time  *)
(* out, and what a sniffer that was told to stop can still do.             *)
(***************************************************************************)
EXTENDS CaptureService, TLAPS

\* The operations that hold the lock while they wait for a sniffer's thread.
Joining == {"start_join", "stop_join", "direction_join"}

CaptureTypeOK ==
  /\ lock \in Caller \cup {None}
  /\ direction \in Direction
  /\ created \in 0..MaxSniffers
  /\ sniffer \in Sniffer \cup {None}
  /\ filter \in [Sniffer -> Direction \cup {None}]
  /\ running \in [Sniffer -> BOOLEAN]
  /\ thread \in [Sniffer -> {"none", "opening", "sniffing", "captured", "filtering", "dead"}]
  /\ received \in [Sniffer -> Nat]
  /\ late \in [Sniffer -> Nat]
  /\ pc \in [Caller -> {"idle"} \cup Operation \cup Joining]

\* Whoever waits at a join holds the lock, and while the lock is held no sniffer
\* of the service runs: nobody can start one.
LockProtects ==
  /\ \A c \in Caller : pc[c] \in Joining => lock = c
  /\ lock # None => ~IsRunning

\* The sniffers not made yet have no thread, and those that have one were made for
\* a direction.
NoThreadYet ==
  \A s \in Sniffer : thread[s] # "none" => s <= created /\ filter[s] \in Direction

\* A late packet is the last one: the thread that put it is at the stop filter,
\* which ends it, and its sniffer never runs again.
LateIsLast ==
  \A s \in Sniffer :
    /\ late[s] <= 1
    /\ late[s] = 1 => ~running[s] /\ thread[s] \in {"filtering", "dead"}

CaptureInv ==
  /\ CaptureTypeOK
  /\ LockProtects
  /\ OnlyCurrentRuns
  /\ FilterFollowsDirection
  /\ NoThreadYet
  /\ LateIsLast

LEMMA CaptureInitial == CaptureInit => CaptureInv
<1> SUFFICES ASSUME CaptureInit PROVE CaptureInv
  OBVIOUS
<1>1. CaptureTypeOK
  BY CaptureAssumption DEF CaptureInit, CaptureTypeOK, Direction
<1>2. LockProtects /\ OnlyCurrentRuns /\ FilterFollowsDirection
  BY DEF CaptureInit, LockProtects, Joining, IsRunning, OnlyCurrentRuns,
         FilterFollowsDirection
<1>3. NoThreadYet /\ LateIsLast
  BY DEF CaptureInit, NoThreadYet, LateIsLast
<1> QED
  BY <1>1, <1>2, <1>3 DEF CaptureInv

-----------------------------------------------------------------------------

\* A step of a sniffer's thread: it never starts a sniffer, and it puts a late
\* packet only on its way to the stop filter.
LEMMA ThreadKeeps ==
  ASSUME CaptureInv, NEW s \in Sniffer, ThreadStep(s)
  PROVE  CaptureInv'
<1> USE DEF CaptureInv
<1>1. /\ UNCHANGED <<lock, direction, sniffer, created, filter, pc>>
      /\ thread[s] # "none"
      /\ \E v \in {"sniffing", "captured", "filtering", "dead"} :
           thread' = [thread EXCEPT ![s] = v]
      /\ running' = running \/ running' = [running EXCEPT ![s] = FALSE]
      /\ received' = received \/ received' = [received EXCEPT ![s] = @ + 1]
      /\ late' = late \/ late' = [late EXCEPT ![s] = @ + 1]
  BY DEF ThreadStep, ThreadOpens, ThreadFails, ThreadReceives, ThreadPuts, ThreadChecks,
         serviceVars, CaptureTypeOK
<1>2. CaptureTypeOK'
  <2>1. running' \in [Sniffer -> BOOLEAN]
    BY <1>1 DEF CaptureTypeOK
  <2>2. received' \in [Sniffer -> Nat] /\ late' \in [Sniffer -> Nat]
    BY <1>1 DEF CaptureTypeOK
  <2>3. thread' \in [Sniffer -> {"none", "opening", "sniffing", "captured", "filtering",
                                 "dead"}]
    BY <1>1 DEF CaptureTypeOK
  <2> QED BY <1>1, <2>1, <2>2, <2>3 DEF CaptureTypeOK
<1>3. \A r \in Sniffer : running'[r] => running[r]
  BY <1>1 DEF CaptureTypeOK
<1>4. LockProtects' /\ OnlyCurrentRuns' /\ FilterFollowsDirection'
  BY <1>1, <1>3 DEF LockProtects, OnlyCurrentRuns, FilterFollowsDirection, IsRunning,
                    CaptureTypeOK
<1>5. NoThreadYet'
  BY <1>1 DEF NoThreadYet, CaptureTypeOK
<1>6. LateIsLast'
  <2> SUFFICES ASSUME NEW r \in Sniffer
               PROVE  /\ late'[r] <= 1
                      /\ late'[r] = 1 => ~running'[r] /\ thread'[r] \in {"filtering", "dead"}
    BY DEF LateIsLast
  <2>1. CASE r # s
    BY <1>1, <2>1 DEF LateIsLast, CaptureTypeOK
  <2>2. CASE r = s
    BY <2>2 DEF ThreadStep, ThreadOpens, ThreadFails, ThreadReceives, ThreadPuts,
                ThreadChecks, LateIsLast, CaptureTypeOK
  <2> QED BY <2>1, <2>2
<1> QED
  BY <1>2, <1>4, <1>5, <1>6

-----------------------------------------------------------------------------
(* Callers *)

LEMMA CallKeeps ==
  ASSUME CaptureInv, NEW c \in Caller, NEW o \in Operation, Call(c, o)
  PROVE  CaptureInv'
BY DEF Call, CaptureInv, CaptureTypeOK, LockProtects, OnlyCurrentRuns, FilterFollowsDirection,
       NoThreadYet, LateIsLast, IsRunning, Operation, Joining, serviceVars, threadVars

LEMMA ToggleKeeps ==
  ASSUME CaptureInv, NEW c \in Caller, ToggleReads(c)
  PROVE  CaptureInv'
BY DEF ToggleReads, CaptureInv, CaptureTypeOK, LockProtects, OnlyCurrentRuns,
       FilterFollowsDirection, NoThreadYet, LateIsLast, IsRunning, Operation, Joining,
       serviceVars, threadVars

\* Taking the lock stops the service's sniffer.
LEMMA BeginCleanupKeeps ==
  ASSUME CaptureInv, NEW c \in Caller, NEW waiting \in Joining, BeginCleanup(c, waiting)
  PROVE  CaptureInv'
<1> USE DEF CaptureInv
<1>1. /\ lock = None /\ lock' = c /\ sniffer # None /\ sniffer \in Sniffer
      /\ running' = [running EXCEPT ![sniffer] = FALSE]
      /\ pc' = [pc EXCEPT ![c] = waiting]
      /\ UNCHANGED <<direction, sniffer, created, filter, thread, received, late>>
  BY DEF BeginCleanup, IsRunning, threadVars, CaptureTypeOK
<1>2. CaptureTypeOK'
  BY <1>1 DEF CaptureTypeOK
<1>3. LockProtects'
  BY <1>1, CaptureNoneAssumption DEF LockProtects, IsRunning, CaptureTypeOK
<1>4. OnlyCurrentRuns' /\ FilterFollowsDirection' /\ NoThreadYet' /\ LateIsLast'
  BY <1>1 DEF OnlyCurrentRuns, FilterFollowsDirection, NoThreadYet, LateIsLast, IsRunning,
              CaptureTypeOK
<1> QED
  BY <1>2, <1>3, <1>4

\* What holds when the cleanup is done: no sniffer runs, whether the join ended
\* or timed out, and the lock is nobody else's.
LEMMA NothingRuns ==
  ASSUME CaptureInv, NEW c \in Caller, NEW entered, NEW waiting \in Joining,
         CleanedUp(c, entered, waiting)
  PROVE  /\ \A s \in Sniffer : ~running[s]
         /\ \A d \in Caller \ {c} : pc[d] \notin Joining
<1>1. ~IsRunning /\ lock \in {None, c}
  BY CaptureNoneAssumption DEF CleanedUp, CaptureInv, LockProtects
<1>2. \A s \in Sniffer : ~running[s]
  BY <1>1, CaptureNoneAssumption DEF CaptureInv, OnlyCurrentRuns, IsRunning, Sniffer
<1>3. \A d \in Caller \ {c} : pc[d] \notin Joining
  BY <1>1, CaptureNoneAssumption DEF CaptureInv, LockProtects
<1> QED
  BY <1>2, <1>3

LEMMA StartKeeps ==
  ASSUME CaptureInv, NEW c \in Caller, Start(c)
  PROVE  CaptureInv'
<1> DEFINE n == created + 1
<1>1. /\ \A s \in Sniffer : ~running[s]
      /\ \A d \in Caller \ {c} : pc[d] \notin Joining
  BY NothingRuns DEF Start, Joining
<1>2. /\ created' = n /\ sniffer' = n /\ n \in Sniffer /\ n > created
      /\ filter' = [filter EXCEPT ![n] = direction]
      /\ running' = [running EXCEPT ![n] = TRUE]
      /\ thread' = [thread EXCEPT ![n] = "opening"]
      /\ lock' = None /\ pc' = [pc EXCEPT ![c] = "idle"]
      /\ UNCHANGED <<direction, received, late>>
  BY CaptureAssumption DEF Start, CaptureInv, CaptureTypeOK, Sniffer
<1>3. CaptureTypeOK'
  BY <1>2 DEF CaptureInv, CaptureTypeOK, Sniffer
<1>4. LockProtects'
  BY <1>1, <1>2 DEF LockProtects, CaptureInv, CaptureTypeOK, Joining
<1>5. OnlyCurrentRuns' /\ FilterFollowsDirection'
  BY <1>1, <1>2 DEF OnlyCurrentRuns, FilterFollowsDirection, IsRunning, CaptureInv,
                    CaptureTypeOK
<1>6. NoThreadYet'
  BY <1>2 DEF NoThreadYet, CaptureInv, CaptureTypeOK, Sniffer
<1>7. LateIsLast'
  <2>1. thread[n] = "none" /\ late[n] \in Nat /\ late[n] <= 1
    BY <1>2 DEF CaptureInv, NoThreadYet, CaptureTypeOK, LateIsLast
  <2>2. late[n] # 1
    BY <1>2, <2>1 DEF CaptureInv, LateIsLast
  <2> QED
    BY <1>2, <2>1, <2>2 DEF CaptureInv, LateIsLast, CaptureTypeOK
<1> QED
  BY <1>3, <1>4, <1>5, <1>6, <1>7 DEF CaptureInv

\* stop() and toggle_direction() leave the service without a sniffer.
LEMMA LeaveKeeps ==
  ASSUME CaptureInv, NEW c \in Caller, NEW d \in Direction, NEW o \in {"idle", "start"},
         \A s \in Sniffer : ~running[s],
         \A e \in Caller \ {c} : pc[e] \notin Joining,
         sniffer' = None, lock' = None, direction' = d, pc' = [pc EXCEPT ![c] = o],
         UNCHANGED <<created, filter, running, threadVars>>
  PROVE  CaptureInv'
<1>1. CaptureTypeOK'
  BY DEF CaptureInv, CaptureTypeOK, threadVars, Operation
<1>2. LockProtects'
  BY DEF LockProtects, CaptureInv, CaptureTypeOK, Joining
<1>3. OnlyCurrentRuns' /\ FilterFollowsDirection' /\ NoThreadYet' /\ LateIsLast'
  BY DEF CaptureInv, OnlyCurrentRuns, FilterFollowsDirection, NoThreadYet, LateIsLast,
         IsRunning, threadVars
<1> QED
  BY <1>1, <1>2, <1>3 DEF CaptureInv

LEMMA CallerKeeps ==
  ASSUME CaptureInv, NEW c \in Caller, CallerStep(c)
  PROVE  CaptureInv'
<1>1. CASE ToggleReads(c)
  BY <1>1, ToggleKeeps
<1>2. CASE StartWaits(c) \/ StopWaits(c) \/ TurnWaits(c)
  BY <1>2, BeginCleanupKeeps DEF StartWaits, StopWaits, TurnWaits, Joining
<1>3. CASE Start(c)
  BY <1>3, StartKeeps
<1>4. CASE Stop(c)
  <2>1. /\ \A s \in Sniffer : ~running[s]
        /\ \A e \in Caller \ {c} : pc[e] \notin Joining
    BY <1>4, NothingRuns DEF Stop, Joining
  <2>2. direction \in Direction /\ direction' = direction
    BY <1>4 DEF Stop, CaptureInv, CaptureTypeOK
  <2> QED
    BY <1>4, <2>1, <2>2, LeaveKeeps DEF Stop
<1>5. CASE Turn(c)
  <2>1. /\ \A s \in Sniffer : ~running[s]
        /\ \A e \in Caller \ {c} : pc[e] \notin Joining
    BY <1>5, NothingRuns DEF Turn, Joining
  <2>2. Opposite(direction) \in Direction
    BY DEF Opposite, Direction
  <2> QED
    BY <1>5, <2>1, <2>2, LeaveKeeps DEF Turn
<1> QED
  BY <1>1, <1>2, <1>3, <1>4, <1>5 DEF CallerStep

-----------------------------------------------------------------------------

\* What the proofs use of the specification: nothing of its fairness.
CaptureSteps == CaptureInit /\ [][CaptureNext]_captureVars

\* The inductive invariant: type, what the lock protects, and the three properties.
THEOREM CaptureInvHolds == CaptureSteps => []CaptureInv
<1>1. CaptureInv /\ [CaptureNext]_captureVars => CaptureInv'
  <2> SUFFICES ASSUME CaptureInv, [CaptureNext]_captureVars PROVE CaptureInv'
    OBVIOUS
  <2>1. CASE CaptureNext
    BY <2>1, CallKeeps, CallerKeeps, ThreadKeeps DEF CaptureNext
  <2>2. CASE UNCHANGED captureVars
    BY <2>2 DEF captureVars, CaptureInv, CaptureTypeOK, LockProtects, OnlyCurrentRuns,
                FilterFollowsDirection, NoThreadYet, LateIsLast, IsRunning
  <2> QED BY <2>1, <2>2
<1> QED
  BY CaptureInitial, <1>1, PTL DEF CaptureSteps

\* Whatever callers interleave and however joins end, no sniffer is left behind
\* that captures for ever.
THEOREM OnlyCurrentCorrect == CaptureSpec => []OnlyCurrentRuns
<1>1. CaptureInv => OnlyCurrentRuns
  BY DEF CaptureInv
<1> QED BY <1>1, CaptureInvHolds, PTL DEF CaptureSpec, CaptureSteps

\* The running sniffer captures the direction the service reports.
THEOREM FilterCorrect == CaptureSpec => []FilterFollowsDirection
<1>1. CaptureInv => FilterFollowsDirection
  BY DEF CaptureInv
<1> QED BY <1>1, CaptureInvHolds, PTL DEF CaptureSpec, CaptureSteps

\* A thread that was told to stop puts at most one more packet into the queue.
THEOREM OneLateCorrect == CaptureSpec => []OneLatePacket
<1>1. CaptureInv => OneLatePacket
  BY DEF CaptureInv, LateIsLast, OneLatePacket
<1> QED BY <1>1, CaptureInvHolds, PTL DEF CaptureSpec, CaptureSteps
=============================================================================
