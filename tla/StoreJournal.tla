----------------------------- MODULE StoreJournal -----------------------------
(***************************************************************************)
(* store/packet_store.py, the history side of class PacketStore: when the  *)
(* connection came and went, how the vehicle's operation mode changed, and *)
(* how often each emergency source was reported.  Every method runs under  *)
(* the store's lock and is one action.                                     *)
(***************************************************************************)
EXTENDS BoundedSeq

CONSTANTS Mode,                    \* operation modes
          Reason,                  \* emergency sources
          None,                    \* Python's None
          MAX_CONNECTION_HISTORY,  \* 100
          MAX_MODE_TRANSITIONS     \* 50

ASSUME JournalAssumption ==
  /\ MAX_CONNECTION_HISTORY \in Nat \ {0}
  /\ MAX_MODE_TRANSITIONS \in Nat \ {0}
ASSUME JournalNoneAssumption ==
  None \notin Mode /\ None \notin BOOLEAN /\ None \notin Int

VARIABLES now,                     \* datetime.now()
          connection_history,      \* self._connection_history
          last_connection_state,   \* self._last_connection_state
          mode_transitions,        \* self._mode_transitions
          last_op_mode,            \* self._last_op_mode
          emergency_counts         \* self._emergency_counts, 0 when absent

connectionVars == <<connection_history, last_connection_state>>
modeVars == <<mode_transitions, last_op_mode>>
journalVars == <<now, connection_history, last_connection_state,
                 mode_transitions, last_op_mode, emergency_counts>>

Connection == [timestamp : Int, connected : BOOLEAN, duration : Int \cup {None}]
Transition == [timestamp : Int, from : Mode, to : Mode]

JournalInit ==
  /\ now = 0
  /\ connection_history = <<>> /\ last_connection_state = None
  /\ mode_transitions = <<>> /\ last_op_mode = None
  /\ emergency_counts = [r \in Reason |-> 0]

\* Mutation of CloseLast: only the end of a connection is dated.
CloseLastConnected(h) ==
  IF h # <<>> /\ h[Len(h)].connected
  THEN [h EXCEPT ![Len(h)].duration = now - h[Len(h)].timestamp]
  ELSE h

\* The last entry gets its duration when the next one is written.
CloseLast(h) ==
  IF h # <<>> /\ h[Len(h)].duration = None
  THEN [h EXCEPT ![Len(h)].duration = now - h[Len(h)].timestamp]
  ELSE h

\* record_connection_change()
RecordConnectionChange(connected) ==
  \/ /\ last_connection_state = connected
     /\ UNCHANGED <<now, connectionVars, modeVars, emergency_counts>>
  \/ /\ last_connection_state # connected
     /\ connection_history' =
          AppendBounded(CloseLast(connection_history),
                        [timestamp |-> now, connected |-> connected, duration |-> None],
                        MAX_CONNECTION_HISTORY)
     /\ last_connection_state' = connected
     /\ UNCHANGED <<now, modeVars, emergency_counts>>

\* Mutation of RecordModeTransition: the current mode is set once only.
RecordModeOnce(mode) ==
  /\ mode_transitions' =
       IF last_op_mode # None /\ last_op_mode # mode
       THEN AppendBounded(mode_transitions,
                          [timestamp |-> now, from |-> last_op_mode, to |-> mode],
                          MAX_MODE_TRANSITIONS)
       ELSE mode_transitions
  /\ last_op_mode' = IF last_op_mode = None THEN mode ELSE last_op_mode
  /\ UNCHANGED <<now, connectionVars, emergency_counts>>

\* record_mode_transition(): the first mode seen is no transition.
RecordModeTransition(mode) ==
  /\ mode_transitions' =
       IF last_op_mode # None /\ last_op_mode # mode
       THEN AppendBounded(mode_transitions,
                          [timestamp |-> now, from |-> last_op_mode, to |-> mode],
                          MAX_MODE_TRANSITIONS)
       ELSE mode_transitions
  /\ last_op_mode' = mode
  /\ UNCHANGED <<now, connectionVars, emergency_counts>>

\* record_emergency()
RecordEmergency(reasons) ==
  /\ emergency_counts' = [r \in Reason |->
       IF r \in reasons THEN emergency_counts[r] + 1 ELSE emergency_counts[r]]
  /\ UNCHANGED <<now, connectionVars, modeVars>>

\* Mutation of JournalReset: the last connection state stays.
JournalResetKeepsState ==
  /\ connection_history' = <<>>
  /\ mode_transitions' = <<>> /\ last_op_mode' = None
  /\ emergency_counts' = [r \in Reason |-> 0]
  /\ UNCHANGED <<now, last_connection_state>>

\* reset(), history side
JournalReset ==
  /\ connection_history' = <<>> /\ last_connection_state' = None
  /\ mode_transitions' = <<>> /\ last_op_mode' = None
  /\ emergency_counts' = [r \in Reason |-> 0]
  /\ UNCHANGED now

JournalPass(d) ==
  now' = now + d /\ UNCHANGED <<connectionVars, modeVars, emergency_counts>>

JournalNext ==
  \/ \E c \in BOOLEAN : RecordConnectionChange(c)
  \/ \E m \in Mode : RecordModeTransition(m)
  \/ \E reasons \in SUBSET Reason : RecordEmergency(reasons)
  \/ JournalReset
  \/ \E d \in Nat : JournalPass(d)

JournalSpec == JournalInit /\ [][JournalNext]_journalVars

-----------------------------------------------------------------------------

\* The histories are bounded lists of entries.
JournalTypeOK ==
  /\ now \in Int
  /\ connection_history \in Seq(Connection)
  /\ Len(connection_history) <= MAX_CONNECTION_HISTORY
  /\ last_connection_state \in BOOLEAN \cup {None}
  /\ mode_transitions \in Seq(Transition)
  /\ Len(mode_transitions) <= MAX_MODE_TRANSITIONS
  /\ last_op_mode \in Mode \cup {None}
  /\ emergency_counts \in [Reason -> Nat]

\* Neighbouring entries of the connection history are opposite states, and the
\* newest entry is the state the next call is compared with: no change of the
\* connection is written twice and none is skipped, also when old ones are cut.
ConnectionsAlternate ==
  /\ \A i \in 1..(Len(connection_history) - 1) :
       connection_history[i].connected # connection_history[i + 1].connected
  /\ connection_history = <<>> <=> last_connection_state = None
  /\ connection_history # <<>> =>
       connection_history[Len(connection_history)].connected = last_connection_state

\* Every entry but the newest is closed, with the time to the next entry as its
\* duration: the durations tile the time the history covers.
DurationsTile ==
  \A i \in 1..Len(connection_history) :
    connection_history[i].duration =
      IF i = Len(connection_history) THEN None
      ELSE connection_history[i + 1].timestamp - connection_history[i].timestamp

\* The mode transitions form a path that ends in the current mode: each starts
\* where the one before ended and none stays in place.
TransitionsChain ==
  /\ \A i \in 1..Len(mode_transitions) :
       mode_transitions[i].from # mode_transitions[i].to
  /\ \A i \in 1..(Len(mode_transitions) - 1) :
       mode_transitions[i].to = mode_transitions[i + 1].from
  /\ mode_transitions # <<>> =>
       mode_transitions[Len(mode_transitions)].to = last_op_mode
=============================================================================
