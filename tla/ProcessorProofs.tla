---------------------------- MODULE ProcessorProofs ----------------------------
(***************************************************************************)
(* The histories of the store for all lengths, modes and times, the order  *)
(* in which the processor and clear_logs() write them, and the panels that *)
(* show them.                                                              *)
(*                                                                         *)
(* First the journal alone, for any order of its calls; then every step of *)
(* the processor, of update_data() and of clear_logs() is a step of the    *)
(* journal or leaves it alone, so that what is proved of the journal holds *)
(* in the program; then what the panels show, which follows from that.     *)
(***************************************************************************)
EXTENDS PacketProcessor, HistoryPanels, BoundedSeqProofs

JournalInv ==
  JournalTypeOK /\ ConnectionsAlternate /\ DurationsTile /\ TransitionsChain

ConnectionInv ==
  /\ connection_history \in Seq(Connection)
  /\ Len(connection_history) <= MAX_CONNECTION_HISTORY
  /\ last_connection_state \in BOOLEAN \cup {None}
  /\ ConnectionsAlternate /\ DurationsTile

ModeInv ==
  /\ mode_transitions \in Seq(Transition)
  /\ Len(mode_transitions) <= MAX_MODE_TRANSITIONS
  /\ last_op_mode \in Mode \cup {None}
  /\ TransitionsChain

RestInv == now \in Int /\ emergency_counts \in [Reason -> Nat]

LEMMA JournalInvSplits == JournalInv <=> ConnectionInv /\ ModeInv /\ RestInv
  BY Zenon DEF JournalInv, JournalTypeOK, ConnectionInv, ModeInv, RestInv

\* c is h with its newest entry closed at time t, if it was open.
IsClosed(c, h, t) ==
  /\ Len(c) = Len(h)
  /\ \A i \in 1..Len(h) :
       /\ c[i].connected = h[i].connected
       /\ c[i].timestamp = h[i].timestamp
       /\ i # Len(h) => c[i] = h[i]
       /\ i = Len(h) /\ h[i].duration = None => c[i].duration = t - h[i].timestamp

\* Closing the newest entry changes nothing but its duration.
LEMMA CloseLastKeeps ==
  ASSUME now \in Int, NEW h \in Seq(Connection)
  PROVE  CloseLast(h) \in Seq(Connection) /\ IsClosed(CloseLast(h), h, now)
<1>1. Len(h) \in Nat /\ (h # <<>> => Len(h) \in 1..Len(h))
  BY EmptySeq, LenProperties
<1>2. CASE h # <<>> /\ h[Len(h)].duration = None
  <2> DEFINE l == h[Len(h)]
             e == [l EXCEPT !.duration = now - h[Len(h)].timestamp]
             c == [h EXCEPT ![Len(h)] = e]
  <2>1. CloseLast(h) = c
    BY <1>2 DEF CloseLast
  <2>2. l \in Connection
    BY <1>1, <1>2, ElementOfSeq
  <2>3. e \in Connection /\ e.connected = l.connected /\ e.timestamp = l.timestamp
        /\ e.duration = now - l.timestamp
    BY <2>2 DEF Connection
  <2>4. c \in Seq(Connection) /\ Len(c) = Len(h)
        /\ \A i \in 1..Len(h) : c[i] = IF i = Len(h) THEN e ELSE h[i]
    <3> HIDE DEF e
    <3> QED
      BY <1>1, <1>2, <2>3, ExceptSeq
  <2> HIDE DEF e, c
  <2> QED
    BY <2>1, <2>3, <2>4 DEF IsClosed
<1>3. CASE ~(h # <<>> /\ h[Len(h)].duration = None)
  BY <1>1, <1>3 DEF CloseLast, IsClosed
<1> QED
  BY <1>2, <1>3

\* A change of the connection keeps the history alternating and tiled.
LEMMA ConnectionChangeKeeps ==
  ASSUME ConnectionInv, RestInv, NEW c \in BOOLEAN, RecordConnectionChange(c)
  PROVE  ConnectionInv'
<1> USE JournalAssumption, JournalNoneAssumption
<1> DEFINE h == connection_history
           n == MAX_CONNECTION_HISTORY
           e == [timestamp |-> now, connected |-> c, duration |-> None]
<1>1. CASE UNCHANGED connectionVars
  BY <1>1 DEF connectionVars, ConnectionInv, ConnectionsAlternate, DurationsTile
<1>2. CASE /\ last_connection_state # c
           /\ connection_history' = AppendBounded(CloseLast(h), e, n)
           /\ last_connection_state' = c
  <2> DEFINE d == CloseLast(h)
  <2>1. h \in Seq(Connection) /\ Len(h) \in Nat /\ now \in Int /\ e \in Connection
    BY LenProperties DEF ConnectionInv, RestInv, Connection
  <2>2. d \in Seq(Connection) /\ IsClosed(d, h, now)
    BY <2>1, CloseLastKeeps
  <2>3. h' \in Seq(Connection) /\ IsShift(h', d, e, n)
    <3> HIDE DEF d, e
    <3> QED
      BY <1>2, <2>1, <2>2, AppendBoundedShifts DEF d, e
  <2>4. Len(h') \in 1..n /\ h'[Len(h')] = e /\ Len(h') \in Nat
    BY <2>3, LenProperties DEF IsShift
  <2>5. PICK k \in 0..Len(h) :
          /\ Len(h') = Len(h) + 1 - k
          /\ \A i \in 1..(Len(h') - 1) : h'[i] = d[i + k]
    BY <2>2, <2>3 DEF IsShift, IsClosed
  <2> HIDE DEF d
  \* the neighbours in the new history, away from its end and at its end
  <2>6. ASSUME NEW i \in 1..(Len(h') - 1), i + 1 # Len(h')
        PROVE  /\ i + k \in 1..(Len(h) - 1)
               /\ h'[i] = h[i + k]
               /\ h'[i + 1].connected = h[i + k + 1].connected
               /\ h'[i + 1].timestamp = h[i + k + 1].timestamp
    <3>0. Len(h) \in Nat /\ Len(h') \in Nat /\ Len(h') = Len(h) + 1 - k
      BY <2>1, <2>4, <2>5
    <3>1. i + k \in 1..(Len(h) - 1) /\ i + 1 \in 1..(Len(h') - 1)
      BY <2>6, <3>0
    <3>2. h'[i] = d[i + k] /\ h'[i + 1] = d[i + k + 1]
      BY <2>5, <3>1
    <3>3. i + k \in 1..Len(h) /\ i + k # Len(h) /\ i + k + 1 \in 1..Len(h)
      BY <2>1, <3>1
    <3> QED
      BY <2>2, <3>1, <3>2, <3>3 DEF IsClosed
  <2>7. ASSUME NEW i \in 1..(Len(h') - 1), i + 1 = Len(h')
        PROVE  /\ h # <<>> /\ h'[i].connected = last_connection_state
               /\ h'[i].duration = now - h'[i].timestamp
    <3>1. i + k = Len(h) /\ h # <<>> /\ Len(h) \in 1..Len(h)
      BY <2>1, <2>4, <2>5, <2>7
    <3>2. h'[i] = d[Len(h)]
      BY <2>5, <3>1
    <3>3. h[Len(h)].duration = None /\ h[Len(h)].connected = last_connection_state
      BY <3>1 DEF ConnectionInv, ConnectionsAlternate, DurationsTile
    <3> QED
      BY <2>2, <3>1, <3>2, <3>3 DEF IsClosed
  <2>8. ConnectionsAlternate'
    <3>1. ASSUME NEW i \in 1..(Len(h') - 1)
          PROVE  h'[i].connected # h'[i + 1].connected
      <4>1. CASE i + 1 # Len(h')
        <5>1. h[i + k].connected # h[i + k + 1].connected
          BY <2>6, <4>1 DEF ConnectionInv, ConnectionsAlternate
        <5> QED BY <2>6, <4>1, <5>1
      <4>2. CASE i + 1 = Len(h')
        BY <1>2, <2>4, <2>7, <4>2
      <4> QED
        BY <4>1, <4>2
    <3> QED
      BY <1>2, <2>4, <3>1 DEF ConnectionsAlternate
  <2>9. DurationsTile'
    <3>1. ASSUME NEW i \in 1..Len(h'), i # Len(h')
          PROVE  h'[i].duration = h'[i + 1].timestamp - h'[i].timestamp
      <4>0. i \in 1..(Len(h') - 1)
        BY <2>4, <3>1
      <4>1. CASE i + 1 # Len(h')
        <5>1. i + k \in 1..Len(h) /\ i + k # Len(h)
          BY <2>1, <2>6, <4>0, <4>1
        <5>2. h[i + k].duration = h[i + k + 1].timestamp - h[i + k].timestamp
          BY <5>1 DEF ConnectionInv, DurationsTile
        <5> QED
          BY <2>6, <4>0, <4>1, <5>2
      <4>2. CASE i + 1 = Len(h')
        BY <2>4, <2>7, <4>0, <4>2
      <4> QED
        BY <4>1, <4>2
    <3> QED
      BY <2>4, <3>1 DEF DurationsTile
  <2> QED
    BY <1>2, <2>3, <2>4, <2>8, <2>9 DEF ConnectionInv
<1> QED
  BY <1>1, <1>2 DEF RecordConnectionChange, connectionVars

\* A change of the mode keeps the transitions a path that ends in the mode.
LEMMA ModeTransitionKeeps ==
  ASSUME ModeInv, RestInv, NEW m \in Mode, RecordModeTransition(m)
  PROVE  ModeInv'
<1> DEFINE h == mode_transitions
           n == MAX_MODE_TRANSITIONS
           e == [timestamp |-> now, from |-> last_op_mode, to |-> m]
<1>1. CASE ~(last_op_mode # None /\ last_op_mode # m)
  <2>1. h' = h /\ last_op_mode' = m
    BY <1>1 DEF RecordModeTransition
  <2>2. h # <<>> => last_op_mode = m
    <3>1. h # <<>> => h[Len(h)] \in Transition
      BY ElementOfSeq, LenProperties, EmptySeq DEF ModeInv
    <3> QED
      BY <1>1, <3>1, JournalNoneAssumption DEF ModeInv, TransitionsChain, Transition
  <2> QED
    BY <2>1, <2>2 DEF ModeInv, TransitionsChain
<1>2. CASE last_op_mode # None /\ last_op_mode # m
  <2>1. /\ h \in Seq(Transition) /\ Len(h) \in Nat /\ e \in Transition
        /\ h' = AppendBounded(h, e, n) /\ last_op_mode' = m
        /\ n \in Nat \ {0}
    BY <1>2, LenProperties, JournalAssumption
       DEF ModeInv, RestInv, Transition, RecordModeTransition
  <2>2. h' \in Seq(Transition) /\ IsShift(h', h, e, n)
    <3> HIDE DEF h, e, n
    <3> QED
      BY <2>1, AppendBoundedShifts
  <2>3. Len(h') \in 1..n /\ h'[Len(h')] = e /\ Len(h') \in Nat
    BY <2>2, LenProperties DEF IsShift
  <2>4. PICK k \in 0..Len(h) :
          /\ Len(h') = Len(h) + 1 - k
          /\ \A i \in 1..(Len(h') - 1) : h'[i] = h[i + k]
    BY <2>2 DEF IsShift
  <2>5. ASSUME NEW i \in 1..Len(h') PROVE h'[i].from # h'[i].to
    <3>1. CASE i = Len(h')
      BY <1>2, <2>3, <3>1
    <3>2. CASE i # Len(h')
      <4>1. i \in 1..(Len(h') - 1) /\ i + k \in 1..Len(h)
        BY <2>1, <2>3, <2>4, <3>2
      <4> QED
        BY <2>4, <4>1 DEF ModeInv, TransitionsChain
    <3> QED
      BY <3>1, <3>2
  <2>6. ASSUME NEW i \in 1..(Len(h') - 1) PROVE h'[i].to = h'[i + 1].from
    <3>0. h'[i] = h[i + k]
      BY <2>4
    <3>1. CASE i + 1 = Len(h')
      <4>1. i + k = Len(h) /\ h # <<>>
        BY <2>1, <2>3, <2>4, <3>1
      <4>2. h[Len(h)].to = last_op_mode
        BY <4>1 DEF ModeInv, TransitionsChain
      <4>3. h'[i + 1] = e
        BY <2>3, <3>1
      <4> QED
        BY <3>0, <4>1, <4>2, <4>3
    <3>2. CASE i + 1 # Len(h')
      <4>1. i + 1 \in 1..(Len(h') - 1) /\ i + k \in 1..(Len(h) - 1)
        BY <2>1, <2>3, <2>4, <3>2
      <4>2. h'[i + 1] = h[i + k + 1]
        BY <2>4, <4>1
      <4> QED
        BY <3>0, <4>1, <4>2 DEF ModeInv, TransitionsChain
    <3> QED
      BY <3>1, <3>2
  <2>7. TransitionsChain'
    BY <2>1, <2>3, <2>5, <2>6 DEF TransitionsChain
  <2> QED
    BY <2>1, <2>2, <2>3, <2>7 DEF ModeInv
<1> QED
  BY <1>1, <1>2

\* The histories stay well formed under any interleaving of the calls.
THEOREM JournalCorrect == JournalSpec => []JournalInv
<1>1. JournalInit => JournalInv
  BY JournalAssumption
     DEF JournalInit, JournalInv, JournalTypeOK, ConnectionsAlternate,
         DurationsTile, TransitionsChain
<1>2. JournalInv /\ [JournalNext]_journalVars => JournalInv'
  <2> SUFFICES ASSUME ConnectionInv, ModeInv, RestInv, [JournalNext]_journalVars
               PROVE  ConnectionInv' /\ ModeInv' /\ RestInv'
    BY JournalInvSplits, PTL
  <2>c. UNCHANGED connectionVars => ConnectionInv'
    BY DEF connectionVars, ConnectionInv, ConnectionsAlternate, DurationsTile
  <2>m. UNCHANGED modeVars => ModeInv'
    BY DEF modeVars, ModeInv, TransitionsChain
  <2>1. ASSUME NEW c \in BOOLEAN, RecordConnectionChange(c)
        PROVE  ConnectionInv' /\ ModeInv' /\ RestInv'
    BY <2>1, <2>m, ConnectionChangeKeeps DEF RecordConnectionChange, RestInv
  <2>2. ASSUME NEW m \in Mode, RecordModeTransition(m)
        PROVE  ConnectionInv' /\ ModeInv' /\ RestInv'
    BY <2>2, <2>c, ModeTransitionKeeps DEF RecordModeTransition, RestInv
  <2>3. ASSUME NEW r \in SUBSET Reason, RecordEmergency(r)
        PROVE  ConnectionInv' /\ ModeInv' /\ RestInv'
    BY <2>3, <2>c, <2>m DEF RecordEmergency, RestInv
  <2>4. CASE JournalReset
    BY <2>4, JournalAssumption
       DEF JournalReset, ConnectionInv, ConnectionsAlternate, DurationsTile,
           ModeInv, TransitionsChain, RestInv
  <2>5. ASSUME NEW d \in Nat, JournalPass(d)
        PROVE  ConnectionInv' /\ ModeInv' /\ RestInv'
    BY <2>5, <2>c, <2>m DEF JournalPass, RestInv
  <2>6. CASE UNCHANGED journalVars
    BY <2>6, <2>c, <2>m DEF journalVars, connectionVars, modeVars, RestInv
  <2> QED
    BY <2>1, <2>2, <2>3, <2>4, <2>5, <2>6 DEF JournalNext
<1> QED
  BY <1>1, <1>2, PTL DEF JournalSpec

\* Types and bounds of the histories.
THEOREM JournalTypeCorrect == JournalSpec => []JournalTypeOK
  BY JournalCorrect, PTL DEF JournalInv

\* Every change of the connection is in the history exactly once.
THEOREM AlternationCorrect == JournalSpec => []ConnectionsAlternate
  BY JournalCorrect, PTL DEF JournalInv

\* Durations tile the time the connection history covers.
THEOREM TilingCorrect == JournalSpec => []DurationsTile
  BY JournalCorrect, PTL DEF JournalInv

\* The mode history is a path that ends in the current mode.
THEOREM ChainCorrect == JournalSpec => []TransitionsChain
  BY JournalCorrect, PTL DEF JournalInv

-----------------------------------------------------------------------------

\* A packet in work is one that the parser returned.
WorkInv ==
  /\ pending \in Seq(ParseResult)
  /\ pc \in {"mode", "emergency", "add"} => pending # <<>>

LEMMA WorkInit == ProcessorInit => WorkInv
BY DEF ProcessorInit, WorkInv

LEMMA PacketIsParsed ==
  ASSUME WorkInv, pc \in {"mode", "emergency", "add"}
  PROVE  Packet \in ParseResult
BY DEF WorkInv, Packet

LEMMA WorkNext == WorkInv /\ [ProcessorNext]_processorVars => WorkInv'
<1> SUFFICES ASSUME WorkInv, [ProcessorNext]_processorVars PROVE WorkInv'
  OBVIOUS
<1>1. CASE GetAll
  <2>1. PICK n \in 1..MaxBatch : pending' \in [1..n -> ParseResult]
    BY <1>1 DEF GetAll
  <2>2. MaxBatch \in Nat
    BY ProcessorAssumption
  <2>3. n \in Nat /\ n # 0
    BY <2>1, <2>2
  <2> QED BY <2>1, <2>3 DEF WorkInv
<1>2. CASE RecordMode
  BY <1>2 DEF RecordMode, WorkInv
<1>3. CASE RecordReasons
  BY <1>3 DEF RecordReasons, WorkInv
<1>4. CASE AddRecord
  <2>1. pending' = Tail(pending) /\ pending # <<>>
    BY <1>4 DEF AddRecord, WorkInv
  <2>2. pc' = IF Tail(pending) = <<>> THEN "record" ELSE "mode"
    BY <1>4 DEF AddRecord
  <2> QED BY <2>1, <2>2 DEF WorkInv
<1>5. CASE RecordConnection
  BY <1>5 DEF RecordConnection, WorkInv
<1>6. CASE RecordSilence
  BY <1>6 DEF RecordSilence, WorkInv
<1>7. CASE Clear
  BY <1>7 DEF Clear, WorkInv
<1>8. CASE PassTime
  BY <1>8 DEF PassTime, WorkInv
<1>9. CASE UNCHANGED processorVars
  BY <1>9 DEF processorVars, WorkInv
<1> QED
  BY <1>1, <1>2, <1>3, <1>4, <1>5, <1>6, <1>7, <1>8, <1>9 DEF ProcessorNext

\* A step of the processor is a step of the journal.
LEMMA StepOfJournal ==
  WorkInv /\ [ProcessorNext]_processorVars => [JournalNext]_journalVars
<1> SUFFICES ASSUME WorkInv, [ProcessorNext]_processorVars
             PROVE  [JournalNext]_journalVars
  OBVIOUS
<1>1. CASE GetAll
  BY <1>1 DEF GetAll
<1>2. CASE RecordMode
  <2>1. Packet \in ParseResult
    BY <1>2, PacketIsParsed DEF RecordMode
  <2>2. Packet.mode \in Mode
    BY <1>2, <2>1, ProcessorAssumption DEF RecordMode, HasPayload
  <2> QED BY <1>2, <2>2 DEF RecordMode, JournalNext
<1>3. CASE RecordReasons
  <2>1. Packet \in ParseResult
    BY <1>3, PacketIsParsed DEF RecordReasons
  <2>2. Packet.reasons \in SUBSET Reason
    BY <2>1, ProcessorAssumption
  <2> QED BY <1>3, <2>2 DEF RecordReasons, JournalNext
<1>4. CASE AddRecord
  BY <1>4 DEF AddRecord
<1>5. CASE RecordConnection
  BY <1>5 DEF RecordConnection, JournalNext
<1>6. CASE RecordSilence
  BY <1>6 DEF RecordSilence, JournalNext
<1>7. CASE Clear
  BY <1>7 DEF Clear, JournalNext
<1>8. CASE PassTime
  BY <1>8 DEF PassTime, JournalNext
<1>9. CASE UNCHANGED processorVars
  BY <1>9 DEF processorVars
<1> QED
  BY <1>1, <1>2, <1>3, <1>4, <1>5, <1>6, <1>7, <1>8, <1>9 DEF ProcessorNext

\* The order in which the program calls the journal is one the journal allows.
THEOREM ProcessorUsesJournal == ProcessorSpec => JournalSpec
<1>1. ProcessorInit => JournalInit
  BY DEF ProcessorInit
<1> QED
  BY <1>1, WorkInit, WorkNext, StepOfJournal, PTL DEF ProcessorSpec, JournalSpec

\* In the running program neighbouring connection states alternate.
THEOREM ProgramAlternates == ProcessorSpec => []ConnectionsAlternate
BY ProcessorUsesJournal, AlternationCorrect

\* In the running program connection periods tile the time they cover.
THEOREM ProgramTiles == ProcessorSpec => []DurationsTile
BY ProcessorUsesJournal, TilingCorrect

\* In the running program mode transitions chain.
THEOREM ProgramChains == ProcessorSpec => []TransitionsChain
BY ProcessorUsesJournal, ChainCorrect

-----------------------------------------------------------------------------

\* The counters of emergencies against the records.
Record == [operation_mode : Mode \cup {None}, reasons : SUBSET Reason]

Naming(rs, r) == {i \in 1..Len(rs) : r \in rs[i].reasons}

CountInv ==
  /\ WorkInv /\ records \in Seq(Record)
  /\ emergency_counts \in [Reason -> Nat]
  /\ EmergenciesTold

\* What the records and the packet in work name, without the model's guard: a
\* packet that names a source has a payload.
StoredIsNamed ==
  \A r \in Reason :
    /\ Cardinality(Naming(records, r)) \in Nat
    /\ Stored(r) = Cardinality(Naming(records, r))
                     + (IF pc = "add" /\ r \in Packet.reasons THEN 1 ELSE 0)

LEMMA StoredCounts == WorkInv /\ records \in Seq(Record) => StoredIsNamed
<1> SUFFICES ASSUME WorkInv, records \in Seq(Record), NEW r \in Reason
             PROVE  /\ Cardinality(Naming(records, r)) \in Nat
                    /\ Stored(r) = Cardinality(Naming(records, r))
                          + (IF pc = "add" /\ r \in Packet.reasons THEN 1 ELSE 0)
  BY DEF StoredIsNamed
<1>1. pc = "add" => Packet \in ParseResult
  BY PacketIsParsed
<1>2. pc = "add" /\ r \in Packet.reasons => HasPayload
  BY <1>1, ProcessorAssumption DEF HasPayload
<1>3. DOMAIN records = 1..Len(records) /\ Len(records) \in Nat
  BY LenProperties
<1>4. IsFiniteSet(Naming(records, r))
  <2>1. IsFiniteSet(1..Len(records))
    BY <1>3, FS_Interval
  <2> QED BY <2>1, FS_Subset DEF Naming
<1>5. Cardinality(Naming(records, r)) \in Nat
  BY <1>4, FS_CardinalityType
<1>6. Naming(records, r) = {i \in DOMAIN records : r \in records[i].reasons}
  BY <1>3 DEF Naming
<1> QED BY <1>2, <1>5, <1>6 DEF Stored

\* A record more names what it names.
LEMMA NamingGrows ==
  ASSUME NEW rs \in Seq(Record), NEW e \in Record, NEW r \in Reason
  PROVE  Cardinality(Naming(Append(rs, e), r))
           = Cardinality(Naming(rs, r)) + (IF r \in e.reasons THEN 1 ELSE 0)
<1> DEFINE n == Len(rs)
           t == Append(rs, e)
<1>1. /\ n \in Nat /\ Len(t) = n + 1 /\ t[n + 1] = e
      /\ \A i \in 1..n : t[i] = rs[i]
  BY AppendProperties, LenProperties
<1> HIDE DEF t, n
<1>2. Len(rs) = n
  BY DEF n
<1>3. IsFiniteSet(Naming(rs, r)) /\ n + 1 \notin Naming(rs, r)
  <2>1. n + 1 \notin 1..n /\ IsFiniteSet(1..n)
    BY <1>1, FS_Interval
  <2> QED BY <1>2, <2>1, FS_Subset DEF Naming
<1>4. Cardinality(Naming(rs, r)) \in Nat
  BY <1>3, FS_CardinalityType
<1>5. 1..(n + 1) = (1..n) \cup {n + 1}
  BY <1>1
<1>6. CASE r \in e.reasons
  <2>1. Naming(t, r) = Naming(rs, r) \cup {n + 1}
    BY <1>1, <1>2, <1>5, <1>6 DEF Naming
  <2> QED BY <1>3, <1>4, <1>6, <2>1, FS_AddElement DEF t
<1>7. CASE r \notin e.reasons
  <2>1. Naming(t, r) = Naming(rs, r)
    BY <1>1, <1>2, <1>5, <1>7 DEF Naming
  <2> QED BY <1>4, <1>7, <2>1 DEF t
<1> QED BY <1>6, <1>7

LEMMA CountNext == CountInv /\ [ProcessorNext]_processorVars => CountInv'
<1> SUFFICES ASSUME CountInv, [ProcessorNext]_processorVars PROVE CountInv'
  OBVIOUS
<1>0. WorkInv'
  BY WorkNext DEF CountInv
<1>s. (records \in Seq(Record))' => StoredIsNamed'
  BY <1>0, StoredCounts, PTL
<1>t. ASSUME NEW r \in Reason
      PROVE  /\ Cardinality(Naming(records, r)) \in Nat
             /\ Stored(r) = Cardinality(Naming(records, r))
                          + (IF pc = "add" /\ r \in Packet.reasons THEN 1 ELSE 0)
             /\ emergency_counts[r] \in {Stored(r), Stored(r) - 1}
  BY StoredCounts DEF CountInv, EmergenciesTold, StoredIsNamed
<1>1. ASSUME UNCHANGED <<emergency_counts, records>>, pc # "add", pc' # "add"
      PROVE  CountInv'
  <2>1. ASSUME NEW r \in Reason PROVE Stored(r)' = Stored(r)
    BY <1>1, <1>s, <1>t DEF CountInv, StoredIsNamed
  <2> QED BY <1>0, <1>1, <2>1 DEF CountInv, EmergenciesTold
<1>2. CASE RecordReasons
  <2>1. Packet \in ParseResult /\ pc # "add"
    BY <1>2, PacketIsParsed DEF RecordReasons, CountInv
  <2>2. /\ Packet' = Packet /\ pc' = "add" /\ records' = records
        /\ emergency_counts' = [r \in Reason |->
             IF r \in Packet.reasons THEN emergency_counts[r] + 1 ELSE emergency_counts[r]]
    BY <1>2 DEF RecordReasons, RecordEmergency, Packet
  <2>3. emergency_counts' \in [Reason -> Nat]
    BY <2>2 DEF CountInv
  <2>4. ASSUME NEW r \in Reason
        PROVE  emergency_counts'[r] \in {Stored(r)', Stored(r)' - 1}
    <3>1. records' \in Seq(Record) /\ emergency_counts[r] \in Nat
      BY <2>2 DEF CountInv
    <3>2. Stored(r)' = Stored(r) + (IF r \in Packet.reasons THEN 1 ELSE 0)
      BY <1>s, <1>t, <2>1, <2>2, <3>1 DEF StoredIsNamed
    <3> QED BY <1>t, <2>2, <3>1, <3>2
  <2> QED BY <1>0, <2>2, <2>3, <2>4 DEF CountInv, EmergenciesTold
<1>3. CASE AddRecord
  <2> DEFINE e == [operation_mode |-> Packet.mode, reasons |-> Packet.reasons]
  <2>1. pending # <<>> /\ Packet \in ParseResult
    BY <1>3, PacketIsParsed DEF AddRecord, CountInv, WorkInv
  <2>2. e \in Record
    BY <2>1, ProcessorAssumption DEF Record
  <2>3. records' = Append(records, e) /\ pc' # "add" /\ emergency_counts' = emergency_counts
    BY <1>3 DEF AddRecord, journalVars
  <2>4. records' \in Seq(Record)
    BY <2>2, <2>3, AppendProperties DEF CountInv
  <2>5. ASSUME NEW r \in Reason PROVE Stored(r)' = Stored(r)
    <3>1. pc = "add" \/ r \notin Packet.reasons
      BY <1>3, <2>1, ProcessorAssumption DEF AddRecord, HasPayload
    <3>2. Cardinality(Naming(records', r))
            = Cardinality(Naming(records, r)) + (IF r \in Packet.reasons THEN 1 ELSE 0)
      <4>1. e.reasons = Packet.reasons
        OBVIOUS
      <4> HIDE DEF e
      <4> QED BY <2>2, <2>3, <4>1, NamingGrows DEF CountInv
    <3> QED BY <1>s, <1>t, <2>3, <2>4, <3>1, <3>2 DEF StoredIsNamed
  <2> QED BY <1>0, <2>3, <2>4, <2>5 DEF CountInv, EmergenciesTold
<1>4. CASE Clear
  <2>1. /\ emergency_counts' = [r \in Reason |-> 0] /\ records' = <<>>
        /\ pc' = pc /\ Packet' = Packet
    BY <1>4 DEF Clear, JournalReset, Packet
  <2>2. ASSUME NEW r \in Reason PROVE Stored(r)' \in {0, 1}
    <3>1. Naming(records', r) = {}
      BY <2>1 DEF Naming
    <3>2. records' \in Seq(Record)
      BY <2>1
    <3>3. Cardinality(Naming(records', r)) = 0
      BY <3>1, FS_EmptySet
    <3>4. Stored(r)' = 0 + (IF pc' = "add" /\ r \in Packet'.reasons THEN 1 ELSE 0)
      BY <1>s, <3>2, <3>3 DEF StoredIsNamed
    <3> QED BY <3>4
  <2> QED BY <1>0, <2>1, <2>2 DEF CountInv, EmergenciesTold
<1>5. CASE GetAll
  BY <1>1, <1>5 DEF GetAll, journalVars
<1>6. CASE RecordMode
  BY <1>1, <1>6 DEF RecordMode, RecordModeTransition
<1>7. CASE RecordConnection
  BY <1>1, <1>7 DEF RecordConnection, RecordConnectionChange
<1>8. ASSUME UNCHANGED <<emergency_counts, records, pending, pc>> PROVE CountInv'
  <2>1. ASSUME NEW r \in Reason PROVE Stored(r)' = Stored(r)
    BY <1>8 DEF Stored, HasPayload, Packet
  <2> QED BY <1>0, <1>8, <2>1 DEF CountInv, EmergenciesTold
<1>9. CASE RecordSilence
  BY <1>8, <1>9 DEF RecordSilence, RecordConnectionChange
<1>10. CASE PassTime
  BY <1>8, <1>10 DEF PassTime, JournalPass
<1>11. CASE UNCHANGED processorVars
  BY <1>8, <1>11 DEF processorVars, journalVars
<1> QED
  BY <1>2, <1>3, <1>4, <1>5, <1>6, <1>7, <1>9, <1>10, <1>11 DEF ProcessorNext

\* The counters of emergencies agree with the records, for every set of sources
\* and any number of packets, with the logs cleared between any two calls.
THEOREM EmergenciesCounted == ProcessorSpec => []EmergenciesTold
<1>1. ProcessorInit => CountInv
  <2> SUFFICES ASSUME ProcessorInit PROVE CountInv
    OBVIOUS
  <2>1. /\ records = <<>> /\ pc = "idle"
        /\ emergency_counts = [r \in Reason |-> 0]
    BY DEF ProcessorInit, JournalInit
  <2>2. WorkInv /\ records \in Seq(Record)
    BY <2>1, WorkInit
  <2>3. ASSUME NEW r \in Reason PROVE Stored(r) = 0
    <3>1. Naming(records, r) = {}
      BY <2>1 DEF Naming
    <3> QED BY <2>1, <2>2, <3>1, StoredCounts, FS_EmptySet DEF StoredIsNamed
  <2> QED BY <2>1, <2>2, <2>3 DEF CountInv, EmergenciesTold
<1>2. CountInv => EmergenciesTold
  BY DEF CountInv
<1> QED BY <1>1, <1>2, CountNext, PTL DEF ProcessorSpec

-----------------------------------------------------------------------------
(* The transitions against the records *)

Move == [from : Mode, to : Mode]

\* ModesFrom(), of any records.
ModesIn(rs, k) ==
  LET later == SubSeq(rs, k, Len(rs))
  IN Among([i \in 1..Len(later) |-> later[i].operation_mode], Mode)

LEMMA ModesAreModes ==
  ASSUME NEW rs \in Seq(Record), NEW k \in Nat \ {0}
  PROVE  /\ ModesIn(rs, k) \in Seq(Mode)
         /\ Len(rs) < k => ModesIn(rs, k) = <<>>
<1> DEFINE later == SubSeq(rs, k, Len(rs))
           v == [i \in 1..Len(later) |-> later[i].operation_mode]
<1>1. /\ later \in Seq(Record) /\ Len(later) \in Nat
      /\ Len(rs) < k => Len(later) = 0
  <2>1. later \in Seq(Record) /\ Len(later) = (IF k <= Len(rs) THEN Len(rs) - k + 1 ELSE 0)
    BY LaterItems
  <2> HIDE DEF later
  <2> QED BY <2>1, LenProperties
<1> HIDE DEF later
<1>2. v \in Seq(Mode \cup {None}) /\ Len(v) = Len(later)
  <2>1. ASSUME NEW i \in 1..Len(later) PROVE later[i].operation_mode \in Mode \cup {None}
    <3>1. later[i] \in Record
      BY <1>1, ElementOfSeq
    <3> QED BY <3>1 DEF Record
  <2> QED BY <1>1, <2>1
<1> HIDE DEF v
<1>3. Among(v, Mode) \in Seq((Mode \cup {None}) \cap Mode) /\ Len(Among(v, Mode)) <= Len(v)
  BY <1>2, AmongItems
<1>4. (Mode \cup {None}) \cap Mode = Mode
  OBVIOUS
<1>5. Among(v, Mode) \in Seq(Mode)
  BY <1>3, <1>4
<1>6. Len(rs) < k => Among(v, Mode) = <<>>
  <2>1. Len(Among(v, Mode)) \in Nat
    BY <1>5, LenProperties
  <2> QED BY <1>1, <1>2, <1>3, <1>5, <2>1, EmptySeq
<1> QED BY <1>5, <1>6 DEF ModesIn, later, v

\* A record more has its mode behind the others, if it has one.
LEMMA ModesGrow ==
  ASSUME NEW rs \in Seq(Record), NEW e \in Record, NEW k \in 1..(Len(rs) + 1)
  PROVE  ModesIn(Append(rs, e), k) =
           IF e.operation_mode \in Mode THEN Append(ModesIn(rs, k), e.operation_mode)
           ELSE ModesIn(rs, k)
<1> DEFINE later == SubSeq(rs, k, Len(rs))
           more == SubSeq(Append(rs, e), k, Len(Append(rs, e)))
           v == [i \in 1..Len(later) |-> later[i].operation_mode]
           w == [i \in 1..Len(more) |-> more[i].operation_mode]
           m == e.operation_mode
           M == Mode \cup {None}
<1>1. later \in Seq(Record)
  <2>1. k \in Nat \ {0}
    BY LenProperties
  <2> QED BY <2>1, LaterItems
<1>2. more = Append(later, e)
  BY LaterAppend
<1> HIDE DEF later, more
<1>3. /\ Len(more) = Len(later) + 1 /\ more[Len(later) + 1] = e /\ Len(later) \in Nat
      /\ \A i \in 1..Len(later) : more[i] = later[i]
  BY <1>1, <1>2, AppendProperties, LenProperties
<1>4. v \in Seq(M) /\ Len(v) = Len(later)
  <2>1. ASSUME NEW i \in 1..Len(later) PROVE later[i].operation_mode \in M
    <3>1. later[i] \in Record
      BY <1>1, ElementOfSeq
    <3> QED BY <3>1 DEF Record
  <2> QED BY <1>3, <2>1
<1>5. m \in M
  BY DEF Record
<1>6. w = Append(v, m)
  <2>1. Append(v, m) = [i \in 1..(Len(v) + 1) |-> IF i = Len(v) + 1 THEN m ELSE v[i]]
    <3> DEFINE a == Append(v, m)
    <3>1. /\ a \in Seq(M) /\ Len(a) = Len(v) + 1 /\ a[Len(v) + 1] = m
          /\ \A i \in 1..Len(v) : a[i] = v[i]
      <4> HIDE DEF v, m, M
      <4> QED BY <1>4, <1>5, AppendProperties
    <3> HIDE DEF a, v, m
    <3>2. a = [i \in 1..Len(a) |-> a[i]]
      BY <3>1
    <3>3. \A i \in 1..Len(a) : a[i] = IF i = Len(v) + 1 THEN m ELSE v[i]
      BY <1>3, <1>4, <3>1
    <3> QED BY <3>1, <3>2, <3>3 DEF a
  <2>2. \A i \in 1..(Len(later) + 1) :
          more[i].operation_mode = IF i = Len(later) + 1 THEN m ELSE v[i]
    BY <1>3
  <2> HIDE DEF v, m
  <2> QED BY <1>3, <1>4, <2>1, <2>2
<1> HIDE DEF v, w
<1>7. Among(Append(v, m), Mode) = IF m \in Mode THEN Append(Among(v, Mode), m) ELSE Among(v, Mode)
  <2> HIDE DEF m, M
  <2> QED BY <1>4, <1>5, AmongAppend
<1> QED BY <1>6, <1>7 DEF ModesIn, later, more, v, w

\* A mode more is a change, if it is another one.
LEMMA ChangesGrow ==
  ASSUME NEW ms \in Seq(Mode), NEW m \in Mode
  PROVE  /\ Changes(ms) \in Seq(Move)
         /\ ms = <<>> => Changes(ms) = <<>>
         /\ Changes(Append(ms, m)) =
              IF ms = <<>> \/ ms[Len(ms)] = m THEN Changes(ms)
              ELSE Append(Changes(ms), [from |-> ms[Len(ms)], to |-> m])
<1> DEFINE L == Len(ms)
           u == Append(ms, m)
           later == SubSeq(ms, 2, Len(ms))
           more == SubSeq(u, 2, Len(u))
           v == [i \in 1..Len(later) |-> [from |-> ms[i], to |-> later[i]]]
           w == [i \in 1..Len(more) |-> [from |-> u[i], to |-> more[i]]]
           E == {t \in [from : Mode, to : Mode] : t.from # t.to}
           x == [from |-> ms[L], to |-> m]
<1>1. /\ u \in Seq(Mode) /\ Len(u) = L + 1 /\ L \in Nat /\ u[L + 1] = m
      /\ \A i \in 1..L : u[i] = ms[i] /\ ms[i] \in Mode
      /\ ms = <<>> <=> L = 0
  BY AppendProperties, LenProperties, ElementOfSeq, EmptySeq
<1> HIDE DEF u
<1>2. /\ later \in Seq(Mode) /\ Len(later) = (IF 2 <= L THEN L - 1 ELSE 0)
      /\ \A i \in 1..Len(later) : later[i] = ms[i + 1]
  <2>1. /\ later \in Seq(Mode) /\ Len(later) = (IF 2 <= L THEN L - 2 + 1 ELSE 0)
        /\ \A i \in 1..Len(later) : later[i] = ms[2 + i - 1]
    BY LaterItems
  <2> HIDE DEF later
  <2> QED BY <1>1, <2>1
<1>3. /\ more \in Seq(Mode) /\ Len(more) = (IF 1 <= L THEN L ELSE 0)
      /\ \A i \in 1..Len(more) : more[i] = u[i + 1]
  <2>1. /\ more \in Seq(Mode) /\ Len(more) = (IF 2 <= Len(u) THEN Len(u) - 2 + 1 ELSE 0)
        /\ \A i \in 1..Len(more) : more[i] = u[2 + i - 1]
    BY <1>1, LaterItems
  <2> HIDE DEF more
  <2> QED BY <1>1, <2>1
<1> HIDE DEF later, more, L
<1>4. v \in Seq(Move) /\ Len(v) = Len(later)
  <2>1. Len(later) \in Nat
    BY <1>1, <1>2
  <2>2. ASSUME NEW i \in 1..Len(later) PROVE [from |-> ms[i], to |-> later[i]] \in Move
    <3>1. i \in 1..L /\ i + 1 \in 1..L
      BY <1>1, <1>2
    <3> QED BY <1>1, <1>2, <3>1 DEF Move
  <2> QED BY <2>1, <2>2
<1>5. Changes(ms) = Among(v, E) /\ Changes(u) = Among(w, E)
  BY DEF Changes, later, more
<1>6. Changes(ms) \in Seq(Move)
  <2>1. Among(v, E) \in Seq(Move)
    <3> HIDE DEF v, E
    <3> QED BY <1>4, AmongItems
  <2> HIDE DEF v, w, E
  <2> QED BY <1>5, <2>1
<1>7. CASE L = 0
  <2>1. Len(later) = 0 /\ Len(more) = 0
    BY <1>2, <1>3, <1>7
  <2>2. v = w
    BY <2>1
  <2>3. Changes(ms) = <<>>
    <3>1. Len(Among(v, E)) <= Len(v) /\ Among(v, E) \in Seq(Move)
      <4> HIDE DEF v, E
      <4> QED BY <1>4, AmongItems
    <3>2. Len(Changes(ms)) <= 0 /\ Changes(ms) \in Seq(Move)
      <4> HIDE DEF v, E
      <4> QED BY <1>4, <1>5, <2>1, <3>1
    <3> QED BY <3>2, LenProperties, EmptySeq
  <2> HIDE DEF v, w, E
  <2> QED BY <1>1, <1>5, <1>6, <1>7, <2>2, <2>3 DEF u
<1>8. CASE L # 0
  <2>1. Len(later) = L - 1 /\ Len(more) = L /\ L \in 1..L
    BY <1>1, <1>2, <1>3, <1>8
  <2>2. x \in Move
    BY <1>1, <2>1 DEF Move
  <2>3. w = Append(v, x)
    <3> DEFINE a == Append(v, x)
    <3>1. /\ a \in Seq(Move) /\ Len(a) = Len(v) + 1 /\ a[Len(v) + 1] = x
          /\ \A i \in 1..Len(v) : a[i] = v[i]
      <4> HIDE DEF v, x
      <4> QED BY <1>4, <2>2, AppendProperties
    <3> HIDE DEF a
    <3>2. Len(a) = L /\ L = (L - 1) + 1
      BY <1>1, <1>4, <2>1, <3>1
    <3>3. ASSUME NEW i \in 1..L PROVE a[i] = w[i]
      <4>1. i + 1 \in 1..(L + 1) /\ w[i] = [from |-> ms[i], to |-> u[i + 1]]
        BY <1>1, <1>3, <2>1
      <4>2. CASE i = L
        <5>1. w[i] = x
          BY <1>1, <4>1, <4>2
        <5>2. a[i] = x
          BY <1>4, <2>1, <3>1, <3>2, <4>2
        <5> QED BY <5>1, <5>2
      <4>3. CASE i # L
        <5>1. i \in 1..(L - 1) /\ i + 1 \in 1..L
          BY <1>1, <4>3
        <5>2. v[i] = [from |-> ms[i], to |-> ms[i + 1]]
          BY <1>2, <2>1, <5>1
        <5>3. a[i] = v[i]
          BY <1>4, <2>1, <3>1, <5>1
        <5> QED BY <1>1, <4>1, <5>1, <5>2, <5>3
      <4> QED BY <4>2, <4>3
    <3>4. w \in Seq(Move) /\ Len(w) = L
      <4>1. \A i \in 1..L : a[i] \in Move
        BY <3>1, <3>2, ElementOfSeq
      <4>2. \A i \in 1..Len(more) : [from |-> u[i], to |-> more[i]] \in Move
        <5> SUFFICES ASSUME NEW i \in 1..L PROVE [from |-> u[i], to |-> more[i]] \in Move
          BY <2>1
        <5>1. u[i] \in Mode /\ more[i] \in Mode
          BY <1>1, <1>3, <2>1, ElementOfSeq
        <5> QED BY <5>1 DEF Move
      <4> QED BY <1>1, <2>1, <4>2
    <3> HIDE DEF w
    <3>5. w = a
      BY <3>1, <3>2, <3>3, <3>4, SeqEqual
    <3> QED BY <3>5 DEF a
  <2>4. Among(Append(v, x), E) = IF x \in E THEN Append(Among(v, E), x) ELSE Among(v, E)
    <3> HIDE DEF v, x, E
    <3> QED BY <1>4, <2>2, AmongAppend
  <2>5. x \in E <=> ms[L] # m
    BY <2>2 DEF Move
  <2> HIDE DEF v, w, E
  <2> QED BY <1>1, <1>5, <1>6, <1>8, <2>3, <2>4, <2>5 DEF u, L
<1> QED BY <1>7, <1>8

\* Tells(), of any history and any last mode.
TellsIn(h, last, ms) ==
  /\ Moves(h) = LastN(Changes(ms), MAX_MODE_TRANSITIONS)
  /\ last = IF ms = <<>> THEN None ELSE ms[Len(ms)]

LEMMA MovesBounded ==
  ASSUME NEW h \in Seq(Transition), NEW e \in Transition, NEW n \in Nat \ {0}
  PROVE  /\ Moves(h) \in Seq(Move)
         /\ Moves(AppendBounded(h, e, n))
              = AppendBounded(Moves(h), [from |-> e.from, to |-> e.to], n)
<1> DEFINE t == AppendBounded(h, e, n)
           x == [from |-> e.from, to |-> e.to]
           d == Moves(h)
           f == Moves(t)
           v == AppendBounded(d, x, n)
<1>1. ASSUME NEW g \in Seq(Transition)
      PROVE  /\ Moves(g) \in Seq(Move) /\ Len(Moves(g)) = Len(g)
             /\ \A i \in 1..Len(g) : Moves(g)[i] = [from |-> g[i].from, to |-> g[i].to]
  <2>1. ASSUME NEW i \in 1..Len(g) PROVE [from |-> g[i].from, to |-> g[i].to] \in Move
    <3>1. g[i] \in Transition
      BY ElementOfSeq
    <3> QED BY <3>1 DEF Transition, Move
  <2>2. Len(g) \in Nat
    BY LenProperties
  <2>3. Moves(g) = [i \in 1..Len(g) |-> [from |-> g[i].from, to |-> g[i].to]]
    BY DEF Moves
  <2> QED BY <2>1, <2>2, <2>3
<1>2. t \in Seq(Transition) /\ IsBoundedEnd(t, h, e, n)
  BY BoundedEnds
<1>3. x \in Move
  BY DEF Transition, Move
<1>4. d \in Seq(Move) /\ Len(d) = Len(h)
  BY <1>1
<1>5. f \in Seq(Move) /\ Len(f) = Len(t)
  BY <1>1, <1>2
<1>6. \A i \in 1..Len(h) : d[i] = [from |-> h[i].from, to |-> h[i].to]
  BY <1>1
<1>7. \A i \in 1..Len(t) : f[i] = [from |-> t[i].from, to |-> t[i].to]
  BY <1>1, <1>2
<1> HIDE DEF d, f, t, x
<1>8. v \in Seq(Move) /\ IsBoundedEnd(v, d, x, n)
  BY <1>3, <1>4, BoundedEnds
<1> HIDE DEF v
<1>9. IsEnd(f, Append(d, x))
  <2>1. /\ Len(Append(h, e)) = Len(h) + 1 /\ Append(h, e)[Len(h) + 1] = e
        /\ \A i \in 1..Len(h) : Append(h, e)[i] = h[i]
    BY AppendProperties
  <2>2. /\ Len(Append(d, x)) = Len(d) + 1 /\ Append(d, x)[Len(d) + 1] = x
        /\ \A i \in 1..Len(d) : Append(d, x)[i] = d[i]
    BY <1>3, <1>4, AppendProperties
  <2>3. /\ Len(t) <= Len(Append(h, e))
        /\ \A i \in 1..Len(t) : t[i] = Append(h, e)[Len(Append(h, e)) - Len(t) + i]
    BY <1>2 DEF IsBoundedEnd, IsEnd
  <2>4. Len(h) \in Nat /\ Len(t) \in Nat
    BY <1>2, LenProperties
  <2>5. ASSUME NEW i \in 1..Len(f) PROVE f[i] = Append(d, x)[Len(Append(d, x)) - Len(f) + i]
    <3> DEFINE j == Len(h) + 1 - Len(t) + i
    <3>1. /\ i \in 1..Len(t) /\ j \in 1..(Len(h) + 1)
          /\ Len(Append(d, x)) - Len(f) + i = j
          /\ Len(Append(h, e)) - Len(t) + i = j
      BY <1>4, <1>5, <2>1, <2>2, <2>3, <2>4
    <3> HIDE DEF j
    <3>2. t[i] = Append(h, e)[j]
      BY <2>3, <3>1
    <3>3. CASE j = Len(h) + 1
      <4>1. t[i] = e
        BY <2>1, <3>2, <3>3
      <4>2. f[i] = x
        BY <1>7, <3>1, <4>1 DEF x
      <4>3. Append(d, x)[j] = x
        BY <1>4, <2>2, <3>3
      <4> QED BY <3>1, <4>2, <4>3
    <3>4. CASE j # Len(h) + 1
      <4>1. j \in 1..Len(h) /\ j \in 1..Len(d)
        BY <1>4, <2>4, <3>1, <3>4
      <4>2. t[i] = h[j]
        BY <2>1, <3>2, <4>1
      <4>3. f[i] = [from |-> h[j].from, to |-> h[j].to]
        BY <1>7, <3>1, <4>2
      <4>4. f[i] = d[j]
        BY <1>6, <4>1, <4>3
      <4>5. Append(d, x)[j] = d[j]
        BY <2>2, <4>1
      <4> QED BY <3>1, <4>4, <4>5
    <3> QED BY <3>3, <3>4
  <2>6. Len(f) <= Len(Append(d, x))
    BY <1>4, <1>5, <2>1, <2>2, <2>3
  <2> QED BY <2>5, <2>6 DEF IsEnd
<1>10. Len(f) = Len(v)
  BY <1>2, <1>4, <1>5, <1>8 DEF IsBoundedEnd
<1>11. f = v
  <2>1. Append(d, x) \in Seq(Move) /\ IsEnd(v, Append(d, x))
    BY <1>3, <1>4, <1>8, AppendProperties DEF IsBoundedEnd
  <2> QED BY <1>5, <1>8, <1>9, <1>10, <2>1, EndUnique
<1> QED BY <1>4, <1>11 DEF d, f, t, x, v

\* record_mode_transition() tells one mode more.
LEMMA TellsOn ==
  ASSUME NEW h \in Seq(Transition), NEW last \in Mode \cup {None}, NEW ms \in Seq(Mode),
         TellsIn(h, last, ms), NEW m \in Mode, NEW t \in Int
  PROVE  TellsIn(IF last # None /\ last # m
                 THEN AppendBounded(h, [timestamp |-> t, from |-> last, to |-> m],
                                    MAX_MODE_TRANSITIONS)
                 ELSE h,
                 m, Append(ms, m))
<1> DEFINE n == MAX_MODE_TRANSITIONS
           e == [timestamp |-> t, from |-> last, to |-> m]
           x == [from |-> last, to |-> m]
           C == Changes(ms)
           D == Changes(Append(ms, m))
<1>1. n \in Nat \ {0}
  BY JournalAssumption
<1>2. Moves(h) = LastN(C, n) /\ last = IF ms = <<>> THEN None ELSE ms[Len(ms)]
  BY DEF TellsIn
<1>3. ms = <<>> <=> last = None
  <2>1. ms # <<>> => ms[Len(ms)] \in Mode
    BY ElementOfSeq, EmptySeq, LenProperties
  <2> QED BY <1>2, <2>1, JournalNoneAssumption
<1>4. /\ C \in Seq(Move)
      /\ D = IF ms = <<>> \/ ms[Len(ms)] = m THEN C
             ELSE Append(C, [from |-> ms[Len(ms)], to |-> m])
  BY ChangesGrow
<1>5. Append(ms, m) # <<>> /\ Append(ms, m)[Len(Append(ms, m))] = m
  BY AppendProperties, LenProperties
<1> HIDE DEF n, C, D
<1>6. CASE last # None /\ last # m
  <2>1. D = Append(C, x)
    BY <1>2, <1>3, <1>4, <1>6
  <2>2. e \in Transition /\ x \in Move /\ x = [from |-> e.from, to |-> e.to]
    BY <1>6 DEF Transition, Move
  <2> HIDE DEF e, x
  <2>3. Moves(AppendBounded(h, e, n)) = AppendBounded(Moves(h), x, n)
    BY <1>1, <2>2, MovesBounded
  <2>4. AppendBounded(LastN(C, n), x, n) = AppendBounded(C, x, n)
    BY <1>1, <1>4, <2>2, BoundedTwice
  <2>5. AppendBounded(C, x, n) = LastN(D, n)
    BY <2>1 DEF AppendBounded
  <2>6. Moves(AppendBounded(h, e, n)) = LastN(D, n)
    BY <1>2, <2>3, <2>4, <2>5
  <2> QED BY <1>5, <1>6, <2>6 DEF TellsIn, n, D, e
<1>7. CASE ~(last # None /\ last # m)
  <2>1. D = C
    BY <1>2, <1>3, <1>4, <1>7
  <2> QED BY <1>2, <1>5, <1>7, <2>1 DEF TellsIn, n, C, D
<1> QED BY <1>6, <1>7

\* No mode, no change.
LEMMA NoChanges == Changes(<<>>) = <<>>
<1> DEFINE ms == <<>>
           later == SubSeq(ms, 2, Len(ms))
           v == [i \in 1..Len(later) |-> [from |-> ms[i], to |-> later[i]]]
           E == {t \in [from : Mode, to : Mode] : t.from # t.to}
<1>1. ms \in Seq(Mode) /\ Len(ms) = 0
  OBVIOUS
<1>2. Len(later) = 0
  <2>1. Len(later) = IF 2 <= Len(ms) THEN Len(ms) - 2 + 1 ELSE 0
    <3> HIDE DEF ms
    <3> QED BY <1>1, LaterItems
  <2> HIDE DEF later
  <2> QED BY <1>1, <2>1
<1>3. v \in Seq(Move) /\ Len(v) = 0
  <2> HIDE DEF later
  <2> QED BY <1>2
<1>4. Changes(ms) = Among(v, E)
  BY DEF Changes
<1> HIDE DEF v, E
<1>5. Among(v, E) \in Seq(Move) /\ Len(Among(v, E)) <= 0
  BY <1>3, AmongItems
<1>6. Among(v, E) = <<>>
  BY <1>5, LenProperties, EmptySeq
<1> QED BY <1>4, <1>6

\* A packet that is told and not yet stored has a mode.
WorkTyped ==
  /\ WorkInv /\ records \in Seq(Record)
  /\ pc \in {"emergency", "add"} => HasPayload

LEMMA WorkTypedNext == WorkTyped /\ [ProcessorNext]_processorVars => WorkTyped'
<1> SUFFICES ASSUME WorkTyped, [ProcessorNext]_processorVars PROVE WorkTyped'
  OBVIOUS
<1>0. WorkInv'
  BY WorkNext DEF WorkTyped
<1>1. CASE GetAll
  BY <1>0, <1>1 DEF GetAll, WorkTyped
<1>2. CASE RecordMode
  BY <1>0, <1>2 DEF RecordMode, WorkTyped, HasPayload, Packet
<1>3. CASE RecordReasons
  BY <1>0, <1>3 DEF RecordReasons, WorkTyped, HasPayload, Packet
<1>4. CASE AddRecord
  <2> DEFINE e == [operation_mode |-> Packet.mode, reasons |-> Packet.reasons]
  <2>1. Packet \in ParseResult
    BY <1>4, PacketIsParsed DEF AddRecord, WorkTyped
  <2>2. e \in Record
    BY <2>1, ProcessorAssumption DEF Record
  <2>3. records' = Append(records, e) /\ pc' \notin {"emergency", "add"}
    BY <1>4 DEF AddRecord
  <2> HIDE DEF e
  <2>4. records' \in Seq(Record)
    BY <2>2, <2>3, AppendProperties DEF WorkTyped
  <2> QED BY <1>0, <2>3, <2>4 DEF WorkTyped
<1>5. CASE RecordConnection
  BY <1>0, <1>5 DEF RecordConnection, WorkTyped
<1>6. CASE RecordSilence
  BY <1>0, <1>6 DEF RecordSilence, WorkTyped, HasPayload, Packet
<1>7. CASE Clear
  BY <1>0, <1>7 DEF Clear, WorkTyped, HasPayload, Packet
<1>8. CASE PassTime
  BY <1>0, <1>8 DEF PassTime, WorkTyped, HasPayload, Packet
<1>9. CASE UNCHANGED processorVars
  BY <1>0, <1>9 DEF processorVars, WorkTyped, HasPayload, Packet
<1> QED
  BY <1>1, <1>2, <1>3, <1>4, <1>5, <1>6, <1>7, <1>8, <1>9 DEF ProcessorNext

\* JournalFitsRecords(), of any records and with the packet in work told apart.
Fits(h, last, rs, work, k) ==
  TellsIn(h, last, IF work = None THEN ModesIn(rs, k) ELSE Append(ModesIn(rs, k), work))

InWorkMode == IF pc \in {"emergency", "add"} THEN Packet.mode ELSE None

FitsNow(k) == Fits(mode_transitions, last_op_mode, records, InWorkMode, k)

FitsAgree == \A k \in {1, 2} : JournalFitsRecords(k) <=> FitsNow(k)

LEMMA FitsIsFits == WorkTyped => FitsAgree
<1> SUFFICES ASSUME WorkTyped, NEW k \in {1, 2}
             PROVE  JournalFitsRecords(k) <=> FitsNow(k)
  BY DEF FitsAgree
<1> DEFINE ms == ModesIn(records, k)
<1>1. ms \in Seq(Mode) /\ ModesFrom(k) = ms
  <2>1. k \in Nat \ {0} /\ records \in Seq(Record)
    BY DEF WorkTyped
  <2> QED BY <2>1, ModesAreModes DEF ModesFrom, ModesIn
<1> HIDE DEF ms
<1>2. CASE pc \in {"emergency", "add"}
  <2>1. Packet.mode \in Mode /\ InWorkMode = Packet.mode /\ Packet.mode # None
    BY <1>2, PacketIsParsed, ProcessorAssumption DEF HasPayload, InWorkMode, WorkTyped
  <2>2. InWork = <<Packet.mode>>
    BY <1>2 DEF InWork
  <2>3. ms \o <<Packet.mode>> = Append(ms, Packet.mode)
    <3>1. ms \o Append(<<>>, Packet.mode) = Append(ms \o <<>>, Packet.mode)
      BY <1>1, <2>1, ConcatAppend
    <3>2. ms \o <<>> = ms
      BY <1>1, ConcatEmptySeq
    <3>3. Append(<<>>, Packet.mode) = <<Packet.mode>>
      OBVIOUS
    <3> QED BY <3>1, <3>2, <3>3
  <2> QED BY <1>1, <2>1, <2>2, <2>3 DEF JournalFitsRecords, Tells, TellsIn, Fits, FitsNow, ms
<1>3. CASE pc \notin {"emergency", "add"}
  <2>1. InWork = <<>> /\ InWorkMode = None
    BY <1>3 DEF InWork, InWorkMode
  <2>2. ms \o <<>> = ms
    BY <1>1, ConcatEmptySeq
  <2> QED BY <1>1, <2>1, <2>2 DEF JournalFitsRecords, Tells, TellsIn, Fits, FitsNow, ms
<1> QED BY <1>2, <1>3

LEMMA FitsNothing ==
  ASSUME NEW rs \in Seq(Record), NEW k \in Nat \ {0}, Len(rs) < k
  PROVE  Fits(<<>>, None, rs, None, k)
<1>1. ModesIn(rs, k) = <<>>
  BY ModesAreModes
<1>2. Moves(<<>>) = <<>>
  BY DEF Moves
<1>3. LastN(<<>>, MAX_MODE_TRANSITIONS) = <<>>
  BY JournalAssumption DEF LastN
<1> QED BY <1>1, <1>2, <1>3, NoChanges DEF Fits, TellsIn

\* What the journal tells, from one packet to the next: all the records, or all but
\* the first, whose packet was in work when the logs were cleared; or nothing yet,
\* while that packet is still in work.
ToldInv ==
  /\ WorkTyped
  /\ \/ FitsNow(1)
     \/ records # <<>> /\ FitsNow(2)
     \/ /\ records = <<>> /\ mode_transitions = <<>> /\ last_op_mode = None
        /\ pc \in {"emergency", "add"}

LEMMA ToldNext == ToldInv /\ JournalInv /\ [ProcessorNext]_processorVars => ToldInv'
<1> SUFFICES ASSUME ToldInv, JournalInv, [ProcessorNext]_processorVars PROVE ToldInv'
  OBVIOUS
<1>0. WorkTyped /\ WorkTyped'
  BY WorkTypedNext DEF ToldInv
<1>k. 1 \in Nat \ {0} /\ 2 \in Nat \ {0} /\ records \in Seq(Record)
  BY <1>0 DEF WorkTyped
<1>t. /\ now \in Int /\ mode_transitions \in Seq(Transition)
      /\ last_op_mode \in Mode \cup {None}
  BY DEF JournalInv, JournalTypeOK
<1>1. ASSUME UNCHANGED <<modeVars, records>>, InWorkMode' = InWorkMode,
             pc \in {"emergency", "add"} => pc' \in {"emergency", "add"}
      PROVE  ToldInv'
  BY <1>0, <1>1 DEF ToldInv, FitsNow, modeVars
<1>2. CASE GetAll
  <2>1. InWorkMode' = InWorkMode
    BY <1>2 DEF GetAll, InWorkMode
  <2> QED BY <1>1, <1>2, <2>1 DEF GetAll, journalVars, modeVars
<1>3. CASE RecordMode
  <2> DEFINE m == Packet.mode
             h == IF last_op_mode # None /\ last_op_mode # m
                  THEN AppendBounded(mode_transitions,
                                     [timestamp |-> now, from |-> last_op_mode, to |-> m],
                                     MAX_MODE_TRANSITIONS)
                  ELSE mode_transitions
  <2>1. /\ pc = "mode" /\ HasPayload /\ mode_transitions' = h /\ last_op_mode' = m
        /\ records' = records /\ pc' = "emergency" /\ Packet' = Packet
    BY <1>3 DEF RecordMode, RecordModeTransition, Packet
  <2>2. m \in Mode /\ m # None
    BY <1>0, <2>1, PacketIsParsed, ProcessorAssumption DEF HasPayload, WorkTyped
  <2>3. InWorkMode = None /\ InWorkMode' = m
    BY <2>1 DEF InWorkMode
  <2>4. ASSUME NEW k \in {1, 2}, FitsNow(k) PROVE FitsNow(k)'
    <3>1. ModesIn(records, k) \in Seq(Mode)
      BY <1>k, ModesAreModes
    <3>2. TellsIn(mode_transitions, last_op_mode, ModesIn(records, k))
      BY <2>3, <2>4 DEF FitsNow, Fits
    <3>3. TellsIn(h, m, Append(ModesIn(records, k), m))
      <4> HIDE DEF m
      <4> QED BY <1>t, <2>2, <3>1, <3>2, TellsOn
    <3> HIDE DEF m, h
    <3> QED BY <2>1, <2>2, <2>3, <3>3 DEF FitsNow, Fits
  <2>5. FitsNow(1) \/ (records # <<>> /\ FitsNow(2))
    BY <2>1 DEF ToldInv
  <2> QED BY <1>0, <2>1, <2>4, <2>5 DEF ToldInv
<1>4. CASE RecordReasons
  <2>1. InWorkMode' = InWorkMode
    BY <1>4 DEF RecordReasons, InWorkMode, Packet
  <2> QED BY <1>1, <1>4, <2>1 DEF RecordReasons, RecordEmergency
<1>5. CASE AddRecord
  <2> DEFINE e == [operation_mode |-> Packet.mode, reasons |-> Packet.reasons]
  <2>1. Packet \in ParseResult
    BY <1>0, <1>5, PacketIsParsed DEF AddRecord, WorkTyped
  <2>2. e \in Record /\ e.operation_mode = Packet.mode
    BY <2>1, ProcessorAssumption DEF Record
  <2>3. /\ records' = Append(records, e) /\ pc' \notin {"emergency", "add"}
        /\ mode_transitions' = mode_transitions /\ last_op_mode' = last_op_mode
        /\ pc = "add" \/ (pc = "mode" /\ ~HasPayload)
    BY <1>5 DEF AddRecord, journalVars
  <2> HIDE DEF e
  <2>4. InWorkMode' = None
    BY <2>3 DEF InWorkMode
  <2>5. Len(records') = Len(records) + 1 /\ Len(records) \in Nat
    BY <1>k, <2>2, <2>3, AppendProperties, LenProperties
  <2>6. records' # <<>>
    BY <2>5
  <2>7. InWorkMode = IF Packet.mode \in Mode THEN Packet.mode ELSE None
    <3>1. CASE pc = "add"
      BY <1>0, <2>1, <3>1, ProcessorAssumption DEF InWorkMode, WorkTyped, HasPayload
    <3>2. CASE pc = "mode" /\ ~HasPayload
      BY <3>2, JournalNoneAssumption DEF InWorkMode, HasPayload
    <3> QED BY <2>3, <3>1, <3>2
  <2>8. ASSUME NEW k \in {1, 2}, k = 1 \/ records # <<>>, FitsNow(k) PROVE FitsNow(k)'
    <3>1. k \in 1..(Len(records) + 1)
      BY <1>k, <2>5, <2>8, EmptySeq
    <3>2. ModesIn(records', k) = IF Packet.mode \in Mode
                                 THEN Append(ModesIn(records, k), Packet.mode)
                                 ELSE ModesIn(records, k)
      BY <1>k, <2>2, <2>3, <3>1, ModesGrow
    <3>3. TellsIn(mode_transitions, last_op_mode, ModesIn(records', k))
      <4>1. CASE Packet.mode \in Mode
        BY <2>7, <2>8, <3>2, <4>1, JournalNoneAssumption DEF FitsNow, Fits
      <4>2. CASE Packet.mode \notin Mode
        BY <2>7, <2>8, <3>2, <4>2 DEF FitsNow, Fits
      <4> QED BY <4>1, <4>2
    <3> QED BY <2>3, <2>4, <3>3 DEF FitsNow, Fits
  <2>9. ASSUME records = <<>>, mode_transitions = <<>>, last_op_mode = None
        PROVE  FitsNow(2)'
    <3>1. records' \in Seq(Record) /\ Len(records') < 2
      BY <1>k, <2>2, <2>3, <2>5, <2>9, AppendProperties
    <3>2. Fits(<<>>, None, records', None, 2)
      BY <1>k, <3>1, FitsNothing
    <3> QED BY <2>3, <2>4, <2>9, <3>2 DEF FitsNow
  <2> QED BY <1>0, <2>6, <2>8, <2>9 DEF ToldInv
<1>6. CASE RecordConnection
  <2>1. InWorkMode' = InWorkMode
    BY <1>6 DEF RecordConnection, InWorkMode
  <2> QED BY <1>1, <1>6, <2>1 DEF RecordConnection, RecordConnectionChange
<1>7. CASE RecordSilence
  <2>1. InWorkMode' = InWorkMode
    BY <1>7 DEF RecordSilence, InWorkMode, Packet
  <2> QED BY <1>1, <1>7, <2>1 DEF RecordSilence, RecordConnectionChange
<1>8. CASE Clear
  <2>1. /\ records' = <<>> /\ mode_transitions' = <<>> /\ last_op_mode' = None /\ pc' = pc
    BY <1>8 DEF Clear, JournalReset
  <2>2. CASE pc \in {"emergency", "add"}
    BY <1>0, <2>1, <2>2 DEF ToldInv
  <2>3. CASE pc \notin {"emergency", "add"}
    <3>1. InWorkMode' = None
      BY <2>1, <2>3 DEF InWorkMode
    <3>2. Fits(<<>>, None, <<>>, None, 1)
      <4>1. <<>> \in Seq(Record) /\ Len(<<>>) < 1
        OBVIOUS
      <4> QED BY <1>k, <4>1, FitsNothing
    <3> QED BY <1>0, <2>1, <3>1, <3>2 DEF ToldInv, FitsNow
  <2> QED BY <2>2, <2>3
<1>9. CASE PassTime
  <2>1. InWorkMode' = InWorkMode
    BY <1>9 DEF PassTime, InWorkMode, Packet
  <2> QED BY <1>1, <1>9, <2>1 DEF PassTime, JournalPass
<1>10. CASE UNCHANGED processorVars
  <2>1. InWorkMode' = InWorkMode
    BY <1>10 DEF processorVars, InWorkMode, Packet
  <2> QED BY <1>1, <1>10, <2>1 DEF processorVars, journalVars, modeVars
<1> QED
  BY <1>2, <1>3, <1>4, <1>5, <1>6, <1>7, <1>8, <1>9, <1>10 DEF ProcessorNext

\* The transitions and the current mode follow from the records, for any modes and
\* any number of packets, with the logs cleared between any two calls.
THEOREM TransitionsFollowRecords == ProcessorSpec => []TransitionsTold
<1>1. ProcessorInit => ToldInv
  <2> SUFFICES ASSUME ProcessorInit PROVE ToldInv
    OBVIOUS
  <2>1. /\ records = <<>> /\ mode_transitions = <<>> /\ last_op_mode = None /\ pc = "idle"
    BY DEF ProcessorInit, JournalInit
  <2>2. WorkTyped
    BY <2>1, WorkInit DEF WorkTyped
  <2>3. Fits(<<>>, None, <<>>, None, 1)
    <3>1. <<>> \in Seq(Record) /\ Len(<<>>) < 1 /\ 1 \in Nat \ {0}
      OBVIOUS
    <3> QED BY <3>1, FitsNothing
  <2>4. InWorkMode = None
    BY <2>1 DEF InWorkMode
  <2> QED BY <2>1, <2>2, <2>3, <2>4 DEF ToldInv, FitsNow
<1>2. ToldInv => TransitionsTold
  <2> SUFFICES ASSUME ToldInv PROVE TransitionsTold
    OBVIOUS
  <2>1. WorkTyped /\ FitsAgree
    BY FitsIsFits DEF ToldInv
  <2>2. CASE FitsNow(1) \/ FitsNow(2)
    BY <2>1, <2>2 DEF FitsAgree, TransitionsTold
  <2>3. CASE records = <<>> /\ mode_transitions = <<>> /\ last_op_mode = None
    <3>1. ModesIn(records, 1) = <<>>
      <4>1. records \in Seq(Record) /\ Len(records) < 1 /\ 1 \in Nat \ {0}
        BY <2>3
      <4> QED BY <4>1, ModesAreModes
    <3> QED BY <2>3, <3>1 DEF TransitionsTold, ModesFrom, ModesIn
  <2> QED BY <2>2, <2>3 DEF ToldInv
<1> QED
  BY <1>1, <1>2, ToldNext, ProcessorUsesJournal, JournalCorrect, PTL DEF ProcessorSpec

-----------------------------------------------------------------------------

\* A panel has a row if the history has an item, and its rows are the items of
\* the history from the last one back.
LEMMA PanelReadsBack ==
  ASSUME NEW S, NEW s \in Seq(S)
  PROVE  LET rows == ListContent(LastN(s, HistoryLimit))
         IN /\ Len(rows) \in 0..Len(s)
            /\ rows = <<>> <=> s = <<>>
            /\ DOMAIN rows = 1..Len(rows)
            /\ \A i \in 1..Len(rows) : rows[i] = s[Len(s) + 1 - i]
<1> DEFINE t == LastN(s, HistoryLimit)
           u == LastN(t, HISTORY_DISPLAY_LIMIT)
           rows == ListContent(t)
<1>1. /\ t \in Seq(S) /\ Len(t) <= Len(s)
      /\ Len(t) = 0 <=> Len(s) = 0
      /\ \A i \in 1..Len(t) : t[i] = s[Len(s) - Len(t) + i]
  BY LastNEnds, PanelAssumption
<1>2. /\ u \in Seq(S) /\ Len(u) <= Len(t)
      /\ Len(u) = 0 <=> Len(t) = 0
      /\ \A i \in 1..Len(u) : u[i] = t[Len(t) - Len(u) + i]
  BY <1>1, LastNEnds, PanelAssumption
<1>3. rows = [i \in DOMAIN u |-> u[Len(u) + 1 - i]]
  BY DEF ListContent
<1>4. Len(s) \in Nat /\ Len(t) \in Nat /\ Len(u) \in Nat /\ DOMAIN u = 1..Len(u)
  BY <1>1, <1>2, LenProperties
<1> HIDE DEF u, t
<1>5. Len(rows) = Len(u) /\ DOMAIN rows = 1..Len(rows)
  BY <1>3, <1>4
<1>6. ASSUME NEW i \in 1..Len(rows) PROVE rows[i] = s[Len(s) + 1 - i]
  <2>1. rows[i] = u[Len(u) + 1 - i] /\ Len(u) + 1 - i \in 1..Len(u)
    BY <1>3, <1>4, <1>5
  <2>2. /\ Len(t) - Len(u) + (Len(u) + 1 - i) = Len(t) + 1 - i
        /\ Len(s) - Len(t) + (Len(t) + 1 - i) = Len(s) + 1 - i
        /\ Len(t) + 1 - i \in 1..Len(t)
    BY <1>1, <1>2, <1>4, <1>5
  <2>3. u[Len(u) + 1 - i] = t[Len(t) + 1 - i]
    BY <1>2, <2>1, <2>2
  <2>4. t[Len(t) + 1 - i] = s[Len(s) + 1 - i]
    BY <1>1, <2>2
  <2> QED BY <2>1, <2>3, <2>4
<1>7. rows = <<>> <=> Len(rows) = 0
  <2>1. \A i \in 1..Len(u) : u[Len(u) + 1 - i] \in S
    BY <1>2, <1>4, ElementOfSeq
  <2>2. rows \in Seq(S)
    BY <1>3, <1>4, <2>1
  <2> QED BY <2>2, EmptySeq
<1>8. s = <<>> <=> Len(s) = 0
  BY EmptySeq, <1>4
<1>9. Len(rows) \in 0..Len(s)
  BY <1>1, <1>2, <1>4, <1>5
<1>10. rows = <<>> <=> s = <<>>
  <2> HIDE DEF rows
  <2> QED BY <1>1, <1>2, <1>5, <1>7, <1>8
<1> HIDE DEF rows
<1> QED
  BY <1>5, <1>6, <1>9, <1>10, Zenon DEF rows, t

\* The connection panel: from the alternation and the tiling of the history.
LEMMA ConnectionsShown ==
  ASSUME connection_history \in Seq(Connection), ConnectionsAlternate, DurationsTile
  PROVE  ConnectionPanelTellsNow
<1> DEFINE h == connection_history
           items == ListContent(GetConnectionHistory)
           rows == ConnectionPanel
<1>1. /\ Len(items) \in 0..Len(h)
      /\ items = <<>> <=> h = <<>>
      /\ DOMAIN items = 1..Len(items)
      /\ \A i \in 1..Len(items) : items[i] = h[Len(h) + 1 - i]
  BY PanelReadsBack DEF GetConnectionHistory
<1>2. Len(h) \in Nat
  BY LenProperties
<1> HIDE DEF items
<1>3. rows = [i \in 1..Len(items) |-> ConnectionRow(items[i])]
  BY <1>1 DEF ConnectionPanel, items
<1>4. Len(rows) = Len(items)
  BY <1>1, <1>2, <1>3
<1>5. rows = <<>> <=> items = <<>>
  BY <1>1, <1>2, <1>3, <1>4
<1> HIDE DEF rows
<1>6. rows = <<>> <=> last_connection_state = None
  BY <1>1, <1>5 DEF ConnectionsAlternate
<1>7. ASSUME NEW i \in 1..Len(rows)
      PROVE  LET e == h[Len(h) + 1 - i]
             IN /\ Len(h) + 1 - i \in 1..Len(h)
                /\ rows[i].connected = e.connected
                /\ rows[i].timestamp = e.timestamp
                /\ rows[i].duration = IF e.duration = 0 THEN None ELSE e.duration
  BY <1>1, <1>2, <1>3, <1>4 DEF ConnectionRow
<1>8. ASSUME rows # <<>>
      PROVE  rows[1].connected = last_connection_state /\ rows[1].duration = None
  <2>1. 1 \in 1..Len(rows) /\ h # <<>>
    BY <1>1, <1>2, <1>4, <1>5, <1>8
  <2>2. Len(h) + 1 - 1 = Len(h) /\ Len(h) \in 1..Len(h)
    BY <1>2, <1>7, <2>1
  <2>3. h[Len(h)].connected = last_connection_state /\ h[Len(h)].duration = None
    BY <2>1, <2>2 DEF ConnectionsAlternate, DurationsTile
  <2> QED BY <1>7, <2>1, <2>2, <2>3
<1>9. ASSUME NEW i \in 2..Len(rows)
      PROVE  /\ rows[i].connected # rows[i - 1].connected
             /\ rows[i].timestamp
                  + (IF rows[i].duration = None THEN 0 ELSE rows[i].duration)
                  = rows[i - 1].timestamp
  <2> DEFINE j == Len(h) + 1 - i
  <2>1. /\ i \in 1..Len(rows) /\ i - 1 \in 1..Len(rows)
        /\ Len(h) + 1 - (i - 1) = j + 1
    BY <1>2, <1>4, <1>1
  <2>2. j \in 1..(Len(h) - 1) /\ j \in 1..Len(h) /\ j # Len(h) /\ j + 1 \in 1..Len(h)
    BY <1>2, <1>7, <2>1
  <2> HIDE DEF j
  <2>3. /\ rows[i].connected = h[j].connected
        /\ rows[i].timestamp = h[j].timestamp
        /\ rows[i].duration = IF h[j].duration = 0 THEN None ELSE h[j].duration
    BY <1>7, <2>1 DEF j
  <2>4. /\ rows[i - 1].connected = h[j + 1].connected
        /\ rows[i - 1].timestamp = h[j + 1].timestamp
    BY <1>7, <2>1 DEF j
  <2>5. h[j].connected # h[j + 1].connected
    BY <2>2 DEF ConnectionsAlternate
  <2>6. h[j].duration = h[j + 1].timestamp - h[j].timestamp
    BY <2>2 DEF DurationsTile
  <2>7. h[j] \in Connection /\ h[j + 1] \in Connection
    BY <2>2, ElementOfSeq
  <2>8. h[j].timestamp \in Int /\ h[j + 1].timestamp \in Int
    BY <2>7 DEF Connection
  <2> QED
    BY <2>3, <2>4, <2>5, <2>6, <2>8, JournalNoneAssumption
<1> QED
  BY <1>6, <1>8, <1>9 DEF ConnectionPanelTellsNow, rows

\* The mode panel: from the chain of the transitions.
LEMMA ModesShown ==
  ASSUME mode_transitions \in Seq(Transition), TransitionsChain
  PROVE  ModePanelTellsNow
<1> DEFINE h == mode_transitions
           rows == ModePanel
<1>1. /\ Len(rows) \in 0..Len(h)
      /\ rows = <<>> <=> h = <<>>
      /\ \A i \in 1..Len(rows) : rows[i] = h[Len(h) + 1 - i]
  BY PanelReadsBack DEF ModePanel, GetModeTransitions
<1>2. Len(h) \in Nat /\ (h # <<>> <=> Len(h) # 0)
  BY EmptySeq, LenProperties
<1>3. rows # <<>> => Len(rows) # 0
  BY DEF ModePanel, ListContent
<1> HIDE DEF rows
<1>4. ASSUME rows # <<>> PROVE rows[1].to = last_op_mode
  <2>1. rows[1] = h[Len(h) + 1 - 1] /\ Len(h) + 1 - 1 = Len(h)
    BY <1>1, <1>2, <1>3, <1>4
  <2> QED BY <1>1, <1>4, <2>1 DEF TransitionsChain
<1>5. ASSUME NEW i \in 2..Len(rows) PROVE rows[i].to = rows[i - 1].from
  <2> DEFINE j == Len(h) + 1 - i
  <2>1. /\ i \in 1..Len(rows) /\ i - 1 \in 1..Len(rows)
        /\ Len(h) + 1 - (i - 1) = j + 1 /\ j \in 1..(Len(h) - 1)
    BY <1>1, <1>2
  <2>2. rows[i] = h[j] /\ rows[i - 1] = h[j + 1]
    BY <1>1, <2>1
  <2> QED BY <2>1, <2>2 DEF TransitionsChain
<1> QED
  BY <1>4, <1>5 DEF ModePanelTellsNow, rows

\* The panels tell the present state and its past in every state of the running
\* program, for every limit of the store, the builder and the panel.
THEOREM ProgramPanelsTell == ProcessorSpec => []PanelsTellNow
<1>1. JournalInv => PanelsTellNow
  BY ConnectionsShown, ModesShown DEF JournalInv, JournalTypeOK, PanelsTellNow
<1> QED
  BY <1>1, ProcessorUsesJournal, JournalCorrect, PTL
=============================================================================
