---------------------------- MODULE PacketProcessor ----------------------------
(***************************************************************************)
(* pipeline/processor.py with the journal of the store: what happens to a  *)
(* packet between the queue and the store.  process_pending() runs under   *)
(* the provider's lock, and each call it makes of the store takes the      *)
(* store's; clear_logs() holds neither and may reset the store between any *)
(* two of them.                                                            *)
(*                                                                         *)
(* A packet is what the parser makes of it; ICDParser has the bytes, and   *)
(* ServiceProvider has the counters of a batch.                            *)
(***************************************************************************)
EXTENDS StoreJournal, FiniteSets

CONSTANTS ParseResult,   \* [checksum_ok, mode, reasons] parse() may return
          MaxBatch,      \* bound on the packets in the queue
          MaxRecords,    \* bound on the records between two resets
          MaxNow         \* bound on the clock

ASSUME ProcessorAssumption ==
  /\ MaxBatch \in Nat /\ MaxRecords \in Nat /\ MaxNow \in Nat
  /\ \A p \in ParseResult :
       /\ p.checksum_ok \in BOOLEAN
       /\ p.mode \in Mode \cup {None} /\ p.reasons \subseteq Reason
       /\ p.mode = None <=> p.reasons = {}

VARIABLES pending,    \* what is left of the batch that get_all() returned
          pc,         \* where _process_one() is, or "idle"
          records     \* of the store: mode and reasons of every record since reset()

processorVars == <<journalVars, pending, pc, records>>

ProcessorInit ==
  JournalInit /\ pending = <<>> /\ pc = "idle" /\ records = <<>>

\* The packet in work.
Packet == pending[1]

HasPayload == Packet.mode # None

\* process_pending(): the queue is drained.
GetAll ==
  /\ pc = "idle"
  /\ \E n \in 1..MaxBatch : pending' \in [1..n -> ParseResult]
  /\ pc' = "mode"
  /\ UNCHANGED <<journalVars, records>>

\* Mutation of RecordMode: the mode of a packet whose checksum is wrong is ignored.
RecordModeIfValid ==
  /\ pc = "mode" /\ HasPayload
  /\ IF Packet.checksum_ok THEN RecordModeTransition(Packet.mode) ELSE UNCHANGED journalVars
  /\ pc' = "emergency"
  /\ UNCHANGED <<pending, records>>

\* _process_one(): the mode of a payload is recorded, whatever the checksum says.
RecordMode ==
  /\ pc = "mode" /\ HasPayload
  /\ RecordModeTransition(Packet.mode)
  /\ pc' = "emergency"
  /\ UNCHANGED <<pending, records>>

\* Mutation of RecordReasons: a packet whose checksum is wrong does not count.
RecordReasonsIfValid ==
  /\ pc = "emergency"
  /\ RecordEmergency(IF Packet.checksum_ok THEN Packet.reasons ELSE {})
  /\ pc' = "add"
  /\ UNCHANGED <<pending, records>>

\* Every payload has sources of an emergency, if only the label for none.
RecordReasons ==
  /\ pc = "emergency"
  /\ RecordEmergency(Packet.reasons)
  /\ pc' = "add"
  /\ UNCHANGED <<pending, records>>

\* add(), and on to the next packet.
AddRecord ==
  /\ pc = "add" \/ (pc = "mode" /\ ~HasPayload)
  /\ Len(records) < MaxRecords
  /\ records' = Append(records, [operation_mode |-> Packet.mode, reasons |-> Packet.reasons])
  /\ pending' = Tail(pending)
  /\ pc' = IF Tail(pending) = <<>> THEN "record" ELSE "mode"
  /\ UNCHANGED journalVars

\* update_data(): record_connection_change(is_connected()), with the lock held.
RecordConnection ==
  /\ pc = "record" /\ pc' = "idle"
  /\ \E connected \in BOOLEAN : RecordConnectionChange(connected)
  /\ UNCHANGED <<pending, records>>

\* update_data() with an empty queue.
RecordSilence ==
  /\ pc = "idle"
  /\ \E connected \in BOOLEAN : RecordConnectionChange(connected)
  /\ UNCHANGED <<pending, pc, records>>

\* clear_logs() at any moment: reset().
Clear ==
  /\ JournalReset
  /\ records' = <<>>
  /\ UNCHANGED <<pending, pc>>

PassTime ==
  /\ now < MaxNow
  /\ JournalPass(1)
  /\ UNCHANGED <<pending, pc, records>>

ProcessorNext ==
  \/ GetAll \/ RecordMode \/ RecordReasons \/ AddRecord
  \/ RecordConnection \/ RecordSilence \/ Clear \/ PassTime

ProcessorSpec == ProcessorInit /\ [][ProcessorNext]_processorVars

-----------------------------------------------------------------------------

\* The modes of the records from number k on, those without a payload left out.
ModesFrom(k) ==
  LET later == SubSeq(records, k, Len(records))
  IN Among([i \in 1..Len(later) |-> later[i].operation_mode], Mode)

\* What is in the journal of the packet in work and not yet in the records.
InWork == IF pc \in {"emergency", "add"} THEN <<Packet.mode>> ELSE <<>>

\* The changes of mode along a sequence of modes.
Changes(modes) ==
  LET later == SubSeq(modes, 2, Len(modes))
  IN Among([i \in 1..Len(later) |-> [from |-> modes[i], to |-> later[i]]],
           {t \in [from : Mode, to : Mode] : t.from # t.to})

\* The transitions without their times.
Moves(transitions) ==
  [i \in 1..Len(transitions) |-> [from |-> transitions[i].from, to |-> transitions[i].to]]

\* The journal tells a sequence of modes by its newest changes and its last mode.
Tells(modes) ==
  /\ Moves(mode_transitions) = LastN(Changes(modes), MAX_MODE_TRANSITIONS)
  /\ last_op_mode = IF modes = <<>> THEN None ELSE modes[Len(modes)]

\* The journal is what follows from the records from number k on.
JournalFitsRecords(k) == Tells(ModesFrom(k) \o InWork)

\* The journal tells the story of the records: its transitions are the newest
\* changes of mode from one record to the next and its current mode is that of
\* the newest payload, whatever its checksum.  A reset in the middle of a packet
\* may leave that packet's record out of the journal, and no other.
TransitionsTold ==
  \/ JournalFitsRecords(1)
  \/ JournalFitsRecords(2)
  \/ mode_transitions = <<>> /\ last_op_mode = None /\ ModesFrom(1) = <<>>

\* How often the records, and the packet in work, name an emergency source.
Stored(r) ==
  Cardinality({i \in DOMAIN records : r \in records[i].reasons})
    + (IF pc = "add" /\ HasPayload /\ r \in Packet.reasons THEN 1 ELSE 0)

\* The journal counts every record with an emergency, whatever its checksum, but
\* for the one record whose packet was in work when the logs were cleared.
EmergenciesTold ==
  \A r \in Reason : emergency_counts[r] \in {Stored(r), Stored(r) - 1}
=============================================================================
