------------------------------ MODULE ICDParser ------------------------------
(***************************************************************************)
(* pipeline/icd_parser.py: the parser of the demo datagrams, fed by a      *)
(* sender that follows docs/03_ICD_SPECIFICATION.md and by a network that  *)
(* damages one byte, truncates, or leaves the datagram alone.              *)
(*                                                                         *)
(* A datagram is a sequence of bytes: 12 of header, the payload, 2 of      *)
(* checksum.  Python's data[i] is data[i + 1] here.                        *)
(***************************************************************************)
EXTENDS Integers, Sequences

CONSTANTS OPERATIONAL_DATA_LENGTH,  \* 87
          Frame,                    \* what the sender may mean to send
          Damage,                   \* bound: amounts by which a byte changes
          MaxParses,                \* bound on the datagrams parsed
          None                      \* Python's None

HEADER == 12
CHECKSUM == 2
MIN_PACKET == HEADER + CHECKSUM
PAYLOAD_MIN == 5
TYPE_01 == 1
Source == 0..9                      \* EMERGENCY_SOURCE_NAMES, by bit
NoSource == 10                      \* the label that stands for none of them
Done == 11                          \* the lamp of an emergency that is over
Device == 0..9                      \* DEVICE_BIT_NAMES, by bit

UInt(w) == 0..(2^w - 1)             \* the numbers of w bits

\* What a parse may yield, whatever bytes came: the fields the program uses.
ICDHeader == [sequence : UInt(4), msg_code : UInt(8), data_length : UInt(16)]
OperationalPayload ==
  [device_bits : UInt(16), operation_mode : UInt(3), authority : UInt(2),
   driving_state : UInt(2), emergency_sources : ((SUBSET Source) \ {{}}) \cup {{NoSource}},
   emergency_complete : BOOLEAN]

\* The sender fills one byte with the length of the payload, which is at least
\* what the parser reads; every field of a frame fits the bits it is read from.
ASSUME ParserAssumption ==
  /\ OPERATIONAL_DATA_LENGTH \in UInt(8) /\ OPERATIONAL_DATA_LENGTH >= PAYLOAD_MIN
  /\ MaxParses \in Nat
ASSUME FrameAssumption ==
  Frame \subseteq [mode : UInt(3), authority : UInt(2), driving : UInt(2),
                   sources : SUBSET Source, complete : BOOLEAN, stamp : UInt(8),
                   devices : UInt(16), pad : UInt(1), msg_code : UInt(8)]
ASSUME DamageAssumption == Damage \subseteq UInt(8) \ {0}
ASSUME NoneAssumption == None \notin ICDHeader /\ None \notin OperationalPayload

VARIABLES frame,       \* what the sender meant
          data,        \* the datagram that arrived
          intact,      \* is it the datagram the sender built?
          whole,       \* does it have all its bytes?
          result,      \* ParseResult of the last parse(), or None
          parse_count, success_count, checksum_fail_count, payload_success_count,
          parsed       \* history: datagrams of each kind, parsed since the reset

counters == <<parse_count, success_count, checksum_fail_count, payload_success_count,
              parsed>>
parserVars == <<frame, data, intact, whole, result, parse_count, success_count,
                checksum_fail_count, payload_success_count, parsed>>

-----------------------------------------------------------------------------
(* Parsing *)

SumOf(d) ==
  LET upTo[n \in 0..Len(d)] == IF n = 0 THEN 0 ELSE upTo[n - 1] + d[n]
  IN upTo[Len(d)]
U16(d, i) == d[i] + 256 * d[i + 1]
Body(d) == SubSeq(d, 1, Len(d) - CHECKSUM)
Bit(n, i) == (n \div 2^i) % 2

\* Mutation of ChecksumOK: only the low byte of the sum is compared.
ChecksumLowByte(d) == SumOf(Body(d)) % 256 = d[Len(d) - 1]

\* _verify_checksum()
ChecksumOK(d) == SumOf(Body(d)) % 65536 = U16(d, Len(d) - 1)

\* _parse_header(): the sequence number is the low half of byte 3.
Header(d) == [sequence |-> d[4] % 16, msg_code |-> d[7], data_length |-> U16(d, 11)]

RawPayload(d) ==
  IF Len(d) > MIN_PACKET THEN SubSeq(d, HEADER + 1, Len(d) - CHECKSUM) ELSE <<>>

\* _is_operational_packet()
IsOperational(d) ==
  /\ Header(d).msg_code = TYPE_01
  /\ Header(d).data_length = OPERATIONAL_DATA_LENGTH
  /\ RawPayload(d) # <<>>

\* Mutation of EmergencySources: the shift is one short.
EmergencySourcesShifted(bits) ==
  LET set == {i \in Source : Bit(bits, 5 + i) = 1}
  IN IF set = {} THEN {NoSource} ELSE set

\* Without a source bit the list holds the label that says so.
EmergencySources(bits) ==
  LET set == {i \in Source : Bit(bits, 6 + i) = 1}
  IN IF set = {} THEN {NoSource} ELSE set

\* _parse_operational_payload(), for a payload that is long enough
Payload(p) ==
  [device_bits        |-> U16(p, 1),
   operation_mode     |-> (p[3] \div 32) % 8,
   authority          |-> (p[3] \div 4) % 4,
   driving_state      |-> p[3] % 4,
   emergency_sources  |-> EmergencySources(U16(p, 4)),
   emergency_complete |-> Bit(U16(p, 4), 0) = 1]

\* A payload that is too short raises; parse() logs that and goes on.
PayloadOf(d) ==
  IF IsOperational(d) /\ Len(RawPayload(d)) >= PAYLOAD_MIN
  THEN Payload(RawPayload(d)) ELSE None

TooShort(d) == Len(d) < MIN_PACKET

\* parse(): a wrong checksum is noted and does not fail the parse.
ParseResult(d) ==
  IF TooShort(d)
  THEN [success |-> FALSE, checksum_ok |-> FALSE, header |-> None, payload |-> None]
  ELSE [success |-> TRUE, checksum_ok |-> ChecksumOK(d), header |-> Header(d),
        payload |-> PayloadOf(d)]

\* What a parse adds to a counter.
One(b) == IF b THEN 1 ELSE 0

\* What the network made of a datagram.  An intact one is operational or not; of a
\* truncated one, a cut leaves a header and a checksum and a stub does not.
ArrivalKind == {"operational", "other", "damaged", "cut", "stub"}
KindInHand ==
  IF intact THEN IF frame.msg_code = TYPE_01 THEN "operational" ELSE "other"
  ELSE IF whole THEN "damaged"
  ELSE IF Len(data) >= MIN_PACKET THEN "cut" ELSE "stub"

\* Mutation of Parse: a wrong checksum is not counted.
ParseForgetsFailures ==
  /\ data # None /\ result = None
  /\ result' = ParseResult(data)
  /\ parse_count' = parse_count + 1
  /\ success_count' = success_count + One(~TooShort(data))
  /\ payload_success_count' =
       payload_success_count + One(~TooShort(data) /\ PayloadOf(data) # None)
  /\ parsed' = [parsed EXCEPT ![KindInHand] = @ + 1]
  /\ UNCHANGED <<frame, data, intact, whole, checksum_fail_count>>

Parse ==
  /\ data # None /\ result = None
  /\ result' = ParseResult(data)
  /\ parse_count' = parse_count + 1
  /\ success_count' = success_count + One(~TooShort(data))
  /\ checksum_fail_count' =
       checksum_fail_count + One(~TooShort(data) /\ ~ChecksumOK(data))
  /\ payload_success_count' =
       payload_success_count + One(~TooShort(data) /\ PayloadOf(data) # None)
  /\ parsed' = [parsed EXCEPT ![KindInHand] = @ + 1]
  /\ UNCHANGED <<frame, data, intact, whole>>

ResetStats ==
  /\ parse_count' = 0 /\ success_count' = 0
  /\ checksum_fail_count' = 0 /\ payload_success_count' = 0
  /\ parsed' = [k \in ArrivalKind |-> 0]
  /\ UNCHANGED <<frame, data, intact, whole, result>>

-----------------------------------------------------------------------------
(* What the dashboard makes of a payload *)

\* get_emergency_dict(): the label for no source has no lamp of its own.
EmergencyDict(p) ==
  [i \in Source \cup {Done} |->
     IF i = Done THEN p.emergency_complete ELSE i \in p.emergency_sources]

\* _emergency_indicator(): the lamp for "done" is green, a source is red.
Indicators(dict) ==
  [i \in DOMAIN dict |->
     IF ~dict[i] THEN "grey" ELSE IF i = Done THEN "green" ELSE "red"]

\* The device bits by name: which of the ten devices are connected.
DeviceGrid(p) == {i \in Device : Bit(p.device_bits, i) = 1}

-----------------------------------------------------------------------------
(* The sender and the network *)

\* A frame carries the fields below; `pad` fills the bits the parser ignores.
StatusByte(f) == f.mode * 32 + f.pad * 16 + f.authority * 4 + f.driving
\* The number whose bits, of ten from bit `low` on, are those in S.
Word(S, low) == SumOf([k \in 1..10 |-> IF k - 1 \in S THEN 2^(low + k - 1) ELSE 0])
EmergencyWord(f) == Word(f.sources, 6) + f.pad * 2 + One(f.complete)

\* tests/test_icd_parser.py, _create_packet(): header, payload, sum of both.
Unsealed(f) ==
  LET head == <<f.pad, 2, 3, f.stamp, 177, 162, f.msg_code, 255, 0, 0,
                OPERATIONAL_DATA_LENGTH, 0>>
      load == <<f.devices % 256, f.devices \div 256, StatusByte(f),
                EmergencyWord(f) % 256, EmergencyWord(f) \div 256>>
      rest == [i \in 1..(OPERATIONAL_DATA_LENGTH - PAYLOAD_MIN) |-> 255]
  IN head \o load \o rest
Sealed(s) == s \o <<SumOf(s) % 256, (SumOf(s) \div 256) % 256>>
Encode(f) == Sealed(Unsealed(f))

ParserInit ==
  /\ frame = None /\ data = None /\ intact = FALSE /\ whole = FALSE /\ result = None
  /\ parse_count = 0 /\ success_count = 0
  /\ checksum_fail_count = 0 /\ payload_success_count = 0
  /\ parsed = [k \in ArrivalKind |-> 0]

Deliver(f, d, same, complete) ==
  /\ data = None /\ parse_count < MaxParses
  /\ frame' = f /\ data' = d
  /\ intact' = same /\ whole' = complete
  /\ UNCHANGED <<result, counters>>

ArriveIntact == \E f \in Frame : Deliver(f, Encode(f), TRUE, TRUE)

ArriveDamaged ==
  \E f \in Frame :
    LET d == Encode(f)
    IN \E i \in DOMAIN d, x \in Damage :
         Deliver(f, [d EXCEPT ![i] = (@ + x) % 256], FALSE, TRUE)

ArriveTruncated ==
  \E f \in Frame :
    LET d == Encode(f)
    IN \E n \in 0..(Len(d) - 1) : Deliver(f, SubSeq(d, 1, n), FALSE, FALSE)

\* The caller is done with the result.
Dispose ==
  /\ result # None
  /\ frame' = None /\ data' = None /\ intact' = FALSE /\ whole' = FALSE
  /\ result' = None
  /\ UNCHANGED counters

ParserNext == ArriveIntact \/ ArriveDamaged \/ ArriveTruncated \/ Parse \/ Dispose
              \/ ResetStats

ParserSpec == ParserInit /\ [][ParserNext]_parserVars

-----------------------------------------------------------------------------

\* What the sender encoded is what the parser reads and the panels show: every
\* field keeps to its own bits, whatever the neighbouring fields and the unused
\* bits hold, and the lamps and the device grid light up for what was sent.
DecodesWhatWasSent ==
  result # None /\ intact =>
    /\ result.success /\ result.checksum_ok
    /\ result.header.sequence = frame.stamp % 16
    /\ result.header.msg_code = frame.msg_code
    /\ IF frame.msg_code # TYPE_01 THEN result.payload = None
       ELSE /\ result.payload.device_bits = frame.devices
            /\ result.payload.operation_mode = frame.mode
            /\ result.payload.authority = frame.authority
            /\ result.payload.driving_state = frame.driving
            /\ Indicators(EmergencyDict(result.payload)) =
                 [i \in Source \cup {Done} |->
                    IF i \in frame.sources THEN "red"
                    ELSE IF i = Done /\ frame.complete THEN "green" ELSE "grey"]
            /\ Word(DeviceGrid(result.payload), 0) = frame.devices % 1024

\* One changed byte, in the checksum field itself too, never passes for valid.
DamageIsNoticed ==
  result # None /\ whole /\ ~intact => ~result.checksum_ok

\* No datagram raises out of parse(), however it was cut or damaged: the result has
\* a header exactly when the parse succeeds and a payload only with a header, and
\* every field is in its range.
ParserTypeOK ==
  /\ {parse_count, success_count, checksum_fail_count, payload_success_count} \subseteq Nat
  /\ parsed \in [ArrivalKind -> Nat]
  /\ result # None => /\ result.success <=> result.header # None
                      /\ result.header \in ICDHeader \cup {None}
                      /\ result.payload \in OperationalPayload \cup {None}
                      /\ result.payload # None => result.header # None
                      /\ result.checksum_ok => result.success

\* The counters of get_stats() are those of the datagrams parsed since the last
\* reset_stats(): each is counted, all but the stubs as a success, every damaged one
\* and no intact one as a wrong checksum, every intact operational one and no other
\* intact one as a payload.  A cut can leave bytes that pass for either.
CountersAddUp ==
  LET unsure == parsed["damaged"] + parsed["cut"]
      seen == parsed["operational"] + parsed["other"] + unsure
  IN /\ parse_count = seen + parsed["stub"]
     /\ success_count = seen
     /\ checksum_fail_count \in parsed["damaged"]..unsure
     /\ payload_success_count \in parsed["operational"]..(parsed["operational"] + unsure)
=============================================================================
