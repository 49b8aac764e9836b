----------------------------- MODULE StatsService -----------------------------
(***************************************************************************)
(* services/stats_service.py: counters over the results of the processor   *)
(* and the connection state.  Every method runs under the service's lock.  *)
(*                                                                         *)
(* Time is the age of last_packet_time, counted up to the timeout: nothing *)
(* the service answers depends on more.                                    *)
(***************************************************************************)
EXTENDS Integers

CONSTANTS None,            \* Python's None
          TIMEOUT          \* timeout_sec, 5 s

ASSUME TimeoutAssumption == TIMEOUT \in Nat \ {0}
ASSUME StatsNoneAssumption == None \notin Int

VARIABLES total_packets, parse_success, checksum_fail,
          packet_age,      \* age of self._last_packet_time, or None
          last_payload     \* self._last_payload, or None

countVars == <<total_packets, parse_success, checksum_fail>>
statsVars == <<total_packets, parse_success, checksum_fail, packet_age, last_payload>>

StatsInit ==
  /\ total_packets = 0 /\ parse_success = 0 /\ checksum_fail = 0
  /\ packet_age = None /\ last_payload = None

Count(result) ==
  /\ total_packets' = total_packets + result.count
  /\ parse_success' = parse_success + result.success_count
  /\ checksum_fail' = checksum_fail + result.checksum_fail_count

\* A batch without a payload leaves the one that is there.
Keep(payload) == last_payload' = IF payload # None THEN payload ELSE last_payload

\* Mutation of Update: an empty batch refreshes the time as well.
UpdateAlwaysFresh(result) ==
  Count(result) /\ Keep(result.last_payload) /\ packet_age' = 0

\* update(): the time is the time of processing, not of reception.
Update(result) ==
  /\ Count(result)
  /\ Keep(result.last_payload)
  /\ packet_age' = IF result.count > 0 THEN 0 ELSE packet_age

\* Mutation of StatsReset: the packets counted stay.
StatsResetKeepsTotal ==
  /\ parse_success' = 0 /\ checksum_fail' = 0
  /\ packet_age' = None /\ last_payload' = None
  /\ UNCHANGED total_packets

\* Mutation of StatsReset: the payload stays.
StatsResetKeepsPayload ==
  /\ total_packets' = 0 /\ parse_success' = 0 /\ checksum_fail' = 0
  /\ packet_age' = None
  /\ UNCHANGED last_payload

StatsReset ==
  /\ total_packets' = 0 /\ parse_success' = 0 /\ checksum_fail' = 0
  /\ packet_age' = None /\ last_payload' = None

\* is_connected()
IsConnected == packet_age # None /\ packet_age < TIMEOUT

\* A second passes: the age counts up to the timeout.
Older(age) == IF age = None \/ age = TIMEOUT THEN age ELSE age + 1
=============================================================================
