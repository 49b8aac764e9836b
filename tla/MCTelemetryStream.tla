-------------------------- MODULE MCTelemetryStream --------------------------
(* Three packets of two message codes: those of the first arrive in order   *)
(* with bursts of up to 14 losses and reach number 44, so their four-bit    *)
(* number wraps up to twice; those of the second come late as well, up to 5 *)
(* numbers behind the newest one and with bursts of up to 9, the most that  *)
(* four bits can tell from such a late packet.  The clock takes steps below *)
(* and above the restart gap.                                               *)
EXTENDS TelemetryStream

CONSTANTS ordered, late

MCBurst == [m \in MsgCode |-> IF m = late THEN 9 ELSE 14]
=============================================================================
