---------------------------- MODULE MCRecordsTrace ----------------------------
(* Small stores: the deque holds three records or the window two time       *)
(* units, whichever bites first; the restart gap, the cache lifetime and    *)
(* the window are all crossed by the steps of the clock.                    *)
EXTENDS RecordsTrace, TLC

\* A sender that starts at time 0 and skips two numbers each time unit; at time 4
\* it may skip none, so that two packets of one time may differ.
MCSeqInput(ts) ==
  IF ts < 0 THEN {} ELSE IF ts = 4 THEN {10, 12} ELSE {(3 * ts) % 16}

Codes == Permutations(MsgCode)
=============================================================================
