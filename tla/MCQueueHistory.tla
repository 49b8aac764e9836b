---------------------------- MODULE MCQueueHistory ----------------------------
(* Three payloads, a deque of two and five puts: overflows, repeats, repeats *)
(* of a packet that a drain or an overflow has already removed.              *)
EXTENDS QueueHistory

MCTime == 1..MaxPuts
=============================================================================
