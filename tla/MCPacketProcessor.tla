--------------------------- MODULE MCPacketProcessor ---------------------------
(* Packets of every kind: without a payload, and payloads of two modes, with *)
(* the label for no emergency or with a source and a wrong checksum.  Four  *)
(* records make three transitions, one more than the journal keeps.         *)
EXTENDS PacketProcessor, HistoryPanels, TLC

CONSTANTS label, remote      \* the two members of Reason

NoPayload == [checksum_ok |-> TRUE, mode |-> None, reasons |-> {}]
Payload(m, r, ok) == [checksum_ok |-> ok, mode |-> m, reasons |-> {r}]

MCParseResult ==
  {NoPayload} \cup {Payload(m, label, TRUE) : m \in Mode} \cup {Payload(m, remote, FALSE) : m \in Mode}

Modes == Permutations(Mode)
=============================================================================
