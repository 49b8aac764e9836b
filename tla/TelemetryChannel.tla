--------------------------- MODULE TelemetryChannel ---------------------------
(***************************************************************************)
(* What the way from the sniffers to the packet store promises, without    *)
(* threads, batches or locks: packets enter a line in order, the oldest of *)
(* the newest Capacity may be lost when another one enters, the first in   *)
(* the line is kept next, and what was kept may be forgotten.              *)
(***************************************************************************)
EXTENDS Integers, SequencesExt

CONSTANT Capacity      \* how many packets may wait for certain

VARIABLES entered,     \* how many packets entered
          waiting,     \* those in the line, by number
          kept         \* those kept and not forgotten, by number

channelVars == <<entered, waiting, kept>>

ChannelInit == entered = 0 /\ waiting = <<>> /\ kept = <<>>

Enter ==
  /\ entered' = entered + 1
  /\ \/ waiting' = Append(waiting, entered')
     \/ /\ Len(waiting) >= Capacity
        /\ waiting' = Append(RemoveAt(waiting, Len(waiting) - Capacity + 1), entered')
  /\ UNCHANGED kept

Deliver ==
  /\ waiting # <<>>
  /\ waiting' = Tail(waiting)
  /\ kept' = Append(kept, Head(waiting))
  /\ UNCHANGED entered

Forget == kept' = <<>> /\ UNCHANGED <<entered, waiting>>

ChannelNext == Enter \/ Deliver \/ Forget

ChannelSpec == ChannelInit /\ [][ChannelNext]_channelVars
=============================================================================
