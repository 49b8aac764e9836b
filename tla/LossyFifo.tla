------------------------------ MODULE LossyFifo ------------------------------
(***************************************************************************)
(* What pipeline/queue.py promises to the processor, without a queue: of   *)
(* the packets offered since the last delivery, the processor gets those   *)
(* that do not repeat their predecessor's bytes, in the order offered, and *)
(* of those the newest Capacity.  Every packet is delivered at most once.  *)
(***************************************************************************)
EXTENDS Integers, Sequences, FiniteSets

CONSTANTS Content,    \* what a packet carries
          Capacity    \* how many packets may wait

VARIABLES offered,    \* the content of every packet offered, in order
          delivered,  \* the positions delivered, in order
          taken       \* how many were offered when a delivery last happened

vars == <<offered, delivered, taken>>

Init == offered = <<>> /\ delivered = <<>> /\ taken = 0

Offer(x) == offered' = Append(offered, x) /\ UNCHANGED <<delivered, taken>>

\* A packet is news unless it carries the bytes of the packet offered before.
News(i) == i = 1 \/ offered[i] # offered[i - 1]

Waiting == {i \in (taken + 1)..Len(offered) : News(i)}

Kept == {i \in Waiting : Cardinality({j \in Waiting : j > i}) < Capacity}

\* The increasing enumeration of a finite set of positions.
InOrder(S) ==
  CHOOSE b \in [1..Cardinality(S) -> S] :
    \A i, j \in 1..Cardinality(S) : i < j => b[i] < b[j]

Deliver ==
  /\ delivered' = delivered \o InOrder(Kept)
  /\ taken' = Len(offered)
  /\ UNCHANGED offered

\* The waiting packets are thrown away.
Discard == taken' = Len(offered) /\ UNCHANGED <<offered, delivered>>

Next == (\E x \in Content : Offer(x)) \/ Deliver \/ Discard

Spec == Init /\ [][Next]_vars
=============================================================================
