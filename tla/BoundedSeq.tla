----------------------------- MODULE BoundedSeq -----------------------------
(***************************************************************************)
(* The bounded sequences of the program: `collections.deque(maxlen=n)`     *)
(* (PacketQueue, PacketStore) and the lists cut back to their last n items *)
(* after an append, `l = l[-n:]` (connection and mode histories).  And the *)
(* lists made of some items of another.                                    *)
(***************************************************************************)
EXTENDS Integers, Sequences

\* The Python slice s[-n:], for n > 0: the last n items, or all of them.
LastN(s, n) == IF Len(s) <= n THEN s ELSE SubSeq(s, Len(s) - n + 1, Len(s))

\* The comprehension [x for x in s if x in E].
Among(s, E) ==
  LET upTo[n \in 0..Len(s)] ==
        IF n = 0 THEN <<>>
        ELSE IF s[n] \in E THEN Append(upTo[n - 1], s[n]) ELSE upTo[n - 1]
  IN upTo[Len(s)]

\* Append to a sequence that keeps its last n items: the oldest one goes.
AppendBounded(s, e, n) == LastN(Append(s, e), n)
=============================================================================
