----------------------------- MODULE ByteQueue -----------------------------
(***************************************************************************)
(* What a byte buffer promises: a bounded queue.  Put takes as much of the *)
(* bytes offered as there is room for, Get returns as much of the oldest   *)
(* bytes as were asked for and are there.                                  *)
(***************************************************************************)
EXTENDS Integers, Sequences, SequencesExt, FiniteSetsExt

CONSTANTS Byte, Size, MaxLen

VARIABLES q,      \* the bytes in the queue, oldest first
          result  \* what the last call returned to its caller

Init == q = << >> /\ result = << >>

Put ==
    \E bytes \in BoundedSeq(Byte, MaxLen) :
        LET n == Min({Len(bytes), Size - Len(q)})
        IN  /\ q' = q \o SubSeq(bytes, 1, n)
            /\ result' = SubSeq(bytes, 1, n)

Get ==
    \E len \in 0 .. MaxLen :
        LET n == Min({len, Len(q)})
        IN  /\ result' = SubSeq(q, 1, n)
            /\ q' = SubSeq(q, n + 1, Len(q))

Reset == q' = << >> /\ result' = << >>

Spec == Init /\ [][Put \/ Get \/ Reset]_<<q, result>>
=============================================================================
