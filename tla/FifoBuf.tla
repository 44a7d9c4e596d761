------------------------------ MODULE FifoBuf ------------------------------
(***************************************************************************)
(* The ring buffer of pipes and named fifos: src/lib/fifobuf.c and         *)
(* include/xbook/fifobuf.h.                                                *)
(*                                                                         *)
(* in and out are unsigned and never reduced to the size of the buffer:    *)
(* they run on until they overflow, or until a get leaves the buffer empty *)
(* and sets both to 0.  Every operation runs under spin_lock_irqsave, so   *)
(* it is one step.                                                         *)
(***************************************************************************)
EXTENDS Integers, Sequences, SequencesExt, FiniteSetsExt

CONSTANTS Byte,
          Size,      \* fifo->size
          Uints,     \* number of values of an unsigned int
          MaxLen     \* bound: the longest request

\* fifo_buf_alloc rounds the size up to a power of 2 that an unsigned int holds:
\* it divides the number of those.  The module that instantiates this one
\* assumes it.
FifoBufConstants ==
    /\ Size \in Nat \ {0} /\ Uints \in Nat /\ Size < Uints /\ Uints % Size = 0
    /\ MaxLen \in 1 .. Uints - 1

VARIABLES buffer, in, out, result
vars == <<buffer, in, out, result>>

\* & (fifo->size - 1), the size being a power of 2.
Offset(i) == i % Size

\* __fifo_buf_len, __fifo_buf_avali; the difference is taken in unsigned ints.
fifo_buf_len == (in - out) % Uints

fifo_buf_avali == (Size - fifo_buf_len) % Uints

\* fifo_buf_alloc: what kmalloc returns holds anything.
Init ==
    /\ buffer \in [0 .. Size - 1 -> Byte]
    /\ in = 0 /\ out = 0
    /\ result = << >>

\* Mutant: the part that does not fit before the end is not put at the start.
CopyInNoWrap(bytes, n) ==
    LET l == Min({n, Size - Offset(in)})
    IN  [p \in 0 .. Size - 1 |->
            IF p \in Offset(in) .. Offset(in) + l - 1
            THEN bytes[p - Offset(in) + 1]
            ELSE buffer[p]]

\* The two memcpys of __fifo_buf_put: up to the end of the buffer, then from
\* its start.
CopyIn(bytes, n) ==
    LET l == Min({n, Size - Offset(in)})
    IN  [p \in 0 .. Size - 1 |->
            CASE p \in Offset(in) .. Offset(in) + l - 1 -> bytes[p - Offset(in) + 1]
              [] p \in 0 .. n - l - 1 -> bytes[l + p + 1]
              [] OTHER -> buffer[p]]

\* The two memcpys of __fifo_buf_get.
CopyOut(n) ==
    LET l == Min({n, Size - Offset(out)})
    IN  [i \in 1 .. n |-> IF i <= l THEN buffer[Offset(out) + i - 1] ELSE buffer[i - l - 1]]

fifo_buf_put(bytes) ==
    LET n == Min({Len(bytes), fifo_buf_avali})
    IN  /\ buffer' = CopyIn(bytes, n)
        /\ in' = (in + n) % Uints
        /\ result' = SubSeq(bytes, 1, n)
        /\ UNCHANGED out

fifo_buf_get(len) ==
    LET n == Min({len, fifo_buf_len})
        o == (out + n) % Uints
    IN  /\ result' = CopyOut(n)
        /\ IF o = in THEN in' = 0 /\ out' = 0 ELSE out' = o /\ UNCHANGED in
        /\ UNCHANGED buffer

fifo_buf_reset == in' = 0 /\ out' = 0 /\ result' = << >> /\ UNCHANGED buffer

Next ==
    \/ \E bytes \in BoundedSeq(Byte, MaxLen) : fifo_buf_put(bytes)
    \/ \E len \in 0 .. MaxLen : fifo_buf_get(len)
    \/ fifo_buf_reset

Spec == Init /\ [][Next]_vars

-----------------------------------------------------------------------------
(* Properties.                                                             *)

\* The ring is a bounded queue of bytes, in and out overflowing or not: what
\* __fifo_buf_put and __fifo_buf_get copy in two parts is what a queue holds.
Queue == INSTANCE ByteQueue WITH
    q <- [i \in 1 .. fifo_buf_len |-> buffer[Offset(out + i - 1)]]
IsAQueue == Queue!Spec
=============================================================================
