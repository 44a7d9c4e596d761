-------------------------------- MODULE Pipe --------------------------------
(***************************************************************************)
(* A pipe: src/ipc/pipe.c, called through sys_read, sys_write, sys_close   *)
(* and fsif_grow (fork) of src/fs/fsif.c.                                  *)
(*                                                                         *)
(* What a task does under the mutex of the pipe is one step, from the lock *)
(* to the unlock or to the block; the mutex is the subject of module       *)
(* Mutex, the buffer of FifoBuf: here it is a queue of bytes.  A task that *)
(* waits links itself into the wait queue, unlocks and blocks.  That no    *)
(* clock interrupt falls between the last two is assumed here: module      *)
(* MsgPool shows what it does to the lists.  Readers and writers share one *)
(* wait queue.  A task holds one end and closes it only when it does not   *)
(* use it, so that its own calls always find the pipe and its end open.    *)
(***************************************************************************)
EXTENDS Integers, Sequences, FiniteSets, SequencesExt, FiniteSetsExt

CONSTANTS Reader, Writer,      \* tasks that may hold the read, the write end
          FirstReader, FirstWriter, \* the holders once sys_pipe has returned
          PIPE_SIZE,
          Requests,            \* the sizes read and written
          Numbers              \* bytes of a writer are numbered modulo this

ASSUME PipeAssumption ==
    /\ Reader \cap Writer = {}
    /\ FirstReader \in Reader /\ FirstWriter \in Writer
    /\ PIPE_SIZE \in Nat \ {0} /\ Requests \subseteq Nat \ {0}
    /\ Numbers \in Nat /\ Numbers > PIPE_SIZE

Task == Reader \cup Writer

VARIABLES fifo,        \* the bytes <<writer, number>> in the pipe
          read_count, write_count,
          nowait,      \* the sides with PIPE_NOWAIT, of "read", "write"
          wait_queue,
          freed,       \* how often destroy_pipe was called
          open,        \* tasks that hold their end
          pc,          \* where in the pipe code a task is
          left,        \* bytes a call has still to move
          asked,       \* number of the last byte of the request of a writer
          got          \* number of its last byte that was read

files == <<read_count, write_count, nowait, freed, open>>
data == <<fifo, got, asked>>
vars == <<files, data, wait_queue, pc, left>>

\* create_pipe, sys_pipe.
Init ==
    /\ fifo = << >> /\ got = [w \in Writer |-> 0]
    /\ read_count = 1 /\ write_count = 1
    /\ nowait = {} /\ wait_queue = << >> /\ freed = 0
    /\ open = {FirstReader, FirstWriter}
    /\ pc = [t \in Task |-> "out"]
    /\ left = [t \in Task |-> 0]
    /\ asked = [w \in Writer |-> 0]

Blocked(t) == Contains(wait_queue, t)

\* fifo_buf_avali.
Room == PIPE_SIZE - Len(fifo)

\* wait_queue_wakeup, if the other side is still there.
Wakeup(count, queue) ==
    IF count > 0 /\ queue # << >> THEN Tail(queue) ELSE queue

\* The call returns: the bytes moved, or -1.
Return(t) ==
    /\ pc' = [pc EXCEPT ![t] = "out"]
    /\ left' = [left EXCEPT ![t] = 0]

\* Where the bytes of w are among the first n in the pipe.
BytesOf(w, n) == {i \in 1 .. n : fifo[i][1] = w}

\* The first n bytes go to a reader.
Handed(n) ==
    [w \in Writer |-> IF BytesOf(w, n) = {} THEN got[w] ELSE fifo[Max(BytesOf(w, n))][2]]

-----------------------------------------------------------------------------
(* Reading.                                                                *)

\* sys_read, pipe_read.
ReadCall(r, n) ==
    /\ r \in open /\ pc[r] = "out"
    /\ pc' = [pc EXCEPT ![r] = "read"]
    /\ left' = [left EXCEPT ![r] = n]
    /\ UNCHANGED <<files, data, wait_queue>>

\* __pipe_read returns n to the loop of pipe_read.
Turn(r, n) ==
    IF n = left[r] THEN Return(r)
    ELSE /\ pc' = [pc EXCEPT ![r] = "read"]
         /\ left' = [left EXCEPT ![r] = @ - n]

\* Mutant: the bytes read are left in the buffer.
TakeCopies(r) ==
    LET n == Min({left[r], Len(fifo)})
    IN  /\ got' = Handed(n)
        /\ UNCHANGED fifo
        /\ wait_queue' = Wakeup(write_count, wait_queue)
        /\ Turn(r, n)
        /\ UNCHANGED <<files, asked>>

\* The second half of __pipe_read.
Take(r) ==
    LET n == Min({left[r], Len(fifo)})
    IN  /\ got' = Handed(n)
        /\ fifo' = SubSeq(fifo, n + 1, Len(fifo))
        /\ wait_queue' = Wakeup(write_count, wait_queue)
        /\ Turn(r, n)
        /\ UNCHANGED <<files, asked>>

\* __pipe_read with bytes in the pipe.  With none, and the write end closed, it
\* returns 0 and pipe_read calls it again: nothing changes.
ReadTake(r) ==
    /\ pc[r] = "read" /\ fifo # << >>
    /\ Take(r)

\* PIPE_NOWAIT: -1, and from pipe_read what was read so far, if any.
ReadNowait(r) ==
    /\ pc[r] = "read" /\ fifo = << >> /\ write_count > 0 /\ "read" \in nowait
    /\ Return(r)
    /\ UNCHANGED <<files, data, wait_queue>>

ReadWait(r) ==
    /\ pc[r] = "read" /\ fifo = << >> /\ write_count > 0 /\ "read" \notin nowait
    /\ wait_queue' = Append(wait_queue, r)
    /\ pc' = [pc EXCEPT ![r] = "woken"]
    /\ UNCHANGED <<files, data, left>>

\* Woken, it takes what is there, be it nothing.
ReadWoken(r) ==
    /\ pc[r] = "woken" /\ ~ Blocked(r)
    /\ Take(r)

Read(r) == ReadTake(r) \/ ReadNowait(r) \/ ReadWait(r) \/ ReadWoken(r)

-----------------------------------------------------------------------------
(* Writing.                                                                *)

\* sys_write, pipe_write up to the lock.
WriteCall(w, n) ==
    /\ w \in open /\ pc[w] = "out" /\ read_count > 0
    /\ pc' = [pc EXCEPT ![w] = "write"]
    /\ left' = [left EXCEPT ![w] = n]
    /\ asked' = [asked EXCEPT ![w] = (@ + n) % Numbers]
    /\ UNCHANGED <<files, fifo, got, wait_queue>>

\* All readers closed: the trigger TRIGHSOFT, and -1.
WriteNoReader(w) ==
    /\ w \in open /\ pc[w] = "out" /\ read_count <= 0
    /\ Return(w)
    /\ UNCHANGED <<files, data, wait_queue>>

\* The bytes of the request of w from its next on.
Chunk(w, n) ==
    [i \in 1 .. n |-> <<w, (asked[w] - left[w] + i) % Numbers>>]

\* Put what fits.  If that was not all, the pipe is full, and the writer waits
\* at the end of the queue, or fails and drops the rest.
Put(w, queue) ==
    LET n == Min({left[w], Room})
        rest == left[w] - n
    IN  /\ fifo' = fifo \o Chunk(w, n)
        /\ IF rest > 0 /\ "write" \notin nowait
           THEN /\ wait_queue' = Append(queue, w)
                /\ left' = [left EXCEPT ![w] = rest]
                /\ UNCHANGED <<pc, asked>>
           ELSE /\ wait_queue' = queue
                /\ asked' = [asked EXCEPT ![w] = (@ - rest) % Numbers]
                /\ Return(w)
        /\ UNCHANGED <<files, got>>

\* Mutant: a writer that fills the pipe does not wake readers first.
WriteTurnNoWakeup(w) ==
    /\ pc[w] = "write" /\ ~ Blocked(w)
    /\ Put(w, wait_queue)

\* A turn of the loop of pipe_write, the mutex held from its top or from the
\* wakeup on; one task is woken.
WriteTurn(w) ==
    /\ pc[w] = "write" /\ ~ Blocked(w)
    /\ Put(w, Wakeup(read_count, wait_queue))

-----------------------------------------------------------------------------
(* Ends.                                                                   *)

\* pipe_grow: the task forks, and its child holds the same end.
pipe_grow(t, child) ==
    /\ t \in open /\ pc[t] = "out"
    /\ child \notin open /\ pc[child] = "out" /\ freed = 0
    /\ {t, child} \subseteq Reader \/ {t, child} \subseteq Writer
    /\ open' = open \cup {child}
    /\ IF t \in Writer
       THEN write_count' = write_count + 1 /\ UNCHANGED read_count
       ELSE read_count' = read_count + 1 /\ UNCHANGED write_count
    /\ UNCHANGED <<data, nowait, freed, wait_queue, pc, left>>

\* pipe_ioctl with F_SETFL and O_NONBLOCK.
pipe_ioctl(t) ==
    /\ t \in open /\ pc[t] = "out"
    /\ nowait' = nowait \cup {IF t \in Writer THEN "write" ELSE "read"}
    /\ UNCHANGED <<data, read_count, write_count, freed, open, wait_queue, pc, left>>

\* pipe_close: the counter goes down, then both are looked at, with interrupts
\* on all the time.
CloseCount(t) ==
    /\ t \in open /\ pc[t] = "out"
    /\ open' = open \ {t}
    /\ IF t \in Writer
       THEN write_count' = write_count - 1 /\ UNCHANGED read_count
       ELSE read_count' = read_count - 1 /\ UNCHANGED write_count
    /\ pc' = [pc EXCEPT ![t] = "close"]
    /\ UNCHANGED <<data, nowait, freed, wait_queue, left>>

\* Mutant: one end closed is enough.
CloseDestroysEarly(t) ==
    /\ pc[t] = "close"
    /\ freed' = IF write_count <= 0 \/ read_count <= 0 THEN freed + 1 ELSE freed
    /\ Return(t)
    /\ UNCHANGED <<data, read_count, write_count, nowait, open, wait_queue>>

\* Freed memory keeps its bytes until it is given out again.
CloseDestroy(t) ==
    /\ pc[t] = "close"
    /\ freed' = IF write_count <= 0 /\ read_count <= 0 THEN freed + 1 ELSE freed
    /\ Return(t)
    /\ UNCHANGED <<data, read_count, write_count, nowait, open, wait_queue>>

-----------------------------------------------------------------------------
Move ==
    \/ \E r \in Reader : Read(r)
    \/ \E w \in Writer : WriteTurn(w)

Next ==
    \/ \E r \in Reader, n \in Requests : ReadCall(r, n)
    \/ \E w \in Writer, n \in Requests : WriteCall(w, n)
    \/ \E w \in Writer : WriteNoReader(w)
    \/ Move
    \/ \E t, child \in Task : pipe_grow(t, child)
    \/ \E t \in Task : pipe_ioctl(t) \/ CloseCount(t) \/ CloseDestroy(t)

Spec == Init /\ [][Next]_vars

-----------------------------------------------------------------------------
(* Properties.                                                             *)

\* The bytes of a writer, in the order in which they were written, are in the
\* pipe or were read by somebody, each once: chunks of several writers mix,
\* and a request is cut in pieces by the size of the pipe, but no byte is lost,
\* copied or overtaken.
StreamExact ==
    \A w \in Writer :
        LET mine == BytesOf(w, Len(fifo))
        IN  /\ Cardinality(mine) = (asked[w] - left[w] - got[w]) % Numbers
            /\ \A i \in mine : fifo[i][2] = (got[w] + Cardinality(BytesOf(w, i))) % Numbers

\* As long as the write end is open no reader sleeps while bytes are in the
\* pipe and nobody is on the way who will take them or wake it, although a
\* wakeup meant for a reader may go to a writer.
Underway == \E t \in Task : pc[t] \in {"woken", "write"} /\ ~ Blocked(t)
NoSleepOnBytes ==
    write_count > 0 /\ fifo # << >> /\ (\E r \in Reader : Blocked(r)) => Underway

\* As long as the read end is open no writer sleeps on a pipe with room while
\* nobody is on the way.
NoSleepOnRoom ==
    read_count > 0 /\ Room > 0 /\ (\E w \in Writer : Blocked(w)) => Underway

\* pipe_read and pipe_write: nobody sleeps on what is there.
NobodyForgotten == NoSleepOnBytes /\ NoSleepOnRoom

\* The memory of a pipe is not given back while somebody holds an end: the two
\* counters, changed and read with interrupts on, are never both 0 before.
FreedWhenUnused == freed > 0 => open = {}
=============================================================================
