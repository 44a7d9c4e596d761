------------------------------- MODULE FifoIo -------------------------------
(***************************************************************************)
(* The producer-consumer queue src/lib/fifoio.c, and the keyboard driver   *)
(* that uses it: keyboard_handler puts scan codes in the interrupt, the    *)
(* thread kbd gets them.                                                   *)
(*                                                                         *)
(* A step is a section with interrupts off or an access under the mutex.   *)
(* The interrupt handler has no task of its own: it runs on top of the     *)
(* task it interrupts, its host, and what would put it to sleep puts the   *)
(* host to sleep.  It starts with interrupts off; the mutex_lock that gets *)
(* the mutex turns them on.  The interrupt is acknowledged when it         *)
(* returns, so there is one handler at a time.                             *)
(***************************************************************************)
EXTENDS Integers, Sequences, FiniteSets

CONSTANTS Reader, Writer, Other, \* tasks: they call get, put, neither
          Handler, NoTask,
          Byte, Size

\* What is asked of the constants; the module that instantiates this one
\* assumes it.
FifoIoConstants ==
    /\ Size \in Nat \ {0} /\ Byte # {}
    /\ IsFiniteSet(Reader \cup Writer)
    /\ Reader \cap Writer = {} /\ (Reader \cup Writer) \cap Other = {}
    /\ Handler # NoTask /\ {Handler, NoTask} \cap (Reader \cup Writer \cup Other) = {}

KThread == Reader \cup Writer \cup Other
Putter == Writer \cup {Handler}
User == Reader \cup Putter
Sema == {"empty", "full"}

VARIABLES buffer, head, tail, \* fifo_io_t, head and tail as offsets
          counter, waiter,    \* of the semaphores empty and full
          locked, wait_list,  \* of the mutex
          asleep,             \* the tasks in state TASK_BLOCKED
          host,               \* the task the handler runs on
          off,                \* the handler runs with interrupts off
          pc, data,           \* where in put or get a user is, and its byte
          wakes,              \* the task mutex_unlock has to wake
          result              \* the byte the last access moved

vars == <<buffer, head, tail, counter, waiter, locked, wait_list, asleep,
          host, off, pc, data, wakes, result>>
ring == <<buffer, head, tail, result>>
semas == <<counter, waiter>>
mutex == <<locked, wait_list>>

Zero == CHOOSE b \in Byte : TRUE

\* fifo_io_init.
Init ==
    /\ buffer = [i \in 0 .. Size - 1 |-> Zero]
    /\ head = 0 /\ tail = 0
    /\ counter = [s \in Sema |-> IF s = "empty" THEN Size ELSE 0]
    /\ waiter = [s \in Sema |-> << >>]
    /\ locked = FALSE /\ wait_list = << >>
    /\ asleep = {}
    /\ host = NoTask /\ off = FALSE
    /\ pc = [u \in User |-> "out"]
    /\ data = [u \in User |-> Zero]
    /\ wakes = [u \in User |-> NoTask]
    /\ result = << >>

TaskOf(u) == IF u = Handler THEN host ELSE u

\* The user is at this place and may run: its task is not asleep, nor is the
\* handler on top of it.
At(u, place) ==
    /\ pc[u] = place
    /\ TaskOf(u) \notin asleep
    /\ u = Handler \/ (~ off /\ host # u)

Goto(u, place) == pc' = [pc EXCEPT ![u] = place]

-----------------------------------------------------------------------------
\* A thread calls fifo_io_get or fifo_io_put (b).
Call(u, b) ==
    /\ u # Handler /\ At(u, "out")
    /\ Goto(u, "down")
    /\ data' = IF u \in Reader THEN data ELSE [data EXCEPT ![u] = b]
    /\ UNCHANGED <<ring, semas, mutex, asleep, host, off, wakes>>

\* A key is pressed while the task t runs: keyboard_handler calls fifo_io_put.
Interrupt(t, b) ==
    /\ host = NoTask
    /\ t \notin asleep
    /\ host' = t /\ off' = TRUE
    /\ Goto(Handler, "down")
    /\ data' = [data EXCEPT ![Handler] = b]
    /\ UNCHANGED <<ring, semas, mutex, asleep, wakes>>

\* semaphore_down.  Blocked, the user has its unit when it is woken.
Down(u) ==
    LET s == IF u \in Putter THEN "empty" ELSE "full"
    IN  /\ At(u, "down")
        /\ Goto(u, "lock")
        /\ IF counter[s] > 0
           THEN /\ counter' = [counter EXCEPT ![s] = @ - 1]
                /\ UNCHANGED <<waiter, asleep, off>>
           ELSE /\ waiter' = [waiter EXCEPT ![s] = Append(@, TaskOf(u))]
                /\ asleep' = asleep \cup {TaskOf(u)}
                /\ off' = FALSE
                /\ UNCHANGED counter
        /\ UNCHANGED <<ring, mutex, host, data, wakes>>

\* Mutant: the value the exchange returns is not looked at.
LockAnyway(u) ==
    /\ At(u, "lock")
    /\ locked' = TRUE
    /\ Goto(u, "move")
    /\ off' = FALSE
    /\ UNCHANGED <<ring, semas, wait_list, asleep, host, data, wakes>>

\* A turn of the loop of mutex_lock.
Lock(u) ==
    /\ At(u, "lock")
    /\ IF ~ locked
       THEN /\ locked' = TRUE
            /\ Goto(u, "move")
            /\ UNCHANGED <<wait_list, asleep>>
       ELSE /\ wait_list' = Append(wait_list, TaskOf(u))
            /\ asleep' = asleep \cup {TaskOf(u)}
            /\ UNCHANGED <<locked, pc>>
    /\ off' = FALSE
    /\ UNCHANGED <<ring, semas, host, data, wakes>>

\* *head++ = data, or data = *tail++.
Move(u) ==
    /\ At(u, "move")
    /\ Goto(u, "wrap")
    /\ IF u \in Putter
       THEN /\ buffer' = [buffer EXCEPT ![head] = data[u]]
            /\ head' = head + 1
            /\ result' = <<data[u]>>
            /\ UNCHANGED <<tail, data>>
       ELSE /\ data' = [data EXCEPT ![u] = buffer[tail]]
            /\ tail' = tail + 1
            /\ result' = <<buffer[tail]>>
            /\ UNCHANGED <<buffer, head>>
    /\ UNCHANGED <<semas, mutex, asleep, host, off, wakes>>

Back(p) == IF p >= Size THEN 0 ELSE p

Wrap(u) ==
    /\ At(u, "wrap")
    /\ Goto(u, "unlock")
    /\ IF u \in Putter THEN head' = Back(head) /\ UNCHANGED tail
       ELSE tail' = Back(tail) /\ UNCHANGED head
    /\ UNCHANGED <<buffer, result, semas, mutex, asleep, host, off, data, wakes>>

\* mutex_unlock: it takes a waiter off the list with interrupts off and wakes
\* it with interrupts on.
Unlock(u) ==
    /\ At(u, "unlock")
    /\ locked' = FALSE
    /\ IF wait_list = << >>
       THEN Goto(u, "up") /\ UNCHANGED <<wait_list, wakes>>
       ELSE /\ wakes' = [wakes EXCEPT ![u] = Head(wait_list)]
            /\ wait_list' = Tail(wait_list)
            /\ Goto(u, "wake")
    /\ UNCHANGED <<ring, semas, asleep, host, off, data>>

Wake(u) ==
    /\ At(u, "wake")
    /\ asleep' = asleep \ {wakes[u]}
    /\ wakes' = [wakes EXCEPT ![u] = NoTask]
    /\ Goto(u, "up")
    /\ UNCHANGED <<ring, semas, mutex, host, off, data>>

\* semaphore_up, and the return.
Up(u) ==
    LET s == IF u \in Putter THEN "full" ELSE "empty"
    IN  /\ At(u, "up")
        /\ Goto(u, "out")
        /\ IF waiter[s] = << >>
           THEN /\ counter' = [counter EXCEPT ![s] = @ + 1]
                /\ UNCHANGED <<waiter, asleep>>
           ELSE /\ asleep' = asleep \ {Head(waiter[s])}
                /\ waiter' = [waiter EXCEPT ![s] = Tail(@)]
                /\ UNCHANGED counter
        /\ host' = IF u = Handler THEN NoTask ELSE host
        /\ UNCHANGED <<ring, mutex, off, data, wakes>>

Step(u) == Down(u) \/ Lock(u) \/ Move(u) \/ Wrap(u) \/ Unlock(u) \/ Wake(u) \/ Up(u)

Next ==
    \/ \E u \in User : Step(u)
    \/ \E u \in User \ {Handler}, b \in Byte : Call(u, b)
    \/ \E t \in KThread, b \in Byte : Interrupt(t, b)

Spec == Init /\ [][Next]_vars

-----------------------------------------------------------------------------
(* Properties.                                                             *)

\* The bytes in the ring: the units of full, the units of it that readers have
\* taken for bytes still there, and the bytes that writers have not reported.
Taking == {r \in Reader : /\ pc[r] \in {"lock", "move"}
                          /\ \A i \in DOMAIN waiter["full"] : waiter["full"][i] # r}
Putting == {u \in Putter : pc[u] \in {"wrap", "unlock", "wake", "up"}}
Stored == counter["full"] + Cardinality(Taking) + Cardinality(Putting)

\* The queue is a bounded queue of bytes, whoever sleeps where and with whatever
\* threads and interrupts in it at once: no byte is overwritten before it is
\* read, read twice or out of turn.
Queue == INSTANCE ByteQueue WITH
    q <- [i \in 1 .. Stored |-> buffer[(tail + i - 1) % Size]],
    MaxLen <- 1
IsAQueue == Queue!Spec

\* "A mutex cannot be used in an interrupt, for when it does not get the lock it
\* goes to sleep, and an interrupt cannot sleep" (mutexlock.h): the handler
\* gets done.
HandlerReturns == host # NoTask ~> host = NoTask
=============================================================================
