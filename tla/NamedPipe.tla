----------------------------- MODULE NamedPipe -----------------------------
(***************************************************************************)
(* A named pipe, src/ipc/fifo.c, with one reader and one writer ("there is *)
(* one reader and one writer only", fifo_get).                             *)
(*                                                                         *)
(* A named pipe has no wait queue: a task that finds it full or empty      *)
(* unlocks its mutex and calls task_block, and the other one unblocks it   *)
(* if its state is TASK_BLOCKED and the flag of its end says that it is in *)
(* the pipe.  That is also true of a task that sleeps in the mutex.  So WQ *)
(* is the wait_list of the mutex here, with the pointers of module         *)
(* WaitQueue, and the functions of the mutex are steps.                    *)
(*                                                                         *)
(* The ring buffer is a number of bytes (FifoBuf is about the ring).  A    *)
(* task that waits for the semaphore of the table stays READY: it is not   *)
(* in the pipe, so nobody looks at its state.                              *)
(***************************************************************************)
EXTENDS WaitQueue

CONSTANTS rd, wr,      \* the task that opens the reading end, and the writing one
          FIFO_SIZE,
          Requests,    \* sizes asked for by fifo_read and fifo_write
          MaxRef       \* bound: how often an end is open

NamedPipeConstants ==
    /\ Task = {rd, wr} /\ rd # wr
    /\ Cardinality({RQ, WQ, NULL, Idle}) = 4 /\ {RQ, WQ, NULL, Idle} \cap Task = {}
    /\ FIFO_SIZE \in Nat \ {0} /\ MaxRef \in Nat \ {0}
    /\ Requests \subseteq Nat \ {0}

VARIABLES mem,       \* pointers, task states, ready counter: module WaitQueue
          cur,       \* current_task
          table,     \* who has fifo_mutex, the semaphore of the table
          named,     \* the pipe is in the table
          ends,      \* the tasks in fifo->reader and fifo->writer
          ref,       \* readref and writeref
          in,        \* FIFO_IN_READ and FIFO_IN_WRITE, by the task
          nowait, nosync, \* IPC_NOWAIT and IPC_NOSYNC, by the task of the end
          len,       \* fifo_buf_len
          left,      \* the bytes a call has still to move
          locked, waiters, \* of fifo->mutex
          pc, then,  \* where a task is, and where it goes on after the mutex
          wakes,     \* whom it has taken off the list of the mutex
          missed,    \* tasks passed over by a wakeup, for they were not asleep yet
          torn       \* a task was unblocked while it was in the list of the mutex

slot == <<table, named, ends, ref, nowait, nosync>>
mutex == <<locked, waiters, wakes>>
vars == <<mem, cur, slot, in, len, left, mutex, pc, then, missed, torn>>

\* init_fifo; the tasks are there.
Init ==
    /\ mem = BootMemory(wr) /\ cur = Idle
    /\ table = NULL /\ named = FALSE /\ ends = {}
    /\ ref = [t \in Task |-> 0]
    /\ in = {} /\ nowait = {} /\ nosync = {}
    /\ len = 0 /\ left = [t \in Task |-> 0]
    /\ locked = FALSE /\ waiters = 0
    /\ pc = [t \in Task |-> "out"] /\ then = [t \in Task |-> "out"]
    /\ wakes = [t \in Task |-> NULL]
    /\ missed = {} /\ torn = FALSE

-----------------------------------------------------------------------------
(* The CPU.                                                                *)

Switch(m) ==
    /\ mem' = fetch_first(m)
    /\ cur' = IF mem'.bad = "no" THEN NextTask(m) ELSE cur

Preempt ==
    /\ cur # Idle
    /\ Switch(add_ready(mem, cur))
    /\ UNCHANGED <<slot, in, len, left, mutex, pc, then, missed, torn>>

LeaveIdle ==
    /\ cur = Idle /\ mem.len > 0
    /\ Switch(mem)
    /\ UNCHANGED <<slot, in, len, left, mutex, pc, then, missed, torn>>

At(t, place) == cur = t /\ pc[t] = place
Go(t, place) == pc' = [pc EXCEPT ![t] = place]
LockThen(t, place) == Go(t, "lock") /\ then' = [then EXCEPT ![t] = place]
UnlockThen(t, place) == Go(t, "unlock") /\ then' = [then EXCEPT ![t] = place]

\* task_block(TASK_BLOCKED).  Woken, the task goes for the mutex, the writer to
\* take the next turn, the reader to take what there is.
Block(t) ==
    /\ cur = t /\ pc[t] \in {"sync", "block"}
    /\ Switch([mem EXCEPT !.state[t] = "BLOCKED"])
    /\ Go(t, IF pc[t] = "sync" THEN "synced" ELSE "blocked")
    /\ then' = [then EXCEPT ![t] = IF t = wr THEN "write" ELSE "take"]
    /\ UNCHANGED <<slot, in, len, left, mutex, missed, torn>>

\* It has decided to sleep and does not hold the mutex.
AboutToBlock(t) == pc[t] \in {"sync", "block"} \/ (pc[t] = "wakeup" /\ then[t] = "block")

\* The tests of fifo_get, fifo_read and fifo_write before task_unblock.
Sleeps(t) == t \in ends /\ mem.state[t] = "BLOCKED" /\ t \in in

UnblockIfAsleep(t) ==
    /\ mem' = IF Sleeps(t) THEN task_wakeup(mem, t) ELSE mem
    /\ torn' = (torn \/ (Sleeps(t) /\ list_find(mem, t, WQ)))
    /\ missed' = IF Sleeps(t) THEN missed \ {t}
                 ELSE IF AboutToBlock(t) THEN missed \cup {t} ELSE missed

-----------------------------------------------------------------------------
(* src/task/mutexlock.c, on fifo->mutex.                                   *)

\* A turn of mutex_lock, entered or woken in.
mutex_lock(t) ==
    /\ cur = t /\ pc[t] \in {"lock", "synced", "blocked"}
    /\ missed' = missed \ {t}
    /\ IF ~ locked
       THEN /\ locked' = TRUE
            /\ Go(t, then[t])
            /\ UNCHANGED <<mem, cur, waiters>>
       ELSE /\ waiters' = waiters + 1
            /\ Switch([list_add_tail(mem, t, WQ) EXCEPT !.state[t] = "BLOCKED"])
            /\ Go(t, "lock")
            /\ UNCHANGED locked
    /\ UNCHANGED <<slot, in, len, left, wakes, then, torn>>

\* The section of mutex_unlock: the first waiter is taken off.
mutex_unlock(t) ==
    /\ At(t, "unlock")
    /\ locked' = FALSE
    /\ IF waiters = 0
       THEN Go(t, then[t]) /\ UNCHANGED <<mem, waiters, wakes>>
       ELSE /\ waiters' = waiters - 1
            /\ mem' = IF mem.next[WQ] \in Task THEN list_del_init(mem, mem.next[WQ])
                      ELSE [mem EXCEPT !.bad = "fault"]
            /\ wakes' = [wakes EXCEPT ![t] = mem.next[WQ]]
            /\ Go(t, "wakeup")
    /\ UNCHANGED <<cur, slot, in, len, left, then, missed, torn>>

UnlockWakeup(t) ==
    /\ At(t, "wakeup")
    /\ mem' = task_wakeup(mem, wakes[t])
    /\ wakes' = [wakes EXCEPT ![t] = NULL]
    /\ Go(t, then[t])
    /\ UNCHANGED <<cur, slot, in, len, left, locked, waiters, then, missed, torn>>

-----------------------------------------------------------------------------
(* fifo_get, and what is done with the table and the mutex both taken.     *)

Opened(t, flag) ==
    /\ ref' = [ref EXCEPT ![t] = @ + 1]
    /\ nowait' = IF flag THEN nowait \cup {t} ELSE nowait

\* The pipe is made, opened again, or has got its writer.  fifo_alloc does not
\* touch the flags.
fifo_get(t, flag) ==
    /\ At(t, "out") /\ table = NULL /\ ref[t] < MaxRef
    /\ (named => t \in ends \/ t = wr)
    /\ named' = TRUE /\ ends' = ends \cup {t}
    /\ len' = IF named THEN len ELSE 0
    /\ Opened(t, flag)
    /\ UNCHANGED <<mem, cur, table, in, nosync, left, mutex, pc, then, missed, torn>>

\* The pipe gets its reader, which then looks whether the writer waits for it.
GetReader ==
    /\ At(rd, "out") /\ table = NULL /\ named /\ rd \notin ends
    /\ table' = rd /\ ends' = ends \cup {rd}
    /\ Go(rd, "registered")
    /\ UNCHANGED <<mem, cur, named, ref, in, nowait, nosync, len, left, mutex, then, missed, torn>>

\* Mutant: the reader that comes does not look for a writer that waits for it.
GetReaderQuietly(flag) ==
    /\ At(rd, "registered")
    /\ Opened(rd, flag)
    /\ table' = NULL
    /\ Go(rd, "out")
    /\ UNCHANGED <<mem, cur, named, ends, in, nosync, len, left, mutex, then, missed, torn>>

GetReaderWakes(flag) ==
    /\ At(rd, "registered")
    /\ UnblockIfAsleep(wr)
    /\ Opened(rd, flag)
    /\ table' = NULL
    /\ Go(rd, "out")
    /\ UNCHANGED <<cur, named, ends, in, nosync, len, left, mutex, then>>

\* fifo_put, fifo_grow and fifo_ctl take the table and go for the mutex.
TakeTable(t, call) ==
    /\ At(t, "out") /\ table = NULL /\ t \in ends
    /\ table' = t
    /\ LockThen(t, call)
    /\ UNCHANGED <<mem, cur, named, ends, ref, in, nowait, nosync, len, left, mutex, missed, torn>>

\* Whoever has the last end of the two closed frees the pipe; nobody is woken.
fifo_put(t) ==
    /\ At(t, "put")
    /\ ref' = [ref EXCEPT ![t] = @ - 1]
    /\ ends' = IF ref[t] = 1 THEN ends \ {t} ELSE ends
    /\ named' = (ends' # {})
    /\ UnlockThen(t, "up")
    /\ UNCHANGED <<mem, cur, table, in, nowait, nosync, len, left, mutex, missed, torn>>

fifo_grow(t) ==
    /\ At(t, "grow")
    /\ ref' = [ref EXCEPT ![t] = IF @ \in 1 .. MaxRef - 1 THEN @ + 1 ELSE @]
    /\ UnlockThen(t, "up")
    /\ UNCHANGED <<mem, cur, table, named, ends, in, nowait, nosync, len, left, mutex, missed, torn>>

\* fifo_ctl with IPC_SET, which adds flags to the end that the task has.  IPC_SETRW,
\* by which a task takes an end over, is left out: rd and wr keep theirs.
fifo_set_flags(t) ==
    /\ At(t, "set")
    /\ \/ nowait' = nowait \cup {t} /\ UNCHANGED nosync
       \/ nosync' = nosync \cup {t} /\ UNCHANGED nowait
    /\ UnlockThen(t, "up")
    /\ UNCHANGED <<mem, cur, table, named, ends, ref, in, len, left, mutex, missed, torn>>

ReleaseTable(t) ==
    /\ At(t, "up")
    /\ table' = NULL
    /\ Go(t, "out")
    /\ UNCHANGED <<mem, cur, named, ends, ref, in, nowait, nosync, len, left, mutex, then, missed, torn>>

-----------------------------------------------------------------------------
(* fifo_write.                                                             *)

\* Without a reader the writer waits for one, or not with IPC_NOSYNC.
WriteBegin(n) ==
    /\ At(wr, "out") /\ table = NULL /\ wr \in ends
    /\ in' = in \cup {wr}
    /\ left' = [left EXCEPT ![wr] = n]
    /\ Go(wr, IF rd \in ends \/ wr \in nosync THEN "lock" ELSE "sync")
    /\ then' = [then EXCEPT ![wr] = "write"]
    /\ UNCHANGED <<mem, cur, slot, len, mutex, missed, torn>>

Least(a, b) == IF a < b THEN a ELSE b

\* A turn of the loop, with the mutex: all that fits is written and the reader
\* unblocked; what is left waits for room, or is given up with IPC_NOWAIT.
WriteTurn ==
    LET n == Least(left[wr], FIFO_SIZE - len)
        done == left[wr] = n \/ wr \in nowait
    IN  /\ At(wr, "write")
        /\ len' = len + n
        /\ left' = [left EXCEPT ![wr] = IF done THEN 0 ELSE @ - n]
        /\ UnblockIfAsleep(rd)
        /\ in' = IF done THEN in \ {wr} ELSE in
        /\ UnlockThen(wr, IF done THEN "out" ELSE "block")
        /\ UNCHANGED <<cur, slot, mutex>>

-----------------------------------------------------------------------------
(* fifo_read.                                                              *)

\* With IPC_NOSYNC and without a writer the call ends, the flag left set.
ReadBegin(n) ==
    /\ At(rd, "out") /\ table = NULL /\ rd \in ends
    /\ in' = in \cup {rd}
    /\ IF wr \notin ends /\ rd \in nosync
       THEN UNCHANGED <<left, pc, then>>
       ELSE left' = [left EXCEPT ![rd] = n] /\ LockThen(rd, "read")
    /\ UNCHANGED <<mem, cur, slot, len, mutex, missed, torn>>

\* With the mutex: no bytes, no waiting.
ReadLook ==
    /\ At(rd, "read")
    /\ \/ len > 0 /\ Go(rd, "take") /\ UNCHANGED <<in, then>>
       \/ len = 0 /\ rd \in nowait /\ UnlockThen(rd, "out") /\ in' = in \ {rd}
       \/ len = 0 /\ rd \notin nowait /\ UnlockThen(rd, "block") /\ UNCHANGED in
    /\ UNCHANGED <<mem, cur, slot, len, left, mutex, missed, torn>>

\* "Woken, there is data for sure": as much as there is.
ReadTake ==
    /\ At(rd, "take")
    /\ len' = len - Least(left[rd], len)
    /\ left' = [left EXCEPT ![rd] = 0]
    /\ Go(rd, "wake")
    /\ UNCHANGED <<mem, cur, slot, in, mutex, then, missed, torn>>

ReadWake ==
    /\ At(rd, "wake")
    /\ UnblockIfAsleep(wr)
    /\ in' = in \ {rd}
    /\ UnlockThen(rd, "out")
    /\ UNCHANGED <<cur, slot, len, left, mutex>>

-----------------------------------------------------------------------------
Open == (\E t \in Task, flag \in BOOLEAN : fifo_get(t, flag)) \/ GetReader
        \/ (\E flag \in BOOLEAN : GetReaderWakes(flag))

WithTable(t) ==
    \/ \E call \in {"put", "grow", "set"} : TakeTable(t, call)
    \/ fifo_put(t) \/ fifo_grow(t) \/ fifo_set_flags(t) \/ ReleaseTable(t)

Next ==
    /\ mem.bad = "no"
    /\ \/ Preempt \/ LeaveIdle \/ Open
       \/ \E t \in Task : \/ Block(t) \/ mutex_lock(t) \/ mutex_unlock(t) \/ UnlockWakeup(t)
                          \/ WithTable(t)
       \/ \E n \in Requests : WriteBegin(n) \/ ReadBegin(n)
       \/ WriteTurn \/ ReadLook \/ ReadTake \/ ReadWake

Spec == Init /\ [][Next]_vars

-----------------------------------------------------------------------------
(* Properties.                                                             *)

Asleep(t) == mem.state[t] = "BLOCKED" /\ t \notin missed

\* A circular list, right in both directions.
Ring(h) ==
    /\ Ends(mem, h)
    /\ \A x \in Members(mem, h) \cup {h} : mem.prev[mem.next[x]] = x

\* The ready queue and the list of the mutex hold the tasks they should.
ListsKept ==
    /\ mem.bad = "no"
    /\ Ring(RQ) /\ Ring(WQ)
    /\ Members(mem, RQ) = {t \in Task : mem.state[t] = "READY"}
    /\ mem.len = Cardinality(Members(mem, RQ))
    /\ Members(mem, WQ) =
          {t \in Task : /\ mem.state[t] = "BLOCKED" /\ pc[t] = "lock"
                        /\ \A u \in Task : wakes[u] # t}
    /\ waiters = Cardinality(Members(mem, WQ))

\* The writer sleeps for room while there is none, or for a reader while there
\* is none, or the reader is about to look; the reader sleeps while there are
\* no bytes.
SleepsForReason ==
    /\ Asleep(wr) /\ pc[wr] = "blocked" => len = FIFO_SIZE \/ pc[rd] = "wake"
    /\ Asleep(wr) /\ pc[wr] = "synced" => rd \notin ends \/ pc[rd] = "registered"
    /\ Asleep(rd) /\ pc[rd] = "blocked" => len = 0

\* Nobody is forgotten in a named pipe, but who was passed over by the wakeup
\* between the test and task_block, until a task is unblocked that sleeps in
\* the mutex.
PipeServed == ~ torn => ListsKept /\ SleepsForReason
=============================================================================
