------------------------------- MODULE MCIpc -------------------------------
(***************************************************************************)
(* What processes share, in small instances for TLC: in a behaviour of     *)
(* part "pipe" two readers and two writers share a pipe (module Pipe), in  *)
(* one of part "buffer" the ring buffer below it is filled and emptied     *)
(* (FifoBuf), in one of part "queue" three tasks use a message queue       *)
(* (MsgQueue), in one of part "threads" the threads of a process start,    *)
(* join, detach and cancel each other (PThread), in one of part "space" a  *)
(* process maps and unmaps memory (VmSpace), in one of part "shared" three *)
(* processes share memory by name (ShareMem), in one of part "named" a     *)
(* reader and a writer use a named pipe (NamedPipe).  The parts share no   *)
(* state; the variables of the other parts keep their first value.         *)
(***************************************************************************)
EXTENDS Pipe

CONSTANTS Byte, Size, Uints, MaxLen,
          Client, Slot, Name, NoName, MSGQ_MAX_MSGS, Uchars, Type,
          N, PTHREAD_MAX_NR, Cancelled,
          PAGE_SIZE, USER_VMM_SIZE, MAX_VMS_HEAP_SIZE, HeapStart, MapStart, MapEnd,
          Fixed, Length, Flags,
          Proc, FirstProc, ShmSlot, ShmName, Page, NoPage, MaxLinks,
          rd, wr, RQ, WQ, NULL, Idle, FIFO_SIZE, MaxRef,
          Parts

VARIABLES buffer, in, out, result,
          queue, asleep, handle, mpc, call, strayed,
          state, parent, flags, tpc, other, count, vmm, closed, missed, panicked,
          spaces, heap_end, pages, dangling,
          shm, free, live, view, attached, hpc, slot, disturbed, halted,
          mem, cur, table, named, ends, ref, busy, nonblock, nosync, len, rest, locked,
          waiters, npc, then, wakes, passed, torn,
          part \* chosen at the start, never changed

bufVars == <<buffer, in, out, result>>
msgVars == <<queue, asleep, handle, mpc, call, strayed>>
threadVars == <<state, parent, flags, tpc, other, count, vmm, closed, missed, panicked>>
spaceVars == <<spaces, heap_end, pages, dangling>>
shmVars == <<shm, free, live, view, attached, hpc, slot, disturbed, halted>>

namedVars ==
    <<mem, cur, table, named, ends, ref, busy, nonblock, nosync, len, rest, locked,
      waiters, npc, then, wakes, passed, torn>>

B == INSTANCE FifoBuf

\* A receiver asks for any type, for types up to the greatest, or for all but
\* one that nobody sends: every message suits every receiver.
Greatest == CHOOSE x \in Type : \A y \in Type : y <= x

Q == INSTANCE MsgQueue
         WITH Task <- Client, pc <- mpc,
              Select <- {<<0, FALSE>>, <<-Greatest, FALSE>>, <<Greatest + 1, TRUE>>}

P == INSTANCE PThread WITH pc <- tpc

V == INSTANCE VmSpace

M == INSTANCE ShareMem WITH Slot <- ShmSlot, Name <- ShmName, pc <- hpc, panicked <- halted

F == INSTANCE NamedPipe
         WITH Task <- {rd, wr}, pc <- npc, in <- busy, nowait <- nonblock, left <- rest, missed <- passed

ASSUME IpcAssumption ==
    /\ B!FifoBufConstants /\ Q!MsgQueueConstants
    /\ P!PThreadConstants /\ V!VmSpaceConstants /\ M!ShareMemConstants /\ F!NamedPipeConstants
    /\ \E x \in Type : \A y \in Type : y <= x \* a type is a long

MCInit ==
    /\ Init /\ B!Init /\ Q!Init /\ P!Init /\ V!Init /\ M!Init /\ F!Init
    /\ part \in Parts
    /\ part # "buffer" => buffer = [i \in 0 .. Size - 1 |-> CHOOSE b \in Byte : TRUE]

\* Bound: with a thread detached and a thread that may be cancelled, or was,
\* the last thread is not made.
Cancel == {"CANCELED", "ASYNC", "DISABLE"}
Mixed == \E t, u \in P!Thread : "DETACH" \in flags[t] /\ flags[u] \cap Cancel # {}

MCNext ==
    /\ \/ part = "pipe" /\ Next /\ UNCHANGED <<bufVars, msgVars, threadVars, spaceVars, shmVars, namedVars>>
       \/ part = "buffer" /\ B!Next /\ UNCHANGED <<vars, msgVars, threadVars, spaceVars, shmVars, namedVars>>
       \/ part = "queue" /\ Q!Next /\ UNCHANGED <<vars, bufVars, threadVars, spaceVars, shmVars, namedVars>>
       \/ /\ part = "threads" /\ P!Next /\ (Mixed' => state'[N] = "NEW")
          /\ UNCHANGED <<vars, bufVars, msgVars, spaceVars, shmVars, namedVars>>
       \/ part = "space" /\ V!Next /\ UNCHANGED <<vars, bufVars, msgVars, threadVars, shmVars, namedVars>>
       \/ /\ part = "shared" /\ ~ disturbed \* SharedPagesLive says nothing after that
          /\ M!Next /\ UNCHANGED <<vars, bufVars, msgVars, threadVars, spaceVars, namedVars>>
       \/ /\ part = "named" /\ ~ torn \* nor does NamedPipeServed
          /\ F!Next /\ UNCHANGED <<vars, bufVars, msgVars, threadVars, spaceVars, shmVars>>
    /\ UNCHANGED part

MCSpec == MCInit /\ [][MCNext]_<<vars, bufVars, msgVars, threadVars, spaceVars, shmVars, namedVars, part>>

\* The ring of fifo_buf_put and fifo_buf_get is a bounded queue of bytes, in
\* and out overflowing or not.
BufferIsAQueue == B!IsAQueue

\* How far past MSGQ_MAX_MSGS the senders get that msg_queue_recv has woken, and
\* that nobody sleeps in msg_queue_recv while there are messages that no woken
\* receiver is on the way to take, until a trigger wakes one of them.
QueueServed == part = "queue" => Q!SendersBound /\ Q!NoSleepOnMessages

\* thread_count, by which pthread_exit ends the process: the threads that live
\* and those that sys_thread_cancel has closed.
CountExact == part = "threads" => P!CountExact

\* Whoever sleeps in pthread_join will be woken, unless the thread ended in one
\* of the windows of pthread_join and pthread_exit.
JoinerRemembered == part = "threads" => P!JoinerRemembered

\* "A child thread frees its structure only" (proc_destroy): the address space
\* stays as long as a thread of the process lives.
VmmAlive == P!VmmAlive

\* do_vmspace_map, do_vmspace_unmap and do_vmspace_heap keep the list of spaces
\* sorted and disjoint, and every page of the process in one of them.
SpacesExact == part = "space" => V!SpacesExact

\* share_mem_map, share_mem_unmap and share_mem_put: what a process has mapped
\* is not given back, but in the windows between finding a slot and counting.
SharedPagesLive == part = "shared" => M!SharedPagesLive

\* fifo_get, fifo_read and fifo_write: who sleeps in a named pipe sleeps for a
\* reason or was passed over before it slept, and the lists of tasks are right,
\* until a task is unblocked in the mutex of the pipe.
NamedPipeServed == part = "named" => F!PipeServed
=============================================================================
