------------------------------ MODULE MCQueues ------------------------------
(***************************************************************************)
(* Tasks that wait for each other, in small instances for TLC.  In a       *)
(* behaviour of part "pool" a task waits for the messages of two others    *)
(* (module MsgPool), in one of part "device" for the packets of a device   *)
(* (DevQueue), in one of part "keyboard" for the bytes of a thread and of  *)
(* an interrupt handler (FifoIo); in one of part "user" three threads use  *)
(* the mutex and the semaphore of the library (UserSync), in one of part   *)
(* "service" two tasks call a service (Srvcall).  The parts share no       *)
(* state; the variables of the other parts keep their first value.         *)
(***************************************************************************)
EXTENDS MsgPool

CONSTANTS reader, Process, DEVICE_QUEUE_ENTRY_NR,
          Reader, Writer, Other, Handler, NoTask, Byte, Size,
          Thread, NoThread, Handle, Kinds, Value, MaxValue, MaxNest,
          Server, Caller,
          Parts

VARIABLES dmem, dcur, entry_count, dpc, dtorn,
          buffer, khead, ktail, counter, waiter, locked, wait_list, asleep,
          host, off, kpc, data, wakes, result,
          kind, waitque, used, queue, spin, lock, owner, ucount, cspin, cqueue,
          value, upc, then,
          service, bound, caller, arg, spc, serving, got, missed, disturbed, panicked,
          part \* chosen at the start, never changed

devVars == <<dmem, dcur, entry_count, dpc, dtorn>>
kbdVars == <<buffer, khead, ktail, counter, waiter, locked, wait_list, asleep,
             host, off, kpc, data, wakes, result>>
userVars ==
    <<kind, waitque, used, queue, spin, lock, owner, ucount, cspin, cqueue,
      value, upc, then>>

serviceVars ==
    <<service, bound, caller, arg, spc, serving, got, missed, disturbed, panicked>>

D == INSTANCE DevQueue
         WITH mem <- dmem, cur <- dcur, pc <- dpc, torn <- dtorn

F == INSTANCE FifoIo WITH head <- khead, tail <- ktail, pc <- kpc

U == INSTANCE UserSync WITH count <- ucount, pc <- upc

C == INSTANCE Srvcall WITH state <- service, holder <- bound, pc <- spc

ASSUME QueuesAssumption ==
    /\ D!DevQueueConstants /\ F!FifoIoConstants
    /\ U!UserSyncConstants /\ C!SrvcallConstants

MCInit ==
    /\ Init /\ D!Init /\ F!Init /\ U!Init /\ C!Init
    /\ part \in Parts
    /\ part # "pool" => mem = BootMemory(reader)
    /\ part # "user" => kind = "NORMAL" /\ waitque = -1

MCNext ==
    /\ \/ part = "pool" /\ Next /\ UNCHANGED <<devVars, kbdVars, userVars, serviceVars>>
       \/ part = "device" /\ D!Next /\ UNCHANGED <<vars, kbdVars, userVars, serviceVars>>
       \/ part = "keyboard" /\ F!Next /\ UNCHANGED <<vars, devVars, userVars, serviceVars>>
       \/ part = "user" /\ U!Next /\ UNCHANGED <<vars, devVars, kbdVars, serviceVars>>
       \/ /\ part = "service" /\ ~ disturbed \* CallsServed says nothing after that
          /\ C!Next /\ UNCHANGED <<vars, devVars, kbdVars, userVars>>
    /\ UNCHANGED part

MCSpec == MCInit /\ [][MCNext]_<<vars, devVars, kbdVars, userVars, serviceVars, part>>

\* The scheduler lets every task run that can (NoStarvation of module Sched);
\* the threads that read call get in a loop.
KeyboardSpec ==
    /\ MCSpec
    /\ \A u \in F!User : WF_kbdVars(F!Step(u))
    /\ \A r \in Reader : WF_kbdVars(\E b \in Byte : F!Call(r, b))

\* msgpool_pop and io_device_queue_pickup: nobody sleeps on messages or packets
\* that are there and that no woken task is on the way to take, and the reader
\* of a device finds a packet when it goes on; until a task is switched away
\* from between its two steps, or woken by a trigger after them.
SleepsOnlyWhenEmpty == NoSleepOnMessages /\ D!SleepsOnlyWhenEmpty

\* fifo_io_put and fifo_io_get: a bounded queue of bytes, whoever sleeps where
\* and with whatever threads and interrupts in it at once.
FifoIoIsAQueue == F!IsAQueue

\* "assert(!list_find(&task->list, &wait_queue->wait_list)) failed"
\* (BUGSLIST.md): the task that enters the wait queue of a device is not in it
\* already.
NotYetWaiting == D!NotYetWaiting

\* "A mutex cannot be used in an interrupt, for when it does not get the lock it
\* goes to sleep, and an interrupt cannot sleep" (mutexlock.h): the handler
\* gets done.
HandlerReturns == F!HandlerReturns

\* pthread_mutex_lock, trylock and unlock: an abstract lock, for every kind.
UserLockIsALock == U!ImplementsLock

\* Nobody is left asleep in pthread_mutex_lock or sem_wait on what is free, and
\* sem_wait and sem_trywait take no unit that is not there.
ForgetsNobody == U!ForgetsNobody

\* sys_srvcall returns the answer to its own arguments, and who sleeps in a
\* service call is waited for or was not asleep yet when it was to be woken.
CallsServed == C!CallsServed
=============================================================================
