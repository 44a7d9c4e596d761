------------------------------- MODULE Mutex -------------------------------
(***************************************************************************)
(* The kernel mutex: src/task/mutexlock.c and include/xbook/mutexlock.h.   *)
(*                                                                         *)
(* A step is a section that runs with interrupts off; between two steps    *)
(* any other runnable task may run, since the clock interrupt preempts     *)
(* kernel code.  A task in `asleep' has state TASK_BLOCKED; the others are *)
(* READY or RUNNING (module Sched says how the scheduler picks one).       *)
(* mutex_unlock takes the first waiter off the list with interrupts off,   *)
(* but wakes it after it has turned them on again: two steps.              *)
(*                                                                         *)
(* A trigger sent to a process wakes it wherever it is BLOCKED             *)
(* (trigger.c): a waiter may go round its loop again while it is still     *)
(* linked.  Its list node then belongs to the ready queue as well, and the *)
(* wait list is torn: from there on the lists are forgotten, and an unlock *)
(* that finds waiters may wake anybody.                                    *)
(***************************************************************************)
EXTENDS Integers, Sequences

CONSTANTS Task,    \* tasks that use the mutexes
          Process, \* those that have triggers: processes, not kernel threads
          Mutex,   \* mutexlock_t objects
          NoTask, NoMutex

ASSUME MutexAssumption ==
    NoTask \notin Task /\ NoMutex \notin Mutex /\ Process \subseteq Task

VARIABLES count,     \* mutex->count: 0 free, 1 locked
          wait_list, \* mutex->wait_list
          waiters,   \* mutex->waiters
          asleep,    \* the tasks in state TASK_BLOCKED
          locking,   \* the mutex in whose mutex_lock loop a task is
          held,      \* the mutexes a task has got and not yet released
          wakes,     \* the waiter a task took off the list and has to wake
          torn       \* a linked task has been woken: a list is broken

vars == <<count, wait_list, waiters, asleep, locking, held, wakes, torn>>

MutexInit ==
    /\ count = [m \in Mutex |-> 0]
    /\ wait_list = [m \in Mutex |-> << >>]
    /\ waiters = [m \in Mutex |-> 0]
    /\ asleep = {}
    /\ locking = [t \in Task |-> NoMutex]
    /\ held = [t \in Task |-> {}]
    /\ wakes = [t \in Task |-> NoTask]
    /\ torn = FALSE

\* The task is running code outside of mutex_lock and mutex_unlock.
Outside(t) ==
    t \notin asleep /\ locking[t] = NoMutex /\ wakes[t] = NoTask

Linked(t) == \E m \in Mutex : \E i \in 1 .. Len(wait_list[m]) : wait_list[m][i] = t

\* A task enters mutex_lock.
CallLock(t, m) ==
    /\ Outside(t)
    /\ locking' = [locking EXCEPT ![t] = m]
    /\ UNCHANGED <<count, wait_list, waiters, asleep, held, wakes, torn>>

\* Mutant: the value the exchange returns is not looked at.
TakeAnyway(t, m) ==
    /\ t \notin asleep
    /\ locking[t] = m
    /\ count' = [count EXCEPT ![m] = 1]
    /\ held' = [held EXCEPT ![t] = @ \cup {m}]
    /\ locking' = [locking EXCEPT ![t] = NoMutex]
    /\ UNCHANGED <<wait_list, waiters, asleep, wakes, torn>>

\* The turn of the mutex_lock loop that finds the mutex free.
LockTake(t, m) ==
    /\ t \notin asleep
    /\ locking[t] = m
    /\ count[m] = 0
    /\ count' = [count EXCEPT ![m] = 1]
    /\ held' = [held EXCEPT ![t] = @ \cup {m}]
    /\ locking' = [locking EXCEPT ![t] = NoMutex]
    /\ UNCHANGED <<wait_list, waiters, asleep, wakes, torn>>

\* Mutant: waiters is not counted up.
WaitUncounted(t, m) ==
    /\ t \notin asleep
    /\ locking[t] = m
    /\ count[m] = 1
    /\ wait_list' = [wait_list EXCEPT ![m] = Append(@, t)]
    /\ asleep' = asleep \cup {t}
    /\ UNCHANGED <<count, waiters, locking, held, wakes, torn>>

\* The turn that finds it locked: the task blocks and, once woken, goes
\* round the loop again.
LockWait(t, m) ==
    /\ t \notin asleep
    /\ locking[t] = m
    /\ count[m] = 1
    /\ waiters' = [waiters EXCEPT ![m] = @ + 1]
    /\ wait_list' = [wait_list EXCEPT ![m] = IF torn THEN @ ELSE Append(@, t)]
    /\ asleep' = asleep \cup {t}
    /\ UNCHANGED <<count, locking, held, wakes, torn>>

\* One exchange, never blocks; a failed one changes nothing.
mutex_try_lock(t, m) ==
    /\ Outside(t)
    /\ count[m] = 0
    /\ count' = [count EXCEPT ![m] = 1]
    /\ held' = [held EXCEPT ![t] = @ \cup {m}]
    /\ UNCHANGED <<wait_list, waiters, asleep, locking, wakes, torn>>

\* The first waiter of m; of a torn list, whatever its links lead to.
FirstOwner(m) == IF torn THEN Task \cup {NoTask} ELSE {Head(wait_list[m])}

\* Nobody holds the mutex after it is unlocked, whoever unlocks it: the code
\* has no owner to compare with.
mutex_unlock(t, m) ==
    /\ Outside(t)
    /\ count' = [count EXCEPT ![m] = 0]
    /\ held' = [x \in Task |-> held[x] \ {m}]
    /\ IF waiters[m] = 0
       THEN UNCHANGED <<wait_list, waiters, wakes>>
       ELSE /\ \E h \in FirstOwner(m) : wakes' = [wakes EXCEPT ![t] = h]
            /\ wait_list' = [wait_list EXCEPT ![m] = IF torn THEN @ ELSE Tail(@)]
            /\ waiters' = [waiters EXCEPT ![m] = @ - 1]
    /\ UNCHANGED <<asleep, locking, torn>>

\* Mutant: the waiter taken off the list is not woken.
WakeupForgotten(t) ==
    /\ t \notin asleep
    /\ wakes[t] # NoTask
    /\ wakes' = [wakes EXCEPT ![t] = NoTask]
    /\ UNCHANGED <<count, wait_list, waiters, asleep, locking, held, torn>>

\* Making a linked task READY tears the lists: their links are forgotten.
WakeUp(t) ==
    /\ asleep' = asleep \ {t}
    /\ torn' = (torn \/ Linked(t))
    /\ wait_list' = IF torn \/ Linked(t) THEN [m \in Mutex |-> << >>] ELSE wait_list

\* The last line of mutex_unlock, with interrupts on: the waiter may be awake
\* already, and even back in a list, if a trigger woke it first.
task_wakeup(t) ==
    /\ t \notin asleep
    /\ wakes[t] # NoTask
    /\ WakeUp(wakes[t])
    /\ wakes' = [wakes EXCEPT ![t] = NoTask]
    /\ UNCHANGED <<count, waiters, locking, held>>

\* do_active_trigger wakes the process, task_unblock links its node into the
\* ready queue; neither looks for it in a wait list.  Bound: no more triggers
\* once a list is torn.
Trigger(t) ==
    /\ t \in Process /\ t \in asleep
    /\ ~ torn
    /\ WakeUp(t)
    /\ UNCHANGED <<count, waiters, locking, held, wakes>>

\* Callers take no mutex they already hold, and unlock what they hold.
MutexStep(t) ==
    \/ \E m \in Mutex \ held[t] : CallLock(t, m)
    \/ \E m \in Mutex : LockTake(t, m)
    \/ \E m \in Mutex : LockWait(t, m)
    \/ \E m \in Mutex \ held[t] : mutex_try_lock(t, m)
    \/ \E m \in held[t] : mutex_unlock(t, m)
    \/ task_wakeup(t)

Next == \E t \in Task : MutexStep(t) \/ Trigger(t)

Spec == MutexInit /\ [][Next]_vars

-----------------------------------------------------------------------------
(* Properties.                                                             *)

TypeOK ==
    /\ count \in [Mutex -> {0, 1}]
    /\ wait_list \in [Mutex -> Seq(Task)]
    /\ waiters \in [Mutex -> Nat]
    /\ asleep \in SUBSET Task
    /\ locking \in [Task -> Mutex \cup {NoMutex}]
    /\ held \in [Task -> SUBSET Mutex]
    /\ wakes \in [Task -> Task \cup {NoTask}]
    /\ torn \in BOOLEAN

\* "Only one task may hold the mutex at a time" (mutexlock.h).
MutualExclusion ==
    \A t1, t2 \in Task : held[t1] \cap held[t2] # {} => t1 = t2

\* count says whether somebody is inside.
CountIffHeld ==
    \A m \in Mutex : count[m] = 1 <=> \E t \in Task : m \in held[t]

\* The waiters counter, which mutex_unlock trusts before it touches the
\* list, is the length of the list.
WaitersCounted == \A m \in Mutex : waiters[m] = Len(wait_list[m])

\* A linked task is asleep in the loop of that mutex, and is linked once.
LinkedAreAsleep ==
    \A m \in Mutex : \A i \in 1 .. Len(wait_list[m]) :
        /\ wait_list[m][i] \in asleep
        /\ locking[wait_list[m][i]] = m
        /\ \A j \in 1 .. Len(wait_list[m]) :
               wait_list[m][i] = wait_list[m][j] => i = j

\* A kernel thread that somebody is about to wake is asleep, linked nowhere,
\* and nobody else is about to wake it; a process may have been woken by a
\* trigger in between.
WokenAreAsleep ==
    \A t \in Task : wakes[t] \in Task \ Process =>
        /\ wakes[t] \in asleep
        /\ locking[wakes[t]] # NoMutex
        /\ ~ Linked(wakes[t])
        /\ \A x \in Task : wakes[x] = wakes[t] => x = t

\* A sleeping task is linked or about to be woken: it is never forgotten.
AsleepAccounted ==
    \A t \in asleep : Linked(t) \/ \E x \in Task : wakes[x] = t

\* The four together: list, counter and task states agree although the list
\* is changed before the wakeup and the wakeup runs with interrupts on; also
\* while a trigger wakes a task between the two.  They agree until a trigger,
\* or a wakeup that comes after one, wakes a task that is linked.
WaitListConsistent ==
    ~ torn => WaitersCounted /\ LinkedAreAsleep /\ WokenAreAsleep /\ AsleepAccounted

\* A free mutex with waiters is about to be tried again: a waker has still to
\* run, or a woken task is in the loop.  Otherwise all would sleep for ever.
\* That is so until a linked task is woken.
NoLostWakeup ==
    ~ torn => \A m \in Mutex : count[m] = 0 /\ wait_list[m] # << >> =>
        \E t \in Task : locking[t] = m /\ (t \notin asleep \/ \E x \in Task : wakes[x] = t)

\* The mutexes are locks: the owner is the task that holds it.
Owner == [m \in Mutex |->
             IF \E t \in Task : m \in held[t]
             THEN CHOOSE t \in Task : m \in held[t]
             ELSE NoTask]

ALock == INSTANCE Lock WITH Name <- Mutex, owner <- Owner

ImplementsLock == ALock!LockSpec
=============================================================================
