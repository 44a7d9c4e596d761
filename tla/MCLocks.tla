------------------------------ MODULE MCLocks ------------------------------
(***************************************************************************)
(* The locks of the kernel in small instances for TLC.  In a behaviour of  *)
(* use "rwlock" three tasks share a reader-writer lock (module RWLock), in *)
(* one of use "mutex" they call the functions of its mutexes directly,     *)
(* mutex_try_lock too; in one of use "sema" they call the semaphore        *)
(* functions (Semaphore), in one of use "lock" the synchronisation locks   *)
(* built on them (SyncLock).  Use "alone" is the same for tasks that hold  *)
(* one lock at a time and do not take it again: they cannot wait for each  *)
(* other, nor keep a lock for ever.  The variables of the other uses keep  *)
(* their first value.                                                      *)
(***************************************************************************)
EXTENDS RWLock

CONSTANTS Sema, Value, Clocks, Timeouts, MaxSignals, MaxNest,
          Uses

VARIABLES counter, waiter, alive, units, signals, ticks, poll, strayed,
          holder, reapt_count, pc, depth,
          use \* chosen at the start, never changed

semVars == <<counter, waiter, alive, units, signals, ticks, poll, strayed>>
syncVars == <<holder, reapt_count, pc, depth>>

S == INSTANCE SyncLock

ASSUME LocksAssumption == S!SemaphoreConstants /\ S!SyncLockConstants

MCInit ==
    /\ Init /\ S!SyncInit
    /\ use \in Uses
    /\ use # "rwlock" => arg = "RWLOCK_RD_FIRST"

Alone(t, l) ==
    ~ S!LockAgain(t, l) /\ \A k \in Sema \ {l} : depth[t][k] = 0

\* Tasks that take two mutexes in opposite orders wait for each other, which
\* is no deadlock of the kernel; for the reader-writer lock it is a failure of
\* RWProgress.  The semaphores end when a trigger wakes a waiter.
Rest ==
    /\ use \in {"rwlock", "mutex"} \/ strayed
    /\ UNCHANGED <<vars, rwvars, semVars, syncVars>>

\* Bounds: who calls the mutex functions directly uses two of the mutexes, and
\* goes on with torn lists; the reader-writer lock ends at a torn list.
Unused == "write_mutex"

MCNext ==
    /\ \/ use = "rwlock" /\ ~ torn /\ RWNext /\ UNCHANGED <<semVars, syncVars>>
       \/ /\ use = "mutex" /\ Next /\ UNCHANGED <<rwvars, semVars, syncVars>>
          /\ \A t \in Task : Unused \notin held'[t] \cup {locking'[t]}
       \/ use = "sema" /\ S!Next /\ UNCHANGED <<vars, rwvars, syncVars>>
       \/ use = "lock" /\ S!SyncNext /\ UNCHANGED <<vars, rwvars>>
       \/ /\ use = "alone" /\ UNCHANGED <<vars, rwvars>>
          /\ \E t \in Task, l \in Sema : S!SyncStep(t, l) /\ Alone(t, l)
       \/ Rest
    /\ UNCHANGED use

MCSpec ==
    /\ MCInit /\ [][MCNext]_<<vars, rwvars, semVars, syncVars, use>>
    /\ RWFair /\ S!SyncFair

\* semaphore_down and semaphore_up: units are neither lost nor made up by the
\* hand-over to a waiter, and nobody sleeps while there is one.
SemaphoreExact == S!SemaphoreExact

\* The ASSERTs of sync_lock and sync_unlock.
AssertsHold == S!AssertsHold

\* The holder of a synchronisation lock is the owner of an abstract lock.
SyncImplementsLock == S!ImplementsLock

\* A task blocked in sync_lock gets the lock in the end: semaphore_up hands
\* the unit to the first waiter, so newcomers cannot overtake it.
SyncServed ==
    \A t \in Task :
        use = "alone" /\ S!Blocked(t) ~> \E l \in Sema : holder[l] = t
=============================================================================
