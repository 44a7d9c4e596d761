------------------------------ MODULE SyncLock ------------------------------
(***************************************************************************)
(* The recursive synchronisation lock: include/xbook/synclock.h, a         *)
(* semaphore of value 1, a holder and a repeat count.  Only the semaphore  *)
(* runs with interrupts off; the holder and the count are read and written *)
(* one step at a time around it.  Its users in this repository are kernel  *)
(* threads, to which no trigger is sent: Semaphore's Trigger is no step.   *)
(***************************************************************************)
EXTENDS Semaphore

CONSTANTS NoTask,
          MaxNest   \* bound: how often a task takes a lock it holds

SyncLockConstants == Value = 1 /\ NoTask \notin Task /\ MaxNest \in Nat

VARIABLES holder,      \* lock->holder
          reapt_count, \* lock->reapt_count
          pc,          \* where in sync_lock or sync_unlock a task is
          depth        \* depth[t][l]: sync_locks of l that t has not undone

syncvars == <<holder, reapt_count, pc, depth>>

Idle == [at |-> "idle", lock |-> "none"]
Point(a, l) == [at |-> a, lock |-> l]

\* synclock_init.
SyncInit ==
    /\ SemaInit
    /\ holder = [l \in Sema |-> NoTask]
    /\ reapt_count = [l \in Sema |-> 0]
    /\ pc = [t \in Task |-> Idle]
    /\ depth = [t \in Task |-> [l \in Sema |-> 0]]

\* Mutant: sync_lock takes the outcome of a try for granted.
LockTry(t, l) ==
    /\ pc[t] = Idle /\ ~ Blocked(t)
    /\ holder[l] # t
    /\ pc' = [pc EXCEPT ![t] = Point("got", l)]
    /\ UNCHANGED <<svars, holder, reapt_count, depth>>

\* sync_lock by a task that is not the holder: down, perhaps blocking ...
LockDown(t, l) ==
    /\ pc[t] = Idle /\ ~ Blocked(t)
    /\ holder[l] # t
    /\ semaphore_down(t, l)
    /\ pc' = [pc EXCEPT ![t] = Point("got", l)]
    /\ UNCHANGED <<holder, reapt_count, depth>>

\* ... and, when it has the unit, the assignments.
LockSet(t, l) ==
    /\ pc[t] = Point("got", l) /\ ~ Blocked(t)
    /\ holder' = [holder EXCEPT ![l] = t]
    /\ reapt_count' = [reapt_count EXCEPT ![l] = 1]
    /\ pc' = [pc EXCEPT ![t] = Idle]
    /\ depth' = [depth EXCEPT ![t][l] = 1]
    /\ UNCHANGED svars

\* sync_lock by the holder.
LockAgain(t, l) ==
    /\ pc[t] = Idle /\ ~ Blocked(t)
    /\ holder[l] = t
    /\ depth[t][l] <= MaxNest
    /\ reapt_count' = [reapt_count EXCEPT ![l] = @ + 1]
    /\ depth' = [depth EXCEPT ![t][l] = @ + 1]
    /\ UNCHANGED <<svars, holder, pc>>

\* sync_unlock of an inner lock.
UnlockInner(t, l) ==
    /\ pc[t] = Idle /\ ~ Blocked(t)
    /\ depth[t][l] > 0
    /\ reapt_count[l] > 1
    /\ reapt_count' = [reapt_count EXCEPT ![l] = @ - 1]
    /\ depth' = [depth EXCEPT ![t][l] = @ - 1]
    /\ UNCHANGED <<svars, holder, pc>>

\* sync_unlock of the outermost one: holder, count, semaphore, in this order.
UnlockHolder(t, l) ==
    /\ pc[t] = Idle /\ ~ Blocked(t)
    /\ depth[t][l] > 0
    /\ reapt_count[l] <= 1
    /\ holder' = [holder EXCEPT ![l] = NoTask]
    /\ depth' = [depth EXCEPT ![t][l] = 0]
    /\ pc' = [pc EXCEPT ![t] = Point("clear", l)]
    /\ UNCHANGED <<svars, reapt_count>>

\* Mutant: the count is not cleared.
CountKept(t, l) ==
    /\ pc[t] = Point("clear", l)
    /\ pc' = [pc EXCEPT ![t] = Point("up", l)]
    /\ UNCHANGED <<svars, holder, reapt_count, depth>>

UnlockCount(t, l) ==
    /\ pc[t] = Point("clear", l)
    /\ reapt_count' = [reapt_count EXCEPT ![l] = 0]
    /\ pc' = [pc EXCEPT ![t] = Point("up", l)]
    /\ UNCHANGED <<svars, holder, depth>>

UnlockUp(t, l) ==
    /\ pc[t] = Point("up", l)
    /\ semaphore_up(t, l)
    /\ pc' = [pc EXCEPT ![t] = Idle]
    /\ UNCHANGED <<holder, reapt_count, depth>>

SyncStep(t, l) ==
    \/ LockDown(t, l) \/ LockSet(t, l) \/ LockAgain(t, l)
    \/ UnlockInner(t, l) \/ UnlockHolder(t, l) \/ UnlockCount(t, l) \/ UnlockUp(t, l)

SyncNext == \E t \in Task, l \in Sema : SyncStep(t, l)

SyncSpec == SyncInit /\ [][SyncNext]_<<svars, syncvars>>

\* A runnable task runs, and whoever holds a lock unlocks it.
SyncFair ==
    \A t \in Task, l \in Sema :
        /\ WF_<<svars, syncvars>>(LockSet(t, l))
        /\ WF_<<svars, syncvars>>(UnlockHolder(t, l))
        /\ WF_<<svars, syncvars>>(UnlockCount(t, l) \/ UnlockUp(t, l))

-----------------------------------------------------------------------------
(* Properties.                                                             *)

\* The three ASSERTs: the count is 0 when a new holder sets it; the caller of
\* sync_unlock is the holder; the outermost unlock finds the count at 1.
AssertsHold ==
    \A t \in Task, l \in Sema :
        /\ pc[t] = Point("got", l) /\ ~ Blocked(t) => reapt_count[l] = 0
        /\ depth[t][l] > 0 => holder[l] = t /\ reapt_count[l] = depth[t][l]

\* The holder field alone behaves as the owner of an abstract lock: it is
\* never overwritten while it names a task, and only that task clears it.
ALock == INSTANCE Lock WITH Name <- Sema, owner <- holder

ImplementsLock == ALock!LockSpec
=============================================================================
