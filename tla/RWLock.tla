------------------------------- MODULE RWLock -------------------------------
(***************************************************************************)
(* The reader-writer lock: include/xbook/rwlock.h and task/rwlock.c.       *)
(*                                                                         *)
(* A rwlock is a reader count and three mutexes.  Its twelve lock and      *)
(* unlock functions are straight lines of mutex calls and count updates;   *)
(* each is given as the sequence of its instructions, and a task inside    *)
(* one keeps what is left to do in todo.  The mutex calls are the ones of  *)
(* module Mutex, with all their steps.                                     *)
(***************************************************************************)
EXTENDS Mutex, FiniteSets

VARIABLES arg,     \* the policy given to rwlock_init
          readers, \* lock->count
          mode,    \* what a task is doing with the lock
          todo     \* the instructions it has still to execute

rwvars == <<arg, readers, mode, todo>>

Policy == {"RWLOCK_RD_FIRST", "RWLOCK_WR_FIRST", "RWLOCK_RW_FAIR"}

RWMutexes == {"count_mutex", "rw_mutex", "write_mutex"}

ASSUME RWLockAssumption == RWMutexes \subseteq Mutex

Lock(m) == [op |-> "lock", m |-> m]
Unlock(m) == [op |-> "unlock", m |-> m]
LockIfFirst == [op |-> "first", m |-> "rw_mutex"]
UnlockIfLast == [op |-> "last", m |-> "rw_mutex"]
Inc == [op |-> "inc", m |-> "count_mutex"]
Dec == [op |-> "dec", m |-> "count_mutex"]

ReadLockRdFirst ==
    <<Lock("count_mutex"), LockIfFirst, Inc, Unlock("count_mutex")>>
ReadUnlock ==
    <<Lock("count_mutex"), Dec, UnlockIfLast, Unlock("count_mutex")>>
ReadLockWrFirst ==
    <<Lock("write_mutex"), Lock("count_mutex"), LockIfFirst, Inc,
      Unlock("count_mutex"), Unlock("write_mutex")>>

\* Mutants: the reader does not take itself off the count; count_mutex stays
\* locked.
ReadLockForgets(a) ==
    <<Lock("count_mutex"), LockIfFirst, Inc>>

read_lock(a) ==
    IF a = "RWLOCK_RD_FIRST" THEN ReadLockRdFirst ELSE ReadLockWrFirst
read_unlock(a) == ReadUnlock

\* Mutant: the writer is content with write_mutex.
WriteLockOuterOnly(a) == <<Lock("write_mutex")>>

write_lock(a) ==
    CASE a = "RWLOCK_RD_FIRST" -> <<Lock("rw_mutex")>>
      [] a = "RWLOCK_WR_FIRST" -> <<Lock("write_mutex"), Lock("rw_mutex")>>
      [] a = "RWLOCK_RW_FAIR" ->
             <<Lock("write_mutex"), Lock("rw_mutex"), Unlock("write_mutex")>>
write_unlock(a) ==
    IF a = "RWLOCK_WR_FIRST"
    THEN <<Unlock("rw_mutex"), Unlock("write_mutex")>>
    ELSE <<Unlock("rw_mutex")>>

\* A task's life: out, inside rdlock, reading, inside rdunlock, out, ...
After(md) ==
    CASE md = "rdlock" -> "reading" [] md = "rdunlock" -> "out"
      [] md = "wrlock" -> "writing" [] md = "wrunlock" -> "out"
      [] OTHER -> md

\* rwlock_init, for each of the policies.
Init ==
    /\ MutexInit
    /\ arg \in Policy
    /\ readers = 0
    /\ mode = [t \in Task |-> "out"]
    /\ todo = [t \in Task |-> << >>]

-----------------------------------------------------------------------------
Idle(t, md) == Outside(t) /\ todo[t] = << >> /\ mode[t] = md

Call(t, md, code) ==
    /\ mode' = [mode EXCEPT ![t] = md]
    /\ todo' = [todo EXCEPT ![t] = code]
    /\ UNCHANGED <<vars, arg, readers>>

rwlock_rdlock(t) == Idle(t, "out") /\ Call(t, "rdlock", read_lock(arg))
rwlock_rdunlock(t) == Idle(t, "reading") /\ Call(t, "rdunlock", read_unlock(arg))
rwlock_wrlock(t) == Idle(t, "out") /\ Call(t, "wrlock", write_lock(arg))
rwlock_wrunlock(t) == Idle(t, "writing") /\ Call(t, "wrunlock", write_unlock(arg))

\* The next instruction is o, and nothing of an earlier one is left.
At(t, o) == todo[t] # << >> /\ Head(todo[t]).op = o

\* The instruction is done; the last one ends the call.
Done(t) ==
    /\ todo' = [todo EXCEPT ![t] = Tail(@)]
    /\ mode' = [mode EXCEPT ![t] = IF Len(todo[t]) = 1 THEN After(@) ELSE @]
    /\ UNCHANGED arg

MutexOf(t) == Head(todo[t]).m

\* mutex_lock: entered, tried, perhaps slept in, at last taken.
EnterLock(t) ==
    /\ At(t, "lock") \/ (At(t, "first") /\ readers = 0)
    /\ CallLock(t, MutexOf(t))
    /\ UNCHANGED rwvars

Take(t) ==
    /\ todo[t] # << >>
    /\ LockTake(t, MutexOf(t))
    /\ Done(t)
    /\ UNCHANGED readers

Wait(t) ==
    /\ todo[t] # << >>
    /\ LockWait(t, MutexOf(t))
    /\ UNCHANGED rwvars

DoUnlock(t) ==
    /\ At(t, "unlock") \/ (At(t, "last") /\ readers = 0)
    /\ mutex_unlock(t, MutexOf(t))
    /\ Done(t)
    /\ UNCHANGED readers

\* The wakeup with which mutex_unlock ends.
DoWakeup(t) == task_wakeup(t) /\ UNCHANGED rwvars

\* A trigger wakes a process that sleeps in one of the mutexes.
DoTrigger(t) == Trigger(t) /\ UNCHANGED rwvars

\* A reader that is not the first, or not the last, leaves rw_mutex alone.
NotFirstOrLast(t) ==
    /\ Outside(t)
    /\ At(t, "first") \/ At(t, "last")
    /\ readers # 0
    /\ Done(t)
    /\ UNCHANGED <<vars, readers>>

UpdateCount(t) ==
    /\ Outside(t)
    /\ \/ At(t, "inc") /\ readers' = readers + 1
       \/ At(t, "dec") /\ readers' = readers - 1
    /\ Done(t)
    /\ UNCHANGED vars

Step(t) ==
    \/ EnterLock(t) \/ Take(t) \/ Wait(t) \/ DoUnlock(t) \/ DoWakeup(t)
    \/ NotFirstOrLast(t) \/ UpdateCount(t)

RWNext ==
    \E t \in Task :
        \/ rwlock_rdlock(t) \/ rwlock_rdunlock(t)
        \/ rwlock_wrlock(t) \/ rwlock_wrunlock(t)
        \/ Step(t) \/ DoTrigger(t)

RWSpec == Init /\ [][RWNext]_<<vars, rwvars>>

\* A runnable task runs, and whoever has the lock gives it back.
RWFair ==
    \A t \in Task :
        /\ WF_<<vars, rwvars>>(Step(t))
        /\ WF_<<vars, rwvars>>(rwlock_rdunlock(t) \/ rwlock_wrunlock(t))

-----------------------------------------------------------------------------
(* Properties.                                                             *)

\* A reader is counted from its count++ to its count--.
Counted(t) ==
    \/ mode[t] = "reading"
    \/ mode[t] = "rdlock" /\ \A i \in 1 .. Len(todo[t]) : todo[t][i].op # "inc"
    \/ mode[t] = "rdunlock" /\ \E i \in 1 .. Len(todo[t]) : todo[t][i].op = "dec"

\* The unguarded-looking updates of count lose no reader.
ReadersCounted == readers = Cardinality({t \in Task : Counted(t)})

\* Readers keep writers out and a writer keeps everybody out, through the
\* hand-over of rw_mutex from the first reader to the last.
RWExclusion ==
    /\ \A t1, t2 \in Task :
           mode[t1] = "writing" /\ mode[t2] \in {"reading", "writing"} => t1 = t2
    /\ ReadersCounted

\* Who asks for the lock sees somebody get it, unless a trigger wakes a task
\* that is linked.
RWProgress ==
    (\E t \in Task : mode[t] \in {"rdlock", "wrlock"})
        ~> (torn \/ \E t \in Task : mode[t] \in {"reading", "writing"})

=============================================================================
