------------------------------ MODULE UserSync ------------------------------
(***************************************************************************)
(* Synchronisation of the threads of a process: the mutex, condition       *)
(* variable and semaphore of library/pthread over the user wait queues of  *)
(* src/task/waitque.c.                                                     *)
(*                                                                         *)
(* The library runs in user mode and can be preempted anywhere; a call of  *)
(* waitque_wait or waitque_wake is one step, for the kernel keeps          *)
(* interrupts off from the change of the word to the block.  Taking a spin *)
(* lock is a step, and what is done under it up to its release is the next *)
(* one: others who want the same words only spin.  Whoever is in a queue   *)
(* is asleep.                                                              *)
(*                                                                         *)
(* kind is what the threads share: a mutex of one of the three kinds that  *)
(* they lock and unlock themselves, or a sem_t with its NORMAL mutex and   *)
(* its condition variable, used with ("TIMED") or without ("SEM")          *)
(* sem_timedwait.  A timed wait ends by a wakeup or is not allowed to      *)
(* sleep at all (trywait): its time never runs out.                        *)
(***************************************************************************)
EXTENDS Integers, Sequences, SequencesExt, FiniteSets, FiniteSetsExt

CONSTANTS Thread, NoThread,
          Handle,     \* the wait queues of the kernel
          Kinds,      \* the values of kind
          Value,      \* argument of sem_init
          MaxValue,   \* bound: sem_post goes no higher
          MaxNest     \* bound on the count of a RECURSIVE mutex

UserSyncConstants ==
    /\ NoThread \notin Thread /\ IsFiniteSet(Thread)
    /\ Handle \subseteq Nat /\ IsFiniteSet(Handle) /\ Cardinality(Handle) > Cardinality(Thread)
    /\ Kinds \subseteq {"NORMAL", "ERRORCHECK", "RECURSIVE", "SEM", "TIMED"}
    /\ Value \in Nat /\ MaxValue \in Nat /\ MaxNest \in Nat

VARIABLES kind,
          waitque,    \* mutex->waitque, -1 until it is created
          used,       \* handles given out by the kernel
          queue,      \* queue[h]: the threads in the wait queue h
          spin,       \* mutex->spin.count
          lock,       \* mutex->lock: 1 is free
          owner, count,
          cspin,      \* cond->spin.count
          cqueue,     \* the wait queue of the condition variable
          value,      \* sem->value
          pc,         \* where in the library a thread is
          then        \* where it goes on after the lock or unlock it is in

mutexVars == <<waitque, used, queue, spin, lock, owner, count>>
semVars == <<cspin, cqueue, value>>
vars == <<kind, mutexVars, semVars, pc, then>>

IsSem == kind \in {"SEM", "TIMED"}
Normal == kind = "NORMAL" \/ IsSem

\* PTHREAD_MUTEX_INITIALIZER, or pthread_mutex_init, which creates the queue;
\* sem_init.
Init ==
    /\ kind \in Kinds
    /\ \/ waitque = -1 /\ used = {} /\ ~ IsSem
       \/ waitque = Min(Handle) /\ used = {Min(Handle)}
    /\ queue = [h \in Handle |-> << >>]
    /\ spin = 0 /\ lock = 1 /\ owner = NoThread /\ count = 0
    /\ cspin = 0 /\ cqueue = << >> /\ value = Value
    /\ pc = [t \in Thread |-> "out"]
    /\ then = [t \in Thread |-> "out"]

Asleep(t) == Contains(cqueue, t) \/ \E h \in Handle : Contains(queue[h], t)

Go(t, here, there) ==
    /\ pc[t] = here /\ ~ Asleep(t)
    /\ pc' = [pc EXCEPT ![t] = there]

\* sys_waitque_wake without WAITQUE_ALL: the first waiter.
sys_waitque_wake(q) == IF q = << >> THEN q ELSE Tail(q)

-----------------------------------------------------------------------------
(* pthread_mutex_lock, pthread_mutex_unlock, pthread_mutex_trylock.        *)

\* The call: a mutex without a wait queue is given one first.
CreateFor(entry) == IF entry = "spin_lock" THEN "create_lock" ELSE "create_unlock"
Enter(entry) == IF waitque = -1 THEN CreateFor(entry) ELSE entry

\* sys_waitque_create, and the handle is stored, whether or not another thread
\* has stored one meanwhile.
Create(t, entry) ==
    /\ Go(t, CreateFor(entry), entry)
    /\ waitque' = Min(Handle \ used)
    /\ used' = used \cup {Min(Handle \ used)}
    /\ UNCHANGED <<kind, queue, spin, lock, owner, count, semVars, then>>

\* pthread_spin_lock(&mutex->spin) succeeds.
MutexSpin(t, entry, section) ==
    /\ spin = 0
    /\ Go(t, entry, section)
    /\ spin' = 1
    /\ UNCHANGED <<kind, waitque, used, queue, lock, owner, count, semVars, then>>

\* Mutant: the outcome of the exchange is not looked at.
TakeAnyway(t) ==
    /\ Go(t, "lock", then[t])
    /\ lock' = 0 /\ owner' = t /\ spin' = 0
    /\ UNCHANGED <<kind, waitque, used, queue, count, semVars, then>>

\* test_and_set(&mutex->lock, 0) finds 1.
Take(t) ==
    /\ lock = 1
    /\ Go(t, "lock", then[t])
    /\ lock' = 0 /\ owner' = t /\ spin' = 0
    /\ UNCHANGED <<kind, waitque, used, queue, count, semVars, then>>

\* It finds 0: waitque_wait clears the spin lock and blocks in one step, and
\* the loop starts again after the wakeup.
WaitForMutex(t) ==
    /\ lock = 0
    /\ Go(t, "lock", "spin_lock")
    /\ spin' = 0
    /\ queue' = [queue EXCEPT ![waitque] = Append(@, t)]
    /\ UNCHANGED <<kind, waitque, used, lock, owner, count, semVars, then>>

\* An ERRORCHECK or RECURSIVE mutex that has an owner: EDEADLK or EPERM, or one
\* level more.  The thread is where it was before the call.
Refuse(t, section) ==
    /\ owner # NoThread
    /\ count' = IF kind = "RECURSIVE" /\ owner = t THEN count + 1 ELSE count
    /\ Go(t, section, IF owner = t THEN "in" ELSE "out")
    /\ spin' = 0
    /\ UNCHANGED <<kind, waitque, used, queue, lock, owner, semVars, then>>

LockSection(t) ==
    \/ (Normal \/ owner = NoThread) /\ (Take(t) \/ WaitForMutex(t))
    \/ ~ Normal /\ Refuse(t, "lock")

\* pthread_mutex_trylock of a NORMAL mutex: taken, or EBUSY.  A mutex of the
\* other kinds without an owner: the spin lock is taken a second time, for ever.
TrySection(t) ==
    \/ /\ Normal
       /\ Go(t, "trylock", IF lock = 1 THEN "in" ELSE "out")
       /\ lock' = 0 /\ owner' = IF lock = 1 THEN t ELSE owner
       /\ spin' = 0
       /\ UNCHANGED <<kind, waitque, used, queue, count, semVars, then>>
    \/ ~ Normal /\ Refuse(t, "trylock")
    \/ /\ ~ Normal /\ owner = NoThread
       /\ Go(t, "trylock", "stuck")
       /\ UNCHANGED <<kind, mutexVars, semVars, then>>

\* Mutant: the lock is free again, and nobody hears of it.
ReleaseQuietly(t) ==
    /\ lock' = 1 /\ owner' = NoThread
    /\ UNCHANGED <<queue, count>>

\* lock = 1, owner = 0, waitque_wake; a RECURSIVE mutex comes down one level.
Release(t) ==
    IF kind = "RECURSIVE" /\ count > 0
    THEN count' = count - 1 /\ UNCHANGED <<lock, owner, queue>>
    ELSE /\ lock' = 1 /\ owner' = NoThread
         /\ queue' = [queue EXCEPT ![waitque] = sys_waitque_wake(@)]
         /\ UNCHANGED count

\* pthread_mutex_unlock by the holder.
UnlockSection(t) ==
    /\ Go(t, "unlock", IF kind = "RECURSIVE" /\ count > 0 THEN "in" ELSE then[t])
    /\ Release(t)
    /\ spin' = 0
    /\ UNCHANGED <<kind, waitque, used, semVars, then>>

Mutex(t) ==
    \/ \E entry \in {"spin_lock", "spin_unlock"} : Create(t, entry)
    \/ MutexSpin(t, "spin_lock", "lock") \/ LockSection(t)
    \/ MutexSpin(t, "spin_try", "trylock") \/ TrySection(t)
    \/ MutexSpin(t, "spin_unlock", "unlock") \/ UnlockSection(t)

\* The thread goes from here into pthread_mutex_lock or pthread_mutex_unlock,
\* and from there to next.
Call(t, here, entry, next) ==
    /\ Go(t, here, Enter(entry))
    /\ then' = [then EXCEPT ![t] = next]

\* A thread that uses the mutex itself.
UseMutex(t) ==
    /\ ~ IsSem
    /\ \/ Call(t, "out", "spin_lock", "in")
       \/ Go(t, "out", "spin_try") /\ UNCHANGED then
       \/ Call(t, "in", "spin_unlock", "out")
       \/ kind # "NORMAL" /\ count < MaxNest /\ Call(t, "in", "spin_lock", "in")
    /\ UNCHANGED <<kind, mutexVars, semVars>>

-----------------------------------------------------------------------------
(* sem_wait, sem_timedwait, sem_trywait, sem_post, with the condition      *)
(* variable.  "wait", "timed" and "try" are the three ways down.           *)

Way == IF kind = "TIMED" THEN {"wait", "timed", "try"} ELSE {"wait", "try"}

\* In pthread_cond_wait or pthread_cond_timedwait, the mutex unlocked.
Cond(way) ==
    CASE way = "wait" -> "cond_wait" [] way = "timed" -> "cond_timed" [] way = "try" -> "cond_try"

UseSem(t) ==
    /\ IsSem
    /\ \/ \E way \in Way : Call(t, "out", "spin_lock", way)
       \/ value < MaxValue /\ Call(t, "out", "spin_lock", "post")
    /\ UNCHANGED <<kind, mutexVars, semVars>>

\* --sem->value, and unlock.  A timed wait that comes back from the condition
\* variable without an error ("woken") does so whatever the value is.
Down(t, here) ==
    /\ here \in Way => value > 0
    /\ Call(t, here, "spin_unlock", "out")
    /\ value' = value - 1
    /\ UNCHANGED <<kind, mutexVars, cspin, cqueue>>

\* Nothing there: pthread_cond_wait takes the spin lock of the condition
\* variable before it unlocks the mutex ...
CondSpin(t, way) ==
    /\ value <= 0 /\ cspin = 0
    /\ Call(t, way, "spin_unlock", Cond(way))
    /\ cspin' = 1
    /\ UNCHANGED <<kind, mutexVars, cqueue, value>>

\* ... and waitque_wait clears it and blocks; then the mutex is locked again.
\* sem_wait looks again, sem_timedwait does not.  A wait without time leaves
\* the queue at once with ETIMEDOUT.
CondWait(t, way) ==
    /\ Call(t, Cond(way), "spin_lock",
            CASE way = "wait" -> "wait" [] way = "timed" -> "woken" [] way = "try" -> "failed")
    /\ cspin' = 0
    /\ cqueue' = IF way = "try" THEN cqueue ELSE Append(cqueue, t)
    /\ UNCHANGED <<kind, mutexVars, value>>

\* sem_timedwait with ETIMEDOUT only unlocks.
Failed(t) ==
    /\ Call(t, "failed", "spin_unlock", "out")
    /\ UNCHANGED <<kind, mutexVars, semVars>>

\* ++sem->value, and unlock.
Post(t) ==
    /\ Call(t, "post", "spin_unlock", "posted")
    /\ value' = value + 1
    /\ UNCHANGED <<kind, mutexVars, cspin, cqueue>>

\* pthread_cond_signal: its spin lock, waitque_wake, and the release.
SignalSpin(t) ==
    /\ cspin = 0
    /\ Go(t, "posted", "signal")
    /\ cspin' = 1
    /\ UNCHANGED <<kind, mutexVars, cqueue, value, then>>

Signal(t) ==
    /\ Go(t, "signal", "out")
    /\ cqueue' = sys_waitque_wake(cqueue)
    /\ cspin' = 0
    /\ UNCHANGED <<kind, mutexVars, value, then>>

Semaphore(t) ==
    \/ \E here \in Way \cup {"woken"} : Down(t, here)
    \/ \E way \in Way : CondSpin(t, way) \/ CondWait(t, way)
    \/ Failed(t) \/ Post(t) \/ SignalSpin(t) \/ Signal(t)

-----------------------------------------------------------------------------
Next == \E t \in Thread : UseMutex(t) \/ UseSem(t) \/ Mutex(t) \/ Semaphore(t)

Spec == Init /\ [][Next]_vars

-----------------------------------------------------------------------------
(* Properties.                                                             *)

\* The mutex of the library implements the abstract lock, for all three kinds.
L == INSTANCE Lock
         WITH Task <- Thread, Name <- {"mutex"}, NoTask <- NoThread,
              owner <- [m \in {"mutex"} |-> owner]

ImplementsLock == L!LockSpec

\* Nobody sleeps on a mutex that is free unless a thread that will wake it or
\* take the mutex itself is awake in the lock or unlock function; unless two
\* threads created the wait queue at once, when the sleeper may be in the queue
\* that nobody knows any more.
InLockCode == {t \in Thread : ~ Asleep(t) /\ pc[t] \in {"spin_lock", "lock", "unlock"}}

MutexForgetsNobody ==
    lock = 1 /\ Cardinality(used) = 1 /\ (\E h \in Handle : queue[h] # << >>)
        => InLockCode # {}

\* As long as somebody sleeps on the semaphore, every unit of it is on its way:
\* there are as many threads that have posted and not signalled yet, or that
\* will look at the value again, as units.
OnTheWay ==
    {t \in Thread :
        \/ then[t] = "posted" /\ pc[t] # "out"
        \/ ~ Contains(cqueue, t) /\ then[t] \in Way \cup {"woken"}}

EveryUnitAnnounced == cqueue # << >> => value <= Cardinality(OnTheWay)

\* sem_wait and sem_trywait never take a unit that is not there.
NoOverdraw == kind # "TIMED" => value >= 0

\* No wakeup of the mutex or of the semaphore is lost, and none makes up a unit.
ForgetsNobody == MutexForgetsNobody /\ EveryUnitAnnounced /\ NoOverdraw
=============================================================================
