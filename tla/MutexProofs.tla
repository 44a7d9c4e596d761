---------------------------- MODULE MutexProofs ----------------------------
(***************************************************************************)
(* Proofs about the mutex (module Mutex), for any sets of tasks and        *)
(* mutexes, and about the reader-writer lock (RWLock) built on three of    *)
(* them, for any number of tasks and each of its policies, with every step *)
(* of the mutexes inside.                                                  *)
(*                                                                         *)
(* Mutual exclusion alone is not inductive: LockTake looks at count, so    *)
(* count has to say whether somebody holds the mutex; mutex_unlock trusts  *)
(* waiters before it takes the head of the list, so the counter, the list, *)
(* the sleeping tasks and the pending wakeups have to agree.  They do so   *)
(* until a trigger wakes a linked process; exclusion does not rest on them *)
(* and is proved with the lists torn as well.                              *)
(*                                                                         *)
(* rw_mutex belongs to a writer or to the readers together: the first      *)
(* reader locks it, the last one unlocks it, whichever task that is.  That *)
(* no writer is inside while readers are is not inductive; the invariant   *)
(* says at every instruction of the lock and unlock functions who has      *)
(* count_mutex, for whom rw_mutex is locked, and who is counted.           *)
(***************************************************************************)
EXTENDS RWLock, SequenceTheorems, FiniteSetTheorems, TLAPS

-----------------------------------------------------------------------------
(* The mutex.                                                              *)

\* The formula of NoLostWakeup.
Awaited ==
    \A m \in Mutex : count[m] = 0 /\ wait_list[m] # << >> =>
        \E t \in Task : locking[t] = m /\ (t \notin asleep \/ \E x \in Task : wakes[x] = t)

\* What holds of the lists while none is torn.
Sound ==
    /\ TypeOK
    /\ WaitersCounted
    /\ LinkedAreAsleep
    /\ WokenAreAsleep
    /\ AsleepAccounted
    /\ Awaited

IInv ==
    /\ TypeOK
    /\ MutualExclusion
    /\ CountIffHeld
    /\ torn \/ Sound

\* Everything is free at the start.
LEMMA InitInv == MutexInit => IInv
  <1> SUFFICES ASSUME MutexInit PROVE IInv
    OBVIOUS
  <1>1. TypeOK /\ MutualExclusion /\ CountIffHeld
    <2>1. torn \in BOOLEAN
      BY DEF MutexInit
    <2>2. /\ count \in [Mutex -> {0, 1}] /\ wait_list \in [Mutex -> Seq(Task)]
          /\ waiters \in [Mutex -> Nat] /\ asleep \in SUBSET Task
          /\ locking \in [Task -> Mutex \cup {NoMutex}]
          /\ held \in [Task -> SUBSET Mutex] /\ wakes \in [Task -> Task \cup {NoTask}]
      BY DEF MutexInit
    <2> QED BY <2>1, <2>2 DEF MutexInit, TypeOK, MutualExclusion, CountIffHeld
  <1>2. WaitersCounted /\ LinkedAreAsleep /\ WokenAreAsleep /\ AsleepAccounted /\ Awaited
    BY MutexAssumption DEF MutexInit, WaitersCounted, LinkedAreAsleep, WokenAreAsleep,
       AsleepAccounted, Awaited
  <1> QED BY <1>1, <1>2 DEF IInv, Sound

\* The invariant after a step: it is enough to look at the lists that are whole.
LEMMA ListsLeft ==
    ASSUME IInv, TypeOK', MutualExclusion', CountIffHeld',
           torn => torn', Sound /\ ~ torn /\ ~ torn' => Sound'
    PROVE  IInv'
  BY DEF IInv

\* Entering the loop disturbs nothing: the caller is awake.
LEMMA CallLockInv ==
    ASSUME IInv, NEW t \in Task, NEW m \in Mutex, CallLock(t, m) PROVE IInv'
  <1> USE MutexAssumption
  <1>1. /\ t \notin asleep /\ locking[t] = NoMutex
        /\ locking' = [locking EXCEPT ![t] = m]
        /\ UNCHANGED <<count, wait_list, waiters, asleep, held, wakes, torn>>
    BY DEF CallLock, Outside
  <1>2. TypeOK'
    BY <1>1 DEF IInv, TypeOK
  <1>3. MutualExclusion' /\ CountIffHeld'
    BY <1>1 DEF IInv, MutualExclusion, CountIffHeld
  <1>4. ASSUME Sound PROVE Sound'
    <2>1. WaitersCounted' /\ AsleepAccounted'
      BY <1>1, <1>4 DEF Sound, WaitersCounted, AsleepAccounted, Linked
    <2>2. LinkedAreAsleep'
      BY <1>1, <1>4 DEF Sound, TypeOK, LinkedAreAsleep
    <2>3. WokenAreAsleep'
      BY <1>1, <1>4 DEF Sound, TypeOK, WokenAreAsleep, Linked
    <2>4. Awaited'
      <3> SUFFICES ASSUME NEW n \in Mutex, count[n] = 0, wait_list[n] # << >>
                   PROVE  \E x \in Task : /\ locking'[x] = n
                                          /\ x \notin asleep \/ \E y \in Task : wakes[y] = x
        BY <1>1 DEF Awaited
      <3>1. PICK x \in Task : /\ locking[x] = n
                              /\ x \notin asleep \/ \E y \in Task : wakes[y] = x
        BY <1>4 DEF Sound, Awaited
      <3>2. locking'[x] = n
        BY <3>1, <1>1, <1>4 DEF Sound, TypeOK
      <3> QED BY <3>1, <3>2
    <2> QED BY <1>2, <2>1, <2>2, <2>3, <2>4 DEF Sound
  <1> QED BY <1>1, <1>2, <1>3, <1>4, ListsLeft

\* What LockTake and mutex_try_lock share: t, awake, gets a free mutex.
LEMMA TakeInv ==
    ASSUME IInv, NEW t \in Task, NEW m \in Mutex,
           t \notin asleep, count[m] = 0,
           count' = [count EXCEPT ![m] = 1],
           held' = [held EXCEPT ![t] = @ \cup {m}],
           \/ locking[t] = m /\ locking' = [locking EXCEPT ![t] = NoMutex]
           \/ locking[t] = NoMutex /\ locking' = locking,
           UNCHANGED <<wait_list, waiters, asleep, wakes, torn>>
    PROVE  IInv'
  <1> USE MutexAssumption
  <1>1. TypeOK'
    BY DEF IInv, TypeOK
  <1>2. \A x \in Task : m \notin held[x]
    BY DEF IInv, TypeOK, CountIffHeld
  <1>3. MutualExclusion'
    BY <1>2 DEF IInv, TypeOK, MutualExclusion
  <1>4. CountIffHeld'
    BY <1>2 DEF IInv, TypeOK, CountIffHeld
  <1>5. ASSUME Sound PROVE Sound'
    <2>1. WaitersCounted' /\ AsleepAccounted'
      BY <1>5 DEF Sound, TypeOK, WaitersCounted, AsleepAccounted, Linked
    <2>2. LinkedAreAsleep'
      BY <1>5 DEF Sound, TypeOK, LinkedAreAsleep
    <2>3. WokenAreAsleep'
      BY <1>5 DEF Sound, TypeOK, WokenAreAsleep, Linked
    <2>4. Awaited'
      BY <1>5 DEF Sound, TypeOK, Awaited
    <2> QED BY <1>1, <2>1, <2>2, <2>3, <2>4 DEF Sound
  <1> QED BY <1>1, <1>3, <1>4, <1>5, ListsLeft

\* The task that goes to sleep was linked nowhere, being awake.
LEMMA LockWaitInv ==
    ASSUME IInv, NEW t \in Task, NEW m \in Mutex, LockWait(t, m) PROVE IInv'
  <1> USE MutexAssumption
  <1> DEFINE old == wait_list[m]
  <1>1. /\ t \notin asleep /\ locking[t] = m /\ count[m] = 1
        /\ waiters' = [waiters EXCEPT ![m] = @ + 1]
        /\ wait_list' = [wait_list EXCEPT ![m] = IF torn THEN @ ELSE Append(@, t)]
        /\ asleep' = asleep \cup {t}
        /\ UNCHANGED <<count, locking, held, wakes, torn>>
    BY DEF LockWait
  <1>2. old \in Seq(Task)
    BY DEF IInv, TypeOK
  <1>3. /\ Len(Append(old, t)) = Len(old) + 1
        /\ \A i \in 1 .. Len(old) : Append(old, t)[i] = old[i]
        /\ Append(old, t)[Len(old) + 1] = t
        /\ Append(old, t) \in Seq(Task)
    BY <1>2
  <1>6. TypeOK'
    BY <1>1, <1>3 DEF IInv, TypeOK
  <1>7. MutualExclusion' /\ CountIffHeld'
    BY <1>1 DEF IInv, MutualExclusion, CountIffHeld
  <1> SUFFICES ASSUME Sound, ~ torn, ~ torn' PROVE Sound'
    BY <1>1, <1>6, <1>7, ListsLeft
  <1>4. /\ wait_list'[m] = Append(old, t)
        /\ \A n \in Mutex : n # m => wait_list'[n] = wait_list[n]
    BY <1>1 DEF Sound, TypeOK
  <1>5. \A n \in Mutex : \A i \in 1 .. Len(wait_list[n]) : wait_list[n][i] # t
    BY <1>1 DEF Sound, LinkedAreAsleep
  <1>8. WaitersCounted'
    BY <1>1, <1>3, <1>4 DEF Sound, TypeOK, WaitersCounted
  <1>9. LinkedAreAsleep'
    <2> SUFFICES ASSUME NEW n \in Mutex, NEW i \in 1 .. Len(wait_list'[n])
                 PROVE  /\ wait_list'[n][i] \in asleep'
                        /\ locking'[wait_list'[n][i]] = n
                        /\ \A j \in 1 .. Len(wait_list'[n]) :
                               wait_list'[n][i] = wait_list'[n][j] => i = j
      BY DEF LinkedAreAsleep
    <2>1. CASE n # m
      BY <2>1, <1>1, <1>4 DEF Sound, LinkedAreAsleep
    <2>2. CASE n = m /\ i \in 1 .. Len(old)
      BY <2>2, <1>1, <1>2, <1>3, <1>4, <1>5 DEF Sound, LinkedAreAsleep
    <2>3. CASE n = m /\ i = Len(old) + 1
      BY <2>3, <1>1, <1>2, <1>3, <1>4, <1>5 DEF Sound, LinkedAreAsleep
    <2> QED BY <2>1, <2>2, <2>3, <1>2, <1>3, <1>4
  <1>10. WokenAreAsleep'
    <2> SUFFICES ASSUME NEW x \in Task, wakes[x] \in Task \ Process
                 PROVE  /\ wakes[x] \in asleep'
                        /\ locking'[wakes[x]] # NoMutex
                        /\ \A n \in Mutex : \A i \in 1 .. Len(wait_list'[n]) :
                               wait_list'[n][i] # wakes[x]
                        /\ \A y \in Task : wakes[y] = wakes[x] => y = x
      BY <1>1 DEF WokenAreAsleep, Linked
    <2>1. wakes[x] \in asleep
      BY DEF Sound, WokenAreAsleep
    <2>2. ASSUME NEW n \in Mutex, NEW i \in 1 .. Len(wait_list'[n])
          PROVE  wait_list'[n][i] # wakes[x]
      <3>1. CASE n # m
        BY <3>1, <1>4 DEF Sound, WokenAreAsleep, Linked
      <3>2. CASE n = m /\ i \in 1 .. Len(old)
        BY <3>2, <1>3, <1>4 DEF Sound, WokenAreAsleep, Linked
      <3>3. CASE n = m /\ i = Len(old) + 1
        BY <3>3, <2>1, <1>1, <1>3, <1>4
      <3> QED BY <3>1, <3>2, <3>3, <1>2, <1>3, <1>4
    <2> QED BY <2>1, <2>2, <1>1 DEF Sound, WokenAreAsleep
  <1>11. AsleepAccounted'
    <2> SUFFICES ASSUME NEW x \in asleep'
                 PROVE  \/ \E n \in Mutex : \E i \in 1 .. Len(wait_list'[n]) : wait_list'[n][i] = x
                        \/ \E y \in Task : wakes'[y] = x
      BY DEF AsleepAccounted, Linked
    <2>1. CASE x = t
      <3>1. Len(old) + 1 \in 1 .. Len(wait_list'[m]) /\ wait_list'[m][Len(old) + 1] = x
        BY <2>1, <1>2, <1>3, <1>4
      <3> QED BY <3>1
    <2>2. CASE x \in asleep
      <3>1. ASSUME NEW n \in Mutex, NEW i \in 1 .. Len(wait_list[n]), wait_list[n][i] = x
            PROVE  i \in 1 .. Len(wait_list'[n]) /\ wait_list'[n][i] = x
        <4>1. CASE n # m
          BY <4>1, <3>1, <1>4
        <4>2. CASE n = m
          BY <4>2, <3>1, <1>2, <1>3, <1>4
        <4> QED BY <4>1, <4>2
      <3> QED BY <3>1, <2>2, <1>1 DEF Sound, AsleepAccounted, Linked
    <2> QED BY <2>1, <2>2, <1>1
  <1>12. Awaited'
    BY <1>1, <1>4 DEF Sound, Awaited
  <1> QED BY <1>6, <1>8, <1>9, <1>10, <1>11, <1>12 DEF Sound

\* Unlocking takes the head off the list, which is asleep and linked nowhere
\* else, and leaves its wakeup pending; it need not be the holder who unlocks.
LEMMA UnlockInv ==
    ASSUME IInv, NEW t \in Task, NEW m \in Mutex, mutex_unlock(t, m) PROVE IInv'
  <1> USE MutexAssumption
  <1> DEFINE old == wait_list[m]
  <1>1. /\ t \notin asleep /\ locking[t] = NoMutex /\ wakes[t] = NoTask
        /\ count' = [count EXCEPT ![m] = 0]
        /\ held' = [x \in Task |-> held[x] \ {m}]
        /\ UNCHANGED <<asleep, locking, torn>>
    BY DEF mutex_unlock, Outside
  <1>3. MutualExclusion'
    BY <1>1 DEF IInv, MutualExclusion
  <1>4. CountIffHeld'
    BY <1>1 DEF IInv, TypeOK, CountIffHeld
  <1>7. TypeOK'
    <2>1. /\ count' \in [Mutex -> {0, 1}] /\ held' \in [Task -> SUBSET Mutex]
          /\ asleep' \in SUBSET Task /\ locking' \in [Task -> Mutex \cup {NoMutex}]
      BY <1>1 DEF IInv, TypeOK
    <2>2. torn' \in BOOLEAN
      BY <1>1 DEF IInv, TypeOK
    <2>3. CASE waiters[m] = 0
      <3>1. UNCHANGED <<wait_list, waiters, wakes>>
        BY <2>3 DEF mutex_unlock
      <3> QED BY <2>1, <2>2, <3>1 DEF IInv, TypeOK
    <2>4. CASE waiters[m] # 0
      <3>1. PICK h \in FirstOwner(m) : wakes' = [wakes EXCEPT ![t] = h]
        BY <2>4 DEF mutex_unlock
      <3>2. /\ wait_list' = [wait_list EXCEPT ![m] = IF torn THEN @ ELSE Tail(@)]
            /\ waiters' = [waiters EXCEPT ![m] = @ - 1]
        BY <2>4 DEF mutex_unlock
      <3>3. waiters[m] - 1 \in Nat /\ old \in Seq(Task)
        BY <2>4 DEF IInv, TypeOK
      <3>4. h \in Task \cup {NoTask} /\ (torn \/ Tail(old) \in Seq(Task))
        <4>1. CASE torn
          BY <3>1, <4>1 DEF FirstOwner
        <4>2. CASE ~ torn
          <5>1. old # << >>
            <6>1. waiters[m] = Len(old)
              BY <4>2 DEF IInv, Sound, WaitersCounted
            <6> QED BY <6>1, <2>4
          <5> QED BY <3>1, <3>3, <4>2, <5>1 DEF FirstOwner
        <4> QED BY <4>1, <4>2
      <3>5. wait_list' \in [Mutex -> Seq(Task)]
        BY <3>2, <3>3, <3>4 DEF IInv, TypeOK
      <3>6. waiters' \in [Mutex -> Nat] /\ wakes' \in [Task -> Task \cup {NoTask}]
        BY <3>1, <3>2, <3>3, <3>4 DEF IInv, TypeOK
      <3> QED BY <2>1, <2>2, <3>5, <3>6 DEF TypeOK
    <2> QED BY <2>3, <2>4
  <1> SUFFICES ASSUME Sound, ~ torn, ~ torn' PROVE Sound'
    BY <1>1, <1>3, <1>4, <1>7, ListsLeft
  <1>2. m \in Mutex /\ old \in Seq(Task) /\ Len(old) \in Nat /\ waiters[m] = Len(old)
    BY DEF Sound, TypeOK, WaitersCounted
  <1>5. CASE waiters[m] = 0
    <2>1. UNCHANGED <<wait_list, waiters, wakes>>
      BY <1>5 DEF mutex_unlock
    <2>2. old = << >>
      BY <1>2, <1>5, EmptySeq
    <2>4. WaitersCounted' /\ LinkedAreAsleep'
      BY <2>1, <1>1 DEF Sound, WaitersCounted, LinkedAreAsleep
    <2>5. WokenAreAsleep' /\ AsleepAccounted'
      BY <2>1, <1>1 DEF Sound, WokenAreAsleep, AsleepAccounted, Linked
    <2>6. Awaited'
      BY <2>1, <2>2, <1>1, <1>2 DEF Sound, TypeOK, Awaited
    <2> QED BY <2>4, <2>5, <2>6, <1>7 DEF Sound
  <1>6. CASE waiters[m] # 0
    <2> DEFINE h == Head(old)
    <2>1. /\ wakes' = [wakes EXCEPT ![t] = h]
          /\ wait_list' = [wait_list EXCEPT ![m] = Tail(@)]
          /\ waiters' = [waiters EXCEPT ![m] = @ - 1]
      BY <1>6 DEF mutex_unlock, FirstOwner
    <2>2. old # << >>
      BY <1>2, <1>6
    <2>3. /\ Len(Tail(old)) = Len(old) - 1
          /\ Tail(old) \in Seq(Task)
          /\ \A i \in 1 .. Len(Tail(old)) : Tail(old)[i] = old[i + 1]
          /\ h = old[1] /\ h \in Task /\ 1 \in 1 .. Len(old)
      BY <2>2, <1>2
    <2>4. /\ wait_list'[m] = Tail(old)
          /\ \A n \in Mutex : n # m => wait_list'[n] = wait_list[n]
      BY <2>1, <1>2 DEF Sound, TypeOK
    <2>5. /\ wakes'[t] = h
          /\ \A x \in Task : x # t => wakes'[x] = wakes[x]
      BY <2>1 DEF Sound, TypeOK
    <2>6. h \in asleep /\ locking[h] = m
      BY <2>3, <1>2 DEF Sound, LinkedAreAsleep
    <2>7. h \notin Process => \A x \in Task : wakes[x] # h
      BY <2>3, <1>2 DEF Sound, WokenAreAsleep, Linked
    <2>9. WaitersCounted'
      BY <2>1, <2>3, <2>4, <1>2 DEF Sound, TypeOK, WaitersCounted
    <2>10. \A n \in Mutex : \A i \in 1 .. Len(wait_list'[n]) :
              \E j \in 1 .. Len(wait_list[n]) :
                  wait_list'[n][i] = wait_list[n][j] /\ j = IF n = m THEN i + 1 ELSE i
      <3> SUFFICES ASSUME NEW n \in Mutex, NEW i \in 1 .. Len(wait_list'[n])
                   PROVE \E j \in 1 .. Len(wait_list[n]) :
                            wait_list'[n][i] = wait_list[n][j] /\ j = IF n = m THEN i + 1 ELSE i
        OBVIOUS
      <3>1. CASE n # m
        BY <3>1, <2>4
      <3>2. CASE n = m
        <4>1. i + 1 \in 1 .. Len(old) /\ wait_list'[n][i] = old[i + 1]
          BY <3>2, <2>3, <2>4, <1>2
        <4> QED BY <4>1, <3>2
      <3> QED BY <3>1, <3>2
    <2>11. LinkedAreAsleep'
      <3> SUFFICES ASSUME NEW n \in Mutex, NEW i \in 1 .. Len(wait_list'[n])
                   PROVE  /\ wait_list'[n][i] \in asleep
                          /\ locking[wait_list'[n][i]] = n
                          /\ \A j \in 1 .. Len(wait_list'[n]) :
                                 wait_list'[n][i] = wait_list'[n][j] => i = j
        BY <1>1 DEF LinkedAreAsleep
      <3>1. wait_list'[n][i] \in asleep /\ locking[wait_list'[n][i]] = n
        BY <2>10 DEF Sound, LinkedAreAsleep
      <3>2. ASSUME NEW j \in 1 .. Len(wait_list'[n]), wait_list'[n][i] = wait_list'[n][j]
            PROVE  i = j
        <4>1. PICK k \in 1 .. Len(wait_list[n]) :
                 wait_list'[n][i] = wait_list[n][k] /\ k = IF n = m THEN i + 1 ELSE i
          BY <2>10
        <4>2. PICK l \in 1 .. Len(wait_list[n]) :
                 wait_list'[n][j] = wait_list[n][l] /\ l = IF n = m THEN j + 1 ELSE j
          BY <2>10
        <4>3. wait_list[n][k] = wait_list[n][l]
          BY <3>2, <4>1, <4>2
        <4>4. k = l
          BY <4>3 DEF Sound, LinkedAreAsleep
        <4> QED BY <4>1, <4>2, <4>4
      <3> QED BY <3>1, <3>2
    <2>12. \A n \in Mutex : \A i \in 1 .. Len(wait_list'[n]) : wait_list'[n][i] # h
      <3> SUFFICES ASSUME NEW n \in Mutex, NEW i \in 1 .. Len(wait_list'[n]),
                          wait_list'[n][i] = h
                   PROVE  FALSE
        OBVIOUS
      <3>1. PICK j \in 1 .. Len(wait_list[n]) :
               wait_list'[n][i] = wait_list[n][j] /\ j = IF n = m THEN i + 1 ELSE i
        BY <2>10
      <3>2. n = m
        BY <3>1, <2>6 DEF Sound, LinkedAreAsleep
      <3>3. j = 1
        BY <3>1, <3>2, <2>3, <1>2 DEF Sound, LinkedAreAsleep
      <3> QED BY <3>1, <3>2, <3>3
    <2>13. WokenAreAsleep'
      <3> SUFFICES ASSUME NEW x \in Task, wakes'[x] \in Task \ Process
                   PROVE  /\ wakes'[x] \in asleep
                          /\ locking[wakes'[x]] # NoMutex
                          /\ \A n \in Mutex : \A i \in 1 .. Len(wait_list'[n]) :
                                 wait_list'[n][i] # wakes'[x]
                          /\ \A y \in Task : wakes'[y] = wakes'[x] => y = x
        BY <1>1 DEF WokenAreAsleep, Linked
      <3>1. CASE x = t
        BY <3>1, <2>5, <2>6, <2>7, <2>12, <1>2
      <3>2. CASE x # t
        <4>1. wakes'[x] = wakes[x] /\ wakes[x] # h
          BY <3>2, <2>5, <2>7
        <4>2. wakes[x] \in asleep /\ locking[wakes[x]] # NoMutex
          BY <4>1 DEF Sound, WokenAreAsleep
        <4>3. \A n \in Mutex : \A i \in 1 .. Len(wait_list'[n]) : wait_list'[n][i] # wakes[x]
          <5>1. \A n \in Mutex : \A j \in 1 .. Len(wait_list[n]) : wait_list[n][j] # wakes[x]
            BY <4>1 DEF Sound, WokenAreAsleep, Linked
          <5> QED BY <5>1, <2>10
        <4>4. \A y \in Task : wakes'[y] = wakes[x] => y = x
          BY <4>1, <2>5 DEF Sound, WokenAreAsleep
        <4> QED BY <4>1, <4>2, <4>3, <4>4
      <3> QED BY <3>1, <3>2
    <2>14. AsleepAccounted'
      <3> SUFFICES ASSUME NEW x \in asleep
                   PROVE  \/ \E n \in Mutex : \E i \in 1 .. Len(wait_list'[n]) : wait_list'[n][i] = x
                          \/ \E y \in Task : wakes'[y] = x
        BY <1>1 DEF AsleepAccounted, Linked
      <3>1. CASE \E y \in Task : wakes[y] = x
        <4>1. PICK y \in Task : wakes[y] = x
          BY <3>1
        <4>2. x # NoTask
          BY DEF Sound, TypeOK
        <4>3. y # t
          BY <4>1, <4>2, <1>1
        <4> QED BY <4>1, <4>3, <2>5
      <3>2. CASE \E n \in Mutex : \E i \in 1 .. Len(wait_list[n]) : wait_list[n][i] = x
        <4>0. PICK n \in Mutex : \E i \in 1 .. Len(wait_list[n]) : wait_list[n][i] = x
          BY <3>2
        <4>1. PICK i \in 1 .. Len(wait_list[n]) : wait_list[n][i] = x
          BY <4>0
        <4>2. CASE n # m
          BY <4>1, <4>2, <2>4
        <4>3. CASE n = m /\ i = 1
          BY <4>1, <4>3, <2>3, <2>5
        <4>4. CASE n = m /\ i # 1
          <5>1. i - 1 \in 1 .. Len(wait_list'[m]) /\ wait_list'[m][i - 1] = x
            BY <4>1, <4>4, <2>3, <2>4, <1>2
          <5> QED BY <5>1, <1>2
        <4> QED BY <4>2, <4>3, <4>4
      <3> QED BY <3>1, <3>2 DEF Sound, AsleepAccounted, Linked
    <2>15. Awaited'
      <3> SUFFICES ASSUME NEW n \in Mutex, count'[n] = 0, wait_list'[n] # << >>
                   PROVE  \E x \in Task : /\ locking[x] = n
                                          /\ x \notin asleep \/ \E y \in Task : wakes'[y] = x
        BY <1>1 DEF Awaited
      <3>1. CASE n = m
        BY <3>1, <2>3, <2>5, <2>6
      <3>2. CASE n # m
        <4>1. count[n] = 0 /\ wait_list[n] # << >>
          BY <3>2, <1>1, <2>4 DEF Sound, TypeOK
        <4>2. PICK x \in Task : /\ locking[x] = n
                                /\ x \notin asleep \/ \E y \in Task : wakes[y] = x
          BY <4>1 DEF Sound, Awaited
        <4>3. ASSUME NEW y \in Task, wakes[y] = x PROVE wakes'[y] = x
          BY <4>3, <1>1, <2>5
        <4> QED BY <4>2, <4>3
      <3> QED BY <3>1, <3>2
    <2> QED BY <2>9, <2>11, <2>13, <2>14, <2>15, <1>7 DEF Sound
  <1> QED BY <1>5, <1>6

\* A task is made READY: if it was linked, a list is torn.
LEMMA WakeUpInv ==
    ASSUME IInv, NEW v, WakeUp(v), UNCHANGED <<count, waiters, locking, held>>,
           wakes' \in [Task -> Task \cup {NoTask}],
           \A x \in Task : wakes'[x] # wakes[x] => wakes[x] = v /\ wakes'[x] = NoTask,
           ~ torn /\ ~ Linked(v) /\ v \notin Process =>
               \A x \in Task : wakes[x] = v => wakes'[x] = NoTask
    PROVE  IInv'
  <1> USE MutexAssumption
  <1>1. /\ asleep' = asleep \ {v}
        /\ torn' \in BOOLEAN
        /\ torn' <=> torn \/ Linked(v)
        /\ wait_list' = IF torn \/ Linked(v) THEN [m \in Mutex |-> << >>] ELSE wait_list
    BY DEF WakeUp
  <1>2. TypeOK'
    <2>1. wait_list' \in [Mutex -> Seq(Task)]
      BY <1>1 DEF IInv, TypeOK
    <2>2. asleep' \in SUBSET Task
      BY <1>1 DEF IInv, TypeOK
    <2> QED BY <1>1, <2>1, <2>2 DEF IInv, TypeOK
  <1>3. MutualExclusion' /\ CountIffHeld'
    BY DEF IInv, MutualExclusion, CountIffHeld
  <1> SUFFICES ASSUME Sound, ~ torn, ~ torn' PROVE Sound'
    BY <1>1, <1>2, <1>3, ListsLeft
  <1>4. ~ Linked(v) /\ wait_list' = wait_list
    BY <1>1
  <1>5. WaitersCounted'
    BY <1>4 DEF Sound, WaitersCounted
  <1>6. LinkedAreAsleep'
    BY <1>1, <1>4 DEF Sound, LinkedAreAsleep, Linked
  <1>7. WokenAreAsleep'
    <2> SUFFICES ASSUME NEW x \in Task, wakes'[x] \in Task \ Process
                 PROVE  /\ wakes'[x] \in asleep'
                        /\ locking[wakes'[x]] # NoMutex
                        /\ \A m \in Mutex : \A i \in 1 .. Len(wait_list[m]) :
                               wait_list[m][i] # wakes'[x]
                        /\ \A y \in Task : wakes'[y] = wakes'[x] => y = x
      BY <1>4 DEF WokenAreAsleep, Linked
    <2>1. wakes'[x] = wakes[x] /\ wakes[x] # v
      BY <1>4
    <2>2. /\ wakes[x] \in asleep /\ locking[wakes[x]] # NoMutex
          /\ \A m \in Mutex : \A i \in 1 .. Len(wait_list[m]) : wait_list[m][i] # wakes[x]
          /\ \A y \in Task : wakes[y] = wakes[x] => y = x
      BY <2>1 DEF Sound, WokenAreAsleep, Linked
    <2>3. ASSUME NEW y \in Task, wakes'[y] = wakes'[x] PROVE y = x
      <3>1. wakes[y] = wakes'[y]
        BY <2>3
      <3> QED BY <3>1, <2>1, <2>2, <2>3
    <2> QED BY <1>1, <2>1, <2>2, <2>3
  <1>8. AsleepAccounted'
    <2> SUFFICES ASSUME NEW x \in asleep, x # v
                 PROVE  Linked(x) \/ \E y \in Task : wakes'[y] = x
      BY <1>1, <1>4 DEF AsleepAccounted, Linked
    <2>1. ASSUME NEW y \in Task, wakes[y] = x PROVE wakes'[y] = x
      BY <2>1
    <2> QED BY <2>1 DEF Sound, AsleepAccounted
  <1>9. Awaited'
    <2> SUFFICES ASSUME NEW m \in Mutex, count[m] = 0, wait_list[m] # << >>
                 PROVE  \E x \in Task : /\ locking[x] = m
                                        /\ x \notin asleep' \/ \E y \in Task : wakes'[y] = x
      BY <1>4 DEF Awaited
    <2>1. PICK x \in Task : /\ locking[x] = m
                            /\ x \notin asleep \/ \E y \in Task : wakes[y] = x
      BY DEF Sound, Awaited
    <2>2. CASE x = v \/ x \notin asleep
      BY <2>1, <2>2, <1>1
    <2>3. CASE x # v /\ x \in asleep
      <3>1. PICK y \in Task : wakes[y] = x
        BY <2>1, <2>3
      <3>2. wakes'[y] = x
        BY <3>1, <2>3
      <3> QED BY <3>2, <2>1
    <2> QED BY <2>2, <2>3
  <1> QED BY <1>2, <1>5, <1>6, <1>7, <1>8, <1>9 DEF Sound

\* The pending wakeup, perhaps of a task that a trigger has woken before.
LEMMA WakeupInv ==
    ASSUME IInv, NEW t \in Task, task_wakeup(t) PROVE IInv'
  <1>1. /\ wakes[t] # NoTask /\ WakeUp(wakes[t])
        /\ wakes' = [wakes EXCEPT ![t] = NoTask]
        /\ UNCHANGED <<count, waiters, locking, held>>
    BY DEF task_wakeup
  <1>2. wakes \in [Task -> Task \cup {NoTask}]
    BY DEF IInv, TypeOK
  <1>3. /\ wakes'[t] = NoTask
        /\ \A x \in Task : x # t => wakes'[x] = wakes[x]
        /\ wakes' \in [Task -> Task \cup {NoTask}]
    BY <1>1, <1>2
  <1>4. ASSUME ~ torn, wakes[t] \notin Process, NEW x \in Task, wakes[x] = wakes[t]
        PROVE  wakes'[x] = NoTask
    <2>1. wakes[x] \in Task \ Process
      BY <1>1, <1>2, <1>4
    <2>2. x = t
      BY <1>4, <2>1 DEF IInv, Sound, WokenAreAsleep
    <2> QED BY <1>3, <2>2
  <1> QED BY <1>1, <1>3, <1>4, WakeUpInv

\* A trigger wakes a process wherever it sleeps.
LEMMA TriggerInv ==
    ASSUME IInv, NEW t \in Task, Trigger(t) PROVE IInv'
  <1>1. t \in Process /\ WakeUp(t) /\ UNCHANGED <<count, waiters, locking, held, wakes>>
    BY DEF Trigger
  <1>2. wakes' \in [Task -> Task \cup {NoTask}] /\ \A x \in Task : wakes'[x] = wakes[x]
    BY <1>1 DEF IInv, TypeOK
  <1> QED BY <1>1, <1>2, WakeUpInv

\* Every step of every task keeps the invariant.
LEMMA NextInv == IInv /\ [Next]_vars => IInv'
  <1> SUFFICES ASSUME IInv, [Next]_vars PROVE IInv'
    OBVIOUS
  <1>1. ASSUME NEW t \in Task, MutexStep(t) PROVE IInv'
    <2>1. CASE \E m \in Mutex \ held[t] : CallLock(t, m)
      BY <2>1, CallLockInv
    <2>2. ASSUME NEW m \in Mutex, LockTake(t, m) PROVE IInv'
      <3>1. /\ t \notin asleep /\ count[m] = 0
            /\ count' = [count EXCEPT ![m] = 1]
            /\ held' = [held EXCEPT ![t] = @ \cup {m}]
            /\ locking[t] = m /\ locking' = [locking EXCEPT ![t] = NoMutex]
            /\ UNCHANGED <<wait_list, waiters, asleep, wakes, torn>>
        BY <2>2 DEF LockTake
      <3> QED BY <3>1, TakeInv
    <2>3. CASE \E m \in Mutex : LockWait(t, m)
      BY <2>3, LockWaitInv
    <2>4. ASSUME NEW m \in Mutex, mutex_try_lock(t, m) PROVE IInv'
      <3>1. /\ t \notin asleep /\ count[m] = 0
            /\ count' = [count EXCEPT ![m] = 1]
            /\ held' = [held EXCEPT ![t] = @ \cup {m}]
            /\ locking[t] = NoMutex /\ locking' = locking
            /\ UNCHANGED <<wait_list, waiters, asleep, wakes, torn>>
        BY <2>4 DEF mutex_try_lock, Outside
      <3> QED BY <3>1, TakeInv
    <2>5. CASE \E m \in held[t] : mutex_unlock(t, m)
      <3>1. held[t] \subseteq Mutex
        BY DEF IInv, TypeOK
      <3> QED BY <2>5, <3>1, UnlockInv
    <2>6. CASE task_wakeup(t)
      BY <2>6, WakeupInv
    <2> QED BY <1>1, <2>1, <2>2, <2>3, <2>4, <2>5, <2>6 DEF MutexStep
  <1>2. CASE UNCHANGED vars
    <2>1. TypeOK' /\ MutualExclusion' /\ CountIffHeld' /\ torn' = torn
      BY <1>2 DEF vars, IInv, TypeOK, MutualExclusion, CountIffHeld
    <2>2. ASSUME Sound PROVE Sound'
      BY <1>2, <2>1, <2>2 DEF vars, Sound, WaitersCounted, LinkedAreAsleep, WokenAreAsleep,
         AsleepAccounted, Linked, Awaited
    <2> QED BY <2>1, <2>2, ListsLeft
  <1> QED BY <1>1, <1>2, TriggerInv DEF Next

\* IInv holds in every reachable state.
THEOREM MutexInvariant == Spec => []IInv
  BY InitInv, NextInv, PTL DEF Spec

\* No two tasks are ever inside the same mutex: mutex_lock, mutex_try_lock
\* and mutex_unlock keep each other out.
THEOREM MutexExcludes == Spec => []MutualExclusion
  <1>1. IInv => MutualExclusion
    BY DEF IInv
  <1> QED BY <1>1, MutexInvariant, PTL

\* List, waiters counter, sleeping tasks and pending wakeups agree, with
\* triggers that wake a task between its removal from the list and its wakeup,
\* and until one wakes a task that is linked.
THEOREM ListsConsistent == Spec => []WaitListConsistent
  <1>1. IInv => WaitListConsistent
    BY DEF IInv, Sound, WaitListConsistent
  <1> QED BY <1>1, MutexInvariant, PTL

\* A free mutex with waiters has somebody on the way to it, until a linked task
\* is woken.
THEOREM WakeupNotLost == Spec => []NoLostWakeup
  <1>1. IInv => NoLostWakeup
    BY DEF IInv, Sound, Awaited, NoLostWakeup
  <1> QED BY <1>1, MutexInvariant, PTL

-----------------------------------------------------------------------------
(* The mutexes implement the abstract locks.                               *)

\* The owner is the one task that holds the mutex, or nobody.
LEMMA OwnerIs ==
    ASSUME MutualExclusion, NEW m \in Mutex
    PROVE  /\ \A t \in Task : m \in held[t] => Owner[m] = t
           /\ (\A t \in Task : m \notin held[t]) => Owner[m] = NoTask
  BY DEF MutualExclusion, Owner

\* The same after a step.
LEMMA OwnerIsNext ==
    ASSUME MutualExclusion', NEW m \in Mutex
    PROVE  /\ \A t \in Task : m \in held'[t] => Owner'[m] = t
           /\ (\A t \in Task : m \notin held'[t]) => Owner'[m] = NoTask
  BY DEF MutualExclusion, Owner

\* If only m changes hands, only the owner of m changes.
LEMMA OwnerChange ==
    ASSUME MutualExclusion, MutualExclusion', NEW m \in Mutex,
           \A n \in Mutex : n # m => \A t \in Task : n \in held'[t] <=> n \in held[t]
    PROVE  Owner' = [Owner EXCEPT ![m] = Owner'[m]]
  <1>1. ASSUME NEW n \in Mutex, n # m PROVE Owner'[n] = Owner[n]
    BY <1>1 DEF Owner, MutualExclusion
  <1>2. Owner = [n \in Mutex |-> Owner[n]] /\ Owner' = [n \in Mutex |-> Owner'[n]]
    BY DEF Owner
  <1> HIDE DEF Owner
  <1> QED BY <1>1, <1>2

\* Every step of the mutexes is a step of the locks or leaves the owners alone.
LEMMA StepRefines ==
    ASSUME IInv, IInv', Next PROVE ALock!LockNext \/ UNCHANGED Owner
  <1> USE MutexAssumption
  <1>0. MutualExclusion /\ MutualExclusion' /\ TypeOK /\ CountIffHeld
    BY DEF IInv
  <1>1. PICK t \in Task : MutexStep(t) \/ Trigger(t)
    BY DEF Next
  <1>2. ASSUME NEW m \in Mutex, count[m] = 0, held' = [held EXCEPT ![t] = @ \cup {m}]
        PROVE  ALock!LockNext
    <2>1. \A x \in Task : m \notin held[x]
      BY <1>0, <1>2 DEF CountIffHeld
    <2>2. Owner[m] = NoTask
      BY <2>1, <1>0, OwnerIs
    <2>3. m \in held'[t]
      BY <1>0, <1>2 DEF TypeOK
    <2>4. Owner'[m] = t
      BY <2>3, <1>0, OwnerIsNext
    <2>5. \A n \in Mutex : n # m => \A x \in Task : n \in held'[x] <=> n \in held[x]
      BY <1>0, <1>2 DEF TypeOK
    <2>6. Owner' = [Owner EXCEPT ![m] = Owner'[m]]
      BY <2>5, <1>0, OwnerChange
    <2> QED BY <2>2, <2>4, <2>6 DEF ALock!LockNext, ALock!Acquire
  <1>3. ASSUME NEW m \in held[t], held' = [x \in Task |-> held[x] \ {m}]
        PROVE  ALock!LockNext
    <2>0. m \in Mutex
      BY <1>0, <1>3 DEF TypeOK
    <2>1. Owner[m] = t
      BY <2>0, <1>0, <1>3, OwnerIs
    <2>2. Owner'[m] = NoTask
      <3>1. \A x \in Task : m \notin held'[x]
        BY <1>3
      <3> QED BY <3>1, <2>0, <1>0, OwnerIsNext
    <2>3. \A n \in Mutex : n # m => \A x \in Task : n \in held'[x] <=> n \in held[x]
      BY <1>0, <1>3 DEF TypeOK
    <2>4. Owner' = [Owner EXCEPT ![m] = Owner'[m]]
      BY <2>0, <2>3, <1>0, OwnerChange
    <2> QED BY <2>0, <2>1, <2>2, <2>4 DEF ALock!LockNext, ALock!Release
  <1>4. ASSUME held' = held PROVE UNCHANGED Owner
    BY <1>4 DEF Owner
  <1>5. CASE \E m \in Mutex \ held[t] : CallLock(t, m)
    BY <1>4, <1>5 DEF CallLock
  <1>6. CASE \E m \in Mutex : LockTake(t, m)
    BY <1>2, <1>6 DEF LockTake
  <1>7. CASE \E m \in Mutex : LockWait(t, m)
    BY <1>4, <1>7 DEF LockWait
  <1>8. CASE \E m \in Mutex \ held[t] : mutex_try_lock(t, m)
    BY <1>2, <1>8 DEF mutex_try_lock
  <1>9. CASE \E m \in held[t] : mutex_unlock(t, m)
    BY <1>3, <1>9 DEF mutex_unlock
  <1>10. CASE task_wakeup(t)
    BY <1>4, <1>10 DEF task_wakeup
  <1>11. CASE Trigger(t)
    BY <1>4, <1>11 DEF Trigger
  <1> QED BY <1>1, <1>11, <1>5, <1>6, <1>7, <1>8, <1>9, <1>10 DEF MutexStep

\* mutexlock.c implements the abstract lock: a mutex passes from one owner to
\* the next only by being free.
THEOREM MutexIsLock == Spec => ImplementsLock
  <1>1. MutexInit => ALock!LockInit
    BY DEF MutexInit, ALock!LockInit, Owner
  <1>2. IInv /\ IInv' /\ [Next]_vars => [ALock!LockNext]_Owner
    <2>1. CASE Next
      BY <2>1, StepRefines
    <2>2. CASE UNCHANGED vars
      BY <2>2 DEF vars, Owner
    <2> QED BY <2>1, <2>2
  <1> QED BY <1>1, <1>2, MutexInvariant, PTL DEF Spec, ImplementsLock, ALock!LockSpec

-----------------------------------------------------------------------------
(* The instructions that may be left of a call.                            *)

c == "count_mutex"
rw == "rw_mutex"
w == "write_mutex"

ReadCodes ==
    {<<Lock(c), LockIfFirst, Inc, Unlock(c)>>, <<LockIfFirst, Inc, Unlock(c)>>,
     <<Inc, Unlock(c)>>, <<Unlock(c)>>,
     <<Lock(w), Lock(c), LockIfFirst, Inc, Unlock(c), Unlock(w)>>,
     <<Lock(c), LockIfFirst, Inc, Unlock(c), Unlock(w)>>,
     <<LockIfFirst, Inc, Unlock(c), Unlock(w)>>, <<Inc, Unlock(c), Unlock(w)>>,
     <<Unlock(c), Unlock(w)>>, <<Unlock(w)>>}

ReadEndCodes ==
    {<<Lock(c), Dec, UnlockIfLast, Unlock(c)>>, <<Dec, UnlockIfLast, Unlock(c)>>,
     <<UnlockIfLast, Unlock(c)>>, <<Unlock(c)>>}

WriteCodes ==
    {<<Lock(w), Lock(rw), Unlock(w)>>, <<Lock(w), Lock(rw)>>, <<Lock(rw), Unlock(w)>>,
     <<Lock(rw)>>, <<Unlock(w)>>}

WriteEndCodes == {<<Unlock(rw), Unlock(w)>>, <<Unlock(rw)>>, <<Unlock(w)>>}

Codes == {<< >>} \cup ReadCodes \cup ReadEndCodes \cup WriteCodes \cup WriteEndCodes

Modes == {"out", "rdlock", "reading", "rdunlock", "wrlock", "writing", "wrunlock"}

\* td may be left to do in mode md.
PlaceOK(md, td) ==
    \/ md \in {"out", "reading", "writing"} /\ td = << >>
    \/ md = "rdlock" /\ td \in ReadCodes
    \/ md = "rdunlock" /\ td \in ReadEndCodes
    \/ md = "wrlock" /\ td \in WriteCodes
    \/ md = "wrunlock" /\ td \in WriteEndCodes

\* Between Lock(c) and Unlock(c).
InsideCount(td) ==
    td # << >> /\ (Head(td).op \in {"first", "inc", "dec", "last"} \/ Head(td) = Unlock(c))

\* From a writer's Lock(rw) to its Unlock(rw).
WriterHas(md, td) ==
    \/ md = "writing"
    \/ md = "wrlock" /\ td = <<Unlock(w)>>
    \/ md = "wrunlock" /\ td # <<Unlock(w)>>

\* Counted, of a mode and a rest.
CountedAt(md, td) ==
    \/ md = "reading"
    \/ md = "rdlock" /\ \A i \in 1 .. Len(td) : td[i].op # "inc"
    \/ md = "rdunlock" /\ \E i \in 1 .. Len(td) : td[i].op = "dec"

\* Where rw_mutex is locked for the readers although none may be counted.
GroupAt(td) == td # << >> /\ Head(td).op \in {"inc", "last"}

\* What the first instruction does to the place of a task.
Effect(md, td, nmd, ntd) ==
    LET o == Head(td).op
        m == Head(td).m
    IN  /\ o \in {"lock", "unlock", "first", "last", "inc", "dec"} /\ m \in RWMutexes
        /\ PlaceOK(nmd, ntd)
        /\ InsideCount(ntd) <=> \/ o \in {"first", "inc", "dec", "last"}
                                \/ o = "lock" /\ m = c
        /\ InsideCount(td) <=> \/ o \in {"first", "inc", "dec", "last"}
                               \/ o = "unlock" /\ m = c
        /\ WriterHas(nmd, ntd) <=> \/ o = "lock" /\ m = rw
                                   \/ WriterHas(md, td) /\ ~ (o = "unlock" /\ m = rw)
        /\ o = "unlock" /\ m = rw => WriterHas(md, td)
        /\ o \in {"first", "last", "inc", "dec"} \/ (o = "lock" /\ m \in {c, rw}) => ~ WriterHas(md, td)
        /\ CountedAt(nmd, ntd) <=> \/ o = "inc"
                                   \/ CountedAt(md, td) /\ o # "dec"
        /\ o = "inc" => ~ CountedAt(md, td)
        /\ o = "dec" => CountedAt(md, td)
        /\ GroupAt(ntd) <=> o \in {"first", "dec"}
        /\ GroupAt(td) <=> o \in {"inc", "last"}
        /\ o \in {"first", "last"} => m = rw

NextMode(md, td) == IF Len(td) = 1 THEN After(md) ELSE md

\* Head, Tail and Len of short tuples.
LEMMA Tuples ==
    /\ \A x : Head(<<x>>) = x /\ Tail(<<x>>) = << >> /\ Len(<<x>>) = 1 /\ <<x>> # << >>
    /\ \A x1, x2 : Head(<<x1, x2>>) = x1 /\ Tail(<<x1, x2>>) = <<x2>> /\ Len(<<x1, x2>>) = 2 /\ <<x1, x2>> # << >>
    /\ \A x1, x2, x3 : Head(<<x1, x2, x3>>) = x1 /\ Tail(<<x1, x2, x3>>) = <<x2, x3>> /\ Len(<<x1, x2, x3>>) = 3
    /\ \A x1, x2, x3, x4 : Head(<<x1, x2, x3, x4>>) = x1 /\ Tail(<<x1, x2, x3, x4>>) = <<x2, x3, x4>> /\ Len(<<x1, x2, x3, x4>>) = 4
  OBVIOUS

-----------------------------------------------------------------------------
(* The invariant.                                                          *)

RWType ==
    /\ arg \in Policy
    /\ readers \in Nat
    /\ mode \in [Task -> Modes]
    /\ todo \in [Task -> Codes]
    /\ \A t \in Task : PlaceOK(mode[t], todo[t])

\* A task in the loop of a mutex is there for its next instruction; the first
\* reader still is the first.
LockingAt ==
    \A t \in Task : locking[t] # NoMutex =>
        /\ todo[t] # << >>
        /\ Head(todo[t]).op = "lock" \/ (Head(todo[t]).op = "first" /\ readers = 0)
        /\ locking[t] = Head(todo[t]).m

\* count_mutex guards what is between its lock and its unlock.
CountGuarded == \A t \in Task : InsideCount(todo[t]) => c \in held[t]

\* rw_mutex is a writer's, or the readers', not both.
WriterLocks == \A t \in Task : WriterHas(mode[t], todo[t]) => rw \in held[t]

GroupHas == readers > 0 \/ \E t \in Task : GroupAt(todo[t])

GroupLocks ==
    GroupHas => count[rw] = 1 /\ \A t \in Task : ~ WriterHas(mode[t], todo[t])

CountedTasks == {t \in Task : CountedAt(mode[t], todo[t])}

ReadersExact == IsFiniteSet(CountedTasks) /\ readers = Cardinality(CountedTasks)

RWInv ==
    /\ IInv /\ RWType /\ LockingAt /\ CountGuarded
    /\ WriterLocks /\ GroupLocks /\ ReadersExact

-----------------------------------------------------------------------------
(* One instruction of one task.                                            *)

\* An instruction of read_lock.
LEMMA ReadEffect ==
    ASSUME NEW td \in ReadCodes
    PROVE  Effect("rdlock", td, NextMode("rdlock", td), Tail(td))
  <1> USE DEF Effect, NextMode, After, PlaceOK, InsideCount, WriterHas, CountedAt, GroupAt,
       ReadCodes, ReadEndCodes, WriteCodes, WriteEndCodes, RWMutexes,
       Lock, Unlock, LockIfFirst, UnlockIfLast, Inc, Dec, c, rw, w
  <1>1. CASE td = <<Lock(c), LockIfFirst, Inc, Unlock(c)>>
    BY <1>1
  <1>2. CASE td = <<LockIfFirst, Inc, Unlock(c)>>
    BY <1>2
  <1>3. CASE td = <<Inc, Unlock(c)>>
    BY <1>3
  <1>4. CASE td = <<Unlock(c)>>
    BY <1>4
  <1>5. CASE td = <<Lock(w), Lock(c), LockIfFirst, Inc, Unlock(c), Unlock(w)>>
    BY <1>5
  <1>6. CASE td = <<Lock(c), LockIfFirst, Inc, Unlock(c), Unlock(w)>>
    BY <1>6
  <1>7. CASE td = <<LockIfFirst, Inc, Unlock(c), Unlock(w)>>
    BY <1>7
  <1>8. CASE td = <<Inc, Unlock(c), Unlock(w)>>
    BY <1>8
  <1>9. CASE td = <<Unlock(c), Unlock(w)>>
    BY <1>9
  <1>10. CASE td = <<Unlock(w)>>
    BY <1>10
  <1> QED BY <1>1, <1>2, <1>3, <1>4, <1>5, <1>6, <1>7, <1>8, <1>9, <1>10

\* An instruction of read_unlock.
LEMMA ReadEndEffect ==
    ASSUME NEW td \in ReadEndCodes
    PROVE  Effect("rdunlock", td, NextMode("rdunlock", td), Tail(td))
  <1> USE DEF Effect, NextMode, After, PlaceOK, InsideCount, WriterHas, CountedAt, GroupAt,
       ReadCodes, ReadEndCodes, WriteCodes, WriteEndCodes, RWMutexes,
       Lock, Unlock, LockIfFirst, UnlockIfLast, Inc, Dec, c, rw, w
  <1>1. CASE td = <<Lock(c), Dec, UnlockIfLast, Unlock(c)>>
    BY <1>1
  <1>2. CASE td = <<Dec, UnlockIfLast, Unlock(c)>>
    BY <1>2
  <1>3. CASE td = <<UnlockIfLast, Unlock(c)>>
    BY <1>3
  <1>4. CASE td = <<Unlock(c)>>
    BY <1>4
  <1> QED BY <1>1, <1>2, <1>3, <1>4

\* An instruction of write_lock.
LEMMA WriteEffect ==
    ASSUME NEW td \in WriteCodes
    PROVE  Effect("wrlock", td, NextMode("wrlock", td), Tail(td))
  <1> USE DEF Effect, NextMode, After, PlaceOK, InsideCount, WriterHas, CountedAt, GroupAt,
       ReadCodes, ReadEndCodes, WriteCodes, WriteEndCodes, RWMutexes,
       Lock, Unlock, LockIfFirst, UnlockIfLast, Inc, Dec, c, rw, w
  <1>1. CASE td = <<Lock(w), Lock(rw), Unlock(w)>>
    BY <1>1
  <1>2. CASE td = <<Lock(w), Lock(rw)>>
    BY <1>2
  <1>3. CASE td = <<Lock(rw), Unlock(w)>>
    BY <1>3
  <1>4. CASE td = <<Lock(rw)>>
    BY <1>4
  <1>5. CASE td = <<Unlock(w)>>
    BY <1>5
  <1> QED BY <1>1, <1>2, <1>3, <1>4, <1>5

\* An instruction of write_unlock.
LEMMA WriteEndEffect ==
    ASSUME NEW td \in WriteEndCodes
    PROVE  Effect("wrunlock", td, NextMode("wrunlock", td), Tail(td))
  <1> USE DEF Effect, NextMode, After, PlaceOK, InsideCount, WriterHas, CountedAt, GroupAt,
       ReadCodes, ReadEndCodes, WriteCodes, WriteEndCodes, RWMutexes,
       Lock, Unlock, LockIfFirst, UnlockIfLast, Inc, Dec, c, rw, w
  <1>1. CASE td = <<Unlock(rw), Unlock(w)>>
    BY <1>1
  <1>2. CASE td = <<Unlock(rw)>>
    BY <1>2
  <1>3. CASE td = <<Unlock(w)>>
    BY <1>3
  <1> QED BY <1>1, <1>2, <1>3
\* The same of a task in any place.
LEMMA PlaceEffect ==
    ASSUME NEW md, NEW td, PlaceOK(md, td), td # << >>
    PROVE  Effect(md, td, NextMode(md, td), Tail(td))
  BY ReadEffect, ReadEndEffect, WriteEffect, WriteEndEffect DEF PlaceOK

\* A place is one of finitely many.
LEMMA PlaceType ==
    ASSUME NEW md, NEW td, PlaceOK(md, td) PROVE md \in Modes /\ td \in Codes
  BY DEF PlaceOK, Modes, Codes

\* Done takes one task one instruction further and leaves the others alone.
LEMMA DoneEffect ==
    ASSUME RWType, NEW t \in Task, todo[t] # << >>, Done(t)
    PROVE  /\ Effect(mode[t], todo[t], mode'[t], todo'[t])
           /\ \A u \in Task : u # t => mode'[u] = mode[u] /\ todo'[u] = todo[u]
           /\ readers' \in Nat => RWType'
  <1>1. /\ mode'[t] = NextMode(mode[t], todo[t]) /\ todo'[t] = Tail(todo[t])
        /\ \A u \in Task : u # t => mode'[u] = mode[u] /\ todo'[u] = todo[u]
        /\ \E md : mode' = [mode EXCEPT ![t] = md]
        /\ \E td : todo' = [todo EXCEPT ![t] = td]
        /\ arg' = arg
    BY DEF RWType, Done, NextMode
  <1>2. Effect(mode[t], todo[t], mode'[t], todo'[t])
    <2>1. PlaceOK(mode[t], todo[t])
      BY DEF RWType
    <2>2. Effect(mode[t], todo[t], NextMode(mode[t], todo[t]), Tail(todo[t]))
      BY <2>1, PlaceEffect
    <2> QED BY ONLY <2>2, <1>1
  <1>3. PlaceOK(mode'[t], todo'[t])
    BY <1>2 DEF Effect
  <1>4. \A u \in Task : PlaceOK(mode'[u], todo'[u])
    BY <1>1, <1>3 DEF RWType
  <1>5. mode'[t] \in Modes /\ todo'[t] \in Codes
    BY <1>3, PlaceType
  <1>6. mode' \in [Task -> Modes]
    BY <1>1, <1>5 DEF RWType
  <1>7. todo' \in [Task -> Codes]
    BY <1>1, <1>5 DEF RWType
  <1> QED BY <1>1, <1>2, <1>4, <1>6, <1>7 DEF RWType

\* Only count++ and count-- change who is counted.
LEMMA CountUnchanged ==
    ASSUME ReadersExact, NEW t \in Task, readers' = readers,
           CountedAt(mode'[t], todo'[t]) <=> CountedAt(mode[t], todo[t]),
           \A u \in Task : u # t => mode'[u] = mode[u] /\ todo'[u] = todo[u]
    PROVE  ReadersExact'
  <1>1. CountedTasks' = CountedTasks
    BY DEF CountedTasks
  <1> QED BY <1>1 DEF ReadersExact

\* Who waits to lock a mutex, or is first, stays so while others move.
LEMMA LockingKept ==
    ASSUME LockingAt, NEW t \in Task, readers' = readers,
           \A u \in Task : u # t => locking'[u] = locking[u] /\ todo'[u] = todo[u],
           locking'[t] = NoMutex
    PROVE  LockingAt'
  BY DEF LockingAt

\* A step of the mutex functions that ends no instruction.
LEMMA InsideMutex ==
    ASSUME RWInv, IInv', UNCHANGED rwvars, UNCHANGED <<count, held>>, LockingAt'
    PROVE  RWInv'
  <1>1. RWType' /\ CountGuarded' /\ WriterLocks'
    BY DEF RWInv, rwvars, RWType, CountGuarded, WriterLocks
  <1>2. GroupLocks'
    BY DEF RWInv, rwvars, GroupLocks, GroupHas
  <1>3. CountedTasks' = CountedTasks
    BY DEF rwvars, CountedTasks
  <1>4. ReadersExact'
    BY <1>3 DEF RWInv, rwvars, ReadersExact
  <1> QED BY <1>1, <1>2, <1>4 DEF RWInv

\* The instruction t executes.
LEMMA Instruction ==
    ASSUME RWType, NEW t \in Task, todo[t] # << >>
    PROVE  MutexOf(t) \in Mutex /\ MutexOf(t) # NoMutex
  BY PlaceEffect, RWLockAssumption, MutexAssumption DEF RWType, Effect, MutexOf

\* Inside mutex_lock the task is at a lock, or is the first reader.
LEMMA EnterLockInv ==
    ASSUME RWInv, NEW t \in Task, EnterLock(t) PROVE RWInv'
  <1>1. /\ todo[t] # << >> /\ CallLock(t, MutexOf(t)) /\ UNCHANGED rwvars
        /\ Head(todo[t]).op = "lock" \/ (Head(todo[t]).op = "first" /\ readers = 0)
    BY DEF EnterLock, At
  <1>2. MutexOf(t) \in Mutex
    BY <1>1, Instruction DEF RWInv
  <1>3. IInv'
    BY <1>1, <1>2, CallLockInv DEF RWInv
  <1>4. /\ UNCHANGED <<count, held>> /\ locking'[t] = Head(todo[t]).m
        /\ \A u \in Task : u # t => locking'[u] = locking[u]
    BY <1>1 DEF CallLock, MutexOf, RWInv, IInv, TypeOK
  <1>5. LockingAt'
    BY <1>1, <1>4 DEF RWInv, LockingAt, rwvars
  <1> QED BY <1>1, <1>3, <1>4, <1>5, InsideMutex

\* A task that blocks stays at its instruction.
LEMMA WaitInv ==
    ASSUME RWInv, NEW t \in Task, Wait(t) PROVE RWInv'
  <1>1. todo[t] # << >> /\ LockWait(t, MutexOf(t)) /\ UNCHANGED rwvars
    BY DEF Wait
  <1>2. MutexOf(t) \in Mutex
    BY <1>1, Instruction DEF RWInv
  <1>3. IInv'
    BY <1>1, <1>2, LockWaitInv DEF RWInv
  <1>4. UNCHANGED <<count, held, locking>>
    BY <1>1 DEF LockWait
  <1>5. LockingAt'
    BY <1>1, <1>4 DEF RWInv, LockingAt, rwvars
  <1> QED BY <1>1, <1>3, <1>4, <1>5, InsideMutex

\* The wakeup after an unlock.
LEMMA DoWakeupInv ==
    ASSUME RWInv, NEW t \in Task, DoWakeup(t) PROVE RWInv'
  <1>1. task_wakeup(t) /\ UNCHANGED rwvars
    BY DEF DoWakeup
  <1>3. IInv'
    BY <1>1, WakeupInv DEF RWInv
  <1>4. UNCHANGED <<count, held, locking>>
    BY <1>1 DEF task_wakeup
  <1>5. LockingAt'
    BY <1>1, <1>4 DEF RWInv, LockingAt, rwvars
  <1> QED BY <1>1, <1>3, <1>4, <1>5, InsideMutex

\* A trigger moves no task on.
LEMMA DoTriggerInv ==
    ASSUME RWInv, NEW t \in Task, DoTrigger(t) PROVE RWInv'
  <1>1. Trigger(t) /\ UNCHANGED rwvars
    BY DEF DoTrigger
  <1>2. IInv'
    BY <1>1, TriggerInv DEF RWInv
  <1>3. UNCHANGED <<count, held, locking>>
    BY <1>1 DEF Trigger
  <1>4. LockingAt'
    BY <1>1, <1>3 DEF RWInv, LockingAt, rwvars
  <1> QED BY <1>1, <1>2, <1>3, <1>4, InsideMutex

\* mutex_lock succeeds: count_mutex guards its section, and rw_mutex, which
\* was free, becomes a writer's or, by the first of them, the readers'.
LEMMA TakeStepInv ==
    ASSUME RWInv, NEW t \in Task, Take(t) PROVE RWInv'
  <1> USE RWLockAssumption, MutexAssumption DEF RWMutexes, c, rw, w
  <1> DEFINE m == Head(todo[t]).m
             o == Head(todo[t]).op
  <1>1. /\ todo[t] # << >> /\ LockTake(t, m) /\ Done(t) /\ readers' = readers
        /\ RWType /\ IInv
    BY DEF Take, MutexOf, RWInv
  <1>2. m \in Mutex /\ m # NoMutex
    BY <1>1, Instruction DEF MutexOf
  <1>3. /\ t \notin asleep /\ count[m] = 0
        /\ count' = [count EXCEPT ![m] = 1]
        /\ held' = [held EXCEPT ![t] = @ \cup {m}]
        /\ locking[t] = m /\ locking' = [locking EXCEPT ![t] = NoMutex]
        /\ UNCHANGED <<wait_list, waiters, asleep, wakes, torn>>
    BY <1>1 DEF LockTake
  <1>4. IInv'
    BY <1>1, <1>2, <1>3, TakeInv
  <1>5. /\ Effect(mode[t], todo[t], mode'[t], todo'[t]) /\ RWType'
        /\ \A u \in Task : u # t => mode'[u] = mode[u] /\ todo'[u] = todo[u]
    <2>1. readers' \in Nat
      BY <1>1 DEF RWType
    <2> QED BY <2>1, <1>1, DoneEffect
  <1>6. o = "lock" \/ (o = "first" /\ m = rw /\ readers = 0)
    BY <1>2, <1>3, <1>5 DEF RWInv, LockingAt, Effect
  <1>7. /\ m \in held'[t] /\ held[t] \subseteq held'[t]
        /\ \A u \in Task : u # t => held'[u] = held[u] /\ locking'[u] = locking[u]
        /\ locking'[t] = NoMutex
        /\ count'[m] = 1 /\ \A n \in Mutex : n # m => count'[n] = count[n]
    BY <1>1, <1>2, <1>3 DEF IInv, TypeOK
  <1>8. LockingAt'
    BY <1>1, <1>5, <1>7, LockingKept DEF RWInv
  <1>9. CountGuarded'
    <2>1. InsideCount(todo'[t]) => InsideCount(todo[t]) \/ m = c
      BY <1>5, <1>6 DEF Effect
    <2> QED BY <2>1, <1>5, <1>7 DEF RWInv, CountGuarded
  <1>10. WriterLocks'
    <2>1. WriterHas(mode'[t], todo'[t]) => WriterHas(mode[t], todo[t]) \/ m = rw
      BY <1>5 DEF Effect
    <2> QED BY <2>1, <1>5, <1>7 DEF RWInv, WriterLocks
  <1>11. GroupLocks'
    <2>1. CASE m = rw
      <3>1. \A u \in Task : ~ WriterHas(mode[u], todo[u])
        BY <2>1, <1>2, <1>3 DEF RWInv, WriterLocks, IInv, CountIffHeld
      <3>2. ~ GroupHas
        BY <2>1, <1>3 DEF RWInv, GroupLocks
      <3>3. CASE o = "lock"
        <4>1. ~ GroupAt(todo'[t])
          BY <3>3, <1>5 DEF Effect
        <4>2. ~ GroupHas'
          BY <4>1, <3>2, <1>1, <1>5 DEF GroupHas
        <4> QED BY <4>2 DEF GroupLocks
      <3>4. CASE o = "first"
        <4>1. ~ WriterHas(mode'[t], todo'[t])
          BY <3>4, <1>5 DEF Effect
        <4>2. \A u \in Task : ~ WriterHas(mode'[u], todo'[u])
          BY <4>1, <3>1, <1>5
        <4> QED BY <4>2, <2>1, <1>7 DEF GroupLocks
      <3> QED BY <3>3, <3>4, <1>6
    <2>2. CASE m # rw
      <3>1. /\ ~ GroupAt(todo'[t])
            /\ WriterHas(mode'[t], todo'[t]) => WriterHas(mode[t], todo[t])
        BY <2>2, <1>5, <1>6 DEF Effect
      <3>2. GroupHas' => GroupHas
        BY <3>1, <1>1, <1>5 DEF GroupHas
      <3>3. count'[rw] = count[rw]
        BY <2>2, <1>7
      <3> QED BY <3>1, <3>2, <3>3, <1>5 DEF RWInv, GroupLocks
    <2> QED BY <2>1, <2>2
  <1>12. ReadersExact'
    <2>1. CountedAt(mode'[t], todo'[t]) <=> CountedAt(mode[t], todo[t])
      BY <1>5, <1>6 DEF Effect
    <2> QED BY <2>1, <1>1, <1>5, CountUnchanged DEF RWInv
  <1> QED BY <1>4, <1>5, <1>8, <1>9, <1>10, <1>11, <1>12 DEF RWInv

\* mutex_unlock: nobody else is inside count_mutex, and rw_mutex is unlocked
\* by its writer or by the last reader, while no other reader is between its
\* locks.
LEMMA DoUnlockInv ==
    ASSUME RWInv, NEW t \in Task, DoUnlock(t) PROVE RWInv'
  <1> USE RWLockAssumption, MutexAssumption DEF RWMutexes, c, rw, w
  <1> DEFINE m == Head(todo[t]).m
             o == Head(todo[t]).op
  <1>1. /\ todo[t] # << >> /\ mutex_unlock(t, m) /\ Done(t) /\ readers' = readers
        /\ RWType /\ IInv
        /\ o = "unlock" \/ (o = "last" /\ readers = 0)
    BY DEF DoUnlock, MutexOf, RWInv, At
  <1>2. m \in Mutex
    BY <1>1, Instruction DEF MutexOf
  <1>3. /\ locking[t] = NoMutex /\ locking' = locking
        /\ count' = [count EXCEPT ![m] = 0]
        /\ held' = [x \in Task |-> held[x] \ {m}]
    BY <1>1 DEF mutex_unlock, Outside
  <1>4. IInv'
    BY <1>1, <1>2, UnlockInv
  <1>5. /\ Effect(mode[t], todo[t], mode'[t], todo'[t]) /\ RWType'
        /\ \A u \in Task : u # t => mode'[u] = mode[u] /\ todo'[u] = todo[u]
    <2>1. readers' \in Nat
      BY <1>1 DEF RWType
    <2> QED BY <2>1, <1>1, DoneEffect
  <1>6. o = "last" => m = rw
    BY <1>5 DEF Effect
  <1>7. /\ \A u \in Task : held'[u] = held[u] \ {m}
        /\ \A n \in Mutex : n # m => count'[n] = count[n]
    BY <1>1, <1>2, <1>3 DEF IInv, TypeOK
  <1>8. LockingAt'
    BY <1>1, <1>3, <1>5, LockingKept DEF RWInv
  <1>9. \A u \in Task : \A n \in Mutex : n \in held[t] /\ n \in held[u] => u = t
    BY <1>1 DEF IInv, MutualExclusion
  <1>10. CountGuarded'
    <2> SUFFICES ASSUME NEW u \in Task, InsideCount(todo'[u]) PROVE c \in held'[u]
      BY DEF CountGuarded
    <2>1. CASE u = t
      <3>1. o = "last" /\ InsideCount(todo[t])
        BY <2>1, <1>1, <1>5 DEF Effect
      <3> QED BY <3>1, <2>1, <1>6, <1>7 DEF RWInv, CountGuarded
    <2>2. CASE u # t
      <3>1. c \in held[u]
        BY <2>2, <1>5 DEF RWInv, CountGuarded
      <3>2. m # c
        <4>1. SUFFICES ASSUME m = c PROVE FALSE
          OBVIOUS
        <4>2. InsideCount(todo[t])
          BY <4>1, <1>1, <1>5, <1>6 DEF Effect
        <4>3. c \in held[t]
          BY <4>2 DEF RWInv, CountGuarded
        <4> QED BY <4>3, <3>1, <2>2, <1>9
      <3> QED BY <3>1, <3>2, <1>7
    <2> QED BY <2>1, <2>2
  <1>11. /\ m = rw /\ o = "unlock" => WriterHas(mode[t], todo[t]) /\ ~ GroupHas
         /\ o = "last" => \A u \in Task : ~ WriterHas(mode[u], todo[u])
    <2>1. o = "last" => GroupAt(todo[t])
      BY <1>5 DEF Effect
    <2>2. m = rw /\ o = "unlock" => WriterHas(mode[t], todo[t])
      BY <1>5 DEF Effect
    <2> QED BY <2>1, <2>2 DEF RWInv, GroupLocks, GroupHas
  <1>12. WriterHas(mode'[t], todo'[t]) => WriterHas(mode[t], todo[t]) /\ m # rw
    BY <1>1, <1>5, <1>6, <1>11 DEF Effect
  <1>13. WriterLocks'
    <2> SUFFICES ASSUME NEW u \in Task, WriterHas(mode'[u], todo'[u]) PROVE rw \in held'[u]
      BY DEF WriterLocks
    <2>1. WriterHas(mode[u], todo[u])
      BY <1>5, <1>12
    <2>2. rw \in held[u]
      BY <2>1 DEF RWInv, WriterLocks
    <2>3. m # rw
      <3>1. SUFFICES ASSUME m = rw PROVE FALSE
        OBVIOUS
      <3>2. WriterHas(mode[t], todo[t])
        BY <3>1, <2>1, <1>1, <1>11
      <3>3. rw \in held[t]
        BY <3>2 DEF RWInv, WriterLocks
      <3>4. u = t
        BY <3>3, <2>2, <1>9
      <3> QED BY <3>1, <3>4, <1>12
    <2> QED BY <2>2, <2>3, <1>7
  <1>14. ~ GroupAt(todo'[t])
    BY <1>1, <1>5 DEF Effect
  <1>15. GroupHas' => GroupHas
    BY <1>1, <1>5, <1>14 DEF GroupHas
  <1>16. GroupLocks'
    <2>1. CASE m = rw /\ o = "unlock"
      BY <2>1, <1>11, <1>15 DEF GroupLocks
    <2>2. CASE m = rw /\ o = "last"
      <3>1. InsideCount(todo[t])
        BY <2>2, <1>5 DEF Effect
      <3>2. c \in held[t]
        BY <3>1 DEF RWInv, CountGuarded
      <3>3. ASSUME NEW u \in Task, u # t PROVE ~ GroupAt(todo[u])
        <4>1. c \notin held[u]
          BY <3>2, <3>3, <1>9
        <4>2. ~ InsideCount(todo[u])
          BY <4>1 DEF RWInv, CountGuarded
        <4> QED BY <4>2 DEF GroupAt, InsideCount
      <3>4. ~ GroupHas'
        BY <3>3, <2>2, <1>1, <1>5, <1>14 DEF GroupHas
      <3> QED BY <3>4 DEF GroupLocks
    <2>3. CASE m # rw
      <3>1. count'[rw] = count[rw]
        BY <2>3, <1>7
      <3>2. \A u \in Task : WriterHas(mode'[u], todo'[u]) => WriterHas(mode[u], todo[u])
        BY <1>5, <1>12
      <3> QED BY <3>1, <3>2, <1>15 DEF RWInv, GroupLocks
    <2> QED BY <2>1, <2>2, <2>3, <1>1
  <1>17. ReadersExact'
    <2>1. CountedAt(mode'[t], todo'[t]) <=> CountedAt(mode[t], todo[t])
      BY <1>1, <1>5 DEF Effect
    <2> QED BY <2>1, <1>1, <1>5, CountUnchanged DEF RWInv
  <1> QED BY <1>4, <1>5, <1>8, <1>10, <1>13, <1>16, <1>17 DEF RWInv

\* A reader between others passes rw_mutex by: it is the readers' already.
LEMMA NotFirstOrLastInv ==
    ASSUME RWInv, NEW t \in Task, NotFirstOrLast(t) PROVE RWInv'
  <1> DEFINE o == Head(todo[t]).op
  <1>1. /\ todo[t] # << >> /\ Done(t) /\ readers' = readers /\ readers # 0
        /\ UNCHANGED vars /\ locking[t] = NoMutex
        /\ RWType /\ IInv /\ o \in {"first", "last"}
    BY DEF NotFirstOrLast, RWInv, At, Outside
  <1>2. UNCHANGED <<count, held, locking>> /\ IInv'
    BY <1>1, NextInv DEF vars
  <1>3. /\ Effect(mode[t], todo[t], mode'[t], todo'[t]) /\ RWType'
        /\ \A u \in Task : u # t => mode'[u] = mode[u] /\ todo'[u] = todo[u]
    <2>1. readers' \in Nat
      BY <1>1 DEF RWType
    <2> QED BY <2>1, <1>1, DoneEffect
  <1>4. LockingAt'
    BY <1>1, <1>2, <1>3, LockingKept DEF RWInv
  <1>5. /\ InsideCount(todo[t]) /\ ~ WriterHas(mode'[t], todo'[t])
        /\ CountedAt(mode'[t], todo'[t]) <=> CountedAt(mode[t], todo[t])
    BY <1>1, <1>3 DEF Effect
  <1>6. CountGuarded' /\ WriterLocks'
    BY <1>2, <1>3, <1>5 DEF RWInv, CountGuarded, WriterLocks
  <1>7. GroupHas
    BY <1>1 DEF GroupHas, RWType
  <1>8. GroupLocks'
    BY <1>2, <1>3, <1>5, <1>7 DEF RWInv, GroupLocks
  <1>9. ReadersExact'
    BY <1>1, <1>3, <1>5, CountUnchanged DEF RWInv
  <1> QED BY <1>2, <1>3, <1>4, <1>6, <1>8, <1>9 DEF RWInv

\* count++ and count-- run inside count_mutex: no first reader is waiting, and
\* the count is that of the readers, which changes by the one task.
LEMMA UpdateCountInv ==
    ASSUME RWInv, NEW t \in Task, UpdateCount(t) PROVE RWInv'
  <1> USE RWLockAssumption DEF RWMutexes, c, rw, w
  <1> DEFINE o == Head(todo[t]).op
  <1>1. /\ todo[t] # << >> /\ Done(t) /\ UNCHANGED vars /\ locking[t] = NoMutex
        /\ RWType /\ IInv
        /\ \/ o = "inc" /\ readers' = readers + 1
           \/ o = "dec" /\ readers' = readers - 1
    BY DEF UpdateCount, RWInv, At, Outside
  <1>2. UNCHANGED <<count, held, locking>> /\ IInv'
    BY <1>1, NextInv DEF vars
  <1>3. /\ Effect(mode[t], todo[t], mode'[t], todo'[t])
        /\ \A u \in Task : u # t => mode'[u] = mode[u] /\ todo'[u] = todo[u]
    BY <1>1, DoneEffect
  <1>4. /\ InsideCount(todo[t]) /\ ~ WriterHas(mode'[t], todo'[t])
        /\ o = "inc" => GroupAt(todo[t])
        /\ o = "dec" => GroupAt(todo'[t])
        /\ CountedAt(mode'[t], todo'[t]) <=> o = "inc"
        /\ CountedAt(mode[t], todo[t]) <=> o = "dec"
    BY <1>1, <1>3 DEF Effect
  <1>5. ReadersExact' /\ readers' \in Nat /\ (o = "dec" => readers > 0)
    <2> DEFINE C == CountedTasks
    <2>0. IsFiniteSet(C) /\ readers = Cardinality(C) /\ readers \in Nat
      BY <1>1 DEF RWInv, ReadersExact, RWType
    <2>1. CASE o = "inc"
      <3>1. t \notin C /\ CountedTasks' = C \cup {t}
        BY <2>1, <1>3, <1>4 DEF CountedTasks
      <3> HIDE DEF C
      <3>2. IsFiniteSet(C \cup {t}) /\ Cardinality(C \cup {t}) = Cardinality(C) + 1
        BY <3>1, <2>0, FS_AddElement
      <3> QED BY <3>1, <3>2, <2>0, <2>1, <1>1 DEF ReadersExact
    <2>2. CASE o = "dec"
      <3>1. t \in C /\ CountedTasks' = C \ {t}
        BY <2>2, <1>3, <1>4 DEF CountedTasks
      <3> HIDE DEF C
      <3>2. IsFiniteSet(C \ {t}) /\ Cardinality(C \ {t}) = Cardinality(C) - 1
        BY <3>1, <2>0, FS_RemoveElement
      <3>3. Cardinality(C \ {t}) \in Nat
        BY <3>2, FS_CardinalityType
      <3> QED BY <3>1, <3>2, <3>3, <2>0, <2>2, <1>1 DEF ReadersExact
    <2> QED BY <2>1, <2>2, <1>1
  <1>6. RWType'
    BY <1>1, <1>5, DoneEffect
  <1>7. LockingAt'
    <2>1. ASSUME NEW u \in Task, u # t PROVE ~ InsideCount(todo[u])
      BY <2>1, <1>1, <1>4 DEF RWInv, CountGuarded, IInv, MutualExclusion
    <2>2. ASSUME NEW u \in Task, u # t, todo[u] # << >> PROVE Head(todo[u]).op # "first"
      BY <2>1, <2>2 DEF InsideCount
    <2> QED BY <2>2, <1>1, <1>2, <1>3 DEF RWInv, LockingAt
  <1>8. CountGuarded' /\ WriterLocks'
    BY <1>2, <1>3, <1>4 DEF RWInv, CountGuarded, WriterLocks
  <1>9. GroupHas
    BY <1>1, <1>4, <1>5 DEF GroupHas
  <1>10. GroupLocks'
    BY <1>2, <1>3, <1>4, <1>9 DEF RWInv, GroupLocks
  <1> QED BY <1>2, <1>5, <1>6, <1>7, <1>8, <1>10 DEF RWInv

-----------------------------------------------------------------------------
(* The calls.                                                              *)

\* A call of one of the functions changes no lock: what it still has to do is
\* all of its code.
LEMMA CallInv ==
    ASSUME RWInv, NEW t \in Task, NEW md, NEW code, Outside(t), todo[t] = << >>,
           Call(t, md, code), PlaceOK(md, code), ~ InsideCount(code),
           WriterHas(md, code) <=> WriterHas(mode[t], << >>),
           CountedAt(md, code) <=> CountedAt(mode[t], << >>)
    PROVE  RWInv'
  <1>1. /\ mode' = [mode EXCEPT ![t] = md] /\ todo' = [todo EXCEPT ![t] = code]
        /\ UNCHANGED <<arg, readers, count, held, locking>> /\ UNCHANGED vars
        /\ locking[t] = NoMutex /\ RWType /\ IInv
    BY DEF Call, vars, Outside, RWInv
  <1>2. IInv'
    BY <1>1, NextInv
  <1>3. md \in Modes /\ code \in Codes
    BY PlaceType
  <1>4. /\ mode'[t] = md /\ todo'[t] = code
        /\ \A u \in Task : u # t => mode'[u] = mode[u] /\ todo'[u] = todo[u]
    BY <1>1 DEF RWType
  <1>5. mode' \in [Task -> Modes] /\ todo' \in [Task -> Codes]
    BY <1>1, <1>3 DEF RWType
  <1>6. RWType'
    BY <1>1, <1>4, <1>5 DEF RWType
  <1>7. LockingAt'
    BY <1>1, <1>4, LockingKept DEF RWInv
  <1>8. CountGuarded' /\ WriterLocks'
    BY <1>1, <1>4 DEF RWInv, CountGuarded, WriterLocks
  <1>9. ~ GroupAt(code)
    BY DEF GroupAt, InsideCount
  <1>10. GroupHas' => GroupHas
    BY <1>1, <1>4, <1>9 DEF GroupHas
  <1>11. GroupLocks'
    BY <1>1, <1>4, <1>10 DEF RWInv, GroupLocks
  <1>12. ReadersExact'
    BY <1>1, <1>4, CountUnchanged DEF RWInv
  <1> QED BY <1>2, <1>6, <1>7, <1>8, <1>11, <1>12 DEF RWInv

\* The code of the twelve functions starts in a place of its own.
LEMMA CallPlaces ==
    ASSUME arg \in Policy
    PROVE  /\ PlaceOK("rdlock", read_lock(arg)) /\ ~ InsideCount(read_lock(arg))
           /\ ~ CountedAt("rdlock", read_lock(arg))
           /\ PlaceOK("rdunlock", read_unlock(arg)) /\ ~ InsideCount(read_unlock(arg))
           /\ CountedAt("rdunlock", read_unlock(arg))
           /\ PlaceOK("wrlock", write_lock(arg)) /\ ~ InsideCount(write_lock(arg))
           /\ write_lock(arg) # <<Unlock(w)>>
           /\ PlaceOK("wrunlock", write_unlock(arg)) /\ ~ InsideCount(write_unlock(arg))
           /\ write_unlock(arg) # <<Unlock(w)>>
  <1> USE DEF PlaceOK, InsideCount, CountedAt, ReadCodes, ReadEndCodes, WriteCodes,
        WriteEndCodes, Lock, Unlock, LockIfFirst, UnlockIfLast, Inc, Dec, c, rw, w
  <1>1. /\ PlaceOK("rdlock", read_lock(arg)) /\ ~ InsideCount(read_lock(arg))
        /\ ~ CountedAt("rdlock", read_lock(arg))
    BY DEF read_lock, ReadLockRdFirst, ReadLockWrFirst
  <1>2. /\ PlaceOK("rdunlock", read_unlock(arg)) /\ ~ InsideCount(read_unlock(arg))
        /\ CountedAt("rdunlock", read_unlock(arg))
    BY DEF read_unlock, ReadUnlock
  <1>3. /\ PlaceOK("wrlock", write_lock(arg)) /\ ~ InsideCount(write_lock(arg))
        /\ write_lock(arg) # <<Unlock(w)>>
    BY DEF write_lock, Policy
  <1>4. /\ PlaceOK("wrunlock", write_unlock(arg)) /\ ~ InsideCount(write_unlock(arg))
        /\ write_unlock(arg) # <<Unlock(w)>>
    BY DEF write_unlock, Policy
  <1> QED BY <1>1, <1>2, <1>3, <1>4

\* Every step of the lock keeps the invariant.
LEMMA RWNextInv == RWInv /\ [RWNext]_<<vars, rwvars>> => RWInv'
  <1> SUFFICES ASSUME RWInv, [RWNext]_<<vars, rwvars>> PROVE RWInv'
    OBVIOUS
  <1>0. arg \in Policy /\ IInv
    BY DEF RWInv, RWType
  <1>1. ASSUME NEW t \in Task, rwlock_rdlock(t) PROVE RWInv'
    <2>1. /\ ~ WriterHas("rdlock", read_lock(arg)) /\ ~ WriterHas("out", << >>)
          /\ ~ CountedAt("out", << >>)
      BY DEF WriterHas, CountedAt
    <2>2. /\ Outside(t) /\ todo[t] = << >> /\ mode[t] = "out"
          /\ Call(t, "rdlock", read_lock(arg))
      BY <1>1 DEF rwlock_rdlock, Idle
    <2> QED BY <2>1, <2>2, <1>0, CallInv, CallPlaces
  <1>2. ASSUME NEW t \in Task, rwlock_rdunlock(t) PROVE RWInv'
    <2>1. /\ ~ WriterHas("rdunlock", read_unlock(arg)) /\ ~ WriterHas("reading", << >>)
          /\ CountedAt("reading", << >>)
      BY DEF WriterHas, CountedAt
    <2>2. /\ Outside(t) /\ todo[t] = << >> /\ mode[t] = "reading"
          /\ Call(t, "rdunlock", read_unlock(arg))
      BY <1>2 DEF rwlock_rdunlock, Idle
    <2> QED BY <2>1, <2>2, <1>0, CallInv, CallPlaces
  <1>3. ASSUME NEW t \in Task, rwlock_wrlock(t) PROVE RWInv'
    <2>1. /\ ~ WriterHas("wrlock", write_lock(arg)) /\ ~ WriterHas("out", << >>)
          /\ ~ CountedAt("wrlock", write_lock(arg)) /\ ~ CountedAt("out", << >>)
      BY <1>0, CallPlaces DEF WriterHas, CountedAt
    <2>2. /\ Outside(t) /\ todo[t] = << >> /\ mode[t] = "out"
          /\ Call(t, "wrlock", write_lock(arg))
      BY <1>3 DEF rwlock_wrlock, Idle
    <2> QED BY <2>1, <2>2, <1>0, CallInv, CallPlaces
  <1>4. ASSUME NEW t \in Task, rwlock_wrunlock(t) PROVE RWInv'
    <2>1. /\ WriterHas("wrunlock", write_unlock(arg)) /\ WriterHas("writing", << >>)
          /\ ~ CountedAt("wrunlock", write_unlock(arg)) /\ ~ CountedAt("writing", << >>)
      BY <1>0, CallPlaces DEF WriterHas, CountedAt
    <2>2. /\ Outside(t) /\ todo[t] = << >> /\ mode[t] = "writing"
          /\ Call(t, "wrunlock", write_unlock(arg))
      BY <1>4 DEF rwlock_wrunlock, Idle
    <2> QED BY <2>1, <2>2, <1>0, CallInv, CallPlaces
  <1>5. ASSUME NEW t \in Task, Step(t) PROVE RWInv'
    BY <1>5, EnterLockInv, TakeStepInv, WaitInv, DoUnlockInv, DoWakeupInv,
       NotFirstOrLastInv, UpdateCountInv DEF Step
  <1>6. CASE UNCHANGED <<vars, rwvars>>
    <2>1. UNCHANGED vars /\ UNCHANGED rwvars
      BY <1>6
    <2>2. IInv'
      BY <2>1, <1>0, NextInv
    <2>3. UNCHANGED <<count, held, locking>>
      BY <2>1 DEF vars
    <2>4. LockingAt'
      BY <2>1, <2>3 DEF RWInv, LockingAt, rwvars
    <2> QED BY <2>1, <2>2, <2>3, <2>4, InsideMutex
  <1> QED BY <1>1, <1>2, <1>3, <1>4, <1>5, <1>6, DoTriggerInv DEF RWNext

\* rwlock_init: nobody has or wants the lock.
LEMMA RWInitInv == Init => RWInv
  <1> SUFFICES ASSUME Init PROVE RWInv
    OBVIOUS
  <1> USE DEF Init
  <1>1. IInv
    BY InitInv
  <1>2. RWType
    BY DEF RWType, PlaceOK, Modes, Codes
  <1>3. LockingAt
    BY DEF LockingAt, MutexInit
  <1>4. CountGuarded /\ WriterLocks /\ GroupLocks
    BY DEF CountGuarded, WriterLocks, GroupLocks, GroupHas, InsideCount, WriterHas, GroupAt
  <1>5. CountedTasks = {}
    BY DEF CountedTasks, CountedAt
  <1>6. ReadersExact
    BY <1>5, FS_EmptySet DEF ReadersExact
  <1> QED BY <1>1, <1>2, <1>3, <1>4, <1>6 DEF RWInv

\* The reader-writer lock in every reachable state, under each policy.
THEOREM RWInvariant == RWSpec => []RWInv
  BY RWInitInv, RWNextInv, PTL DEF RWSpec

\* Under each of the three policies a writer is alone, and count is the
\* number of readers between their count++ and count--.
THEOREM ReadersOrWriter == RWSpec => []RWExclusion
  <1>1. RWInv => RWExclusion
    <2> SUFFICES ASSUME RWInv PROVE RWExclusion
      OBVIOUS
    <2>1. CountedTasks = {t \in Task : Counted(t)}
      BY DEF CountedTasks, Counted, CountedAt
    <2>2. ReadersCounted
      BY <2>1 DEF RWInv, ReadersExact, ReadersCounted
    <2>3. ASSUME NEW t1 \in Task, NEW t2 \in Task, mode[t1] = "writing", mode[t2] = "writing"
          PROVE  t1 = t2
      <3>1. WriterHas(mode[t1], todo[t1]) /\ WriterHas(mode[t2], todo[t2])
        BY <2>3 DEF WriterHas
      <3>2. rw \in held[t1] /\ rw \in held[t2]
        BY <3>1 DEF RWInv, WriterLocks
      <3> QED BY <3>2 DEF RWInv, IInv, MutualExclusion
    <2>4. ASSUME NEW t1 \in Task, NEW t2 \in Task, mode[t1] = "writing", mode[t2] = "reading"
          PROVE  FALSE
      <3>1. WriterHas(mode[t1], todo[t1]) /\ t2 \in CountedTasks
        BY <2>4 DEF WriterHas, CountedTasks, CountedAt
      <3>2. readers # 0
        BY <3>1, FS_EmptySet DEF RWInv, ReadersExact
      <3>3. GroupHas
        BY <3>2 DEF RWInv, RWType, GroupHas
      <3> QED BY <3>1, <3>3 DEF RWInv, GroupLocks
    <2> QED BY <2>2, <2>3, <2>4 DEF RWExclusion
  <1> QED BY <1>1, RWInvariant, PTL

\* The mutexes inside the lock work as they do alone, although rw_mutex is
\* unlocked by another task than the one that locked it; the lists until a
\* trigger wakes a linked task, exclusion always.
THEOREM RWMutexesConsistent == RWSpec => [](MutualExclusion /\ WaitListConsistent /\ NoLostWakeup)
  <1>1. RWInv => MutualExclusion /\ WaitListConsistent /\ NoLostWakeup
    BY DEF RWInv, IInv, Sound, Awaited, WaitListConsistent, NoLostWakeup
  <1> QED BY <1>1, RWInvariant, PTL
=============================================================================
