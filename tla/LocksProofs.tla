---------------------------- MODULE LocksProofs ----------------------------
(***************************************************************************)
(* Proofs about the synchronisation lock (SyncLock) and the semaphore it   *)
(* is built on (Semaphore), for any sets of tasks and locks.               *)
(*                                                                         *)
(* The ASSERTs of sync_lock are not inductive: they speak of the holder    *)
(* and the repeat count, which are written with interrupts on, and it is   *)
(* the unit of the semaphore that keeps two tasks from writing them at the *)
(* same time.  The invariant follows the unit: it is in the counter or     *)
(* with one task, from the down (or from the up that hands it over, while  *)
(* the task is still at its down) until the up.                            *)
(***************************************************************************)
EXTENDS MCLocks, SequenceTheorems, FiniteSetTheorems, TLAPS

In(s, t) == \E i \in 1 .. Len(s) : s[i] = t
OnceIn(s) == \A i, j \in 1 .. Len(s) : s[i] = s[j] => i = j

Waits(t, l) == In(waiter[l], t)

SyncPoints == {S!Idle} \cup [at : {"got", "clear", "up"}, lock : Sema]

SyncType ==
    /\ counter \in [Sema -> 0 .. 1]
    /\ waiter \in [Sema -> Seq(Task)]
    /\ units \in [Task -> [Sema -> 0 .. 1]]
    /\ holder \in [Sema -> Task \cup {NoTask}]
    /\ reapt_count \in [Sema -> Nat]
    /\ pc \in [Task -> SyncPoints]
    /\ depth \in [Task -> [Sema -> Nat]]

\* The unit of a lock is in one place.
OneUnit ==
    \A l \in Sema :
        /\ counter[l] = 1 => \A t \in Task : units[t][l] = 0
        /\ \A t, u \in Task : units[t][l] = 1 /\ units[u][l] = 1 => t = u

\* A waiter is linked once, in the list of the lock it asked for.
WaitsOnce ==
    \A l \in Sema :
        /\ OnceIn(waiter[l])
        /\ \A t \in Task : Waits(t, l) => pc[t] = S!Point("got", l)

\* Who has the unit: a task that was given it at its down, a holder, a task on
\* its way out of sync_unlock.
UnitWithUser ==
    \A t \in Task, l \in Sema :
        units[t][l] = 1 <=>
            \/ pc[t] = S!Point("got", l) /\ ~ Waits(t, l)
            \/ depth[t][l] > 0
            \/ pc[t] \in {S!Point("clear", l), S!Point("up", l)}

HolderExact ==
    /\ \A t \in Task, l \in Sema : holder[l] = t <=> depth[t][l] > 0
    /\ \A t \in Task, l \in Sema : depth[t][l] > 0 => reapt_count[l] = depth[t][l]
    /\ \A t \in Task, l \in Sema :
          pc[t] \in {S!Point("got", l), S!Point("clear", l), S!Point("up", l)} => depth[t][l] = 0

\* The count is 0 while nobody is between the assignment and its undoing.
CountCleared ==
    \A l \in Sema :
        /\ counter[l] = 1 => reapt_count[l] = 0
        /\ \A t \in Task :
              \/ pc[t] = S!Point("got", l) /\ ~ Waits(t, l)
              \/ pc[t] = S!Point("up", l)
              => reapt_count[l] = 0

SyncInv ==
    SyncType /\ OneUnit /\ WaitsOnce /\ UnitWithUser /\ HolderExact /\ CountCleared

-----------------------------------------------------------------------------
(* The wait list.                                                          *)

\* list_add_tail of a task that is not linked.
LEMMA AddTail ==
    ASSUME NEW s \in Seq(Task), NEW t \in Task, OnceIn(s), ~ In(s, t)
    PROVE  /\ Append(s, t) \in Seq(Task) /\ OnceIn(Append(s, t))
           /\ \A u : In(Append(s, t), u) <=> In(s, u) \/ u = t
  <1> DEFINE r == Append(s, t)
  <1>1. /\ r \in Seq(Task) /\ Len(s) \in Nat /\ Len(r) = Len(s) + 1 /\ r[Len(s) + 1] = t
        /\ \A i \in 1 .. Len(s) : r[i] = s[i]
    BY AppendProperties
  <1> HIDE DEF r
  <1>2. OnceIn(r)
    <2> SUFFICES ASSUME NEW i \in 1 .. Len(s) + 1, NEW j \in 1 .. Len(s) + 1, r[i] = r[j]
                 PROVE  i = j
      BY <1>1 DEF OnceIn
    <2>1. CASE i \in 1 .. Len(s) /\ j \in 1 .. Len(s)
      BY <2>1, <1>1 DEF OnceIn
    <2>2. CASE i = Len(s) + 1 /\ j \in 1 .. Len(s)
      BY <2>2, <1>1 DEF In
    <2>3. CASE j = Len(s) + 1 /\ i \in 1 .. Len(s)
      BY <2>3, <1>1 DEF In
    <2> QED BY <2>1, <2>2, <2>3, <1>1
  <1>3. ASSUME NEW u PROVE In(r, u) <=> In(s, u) \/ u = t
    <2>1. ASSUME In(r, u), u # t PROVE In(s, u)
      <3>1. PICK i \in 1 .. Len(s) + 1 : r[i] = u
        BY <2>1, <1>1 DEF In
      <3>2. i \in 1 .. Len(s)
        BY <3>1, <2>1, <1>1
      <3> QED BY <3>1, <3>2, <1>1 DEF In
    <2>2. ASSUME In(s, u) PROVE In(r, u)
      <3>1. PICK i \in 1 .. Len(s) : s[i] = u
        BY <2>2 DEF In
      <3> QED BY <3>1, <1>1 DEF In
    <2>3. In(r, t)
      BY <1>1 DEF In
    <2> QED BY <2>1, <2>2, <2>3
  <1> QED BY <1>1, <1>2, <1>3 DEF r

\* The first waiter is taken off.
LEMMA TakeHead ==
    ASSUME NEW s \in Seq(Task), s # << >>, OnceIn(s)
    PROVE  /\ Head(s) \in Task /\ In(s, Head(s))
           /\ Tail(s) \in Seq(Task) /\ OnceIn(Tail(s))
           /\ \A u : In(Tail(s), u) <=> In(s, u) /\ u # Head(s)
  <1> DEFINE r == Tail(s)
             h == Head(s)
  <1>1. /\ r \in Seq(Task) /\ Len(s) \in Nat \ {0} /\ Len(r) = Len(s) - 1
        /\ \A i \in 1 .. Len(r) : r[i] = s[i + 1]
        /\ h = s[1] /\ h \in Task
    BY HeadTailProperties, EmptySeq
  <1> HIDE DEF r, h
  <1>2. OnceIn(r)
    <2> SUFFICES ASSUME NEW i \in 1 .. Len(s) - 1, NEW j \in 1 .. Len(s) - 1, r[i] = r[j]
                 PROVE  i = j
      BY <1>1 DEF OnceIn
    <2>1. s[i + 1] = s[j + 1] /\ i + 1 \in 1 .. Len(s) /\ j + 1 \in 1 .. Len(s)
      BY <1>1
    <2>2. i + 1 = j + 1
      BY <2>1 DEF OnceIn
    <2> QED BY <2>2
  <1>3. ASSUME NEW u, In(r, u) PROVE In(s, u) /\ u # h
    <2>1. PICK i \in 1 .. Len(s) - 1 : r[i] = u
      BY <1>1, <1>3 DEF In
    <2>2. s[i + 1] = u /\ i + 1 \in 1 .. Len(s) /\ i + 1 # 1 /\ 1 \in 1 .. Len(s)
      BY <2>1, <1>1
    <2> QED BY <2>2, <1>1 DEF In, OnceIn
  <1>4. ASSUME NEW u, In(s, u), u # h PROVE In(r, u)
    <2>1. PICK i \in 1 .. Len(s) : s[i] = u
      BY <1>4 DEF In
    <2>2. i - 1 \in 1 .. Len(r) /\ (i - 1) + 1 = i
      BY <2>1, <1>1, <1>4
    <2> QED BY <2>1, <2>2, <1>1 DEF In
  <1>5. In(s, h)
    BY <1>1 DEF In
  <1> QED BY <1>1, <1>2, <1>3, <1>4, <1>5 DEF r, h

-----------------------------------------------------------------------------
(* The steps of the synchronisation lock.                                  *)

\* The places in sync_lock and sync_unlock are different from each other.
LEMMA PointFacts ==
    /\ \A a, l : a \in {"got", "clear", "up"} => S!Point(a, l) # S!Idle
    /\ \A a, b, l, k : S!Point(a, l) = S!Point(b, k) => a = b /\ l = k
    /\ S!Idle \in SyncPoints
    /\ \A a \in {"got", "clear", "up"}, l \in Sema : S!Point(a, l) \in SyncPoints
  <1>1. /\ \A a, l : a # "idle" => S!Point(a, l) # S!Idle
        /\ \A a, b, l, k : S!Point(a, l) = S!Point(b, k) => a = b /\ l = k
    BY DEF S!Point, S!Idle
  <1>2. /\ S!Idle \in SyncPoints
        /\ \A a \in {"got", "clear", "up"}, l \in Sema : S!Point(a, l) \in SyncPoints
    BY DEF SyncPoints, S!Point
  <1> QED BY <1>1, <1>2

\* What the constants give; a task that is blocked waits for some lock.
LEMMA SyncFacts ==
    /\ Value = 1 /\ NoTask \notin Task
    /\ \A t : S!Blocked(t) <=> \E l \in Sema : Waits(t, l)
  BY LocksAssumption DEF S!SyncLockConstants, S!Blocked, Waits, In

\* Nobody has a lock at the start.
LEMMA SyncInitInv == S!SyncInit => SyncInv
  <1> SUFFICES ASSUME S!SyncInit PROVE SyncInv
    OBVIOUS
  <1>1. /\ counter = [s \in Sema |-> 1] /\ waiter = [s \in Sema |-> << >>]
        /\ units = [t \in Task |-> [s \in Sema |-> 0]]
        /\ holder = [l \in Sema |-> NoTask] /\ reapt_count = [l \in Sema |-> 0]
        /\ pc = [t \in Task |-> S!Idle] /\ depth = [t \in Task |-> [l \in Sema |-> 0]]
    BY SyncFacts DEF S!SyncInit, S!SemaInit
  <1>2. \A t \in Task, l \in Sema : ~ Waits(t, l)
    BY <1>1 DEF Waits, In
  <1>3. SyncType
    BY <1>1 DEF SyncType, SyncPoints
  <1>4. OneUnit
    BY <1>1 DEF OneUnit
  <1>5. WaitsOnce
    BY <1>1, <1>2 DEF WaitsOnce, OnceIn
  <1>6. UnitWithUser
    BY <1>1, PointFacts DEF UnitWithUser
  <1>7. HolderExact
    BY <1>1, SyncFacts, PointFacts DEF HolderExact
  <1>8. CountCleared
    BY <1>1 DEF CountCleared
  <1> QED BY <1>3, <1>4, <1>5, <1>6, <1>7, <1>8 DEF SyncInv

\* semaphore_down finds the unit in the counter.
LEMMA DownTakesInv ==
    ASSUME SyncInv, NEW t \in Task, NEW l \in Sema, S!LockDown(t, l), counter[l] > 0
    PROVE  SyncInv'
  <1>1. /\ pc[t] = S!Idle /\ holder[l] # t
        /\ counter' = [counter EXCEPT ![l] = @ - 1]
        /\ units' = [units EXCEPT ![t][l] = @ + 1]
        /\ pc' = [pc EXCEPT ![t] = S!Point("got", l)]
        /\ UNCHANGED <<waiter, holder, reapt_count, depth>>
    BY DEF S!LockDown, S!semaphore_down, S!Got
  <1>2. SyncType /\ OneUnit /\ WaitsOnce /\ UnitWithUser /\ HolderExact /\ CountCleared
    BY DEF SyncInv
  <1>3. /\ counter[l] = 1 /\ reapt_count[l] = 0 /\ depth[t][l] = 0
        /\ \A u \in Task : units[u][l] = 0
        /\ \A k \in Sema : ~ Waits(t, k)
    BY <1>1, <1>2, PointFacts DEF SyncType, OneUnit, CountCleared, HolderExact, WaitsOnce
  <1>4. \A u \in Task, k \in Sema : Waits(u, k)' <=> Waits(u, k)
    BY <1>1 DEF Waits
  <1>5. /\ \A u \in Task : pc'[u] = IF u = t THEN S!Point("got", l) ELSE pc[u]
        /\ \A k \in Sema : counter'[k] = IF k = l THEN 0 ELSE counter[k]
        /\ \A u \in Task, k \in Sema :
              units'[u][k] = IF u = t /\ k = l THEN 1 ELSE units[u][k]
    BY <1>1, <1>2, <1>3 DEF SyncType
  <1>6. SyncType'
    <2>1. pc' \in [Task -> SyncPoints]
      BY <1>1, <1>2, PointFacts DEF SyncType
    <2>2. counter' \in [Sema -> 0 .. 1] /\ units' \in [Task -> [Sema -> 0 .. 1]]
      BY <1>1, <1>2, <1>3 DEF SyncType
    <2> QED BY <1>1, <1>2, <2>1, <2>2 DEF SyncType
  <1>7. OneUnit'
    BY <1>2, <1>3, <1>5 DEF OneUnit
  <1>8. WaitsOnce'
    BY <1>1, <1>2, <1>3, <1>4, <1>5 DEF WaitsOnce
  <1>9. UnitWithUser'
    BY <1>1, <1>2, <1>3, <1>4, <1>5, PointFacts DEF UnitWithUser
  <1>10. HolderExact'
    BY <1>1, <1>2, <1>3, <1>5, PointFacts DEF HolderExact
  <1>11. CountCleared'
    BY <1>1, <1>2, <1>3, <1>4, <1>5, PointFacts DEF CountCleared
  <1> QED BY <1>6, <1>7, <1>8, <1>9, <1>10, <1>11 DEF SyncInv

\* semaphore_down blocks.
LEMMA DownBlocksInv ==
    ASSUME SyncInv, NEW t \in Task, NEW l \in Sema, S!LockDown(t, l), ~ (counter[l] > 0)
    PROVE  SyncInv'
  <1>1. /\ pc[t] = S!Idle /\ holder[l] # t
        /\ waiter' = [waiter EXCEPT ![l] = Append(@, t)]
        /\ pc' = [pc EXCEPT ![t] = S!Point("got", l)]
        /\ UNCHANGED <<counter, units, holder, reapt_count, depth>>
    BY DEF S!LockDown, S!semaphore_down
  <1>2. SyncType /\ OneUnit /\ WaitsOnce /\ UnitWithUser /\ HolderExact /\ CountCleared
    BY DEF SyncInv
  <1>3. depth[t][l] = 0 /\ units[t][l] = 0 /\ \A k \in Sema : ~ Waits(t, k)
    <2>1. depth[t][l] = 0
      BY <1>1, <1>2 DEF SyncType, HolderExact
    <2>2. \A k \in Sema : ~ Waits(t, k)
      BY <1>1, <1>2, PointFacts DEF WaitsOnce
    <2>3. units[t][l] # 1
      <3>1. \A a \in {"got", "clear", "up"} : pc[t] # S!Point(a, l)
        BY <1>1, PointFacts
      <3> QED BY <1>2, <2>1, <3>1 DEF UnitWithUser
    <2>4. units[t][l] = 0
      BY <1>2, <2>3 DEF SyncType
    <2> QED BY <2>1, <2>2, <2>4
  <1>4. /\ Append(waiter[l], t) \in Seq(Task) /\ OnceIn(Append(waiter[l], t))
        /\ \A u : In(Append(waiter[l], t), u) <=> In(waiter[l], u) \/ u = t
    <2>1. waiter[l] \in Seq(Task) /\ OnceIn(waiter[l]) /\ ~ In(waiter[l], t)
      BY <1>2, <1>3 DEF SyncType, WaitsOnce, Waits
    <2> QED BY <2>1, AddTail
  <1>5. /\ \A u \in Task : pc'[u] = IF u = t THEN S!Point("got", l) ELSE pc[u]
        /\ \A k \in Sema : waiter'[k] = IF k = l THEN Append(waiter[l], t) ELSE waiter[k]
    BY <1>1, <1>2 DEF SyncType
  <1>6. ASSUME NEW u \in Task, NEW k \in Sema PROVE Waits(u, k)' <=> Waits(u, k) \/ (u = t /\ k = l)
    <2>1. Waits(u, k)' <=> In(waiter'[k], u)
      BY DEF Waits
    <2> QED BY <2>1, <1>4, <1>5 DEF Waits
  <1>7. SyncType'
    <2>1. pc' \in [Task -> SyncPoints]
      BY <1>1, <1>2, PointFacts DEF SyncType
    <2>2. waiter' \in [Sema -> Seq(Task)]
      BY <1>1, <1>2, <1>4 DEF SyncType
    <2> QED BY <1>1, <1>2, <2>1, <2>2 DEF SyncType
  <1>8. OneUnit'
    BY <1>1, <1>2 DEF OneUnit
  <1>9. WaitsOnce'
    BY <1>2, <1>3, <1>4, <1>5, <1>6 DEF WaitsOnce
  <1>10. UnitWithUser'
    BY <1>1, <1>2, <1>3, <1>5, <1>6, PointFacts DEF UnitWithUser
  <1>11. HolderExact'
    BY <1>1, <1>2, <1>3, <1>5, PointFacts DEF HolderExact
  <1>12. CountCleared'
    BY <1>1, <1>2, <1>3, <1>5, <1>6, PointFacts DEF CountCleared
  <1> QED BY <1>7, <1>8, <1>9, <1>10, <1>11, <1>12 DEF SyncInv

\* The new holder writes its name and the count.
LEMMA LockSetInv ==
    ASSUME SyncInv, NEW t \in Task, NEW l \in Sema, S!LockSet(t, l)
    PROVE  SyncInv' /\ holder[l] = NoTask
  <1>1. /\ pc[t] = S!Point("got", l) /\ ~ Waits(t, l)
        /\ holder' = [holder EXCEPT ![l] = t]
        /\ reapt_count' = [reapt_count EXCEPT ![l] = 1]
        /\ pc' = [pc EXCEPT ![t] = S!Idle]
        /\ depth' = [depth EXCEPT ![t][l] = 1]
        /\ UNCHANGED <<counter, waiter, units>>
    BY SyncFacts DEF S!LockSet, S!svars
  <1>2. SyncType /\ OneUnit /\ WaitsOnce /\ UnitWithUser /\ HolderExact /\ CountCleared
    BY DEF SyncInv
  <1>3. /\ units[t][l] = 1 /\ counter[l] = 0
        /\ \A u \in Task : u # t => units[u][l] # 1
        /\ \A k \in Sema : ~ Waits(t, k)
    <2>1. units[t][l] = 1
      BY <1>1, <1>2 DEF UnitWithUser
    <2>2. \A k \in Sema : ~ Waits(t, k)
      BY <1>1, <1>2, PointFacts DEF WaitsOnce
    <2> QED BY <2>1, <2>2, <1>2 DEF OneUnit, SyncType
  <1>4. \A u \in Task : u # t => /\ depth[u][l] = 0
                                 /\ ~ (pc[u] = S!Point("got", l) /\ ~ Waits(u, l))
                                 /\ pc[u] # S!Point("clear", l) /\ pc[u] # S!Point("up", l)
    BY <1>2, <1>3 DEF UnitWithUser, SyncType
  <1>5. holder[l] = NoTask
    BY <1>1, <1>2, <1>4 DEF HolderExact, SyncType
  <1>6. /\ \A u \in Task : pc'[u] = IF u = t THEN S!Idle ELSE pc[u]
        /\ \A k \in Sema : holder'[k] = IF k = l THEN t ELSE holder[k]
        /\ \A k \in Sema : reapt_count'[k] = IF k = l THEN 1 ELSE reapt_count[k]
        /\ \A u \in Task, k \in Sema :
              depth'[u][k] = IF u = t /\ k = l THEN 1 ELSE depth[u][k]
    BY <1>1, <1>2 DEF SyncType
  <1>7. \A u \in Task, k \in Sema : Waits(u, k)' <=> Waits(u, k)
    BY <1>1 DEF Waits
  <1>8. SyncType'
    BY <1>1, <1>2, PointFacts DEF SyncType
  <1>9. OneUnit'
    BY <1>1, <1>2 DEF OneUnit
  <1>10. WaitsOnce'
    BY <1>1, <1>2, <1>3, <1>6, <1>7 DEF WaitsOnce
  <1>11. UnitWithUser'
    <2> SUFFICES ASSUME NEW u \in Task, NEW k \in Sema
                 PROVE  units[u][k] = 1 <=>
                            \/ pc'[u] = S!Point("got", k) /\ ~ Waits(u, k)
                            \/ depth'[u][k] > 0
                            \/ pc'[u] \in {S!Point("clear", k), S!Point("up", k)}
      BY <1>1, <1>7 DEF UnitWithUser
    <2>1. CASE u # t
      BY <2>1, <1>2, <1>6 DEF UnitWithUser
    <2>2. CASE u = t /\ k = l
      BY <2>2, <1>3, <1>6
    <2>3. CASE u = t /\ k # l
      <3>1. \A a \in {"got", "clear", "up"} : pc[t] # S!Point(a, k) /\ pc'[t] # S!Point(a, k)
        BY <2>3, <1>1, <1>6, PointFacts
      <3> QED BY <2>3, <3>1, <1>2, <1>6 DEF UnitWithUser
    <2> QED BY <2>1, <2>2, <2>3
  <1>12. HolderExact'
    <2>1. ASSUME NEW u \in Task, NEW k \in Sema PROVE holder'[k] = u <=> depth'[u][k] > 0
      <3>1. CASE k # l
        BY <3>1, <1>2, <1>6 DEF HolderExact
      <3>2. CASE k = l /\ u = t
        BY <3>2, <1>6
      <3>3. CASE k = l /\ u # t
        BY <3>3, <1>4, <1>6
      <3> QED BY <3>1, <3>2, <3>3
    <2>2. ASSUME NEW u \in Task, NEW k \in Sema, depth'[u][k] > 0
          PROVE  reapt_count'[k] = depth'[u][k]
      <3>1. CASE k # l
        BY <3>1, <2>2, <1>2, <1>6 DEF HolderExact
      <3>2. CASE k = l /\ u = t
        BY <3>2, <1>6
      <3>3. CASE k = l /\ u # t
        BY <3>3, <2>2, <1>4, <1>6
      <3> QED BY <3>1, <3>2, <3>3
    <2>3. \A u \in Task, k \in Sema :
            pc'[u] \in {S!Point("got", k), S!Point("clear", k), S!Point("up", k)} => depth'[u][k] = 0
      BY <1>2, <1>6, PointFacts DEF HolderExact
    <2> QED BY <2>1, <2>2, <2>3 DEF HolderExact
  <1>13. CountCleared'
    <2> SUFFICES ASSUME NEW k \in Sema
                 PROVE  /\ counter[k] = 1 => reapt_count'[k] = 0
                        /\ \A u \in Task : \/ pc'[u] = S!Point("got", k) /\ ~ Waits(u, k)
                                           \/ pc'[u] = S!Point("up", k)
                                           => reapt_count'[k] = 0
      BY <1>1, <1>7 DEF CountCleared
    <2>1. CASE k = l
      BY <2>1, <1>3, <1>4, <1>6, PointFacts
    <2>2. CASE k # l
      BY <2>2, <1>2, <1>6, PointFacts DEF CountCleared
    <2> QED BY <2>1, <2>2
  <1> QED BY <1>5, <1>8, <1>9, <1>10, <1>11, <1>12, <1>13 DEF SyncInv

\* sync_lock by the holder and sync_unlock of an inner lock: the count and the
\* depth go up and down together, at least 1.
LEMMA NestInv ==
    ASSUME SyncInv, NEW t \in Task, NEW l \in Sema, S!LockAgain(t, l) \/ S!UnlockInner(t, l)
    PROVE  SyncInv'
  <1>2. SyncType /\ OneUnit /\ WaitsOnce /\ UnitWithUser /\ HolderExact /\ CountCleared
    BY DEF SyncInv
  <1>3. /\ holder[l] = t /\ depth[t][l] > 0 /\ reapt_count[l] = depth[t][l]
        /\ \A u \in Task : u # t => depth[u][l] = 0
    BY <1>2 DEF S!LockAgain, S!UnlockInner, HolderExact, SyncType
  <1>1. PICK n \in Nat \ {0} :
          /\ reapt_count' = [reapt_count EXCEPT ![l] = n]
          /\ depth' = [depth EXCEPT ![t][l] = n]
          /\ UNCHANGED <<counter, waiter, units, holder, pc>>
    <2>1. CASE S!LockAgain(t, l)
      <3>1. depth[t][l] + 1 \in Nat \ {0}
        BY <1>2, <1>3 DEF SyncType
      <3> QED BY <3>1, <2>1, <1>2, <1>3 DEF S!LockAgain, S!svars, SyncType
    <2>2. CASE S!UnlockInner(t, l)
      <3>1. depth[t][l] - 1 \in Nat \ {0}
        BY <2>2, <1>2, <1>3 DEF SyncType, S!UnlockInner
      <3> QED BY <3>1, <2>2, <1>2, <1>3 DEF S!UnlockInner, S!svars, SyncType
    <2> QED BY <2>1, <2>2
  <1>4. units[t][l] = 1 /\ counter[l] # 1 /\ \A u \in Task : u # t => units[u][l] # 1
    <2>1. units[t][l] = 1
      BY <1>2, <1>3 DEF UnitWithUser
    <2> QED BY <2>1, <1>2 DEF OneUnit
  <1>5. /\ \A k \in Sema : reapt_count'[k] = IF k = l THEN n ELSE reapt_count[k]
        /\ \A u \in Task, k \in Sema :
              depth'[u][k] = IF u = t /\ k = l THEN n ELSE depth[u][k]
    BY <1>1, <1>2 DEF SyncType
  <1>6. \A u \in Task, k \in Sema : Waits(u, k)' <=> Waits(u, k)
    BY <1>1 DEF Waits
  <1>7. SyncType'
    BY <1>1, <1>2 DEF SyncType
  <1>8. OneUnit' /\ WaitsOnce'
    BY <1>1, <1>2, <1>6 DEF OneUnit, WaitsOnce
  <1>9. UnitWithUser'
    BY <1>1, <1>2, <1>3, <1>5, <1>6 DEF UnitWithUser
  <1>10. HolderExact'
    <2>1. \A u \in Task, k \in Sema : holder'[k] = u <=> depth'[u][k] > 0
      BY <1>1, <1>2, <1>3, <1>5 DEF HolderExact
    <2>2. \A u \in Task, k \in Sema : depth'[u][k] > 0 => reapt_count'[k] = depth'[u][k]
      BY <1>1, <1>2, <1>3, <1>5 DEF HolderExact
    <2>3. \A u \in Task, k \in Sema :
            pc'[u] \in {S!Point("got", k), S!Point("clear", k), S!Point("up", k)} => depth'[u][k] = 0
      BY <1>1, <1>2, <1>3, <1>5 DEF HolderExact
    <2> QED BY <2>1, <2>2, <2>3 DEF HolderExact
  <1>11. CountCleared'
    <2>1. \A u \in Task : ~ (pc[u] = S!Point("got", l) /\ ~ Waits(u, l)) /\ pc[u] # S!Point("up", l)
      <3>1. \A u \in Task : u # t => ~ (pc[u] = S!Point("got", l) /\ ~ Waits(u, l)) /\ pc[u] # S!Point("up", l)
        BY <1>2, <1>4 DEF UnitWithUser
      <3>2. pc[t] # S!Point("got", l) /\ pc[t] # S!Point("up", l)
        BY <1>2, <1>3 DEF HolderExact
      <3> QED BY <3>1, <3>2
    <2> QED BY <2>1, <1>1, <1>2, <1>4, <1>5, <1>6 DEF CountCleared
  <1> QED BY <1>7, <1>8, <1>9, <1>10, <1>11 DEF SyncInv

\* The outermost sync_unlock clears the holder.
LEMMA UnlockHolderInv ==
    ASSUME SyncInv, NEW t \in Task, NEW l \in Sema, S!UnlockHolder(t, l)
    PROVE  SyncInv' /\ holder[l] = t
  <1>1. /\ pc[t] = S!Idle /\ depth[t][l] > 0
        /\ holder' = [holder EXCEPT ![l] = NoTask]
        /\ depth' = [depth EXCEPT ![t][l] = 0]
        /\ pc' = [pc EXCEPT ![t] = S!Point("clear", l)]
        /\ UNCHANGED <<counter, waiter, units, reapt_count>>
    BY DEF S!UnlockHolder, S!svars
  <1>2. SyncType /\ OneUnit /\ WaitsOnce /\ UnitWithUser /\ HolderExact /\ CountCleared
    BY DEF SyncInv
  <1>3. /\ holder[l] = t /\ units[t][l] = 1
        /\ \A u \in Task : u # t => depth[u][l] = 0
        /\ \A k \in Sema : ~ Waits(t, k)
    <2>1. holder[l] = t
      BY <1>1, <1>2 DEF HolderExact
    <2>2. units[t][l] = 1
      BY <1>1, <1>2 DEF UnitWithUser
    <2>3. \A u \in Task : u # t => depth[u][l] = 0
      BY <2>1, <1>2 DEF HolderExact, SyncType
    <2>4. \A k \in Sema : ~ Waits(t, k)
      BY <1>1, <1>2, PointFacts DEF WaitsOnce
    <2> QED BY <2>1, <2>2, <2>3, <2>4
  <1>4. /\ \A u \in Task : pc'[u] = IF u = t THEN S!Point("clear", l) ELSE pc[u]
        /\ \A k \in Sema : holder'[k] = IF k = l THEN NoTask ELSE holder[k]
        /\ \A u \in Task, k \in Sema :
              depth'[u][k] = IF u = t /\ k = l THEN 0 ELSE depth[u][k]
    BY <1>1, <1>2 DEF SyncType
  <1>5. \A u \in Task, k \in Sema : Waits(u, k)' <=> Waits(u, k)
    BY <1>1 DEF Waits
  <1>6. SyncType'
    BY <1>1, <1>2, PointFacts DEF SyncType
  <1>7. OneUnit'
    BY <1>1, <1>2 DEF OneUnit
  <1>8. WaitsOnce'
    BY <1>1, <1>2, <1>3, <1>4, <1>5 DEF WaitsOnce
  <1>9. UnitWithUser'
    <2> SUFFICES ASSUME NEW u \in Task, NEW k \in Sema
                 PROVE  units[u][k] = 1 <=>
                            \/ pc'[u] = S!Point("got", k) /\ ~ Waits(u, k)
                            \/ depth'[u][k] > 0
                            \/ pc'[u] \in {S!Point("clear", k), S!Point("up", k)}
      BY <1>1, <1>5 DEF UnitWithUser
    <2>1. CASE u # t
      BY <2>1, <1>2, <1>4 DEF UnitWithUser
    <2>2. CASE u = t /\ k = l
      BY <2>2, <1>3, <1>4
    <2>3. CASE u = t /\ k # l
      <3>1. \A a \in {"got", "clear", "up"} : pc[t] # S!Point(a, k) /\ pc'[t] # S!Point(a, k)
        BY <2>3, <1>1, <1>4, PointFacts
      <3> QED BY <2>3, <3>1, <1>2, <1>4 DEF UnitWithUser
    <2> QED BY <2>1, <2>2, <2>3
  <1>10. HolderExact'
    <2>1. ASSUME NEW u \in Task, NEW k \in Sema PROVE holder'[k] = u <=> depth'[u][k] > 0
      <3>1. CASE k # l
        BY <3>1, <1>2, <1>4 DEF HolderExact
      <3>2. CASE k = l
        BY <3>2, <1>3, <1>4, SyncFacts
      <3> QED BY <3>1, <3>2
    <2>2. \A u \in Task, k \in Sema : depth'[u][k] > 0 => reapt_count'[k] = depth'[u][k]
      BY <1>1, <1>2, <1>3, <1>4 DEF HolderExact
    <2>3. \A u \in Task, k \in Sema :
            pc'[u] \in {S!Point("got", k), S!Point("clear", k), S!Point("up", k)} => depth'[u][k] = 0
      BY <1>2, <1>4, PointFacts DEF HolderExact
    <2> QED BY <2>1, <2>2, <2>3 DEF HolderExact
  <1>11. CountCleared'
    BY <1>1, <1>2, <1>4, <1>5, PointFacts DEF CountCleared
  <1> QED BY <1>3, <1>6, <1>7, <1>8, <1>9, <1>10, <1>11 DEF SyncInv

\* ... the count ...
LEMMA UnlockCountInv ==
    ASSUME SyncInv, NEW t \in Task, NEW l \in Sema, S!UnlockCount(t, l)
    PROVE  SyncInv'
  <1>1. /\ pc[t] = S!Point("clear", l)
        /\ reapt_count' = [reapt_count EXCEPT ![l] = 0]
        /\ pc' = [pc EXCEPT ![t] = S!Point("up", l)]
        /\ UNCHANGED <<counter, waiter, units, holder, depth>>
    BY DEF S!UnlockCount, S!svars
  <1>2. SyncType /\ OneUnit /\ WaitsOnce /\ UnitWithUser /\ HolderExact /\ CountCleared
    BY DEF SyncInv
  <1>3. /\ units[t][l] = 1
        /\ \A u \in Task : depth[u][l] = 0
    <2>1. units[t][l] = 1
      BY <1>1, <1>2 DEF UnitWithUser
    <2>2. \A u \in Task : u # t => units[u][l] # 1
      BY <2>1, <1>2 DEF OneUnit
    <2>3. \A u \in Task : u # t => depth[u][l] = 0
      BY <2>2, <1>2 DEF UnitWithUser, SyncType
    <2>4. depth[t][l] = 0
      BY <1>1, <1>2 DEF HolderExact
    <2> QED BY <2>1, <2>3, <2>4
  <1>4. /\ \A u \in Task : pc'[u] = IF u = t THEN S!Point("up", l) ELSE pc[u]
        /\ \A k \in Sema : reapt_count'[k] = IF k = l THEN 0 ELSE reapt_count[k]
    BY <1>1, <1>2 DEF SyncType
  <1>5. \A u \in Task, k \in Sema : Waits(u, k)' <=> Waits(u, k)
    BY <1>1 DEF Waits
  <1>6. SyncType'
    BY <1>1, <1>2, PointFacts DEF SyncType
  <1>7. OneUnit'
    BY <1>1, <1>2 DEF OneUnit
  <1>8. WaitsOnce'
    BY <1>1, <1>2, <1>4, <1>5, PointFacts DEF WaitsOnce
  <1>9. UnitWithUser'
    <2> SUFFICES ASSUME NEW u \in Task, NEW k \in Sema
                 PROVE  units[u][k] = 1 <=>
                            \/ pc'[u] = S!Point("got", k) /\ ~ Waits(u, k)
                            \/ depth[u][k] > 0
                            \/ pc'[u] \in {S!Point("clear", k), S!Point("up", k)}
      BY <1>1, <1>5 DEF UnitWithUser
    <2>1. CASE u # t
      BY <2>1, <1>2, <1>4 DEF UnitWithUser
    <2>2. CASE u = t /\ k = l
      BY <2>2, <1>3, <1>4
    <2>3. CASE u = t /\ k # l
      <3>1. \A a \in {"got", "clear", "up"} : pc[t] # S!Point(a, k) /\ pc'[t] # S!Point(a, k)
        BY <2>3, <1>1, <1>4, PointFacts
      <3> QED BY <2>3, <3>1, <1>2, <1>4 DEF UnitWithUser
    <2> QED BY <2>1, <2>2, <2>3
  <1>10. HolderExact'
    BY <1>1, <1>2, <1>3, <1>4, PointFacts DEF HolderExact
  <1>11. CountCleared'
    <2> SUFFICES ASSUME NEW k \in Sema
                 PROVE  /\ counter[k] = 1 => reapt_count'[k] = 0
                        /\ \A u \in Task : \/ pc'[u] = S!Point("got", k) /\ ~ Waits(u, k)
                                           \/ pc'[u] = S!Point("up", k)
                                           => reapt_count'[k] = 0
      BY <1>1, <1>5 DEF CountCleared
    <2>1. CASE k = l
      BY <2>1, <1>4
    <2>2. CASE k # l
      BY <2>2, <1>2, <1>4, PointFacts DEF CountCleared
    <2> QED BY <2>1, <2>2
  <1> QED BY <1>6, <1>7, <1>8, <1>9, <1>10, <1>11 DEF SyncInv

\* ... and ups the semaphore: the unit goes to the counter or to the first waiter.
LEMMA UnlockUpInv ==
    ASSUME SyncInv, NEW t \in Task, NEW l \in Sema, S!UnlockUp(t, l)
    PROVE  SyncInv'
  <1>1. /\ pc[t] = S!Point("up", l)
        /\ S!Up(t, l, [units EXCEPT ![t][l] = @ - 1])
        /\ pc' = [pc EXCEPT ![t] = S!Idle]
        /\ UNCHANGED <<holder, reapt_count, depth>>
    BY DEF S!UnlockUp, S!semaphore_up
  <1>2. SyncType /\ OneUnit /\ WaitsOnce /\ UnitWithUser /\ HolderExact /\ CountCleared
    BY DEF SyncInv
  <1>3. /\ units[t][l] = 1 /\ counter[l] = 0 /\ depth[t][l] = 0 /\ reapt_count[l] = 0
        /\ \A u \in Task : u # t => units[u][l] = 0
        /\ \A k \in Sema : ~ Waits(t, k)
    <2>1. units[t][l] = 1
      BY <1>1, <1>2 DEF UnitWithUser
    <2>2. depth[t][l] = 0 /\ reapt_count[l] = 0
      BY <1>1, <1>2 DEF HolderExact, CountCleared
    <2>3. \A k \in Sema : ~ Waits(t, k)
      BY <1>1, <1>2, PointFacts DEF WaitsOnce
    <2> QED BY <2>1, <2>2, <2>3, <1>2 DEF OneUnit, SyncType
  <1>4. \A u \in Task : pc'[u] = IF u = t THEN S!Idle ELSE pc[u]
    BY <1>1, <1>2 DEF SyncType
  <1>5. HolderExact'
    BY <1>1, <1>2, <1>4, PointFacts DEF HolderExact
  <1>6. \A a \in {"got", "clear", "up"}, k \in Sema : pc'[t] # S!Point(a, k)
    BY <1>1, <1>2, <1>4, PointFacts
  <1>7. \A k \in Sema : k # l => \A a \in {"got", "clear", "up"} : pc[t] # S!Point(a, k)
    BY <1>1, PointFacts
  <1>8. pc' \in [Task -> SyncPoints]
    BY <1>1, <1>2, PointFacts DEF SyncType
  <1>9. CASE waiter[l] = << >>
    <2>1. /\ counter' = [counter EXCEPT ![l] = @ + 1]
          /\ units' = [units EXCEPT ![t][l] = @ - 1] /\ UNCHANGED waiter
      BY <1>1, <1>9 DEF S!Up
    <2>2. /\ \A k \in Sema : counter'[k] = IF k = l THEN 1 ELSE counter[k]
          /\ \A u \in Task, k \in Sema :
                units'[u][k] = IF u = t /\ k = l THEN 0 ELSE units[u][k]
      BY <2>1, <1>2, <1>3 DEF SyncType
    <2>3. \A u \in Task, k \in Sema : Waits(u, k)' <=> Waits(u, k)
      BY <2>1 DEF Waits
    <2>4. SyncType'
      BY <2>1, <1>1, <1>2, <1>3, <1>8 DEF SyncType
    <2>5. OneUnit'
      BY <2>2, <1>2, <1>3 DEF OneUnit
    <2>6. WaitsOnce'
      BY <2>1, <2>3, <1>2, <1>3, <1>4 DEF WaitsOnce
    <2>7. UnitWithUser'
      <3> SUFFICES ASSUME NEW u \in Task, NEW k \in Sema
                   PROVE  units'[u][k] = 1 <=>
                              \/ pc'[u] = S!Point("got", k) /\ ~ Waits(u, k)
                              \/ depth[u][k] > 0
                              \/ pc'[u] \in {S!Point("clear", k), S!Point("up", k)}
        BY <1>1, <2>3 DEF UnitWithUser
      <3>1. CASE u # t
        BY <3>1, <1>2, <1>4, <2>2 DEF UnitWithUser
      <3>2. CASE u = t /\ k = l
        BY <3>2, <1>3, <1>6, <2>2
      <3>3. CASE u = t /\ k # l
        BY <3>3, <1>2, <1>6, <1>7, <2>2 DEF UnitWithUser
      <3> QED BY <3>1, <3>2, <3>3
    <2>8. CountCleared'
      <3> SUFFICES ASSUME NEW k \in Sema
                   PROVE  /\ counter'[k] = 1 => reapt_count[k] = 0
                          /\ \A u \in Task : \/ pc'[u] = S!Point("got", k) /\ ~ Waits(u, k)
                                             \/ pc'[u] = S!Point("up", k)
                                             => reapt_count[k] = 0
        BY <1>1, <2>3 DEF CountCleared
      <3> QED BY <1>2, <1>3, <1>4, <1>6, <2>2 DEF CountCleared
    <2> QED BY <1>5, <2>4, <2>5, <2>6, <2>7, <2>8 DEF SyncInv
  <1>10. CASE waiter[l] # << >>
    <2> DEFINE h == Head(waiter[l])
               r == Tail(waiter[l])
    <2>1. /\ h \in Task /\ In(waiter[l], h) /\ r \in Seq(Task) /\ OnceIn(r)
          /\ \A u : In(r, u) <=> In(waiter[l], u) /\ u # h
      <3>1. waiter[l] \in Seq(Task) /\ OnceIn(waiter[l])
        BY <1>2 DEF SyncType, WaitsOnce
      <3> QED BY <3>1, <1>10, TakeHead
    <2>2. /\ waiter' = [waiter EXCEPT ![l] = r] /\ UNCHANGED counter
          /\ units' = [[units EXCEPT ![t][l] = @ - 1] EXCEPT ![h][l] = @ + 1]
      BY <1>1, <1>10 DEF S!Up
    <2> HIDE DEF h, r
    <2>3. /\ Waits(h, l) /\ pc[h] = S!Point("got", l) /\ h # t
          /\ \A k \in Sema : Waits(h, k) => k = l
      <3>1. Waits(h, l)
        BY <2>1 DEF Waits
      <3>2. \A k \in Sema : Waits(h, k) => pc[h] = S!Point("got", k)
        BY <2>1, <1>2 DEF WaitsOnce
      <3> QED BY <3>1, <3>2, <1>3, PointFacts
    <2>4. /\ units[h][l] = 0 /\ depth[h][l] = 0
      BY <2>1, <2>3, <1>2, <1>3 DEF HolderExact
    <2>5. /\ \A k \in Sema : waiter'[k] = IF k = l THEN r ELSE waiter[k]
          /\ \A u \in Task, k \in Sema :
                units'[u][k] = IF k = l /\ u \in {t, h}
                               THEN IF u = h THEN 1 ELSE 0
                               ELSE units[u][k]
      <3>1. \A k \in Sema : waiter'[k] = IF k = l THEN r ELSE waiter[k]
        BY <2>2, <1>2 DEF SyncType
      <3> DEFINE v == [units EXCEPT ![t][l] = @ - 1]
      <3>2. /\ v \in [Task -> [Sema -> 0 .. 1]]
            /\ \A u \in Task, k \in Sema : v[u][k] = IF k = l /\ u = t THEN 0 ELSE units[u][k]
        BY <1>2, <1>3 DEF SyncType
      <3>3. units' = [v EXCEPT ![h][l] = @ + 1]
        BY <2>2
      <3> HIDE DEF v
      <3>4. v[h][l] = 0
        BY <3>2, <2>1, <2>4
      <3>5. \A u \in Task, k \in Sema : units'[u][k] = IF k = l /\ u = h THEN 1 ELSE v[u][k]
        BY <3>2, <3>3, <3>4, <2>1
      <3> QED BY <3>1, <3>2, <3>5, <2>3
    <2>6. ASSUME NEW u \in Task, NEW k \in Sema
          PROVE  Waits(u, k)' <=> Waits(u, k) /\ ~ (u = h /\ k = l)
      <3>1. Waits(u, k)' <=> In(waiter'[k], u)
        BY DEF Waits
      <3> QED BY <3>1, <2>1, <2>5 DEF Waits
    <2>7. SyncType'
      <3>1. waiter' \in [Sema -> Seq(Task)]
        BY <2>1, <2>2, <1>2 DEF SyncType
      <3>2. units' \in [Task -> [Sema -> 0 .. 1]]
        <4> DEFINE v == [units EXCEPT ![t][l] = @ - 1]
        <4>1. v \in [Task -> [Sema -> 0 .. 1]] /\ v[h][l] = 0
          BY <1>2, <1>3, <2>1, <2>3, <2>4 DEF SyncType
        <4>2. units' = [v EXCEPT ![h][l] = @ + 1]
          BY <2>2
        <4> HIDE DEF v
        <4> QED BY <4>1, <4>2, <2>1
      <3> QED BY <3>1, <3>2, <2>2, <1>1, <1>2, <1>8 DEF SyncType
    <2>8. OneUnit'
      <3> SUFFICES ASSUME NEW k \in Sema
                   PROVE  /\ counter[k] = 1 => \A u \in Task : units'[u][k] = 0
                          /\ \A u, w \in Task : units'[u][k] = 1 /\ units'[w][k] = 1 => u = w
        BY <2>2 DEF OneUnit
      <3>1. CASE k = l
        BY <3>1, <2>5, <1>3
      <3>2. CASE k # l
        BY <3>2, <2>5, <1>2 DEF OneUnit
      <3> QED BY <3>1, <3>2
    <2>9. WaitsOnce'
      <3>1. \A k \in Sema : OnceIn(waiter'[k])
        BY <2>1, <2>5, <1>2 DEF WaitsOnce
      <3>2. \A u \in Task, k \in Sema : Waits(u, k)' => pc'[u] = S!Point("got", k)
        BY <2>6, <1>2, <1>3, <1>4 DEF WaitsOnce
      <3> QED BY <3>1, <3>2 DEF WaitsOnce
    <2>10. UnitWithUser'
      <3> SUFFICES ASSUME NEW u \in Task, NEW k \in Sema
                   PROVE  units'[u][k] = 1 <=>
                              \/ pc'[u] = S!Point("got", k) /\ ~ Waits(u, k)'
                              \/ depth[u][k] > 0
                              \/ pc'[u] \in {S!Point("clear", k), S!Point("up", k)}
        BY <1>1 DEF UnitWithUser
      <3>1. CASE u # t /\ ~ (u = h /\ k = l)
        <4>1. units'[u][k] = units[u][k] /\ pc'[u] = pc[u] /\ (Waits(u, k)' <=> Waits(u, k))
          BY <3>1, <2>5, <2>6, <1>4
        <4> QED BY <4>1, <1>2 DEF UnitWithUser
      <3>2. CASE u = t /\ k = l
        BY <3>2, <1>3, <1>6, <2>3, <2>5
      <3>3. CASE u = t /\ k # l
        BY <3>3, <1>2, <1>6, <1>7, <2>5 DEF UnitWithUser
      <3>4. CASE u = h /\ k = l
        BY <3>4, <1>4, <2>3, <2>5, <2>6
      <3> QED BY <3>1, <3>2, <3>3, <3>4
    <2>11. CountCleared'
      <3> SUFFICES ASSUME NEW k \in Sema
                   PROVE  /\ counter[k] = 1 => reapt_count[k] = 0
                          /\ \A u \in Task : \/ pc'[u] = S!Point("got", k) /\ ~ Waits(u, k)'
                                             \/ pc'[u] = S!Point("up", k)
                                             => reapt_count[k] = 0
        BY <1>1, <2>2 DEF CountCleared
      <3>1. CASE k = l
        BY <3>1, <1>3
      <3>2. CASE k # l
        BY <3>2, <1>2, <1>4, <1>6, <2>6 DEF CountCleared
      <3> QED BY <3>1, <3>2
    <2> QED BY <1>5, <2>7, <2>8, <2>9, <2>10, <2>11 DEF SyncInv
  <1> QED BY <1>9, <1>10

\* A step of any task.
LEMMA SyncStepInv == SyncInv /\ [S!SyncNext]_<<S!svars, S!syncvars>> => SyncInv'
  <1> SUFFICES ASSUME SyncInv, [S!SyncNext]_<<S!svars, S!syncvars>> PROVE SyncInv'
    OBVIOUS
  <1>1. CASE UNCHANGED <<S!svars, S!syncvars>>
    <2>1. UNCHANGED <<counter, waiter, units, holder, reapt_count, pc, depth>>
      BY <1>1 DEF S!svars, S!syncvars
    <2> QED BY <2>1 DEF SyncInv, SyncType, OneUnit, WaitsOnce, UnitWithUser, HolderExact,
               CountCleared, Waits
  <1>2. ASSUME NEW t \in Task, NEW l \in Sema, S!SyncStep(t, l) PROVE SyncInv'
    BY <1>2, DownTakesInv, DownBlocksInv, LockSetInv, NestInv, UnlockHolderInv,
       UnlockCountInv, UnlockUpInv DEF S!SyncStep
  <1> QED BY <1>1, <1>2 DEF S!SyncNext

\* The ASSERTs of sync_lock and sync_unlock never fail, for any number of tasks
\* and locks, however the steps around the semaphore interleave: the count is 0
\* when a new holder sets it, who unlocks is the holder, and the count is the
\* number of its locks.
THEOREM SyncAssertsHold == S!SyncSpec => []AssertsHold
  <1>1. SyncInv => AssertsHold
    <2> SUFFICES ASSUME SyncInv, NEW t \in Task, NEW l \in Sema
                 PROVE  /\ pc[t] = S!Point("got", l) /\ ~ S!Blocked(t) => reapt_count[l] = 0
                        /\ depth[t][l] > 0 => holder[l] = t /\ reapt_count[l] = depth[t][l]
      BY DEF AssertsHold, S!AssertsHold
    <2>1. CountCleared /\ HolderExact
      BY DEF SyncInv
    <2> QED BY <2>1, SyncFacts DEF CountCleared, HolderExact
  <1> QED BY <1>1, SyncInitInv, SyncStepInv, PTL DEF S!SyncSpec

\* A synchronisation lock implements the abstract lock: its holder field is never
\* overwritten while it names a task, and only that task clears it.
THEOREM SyncLockImplementsLock == S!SyncSpec => SyncImplementsLock
  <1>1. S!SyncInit => S!ALock!LockInit
    BY DEF S!SyncInit, S!ALock!LockInit
  <1>2. SyncInv /\ [S!SyncNext]_<<S!svars, S!syncvars>> => [S!ALock!LockNext]_holder
    <2> SUFFICES ASSUME SyncInv, S!SyncNext, holder' # holder PROVE S!ALock!LockNext
      BY DEF S!svars, S!syncvars
    <2>1. PICK t \in Task, l \in Sema : S!SyncStep(t, l)
      BY DEF S!SyncNext
    <2>2. CASE S!LockSet(t, l)
      <3>1. holder[l] = NoTask /\ holder' = [holder EXCEPT ![l] = t]
        BY <2>2, LockSetInv DEF S!LockSet
      <3> QED BY <3>1 DEF S!ALock!LockNext, S!ALock!Acquire
    <2>3. CASE S!UnlockHolder(t, l)
      <3>1. holder[l] = t /\ holder' = [holder EXCEPT ![l] = NoTask]
        BY <2>3, UnlockHolderInv DEF S!UnlockHolder
      <3> QED BY <3>1 DEF S!ALock!LockNext, S!ALock!Release
    <2> QED BY <2>1, <2>2, <2>3 DEF S!SyncStep, S!LockDown, S!LockAgain, S!UnlockInner,
               S!UnlockCount, S!UnlockUp
  <1>3. S!SyncSpec => S!ALock!LockSpec
    BY <1>1, <1>2, SyncInitInv, SyncStepInv, PTL DEF S!SyncSpec, S!ALock!LockSpec
  <1> QED BY <1>3 DEF SyncImplementsLock, S!ImplementsLock

-----------------------------------------------------------------------------
(* The semaphore: nobody sleeps while there is a unit.                     *)

SemaInv ==
    /\ counter \in [Sema -> Nat] /\ waiter \in [Sema -> Seq(Task)]
    /\ \A s \in Sema : counter[s] > 0 => waiter[s] = << >>
    /\ \A s \in Sema : OnceIn(waiter[s])
    /\ \A t \in Task : \A s, r \in Sema : Waits(t, s) /\ Waits(t, r) => s = r

\* A counter that goes down, or up from a list that is empty.
LEMMA CounterInv ==
    ASSUME SemaInv, NEW s \in Sema, NEW n \in Nat, n < counter[s] \/ waiter[s] = << >>,
           counter' = [counter EXCEPT ![s] = n], UNCHANGED waiter
    PROVE  SemaInv'
  <1>1. \A t \in Task, r \in Sema : Waits(t, r)' <=> Waits(t, r)
    BY DEF Waits
  <1>2. /\ counter' \in [Sema -> Nat]
        /\ \A r \in Sema : counter'[r] > 0 => waiter[r] = << >>
    <2>1. counter \in [Sema -> Nat] /\ \A r \in Sema : counter[r] > 0 => waiter[r] = << >>
      BY DEF SemaInv
    <2>2. waiter[s] = << >>
      BY <2>1
    <2> QED BY <2>1, <2>2
  <1> QED BY <1>1, <1>2 DEF SemaInv

\* A task that waits nowhere is linked.
LEMMA BlockInv ==
    ASSUME SemaInv, NEW t \in Task, NEW s \in Sema, ~ S!Blocked(t), ~ (counter[s] > 0),
           waiter' = [waiter EXCEPT ![s] = Append(@, t)], UNCHANGED counter
    PROVE  SemaInv'
  <1>1. \A r \in Sema : ~ Waits(t, r)
    BY SyncFacts
  <1>2. /\ Append(waiter[s], t) \in Seq(Task) /\ OnceIn(Append(waiter[s], t))
        /\ \A u : In(Append(waiter[s], t), u) <=> In(waiter[s], u) \/ u = t
    <2>1. waiter[s] \in Seq(Task) /\ OnceIn(waiter[s]) /\ ~ In(waiter[s], t)
      BY <1>1 DEF SemaInv, Waits
    <2> QED BY <2>1, AddTail
  <1>3. \A r \in Sema : waiter'[r] = IF r = s THEN Append(waiter[s], t) ELSE waiter[r]
    BY DEF SemaInv
  <1>4. ASSUME NEW u \in Task, NEW r \in Sema PROVE Waits(u, r)' <=> Waits(u, r) \/ (u = t /\ r = s)
    <2>1. Waits(u, r)' <=> In(waiter'[r], u)
      BY DEF Waits
    <2> QED BY <2>1, <1>2, <1>3 DEF Waits
  <1>5. waiter' \in [Sema -> Seq(Task)]
    BY <1>2 DEF SemaInv
  <1>6. \A r \in Sema : counter'[r] > 0 => waiter'[r] = << >>
    BY <1>3 DEF SemaInv
  <1>7. \A r \in Sema : OnceIn(waiter'[r])
    BY <1>2, <1>3 DEF SemaInv
  <1>8. \A u \in Task : \A r, k \in Sema : Waits(u, r)' /\ Waits(u, k)' => r = k
    <2>1. \A u \in Task : \A r, k \in Sema : Waits(u, r) /\ Waits(u, k) => r = k
      BY DEF SemaInv
    <2> QED BY <1>1, <1>4, <2>1
  <1> QED BY <1>5, <1>6, <1>7, <1>8 DEF SemaInv

\* Waiters are taken off a list.
LEMMA UnblockInv ==
    ASSUME SemaInv, NEW s \in Sema, NEW l \in Seq(Task), OnceIn(l),
           waiter[s] = << >> => l = << >>,
           \A u : In(l, u) => In(waiter[s], u),
           waiter' = [waiter EXCEPT ![s] = l],
           counter' = counter \/ counter' = [counter EXCEPT ![s] = 0]
    PROVE  SemaInv'
  <1>1. \A r \in Sema : waiter'[r] = IF r = s THEN l ELSE waiter[r]
    BY DEF SemaInv
  <1>2. ASSUME NEW u \in Task, NEW r \in Sema, Waits(u, r)' PROVE Waits(u, r)
    <2>1. Waits(u, r)' <=> In(waiter'[r], u)
      BY DEF Waits
    <2> QED BY <2>1, <1>1, <1>2 DEF Waits
  <1>3. counter' \in [Sema -> Nat] /\ waiter' \in [Sema -> Seq(Task)]
    <2>1. counter \in [Sema -> Nat] /\ waiter \in [Sema -> Seq(Task)]
      BY DEF SemaInv
    <2>2. CASE counter' = counter
      BY <2>1, <2>2
    <2>3. CASE counter' = [counter EXCEPT ![s] = 0]
      BY <2>1, <2>3
    <2> QED BY <2>2, <2>3
  <1>4. \A r \in Sema : counter'[r] > 0 => waiter'[r] = << >>
    <2>1. counter \in [Sema -> Nat] /\ \A r \in Sema : counter[r] > 0 => waiter[r] = << >>
      BY DEF SemaInv
    <2>2. \A r \in Sema : counter'[r] > 0 => counter[r] > 0
      BY <2>1
    <2> QED BY <2>1, <2>2, <1>1
  <1>5. \A r \in Sema : OnceIn(waiter'[r])
    BY <1>1 DEF SemaInv
  <1>6. \A u \in Task : \A r, k \in Sema : Waits(u, r)' /\ Waits(u, k)' => r = k
    BY <1>2 DEF SemaInv
  <1> QED BY <1>3, <1>4, <1>5, <1>6 DEF SemaInv

\* semaphore_up and the signal of a task without a unit.
LEMMA UpInv ==
    ASSUME SemaInv, NEW t, NEW s \in Sema, NEW u, S!Up(t, s, u) PROVE SemaInv'
  <1>1. CASE waiter[s] = << >>
    <2>1. counter[s] + 1 \in Nat /\ counter' = [counter EXCEPT ![s] = counter[s] + 1]
          /\ UNCHANGED waiter
      BY <1>1 DEF S!Up, SemaInv
    <2> QED BY <1>1, <2>1, CounterInv
  <1>2. CASE waiter[s] # << >>
    <2>1. waiter' = [waiter EXCEPT ![s] = Tail(waiter[s])] /\ UNCHANGED counter
      BY <1>2 DEF S!Up
    <2>2. waiter[s] \in Seq(Task) /\ OnceIn(waiter[s])
      BY DEF SemaInv
    <2>3. /\ Tail(waiter[s]) \in Seq(Task) /\ OnceIn(Tail(waiter[s]))
          /\ \A x : In(Tail(waiter[s]), x) => In(waiter[s], x)
      BY <1>2, <2>2, TakeHead
    <2> QED BY <1>2, <2>1, <2>3, UnblockInv
  <1> QED BY <1>1, <1>2

\* A step of any task, of the polling loop, of destroy or of the clock.
LEMMA SemaStepInv == SemaInv /\ [S!Next]_(S!svars) => SemaInv'
  <1> SUFFICES ASSUME SemaInv, [S!Next]_(S!svars) PROVE SemaInv'
    OBVIOUS
  <1>1. ASSUME UNCHANGED <<counter, waiter>> PROVE SemaInv'
    BY <1>1 DEF SemaInv, Waits
  <1>2. ASSUME NEW s, counter[s] > 0, counter' = [counter EXCEPT ![s] = @ - 1], UNCHANGED waiter
        PROVE  SemaInv'
    <2>1. CASE s \in Sema
      <3>1. counter[s] - 1 \in Nat /\ counter[s] - 1 < counter[s]
        BY <1>2, <2>1 DEF SemaInv
      <3>2. counter' = [counter EXCEPT ![s] = counter[s] - 1]
        BY <1>2
      <3> QED BY <3>1, <3>2, <1>2, <2>1, CounterInv
    <2>2. CASE s \notin Sema
      <3>1. UNCHANGED counter
        BY <1>2, <2>2 DEF SemaInv
      <3> QED BY <3>1, <1>1, <1>2
    <2> QED BY <2>1, <2>2
  <1>3. ASSUME NEW t \in Task, NEW s \in Sema, S!SemaStep(t, s) PROVE SemaInv'
    <2>1. CASE S!semaphore_down(t, s)
      <3>1. CASE counter[s] > 0
        BY <2>1, <3>1, <1>2 DEF S!semaphore_down
      <3>2. CASE ~ (counter[s] > 0)
        BY <2>1, <3>2, <1>3, BlockInv DEF S!semaphore_down, S!SemaStep, S!Free
      <3> QED BY <3>1, <3>2
    <2>2. CASE S!semaphore_try_down(t, s)
      BY <2>2, <1>2 DEF S!semaphore_try_down
    <2>3. CASE S!semaphore_up(t, s) \/ S!Signal(t, s)
      BY <2>3, UpInv DEF S!semaphore_up, S!Signal
    <2>4. CASE \E n \in Timeouts : S!down_timeout(t, s, n)
      BY <2>4, <1>1 DEF S!down_timeout
    <2> QED BY <1>3, <2>1, <2>2, <2>3, <2>4 DEF S!SemaStep
  <1>4. ASSUME NEW t \in Task, S!Polling(t) PROVE SemaInv'
    <2>1. CASE S!PollEnd(t)
      BY <1>1, <2>1 DEF S!PollEnd
    <2>2. CASE S!PollTurn(t)
      <3>1. CASE counter[poll[t].sema] > 0
        BY <2>2, <3>1, <1>2 DEF S!PollTurn
      <3>2. CASE ~ (counter[poll[t].sema] > 0)
        BY <2>2, <3>2, <1>1 DEF S!PollTurn
      <3> QED BY <3>1, <3>2
    <2> QED BY <1>4, <2>1, <2>2 DEF S!Polling
  <1>5. ASSUME NEW s \in Sema, S!Destroy(s) PROVE SemaInv'
    <2> DEFINE l == IF counter[s] > 0 THEN << >> ELSE waiter[s]
    <2>1. /\ waiter' = [waiter EXCEPT ![s] = l]
          /\ counter' = [counter EXCEPT ![s] = 0]
      BY <1>5 DEF S!Destroy, S!semaphore_destroy
    <2>2. l \in Seq(Task) /\ OnceIn(l) /\ (waiter[s] = << >> => l = << >>)
          /\ \A u : In(l, u) => In(waiter[s], u)
      BY DEF SemaInv, OnceIn, In
    <2> HIDE DEF l
    <2> QED BY <2>1, <2>2, UnblockInv
  <1>6. CASE S!Tick
    BY <1>1, <1>6 DEF S!Tick
  <1>7. CASE UNCHANGED S!svars
    BY <1>1, <1>7 DEF S!svars
  <1>8. ASSUME NEW t \in Task, S!Trigger(t) PROVE SemaInv'
    BY <1>1, <1>8 DEF S!Trigger
  <1> QED BY <1>3, <1>4, <1>5, <1>6, <1>7, <1>8 DEF S!Next

LEMMA SemaInitInv == S!SemaInit => SemaInv
  <1> SUFFICES ASSUME S!SemaInit PROVE SemaInv
    OBVIOUS
  <1>1. counter = [s \in Sema |-> Value] /\ waiter = [s \in Sema |-> << >>] /\ Value \in Nat
    BY LocksAssumption DEF S!SemaInit, S!SemaphoreConstants
  <1>2. \A t \in Task, s \in Sema : ~ Waits(t, s)
    BY <1>1 DEF Waits, In
  <1>3. \A s \in Sema : OnceIn(waiter[s])
    BY <1>1 DEF OnceIn
  <1> QED BY <1>1, <1>2, <1>3 DEF SemaInv

\* Nobody sleeps in semaphore_down while there is a unit to take, and no task is
\* linked twice.
LEMMA SemaWaits == SemaInv => S!WaitOnlyAtZero
  <1> SUFFICES ASSUME SemaInv PROVE S!WaitOnlyAtZero
    OBVIOUS
  <1>1. ASSUME NEW s1 \in Sema, NEW s2 \in Sema, NEW i \in 1 .. Len(waiter[s1]),
               NEW j \in 1 .. Len(waiter[s2]), waiter[s1][i] = waiter[s2][j]
        PROVE  s1 = s2 /\ i = j
    <2>1. waiter[s1] \in Seq(Task) /\ waiter[s1][i] \in Task
      BY DEF SemaInv
    <2>2. Waits(waiter[s1][i], s1) /\ Waits(waiter[s1][i], s2)
      BY <1>1 DEF Waits, In
    <2>3. s1 = s2
      BY <2>1, <2>2 DEF SemaInv
    <2> QED BY <1>1, <2>3 DEF SemaInv, OnceIn
  <1> QED BY <1>1 DEF SemaInv, S!WaitOnlyAtZero

-----------------------------------------------------------------------------
(* The units of a semaphore.                                               *)

Units == [Task -> [Sema -> Nat]]

\* Held of module Semaphore, for any function of units.
HeldIn(u, s) == UNION {{t} \X (1 .. u[t][s]) : t \in Task}

LEMMA HeldIs ==
    ASSUME NEW u, NEW s
    PROVE  /\ \A p \in HeldIn(u, s) : p = <<p[1], p[2]>> /\ p[1] \in Task
           /\ \A t \in Task : \A k : <<t, k>> \in HeldIn(u, s) <=> k \in 1 .. u[t][s]
  BY DEF HeldIn

\* v is u with one unit more.
OneUp(u, v, t, s) ==
    /\ v[t][s] = u[t][s] + 1
    /\ \A x \in Task, r \in Sema : x # t \/ r # s => v[x][r] = u[x][r]

\* That is one pair more.
LEMMA OneMore ==
    ASSUME NEW u \in Units, NEW v \in Units, NEW t \in Task, NEW s \in Sema, OneUp(u, v, t, s)
    PROVE  /\ \A r \in Sema : r # s => HeldIn(v, r) = HeldIn(u, r)
           /\ IsFiniteSet(HeldIn(u, s)) <=> IsFiniteSet(HeldIn(v, s))
           /\ IsFiniteSet(HeldIn(u, s)) =>
                 Cardinality(HeldIn(v, s)) = Cardinality(HeldIn(u, s)) + 1
  <1>1. \A r \in Sema : r # s => HeldIn(v, r) = HeldIn(u, r)
    BY DEF HeldIn, OneUp
  <1>2. PICK n \in Nat : n = u[t][s]
    BY DEF Units
  <1>3. HeldIn(v, s) = HeldIn(u, s) \cup {<<t, n + 1>>} /\ <<t, n + 1>> \notin HeldIn(u, s)
    <2>1. \A k : k \in 1 .. v[t][s] <=> (k \in 1 .. u[t][s] \/ k = n + 1)
      BY <1>2 DEF OneUp
    <2>2. \A x \in Task : \A k : <<x, k>> \in HeldIn(v, s) <=> (<<x, k>> \in HeldIn(u, s) \/ (x = t /\ k = n + 1))
      <3>1. ASSUME NEW x \in Task, NEW k
            PROVE  /\ <<x, k>> \in HeldIn(u, s) <=> k \in 1 .. u[x][s]
                   /\ <<x, k>> \in HeldIn(v, s) <=> k \in 1 .. v[x][s]
        BY HeldIs
      <3>2. \A x \in Task : x # t => v[x][s] = u[x][s]
        BY DEF OneUp
      <3>3. ASSUME NEW x \in Task, NEW k
            PROVE  k \in 1 .. v[x][s] <=> (k \in 1 .. u[x][s] \/ (x = t /\ k = n + 1))
        BY <2>1, <3>2
      <3> QED BY <3>1, <3>3
    <2>3. <<t, n + 1>> \notin HeldIn(u, s)
      BY <1>2, HeldIs
    <2>4. ASSUME NEW p PROVE p \in HeldIn(v, s) <=> (p \in HeldIn(u, s) \/ p = <<t, n + 1>>)
      <3>1. ASSUME p \in HeldIn(v, s) PROVE p \in HeldIn(u, s) \/ p = <<t, n + 1>>
        <4>1. p = <<p[1], p[2]>> /\ p[1] \in Task
          BY <3>1, HeldIs
        <4> QED BY <4>1, <3>1, <2>2
      <3>2. ASSUME p \in HeldIn(u, s) PROVE p \in HeldIn(v, s)
        <4>1. p = <<p[1], p[2]>> /\ p[1] \in Task
          BY <3>2, HeldIs
        <4> QED BY <4>1, <3>2, <2>2
      <3>3. <<t, n + 1>> \in HeldIn(v, s)
        BY <2>2
      <3> QED BY <3>1, <3>2, <3>3
    <2> QED BY <2>3, <2>4
  <1>4. IsFiniteSet(HeldIn(v, s)) => IsFiniteSet(HeldIn(u, s))
    BY <1>3, FS_Subset
  <1>5. IsFiniteSet(HeldIn(u, s)) =>
           IsFiniteSet(HeldIn(v, s)) /\ Cardinality(HeldIn(v, s)) = Cardinality(HeldIn(u, s)) + 1
    BY <1>3, FS_AddElement
  <1> QED BY <1>1, <1>4, <1>5

Polls == {S!NoPoll} \cup [sema : Sema, t : Int, start : Int]

\* The units of s are where they should be.
Balanced(s) ==
    IsFiniteSet(HeldIn(units, s)) /\ counter[s] + Cardinality(HeldIn(units, s)) = Value + signals[s]

UnitInv ==
    /\ units \in Units /\ signals \in [Sema -> Nat] /\ ticks \in Nat /\ poll \in [Task -> Polls]
    /\ alive \in [Sema -> BOOLEAN]
    /\ \A s \in Sema : alive[s] => Balanced(s)

\* A unit leaves the counter for a task.
LEMMA TakeUnit ==
    ASSUME SemaInv, UnitInv, NEW t \in Task, NEW s \in Sema, counter[s] > 0,
           counter' = [counter EXCEPT ![s] = @ - 1], units' = S!Got(t, s), UNCHANGED <<signals, alive>>
    PROVE  units' \in Units /\ \A r \in Sema : alive'[r] => Balanced(r)'
  <1>1. units' \in Units /\ OneUp(units, units', t, s)
    BY DEF S!Got, UnitInv, Units, OneUp
  <1>2. /\ \A r \in Sema : r # s => HeldIn(units', r) = HeldIn(units, r)
        /\ IsFiniteSet(HeldIn(units, s)) =>
              /\ IsFiniteSet(HeldIn(units', s))
              /\ Cardinality(HeldIn(units', s)) = Cardinality(HeldIn(units, s)) + 1
    BY <1>1, OneMore DEF UnitInv
  <1>3. /\ counter[s] \in Nat /\ counter'[s] = counter[s] - 1
        /\ \A r \in Sema : r # s => counter'[r] = counter[r]
    BY DEF SemaInv
  <1>4. ASSUME NEW r \in Sema, alive'[r] PROVE Balanced(r)'
    <2>1. CASE r = s
      <3>1. IsFiniteSet(HeldIn(units, s)) /\ counter[s] + Cardinality(HeldIn(units, s)) = Value + signals[s]
        BY <1>4, <2>1 DEF UnitInv, Balanced
      <3>2. Cardinality(HeldIn(units, s)) \in Nat
        BY <3>1, FS_CardinalityType
      <3> QED BY <2>1, <3>1, <3>2, <1>2, <1>3 DEF Balanced
    <2>2. CASE r # s
      BY <1>2, <1>3, <1>4, <2>2 DEF UnitInv, Balanced
    <2> QED BY <2>1, <2>2
  <1> QED BY <1>1, <1>4

\* up gives a unit to the counter or to the first waiter.  u: the units without
\* the one that the caller gave up, if it did.
LEMMA GiveUnit ==
    ASSUME SemaInv, UnitInv, NEW t, NEW s \in Sema, NEW u \in Units, S!Up(t, s, u),
           IsFiniteSet(HeldIn(u, s)), signals'[s] \in Nat,
           counter[s] + Cardinality(HeldIn(u, s)) + 1 = Value + signals'[s],
           \A r \in Sema : r # s => HeldIn(u, r) = HeldIn(units, r) /\ signals'[r] = signals[r],
           UNCHANGED alive
    PROVE  units' \in Units /\ \A r \in Sema : alive'[r] => Balanced(r)'
  <1>1. /\ counter[s] \in Nat /\ counter \in [Sema -> Nat] /\ waiter[s] \in Seq(Task)
        /\ Cardinality(HeldIn(u, s)) \in Nat /\ Value \in Nat
    BY FS_CardinalityType, LocksAssumption DEF SemaInv, S!SemaphoreConstants
  <1>2. /\ units' \in Units /\ IsFiniteSet(HeldIn(units', s))
        /\ counter'[s] + Cardinality(HeldIn(units', s)) = Value + signals'[s]
        /\ \A r \in Sema : r # s => HeldIn(units', r) = HeldIn(u, r) /\ counter'[r] = counter[r]
    <2>1. CASE waiter[s] = << >>
      <3>1. units' = u /\ counter'[s] = counter[s] + 1 /\ \A r \in Sema : r # s => counter'[r] = counter[r]
        BY <1>1, <2>1 DEF S!Up
      <3> QED BY <3>1, <1>1
    <2>2. CASE waiter[s] # << >>
      <3>0. PICK h \in Task : h = Head(waiter[s])
        BY <1>1, <2>2
      <3>1. units' = [u EXCEPT ![h][s] = @ + 1] /\ counter' = counter
        BY <2>2, <3>0 DEF S!Up
      <3>2. units' \in Units /\ OneUp(u, units', h, s)
        BY <3>1 DEF Units, OneUp
      <3>3. /\ \A r \in Sema : r # s => HeldIn(units', r) = HeldIn(u, r)
            /\ IsFiniteSet(HeldIn(units', s))
            /\ Cardinality(HeldIn(units', s)) = Cardinality(HeldIn(u, s)) + 1
        BY <3>2, OneMore
      <3>4. \A r \in Sema : counter'[r] = counter[r]
        BY <3>1
      <3>5. counter'[s] + Cardinality(HeldIn(units', s)) = Value + signals'[s]
        BY <3>3, <3>4, <1>1
      <3> QED BY <3>2, <3>3, <3>4, <3>5
    <2> QED BY <2>1, <2>2
  <1>3. ASSUME NEW r \in Sema, alive'[r] PROVE Balanced(r)'
    <2>1. CASE r = s
      BY <1>2, <2>1 DEF Balanced
    <2>2. CASE r # s
      BY <1>2, <1>3, <2>2 DEF Balanced, UnitInv
    <2> QED BY <2>1, <2>2
  <1> QED BY <1>2, <1>3

LEMMA UpUnits ==
    ASSUME SemaInv, UnitInv, NEW t \in Task, NEW s \in Sema, alive[s],
           S!semaphore_up(t, s) \/ S!Signal(t, s)
    PROVE  UnitInv'
  <1>1. /\ IsFiniteSet(HeldIn(units, s)) /\ counter[s] + Cardinality(HeldIn(units, s)) = Value + signals[s]
        /\ Cardinality(HeldIn(units, s)) \in Nat /\ counter[s] \in Nat
        /\ signals[s] \in Nat /\ units[t][s] \in Nat /\ Value \in Nat
    <2>1. IsFiniteSet(HeldIn(units, s)) /\ counter[s] + Cardinality(HeldIn(units, s)) = Value + signals[s]
      BY DEF UnitInv, Balanced
    <2> QED BY <2>1, FS_CardinalityType, LocksAssumption DEF UnitInv, SemaInv, Units, S!SemaphoreConstants
  <1>2. signals' \in [Sema -> Nat] /\ UNCHANGED <<alive, ticks, poll>>
    BY DEF UnitInv, S!semaphore_up, S!Signal
  <1>3. units' \in Units /\ \A r \in Sema : alive'[r] => Balanced(r)'
    <2>1. CASE S!semaphore_up(t, s)
      <3>1. PICK u : u = [units EXCEPT ![t][s] = @ - 1]
        OBVIOUS
      <3>2. S!Up(t, s, u) /\ units[t][s] > 0 /\ UNCHANGED <<alive, signals>>
        BY <2>1, <3>1 DEF S!semaphore_up
      <3>3. units[t][s] - 1 \in Nat
        BY <1>1, <3>2
      <3>4. u \in Units /\ OneUp(u, units, t, s)
        BY <1>1, <3>1, <3>3 DEF UnitInv, Units, OneUp
      <3>5. units \in Units
        BY DEF UnitInv
      <3>6. /\ \A r \in Sema : r # s => HeldIn(units, r) = HeldIn(u, r)
            /\ IsFiniteSet(HeldIn(u, s)) /\ Cardinality(HeldIn(units, s)) = Cardinality(HeldIn(u, s)) + 1
        BY <1>1, <3>4, <3>5, OneMore
      <3>7. Cardinality(HeldIn(u, s)) \in Nat
        BY <3>6, FS_CardinalityType
      <3>8. signals'[s] \in Nat /\ counter[s] + Cardinality(HeldIn(u, s)) + 1 = Value + signals'[s]
        BY <1>1, <3>2, <3>6, <3>7
      <3> QED BY <3>2, <3>4, <3>6, <3>8, GiveUnit
    <2>2. CASE S!Signal(t, s)
      <3>1. S!Up(t, s, units) /\ UNCHANGED alive /\ signals' = [signals EXCEPT ![s] = @ + 1]
        BY <2>2 DEF S!Signal
      <3>2. units \in Units /\ signals \in [Sema -> Nat]
        BY DEF UnitInv
      <3>3. signals'[s] = signals[s] + 1 /\ \A r \in Sema : r # s => signals'[r] = signals[r]
        BY <3>1, <3>2
      <3>4. signals'[s] \in Nat /\ counter[s] + Cardinality(HeldIn(units, s)) + 1 = Value + signals'[s]
        BY <1>1, <3>3
      <3> QED BY <1>1, <3>1, <3>2, <3>3, <3>4, GiveUnit
    <2> QED BY <2>1, <2>2
  <1> QED BY <1>2, <1>3 DEF UnitInv

\* A step that moves no unit.
LEMMA UnitsStay ==
    ASSUME UnitInv, UNCHANGED <<counter, units, alive, signals>>, ticks' \in Nat, poll' \in [Task -> Polls]
    PROVE  UnitInv'
  BY DEF UnitInv, Balanced

\* One turn of the loop of semaphore_down_timeout, or its end.
LEMMA PollUnits ==
    ASSUME SemaInv, UnitInv, NEW t \in Task, S!Polling(t) PROVE UnitInv'
  <1>0. ticks \in Nat /\ Clocks \in Nat \ {0} /\ poll \in [Task -> Polls]
    BY LocksAssumption DEF UnitInv, S!SemaphoreConstants
  <1>1. poll[t] \in [sema : Sema, t : Int, start : Int]
    BY <1>0 DEF S!Polling, Polls
  <1>2. [poll EXCEPT ![t] = S!NoPoll] \in [Task -> Polls]
    BY <1>0 DEF Polls
  <1>3. CASE S!PollEnd(t)
    BY <1>0, <1>2, <1>3, UnitsStay DEF S!PollEnd
  <1>4. CASE S!PollTurn(t)
    <2> DEFINE p == poll[t]
               left == IF ticks > p.start THEN (p.t - (ticks - p.start)) % Clocks ELSE p.t
               start == IF ticks > p.start THEN ticks ELSE p.start
    <2>0. p.sema \in Sema /\ p.t \in Int /\ p.start \in Int
      BY <1>1
    <2>1. CASE counter[p.sema] > 0
      <3>1. /\ counter' = [counter EXCEPT ![p.sema] = @ - 1] /\ units' = S!Got(t, p.sema)
            /\ poll' = [poll EXCEPT ![t] = S!NoPoll] /\ UNCHANGED <<alive, signals, ticks>>
        BY <1>4, <2>1 DEF S!PollTurn
      <3> HIDE DEF p
      <3>2. units' \in Units /\ \A r \in Sema : alive'[r] => Balanced(r)'
        BY <2>0, <2>1, <3>1, TakeUnit
      <3> QED BY <1>2, <3>1, <3>2 DEF UnitInv
    <2>2. CASE ~ (counter[p.sema] > 0)
      <3>1. /\ poll' = [poll EXCEPT ![t].t = left, ![t].start = start]
            /\ UNCHANGED <<counter, units, alive, signals, ticks>>
        BY <1>4, <2>2 DEF S!PollTurn
      <3>2. left \in Int /\ start \in Int
        BY <1>0, <2>0
      <3> HIDE DEF left, start
      <3>3. poll' \in [Task -> Polls]
        BY <1>0, <1>1, <3>1, <3>2 DEF Polls
      <3> QED BY <1>0, <3>1, <3>3, UnitsStay
    <2> QED BY <2>1, <2>2
  <1> QED BY <1>3, <1>4 DEF S!Polling

\* A step of any task, of the polling loop, of destroy or of the clock.
LEMMA UnitStepInv == SemaInv /\ UnitInv /\ [S!Next]_(S!svars) => UnitInv'
  <1> SUFFICES ASSUME SemaInv, UnitInv, [S!Next]_(S!svars) PROVE UnitInv'
    OBVIOUS
  <1>0. ticks \in Nat /\ Clocks \in Nat \ {0} /\ Timeouts \subseteq Int /\ poll \in [Task -> Polls]
    BY LocksAssumption DEF UnitInv, S!SemaphoreConstants
  <1>1. ASSUME NEW t \in Task, NEW s \in Sema, S!SemaStep(t, s) PROVE UnitInv'
    <2>1. ASSUME counter[s] > 0, counter' = [counter EXCEPT ![s] = @ - 1], units' = S!Got(t, s),
                 UNCHANGED <<alive, signals, ticks, poll>>
          PROVE  UnitInv'
      <3>1. units' \in Units /\ \A r \in Sema : alive'[r] => Balanced(r)'
        BY <2>1, TakeUnit
      <3> QED BY <2>1, <3>1 DEF UnitInv
    <2>2. CASE S!semaphore_down(t, s) \/ S!semaphore_try_down(t, s)
      BY <1>0, <2>1, <2>2, UnitsStay DEF S!semaphore_down, S!semaphore_try_down
    <2>3. CASE S!semaphore_up(t, s) \/ S!Signal(t, s)
      BY <1>1, <2>3, UpUnits DEF S!SemaStep
    <2>4. CASE \E n \in Timeouts : S!down_timeout(t, s, n)
      <3>1. PICK n \in Timeouts : S!down_timeout(t, s, n)
        BY <2>4
      <3>2. poll' \in [Task -> Polls]
        BY <1>0, <3>1 DEF S!down_timeout, Polls
      <3> QED BY <1>0, <3>1, <3>2, UnitsStay DEF S!down_timeout
    <2> QED BY <1>1, <2>2, <2>3, <2>4 DEF S!SemaStep
  <1>2. ASSUME NEW s \in Sema, S!Destroy(s) PROVE UnitInv'
    <2>1. /\ counter' = [counter EXCEPT ![s] = 0] /\ alive' = [alive EXCEPT ![s] = FALSE]
          /\ UNCHANGED <<units, signals, ticks, poll>>
      BY <1>2 DEF S!Destroy, S!semaphore_destroy
    <2>2. alive' \in [Sema -> BOOLEAN] /\ ~ alive'[s]
      BY <2>1 DEF UnitInv
    <2>3. \A r \in Sema : r # s => counter'[r] = counter[r] /\ alive'[r] = alive[r]
      BY <2>1 DEF UnitInv, SemaInv
    <2> QED BY <2>1, <2>2, <2>3 DEF UnitInv, Balanced
  <1>3. CASE S!Tick
    <2>1. ticks' \in Nat
      BY <1>0, <1>3 DEF S!Tick
    <2> QED BY <1>0, <1>3, <2>1, UnitsStay DEF S!Tick
  <1>4. CASE UNCHANGED S!svars
    BY <1>0, <1>4, UnitsStay DEF S!svars
  <1>5. ASSUME NEW t \in Task, S!Trigger(t) PROVE UnitInv'
    BY <1>0, <1>5, UnitsStay DEF S!Trigger
  <1> QED BY <1>1, <1>2, <1>3, <1>4, <1>5, PollUnits DEF S!Next

\* A unit is in the counter or with a task, and nobody sleeps while there is one,
\* for any number of tasks and semaphores, with up, signals, polls that time out
\* and semaphore_destroy going on, until a trigger makes a waiter return without
\* one.
THEOREM SemaphoreUnitsExact == S!Spec => []SemaphoreExact
  <1>1. S!SemaInit => UnitInv
    <2> SUFFICES ASSUME S!SemaInit PROVE UnitInv
      OBVIOUS
    <2>1. /\ Value \in Nat /\ counter = [s \in Sema |-> Value] /\ ticks = 0
          /\ poll = [t \in Task |-> S!NoPoll]
          /\ units = [t \in Task |-> [s \in Sema |-> 0]] /\ signals = [s \in Sema |-> 0]
          /\ alive = [s \in Sema |-> TRUE]
      BY LocksAssumption DEF S!SemaInit, S!SemaphoreConstants
    <2>2. ASSUME NEW s \in Sema PROVE HeldIn(units, s) = {}
      BY <2>1 DEF HeldIn
    <2>3. \A s \in Sema : Balanced(s)
      BY <2>1, <2>2, FS_EmptySet DEF Balanced
    <2> QED BY <2>1, <2>3 DEF UnitInv, Units, Polls
  <1>2. UnitInv => S!Conservation
    <2>1. \A s : S!Held(s) = HeldIn(units, s)
      BY DEF S!Held, HeldIn
    <2>2. \A X : S!Cardinality(X) = Cardinality(X)
      BY DEF S!Cardinality, Cardinality
    <2> QED BY <2>1, <2>2 DEF UnitInv, Balanced, S!Conservation
  <1> QED BY <1>1, <1>2, SemaInitInv, SemaWaits, SemaStepInv, UnitStepInv, PTL
          DEF S!Spec, SemaphoreExact, S!SemaphoreExact
=============================================================================
