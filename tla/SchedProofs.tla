---------------------------- MODULE SchedProofs ----------------------------
(***************************************************************************)
(* Proofs about the scheduler, for every set of tasks and every length of  *)
(* the time slice.  The two lemmas AddTail and FetchFirst say what the     *)
(* queue operations do to the relation between queues and task states; the *)
(* steps of the scheduler are combinations of the two.                     *)
(***************************************************************************)
EXTENDS Sched, TLAPS

\* The queues of a unit u agree with states st and priorities pr.
QueueType(u) ==
    u \in [queue : [Priority -> Seq(Task)], length : [Priority -> Int],
           dynamic_priority : Priority, cur : Task]

Counted(u) == \A p \in Priority : u.length[p] = Len(u.queue[p])

Sound(u, st, pr) ==
    \A p \in Priority : \A i \in 1 .. Len(u.queue[p]) :
        st[u.queue[p][i]] = "READY" /\ pr[u.queue[p][i]] = p

Unique(u) ==
    \A p \in Priority : \A i, j \in 1 .. Len(u.queue[p]) :
        u.queue[p][i] = u.queue[p][j] => i = j

Complete(u, st, pr) ==
    \A t \in Task : st[t] = "READY" =>
        \E i \in 1 .. Len(u.queue[pr[t]]) : u.queue[pr[t]][i] = t

EmptyAbove(u) == \A p \in Priority : p < u.dynamic_priority => u.length[p] = 0

QueuesOK(u, st, pr) ==
    /\ QueueType(u)
    /\ st \in [Task -> TaskState]
    /\ pr \in [Task -> Priority]
    /\ Counted(u)
    /\ Sound(u, st, pr)
    /\ Unique(u)
    /\ Complete(u, st, pr)
    /\ EmptyAbove(u)

\* The inductive invariant: the queues agree with the states, the current
\* task is the only RUNNING one, and kmain never leaves the CPU for good.
SchedInv ==
    /\ TypeOK
    /\ QueuesMatchStates
    /\ NothingAboveDynamic
    /\ KmainRuns

-----------------------------------------------------------------------------
\* Linking a task that is not READY, at the level it then has, keeps the
\* queues in agreement (task_priority_queue_add_tail).
LEMMA AddTail ==
    ASSUME NEW u, NEW st, NEW pr, QueuesOK(u, st, pr),
           NEW t \in Task, st[t] # "READY", NEW p \in Priority
    PROVE  /\ QueuesOK(task_priority_queue_add_tail(u, t, p),
                       [st EXCEPT ![t] = "READY"], [pr EXCEPT ![t] = p])
           /\ task_priority_queue_add_tail(u, t, p).cur = u.cur
<1> DEFINE v == task_priority_queue_add_tail(u, t, p)
           st2 == [st EXCEPT ![t] = "READY"]
           pr2 == [pr EXCEPT ![t] = p]
<1>0. QueueType(u) /\ st \in [Task -> TaskState] /\ pr \in [Task -> Priority]
  BY DEF QueuesOK
<1>1. v = [queue |-> [u.queue EXCEPT ![p] = Append(@, t)],
           length |-> [u.length EXCEPT ![p] = @ + 1],
           dynamic_priority |-> Lower(p, u.dynamic_priority),
           cur |-> u.cur]
  BY DEF task_priority_queue_add_tail
<1>2. Lower(p, u.dynamic_priority) \in Priority
  BY <1>0 DEF Lower, QueueType
<1>3. /\ v.queue[p] = Append(u.queue[p], t)
      /\ \A q \in Priority : q # p => v.queue[q] = u.queue[q]
      /\ v.length[p] = u.length[p] + 1
      /\ \A q \in Priority : q # p => v.length[q] = u.length[q]
      /\ v.dynamic_priority = Lower(p, u.dynamic_priority)
      /\ v.cur = u.cur
  BY <1>0, <1>1 DEF QueueType
<1>4. QueueType(v)
  <2>1. [u.queue EXCEPT ![p] = Append(@, t)] \in [Priority -> Seq(Task)]
    BY <1>0 DEF QueueType
  <2>2. [u.length EXCEPT ![p] = @ + 1] \in [Priority -> Int]
    BY <1>0 DEF QueueType
  <2> QED BY <2>1, <2>2, <1>0, <1>1, <1>2 DEF QueueType
<1>5. /\ u.queue[p] \in Seq(Task)
      /\ Len(v.queue[p]) = Len(u.queue[p]) + 1
      /\ v.queue[p][Len(u.queue[p]) + 1] = t
      /\ \A i \in 1 .. Len(u.queue[p]) : v.queue[p][i] = u.queue[p][i]
  BY <1>0, <1>3 DEF QueueType
<1>6. \A q \in Priority : \A i \in 1 .. Len(u.queue[q]) :
          u.queue[q][i] \in Task /\ u.queue[q][i] # t
  <2> TAKE q \in Priority
  <2> TAKE i \in 1 .. Len(u.queue[q])
  <2>1. u.queue[q] \in Seq(Task)
    BY <1>0 DEF QueueType
  <2> QED BY <2>1 DEF QueuesOK, Sound
<1>7. st2 \in [Task -> TaskState] /\ pr2 \in [Task -> Priority]
  BY <1>0 DEF TaskState
<1>8. Counted(v)
  BY <1>3, <1>5 DEF Counted, QueuesOK
<1>9. Sound(v, st2, pr2)
  <2> SUFFICES ASSUME NEW q \in Priority, NEW i \in 1 .. Len(v.queue[q])
               PROVE  st2[v.queue[q][i]] = "READY" /\ pr2[v.queue[q][i]] = q
    BY DEF Sound
  <2>1. CASE q # p
    BY <2>1, <1>0, <1>3, <1>6 DEF QueuesOK, Sound
  <2>2. CASE q = p /\ i <= Len(u.queue[p])
    <3>1. i \in 1 .. Len(u.queue[p]) BY <2>2, <1>5
    <3> QED BY <2>2, <3>1, <1>0, <1>5, <1>6 DEF QueuesOK, Sound
  <2>3. CASE q = p /\ i > Len(u.queue[p])
    <3>1. i = Len(u.queue[p]) + 1 BY <2>3, <1>5
    <3> QED BY <2>3, <3>1, <1>0, <1>5
  <2> QED BY <2>1, <2>2, <2>3, <1>5
<1>10. Unique(v)
  <2> SUFFICES ASSUME NEW q \in Priority, NEW i \in 1 .. Len(v.queue[q]),
                      NEW j \in 1 .. Len(v.queue[q]),
                      v.queue[q][i] = v.queue[q][j]
               PROVE  i = j
    BY DEF Unique
  <2>1. CASE q # p
    BY <2>1, <1>3 DEF QueuesOK, Unique
  <2>2. CASE q = p
    <3>1. i \in 1 .. Len(u.queue[p]) \/ i = Len(u.queue[p]) + 1
      BY <2>2, <1>5
    <3>2. j \in 1 .. Len(u.queue[p]) \/ j = Len(u.queue[p]) + 1
      BY <2>2, <1>5
    <3>3. CASE i \in 1 .. Len(u.queue[p]) /\ j \in 1 .. Len(u.queue[p])
      <4>1. u.queue[p][i] = u.queue[p][j]
        BY <2>2, <3>3, <1>5
      <4> QED BY <3>3, <4>1 DEF QueuesOK, Unique
    <3>4. ASSUME NEW a \in 1 .. Len(u.queue[p])
          PROVE  v.queue[p][a] # v.queue[p][Len(u.queue[p]) + 1]
      <4>1. u.queue[p][a] # t
        BY <1>6
      <4> QED BY <4>1, <1>5
    <3> QED BY <2>2, <3>1, <3>2, <3>3, <3>4
  <2> QED BY <2>1, <2>2
<1>11. Complete(v, st2, pr2)
  <2> SUFFICES ASSUME NEW x \in Task, st2[x] = "READY"
               PROVE  \E i \in 1 .. Len(v.queue[pr2[x]]) : v.queue[pr2[x]][i] = x
    BY DEF Complete
  <2>1. CASE x = t
    <3>1. pr2[x] = p BY <2>1, <1>0
    <3>2. Len(u.queue[p]) + 1 \in 1 .. Len(v.queue[p]) BY <1>5
    <3> QED BY <2>1, <3>1, <3>2, <1>5
  <2>2. CASE x # t
    <3>1. pr2[x] = pr[x] /\ st[x] = "READY" BY <2>2, <1>0
    <3>2. PICK i \in 1 .. Len(u.queue[pr[x]]) : u.queue[pr[x]][i] = x
      BY <3>1 DEF QueuesOK, Complete
    <3>3. CASE pr[x] = p
      BY <3>1, <3>2, <3>3, <1>5
    <3>4. CASE pr[x] # p
      BY <3>1, <3>2, <3>4, <1>0, <1>3
    <3> QED BY <3>3, <3>4
  <2> QED BY <2>1, <2>2
<1>12. EmptyAbove(v)
  <2>1. /\ EmptyAbove(u) /\ u.dynamic_priority \in Int /\ p \in Int
        /\ \A q \in Priority : q \in Int
    BY <1>0 DEF QueuesOK, QueueType, Priority, MAX_PRIORITY_NR
  <2>2. \A q \in Priority : q < Lower(p, u.dynamic_priority) => q # p /\ q < u.dynamic_priority
    BY <2>1 DEF Lower
  <2> QED BY <2>1, <2>2, <1>3 DEF EmptyAbove
<1> QED BY <1>3, <1>4, <1>7, <1>8, <1>9, <1>10, <1>11, <1>12 DEF QueuesOK

\* When some task is READY, fetch_first finds one, inside the array; it is of
\* the best priority there is, and unlinking it keeps the agreement.
LEMMA FetchFirst ==
    ASSUME NEW u, NEW st, NEW pr, QueuesOK(u, st, pr),
           NEW r \in Task, st[r] = "READY",
           NEW s \in TaskState, s # "READY"
    PROVE  LET v == task_priority_queue_fetch_first(u)
           IN  /\ CanFetch(u)
               /\ v.cur \in Task
               /\ st[v.cur] = "READY"
               /\ \A t \in Task : st[t] = "READY" => pr[v.cur] <= pr[t]
               /\ QueuesOK(v, [st EXCEPT ![v.cur] = s], pr)
<1> DEFINE v == task_priority_queue_fetch_first(u)
           l == Level(u)
           n == Head(u.queue[l])
           st2 == [st EXCEPT ![n] = s]
<1>0. QueueType(u) /\ st \in [Task -> TaskState] /\ pr \in [Task -> Priority]
  BY DEF QueuesOK
<1>1. \A p \in Priority : /\ u.queue[p] \in Seq(Task)
                           /\ u.length[p] = Len(u.queue[p])
                           /\ Len(u.queue[p]) \in Nat
  BY <1>0 DEF QueueType, QueuesOK, Counted
<1>2. pr[r] \in Priority /\ u.length[pr[r]] # 0 /\ u.dynamic_priority <= pr[r]
  <2>1. pr[r] \in Priority /\ u.dynamic_priority \in Priority
    BY <1>0 DEF QueueType
  <2>2. PICK i \in 1 .. Len(u.queue[pr[r]]) : u.queue[pr[r]][i] = r
    BY DEF QueuesOK, Complete
  <2>3. u.length[pr[r]] # 0
    BY <1>1, <2>1, <2>2
  <2> QED BY <2>1, <2>3 DEF QueuesOK, EmptyAbove, Priority, MAX_PRIORITY_NR
<1>3. \E m \in Priority : IsLevel(u, m)
  <2> DEFINE Q(m) == u.dynamic_priority <= m /\ u.length[m] # 0
  <2>1. Q(0) \/ Q(1) \/ Q(2) \/ Q(3)
    BY <1>2 DEF Priority, MAX_PRIORITY_NR
  <2>2. u.dynamic_priority \in 0 .. 3
    BY <1>0 DEF QueueType, Priority, MAX_PRIORITY_NR
  <2>3. CASE Q(0)
    <3>1. IsLevel(u, 0)
      BY <2>2, <2>3 DEF IsLevel, Priority, MAX_PRIORITY_NR
    <3> QED BY <3>1 DEF Priority, MAX_PRIORITY_NR
  <2>4. CASE ~Q(0) /\ Q(1)
    <3>1. IsLevel(u, 1)
      BY <2>2, <2>4 DEF IsLevel, Priority, MAX_PRIORITY_NR
    <3> QED BY <3>1 DEF Priority, MAX_PRIORITY_NR
  <2>5. CASE ~Q(0) /\ ~Q(1) /\ Q(2)
    <3>1. IsLevel(u, 2)
      BY <2>2, <2>5 DEF IsLevel, Priority, MAX_PRIORITY_NR
    <3> QED BY <3>1 DEF Priority, MAX_PRIORITY_NR
  <2>6. CASE ~Q(0) /\ ~Q(1) /\ ~Q(2) /\ Q(3)
    <3>1. IsLevel(u, 3)
      BY <2>2, <2>6 DEF IsLevel, Priority, MAX_PRIORITY_NR
    <3> QED BY <3>1 DEF Priority, MAX_PRIORITY_NR
  <2> QED BY <2>1, <2>3, <2>4, <2>5, <2>6
<1>4. l \in Priority /\ IsLevel(u, l)
  BY <1>3 DEF Level
<1>5. u.queue[l] \in Seq(Task) /\ u.queue[l] # << >>
  BY <1>1, <1>4 DEF IsLevel
<1>6. CanFetch(u)
  BY <1>4, <1>5 DEF CanFetch
<1>7. v = [queue |-> [u.queue EXCEPT ![l] = Tail(@)],
           length |-> [u.length EXCEPT ![l] = @ - 1],
           dynamic_priority |-> l,
           cur |-> n]
  BY DEF task_priority_queue_fetch_first
<1>8. n \in Task /\ n = u.queue[l][1] /\ 1 \in 1 .. Len(u.queue[l])
  BY <1>5
<1>9. st[n] = "READY" /\ pr[n] = l
  BY <1>4, <1>8 DEF QueuesOK, Sound
<1>10. /\ v.queue[l] = Tail(u.queue[l])
       /\ \A q \in Priority : q # l => v.queue[q] = u.queue[q]
       /\ v.length[l] = u.length[l] - 1
       /\ \A q \in Priority : q # l => v.length[q] = u.length[q]
       /\ v.dynamic_priority = l
       /\ v.cur = n
  BY <1>0, <1>4, <1>7 DEF QueueType
<1>11. \A p \in Priority : p < l => u.length[p] = 0
  BY <1>0, <1>4 DEF IsLevel, QueuesOK, EmptyAbove, QueueType, Priority, MAX_PRIORITY_NR
<1>12. \A t \in Task : st[t] = "READY" => pr[n] <= pr[t]
  <2> SUFFICES ASSUME NEW t \in Task, st[t] = "READY" PROVE l <= pr[t]
    BY <1>9
  <2>1. PICK i \in 1 .. Len(u.queue[pr[t]]) : u.queue[pr[t]][i] = t
    BY DEF QueuesOK, Complete
  <2>2. pr[t] \in Priority BY <1>0
  <2>3. u.length[pr[t]] # 0 BY <1>1, <2>1, <2>2
  <2> QED BY <1>4, <1>11, <2>2, <2>3 DEF Priority, MAX_PRIORITY_NR
<1>13. QueueType(v)
  <2>1. [u.queue EXCEPT ![l] = Tail(@)] \in [Priority -> Seq(Task)]
    <3>1. Tail(u.queue[l]) \in Seq(Task) BY <1>5
    <3> QED BY <3>1, <1>0, <1>4 DEF QueueType
  <2>2. [u.length EXCEPT ![l] = @ - 1] \in [Priority -> Int]
    BY <1>0, <1>4 DEF QueueType
  <2> QED BY <2>1, <2>2, <1>4, <1>7, <1>8 DEF QueueType
<1>14. /\ Len(v.queue[l]) = Len(u.queue[l]) - 1
       /\ \A i \in 1 .. Len(v.queue[l]) : v.queue[l][i] = u.queue[l][i + 1]
       /\ \A i \in 1 .. Len(v.queue[l]) : i + 1 \in 1 .. Len(u.queue[l])
  BY <1>5, <1>10
<1>15. st2 \in [Task -> TaskState]
  BY <1>0
<1>16. Counted(v)
  BY <1>1, <1>4, <1>10, <1>14 DEF Counted
<1>17. Sound(v, st2, pr)
  <2> SUFFICES ASSUME NEW q \in Priority, NEW i \in 1 .. Len(v.queue[q])
               PROVE  st2[v.queue[q][i]] = "READY" /\ pr[v.queue[q][i]] = q
    BY DEF Sound
  <2>1. CASE q # l
    <3>1. i \in 1 .. Len(u.queue[q]) /\ v.queue[q][i] = u.queue[q][i]
      BY <2>1, <1>10
    <3>2. st[v.queue[q][i]] = "READY" /\ pr[v.queue[q][i]] = q
      BY <3>1 DEF QueuesOK, Sound
    <3>3. v.queue[q][i] \in Task BY <3>1, <1>1
    <3>4. v.queue[q][i] # n BY <2>1, <3>2, <1>9
    <3> QED BY <3>2, <3>3, <3>4, <1>0
  <2>2. CASE q = l
    <3>1. i + 1 \in 1 .. Len(u.queue[l]) /\ v.queue[q][i] = u.queue[l][i + 1]
      BY <2>2, <1>14
    <3>2. st[v.queue[q][i]] = "READY" /\ pr[v.queue[q][i]] = q
      BY <2>2, <3>1 DEF QueuesOK, Sound
    <3>3. v.queue[q][i] \in Task BY <3>1, <1>5
    <3>4. i \in Nat /\ i >= 1 BY <2>2, <1>14, <1>5
    <3>5. v.queue[q][i] # n
      BY <2>2, <3>1, <3>4, <1>4, <1>8 DEF QueuesOK, Unique
    <3> QED BY <3>2, <3>3, <3>5, <1>0
  <2> QED BY <2>1, <2>2
<1>18. Unique(v)
  <2> SUFFICES ASSUME NEW q \in Priority, NEW i \in 1 .. Len(v.queue[q]),
                      NEW j \in 1 .. Len(v.queue[q]),
                      v.queue[q][i] = v.queue[q][j]
               PROVE  i = j
    BY DEF Unique
  <2>1. CASE q # l
    BY <2>1, <1>10 DEF QueuesOK, Unique
  <2>2. CASE q = l
    <3>1. /\ i + 1 \in 1 .. Len(u.queue[l])
          /\ j + 1 \in 1 .. Len(u.queue[l])
          /\ u.queue[l][i + 1] = u.queue[l][j + 1]
      BY <2>2, <1>14
    <3>2. i + 1 = j + 1
      BY <3>1, <1>4 DEF QueuesOK, Unique
    <3> QED BY <3>2, <2>2, <1>14, <1>5
  <2> QED BY <2>1, <2>2
<1>19. Complete(v, st2, pr)
  <2> SUFFICES ASSUME NEW x \in Task, st2[x] = "READY"
               PROVE  \E i \in 1 .. Len(v.queue[pr[x]]) : v.queue[pr[x]][i] = x
    BY DEF Complete
  <2>1. x # n /\ st[x] = "READY" BY <1>0, <1>8
  <2>2. PICK i \in 1 .. Len(u.queue[pr[x]]) : u.queue[pr[x]][i] = x
    BY <2>1 DEF QueuesOK, Complete
  <2>3. pr[x] \in Priority BY <1>0
  <2>4. CASE pr[x] # l
    BY <2>2, <2>3, <2>4, <1>10
  <2>5. CASE pr[x] = l
    <3>1. i # 1 BY <2>1, <2>2, <2>5, <1>8
    <3>2. i - 1 \in 1 .. Len(v.queue[l]) BY <2>2, <2>5, <3>1, <1>5, <1>14
    <3>3. v.queue[l][i - 1] = u.queue[l][(i - 1) + 1] BY <3>2, <1>14
    <3>4. (i - 1) + 1 = i BY <2>2
    <3> QED BY <2>2, <2>5, <3>2, <3>3, <3>4
  <2> QED BY <2>4, <2>5
<1>20. EmptyAbove(v)
  BY <1>4, <1>10, <1>11 DEF EmptyAbove, Priority, MAX_PRIORITY_NR
<1>21. QueuesOK(v, st2, pr)
  BY <1>0, <1>13, <1>15, <1>16, <1>17, <1>18, <1>19, <1>20 DEF QueuesOK
<1> QED BY <1>6, <1>8, <1>9, <1>10, <1>12, <1>21

\* The states of tasks that are not READY do not matter to the queues.
LEMMA ChangeState ==
    ASSUME NEW u, NEW st, NEW pr, QueuesOK(u, st, pr),
           NEW t \in Task, st[t] # "READY",
           NEW s \in TaskState, s # "READY"
    PROVE  QueuesOK(u, [st EXCEPT ![t] = s], pr)
<1> DEFINE st2 == [st EXCEPT ![t] = s]
<1>0. QueueType(u) /\ st \in [Task -> TaskState] /\ pr \in [Task -> Priority]
  BY DEF QueuesOK
<1>1. st2 \in [Task -> TaskState]
  BY <1>0
<1>2. \A x \in Task : st2[x] = "READY" <=> st[x] = "READY"
  BY <1>0
<1>3. \A p \in Priority : \A i \in 1 .. Len(u.queue[p]) : u.queue[p][i] \in Task
  <2> TAKE p \in Priority
  <2>1. u.queue[p] \in Seq(Task) BY <1>0 DEF QueueType
  <2> QED BY <2>1
<1>4. Sound(u, st2, pr)
  BY <1>2, <1>3 DEF Sound, QueuesOK
<1>5. Complete(u, st2, pr)
  BY <1>2 DEF Complete, QueuesOK
<1> QED BY <1>0, <1>1, <1>4, <1>5 DEF QueuesOK

\* The invariant in the terms of the lemmas, before and after a step.
LEMMA InvQueues ==
    SchedInv <=> /\ TypeOK
                 /\ QueuesOK(su, state, priority)
                 /\ OneRunning
                 /\ KmainRuns
BY DEF SchedInv, TypeOK, QueuesMatchStates, QueuesOK, QueueType, Counted, Sound,
       Unique, Complete, EmptyAbove, LengthCountsTasks, QueuedAreReady,
       NoDoubleLink, ReadyAreQueued, NothingAboveDynamic

LEMMA InvFromParts ==
    ASSUME TypeOK', QueuesOK(su', state', priority'), OneRunning', KmainRuns'
    PROVE  SchedInv'
BY DEF SchedInv, TypeOK, QueuesMatchStates, QueuesOK, QueueType, Counted, Sound,
       Unique, Complete, EmptyAbove, LengthCountsTasks, QueuedAreReady,
       NoDoubleLink, ReadyAreQueued, NothingAboveDynamic

\* What schedule() establishes, from whatever state s the current task calls
\* it in: kmain never calls it in a state that takes it off the CPU.
LEMMA ScheduleStep ==
    ASSUME SchedInv, NEW s \in {"RUNNING", "READY"} \cup Blockable,
           s \in Blockable => su.cur # Kmain, schedule(s)
    PROVE  /\ QueuesOK(su', state', priority')
           /\ OneRunning'
           /\ KmainRuns'
           /\ ticks' \in [Task -> 0 .. TASK_MAX_TIMESLICE]
           /\ UNCHANGED <<static_priority, timeslice>>
           /\ \A t \in Task : state'[t] = "READY" =>
                                  priority'[su'.cur] <= priority'[t]
<1> DEFINE c == su.cur
           again == s \in {"RUNNING", "READY"}
           u1 == Requeue(s)
           s1 == IF s = "RUNNING" THEN "READY" ELSE s
           st1 == [state EXCEPT ![c] = s1]
           v == task_priority_queue_fetch_first(u1)
<1>1. /\ TypeOK
      /\ QueuesOK(su, state, priority)
      /\ OneRunning
      /\ KmainRuns
  BY InvQueues
<1>2. /\ c \in Task
      /\ state[c] = "RUNNING"
      /\ state \in [Task -> TaskState]
      /\ priority \in [Task -> Priority]
      /\ Kmain \in Task
  BY <1>1, SchedAssumption DEF TypeOK, OneRunning
<1>3. /\ su' = v
      /\ priority' = IF again THEN [priority EXCEPT ![c] = NextPriority(c)]
                              ELSE priority
      /\ ticks' = IF s = "RUNNING" THEN [ticks EXCEPT ![c] = timeslice[c]]
                                   ELSE ticks
      /\ state' = [state EXCEPT ![c] = s1, ![v.cur] = "RUNNING"]
      /\ UNCHANGED <<static_priority, timeslice>>
  BY DEF schedule
<1>4. NextPriority(c) \in Priority
  <2>1. priority[c] \in Priority /\ static_priority[c] \in Priority
    BY <1>1, <1>2 DEF TypeOK
  <2> QED BY <2>1 DEF NextPriority, Priority, MAX_PRIORITY_NR
<1>5. s1 \in TaskState /\ s1 # "RUNNING" /\ (~again => s1 # "READY")
  BY DEF TaskState, Blockable
<1>6. QueuesOK(u1, st1, priority')
  <2>1. CASE again
    <3>1. s1 = "READY" BY <2>1
    <3>2. u1 = task_priority_queue_add_tail(su, c, NextPriority(c))
      BY <2>1 DEF Requeue
    <3>3. priority' = [priority EXCEPT ![c] = NextPriority(c)]
      BY <2>1, <1>3
    <3>4. state[c] # "READY" BY <1>2
    <3>5. QueuesOK(task_priority_queue_add_tail(su, c, NextPriority(c)),
                   [state EXCEPT ![c] = "READY"],
                   [priority EXCEPT ![c] = NextPriority(c)])
      BY <3>4, <1>1, <1>2, <1>4, AddTail
    <3> QED BY <3>1, <3>2, <3>3, <3>5
  <2>2. CASE ~again
    <3>1. u1 = su /\ priority' = priority
      BY <2>2, <1>3 DEF Requeue
    <3> QED BY <2>2, <3>1, <1>1, <1>2, <1>5, ChangeState
  <2> QED BY <2>1, <2>2
<1>7. st1[Kmain] = "READY"
  BY <1>1, <1>2, <1>5 DEF KmainRuns, OneRunning, Blockable
<1>8. /\ v.cur \in Task
      /\ st1[v.cur] = "READY"
      /\ \A t \in Task : st1[t] = "READY" => priority'[v.cur] <= priority'[t]
      /\ QueuesOK(v, [st1 EXCEPT ![v.cur] = "RUNNING"], priority')
  <2>1. "RUNNING" \in TaskState /\ "RUNNING" # "READY" BY DEF TaskState
  <2> QED BY <1>2, <1>6, <1>7, <2>1, FetchFirst
<1>9. state' = [st1 EXCEPT ![v.cur] = "RUNNING"]
  BY <1>3
<1>10. /\ \A t \in Task : t # v.cur => state'[t] = st1[t]
       /\ state'[v.cur] = "RUNNING"
       /\ \A t \in Task : st1[t] # "RUNNING"
  BY <1>1, <1>2, <1>5, <1>8, <1>9 DEF OneRunning
<1>11. OneRunning'
  BY <1>3, <1>8, <1>10 DEF OneRunning
<1>12. KmainRuns'
  BY <1>2, <1>7, <1>10 DEF KmainRuns
<1>13. ticks' \in [Task -> 0 .. TASK_MAX_TIMESLICE]
  <2>1. ticks \in [Task -> 0 .. TASK_MAX_TIMESLICE] /\ timeslice \in [Task -> Slice]
    BY <1>1 DEF TypeOK
  <2>2. timeslice[c] \in Slice
    BY <2>1, <1>2
  <2>3. timeslice[c] \in 0 .. TASK_MAX_TIMESLICE
    BY <2>2 DEF Slice, TASK_MIN_TIMESLICE, TASK_MAX_TIMESLICE
  <2> QED BY <2>1, <2>3, <1>2, <1>3
<1>14. \A t \in Task : state'[t] = "READY" => priority'[su'.cur] <= priority'[t]
  BY <1>3, <1>8, <1>10
<1> QED BY <1>3, <1>8, <1>9, <1>11, <1>12, <1>13, <1>14

\* What task_unblock does to a task that is blocked: it joins the queue of
\* its priority and everything else stays.
LEMMA MakeReadyStep ==
    ASSUME SchedInv, NEW t \in Task, state[t] \in Wakeable, MakeReady(t)
    PROVE  /\ QueuesOK(su', state', priority')
           /\ OneRunning'
           /\ KmainRuns'
           /\ su'.cur = su.cur
<1>1. TypeOK /\ QueuesOK(su, state, priority) /\ OneRunning /\ KmainRuns
  BY InvQueues
<1>2. state[t] # "READY" /\ state[t] # "RUNNING"
  BY DEF Wakeable
<1>3. state \in [Task -> TaskState] /\ priority \in [Task -> Priority]
  BY <1>1 DEF TypeOK
<1>4. priority[t] \in Priority /\ priority = [priority EXCEPT ![t] = priority[t]]
  BY <1>3
<1>5. /\ su' = task_priority_queue_add_tail(su, t, priority[t])
      /\ state' = [state EXCEPT ![t] = "READY"]
      /\ priority' = priority
  BY DEF MakeReady, task_priority_queue_add_head, task_priority_queue_add_tail
<1>6. QueuesOK(su', state', priority') /\ su'.cur = su.cur
  <2>1. /\ QueuesOK(task_priority_queue_add_tail(su, t, priority[t]),
                    [state EXCEPT ![t] = "READY"],
                    [priority EXCEPT ![t] = priority[t]])
        /\ task_priority_queue_add_tail(su, t, priority[t]).cur = su.cur
    BY <1>1, <1>2, <1>4, AddTail
  <2> QED BY <2>1, <1>4, <1>5
<1>7. OneRunning'
  BY <1>1, <1>2, <1>3, <1>5, <1>6 DEF OneRunning
<1>8. KmainRuns'
  BY <1>1, <1>3, <1>5, SchedAssumption DEF KmainRuns
<1> QED BY <1>6, <1>7, <1>8

-----------------------------------------------------------------------------
\* The boot state satisfies the invariant (create_kmain_thread).
LEMMA InitInv == Init => SchedInv
<1> SUFFICES ASSUME Init PROVE SchedInv
  OBVIOUS
<1>1. TypeOK
  <2>1. su \in [queue : [Priority -> Seq(Task)], length : [Priority -> Int],
               dynamic_priority : Priority, cur : Task]
    BY SchedAssumption DEF Init, Priority, MAX_PRIORITY_NR
  <2>2. TimeSlice \in Slice /\ TimeSlice \in 0 .. TASK_MAX_TIMESLICE
    BY SchedAssumption DEF Slice, TASK_MIN_TIMESLICE, TASK_MAX_TIMESLICE
  <2>3. ticks \in [Task -> 0 .. TASK_MAX_TIMESLICE] /\ timeslice \in [Task -> Slice]
    BY <2>2 DEF Init
  <2> QED BY <2>1, <2>3, SchedAssumption
        DEF Init, TypeOK, TaskState, Priority, MAX_PRIORITY_NR, TASK_PRIO_BEST
<1>2. \A p \in Priority : su.queue[p] = << >> /\ su.length[p] = 0
  BY DEF Init
<1>3. LengthCountsTasks /\ QueuedAreReady /\ NoDoubleLink /\ NothingAboveDynamic
  BY <1>2 DEF LengthCountsTasks, QueuedAreReady, NoDoubleLink, NothingAboveDynamic
<1>4. ReadyAreQueued /\ OneRunning /\ KmainRuns
  BY SchedAssumption DEF Init, ReadyAreQueued, OneRunning, KmainRuns
<1> QED BY <1>1, <1>3, <1>4 DEF SchedInv, QueuesMatchStates

\* The rest of the type invariant, for a step whose queues are in agreement.
LEMMA TypeFromParts ==
    ASSUME TypeOK, QueuesOK(su', state', priority'),
           static_priority' \in [Task -> Priority], ticks' \in [Task -> 0 .. TASK_MAX_TIMESLICE],
           timeslice' \in [Task -> Slice],
           waking' \in [Task -> Task \cup {NoTask}],
           booted' \in BOOLEAN, panicked' \in BOOLEAN
    PROVE  TypeOK'
BY DEF TypeOK, QueuesOK, QueueType

\* A step that leaves queues, states and priorities alone.
LEMMA QueuesUnchanged ==
    ASSUME SchedInv, UNCHANGED <<su, state, priority>>, TypeOK'
    PROVE  SchedInv'
BY DEF SchedInv, QueuesMatchStates, LengthCountsTasks, QueuedAreReady,
       NoDoubleLink, ReadyAreQueued, OneRunning, NothingAboveDynamic, KmainRuns

\* Every step preserves the invariant.
LEMMA NextInv == SchedInv /\ [Next]_vars => SchedInv'
<1> SUFFICES ASSUME SchedInv, [Next]_vars PROVE SchedInv'
  OBVIOUS
<1>0. /\ TypeOK
      /\ QueuesOK(su, state, priority)
      /\ OneRunning
      /\ KmainRuns
  BY InvQueues
<1>1. /\ su.cur \in Task
      /\ state[su.cur] = "RUNNING"
      /\ state \in [Task -> TaskState]
      /\ priority \in [Task -> Priority]
      /\ static_priority \in [Task -> Priority]
      /\ ticks \in [Task -> 0 .. TASK_MAX_TIMESLICE]
      /\ timeslice \in [Task -> Slice]
      /\ waking \in [Task -> Task \cup {NoTask}]
      /\ booted \in BOOLEAN
      /\ panicked \in BOOLEAN
  BY <1>0 DEF TypeOK, OneRunning
<1>2. ASSUME NEW s \in {"RUNNING", "READY"} \cup Blockable,
             s \in Blockable => su.cur # Kmain, schedule(s),
             UNCHANGED <<waking, booted, panicked>>
      PROVE  SchedInv'
  <2>1. /\ QueuesOK(su', state', priority')
        /\ OneRunning'
        /\ KmainRuns'
        /\ ticks' \in [Task -> 0 .. TASK_MAX_TIMESLICE]
        /\ UNCHANGED <<static_priority, timeslice>>
    BY <1>2, ScheduleStep
  <2>2. TypeOK'
    BY <2>1, <1>0, <1>1, <1>2, TypeFromParts
  <2> QED BY <2>1, <2>2, InvFromParts
<1>3. CASE sched_softirq_handler
  <2>1. CASE ticks[su.cur] = 0 /\ schedule(state[su.cur])
    <3>1. schedule("RUNNING") BY <2>1, <1>1
    <3>2. UNCHANGED <<waking, booted, panicked>>
      BY <1>3 DEF sched_softirq_handler
    <3> QED BY <3>1, <3>2, <1>2 DEF Blockable
  <2>2. CASE /\ ticks[su.cur] > 0
             /\ ticks' = [ticks EXCEPT ![su.cur] = @ - 1]
             /\ UNCHANGED <<su, state, priority, static_priority, timeslice>>
    <3>1. UNCHANGED <<waking, booted, panicked>>
      BY <1>3 DEF sched_softirq_handler
    <3>2. ticks' \in [Task -> 0 .. TASK_MAX_TIMESLICE]
      BY <2>2, <1>1 DEF TASK_MAX_TIMESLICE
    <3>3. TypeOK'
      BY <2>2, <3>1, <3>2, <1>0 DEF TypeOK
    <3> QED BY <2>2, <3>3, QueuesUnchanged
  <2> QED BY <1>3, <2>1, <2>2 DEF sched_softirq_handler
<1>4. CASE task_yeild
  BY <1>4, <1>2 DEF task_yeild, Blockable
<1>5. CASE IdleLoop
  BY <1>5, <1>2 DEF IdleLoop, Blockable
<1>6. ASSUME NEW s \in Blockable, task_block(s)
      PROVE  SchedInv'
  BY <1>6, <1>2 DEF task_block
<1>7. CASE start_user
  <2>1. UNCHANGED <<su, state, ticks, timeslice, waking, panicked>>
    BY <1>7 DEF start_user
  <2>2. /\ priority' = [priority EXCEPT ![Kmain] = TASK_PRIO_IDLE]
        /\ static_priority' = [static_priority EXCEPT ![Kmain] = TASK_PRIO_IDLE]
        /\ booted' = TRUE
        /\ su.cur = Kmain
    BY <1>7 DEF start_user
  <2>3. TypeOK'
    BY <2>1, <2>2, <1>0, <1>1
       DEF TypeOK, TASK_PRIO_IDLE, Priority, MAX_PRIORITY_NR
  <2>4. \A t \in Task : state[t] = "READY" => priority'[t] = priority[t]
    BY <2>2, <1>1
  <2>5. \A p \in Priority : \A i \in 1 .. Len(su.queue[p]) : su.queue[p][i] \in Task
    <3> TAKE p \in Priority
    <3>1. su.queue[p] \in Seq(Task) BY <1>0 DEF TypeOK
    <3> QED BY <3>1
  <2>6. QueuedAreReady'
    BY <2>1, <2>4, <2>5 DEF SchedInv, QueuesMatchStates, QueuedAreReady
  <2>7. ReadyAreQueued'
    BY <2>1, <2>4 DEF SchedInv, QueuesMatchStates, ReadyAreQueued
  <2> QED BY <2>1, <2>3, <2>6, <2>7 DEF SchedInv, QueuesMatchStates, OneRunning,
             LengthCountsTasks, NoDoubleLink, NothingAboveDynamic, KmainRuns
<1>8. ASSUME NEW t \in Task, NEW prio \in -1 .. MAX_PRIORITY_NR,
             kthread_start(t, prio)
      PROVE  SchedInv'
  <2> DEFINE p == Higher(0, Lower(prio, MAX_PRIORITY_NR - 1))
  <2>1. /\ state[t] = "FREE"
        /\ state' = [state EXCEPT ![t] = "READY"]
        /\ static_priority' = [static_priority EXCEPT ![t] = p]
        /\ priority' = [priority EXCEPT ![t] = p]
        /\ timeslice' = [timeslice EXCEPT ![t] = TimeSlice]
        /\ ticks' = [ticks EXCEPT ![t] = TimeSlice]
        /\ su' = task_priority_queue_add_tail(su, t, p)
        /\ UNCHANGED <<waking, booted, panicked>>
    BY <1>8 DEF kthread_start
  <2>2. p \in Priority
    BY DEF Higher, Lower, Priority, MAX_PRIORITY_NR
  <2>3. state[t] # "READY" /\ t # su.cur /\ t # Kmain
    BY <2>1, <1>0, <1>1 DEF KmainRuns
  <2>4. /\ QueuesOK(task_priority_queue_add_tail(su, t, p),
                    [state EXCEPT ![t] = "READY"], [priority EXCEPT ![t] = p])
        /\ task_priority_queue_add_tail(su, t, p).cur = su.cur
    BY <2>2, <2>3, <1>0, AddTail
  <2>5. QueuesOK(su', state', priority') /\ su'.cur = su.cur
    BY <2>1, <2>4
  <2>6. /\ static_priority' \in [Task -> Priority]
        /\ ticks' \in [Task -> 0 .. TASK_MAX_TIMESLICE]
        /\ timeslice' \in [Task -> Slice]
    BY <2>1, <2>2, <1>1, SchedAssumption
       DEF Slice, TASK_MIN_TIMESLICE, TASK_MAX_TIMESLICE
  <2>7. TypeOK'
    BY <2>1, <2>5, <2>6, <1>0, <1>1, TypeFromParts
  <2>8. OneRunning'
    BY <2>1, <2>3, <2>5, <1>0, <1>1 DEF OneRunning
  <2>9. KmainRuns'
    BY <2>1, <2>3, <1>0, <1>1, SchedAssumption DEF KmainRuns
  <2> QED BY <2>5, <2>7, <2>8, <2>9, InvFromParts
<1>9. ASSUME NEW t \in Task, NEW n \in SliceInputs, task_set_timeslice(t, n)
      PROVE  SchedInv'
  <2>1. UNCHANGED <<su, state, priority, static_priority, ticks,
                    waking, booted, panicked>>
    BY <1>9 DEF task_set_timeslice
  <2>2. Higher(TASK_MIN_TIMESLICE, Lower(n, TASK_MAX_TIMESLICE)) \in Slice
    BY SchedAssumption DEF Slice, Higher, Lower, TASK_MIN_TIMESLICE, TASK_MAX_TIMESLICE
  <2>3. timeslice' \in [Task -> Slice]
    BY <1>9, <2>2, <1>1 DEF task_set_timeslice
  <2>4. TypeOK'
    BY <2>1, <2>3, <1>0 DEF TypeOK
  <2> QED BY <2>1, <2>4, QueuesUnchanged
<1>10. ASSUME NEW t \in Task, task_wakeup(t)
       PROVE  SchedInv'
  <2>1. /\ waking' = [waking EXCEPT ![su.cur] = t]
        /\ UNCHANGED <<su, taskVars, booted, panicked>>
    BY <1>10 DEF task_wakeup
  <2>2. TypeOK'
    BY <2>1, <1>0 DEF TypeOK, taskVars
  <2> QED BY <2>1, <2>2, QueuesUnchanged DEF taskVars
<1>11. ASSUME NEW t \in Task, state[t] \in Wakeable, MakeReady(t),
              waking' \in [Task -> Task \cup {NoTask}],
              UNCHANGED <<booted, panicked>>
       PROVE  SchedInv'
  <2>1. /\ QueuesOK(su', state', priority')
        /\ OneRunning'
        /\ KmainRuns'
    BY <1>11, MakeReadyStep
  <2>2. UNCHANGED <<static_priority, ticks, timeslice>>
    BY <1>11 DEF MakeReady
  <2>3. TypeOK'
    BY <2>1, <2>2, <1>0, <1>1, <1>11, TypeFromParts
  <2> QED BY <2>1, <2>3, InvFromParts
<1>12. CASE task_unblock
  <2> DEFINE t == waking[su.cur]
  <2>1. /\ t \in Task
        /\ waking' = [waking EXCEPT ![su.cur] = NoTask]
        /\ UNCHANGED booted
    BY <1>12, <1>1 DEF task_unblock
  <2>2. waking' \in [Task -> Task \cup {NoTask}]
    BY <2>1, <1>1
  <2>3. CASE state[t] \in Wakeable /\ MakeReady(t) /\ UNCHANGED panicked
    BY <2>1, <2>2, <2>3, <1>11
  <2>4. CASE panicked' = TRUE /\ UNCHANGED <<su, taskVars>>
    <3>1. TypeOK'
      BY <2>1, <2>2, <2>4, <1>0 DEF TypeOK, taskVars
    <3> QED BY <2>4, <3>1, QueuesUnchanged DEF taskVars
  <2> QED BY <1>12, <2>3, <2>4 DEF task_unblock
<1>13. ASSUME NEW t \in Task, WakeIntrOff(t)
       PROVE  SchedInv'
  <2>1. /\ state[t] \in Wakeable
        /\ MakeReady(t)
        /\ UNCHANGED <<waking, booted, panicked>>
    BY <1>13 DEF WakeIntrOff
  <2> QED BY <2>1, <1>1, <1>11
<1>14. ASSUME NEW t \in Task, task_free(t)
       PROVE  SchedInv'
  <2>1. /\ state[t] \in {"HANGING", "ZOMBIE"}
        /\ state' = [state EXCEPT ![t] = "FREE"]
        /\ UNCHANGED <<su, priority, static_priority, ticks, timeslice,
                       waking, booted, panicked>>
    BY <1>14 DEF task_free
  <2>2. state[t] # "READY" /\ t # su.cur /\ t # Kmain
    BY <2>1, <1>0, <1>1 DEF KmainRuns
  <2>3. QueuesOK(su, [state EXCEPT ![t] = "FREE"], priority)
    BY <2>2, <1>0, ChangeState DEF TaskState
  <2>4. QueuesOK(su', state', priority')
    BY <2>1, <2>3
  <2>5. TypeOK'
    BY <2>1, <2>4, <1>0, <1>1, TypeFromParts
  <2>6. OneRunning' /\ KmainRuns'
    BY <2>1, <2>2, <1>0, <1>1, SchedAssumption DEF OneRunning, KmainRuns
  <2> QED BY <2>4, <2>5, <2>6, InvFromParts
<1>15. CASE UNCHANGED vars
  <2>1. TypeOK'
    BY <1>15, <1>0 DEF vars, taskVars, TypeOK
  <2> QED BY <1>15, <2>1, QueuesUnchanged DEF vars, taskVars
<1> QED BY <1>3, <1>4, <1>5, <1>6, <1>7, <1>8, <1>9, <1>10, <1>12, <1>13, <1>14,
           <1>15 DEF Next, NextCpu

\* The inductive invariant holds in every reachable state.
THEOREM SchedInvariant == Spec => []SchedInv
BY InitInv, NextInv, PTL DEF Spec

\* Type correctness: dynamic_priority, the index with which fetch_first enters
\* the array of queues, stays inside it, and a slice and what is left of one stay
\* within the limits of task_set_timeslice.
THEOREM TypeCorrect == Spec => []TypeOK
<1>1. SchedInv => TypeOK BY DEF SchedInv
<1> QED BY <1>1, SchedInvariant, PTL

\* Queues and states agree: no task is lost or linked twice, the counters are
\* right, and exactly the current task is RUNNING.
THEOREM QueuesCorrect == Spec => []QueuesMatchStates
<1>1. SchedInv => QueuesMatchStates BY DEF SchedInv
<1> QED BY <1>1, SchedInvariant, PTL

\* No ready task is at a level above the one where the search starts.
THEOREM SearchSkipsNothing == Spec => []NothingAboveDynamic
<1>1. SchedInv => NothingAboveDynamic BY DEF SchedInv
<1> QED BY <1>1, SchedInvariant, PTL

\* "There is always a task to find": the search ends inside the array.
THEOREM AlwaysFinds == Spec => []AlwaysATask
<1>1. SchedInv => AlwaysATask
  <2> SUFFICES ASSUME SchedInv, su.cur # Kmain PROVE CanFetch(su)
    BY DEF AlwaysATask
  <2>1. QueuesOK(su, state, priority) /\ OneRunning /\ KmainRuns
    BY InvQueues
  <2>2. Kmain \in Task /\ state[Kmain] = "READY"
    BY <2>1, SchedAssumption DEF KmainRuns, OneRunning
  <2>3. "RUNNING" \in TaskState /\ "RUNNING" # "READY" BY DEF TaskState
  <2> QED BY <2>1, <2>2, <2>3, FetchFirst
<1> QED BY <1>1, SchedInvariant, PTL

\* A switch goes to a READY task of the best priority.
THEOREM SwitchesToBest == Spec => SwitchToBest
<1> DEFINE A == su'.cur # su.cur =>
                  \A t \in Task : state'[t] = "READY" =>
                                     priority'[su'.cur] <= priority'[t]
<1>1. SchedInv /\ [Next]_vars => [A]_vars
  <2> SUFFICES ASSUME SchedInv, [Next]_vars, su'.cur # su.cur
               PROVE  A
    BY DEF vars
  <2>0. OneRunning /\ TypeOK BY InvQueues
  <2>1. state[su.cur] = "RUNNING" BY <2>0 DEF OneRunning, TypeOK
  <2>2. ASSUME NEW s \in {"RUNNING", "READY"} \cup Blockable,
               s \in Blockable => su.cur # Kmain, schedule(s)
        PROVE  A
    BY <2>2, ScheduleStep
  <2>3. ASSUME NEW t \in Task, state[t] \in Wakeable, MakeReady(t) PROVE FALSE
    BY <2>3, MakeReadyStep
  <2>4. CASE sched_softirq_handler
    BY <2>1, <2>2, <2>4 DEF sched_softirq_handler, Blockable
  <2>5. CASE task_yeild \/ IdleLoop \/ \E s \in Blockable : task_block(s)
    BY <2>2, <2>5 DEF task_yeild, IdleLoop, task_block, Blockable
  <2>6. CASE \E t \in Task, p \in -1 .. MAX_PRIORITY_NR : kthread_start(t, p)
    BY <2>6 DEF kthread_start, task_priority_queue_add_tail
  <2>7. CASE task_unblock
    BY <2>3, <2>7, <2>0 DEF task_unblock, TypeOK
  <2>8. CASE \E t \in Task : WakeIntrOff(t)
    BY <2>3, <2>8 DEF WakeIntrOff
  <2>9. CASE \/ start_user
             \/ \E t \in Task, n \in SliceInputs : task_set_timeslice(t, n)
             \/ \E t \in Task : task_wakeup(t)
             \/ \E t \in Task : task_free(t)
             \/ UNCHANGED vars
    BY <2>9 DEF start_user, task_set_timeslice, task_wakeup, task_free, vars
  <2> QED BY <2>4, <2>5, <2>6, <2>7, <2>8, <2>9 DEF Next, NextCpu
<1> QED BY <1>1, SchedInvariant, PTL DEF Spec, SwitchToBest
=============================================================================
