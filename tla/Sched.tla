------------------------------- MODULE Sched -------------------------------
(***************************************************************************)
(* The task scheduler of the xbook2 kernel: src/task/schedule.c, the       *)
(* inline queue operations of include/xbook/schedule.h, the state changes  *)
(* of src/task/task.c and the tick handler of src/kernel/clock.c.          *)
(*                                                                         *)
(* One CPU.  Every function below runs with interrupts off from its first  *)
(* to its last assignment (save_intr .. restore_intr), so it is one step;  *)
(* the clock interrupt comes between any two steps.  The exception is      *)
(* task_wakeup, which reads the state of its target with interrupts on and *)
(* then calls task_unblock: two steps, with `waking' between them.         *)
(***************************************************************************)
EXTENDS Integers, Sequences

CONSTANTS Task,        \* task_t objects, live or not yet allocated
          Kmain,       \* the boot thread; it becomes the idle task
          TimeSlice,   \* ticks given by task_init (3 in the code)
          SliceInputs, \* arguments of task_set_timeslice
          NoTask       \* a null task pointer

VARIABLES su,              \* sched_unit_t: queue, length, dynamic_priority, cur
          state,           \* task->state, "FREE" when there is no such task
          priority,        \* task->priority, the dynamic priority
          static_priority, \* task->static_priority
          ticks,           \* task->ticks, what is left of the time slice
          timeslice,       \* task->timeslice
          waking,          \* target that passed the check of task_wakeup
          booted,          \* start_user has demoted kmain to the idle task
          panicked         \* panic() was called: the machine has stopped

taskVars == <<state, priority, static_priority, ticks, timeslice>>
vars == <<su, taskVars, waking, booted, panicked>>

MAX_PRIORITY_NR == 4
TASK_PRIO_BEST == 0
TASK_PRIO_IDLE == 3
TASK_MIN_TIMESLICE == 1
TASK_MAX_TIMESLICE == 100

Priority == 0 .. MAX_PRIORITY_NR - 1
Slice == TASK_MIN_TIMESLICE .. TASK_MAX_TIMESLICE

Blockable == {"BLOCKED", "WAITING", "STOPPED", "HANGING", "ZOMBIE"}
Wakeable == {"BLOCKED", "WAITING", "STOPPED"}
TaskState == {"FREE", "READY", "RUNNING"} \cup Blockable

Lower(a, b) == IF a < b THEN a ELSE b
Higher(a, b) == IF a > b THEN a ELSE b

ASSUME SchedAssumption ==
    /\ Kmain \in Task
    /\ NoTask \notin Task
    /\ TimeSlice \in Slice
    /\ SliceInputs \subseteq Nat

-----------------------------------------------------------------------------
(* The ready queues.                                                       *)

task_priority_queue_add_tail(u, t, p) ==
    [queue            |-> [u.queue EXCEPT ![p] = Append(@, t)],
     length           |-> [u.length EXCEPT ![p] = @ + 1],
     dynamic_priority |-> Lower(p, u.dynamic_priority),
     cur              |-> u.cur]

\* Mutant: the task is linked without moving the search level up to it.
AddHeadKeepsLevel(u, t, p) ==
    [queue            |-> [u.queue EXCEPT ![p] = Append(@, t)],
     length           |-> [u.length EXCEPT ![p] = @ + 1],
     dynamic_priority |-> u.dynamic_priority,
     cur              |-> u.cur]

\* Despite its name the function links the task at the tail of the queue.
task_priority_queue_add_head(u, t, p) ==
    [queue            |-> [u.queue EXCEPT ![p] = Append(@, t)],
     length           |-> [u.length EXCEPT ![p] = @ + 1],
     dynamic_priority |-> Lower(p, u.dynamic_priority),
     cur              |-> u.cur]

\* The level at which the search loop of fetch_first stops.
IsLevel(u, l) ==
    /\ l >= u.dynamic_priority
    /\ u.length[l] # 0
    /\ \A p \in Priority : u.dynamic_priority <= p /\ p < l => u.length[p] = 0

Level(u) == CHOOSE l \in Priority : IsLevel(u, l)

\* The loop stops inside the array of four queues, at a queue with a task.
CanFetch(u) ==
    \E l \in Priority : IsLevel(u, l) /\ u.queue[l] # << >>

\* Mutant: the search takes the last queue with a task, not the first.
FetchLast(u) ==
    LET l == CHOOSE m \in Priority : /\ u.length[m] # 0
                                     /\ \A p \in Priority : p > m => u.length[p] = 0
    IN  [queue            |-> [u.queue EXCEPT ![l] = Tail(@)],
         length           |-> [u.length EXCEPT ![l] = @ - 1],
         dynamic_priority |-> u.dynamic_priority,
         cur              |-> Head(u.queue[l])]

task_priority_queue_fetch_first(u) ==
    LET l == Level(u)
    IN  [queue            |-> [u.queue EXCEPT ![l] = Tail(@)],
         length           |-> [u.length EXCEPT ![l] = @ - 1],
         dynamic_priority |-> l,
         cur              |-> Head(u.queue[l])]

-----------------------------------------------------------------------------
(* schedule(), called by the current task after its state became s.        *)

\* Mutants: the priority never turns back, or never falls.
NextPriorityNoTurn(t) == priority[t] + 1
NextPriorityStays(t) == priority[t]

\* A task that gives up the CPU while it can run moves down one level and
\* turns back to its static priority below the last one.
NextPriority(t) ==
    IF priority[t] + 1 >= MAX_PRIORITY_NR THEN static_priority[t]
                                          ELSE priority[t] + 1

\* Mutant: a task that blocks is put back as well.
RequeueAlways(s) ==
    task_priority_queue_add_tail(su, su.cur, NextPriority(su.cur))

\* get_next_task puts the current task back only when it is still runnable.
Requeue(s) ==
    IF s \in {"RUNNING", "READY"}
    THEN task_priority_queue_add_tail(su, su.cur, NextPriority(su.cur))
    ELSE su

schedule(s) ==
    LET c    == su.cur
        next == task_priority_queue_fetch_first(Requeue(s))
    IN  /\ CanFetch(Requeue(s))
        /\ su' = next
        /\ priority' = IF s \in {"RUNNING", "READY"}
                       THEN [priority EXCEPT ![c] = NextPriority(c)]
                       ELSE priority
        /\ ticks' = IF s = "RUNNING" THEN [ticks EXCEPT ![c] = timeslice[c]]
                                     ELSE ticks
        /\ state' = [state EXCEPT ![c] = IF s = "RUNNING" THEN "READY" ELSE s,
                                  ![next.cur] = "RUNNING"]
        /\ UNCHANGED <<static_priority, timeslice>>

-----------------------------------------------------------------------------
(* The operations.  `Free' says that the current task is not in the middle *)
(* of task_wakeup; once kmain is the idle task it only runs the idle loop. *)

Free == ~panicked /\ waking[su.cur] = NoTask
Calls == Free /\ (su.cur = Kmain => ~booted)

\* The clock interrupt, whatever the current task is doing.
sched_softirq_handler ==
    /\ ~panicked
    /\ \/ /\ ticks[su.cur] = 0
          /\ schedule(state[su.cur])
       \/ /\ ticks[su.cur] > 0
          /\ ticks' = [ticks EXCEPT ![su.cur] = @ - 1]
          /\ UNCHANGED <<su, state, priority, static_priority, timeslice>>
    /\ UNCHANGED <<waking, booted, panicked>>

task_yeild ==
    /\ Calls
    /\ schedule("READY")
    /\ UNCHANGED <<waking, booted, panicked>>

\* Mutant: kmain may block like any other task.
BlockAnyTask(s) ==
    /\ Calls
    /\ s \in Blockable
    /\ schedule(s)
    /\ UNCHANGED <<waking, booted, panicked>>

\* kmain never blocks: nothing would be left to run.
task_block(s) ==
    /\ Calls
    /\ su.cur # Kmain
    /\ s \in Blockable
    /\ schedule(s)
    /\ UNCHANGED <<waking, booted, panicked>>

\* kthread_start and the tail of the other ways to make a task: task_init
\* clamps the priority, then the task joins its ready queue.
kthread_start(t, prio) ==
    LET p == Higher(0, Lower(prio, MAX_PRIORITY_NR - 1))
    IN  /\ Calls
        /\ state[t] = "FREE"
        /\ state' = [state EXCEPT ![t] = "READY"]
        /\ static_priority' = [static_priority EXCEPT ![t] = p]
        /\ priority' = [priority EXCEPT ![t] = p]
        /\ timeslice' = [timeslice EXCEPT ![t] = TimeSlice]
        /\ ticks' = [ticks EXCEPT ![t] = TimeSlice]
        /\ su' = task_priority_queue_add_tail(su, t, p)
        /\ UNCHANGED <<waking, booted, panicked>>

task_set_timeslice(t, n) ==
    /\ Calls
    /\ state[t] # "FREE"
    /\ timeslice' = [timeslice EXCEPT ![t] =
                        Higher(TASK_MIN_TIMESLICE, Lower(n, TASK_MAX_TIMESLICE))]
    /\ UNCHANGED <<su, state, priority, static_priority, ticks,
                   waking, booted, panicked>>

\* The first half of task_wakeup: the state is read with interrupts on.
task_wakeup(t) ==
    /\ Calls
    /\ state[t] \in Wakeable
    /\ waking' = [waking EXCEPT ![su.cur] = t]
    /\ UNCHANGED <<su, taskVars, booted, panicked>>

\* What task_unblock does to a task that may be woken.
MakeReady(t) ==
    /\ state' = [state EXCEPT ![t] = "READY"]
    /\ su' = task_priority_queue_add_head(su, t, priority[t])
    /\ UNCHANGED <<priority, static_priority, ticks, timeslice>>

\* The second half: task_unblock reads the state again and panics when
\* somebody else has woken the task in between.
task_unblock ==
    LET t == waking[su.cur]
    IN  /\ ~panicked
        /\ t # NoTask
        /\ waking' = [waking EXCEPT ![su.cur] = NoTask]
        /\ \/ state[t] \in Wakeable /\ MakeReady(t) /\ UNCHANGED panicked
           \/ state[t] \notin Wakeable /\ panicked' = TRUE
              /\ UNCHANGED <<su, taskVars>>
        /\ UNCHANGED booted

\* A wakeup whose caller holds interrupts off: a timer callback run by
\* update_timers, or semaphore_up.
WakeIntrOff(t) ==
    /\ ~panicked
    /\ state[t] \in Wakeable
    /\ MakeReady(t)
    /\ UNCHANGED <<waking, booted, panicked>>

\* The parent (or init) destroys a task that has exited.
task_free(t) ==
    /\ Calls
    /\ state[t] \in {"HANGING", "ZOMBIE"}
    /\ state' = [state EXCEPT ![t] = "FREE"]
    /\ UNCHANGED <<su, priority, static_priority, ticks, timeslice,
                   waking, booted, panicked>>

\* kmain has brought the system up and becomes the idle task.
start_user ==
    /\ Calls
    /\ su.cur = Kmain
    /\ booted' = TRUE
    /\ static_priority' = [static_priority EXCEPT ![Kmain] = TASK_PRIO_IDLE]
    /\ priority' = [priority EXCEPT ![Kmain] = TASK_PRIO_IDLE]
    /\ UNCHANGED <<su, state, ticks, timeslice, waking, panicked>>

\* The idle loop: halt until an interrupt, then schedule().
IdleLoop ==
    /\ Free
    /\ su.cur = Kmain
    /\ booted
    /\ schedule("RUNNING")
    /\ UNCHANGED <<waking, booted, panicked>>

\* Another thread of the group exits, execs or cancels t: a READY thread is
\* unlinked from its queue, but the length of the queue stays.
close_one_thread(t) ==
    /\ Calls
    /\ t \notin {su.cur, Kmain}
    /\ state[t] # "FREE"
    /\ su' = [su EXCEPT !.queue[priority[t]] =
                 SelectSeq(@, LAMBDA x : x # t)]
    /\ state' = [state EXCEPT ![t] = "FREE"]
    /\ UNCHANGED <<priority, static_priority, ticks, timeslice,
                   waking, booted, panicked>>

-----------------------------------------------------------------------------
(* create_kmain_thread: the boot flow is the current task.                 *)

Init ==
    /\ su = [queue |-> [p \in Priority |-> << >>],
             length |-> [p \in Priority |-> 0],
             dynamic_priority |-> 0,
             cur |-> Kmain]
    /\ state = [t \in Task |-> IF t = Kmain THEN "RUNNING" ELSE "FREE"]
    /\ priority = [t \in Task |-> TASK_PRIO_BEST]
    /\ static_priority = [t \in Task |-> TASK_PRIO_BEST]
    /\ ticks = [t \in Task |-> TimeSlice]
    /\ timeslice = [t \in Task |-> TimeSlice]
    /\ waking = [t \in Task |-> NoTask]
    /\ booted = FALSE
    /\ panicked = FALSE

\* Steps that neither block nor wake a task.
NextCpu ==
    \/ sched_softirq_handler
    \/ task_yeild
    \/ IdleLoop
    \/ start_user
    \/ \E t \in Task, p \in -1 .. MAX_PRIORITY_NR : kthread_start(t, p)

Next ==
    \/ NextCpu
    \/ \E s \in Blockable : task_block(s)
    \/ \E t \in Task, n \in SliceInputs : task_set_timeslice(t, n)
    \/ \E t \in Task : task_wakeup(t)
    \/ task_unblock
    \/ \E t \in Task : WakeIntrOff(t)
    \/ \E t \in Task : task_free(t)

Spec == Init /\ [][Next]_vars

\* The clock keeps ticking (the timer chip), and the idle loop runs.
CpuSpec ==
    /\ Init /\ [][NextCpu]_vars
    /\ WF_vars(sched_softirq_handler)

\* The system whose processes also close the threads of their group.
SpecWithClose ==
    Init /\ [][Next \/ \E t \in Task : close_one_thread(t)]_vars

-----------------------------------------------------------------------------
(* Properties.                                                             *)

\* Every variable stays in its type: dynamic_priority never leaves the array of
\* queues that fetch_first indexes with it, a slice is one to a hundred ticks long
\* whatever task_set_timeslice is asked for, and no task has more ticks left.
TypeOK ==
    /\ su \in [queue : [Priority -> Seq(Task)], length : [Priority -> Int],
               dynamic_priority : Priority, cur : Task]
    /\ state \in [Task -> TaskState]
    /\ priority \in [Task -> Priority]
    /\ static_priority \in [Task -> Priority]
    /\ ticks \in [Task -> 0 .. TASK_MAX_TIMESLICE]
    /\ timeslice \in [Task -> Slice]
    /\ waking \in [Task -> Task \cup {NoTask}]
    /\ booted \in BOOLEAN
    /\ panicked \in BOOLEAN

\* The counter of each queue is the number of tasks linked in it: fetch_first
\* trusts the counter and takes the first node without looking at the list.
LengthCountsTasks == \A p \in Priority : su.length[p] = Len(su.queue[p])

\* A linked task is READY and is in the queue of its own priority.
QueuedAreReady ==
    \A p \in Priority : \A i \in 1 .. Len(su.queue[p]) :
        state[su.queue[p][i]] = "READY" /\ priority[su.queue[p][i]] = p

\* No task is linked twice in a queue (task->list is a single node).
NoDoubleLink ==
    \A p \in Priority : \A i, j \in 1 .. Len(su.queue[p]) :
        su.queue[p][i] = su.queue[p][j] => i = j

\* No task is lost: a READY task is linked in the queue of its priority.
ReadyAreQueued ==
    \A t \in Task : state[t] = "READY" =>
        \E i \in 1 .. Len(su.queue[priority[t]]) : su.queue[priority[t]][i] = t

\* The current task is the only RUNNING one.
OneRunning == \A t \in Task : state[t] = "RUNNING" <=> t = su.cur

\* The ready queues and the task states agree: together the four parts say
\* that the linked tasks are exactly the READY ones, each linked once, which
\* schedule(), task_block, task_unblock and kthread_start must all preserve.
QueuesMatchStates ==
    /\ LengthCountsTasks
    /\ QueuedAreReady
    /\ NoDoubleLink
    /\ ReadyAreQueued
    /\ OneRunning

\* No ready task is above dynamic_priority, the level at which fetch_first
\* starts to search: the search never skips a task.
NothingAboveDynamic ==
    \A p \in Priority : p < su.dynamic_priority => su.length[p] = 0

\* kmain, demoted or not, can always run; it is what fetch_first finds last.
KmainRuns == state[Kmain] \in {"READY", "RUNNING"}

\* "There is always a task to find, the last one is idle" (get_next_task): a
\* task other than kmain can block at any time and the search of fetch_first
\* still ends at a queue that has a task, inside the array.
AlwaysATask == su.cur # Kmain => CanFetch(su)

\* A switch goes to a task of the best priority there is: after it no READY
\* task has a better priority than the one that was chosen.
SwitchToBest ==
    [][su'.cur # su.cur =>
         \A t \in Task : state'[t] = "READY" =>
                            priority'[su'.cur] <= priority'[t]]_vars

\* With no blocking and no wakeups, the fall in priority after each slice
\* lets every ready task run: no task starves behind better priorities.
NoStarvation ==
    \A t \in Task : state[t] = "READY" ~> state[t] = "RUNNING"

=============================================================================
