# The xbook2 kernel in TLA+

xbook2 is a monolithic kernel for 32-bit x86 in C, with a graphical interface,
a network stack and a C library. This directory holds TLA+ models of the parts
whose correctness depends on what runs between what: the scheduler, the
synchronisation objects of the kernel and of the thread library, timers and
sleeping, soft interrupts and triggers, the threads and the end of processes,
address ranges and shared memory, service calls, and the queues through which
tasks and interrupt handlers talk. TLC checks them on small instances; TLAPS
proves the core of them for any number of tasks. Paths below are relative to the
kernel, `src/src/`, unless they begin with `library/`.

## 1. The system

There is one CPU. Kernel code is preemptible: the clock interrupt may switch to
another task at any point, unless the code has switched interrupts off
(`save_intr` .. `restore_intr`, `disable_intr` .. `enable_intr`). So a stretch of
code with interrupts off is atomic and everything else is a sequence of steps
with other tasks in between. All models are built on this.

| part | state | operations | talks to |
|---|---|---|---|
| scheduler (`task/schedule.c`, `include/xbook/schedule.h`, `task/task.c`, `kernel/clock.c`) | four ready queues with a length each, `dynamic_priority`, the current task; state, priority and slice of each task | `schedule`, `task_block`, `task_unblock`, `task_wakeup`, `task_yeild`, tick, start and free of tasks | everybody |
| mutex, reader-writer lock, semaphore, recursive lock (`task/mutexlock.c`, `include/xbook/{rwlock,semaphore,synclock}.h`) | a counter and a list of waiting tasks; holder and repeat count | lock, unlock, down, up, down with timeout | scheduler: block and wake |
| timers (`kernel/timer.c`) | list of timers, `timer_ticks`, `minim_timeout_val` | add, del, mod, cancel, `update_timers` in the clock's soft interrupt, rebase after 30 days | callbacks: sleep, gui, alarms |
| sleep (`task/sleep.c`) | a timer on the stack of each sleeper | sleep, timeout, early wakeup | timers, scheduler, triggers |
| exit and wait (`task/wait_exit.c`) | states HANGING and ZOMBIE, `parent_pid`, exit status, the list of all tasks | `sys_exit`, `kthread_exit`, `sys_waitpid`, adoption by init | scheduler, fork, triggers |
| wait queues (`task/waitqueue.c`, `include/list.h`) | list of tasks, through the same node `task->list` as the ready queues | add, remove, wakeup one or all | pools, pipes, device queues |
| message pool (`lib/msgpool.c`) | ring of messages, mutex, wait queue | push, pop and the try variants | gui |
| device queue (`kernel/driver.c`) | list of packets, count, wait queue | append from the interrupt, pickup from a task | network drivers |
| ring buffer (`lib/fifobuf.c`) | bytes, free-running `in` and `out` | put, get, reset | pipes |
| producer-consumer queue (`lib/fifoio.c`) | ring of bytes, two semaphores, a mutex | put, get | keyboard interrupt and thread |
| pipe (`ipc/pipe.c`) | ring buffer, counts of readers and writers, one wait queue | read, write, grow, ioctl, close | files, fork |
| message queue (`ipc/msgqueue.c`) | table of queues; messages with types, count, senders, receivers | get, put, send, recv | processes |
| shared memory (`ipc/sharemem.c`) | table of named areas with their pages and a count of links | get, map, unmap, put, fork, exit | page allocator, address ranges |
| named pipe (`ipc/fifo.c`) | ring buffer, reader and writer with a count of opens each, flags, mutex; no wait queue | get, put, grow, ctl, read, write | mutex, scheduler: unblock by state |
| named semaphore (`ipc/sem.c`) | table of semaphores | get, put, down, up | processes |
| service calls (`kernel/srvcall.c`) | per port: holder, caller, arguments, state | bind, unbind, listen, fetch, ack, call | scheduler, triggers |
| user wait queues and the locks of the library (`task/waitque.c`, `library/pthread`) | wait queues by handle; spin lock, lock word, owner, count; value of a semaphore | wait, wake; lock, unlock, condition wait and signal, semaphore wait and post | threads of a process |
| triggers and alarms (`task/trigger.c`, `kernel/alarm.c`) | pending and blocked sets, the flag `TRIG_LEFT`, actions, saved masks; alarm clock | activate, handle, return, set action, set mask, pause; alarm, tick | every sleep of a task, exit |
| threads of a process (`task/pthread.c`) | state, parent and flags of each thread, `thread_count` | create, join, detach, cancel, exit | exit and wait, address space |
| soft interrupts (`kernel/softirq.c`) | bits of raised actions, lists of task assists | raise, run, schedule, disable and enable an assist | clock, network, scheduler |
| address ranges (`vmm/vmspace.c`) | ordered list of spaces, end of the heap | map, unmap, heap | page tables, shared memory |
| page tables, files, network, gui, drivers, other libraries | page tables, descriptors, sockets, layers | | |

What makes a part correct: the scheduler loses no task and finds one whenever it
looks; locks exclude and forget no waiter; units and bytes are neither lost nor
made; whoever sleeps on something that is there is on the way to being woken;
a timer fires after its time and not before; no event and no trigger is
forgotten; a task that ended is collected once, by its parent, with its status;
memory is not given back while it is mapped or a thread of its process lives.

What makes it hard: `task_block` is a separate call after the test that led to
it, with interrupts on in between; wakeups look at a state and act on it later;
tasks woken do not look again; ready queues and wait queues share one list node
per task; interrupt handlers run on top of whatever task is current; counters
and times are unsigned.

## 2. The models

`Sched`, `Mutex`, `Semaphore` and so on are the models; the `MC` modules are
small instances of them and the `.cfg` files give the constants. An `MC` module
may hold several systems that share no state: a variable `use` or `part` is
chosen in the initial state and never changes, so the behaviours are those of
each system alone and the state space is the sum of theirs. Modules that are
instantiated there state the conditions on their constants as a definition
(`TimerConstants`, ..), which the `MC` module assumes.

Definitions under a comment that begins with "Mutant" are deliberately wrong
versions of the definition that follows; nothing uses them except the
sensitivity tests listed in `PROJECT.json`, each of which replaces one
definition and must break one property.

### Sched: the scheduler

`su` is `sched_unit_t`: the queues, their `length` fields (kept apart from the
lists, since the code trusts them), `dynamic_priority` and the current task.
`state`, `priority`, `static_priority`, `ticks` and `timeslice` are the fields of
`task_t`. One action per function; `task_wakeup` is two, because it reads the
state with interrupts on (`waking` holds what it saw). `close_one_thread` is
kept out of `Spec` and added in `SpecWithClose`, because it breaks the queue
lengths. Two tasks beside kmain and slices of one tick meet all transitions
between the four priorities; longer slices only repeat the tick that does not
end one. `SliceInputs`, the arguments of `task_set_timeslice`, include the 0 that
it corrects; `TypeOK` says that slices stay in 1..100 (`Slice`) and the ticks left
do not pass 100.

| run | instance | properties | what it shows |
|---|---|---|---|
| `sched` | MCSched.cfg | TypeOK, QueuesMatchStates, NothingAboveDynamic, AlwaysATask, SwitchToBest | kmain and two tasks start, block, yield, wake each other and are preempted at every step: the ready queues hold exactly the READY tasks, the search of fetch_first skips nothing and always ends, and every switch goes to a task of the best priority. |
| `sched_live` | MCSchedLive.cfg | NoStarvation | With tasks that only compute, the fall in priority after each slice lets every ready task run again. |
| `sched_close` | MCSchedClose.cfg | LengthCountsTasks (violated) | Closing a READY thread takes it out of its ready queue without counting the queue down, so fetch_first later takes the first node of an empty list. |

Fairness of `CpuSpec` is that of the clock interrupt: ticks keep coming.

### Lock, Mutex, RWLock, Semaphore, SyncLock: the locks of the kernel

`Mutex` has the fields of `mutexlock_t`, the set of sleeping tasks, which mutex
a task is locking, which it holds, and the waiter it has taken off the list and
still has to wake: `mutex_unlock` does that with interrupts on. `Lock` is the
abstract specification, an owner per lock; `ImplementsLock` is the refinement.
`RWLock` extends `Mutex`: each of the twelve lock and unlock functions is its
sequence of instructions, executed one by one with all the steps of the
mutexes; `RWExclusion` covers both who is inside and the count of readers.

A trigger wakes a process wherever it is BLOCKED (`Trigger`, for the tasks in
`Process`; kernel threads have no triggers). A process that has been taken off the
list and waits for the late wakeup takes no harm: it goes round the loop, and
the late wakeup finds it awake or, in its next turn, wakes it too early. One that
is still linked is in two lists from then on: `torn`. The model goes on with lists
that hold nothing and with unlocks that find any task or none behind the head,
so that `MutualExclusion` and `ImplementsLock` are shown for broken lists as well;
`WaitListConsistent` and `NoLostWakeup` are about the time before. A late wakeup
that meets a process in its next sleep tears the list in the same way.

In use `"mutex"` three tasks call the mutex functions themselves, in any
order, on two of the mutexes, and one of them is a process; in use `"rwlock"` they
go through the reader-writer lock, each policy being an initial state. Three tasks give a mutex an owner, a waiter and one that
barges in between unlock and wakeup, and the lock a writer with two readers.
A behaviour of use `"rwlock"` ends when a list is torn.

Semaphore operations are atomic; `semaphore_down_timeout` polls, and its
unsigned time left is kept modulo `Clocks`. A process that a trigger wakes in
`semaphore_down` returns without a unit and is still linked; the model ends with
this step (`strayed`), and `SemaphoreExact` says what holds before.
`SyncLock` extends `Semaphore` with the holder and the repeat count, which are read
and written with interrupts on, each in a step; it has no triggers, since only
kernel threads take these locks. `Lock` is again the abstract specification
(`SyncImplementsLock`). `MaxSignals` bounds the ups by tasks that hold nothing,
`MaxNest` the recursion: two levels tell the outermost unlock from an inner one.
Three tasks are a holder and two waiters, which is what hand-over in turn is
about. Uses `"sema"` and `"lock"` are the two.

| run | instance | properties | what it shows |
|---|---|---|---|
| `locks` | MCLocks.cfg | MutualExclusion, WaitListConsistent, NoLostWakeup, RWExclusion, SemaphoreExact, AssertsHold, ImplementsLock, SyncImplementsLock, RWProgress, SyncServed | Three tasks call the mutex functions in any order, share a reader-writer lock of each policy, use a semaphore with its polling down_timeout and its destruction, or the recursive lock built on it: locks have one holder and implement the abstract lock, wait list, counter and task states agree and no waiter is forgotten until a trigger leads to a linked task being woken, writers are alone and no reader is lost, no unit is lost or made up by the hand-over to a waiter until a trigger makes one return, and nothing comes to a stop. |

Fairness: a task that can run gets the CPU (run `sched_live` is about that), and
holders unlock (`RWFair`, `SyncFair`). `RWProgress` is about behaviours in which no
trigger wakes a linked waiter, as for the kernel threads that use the lock. Nothing
is assumed about the order in which waiters and newcomers get a mutex, so it promises that somebody gets on, not that
everybody does. `SyncServed`, for the lock that hands over in turn,
promises it to everybody; it is about tasks that hold one lock at a time (use
`"alone"`), because a task may nest its locks without end or wait for another in
a circle.

### Timer, Sleep, Softirq, Trigger: time, and what interrupts a task

`Timer` keeps the list in list order, the time points as unsigned numbers modulo
`Clocks`, and the client of each timer with its place in the functions that take
several steps. `IdleTime`, thirty days in the code, is four ticks, so that the
rebase happens within the `Horizon` of five, where time ends; `Clocks` is larger
than both together, so that only a real step below zero wraps. `Garbage` is what
an uninitialised timeout may hold: a value in the past and one in the future.
`Sleep` extends `Sched` with a timer per sleeper and cuts `task_sleep_by_ticks` at
the points where an interrupt may come; a trigger may wake the sleeper at any
time.

`Softirq` has a stack of frames of `handle_softirq` for each task, with the events
that a frame has taken from `softirq_evens` and not run yet: interrupts nest while
an action runs, up to `MaxFrames`, and the action of `SCHED_SOFTIRQ` switches to
another task in the middle of a frame. `due` remembers which events were raised
and have not been acted on since. Two frames on two tasks, one assist of each
kind and the two turns of `MAX_REDO_IRQ` are enough for an event to be raised in
each position relative to a frame that has taken it, runs it, or is put aside.

`Trigger` is one process that is sent triggers by two tasks and by its alarm
clock, with default actions, handlers, masks and nested handlers (`MaxDepth`).
`do_trigger` is a walk over the numbers, during which a trigger may stop or end
the process. Senders compute `TRIG_LEFT` after their section, in a read and a
write: `stale` marks the state in which a set that was read earlier has cleared
the flag, which is what `NoTriggerForgotten` leaves out (see the deviations).
The triggers sent are PAUSE, RESUM and HSOFT, the ones that treat each other;
the one caught is the alarm's.

| run | instance | properties | what it shows |
|---|---|---|---|
| `time` | MCTime.cfg | TimersInOrder, NoEventLost, NoTriggerForgotten, NeverEarly, NoEarlyReturn | Clients add, cancel and modify timers while the clock fires them and is moved back; tasks sleep on timers and are woken by them or by a trigger; soft interrupts nest and are left behind on the stacks of tasks; triggers and alarms reach a process that sleeps, stops and handles them: no timer is linked twice or fired early, a sleeper returns early only if it was woken, no raised event and no sent trigger is forgotten. |

No fairness: the properties are about safety.

### WaitExit: the end of processes

Pids, parents, states and, per task, its place in `sys_exit`, `sys_waitpid` or
`kthread_exit`. Sections with interrupts off are steps; where `proc_release` or
`task_block` lets others run is a step boundary. `N` bounds the number of tasks
ever created. In use `"any"` they are init, two processes and a kernel thread,
with `waitpid` in all its forms and a trigger (`Triggered`) that interrupts it:
a parent, a child and an orphan. In use `"poll"` there is a process more, and
nobody sleeps in `waitpid`: what becomes of the dead can be asked without the
lost wakeup of `wait_exit_lost` getting in between.

| run | instance | properties | what it shows |
|---|---|---|---|
| `wait_exit` | MCWaitExit.cfg | ParentAlive, CollectedOnce, DeadAreFreed | Processes fork, exit, wait for children and are interrupted, and a kernel thread exits, in every order of their steps: every task has a live parent, no dead one is collected twice, and with INIT collecting every dead one is given back. |
| `wait_exit_lost` | MCWaitExitLost.cfg | WaiterReturns (violated) | A parent that blocks in waitpid after a child has looked at its state, or before the child it was woken by has blocked, sleeps on with an exited child. |

Fairness: tasks that exit get on with it, waiters that are awake take their next
turn, and init asks for any child again and again, with WNOHANG.

### WaitQueue, MsgPool, DevQueue, ByteQueue, FifoIo, UserSync, Srvcall: tasks that wait for each other

`WaitQueue` is the memory: `next` and `prev` of the list heads and of every
task's node, with `list_add_tail`, `list_del` and the walks as in `list.h`. A
task linked into a list while it is in another leaves the pointers as the code
would. A walk that never ends, and a task structure computed from a list head,
are the values of `bad`. `MsgPool` and `DevQueue` use it with preemption at
every step. `torn` records that the window between `wait_queue_add` and
`task_block` was hit, or that a trigger has woken the sleeper after it (`Trigger`; for
the device queue, if the reader is in `Process`): `ListsExact` and
`SleepsOnlyWhenEmpty`, for the two of them, say what holds before, `NotYetWaiting`
shows what the first of the two leads to (in its run the reader is a kernel
thread). The ring of the pool (`PoolExact`, a part of `ListsExact`) is right until a
trigger makes the consumer pop from an empty pool (`triggered`). `Max` and
`DEVICE_QUEUE_ENTRY_NR`, the capacities, are three or four, so that a queue gets
full and its ring goes round; `Sizes` is the number of values of a `size_t`.

`ByteQueue` is the abstract bounded queue. `FifoIo` implements it with two
semaphores, a mutex and two pointers that wrap in a step of their own, used by
threads and by the keyboard interrupt. The handler has a `host`, the task it
runs on; if it sleeps, the host does. Reader, writer, a bystander and one
handler over a ring of two bytes have every pair of them inside at once.

`UserSync` is the library: the mutex of each of the three kinds, the condition
variable and the semaphore, as they call `waitque_wait` and `waitque_wake`. User
code can be preempted anywhere; the two calls are atomic, which is what the
library relies on when it lets the kernel clear its spin lock. `kind`, chosen
in the initial state, is which of them the threads share. Three threads are a
holder, one in the queue and one on the way into it, or two waiters and a
poster. Triggers that wake a thread in `waitque_wait` are left out. `ForgetsNobody` says that no wakeup is lost, `UserLockIsALock` that the
mutex refines `Lock`. `MaxValue` and `MaxNest` bound posts and recursion.

`Srvcall` is one port with two servers, who compete for it, and two callers. A
spin-locked section is a step and going to sleep is the next one. `missed` is
the tasks whose waker came between the two; `disturbed` is set once a trigger
has woken a sleeper or a second bind has taken the port. `CallsServed` says what
holds otherwise: a caller gets the answer to its own arguments, and whoever
sleeps is expected by somebody. The instance stops a behaviour of this part once
it is disturbed, since nothing is claimed after.

| run | instance | properties | what it shows |
|---|---|---|---|
| `queues` | MCQueues.cfg | ListsExact, SleepsOnlyWhenEmpty, ForgetsNobody, CallsServed, FifoIoIsAQueue, UserLockIsALock | A message pool and a device queue down to the pointers of the one list node a task has, the keyboard queue with its interrupt handler, the mutex and semaphore of the thread library over user wait queues, and a service port with two servers and two callers: as long as no interrupt falls between wait_queue_add and task_block, and no trigger after it, the lists are exact and nobody sleeps on messages; the keyboard queue is a queue of bytes; the library's mutex is a lock of each kind and neither it nor the semaphore loses a wakeup; a service call returns the answer to its own arguments. |
| `devqueue_assert` | MCQueuesAssert.cfg | NotYetWaiting (violated) | Reproduces the assertion failure of BUGSLIST.md: after a preemption between wait_queue_add and task_block the wait queue still points to the reader, and its next wait_queue_add finds it there. |
| `fifoio_handler` | MCQueuesHandler.cfg | HandlerReturns (violated) | The keyboard interrupt that comes while the keyboard thread is about to take a byte, the queue being full or its mutex held, puts that very thread to sleep: neither ever returns. |

Fairness in `KeyboardSpec`, which only `fifoio_handler` uses: tasks that can run do,
and the reader calls get in a loop (`kbd_thread`).

### FifoBuf, Pipe, MsgQueue, PThread, VmSpace, ShareMem, NamedPipe: what processes share

`FifoBuf` implements `ByteQueue` with indices modulo `Uints`, a small power of
two, so that they overflow, and requests up to longer than the ring. `Pipe` and
`MsgQueue` take the accesses under the mutex as one step (module `Mutex` is about
the mutex) and assume that no clock interrupt falls between `wait_queue_add` and
`task_block`: what it would do is shown once, with `WaitQueue`. `Pipe` has the
ends each task holds, the two counters, the one wait queue, and how far each
call is; the bytes of a writer are numbered modulo `Numbers`, more than fit in
the pipe, so that a byte lost, doubled or overtaken shows. Two readers and two
writers, with requests of less and of more than the pipe, meet in the wait queue
in all mixtures. `MsgQueue` has the table, so that a slot can be given back and
taken again between lookup and use; three tasks, one slot and a limit of one
message let senders and receivers wait at once (`QueueServed`). A trigger wakes a
sleeper of either side, which goes on as if the other side had woken it and stays
linked (`strayed`); the wait queues are forgotten then, and the calls under way run
to their end with wakeups that reach anybody or nobody. In the instance
every message suits every receiver: see the deviations for what happens
otherwise. `kmalloc` does not fail in these two.

`PThread` is the threads of one process with their parents and flags: create,
join (look, block, look again), detach, cancel at a cancellation point or at
once, exit, and `waitpid` on a thread. `N` bounds the threads ever made: three
are a joiner, the thread it joins, and one that joins, detaches or cancels it
meanwhile. Detached threads and cancelled ones are mixed only as long as the
third thread is not made (`Mixed`); the same instance without this bound has 5.9
million states and satisfies the same properties, but takes too long to be a
run. `missed` is the
joiners whose thread ended where they could not see it, `closed` the number of
threads that an asynchronous cancel ended: the two things that the code loses.
`thread_vmm` is the same instance and shows the finding about the address space.

`VmSpace` is the list of ranges as a sequence, with `do_vmspace_map`,
`do_vmspace_unmap` and the heap, and the set of pages that are mapped, which `SpacesExact` compares
with the list. The address space has nine pages of two bytes: room for an image, a
heap and three mappings, so that a range is cut at either end, split, and merged
with either neighbour. It stops when a freed space stays linked (`dangling`).

`ShareMem` is the table of areas, the allocator's free blocks, and what each
process has mapped. A process finds its slot under the semaphore and
goes on without it, one step per access. `disturbed` marks the races and the
double uses listed under the deviations, and the instance stops there; a map that
finds no memory or no page writes its 0 to the slot, which is one of them if there
was memory in it. Two
processes, two slots and two names let one process put away and take again a
slot that the other is in, map both areas in turn, and share its own page under
either name; two links (`MaxLinks`) are a parent and its child, or a mapping and
a page of its own. That a page under two names breaks the count came out of the
proof: with one slot, as the instance had before, it cannot happen.

`NamedPipe` is one named pipe with the two tasks that may be its reader and its
writer. There is no wait queue: an end that finds the pipe full or empty unlocks
the mutex and blocks, and the other end unblocks it if it is BLOCKED and the flag
of its end is set, which is also so while it sleeps in the mutex. So the steps
of the mutex are here again, over the pointers of `WaitQueue`, with preemption at
every step. `missed` is the ends that a wakeup passed over because they were not
asleep yet; `torn` is set when an end is unblocked that is linked in the list of
the mutex, and the instance stops there. `NamedPipeServed` says what holds until
then: the ready queue and the list of the mutex hold whom they should, and an
end that was not passed over sleeps only while it cannot go on. A pipe of one
byte, requests of one and of three, and ends that are opened up to twice
(`MaxRef`) let both ends fill and drain the pipe over several turns while they
are opened, closed and set to `IPC_NOWAIT` or `IPC_NOSYNC`. `IPC_SETRW`, by
which another task, a child for instance, makes itself the reader or the writer, is
left out: the two tasks keep their ends.

| run | instance | properties | what it shows |
|---|---|---|---|
| `ipc` | MCIpc.cfg | StreamExact, NobodyForgotten, FreedWhenUnused, QueueServed, CountExact, JoinerRemembered, SpacesExact, SharedPagesLive, NamedPipeServed, BufferIsAQueue | Readers and writers fork, read, write and close on a pipe smaller than their requests; the ring buffer runs with overflowing indices; tasks use a message queue and are woken in it, by each other or by a trigger; threads start, join, detach, cancel and exit; a process maps and unmaps address ranges and moves its heap; processes share memory, fork and end; a reader and a writer use a named pipe, its mutex and its wakeups down to the list nodes: no byte is lost, copied or overtaken, nobody sleeps on what is there, thread_count and the joiners are right, the list of spaces and the mapped pages agree, no page in use is given back, and no end of the named pipe sleeps on while it could go on, unless it was passed over before it slept. |
| `thread_vmm` | MCIpcVmm.cfg | VmmAlive (violated) | The first thread of a process starts another one and exits; whoever collects it takes it for the process and frees the address space under the thread that is left. |

No fairness: whoever sleeps while it should not is a state.

## 3. Findings

A run marked "violated" states what a comment, an assertion, a header or
`BUGSLIST.md` of the repository says, and TLC shows a behaviour of the code that
does not conform; `PROJECT.json` quotes the line and explains the behaviour.

### Deviations

These were met while modelling and have no run of their own. All but the one
about exit statuses, which the model leaves out, and those marked as not in the
model are behaviours of the modules, not all of them within the bounds of the
instances.

* `include/xbook/schedule.h:110`: task/task.c:298, in task_unblock, says '把任务放在最前面，让它快速得到调度' (puts the task at the very front so that it is scheduled quickly). task_priority_queue_add_head links it with list_add_tail, behind every task of its priority.
* `include/xbook/task.h:138`: task/task.c:282 says of the blocked states '只有它们能被唤醒' (only these can be woken) and task_unblock panics on any other. task_wakeup tests the state with interrupts on and then calls task_unblock; if the task is woken by somebody else in between, the test is stale and the panic is reached.
* `include/xbook/rwlock.h:84`: include/xbook/mutexlock.h:4 says of the mutex '只有这个任务可以对互斥锁进行解锁' (only the task that holds it may unlock it), and line 8 that lock and unlock must be paired in one thread; the read unlock of the rwlock has the LAST reader call mutex_unlock(&lock->rw_mutex), which the FIRST reader locked, and mutexlock_t records no owner that mutex_unlock could compare.
* `include/xbook/rwlock.h:101`: include/xbook/rwlock.h:101 says the reader enters when no writer asks ('在无写进程请求时进入') and line 21 that write_mutex gives writers priority ('用于实现“写优先”'); mutex_unlock clears count before the woken waiter runs, so a reader that comes later takes write_mutex while a writer that asked before sleeps in its list, and the writer goes to the tail again.
* `include/xbook/semaphore.h:158`: include/xbook/semaphore.h:144 promises '超时则返回 < 0' (returns < 0 on timeout). clock_t is unsigned long (include/types.h:16) and the loop runs while t > 0; when the task is preempted for more ticks than t has left, 't -= (end - start)' wraps around zero, t becomes about 2^32 and the timeout is missed.
* `kernel/timer.c:89`: The comment of timer_add, kernel/timer.c:59, says '将定时器按超时点进行排序，插入到合适的位置，从小到大插入排序' (sorted by time point, from small to large). A timer that is not earlier than the first one always satisfies 'timer->timeout >= tmp->timeout' at the first element, so it goes to the second place; timers behind a later one fire late because update_timers stops at the first that is not due.
* `kernel/timer.c:138`: kernel/timer.c:107 says of timer_del '定时器必须在队列中' (the timer must be in the queue) and asserts it. timer_cancel asks timer_alive, which restores interrupts before it returns, and then calls timer_del; if the clock interrupt fires the timer in between, the ASSERT fails.
* `kernel/timer.c:37`: kernel/timer.c:27-28 says that the idle handler '重新调整所有定时器的值，所有值都减去timer_ticks' (adjusts all timers again, all minus timer_ticks). A linked timer that is overdue but sits behind the idle timer has a time point below the amount subtracted; 'tmp->timeout -= dt' on an unsigned long wraps and the timer is put off for the whole range of the clock.
* `task/sleep.c:31`: task/sleep.c:12 says '超时后唤醒任务' (wakes the task after the timeout). If the sleeper is preempted between timer_add (line 43) and task_block (line 47) until its timer fires, sleep_task_timeout unlinks the READY task from its ready queue with list_del_init and task_wakeup leaves a READY task alone: the task is in no queue and never runs again.
* `task/sleep.c:53`: The comment at task/sleep.c:52 says '有可能还在休眠中就被唤醒了，那么就检查定时器是否已经被执行过了' (may have been woken while asleep, so check whether the timer has already run), but the test looks at the time point only. A task woken by a trigger once its time has come, before its timer was reached in the timer list, returns without timer_del and leaves a linked timer_t on a stack frame that is gone.
* `task/wait_exit.c:401`: task/wait_exit.c:350-351 says '查看父进程是否处于等待状态->是等待状态->解除对父进程的阻塞' (looks whether the parent waits; if it does, lifts its block). The state is read with interrupts off, but task_unblock is called after restore_intr; if another child wakes the parent in between, task_unblock finds it READY and panics (task/task.c:277), or finds a PCB already freed.
* `task/wait_exit.c:298`: task/wait_exit.c:247 says '>0时等待指定的子进程' (> 0: waits for the child given). When no such child hangs, deal_zombie_child collects every zombie child and sys_waitpid returns the pid of the first one, whichever was asked for; the others are gone without having been reported.
* `task/wait_exit.c:74`: task/wait_exit.c:260 says '返回子进程的pid，无则返回-1' (returns the pid of the child, -1 if there is none). wait_one_hangging_child compares the pid only and never child->parent_pid, so a process can collect the hanging child of another one, whose parent then waits in vain.
* `task/wait_exit.c:298`: task/wait_exit.c:248 says of status '存放子进程退出时的状态' (holds the state with which the child exited). Only the HANGING path writes it; deal_zombie_child has no status argument, so after collecting a zombie the caller reads what was in the variable before.
* `task/wait_exit.c:50`: task/wait_exit.c:255 says '有则销毁挂起的进程，并返回进程pid' (if there is one, destroys the hanging process and returns its pid). kthread_exit makes INIT the parent of a kernel thread, which has no vmm; proc_destroy (task/process.c:417) returns -1 for it before task_free. Its PCB stays in the task list, INIT's waitpid returns the same pid at every call, and children behind it in the list are never collected by waitpid(-1).
* `lib/msgpool.c:101`: gui/message.c:55 says of sys_g_get_msg '获取消息，如果没有就阻塞等待' (gets a message, blocks and waits if there is none). msgpool_pop links current_task->list into the wait queue, unlocks and only then blocks; if the clock switches to another task in between, the scheduler links the same node into the ready queue. The wait queue then leads into the ready queue: the next msgpool_try_push never gets out of wait_queue_length, and the consumer never gets its message.
* `lib/msgpool.c:98`: gui/message.c:55 says of sys_g_get_msg '获取消息，如果没有就阻塞等待' (gets a message, blocks and waits if there is none). msgpool_pop tests the pool with if, not while: with two threads reading one pool, a woken thread that finds the pool emptied by the other takes an old message and lets the unsigned msgcount fall from 0 to its largest value.
* `kernel/driver.c:695`: include/xbook/driver.h:145 says of entry_count '队列项数[0-DEVICE_QUEUE_ENTRY_NR]' (number of entries, 0 to DEVICE_QUEUE_ENTRY_NR). io_device_queue_append drops a packet only if entry_count > DEVICE_QUEUE_ENTRY_NR, so it accepts one with the queue full and entry_count becomes DEVICE_QUEUE_ENTRY_NR + 1.
* `ipc/pipe.c:143`: ipc/pipe.c:80 says '3.管道中没有数据，如果写端全部关闭，则返回0.' (no data: if all write ends are closed, returns 0). pipe_close wakes nobody, so a reader that sleeps when the last writer closes sleeps on; and pipe_read calls __pipe_read again when it returns 0, as long as bytes are missing, without end.
* `ipc/pipe.c:245`: ipc/pipe.c:160 says '2.如果读端全关闭，则触发进程异常' (if all read ends are closed, an exception is raised in the process). pipe_write looks at read_count once, before it takes the mutex; a writer that waits for room is not woken by pipe_close and never looks again.
* `ipc/pipe.c:212`: ipc/pipe.c:163 says '4.如果管道未满，则写入数据，并返回实际的数据量' (if the pipe is not full, writes and returns the amount really written). With PIPE_NOWAIT a request larger than the room is written in part, and -1 is returned.
* `ipc/pipe.c:249`: The comment '/* both closed */' at ipc/pipe.c:248 names the close that finds the other end closed as the one that destroys the pipe. The counters are decremented and then read with interrupts on and without the mutex: two closes that overlap both read two zeros, and the second reads and frees memory that the first has given back.
* `ipc/msgqueue.c:229`: include/xbook/msgqueue.h:17 says of MSGQ_MAX_MSGS '消息队列上最多允许多少个消息' (how many messages are allowed on a queue at most). msg_queue_send waits only when msgs > MSGQ_MAX_MSGS, and a sender that was woken does not look again.
* `ipc/msgqueue.c:263`: ipc/msgqueue.c:278 says '>0：返回队列第一条类型等于msgtype的消息。' (returns the first message of the queue whose type is msgtype). msg_queue_send wakes the first receiver whatever it waits for; if the message does not suit it, it returns -1 and wakes nobody, and the receiver it suits sleeps on.
* `ipc/msgqueue.c:355`: ipc/msgqueue.c:282 says 'IPC_NOWAIT：队列没有可读消息不等待，返回错误' (with no readable message does not wait and returns an error). Without the flag, too, msg_queue_recv returns -1 when no message on the queue matches: it waits only when the queue is empty, and only once.
* `ipc/msgqueue.c:176`: ipc/msgqueue.c:176 says '先释放所有队列中的消息' (first frees all messages in the queue), but no statement follows: msg_queue_free only clears the name, and msg_queue_alloc initialises the list, so the messages are never freed.
* `ipc/msgqueue.c:216`: ipc/msgqueue.c:197 says 'msg_queue_send - 把一条消息添加到消息队列' and '@msgid: 消息队列id' (adds a message to the queue with that id). The table is unlocked between the lookup and the lock of the queue; if the queue is put and the slot taken for another name meanwhile, the message arrives there.
* `src/library/pthread/pthread_mutex.c:46`: Two threads that lock a statically initialised mutex for the first time may both find waitque -1 and both create a wait queue; a thread that has gone to sleep in the first one is never woken, since the second handle is stored over it.
* `src/library/pthread/pthread_mutex.c:112`: The comment at src/library/pthread/pthread_mutex.c:52 describes a loop in which a thread waits for the mutex. ERRORCHECK and RECURSIVE mutexes that another thread owns are not waited for: pthread_mutex_lock returns EPERM.
* `src/library/pthread/pthread_mutex.c:207`: pthread_mutex_trylock of a free ERRORCHECK or RECURSIVE mutex calls pthread_spin_lock a second time while it holds the spin lock, and spins for ever.
* `src/library/pthread/semaphore.c:132`: sem_timedwait takes a unit whenever the condition variable returns 0, without looking at the value again: a sem_wait or sem_trywait that comes between the post and the woken thread takes the unit first, and the value goes to -1.
* `task/waitque.c:127`: sys_waitque_wait is a cancellation point before it clears the word: a cancelled thread exits with the spin lock of the mutex held, and everyone else spins (not in the model).
* `task/waitque.c:216`: A timed wait that runs out looks for itself in the wait list and deletes task->list; but the wakeup of the sleep timer has linked the same node into the ready queue already, and the wait list still points at it (not in the model; module WaitQueue shows what one node in two lists does).
* `vmm/vmspace.c:57`: The comment '/* merge space and p */' is followed by vmspace_free(space), where p is the one that is merged away: the space that stays in the list is freed, p leaks. Model VmSpace stops there (dangling).
* `vmm/vmspace.c:251`: do_vmspace_unmap splits a space and fills in start, end and next of the second part; its page_prot and flags are whatever the memory held. A page fault there gets any protection, and a later unmap may treat shared pages as private.
* `vmm/vmspace.c:238`: The pages are unmapped before the memory for the second part is allocated; if that fails the space still covers them (not in the model). No lock protects the list, though the threads of a process share it (not in the model).
* `kernel/softirq.c:230`: kernel/softirq.c:229 says '如果状态还没有调度，才能进行调度' (only if it is not scheduled yet). task_assist_schedule sets bit TASK_ASSIST_SOFTIRQ (4) of the status and task_assist_action clears bit TASK_ASSIST_SCHED (0): a normal task assist runs once and can never be scheduled again. High ones work because their bit is 0 too.
* `task/trigger.c:90`: trigger_calc_left runs after the section, with interrupts on: it reads the set, and clears TRIG_LEFT if it was empty then, although another trigger may have been set meanwhile. do_trigger looks at the flag only, so that trigger waits until the next one is sent. NoTriggerForgotten excludes exactly this (stale).
* `task/trigger.c:58`: RESUM or HSOFT that arrive while PAUSE is pending and not yet delivered find a process that is not stopped; the process takes PAUSE afterwards and stops, although it was told to go on. And any trigger that is not blocked, not only RESUM, starts a stopped process (line 85).
* `include/xbook/trigger.h:55`: include/xbook/trigger.h:54 says 'remove HSOFT and PAUSE', but trigdelset takes the number of a trigger and is given a mask: nothing is removed, and a handler's mask may block both.
* `kernel/alarm.c:17`: sys_alarm changes flags, second and ticks with interrupts on while update_alarms counts them down: the clock may fire between the assignments (not in the model).
* `task/pthread.c:388`: pthread_join has looked at the thread, turns interrupts on and blocks: a thread that exits in between finds a parent that does not wait, becomes a ZOMBIE and wakes nobody, and the joiner sleeps for ever. A ZOMBIE is not found by wait_one_hangging_thread either.
* `task/pthread.c:232`: A thread that was joined, detached and left by its joiner keeps JOINED and its parent: when it exits while that parent joins another thread, the parent loses its JOINING flag and pthread_join returns although the other thread runs.
* `task/pthread.c:260`: pthread_exit and sys_thread_detach have seen the parent waiting and call task_unblock with interrupts on: a trigger or another thread may have woken it, and task_unblock panics.
* `task/wait_exit.c:194`: An asynchronous cancel ends a thread with close_one_thread, which neither counts it off thread_count nor wakes its joiner: the process never counts as empty again, and pthread_join of it sleeps for ever.
* `kernel/srvcall.c:163`: sys_srvcall_listen sets LISTEN and then blocks: a caller that comes in between calls task_unblock for a server that is not asleep, which panics.
* `kernel/srvcall.c:244`: sys_srvcall_ack unlocks and then blocks, and so does sys_srvcall (line 297): whoever finishes in between sees a task that is not BLOCKED and does not wake it, and it sleeps for ever. CallsServed names these tasks (missed).
* `kernel/srvcall.c:97`: kernel/srvcall.c:96 says '必须是绑定一个未绑定的端口' (must bind a port that is not bound): the test and the assignment are not one step, and a second server may take the port from the first.
* `kernel/srvcall.c:163`: A trigger wakes a listening server or a calling task, and neither looks why it was woken: the server serves old arguments again, the caller returns an answer that is not there yet.
* `kernel/srvcall.c:123`: With port -1 sys_srvcall_unbind is meant to look for the port of the current process ('寻找当前进程绑定的端口', line 117) and indexes the table with (uint32_t) port, that is outside it, in every turn: a process that dies keeps its port.
* `ipc/sharemem.c:210`: share_mem_map finds the slot under the semaphore and uses it after: share_mem_put in between finds no links and frees pages that are then mapped, and two maps at once both allocate, so that the first process shares with nobody and its share_mem_unmap finds no slot and dereferences NULL (line 323). SharedPagesLive excludes exactly these (disturbed).
* `ipc/sharemem.c:237`: share_mem_map stores the result of alloc_pages in page_addr before it looks whether it is 0, and that of addr_v2p too (line 264): a map that fails while another one is in the window takes the memory of the other from the slot, whose share_mem_unmap then finds no slot. SharedPagesLive excludes this too (disturbed).
* `ipc/sharemem.c:281`: links are not reset when a slot is taken again, and the end of a process does not count its mappings down: '共享内存存在，并且链接次数为0才真正释放' (ipc/sharemem.c:356, only freed with no links) then means never.
* `ipc/sharemem.c:264`: Memory that a process shares of its own goes with the process while others map it; their share_mem_unmap leaves the mapping in place (line 323). A map at an address of a slot that has its pages already maps nothing and is counted all the same. Two shared mappings side by side are merged by vmspace_insert, unmapped together and counted once (the last is not in the model).
* `ipc/sharemem.c:316`: share_mem_unmap finds the slot by the physical address. A process that shares its page under two names, or was counted in a slot for an address where other memory is, takes the link off another slot than the one that counted it; the links can fall below 0. share_mem_alloc does not set them, so the next user of that slot starts below 0, share_mem_put sees no links and frees pages that a process still maps. SharedPagesLive excludes these too (disturbed).
* `ipc/fifo.c:410`: The writer of a named pipe unlocks and then blocks, and so does the reader (line 499), and a writer without a reader blocks on a test made with interrupts on (line 346): a wakeup that comes in between sees a task that is not BLOCKED and passes it over. Both ends may then sleep for ever. NamedPipeServed names these tasks (missed).
* `ipc/fifo.c:383`: A task that sleeps in the mutex of a named pipe is BLOCKED too, and the flag says that it is in the pipe: the other end unblocks it while it is linked in the wait_list of the mutex and counted as a waiter. The mutex_unlock that follows takes its node out of the ready queue, in which it is linked now: it stays READY and is never scheduled again. NamedPipeServed holds until then (torn).
* `ipc/fifo.c:68`: fifo_alloc does not reset the flags of a slot that is taken again: IPC_NOWAIT and IPC_NOSYNC of its last users stay in force. fifo_read that returns because of IPC_NOSYNC leaves FIFO_IN_READ set (line 470).

Triggers need a table of their own. `do_active_trigger` (`task/trigger.c`, line
85) makes a process READY wherever it is BLOCKED, and `task_unblock` does not take it
off the list it sleeps in. What follows depends on the sleeper:

| sleeper | what a trigger does | where |
|---|---|---|
| `task_sleep_by_ticks`, `sys_waitpid` | the sleeper returns early, or looks again | `Sleep`, `WaitExit` |
| service calls | old arguments, or an answer that is not there | `Srvcall` (`disturbed`) |
| `mutex_lock` | the waiter is READY and linked, and links itself again; an unlock may then take whatever is behind the head for a task, or a waiter be lost | `Mutex` (`torn`) |
| `semaphore_down` | returns without a unit, still linked | `Semaphore` (`strayed`); the model ends there |
| `msgpool_pop` | pops from an empty pool, below zero, its node in two lists | `MsgPool` (`triggered`) |
| `io_device_queue_pickup` | goes on with an empty queue, its node in two lists | `DevQueue` (`torn`) |
| `msg_queue_send`, `msg_queue_recv` | adds past the limit, or searches and returns, still linked | `MsgQueue` (`strayed`) |
| `pipe_read` | takes what there is, perhaps nothing, which looks like the end of the file, still linked | not in the model |
| `pipe_write` | goes round its loop; if there is still no room, the ASSERT of `wait_queue_add` finds it linked | not in the model |
| `fifo_read`, `fifo_write` | takes what there is, perhaps nothing, or goes round its loop; in the mutex of the pipe, as for `mutex_lock` | not in the model |
| `pthread_join` | looks again | not in the model |
| `sys_waitque_wait` | returns, still linked | not in the model |
| `fifo_io_get`, `fifo_io_put`, `sync_lock` | as `semaphore_down`; the tasks that sleep there are kernel threads, which have no triggers, or the process that the keyboard interrupt has put to sleep | not in the model |

The parts that take an access under a mutex or a semaphore as one step (`Pipe`,
`MsgQueue`, `MsgPool`, `ShareMem`, `NamedPipe` for its table) rely on exclusion. For the
mutexes that holds with triggers too (`MutualExclusion`); for the semaphores of the
tables it holds until a trigger wakes a process that waits for one.

The pattern behind most of all this is one of four:

* *test, then block, with interrupts on in between*: `task_sleep_by_ticks`,
  `sys_waitpid`, `msgpool_pop`, `io_device_queue_pickup`, `pthread_join`,
  `sys_srvcall`, `sys_srvcall_listen`, `sys_srvcall_ack`, `fifo_read`, `fifo_write`. The wakeup comes in
  the window and is lost, or the shared list node is linked twice.
* *test, then unblock, with interrupts on in between*: `task_wakeup`, `sys_exit`,
  `timer_cancel`, `pthread_exit`. Two do it at once and the second meets an
  assertion or panic.
* *found under a lock, used after it*: `msg_queue_send`, `share_mem_map`, and
  `trigger_calc_left`, which clears a flag for a set that it read before.
* *woken, then no second look*: `semaphore_down`, `msgpool_pop`, `pipe_read`,
  `msg_queue_send`, `msg_queue_recv`, `sem_timedwait`, service calls, and closes of
  pipes that wake nobody at all.

The others are local: a comparison off by one, an insertion that does not
sort, unsigned time going below zero.

## 4. Proofs

| theorem | module | what it establishes |
|---|---|---|
| TypeCorrect | SchedProofs | Every reachable state of the scheduler is well typed: priorities stay in 0..3, time slices in 1..100 and the ticks left in 0..100, whatever the number of tasks. |
| QueuesCorrect | SchedProofs | In every reachable state, for any set of tasks, the ready queues hold exactly the READY tasks, each linked once at its own priority, the counters equal the list lengths and only the current task is RUNNING. |
| SearchSkipsNothing | SchedProofs | No ready task is ever above dynamic_priority, so the search of fetch_first, which starts there, misses nobody. |
| AlwaysFinds | SchedProofs | Any task but kmain may block at any time: the search loop, which has no bound of its own, ends inside the array at a queue with a task. |
| SwitchesToBest | SchedProofs | Every context switch goes to a task of the best priority among the READY tasks. |
| MutexExcludes | MutexProofs | For any number of tasks and mutexes, no two tasks are ever inside the same mutex, wait lists broken by triggers or not. |
| ListsConsistent | MutexProofs | The waiters counter, the wait list, the sleeping tasks and the wakeups still pending agree although mutex_unlock wakes with interrupts on and a trigger may wake the task in between, until a task is woken that is linked in a wait list. |
| WakeupNotLost | MutexProofs | A free mutex that has waiters has a task in its loop that is awake or about to be woken, until a task is woken that is linked in a wait list. |
| MutexIsLock | MutexProofs | Every behaviour of mutexlock.c is a behaviour of the abstract lock under the mapping 'owner = the task that holds the mutex'. |
| ReadersOrWriter | MutexProofs | For any number of tasks and each policy, with every step of the mutexes inside: a writer is alone, and the count of readers is what the tasks have added and taken off, although the reader that unlocks rw_mutex is not the one that locked it. |
| RWMutexesConsistent | MutexProofs | What the mutex promises (MutualExclusion, WaitListConsistent, NoLostWakeup) holds of the mutexes of a reader-writer lock too, where unlocker and locker may be different tasks; list, counter and wakeups until a task is woken that is linked. |
| TriggersKept | TimeProofs | Whenever a trigger is set the flag that the return to user mode looks at is set too, or a sender is about to compute it, for any triggers, masks and senders, unless a sender cleared the flag for a set it had read before. |
| EventsKept | TimeProofs | A raised event whose action has not started is in softirq_evens or in the copy of some handle_softirq on the stack of a task, and an assist is in just one list while its bit says so, at any depth of nesting and for any number of tasks and assists. |
| TimerListKept | TimeProofs | No timer is linked twice, the ASSERT of timer_add holds, the loop of update_timers has the idle timer to stop at, and until the first timer is cancelled or the clock moved back its time is the one the shortcut looks at, for any set of timers. |
| TimersNeverEarly | TimeProofs | No step of update_timers takes a timer off the list before its ticks have run out, whatever is added, cancelled or modified meanwhile. |
| SleepersNeverEarly | TimeProofs | task_sleep_by_ticks returns before its time only to a task that a trigger has woken, and the timer it then cancels is linked, for any number of sleepers and any delay, although sleep_task_timeout leaves ready queues whose lengths are wrong. |
| SyncAssertsHold | LocksProofs | The ASSERTs of sync_lock and sync_unlock never fail, for any number of tasks and locks, although holder and count are written with interrupts on. |
| SyncLockImplementsLock | LocksProofs | Every behaviour of the recursive lock is one of the abstract lock: outermost lock and outermost unlock are the steps that change the owner. |
| SemaphoreUnitsExact | LocksProofs | A unit of a semaphore is in the counter or with a task, whether down took it, up handed it to a waiter or the polling loop found it, nobody is linked while there is one and no task is linked twice, for any number of tasks, semaphores and units, until a trigger wakes a process that sleeps in down, which then returns without a unit. |
| ServiceCallsServed | QueuesProofs | For any number of servers and callers on a port, a call returns the answer to its own arguments, and whoever sleeps is expected by somebody or was not asleep when it was woken, until a trigger or a second bind disturbs the port. |
| UserMutualExclusion | QueuesProofs | At most one thread is inside the mutex of the thread library, for each kind of mutex and any number of threads, with condition waits that give it up in between. |
| UserMutexImplementsLock | QueuesProofs | Every behaviour of the mutex of the thread library is a behaviour of the abstract lock. |
| UserForgetsNobody | QueuesProofs | For any threads, kinds and values: nobody sleeps on a free mutex of the library unless an awake thread is in its lock or unlock function, the units that sleepers of a semaphore wait for are all announced or about to be, and a wait takes no unit that is not there. |
| KeyboardIsAQueue | QueuesProofs | Every behaviour of the queue between the keyboard interrupt and its readers is one of a bounded queue of bytes, for any number of tasks, any bytes and any size, whoever sleeps in it, is interrupted in it or is woken for whom: the places of the ring are the units of the two semaphores. |
| PoolListsExact | QueuesProofs | For any number of tasks and one that pops: the walk along the pointers of the ready queue and of the wait queue of a message pool meets the tasks that are in it, each once, until the popper is linked into both, by a preemption between wait_queue_add and task_block or by a trigger that wakes it after that; the ring of the pool holds its count until such a trigger. |
| QueuesSleepOnlyWhenEmpty | QueuesProofs | For any number of tasks and one that pops: who sleeps in a message pool or a device queue sleeps on an empty one, as long as its list node is in one list only, that is until a preemption comes before task_block or a trigger after it. |
| ParentsAlive | WaitExitProofs | For any number of processes and kernel threads, the parent of a process whose PCB is there has not begun to exit: sys_exit gives its children to INIT, which never goes. |
| ChildrenCollectedOnce | WaitExitProofs | Whoever gets the pid of a child from waitpid gets a dead one whose PCB is given back in that step, and nobody else holds that pid. |
| PipeFreedWhenUnused | IpcProofs | The memory of a pipe is not given back while somebody holds an end, for any number of readers and writers and any size, although the two counters are changed and read with interrupts on. |
| PipeForgetsNobody | IpcProofs | As long as the other end is open no reader sleeps on bytes and no writer on room while nobody is on the way to wake it. |
| PipeStreamExact | IpcProofs | For any number of readers and writers, any size and any requests: the bytes of each writer are in the pipe, in their order, or were read, each once, although requests are cut in pieces and sleepers go on in the middle of one. |
| RingIsAQueue | IpcProofs | Every behaviour of the ring buffer is one of a bounded queue of bytes, for any size that divides the number of unsigned ints, with the indices running over and the copies cut in two at the end of the buffer. |
| ThreadsCounted | IpcProofs | thread_count of the process is the number of its threads that have not begun to exit and of those that an asynchronous cancel has ended, for any number of threads. |
| JoinersRemembered | IpcProofs | Whoever sleeps in pthread_join sleeps for a living thread whose parent it is or that is about to wake it, unless the thread ended where the joiner could not see it. |
| QueuesServed | IpcProofs | The messages of a queue pass MSGQ_MAX_MSGS by no more than there are senders that msg_queue_recv has woken, and nobody sleeps in msg_queue_recv while there is a message that no woken receiver is on the way to take, for any handles, types and names, and any number of tasks for which the unsigned char that counts the messages does not wrap (fewer than 128); both until a trigger wakes a task that sleeps in a wait queue of the module. |
| NamedPipesServed | MemoryProofs | For any size of a named pipe and any requests of its two tasks: they sleep because they cannot go on or because a wakeup passed them over, and the ready queue and the list of the mutex hold, pointer by pointer, whom they should, until a task is unblocked that is linked in the mutex. |
| SpacesKept | MemoryProofs | For any size of page, zones and lengths: the list of ranges stays sorted and disjoint, every mapped page is in a range and every mapping has its pages, and the heap is the ranges from its start to its end, whatever is mapped, merged, cut and grown, as long as the heap cannot reach the zone of mappings and fixed addresses are in that zone. |
| SharedMemoryLive | MemoryProofs | No page is in the allocator while a process maps it, and the links of a slot count everybody who maps it, for any number of processes, slots and pages, until one of the steps that the property names, a failing map that overwrites the pages of another one among them. |

**Sched** (`SchedProofs`, from `SchedAssumption`: kmain is a task, slices are not
empty). `QueuesMatchStates` alone is not inductive: `schedule` takes the head of
the queue that the search stops at, and that this is a task at all needs that
`length` counts the list, that nothing is queued above `dynamic_priority`, and
that kmain is there, since every other task may be asleep. `SchedInv` is the
conjunction. `QueuesOK(u, st, pr)` says the same of any queues, states and
priorities, so that the lemmas `AddTail` and `FetchFirst` describe the queue
operations on intermediate values; `ScheduleStep` and `MakeReadyStep` combine
them, and `NextInv` has one step per action. `SwitchesToBest`, an action
property, follows from `FetchFirst` and the invariant.

**Mutex** (`MutexProofs`, from `MutexAssumption`: the null values are no tasks and
no mutexes). The invariant `IInv` adds to mutual exclusion that `count` is 1 just
when somebody holds the mutex, that `waiters` is the length of the list, that
listed tasks and tasks about to be woken are asleep, each once, and that every
sleeping task is accounted for. `NoLostWakeup` needs all of it: after the last
unlock the only one who knows of a sleeper is the task with the late
`task_wakeup`. All but the first two is `Sound` and holds until `torn`; a task
about to be woken is asleep unless it is a process, which a trigger may have woken
before. Exclusion, the count and the refinement do not need the lists:
`MutexExcludes` and `MutexIsLock`, which maps steps to steps of `Lock`, are about
every state, broken lists or not.

**RWLock** (`MutexProofs`, on top of the mutex, from `RWLockAssumption`: the
lock's mutexes are mutexes). `rw_mutex` belongs to a writer or to the readers
together, and the reader that unlocks it is seldom the one that locked it, so
`holds` of module `Mutex` says little about it. `RWInv` says of every instruction
of the twelve functions who has `count_mutex` (`CountGuarded`), for whom
`rw_mutex` is locked (`WriterLocks`, `GroupLocks`) and who is counted
(`ReadersExact`). The steps of the mutexes are those of `MutexProofs`;
`UnlockInv` there is stated for an unlock by any task.

**Timer, Softirq, Trigger, Sleep** (`TimeProofs`, from `TimeAssumption` and the
assumptions of `Sched` and `Sleep`). Of a trigger the
property is almost inductive: a sender that has read the set is where the flag
may be wrong. For soft interrupts the invariant follows every assist to the one
list it is in (`OnePosition`, `BitExact`), global or taken over by a
`handle_softirq` that may be interrupted or left behind on a stack, and every
event to those who still have it (`EventsAwaited`). For timers `ListKept` says
that the list is a list of distinct timers with the idle timer in it, for any
insertion in the middle and any removal, and `NotBefore` that the time point of
a linked timer is not before the ticks it has left: the clock may be moved back,
never forward. For sleeping tasks the invariant of `SchedProofs` is no help:
`sleep_task_timeout` unlinks a task without counting, and the queues of that system
have wrong lengths and forget READY tasks. `SleepInv` keeps what is left of it
(`LinksOK`: whatever is linked is READY, once, at its own level), and that is enough
for a blocked sleeper not to be switched to.

**Semaphore, SyncLock** (`LocksProofs`, from `LocksAssumption`). The unit of the
semaphore is in the counter or with one task, from the down, or from the up
that hands it over, until the up; whoever has it is the only one who writes the
holder and the count. The asserts and the refinement of `Lock` follow from this.
For `SemaphoreExact` the units that tasks hold are counted as pairs of a task and
a number (`HeldIn`), so that a unit more or less is an element more or less
(`OneMore`); `UnitInv` holds for any number of units and signals, with the
polling loop that finds one, until `strayed`.

**Srvcall, UserSync, FifoIo, MsgPool, DevQueue** (`QueuesProofs`, from
`QueuesAssumption` and `MsgPoolAssumption`). `Round` says what
each place in the four system calls means for the state of the port and who is
at which place with it; it holds until `disturbed`. For the user mutex `OwnerInv`
says that whoever is in the section owns it, and to which places the library
returns. `ForgetsNobody` is about sleepers and needs more (`UserInv`): a sleeper is
in one queue, once (`SleepsOnce`); the spin lock of the condition variable has one
owner (`CondHeld`); from the moment at which a thread has found no unit, all the
units that come are announced by threads on the way to wake
(`UnitsAnnounced`); and since every thread makes at most one wait queue for a
mutex, there is a handle left for it (`HandlesLeft`). For the queue of the keyboard
`KbdInv` puts together who sleeps and what is in the ring. A sleeper is in one list,
once, or in the hands of the one user that has taken it off to wake it
(`InOneList`), and `semaphore_up` wakes a user that waits for that very unit
(`WaitersLock`); the handler counts as the user of its host (`UserOf`). The units of
the two semaphores, in the counter, held by a user before its move or owed by one
after it (`UnitsOf`), add up to the size at every step, so that whoever gets to the
move finds a byte or a place; one user is at the ring (`OneAtRing`), head and tail
are behind the end only while it is at the wrap, and the places between them are
as many as the units of `full` (`BytesBetween`). Only the two moves change what these
places hold, as `Put` and `Get` of `ByteQueue` do.

For the lists of `WaitQueue` the prover cannot follow the walk along `next` by
induction. But tasks enter a list at the tail and leave it at the head, so a list is
its head and the tasks numbered from one integer to another (`RingOf`): adding and
fetching move one end of the interval. That the walk meets them all, each once,
needs a witness, the numbering, and a least counterexample. `PoolInv` has three
parts: until `torn` both lists hold whom they should (`PoolWhole`), afterwards the
count of the pool is 0, the head of its wait queue points into the ready queue, and
so the next push never comes back (`PoolTorn`); the ring is right in either case.
All of that is until a trigger wakes the consumer (`PoolKept`), and nothing is said
after but that the lists are torn.
`PoolListsExact` and `QueuesSleepOnlyWhenEmpty` assume `OneConsumer`, for a process
waits for the messages of its own pool only; the device queue has one reader by
its definition, for any number of tasks that push.

**WaitExit** (`WaitExitProofs`, from `WaitExitAssumption`: INIT is a process). What a
task is doing decides the state that others read (`StateOfPlace`), INIT stays,
and what a waitpid has returned stays given back (`ReturnedFreed`).

**Pipe, FifoBuf, PThread, MsgQueue** (`IpcProofs`, from `PipeAssumption` and
`IpcAssumption`). The two counters of a pipe are the numbers of tasks that hold
an end, at every step (`EndsCounted`, `CallersHold`); a sleeper is linked
(`SleepersLinked`). For `StreamExact` every writer has a stream of numbers: those
that readers got, then those in the pipe, then what is left of its request;
`StreamInv` says that they follow one another modulo the number of values, for
each writer by itself, and that nothing is left when the writer is outside. A put
behind other bytes and a take from the front change the positions of a writer's
bytes by as many as they move. The ring below is mapped to `ByteQueue` by `Contents`,
what lies between the two indices: `PlaceOf` takes the offsets from the indices,
which run over an unsigned int, to a place in the buffer, and `HeldPut` and
`HeldTaken` say of a run of places what the two halves of a copy make of it. It needs
that the size divides the number of unsigned ints, as a power of two does. For threads the states and the places agree
(`ThreadPlaces`), and who sleeps for a thread is written in that thread. For
message queues `MsgInv` counts: a woken sender adds one message and was woken by
a receiver that took one, so messages and woken senders together pass
`MSGQ_MAX_MSGS` by no more than there are tasks (`RoomForWoken`), and while somebody
sleeps in recv there is a woken receiver for every message (`MessagesAwaited`). Who
is woken by a trigger is in none of these accounts; `MsgKept` is the invariant until
then. The counter of messages is an unsigned char: the theorem `QueuesServed` assumes that
`MSGQ_MAX_MSGS` and the number of tasks together are less than the values it has,
which for the 128 of the code is less than 128 tasks. With more the counter may
wrap, and then receivers sleep on a full queue. Every message is taken to suit
every receiver (the constants of `MCIpc`); a receiver that asks for one type may
sleep beside messages of another.

**ShareMem, VmSpace, NamedPipe** (`MemoryProofs`, from `IpcAssumption`). For shared memory
`ShmGood` says that no two slots have one block (`BlocksHeld`), what a process that
is inside a call knows of its slot (`ProcsAt`), that what is mapped is the memory
of some slot (`ViewsHeld`), and that the links are at least the number of those who
map it, own it or are about to be uncounted (`LinksCount`); `share_mem_put` then
finds links whenever anybody could still come back to the slot. A map that fails
leaves a slot without memory as it was, and is a step to `disturbed` if it had some. All of it holds
until `disturbed`. For address ranges a list is known by its order (`InOrder`) and
by the addresses in it (`In`): `InsertRange` and `CutRange` say what
`vmspace_insert` and the cut of `do_vmspace_unmap` do to both, with neighbours
merged or not and a hole at an end, in the middle or over the whole range.
`SpaceInv` adds where the heap and the mapped pages lie, and that the stack stays
the last range, so that the first fit of `vmspace_get_unmaped` never runs off the
list. `SpacesKept` assumes `ZonesApart`: the heap may not grow beyond the start of
the mappings (`MAX_VMS_HEAP_SIZE` is 512 MB, the mappings start at 0x60000000, and
the heap starts behind the image) and fixed addresses are asked for in the zone
of mappings. The code checks neither.

A named pipe has two tasks. A list of at most two tasks is written out (`Linked`), so
that the walk is five steps that the prover takes one by one. `NamedKept` says
where a task may be (`PlacesKept`), who is in the list of the mutex (`InMutex`: asleep
in the lock and not yet taken off by an unlock), that an unlock unblocks whom it has
taken off (`MutexKept`), and that a call past its start has set its flag (`Calls`), so
that the other end finds a sleeper; `Reasons` are the conditions under which one
sleeps. Whoever unblocks a task by its flag finds it outside the list, or `torn`
is set.

Every inductive invariant was checked by TLC on the instances first.

Each safety invariant and each safety property of a passing run is stated by one
of these theorems. What stays with TLC is liveness under fairness (`NoStarvation`,
`RWProgress`, `SyncServed`, `DeadAreFreed`), which the prover does not do, and the
five runs that end in a violation.

## 5. Hazards

| kind | where | what | properties |
|---|---|---|---|
| stale_state | include/xbook/task.h:143 | task_wakeup looks at the state with interrupts on; when task_unblock runs, an interrupt or another task may have made the task ready, and task_unblock panics. | QueuesMatchStates; QueuesMatchStates holds because the panic stops the kernel before the queue is touched; that the panic is reached is described in README.md, Deviations. |
| numeric_edge | task/schedule.c:23 | The search for a task runs upwards from dynamic_priority and has no end: it leaves the array if every queue from there on is empty, and skips tasks queued below. | AlwaysATask, NothingAboveDynamic, SwitchToBest |
| protocol_sequence | task/schedule.c:35 | length is decremented only here, but other code takes tasks off the ready lists with list_del: the count stays too high and the search stops at an empty queue. | LengthCountsTasks |
| liveness | include/xbook/schedule.h:117 | Where woken and preempted tasks enter their queue decides who runs next: woken tasks are meant to go first, and priorities rise and fall with the slices used, so a task could be kept from the CPU for ever. | NoStarvation, SwitchToBest |
| interleaving | task/mutexlock.c:54 | The waiter is off the list but still asleep when interrupts go on again; another task may lock, unlock and look for waiters in between, and no later unlock finds it any more; a trigger may wake a process first, which then sleeps for the mutex again when the late wakeup comes. | NoLostWakeup, WaitListConsistent |
| atomicity | task/mutexlock.c:16 | A woken waiter does not own the mutex, it tries again, and a third task may have taken it meanwhile: two owners, or a waiter that no unlock will find. | MutualExclusion, ImplementsLock, NoLostWakeup |
| deadlock | include/xbook/rwlock.h:74 | Three mutexes are taken in nested order, one of them by the first reader and released by the last: readers and writers could wait for each other, or a reader could leave with the count wrong. | RWProgress, RWExclusion |
| interleaving | task/trigger.c:85 | A trigger wakes a process wherever it is BLOCKED and does not take it off the list it sleeps in. A mutex waiter goes round its loop and links itself again; semaphore_down, msgpool_pop, io_device_queue_pickup, msg_queue_send and msg_queue_recv do not look again: a unit, a message or room is taken that is not there, and the node is in two lists. | WaitListConsistent, NoLostWakeup, MutualExclusion, SemaphoreExact, ListsExact, SleepsOnlyWhenEmpty, QueueServed; MutualExclusion holds of broken lists too, the others until a linked task is woken (torn, strayed, triggered); the table of triggers in README.md, Deviations, says what happens then. |
| interleaving | include/xbook/semaphore.h:116 | up hands its unit to a waiter instead of counting; a down that comes before the waiter runs, or a destroy, could take or duplicate the unit. | SemaphoreExact, SyncServed |
| atomicity | include/xbook/synclock.h:50 | holder and the repeat count are read and written with interrupts on; between semaphore_down and these lines, or between clearing holder and semaphore_up, other tasks read them. | AssertsHold, SyncImplementsLock, SyncServed |
| ordering | kernel/timer.c:89 | The list must be sorted for update_timers to stop at the first timer not yet due; insertion goes behind the first timer that is earlier. | NeverEarly, TimersInOrder; That the list is in fact not sorted is described in README.md, Deviations; timers fire late, never early. |
| interleaving | kernel/timer.c:137 | timer_cancel looks with interrupts off, turns them on and deletes: the timer may fire in between, and the assertion of timer_del fails. | TimersInOrder; That the assertion fails is described in README.md, Deviations; TimersInOrder covers the list around it. |
| numeric_edge | kernel/timer.c:37 | After thirty days all timeouts are moved back by the idle timer's; one that is due in the same turn and earlier than that would go below zero. | NeverEarly, TimersInOrder |
| stale_state | kernel/timer.c:161 | minim_timeout_val caches the first timeout; timer_del and timer_mod change the list without it, and a value too high would delay every timer. | TimersInOrder |
| stale_state | task/sleep.c:53 | A task woken early must take its timer, which lives on its stack, off the list; whether the timer is still there is guessed from the time. | NoEarlyReturn |
| interleaving | task/wait_exit.c:328 | sys_wait has looked at its children and goes to sleep with interrupts on in between: a child that exits there sees a parent that does not wait, becomes a zombie and wakes nobody. | WaiterReturns |
| ordering | task/wait_exit.c:298 | All zombies are destroyed and the pid of the first is returned, whichever child was asked for and with a status nobody has filled in; the others are never reported. | CollectedOnce; CollectedOnce covers that none is collected twice; what is returned is described in README.md, Deviations. |
| interleaving | task/wait_exit.c:178 | A parent that dies while its children run or hang must hand all of them to init in time, or they keep a parent that does not exist and are never freed. | ParentAlive, DeadAreFreed |
| atomicity | lib/msgpool.c:99 | Between wait_queue_add and task_block the task is linked into the wait queue and still runs. The node is the one the ready queue uses: a clock interrupt in this window links it into both lists. | ListsExact, SleepsOnlyWhenEmpty |
| interleaving | kernel/driver.c:733 | Packets are appended by the interrupt handler: one that comes while the reader is between the look at entry_count and task_block must still wake it. | SleepsOnlyWhenEmpty, NotYetWaiting |
| numeric_edge | lib/fifobuf.c:78 | in and out run freely and overflow; lengths are their unsigned difference, offsets are masked, and a copy may be split at the end of the buffer. | BufferIsAQueue |
| interleaving | lib/fifoio.c:87 | Two counting semaphores and a mutex together say how many bytes there are; between them producers and consumers sleep and are interrupted, and a byte could be overwritten or read twice. | FifoIoIsAQueue |
| deadlock | arch/x86/mach-i386/drivers/input/keyboard.c:965 | The interrupt handler may sleep on a semaphore and on a mutex: then the task it interrupted sleeps, which may be the one that would have released them. | HandlerReturns |
| interleaving | ipc/pipe.c:118 | Readers and writers of a pipe sleep on the same wait queue; a wakeup may go to a task that cannot use it while the one that could sleeps on. | NobodyForgotten |
| atomicity | ipc/pipe.c:248 | Each close decrements its counter and then looks at both: two that overlap both find the pipe unused and both free it, or a reader still inside loses it. | FreedWhenUnused; That both may free it is described in README.md, Deviations. |
| partial_failure | ipc/pipe.c:212 | A write that may not wait and does not fit is half done when it fails; a caller that tries again repeats bytes. | StreamExact |
| resource_bound | ipc/msgqueue.c:229 | The number of messages is an unsigned char, the test for full is >, and woken senders do not test again: the queue grows past its limit and the counter could wrap. | QueueServed |
| ordering | ipc/msgqueue.c:263 | Receivers wait for a message, not for a type of message: the one woken may not be the one the message is for. | QueueServed; For messages that suit every receiver; with types the hazard is real and described in README.md, Deviations. |
| interleaving | kernel/softirq.c:87 | handle_softirq takes all events into a local variable and runs them with interrupts on: an interrupt runs it again on top, and the scheduler's action switches to another task with the rest of the events on the stack. An event taken and not run, or a list of assists, could be forgotten. | NoEventLost |
| protocol_sequence | kernel/softirq.c:270 | Scheduling an assist sets one bit of its status and running it clears another: an assist that was scheduled once could never be again, or be linked twice. | NoEventLost; For high assists, whose two bits are the same one; normal ones can be scheduled once only, see README.md, Deviations. |
| stale_state | task/trigger.c:90 | do_active_trigger computes TRIG_LEFT after it has turned interrupts on again, from a set that other senders and the process change: the flag may be cleared for a trigger that was just set, and do_trigger looks at the flag only. | NoTriggerForgotten; NoTriggerForgotten holds but for a clear computed from a stale read, which is described in README.md, Deviations. |
| atomicity | src/library/pthread/pthread_mutex.c:66 | Between the failed exchange and the sleep the holder may unlock and wake nobody; the library relies on waitque_wait clearing the spin lock and blocking in one step, and on a queue that two threads may be creating at once. | ForgetsNobody, UserLockIsALock |
| interleaving | src/library/pthread/semaphore.c:91 | A unit posted to the semaphore is announced after the mutex is released: a third thread may take it, a waiter may go to sleep between its look and the signal, and the one woken may find nothing. | ForgetsNobody; With sem_timedwait, which does not look again, a unit can be taken twice: README.md, Deviations. |
| interleaving | task/pthread.c:388 | pthread_join looks, turns interrupts on and blocks, while the thread exits, is detached or cancelled: the joiner must be known to a thread that will wake it. | JoinerRemembered; JoinerRemembered leaves out the joiners whose thread ended in the window; README.md, Deviations, describes them. |
| protocol_sequence | task/pthread.c:206 | Whether the process ends with its thread is decided by thread_count, which start, exit and cancel change in different places: a count too low ends the process over the head of a thread, one too high never ends it. | CountExact |
| stale_state | task/wait_exit.c:50 | Whether a dead task is a process or a thread is guessed from thread_count at the time it is collected: the last living thread of a process could lose its address space. | VmmAlive |
| partial_failure | vmm/vmspace.c:251 | Unmapping the middle of a space splits it, mapping beside one merges, the heap moves over pages mapped on demand: after a sequence of them the list and the page tables could disagree, spaces overlap or a page be lost. | SpacesExact |
| interleaving | kernel/srvcall.c:290 | Caller and server hand the port to each other by its state and by each other's task state, and sleep after the lock is released: an answer could go to another caller, or one of them sleep on with nobody to wake it. | CallsServed; CallsServed leaves out tasks that were to be woken just before they slept (missed); README.md, Deviations, describes them. |
| stale_state | ipc/sharemem.c:210 | A slot of shared memory is found under the lock of the table and used after it; links count the mappings, fork adds to them, and put frees the pages when there are none: pages could go back to the allocator while a process maps them, and a map that finds no memory (line 237) overwrites what another has put into the slot. | SharedPagesLive; SharedPagesLive holds until a put or a second map falls into the window of a map, a map overwrites the memory of a slot, or one page is shared under two names; README.md, Deviations, describes what happens then. |
| atomicity | ipc/fifo.c:410 | A named pipe has no wait queue: each end unlocks and then blocks, and the other end wakes it by its state, whatever it sleeps for. It may be passed over, sleep on what is there, or be unblocked out of the wait list of the mutex. | NamedPipeServed; NamedPipeServed leaves out ends that were passed over before they slept (missed) and ends when one is unblocked in the mutex (torn); README.md, Deviations, describes both. |

## 6. Not modelled, and the plan

Not modelled: page tables and page faults, loading of programs, FatFs and the
file descriptor layer, lwIP, drawing, port input and output, the C library
beside its locks, and user programs: data and hardware rather than control, or
third-party code. Memory is never short in the models unless said otherwise.
The composed instances put components side by side; the components are composed
where the code composes them: `Sleep` on `Sched`, `RWLock` on `Mutex`, `SyncLock`
on `Semaphore`, `MsgPool`, `DevQueue` and the mutex of
`NamedPipe` on `WaitQueue`.

Order of work, most important first; blocks 1 to 6 are done, and of
block 7 the named pipes.

1. `Sched` with its proofs: all else stands on it.
2. `Lock`, `Mutex` with its proofs, `RWLock`, `Semaphore`, `SyncLock`.
3. `Timer`, `Sleep`, `WaitExit`.
4. `WaitQueue`, `MsgPool`, `DevQueue`; `ByteQueue`, `FifoBuf`, `FifoIo`, `Pipe`,
   `MsgQueue`.
5. Threads (`PThread`), triggers and alarms (`Trigger`), user wait queues and the
   locks of the library (`UserSync`), soft interrupts (`Softirq`).
6. Service calls (`Srvcall`), shared memory (`ShareMem`), address ranges
   (`VmSpace`).
7. Named pipes (`NamedPipe`). Left: named semaphores (`ipc/sem.c`), the table as in
   `MsgQueue` around `Semaphore`; references of devices, open and close
   (`kernel/driver.c`).
8. Proofs: done for `Sched`, `Mutex`, `RWLock`, `SyncLock`, `Timer`, `Softirq`,
   `Trigger`, `Srvcall`, `WaitExit`, `Pipe`, `PThread`, `ShareMem`, `UserSync`,
   `Semaphore`, `MsgQueue`, `VmSpace`, `Sleep`, `FifoBuf`, `FifoIo`, the lists of
   `WaitQueue` with `MsgPool` and `DevQueue`, and `NamedPipe`.
