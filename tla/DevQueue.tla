----------------------------- MODULE DevQueue -----------------------------
(***************************************************************************)
(* The packet queue of a device, device_queue_t of src/kernel/driver.c, as *)
(* the network drivers use it: the interrupt handler appends packets, a    *)
(* task that holds the device mutex picks them up.                         *)
(*                                                                         *)
(* The handler runs with interrupts off, one step.  A task that finds the  *)
(* queue empty links itself into the wait queue, unlocks, which switches   *)
(* the interrupts on, and calls task_block.                                *)
(***************************************************************************)
EXTENDS WaitQueue

CONSTANTS reader,                 \* the task that picks up; the others compute
          Process,                \* the tasks that are no kernel threads
          DEVICE_QUEUE_ENTRY_NR

\* What is asked of the constants; the module that instantiates this one
\* assumes it.
DevQueueConstants ==
    reader \in Task /\ DEVICE_QUEUE_ENTRY_NR \in Nat \ {0}

VARIABLES mem,           \* pointers, task states, ready counter: module WaitQueue
          cur,           \* current_task
          entry_count,
          pc,            \* where in io_device_queue_pickup the reader is
          torn           \* an interrupt came between wait_queue_add and task_block,
                         \* or a trigger after it

vars == <<mem, cur, entry_count, pc, torn>>

Init ==
    /\ mem = BootMemory(reader)
    /\ cur = Idle
    /\ entry_count = 0
    /\ pc = "out"
    /\ torn = FALSE

-----------------------------------------------------------------------------
Switch(m) ==
    /\ mem' = fetch_first(m)
    /\ cur' = IF mem'.bad = "no" THEN NextTask(m) ELSE cur

\* The clock interrupt takes the CPU from the current task.
Preempt ==
    /\ cur # Idle
    /\ Switch(add_ready(mem, cur))
    /\ torn' = (torn \/ (cur = reader /\ pc = "block"))
    /\ UNCHANGED <<entry_count, pc>>

LeaveIdle ==
    /\ cur = Idle /\ mem.len > 0
    /\ Switch(mem)
    /\ UNCHANGED <<entry_count, pc, torn>>

\* The handler has a packet.  One that finds more than
\* DEVICE_QUEUE_ENTRY_NR entries is dropped.
io_device_queue_append ==
    /\ entry_count <= DEVICE_QUEUE_ENTRY_NR
    /\ entry_count' = entry_count + 1
    /\ mem' = wait_queue_wakeup(mem)
    /\ torn' = (torn \/ pc = "block")
    /\ UNCHANGED <<cur, pc>>

\* io_device_queue_pickup with a packet there.
PickupNow ==
    /\ cur = reader /\ pc = "out" /\ entry_count > 0
    /\ entry_count' = entry_count - 1
    /\ UNCHANGED <<mem, cur, pc, torn>>

PickupWait ==
    /\ cur = reader /\ pc = "out" /\ entry_count = 0
    /\ mem' = wait_queue_add(mem, reader)
    /\ pc' = "block"
    /\ UNCHANGED <<cur, entry_count, torn>>

PickupBlock ==
    /\ cur = reader /\ pc = "block"
    /\ Switch([mem EXCEPT !.state[reader] = "BLOCKED"])
    /\ pc' = "woken"
    /\ UNCHANGED <<entry_count, torn>>

\* Woken: the first entry is taken without another look; if there is none the
\* head of the list is taken for an entry.
PickupWoken ==
    /\ cur = reader /\ pc = "woken"
    /\ pc' = "out"
    /\ entry_count' = entry_count - 1
    /\ mem' = IF entry_count = 0 THEN [mem EXCEPT !.bad = "fault"] ELSE mem
    /\ UNCHANGED <<cur, torn>>

\* do_active_trigger (trigger.c) makes a process that sleeps here READY: its node
\* goes into the ready queue, and the wait queue still points to it.
Trigger ==
    /\ reader \in Process /\ mem.state[reader] = "BLOCKED"
    /\ mem' = task_wakeup(mem, reader)
    /\ torn' = TRUE
    /\ UNCHANGED <<cur, entry_count, pc>>

io_device_queue_pickup == PickupNow \/ PickupWait \/ PickupBlock \/ PickupWoken

Next ==
    /\ mem.bad = "no"
    /\ Preempt \/ LeaveIdle \/ io_device_queue_append \/ io_device_queue_pickup \/ Trigger

Spec == Init /\ [][Next]_vars

-----------------------------------------------------------------------------
(* Properties.                                                             *)

\* Until the clock or the device interrupts the reader between wait_queue_add
\* and task_block, or a trigger wakes it after that, it sleeps only while the
\* queue is empty, a reader that goes on after sleeping has a packet to take,
\* and no check of the list code fails.
SleepsOnlyWhenEmpty ==
    ~ torn =>
        /\ mem.bad = "no"
        /\ mem.state[reader] = "BLOCKED" => entry_count = 0
        /\ pc = "woken" /\ mem.state[reader] # "BLOCKED" => entry_count > 0

\* "assert(!list_find(&task->list, &wait_queue->wait_list)) failed"
\* (BUGSLIST.md): the task that enters the wait queue is not in it already.
NotYetWaiting ==
    cur = reader /\ pc = "out" /\ entry_count = 0 => ~ list_find(mem, reader, WQ)

=============================================================================
