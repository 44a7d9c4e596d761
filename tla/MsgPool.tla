------------------------------ MODULE MsgPool ------------------------------
(***************************************************************************)
(* A message pool, src/lib/msgpool.c, as the GUI uses it: processes take   *)
(* messages from their own pool (msgpool_pop, msgpool_try_pop), the GUI    *)
(* and timers put them there (msgpool_try_push).                           *)
(*                                                                         *)
(* What a task does under the mutex of the pool is one step: the mutex is  *)
(* the subject of module Mutex.  A task that finds the pool empty links    *)
(* itself into the wait queue, unlocks and calls task_block; interrupts    *)
(* are on meanwhile, and the clock may switch to another task.  A trigger  *)
(* wakes a process that sleeps here as it does anywhere, and leaves its    *)
(* node in the wait queue.                                                 *)
(***************************************************************************)
EXTENDS WaitQueue

CONSTANTS Consumer,   \* the tasks that pop; all others push
          Max,        \* msgmaxcnt
          Sizes       \* number of values of size_t

ASSUME MsgPoolAssumption ==
    /\ Consumer \subseteq Task
    /\ Max \in Nat \ {0}
    /\ Sizes \in Nat /\ Sizes > Max + 1

VARIABLES mem,     \* pointers, task states, ready counter: module WaitQueue
          cur,     \* current_task
          count,   \* msgcount
          head,    \* where the next message is put
          tail,    \* where the next message is taken
          pc,      \* where in msgpool_pop a task is
          torn,    \* a task was put in the ready queue while in the wait queue
          triggered \* a trigger has done so

vars == <<mem, cur, count, head, tail, pc, torn, triggered>>

Init ==
    /\ \E t \in Task : mem = BootMemory(t)
    /\ cur = Idle
    /\ count = 0 /\ head = 0 /\ tail = 0
    /\ pc = [t \in Task |-> "out"]
    /\ torn = FALSE /\ triggered = FALSE

-----------------------------------------------------------------------------
\* schedule(), the current task having been put where it goes.
Switch(m) ==
    /\ mem' = fetch_first(m)
    /\ cur' = IF mem'.bad = "no" THEN NextTask(m) ELSE cur

\* The clock interrupt takes the CPU from the current task.
Preempt ==
    /\ cur # Idle
    /\ Switch(add_ready(mem, cur))
    /\ torn' = (torn \/ list_find(mem, cur, WQ))
    /\ UNCHANGED <<count, head, tail, pc, triggered>>

LeaveIdle ==
    /\ cur = Idle /\ mem.len > 0
    /\ Switch(mem)
    /\ UNCHANGED <<count, head, tail, pc, torn, triggered>>

\* The index after i in the ring of messages.
After(i) == IF i + 1 >= Max THEN 0 ELSE i + 1

Take(c) ==
    /\ tail' = After(tail)
    /\ count' = (count - 1) % Sizes
    /\ mem' = WakeupIfAny(mem)
    /\ pc' = [pc EXCEPT ![c] = "out"]
    /\ UNCHANGED <<cur, head, torn, triggered>>

\* msgpool_pop or msgpool_try_pop with a message in the pool.
PopNow(c) ==
    /\ cur = c /\ pc[c] = "out" /\ count > 0
    /\ Take(c)

\* msgpool_pop of an empty pool: into the wait queue, mutex unlocked.
PopWait(c) ==
    /\ cur = c /\ pc[c] = "out" /\ count = 0
    /\ mem' = wait_queue_add(mem, c)
    /\ pc' = [pc EXCEPT ![c] = "block"]
    /\ UNCHANGED <<cur, count, head, tail, torn, triggered>>

\* task_block(TASK_BLOCKED).
PopBlock(c) ==
    /\ cur = c /\ pc[c] = "block"
    /\ Switch([mem EXCEPT !.state[c] = "BLOCKED"])
    /\ pc' = [pc EXCEPT ![c] = "woken"]
    /\ UNCHANGED <<count, head, tail, torn, triggered>>

\* Woken: a message is taken without another look.
PopWoken(c) ==
    /\ cur = c /\ pc[c] = "woken"
    /\ Take(c)

\* Mutant: nobody is woken.
PushQuietly(p) ==
    /\ cur = p /\ count < Max
    /\ head' = After(head)
    /\ count' = (count + 1) % Sizes
    /\ UNCHANGED <<mem, cur, tail, pc, torn, triggered>>

msgpool_try_push(p) ==
    /\ cur = p /\ count < Max
    /\ head' = After(head)
    /\ count' = (count + 1) % Sizes
    /\ mem' = WakeupIfAny(mem)
    /\ UNCHANGED <<cur, tail, pc, torn, triggered>>

Pop(c) == PopNow(c) \/ PopWait(c) \/ PopBlock(c) \/ PopWoken(c)

\* do_active_trigger (trigger.c) makes a sleeper READY where it is: its node goes
\* into the ready queue, and the wait queue still points to it.
Trigger(c) ==
    /\ mem.state[c] = "BLOCKED"
    /\ mem' = task_wakeup(mem, c)
    /\ torn' = TRUE /\ triggered' = TRUE
    /\ UNCHANGED <<cur, count, head, tail, pc>>

Next ==
    /\ mem.bad = "no"
    /\ \/ Preempt \/ LeaveIdle
       \/ \E c \in Consumer : Pop(c) \/ Trigger(c)
       \/ \E p \in Task \ Consumer : msgpool_try_push(p)

Spec == Init /\ [][Next]_vars

-----------------------------------------------------------------------------
(* Properties.                                                             *)

\* A circular list, right in both directions.
Ring(h) ==
    /\ Ends(mem, h)
    /\ \A x \in Members(mem, h) \cup {h} : mem.prev[mem.next[x]] = x

\* With one consumer the counter and the ring agree and no message is written
\* over or read twice, until a trigger makes one take a message of an empty pool.
PoolExact ==
    /\ count \in 0 .. Max
    /\ (head - tail - count) % Max = 0

\* Until a task is switched away from between wait_queue_add and task_block, or
\* woken by a trigger after it, both lists are well formed, the ready queue holds
\* the READY tasks and the wait queue the ones that are blocked or about to
\* block, and no ASSERT of the list code fails.
ListsExact ==
    /\ ~ triggered => PoolExact
    /\ ~ torn =>
           /\ mem.bad = "no"
           /\ Ring(RQ) /\ Ring(WQ)
           /\ Members(mem, RQ) = {t \in Task : mem.state[t] = "READY"}
           /\ mem.len = Cardinality(Members(mem, RQ))
           /\ Members(mem, WQ) =
                 {t \in Task : mem.state[t] = "BLOCKED" \/ pc[t] = "block"}

\* Until then, too, nobody sleeps while there are messages that nobody woken is
\* on the way to take.
NoSleepOnMessages ==
    ~ torn /\ count > 0 =>
        \/ \A c \in Consumer : mem.state[c] # "BLOCKED"
        \/ \E c \in Consumer : mem.state[c] # "BLOCKED" /\ pc[c] = "woken"

=============================================================================
