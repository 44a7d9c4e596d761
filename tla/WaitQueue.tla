----------------------------- MODULE WaitQueue -----------------------------
(***************************************************************************)
(* Wait queues, src/task/waitqueue.c, with the pointers of include/list.h. *)
(*                                                                         *)
(* A task has one list node, task->list, for the ready queue and for every *)
(* wait queue.  The lists are therefore modelled as the code has them: two *)
(* pointers per node.  The operators below map a memory m, a record of all *)
(* pointers, task states and the counter of the ready queue, to the memory *)
(* after the call; bad tells that an ASSERT failed ("assert"), a null      *)
(* pointer or a list head was used as a task ("fault"), or that a walk     *)
(* through a list does not end ("hang").                                   *)
(***************************************************************************)
EXTENDS Integers, FiniteSets

CONSTANTS Task, RQ, WQ, NULL, Idle
\* RQ: the head of the ready queue the tasks share; WQ: the head of the wait
\* queue; Idle: the idle task, in a ready queue of its own.

ASSUME WaitQueueAssumption ==
    /\ IsFiniteSet(Task) /\ Task # {}
    /\ Cardinality({RQ, WQ, NULL, Idle}) = 4
    /\ {RQ, WQ, NULL, Idle} \cap Task = {}

Node == Task \cup {RQ, WQ}

\* kthread_start and wait_queue_init: all tasks ready, in some order.
BootMemory(first) ==
    LET order == CHOOSE f \in [1 .. Cardinality(Task) -> Task] :
                     /\ f[1] = first
                     /\ \A i, j \in DOMAIN f : f[i] = f[j] => i = j
        n == Cardinality(Task)
        at(i) == IF i \in 1 .. n THEN order[i] ELSE RQ
        pos(t) == CHOOSE i \in 1 .. n : order[i] = t
    IN  [next  |-> [x \in Node |-> CASE x = WQ -> WQ
                                     [] x = RQ -> at(1)
                                     [] OTHER -> at(pos(x) + 1)],
         prev  |-> [x \in Node |-> CASE x = WQ -> WQ
                                     [] x = RQ -> at(n)
                                     [] OTHER -> at(pos(x) - 1)],
         len   |-> n,
         state |-> [t \in Task |-> "READY"],
         bad   |-> "no"]

-----------------------------------------------------------------------------
(* include/list.h                                                          *)

list_add_tail(m, n, h) ==
    LET p == m.prev[h]
    IN  IF p = NULL THEN [m EXCEPT !.bad = "fault"]
        ELSE [m EXCEPT !.prev = [@ EXCEPT ![h] = n, ![n] = p],
                       !.next = [@ EXCEPT ![n] = h, ![p] = n]]

\* __list_del_node, and then both pointers of n become p.
Unlink(m, n, p) ==
    IF m.prev[n] = NULL THEN [m EXCEPT !.bad = "fault"]
    ELSE [m EXCEPT !.prev = [@ EXCEPT ![m.next[n]] = m.prev[n], ![n] = p],
                   !.next = [@ EXCEPT ![m.prev[n]] = m.next[n], ![n] = p]]

list_del(m, n) == Unlink(m, n, NULL)
list_del_init(m, n) == Unlink(m, n, n)

\* The nodes a walk from h meets, in steps 0, 1, ...; it stays where it ends.
Walk(m, h) ==
    LET last == Cardinality(Node)
        w[k \in 0 .. last] ==
            IF k = 0 THEN m.next[h]
            ELSE LET x == w[k - 1] IN IF x \in {h, NULL} THEN x ELSE m.next[x]
    IN  w

list_find(m, n, h) == \E k \in 0 .. Cardinality(Node) : Walk(m, h)[k] = n
Ends(m, h) == Walk(m, h)[Cardinality(Node)] = h
Members(m, h) ==
    LET w == Walk(m, h) IN {w[k] : k \in DOMAIN w} \ {h, NULL}

\* What a walk that does not come back to h does to the machine.
Lost(m, h) ==
    [m EXCEPT !.bad = IF Walk(m, h)[Cardinality(Node)] = NULL THEN "fault" ELSE "hang"]

-----------------------------------------------------------------------------
(* The scheduler, as far as it links tasks.                                *)

add_ready(m, t) ==
    [list_add_tail(m, t, RQ) EXCEPT !.state[t] = "READY", !.len = @ + 1]

\* task_wakeup and task_unblock.
task_wakeup(m, t) ==
    IF m.state[t] # "BLOCKED" THEN m
    ELSE IF list_find(m, t, RQ) THEN [m EXCEPT !.bad = "assert"]
    ELSE IF ~ Ends(m, RQ) THEN Lost(m, RQ)
    ELSE add_ready(m, t)

\* fetch_first trusts the counter; the idle task runs when it is 0.
NextTask(m) == IF m.len = 0 THEN Idle ELSE m.next[RQ]

fetch_first(m) ==
    IF m.len = 0 THEN m
    ELSE IF m.next[RQ] \notin Task THEN [m EXCEPT !.bad = "fault"]
    ELSE [list_del_init(m, m.next[RQ])
             EXCEPT !.len = @ - 1, !.state[m.next[RQ]] = "RUNNING"]

-----------------------------------------------------------------------------
(* src/task/waitqueue.c                                                    *)

wait_queue_add(m, t) ==
    IF list_find(m, t, WQ) THEN [m EXCEPT !.bad = "assert"]
    ELSE IF ~ Ends(m, WQ) THEN Lost(m, WQ)
    ELSE list_add_tail(m, t, WQ)

\* Mutant: the task that is woken stays in the wait queue.
WakeupKeepsLinked(m) ==
    IF m.next[WQ] = WQ THEN m ELSE task_wakeup(m, m.next[WQ])

wait_queue_wakeup(m) ==
    IF m.next[WQ] = WQ THEN m
    ELSE IF m.next[WQ] \notin Task THEN [m EXCEPT !.bad = "fault"]
    ELSE task_wakeup(list_del(m, m.next[WQ]), m.next[WQ])

\* Callers that ask for the length of the queue first, which is a walk.
WakeupIfAny(m) == IF Ends(m, WQ) THEN wait_queue_wakeup(m) ELSE Lost(m, WQ)
=============================================================================
