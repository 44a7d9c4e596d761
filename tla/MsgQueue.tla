------------------------------ MODULE MsgQueue ------------------------------
(***************************************************************************)
(* Message queues between processes: src/ipc/msgqueue.c.                   *)
(*                                                                         *)
(* msg_queue_mutex guards the table, the mutex of a queue the queue; what  *)
(* a task does under one of them is one step (module Semaphore).  send and *)
(* recv look the queue up under the first, release it, and then take the   *)
(* second: a queue may be given back and the slot used again in between.   *)
(* As in module Pipe no clock interrupt is assumed to fall between         *)
(* wait_queue_add and task_block, and kmalloc does not fail.               *)
(*                                                                         *)
(* A trigger wakes a process that sleeps in send or recv (trigger.c): it   *)
(* goes on as if the other side had woken it, and its node, now in the     *)
(* ready queue, is still linked in the wait queue.  From there on the wait *)
(* queues are forgotten, and a wakeup may be anybody's or nobody's.        *)
(***************************************************************************)
EXTENDS Integers, Sequences, FiniteSets, SequencesExt

CONSTANTS Task,
          Slot,          \* the entries of msg_queue_table; the id of each
          Name, NoName,  \* names given to msg_queue_get; name[0] = '\0'
          MSGQ_MAX_MSGS,
          Uchars,        \* number of values of an unsigned char
          Type,          \* message types, above 0
          Select         \* arguments of recv: <<msgtype, IPC_EXCEPT given>>

\* What is asked of the constants; the module that instantiates this one
\* assumes it.
MsgQueueConstants ==
    /\ NoName \notin Name /\ IsFiniteSet(Task)
    /\ MSGQ_MAX_MSGS \in Nat /\ Uchars \in Nat \ {0}
    /\ Type \subseteq Nat \ {0}
    /\ Select \subseteq Int \X BOOLEAN

VARIABLES queue,  \* queue[s]: name, msg_list (types), msgs, senders, receivers
          asleep, \* the tasks in state TASK_BLOCKED
          handle, \* the id a task got from msg_queue_get
          pc,     \* where in send or recv a task is
          call,   \* its arguments
          strayed \* a trigger has woken a task that is in a wait queue

vars == <<queue, asleep, handle, pc, call, strayed>>

\* msg_queue_alloc; what is left of the last queue in the slot is dropped.
Fresh(n) == [name |-> n, msg_list |-> << >>, msgs |-> 0,
             senders |-> << >>, receivers |-> << >>]
NoCall == [type |-> 0, except |-> FALSE, nowait |-> FALSE]

\* init_msg_queue.
Init ==
    /\ queue = [s \in Slot |-> Fresh(NoName)]
    /\ asleep = {}
    /\ handle = [t \in Task |-> NoName]
    /\ pc = [t \in Task |-> "out"]
    /\ call = [t \in Task |-> NoCall]
    /\ strayed = FALSE

Leave(t) ==
    /\ pc' = [pc EXCEPT ![t] = "out"]
    /\ call' = [call EXCEPT ![t] = NoCall]

\* The queue a task works on: it keeps the pointer.
Mine(t) == handle[t]

-----------------------------------------------------------------------------
\* msg_queue_get with IPC_CREAT: the queue of that name, or a free slot (the
\* code takes the first).  With no free slot, or IPC_EXCL and a queue that
\* exists, it returns -1.
msg_queue_get(t, n, s) ==
    /\ pc[t] = "out"
    /\ \/ queue[s].name = n /\ UNCHANGED queue
       \/ /\ \A x \in Slot : queue[x].name # n
          /\ queue[s].name = NoName
          /\ queue' = [queue EXCEPT ![s] = Fresh(n)]
    /\ handle' = [handle EXCEPT ![t] = s]
    /\ UNCHANGED <<asleep, pc, call, strayed>>

\* msg_queue_put, msg_queue_free: the name is cleared and nothing else.
msg_queue_put(t) ==
    /\ pc[t] = "out" /\ Mine(t) \in Slot
    /\ queue[Mine(t)].name # NoName
    /\ queue' = [queue EXCEPT ![Mine(t)].name = NoName]
    /\ UNCHANGED <<asleep, handle, pc, call, strayed>>

\* The lookup of msg_queue_send and msg_queue_recv; with no such queue they
\* return -1.  Bound: no new calls once the wait queues are forgotten.
Find(t, step, args) ==
    /\ ~ strayed
    /\ pc[t] = "out" /\ Mine(t) \in Slot
    /\ queue[Mine(t)].name # NoName
    /\ pc' = [pc EXCEPT ![t] = step]
    /\ call' = [call EXCEPT ![t] = args]
    /\ UNCHANGED <<queue, asleep, handle, strayed>>

SendFind(t, type, nowait) ==
    Find(t, "send", [type |-> type, except |-> FALSE, nowait |-> nowait])

RecvFind(t, select, nowait) ==
    Find(t, "recv", [type |-> select[1], except |-> select[2], nowait |-> nowait])

-----------------------------------------------------------------------------
\* wait_queue_wakeup takes the first task off the list and makes it READY.
Woken(list) == IF list = << >> THEN {} ELSE {Head(list)}
Rest(list) == IF list = << >> THEN list ELSE Tail(list)
WakeFirst(list) ==
    IF strayed THEN \E x \in Task : asleep' = asleep \ {x} ELSE asleep' = asleep \ Woken(list)
Enter(list, t) == IF strayed THEN list ELSE Append(list, t)

\* Mutant: the receivers are not woken.
AddQuietly(t) ==
    LET q == queue[Mine(t)]
    IN  /\ queue' = [queue EXCEPT ![Mine(t)] =
                        [q EXCEPT !.msg_list = <<call[t].type>> \o @, !.msgs = (@ + 1) % Uchars]]
        /\ Leave(t)
        /\ UNCHANGED <<asleep, handle, strayed>>

\* The message goes to the head of the list: list_add.
Add(t) ==
    LET q == queue[Mine(t)]
    IN  /\ queue' = [queue EXCEPT ![Mine(t)] =
                        [q EXCEPT !.msg_list = <<call[t].type>> \o @,
                                  !.msgs = (@ + 1) % Uchars,
                                  !.receivers = Rest(@)]]
        /\ WakeFirst(q.receivers)
        /\ Leave(t)
        /\ UNCHANGED <<handle, strayed>>

Full(t) == queue[Mine(t)].msgs > MSGQ_MAX_MSGS

SendNow(t) ==
    /\ pc[t] = "send" /\ ~ Full(t)
    /\ Add(t)

SendNowait(t) ==
    /\ pc[t] = "send" /\ Full(t) /\ call[t].nowait
    /\ Leave(t)
    /\ UNCHANGED <<queue, asleep, handle, strayed>>

SendWait(t) ==
    /\ pc[t] = "send" /\ Full(t) /\ ~ call[t].nowait
    /\ queue' = [queue EXCEPT ![Mine(t)].senders = Enter(@, t)]
    /\ asleep' = asleep \cup {t}
    /\ pc' = [pc EXCEPT ![t] = "send_woken"]
    /\ UNCHANGED <<handle, call, strayed>>

\* Woken, it sends without another look at the number of messages.
SendWoken(t) ==
    /\ pc[t] = "send_woken" /\ t \notin asleep
    /\ Add(t)

Send(t) == SendNow(t) \/ SendNowait(t) \/ SendWait(t) \/ SendWoken(t)

-----------------------------------------------------------------------------
\* The three branches on msgtype.
Matches(c, type) ==
    CASE c.type > 0 -> IF c.except THEN type # c.type ELSE type = c.type
      [] c.type = 0 -> TRUE
      [] OTHER -> type <= -c.type

Found(t) == {i \in DOMAIN queue[Mine(t)].msg_list :
                Matches(call[t], queue[Mine(t)].msg_list[i])}

\* The first message that matches is taken and a sender woken; with none that
\* matches recv returns -1.
Search(t) ==
    LET q == queue[Mine(t)]
        i == CHOOSE k \in Found(t) : \A x \in Found(t) : k <= x
    IN  /\ IF Found(t) = {}
           THEN UNCHANGED <<queue, asleep>>
           ELSE /\ queue' = [queue EXCEPT ![Mine(t)] =
                                [q EXCEPT !.msg_list = RemoveAt(@, i),
                                          !.msgs = (@ - 1) % Uchars,
                                          !.senders = Rest(@)]]
                /\ WakeFirst(q.senders)
        /\ Leave(t)
        /\ UNCHANGED <<handle, strayed>>

RecvNow(t) ==
    /\ pc[t] = "recv" /\ queue[Mine(t)].msgs # 0
    /\ Search(t)

RecvNowait(t) ==
    /\ pc[t] = "recv" /\ queue[Mine(t)].msgs = 0 /\ call[t].nowait
    /\ Leave(t)
    /\ UNCHANGED <<queue, asleep, handle, strayed>>

RecvWait(t) ==
    /\ pc[t] = "recv" /\ queue[Mine(t)].msgs = 0 /\ ~ call[t].nowait
    /\ queue' = [queue EXCEPT ![Mine(t)].receivers = Enter(@, t)]
    /\ asleep' = asleep \cup {t}
    /\ pc' = [pc EXCEPT ![t] = "recv_woken"]
    /\ UNCHANGED <<handle, call, strayed>>

RecvWoken(t) ==
    /\ pc[t] = "recv_woken" /\ t \notin asleep
    /\ Search(t)

Recv(t) == RecvNow(t) \/ RecvNowait(t) \/ RecvWait(t) \/ RecvWoken(t)

\* do_active_trigger makes the sleeper READY and leaves it linked.  Bound: one
\* such trigger.
Trigger(t) ==
    /\ ~ strayed /\ t \in asleep
    /\ asleep' = asleep \ {t}
    /\ queue' = [s \in Slot |-> [queue[s] EXCEPT !.senders = << >>, !.receivers = << >>]]
    /\ strayed' = TRUE
    /\ UNCHANGED <<handle, pc, call>>

Next ==
    \E t \in Task :
        \/ \E n \in Name, s \in Slot : msg_queue_get(t, n, s)
        \/ msg_queue_put(t)
        \/ \E type \in Type, nowait \in BOOLEAN : SendFind(t, type, nowait)
        \/ \E select \in Select, nowait \in BOOLEAN : RecvFind(t, select, nowait)
        \/ Send(t)
        \/ Recv(t)
        \/ Trigger(t)

Spec == Init /\ [][Next]_vars

-----------------------------------------------------------------------------
(* Properties.                                                             *)

\* How far past the limit the senders get that recv wakes and that do not look
\* again: a message for each task but the one that receives, on a queue that
\* holds MSGQ_MAX_MSGS + 1 messages without them; until a trigger wakes one.
SendersBound ==
    \A s \in Slot :
        ~ strayed => Len(queue[s].msg_list) <= MSGQ_MAX_MSGS + Cardinality(Task)

\* If all messages suit all receivers, nobody sleeps in recv while there are
\* messages that no woken receiver is on the way to take; until a trigger wakes
\* a task that is in a wait queue.
Waking(s, step) == \E t \in Task : Mine(t) = s /\ pc[t] = step /\ t \notin asleep
NoSleepOnMessages ==
    \A s \in Slot :
        ~ strayed /\ queue[s].msgs > 0 /\ queue[s].receivers # << >> => Waking(s, "recv_woken")

=============================================================================
