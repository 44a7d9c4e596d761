------------------------------ MODULE Softirq ------------------------------
(***************************************************************************)
(* Soft interrupts and task assists: src/kernel/softirq.c, raised by the   *)
(* clock (src/kernel/clock.c) and run by do_softirq at the end of every    *)
(* hardware interrupt.                                                     *)
(*                                                                         *)
(* handle_softirq runs the actions with interrupts on: another interrupt   *)
(* runs do_softirq again on top of it, and the action of SCHED_SOFTIRQ may *)
(* switch to another task, so that the rest of the events waits in a local *)
(* variable on the stack of a task that does not run.  Each task has a     *)
(* stack of frames of handle_softirq, the last one running.                *)
(***************************************************************************)
EXTENDS Integers, Sequences, SequencesExt, FiniteSets, FiniteSetsExt

CONSTANTS Task,
          High, Low,      \* the task assists, by the function that schedules them
          MAX_REDO_IRQ,
          MaxFrames       \* bound: how deep interrupts nest on a task

HIGHTASK_ASSIST_SOFTIRQ == 0
TIMER_SOFTIRQ == 1
TASK_ASSIST_SOFTIRQ == 4
SCHED_SOFTIRQ == 5
TASK_ASSIST_SCHED == 0

Softirqs == {HIGHTASK_ASSIST_SOFTIRQ, TIMER_SOFTIRQ, TASK_ASSIST_SOFTIRQ, SCHED_SOFTIRQ}
Assist == High \cup Low
AssistIrq(a) == IF a \in High THEN HIGHTASK_ASSIST_SOFTIRQ ELSE TASK_ASSIST_SOFTIRQ

SoftirqConstants ==
    /\ Task # {} /\ High \cap Low = {}
    /\ MAX_REDO_IRQ \in Nat \ {0} /\ MaxFrames \in Nat \ {0}

VARIABLES evens,     \* softirq_evens
          frames,    \* frames[t]: records [evens, redo, list]
          current,   \* current_task
          head,      \* the lists of scheduled assists, by their soft interrupt
          status,    \* status[a]: the bits that are set
          count,     \* 0: the assist is enabled
          due        \* events raised whose action has not started since

vars == <<evens, frames, current, head, status, count, due>>

Init ==
    /\ evens = {} /\ due = {}
    /\ frames = [t \in Task |-> << >>]
    /\ current \in Task
    /\ head = [i \in {HIGHTASK_ASSIST_SOFTIRQ, TASK_ASSIST_SOFTIRQ} |-> << >>]
    /\ status = [a \in Assist |-> {}]
    /\ count = [a \in Assist |-> 0]

\* active_softirq, for a set of events.
active_softirq(raised) == evens \cup raised

\* handle_softirq begins a turn with the events e: it has taken them all.
Frame(e, redo) == [evens |-> e, redo |-> redo, list |-> << >>]

Top == Last(frames[current])
Running == frames[current] # << >>
SetTop(f) == frames' = [frames EXCEPT ![current] = Append(Front(@), f)]

\* A hardware interrupt: clock_handler, or the handler of a device, which raises
\* nothing itself; then do_softirq.
Interrupt(raised) ==
    LET e == active_softirq(raised)
    IN  /\ Len(frames[current]) < MaxFrames
        /\ due' = due \cup raised
        /\ frames' = IF e = {} THEN frames
                     ELSE [frames EXCEPT ![current] = Append(@, Frame(e, MAX_REDO_IRQ))]
        /\ evens' = {}
        /\ UNCHANGED <<current, head, status, count>>

-----------------------------------------------------------------------------
(* The turns of handle_softirq.                                            *)

\* The next action of the turn starts.
Start(irq) ==
    /\ Running /\ Top.list = << >> /\ Top.evens # {}
    /\ irq = Min(Top.evens)
    /\ due' = due \ {irq}

TimerAction ==
    /\ Start(TIMER_SOFTIRQ)
    /\ SetTop([Top EXCEPT !.evens = @ \ {TIMER_SOFTIRQ}])
    /\ UNCHANGED <<evens, current, head, status, count>>

\* sched_softirq_handler: the task goes on, or schedule switches.
SchedAction(t) ==
    /\ Start(SCHED_SOFTIRQ)
    /\ SetTop([Top EXCEPT !.evens = @ \ {SCHED_SOFTIRQ}])
    /\ current' = t
    /\ UNCHANGED <<evens, head, status, count>>

\* high_task_assist_action, task_assist_action: the list is taken over.
AssistAction(irq) ==
    /\ irq \in DOMAIN head
    /\ Start(irq)
    /\ SetTop([Top EXCEPT !.evens = @ \ {irq}, !.list = head[irq]])
    /\ head' = [head EXCEPT ![irq] = << >>]
    /\ UNCHANGED <<evens, current, status, count>>

\* The next assist of the list runs; it may be scheduled again from then on.
RunAssist ==
    /\ Running /\ Top.list # << >>
    /\ LET a == Head(Top.list)
       IN  /\ count[a] = 0
           /\ status' = [status EXCEPT ![a] = @ \ {TASK_ASSIST_SCHED}]
    /\ SetTop([Top EXCEPT !.list = Tail(@)])
    /\ UNCHANGED <<evens, current, head, count, due>>

\* A disabled assist is queued again.
KeepAssist ==
    /\ Running /\ Top.list # << >>
    /\ LET a == Head(Top.list)
           irq == AssistIrq(a)
       IN  /\ count[a] # 0
           /\ head' = [head EXCEPT ![irq] = <<a>> \o @]
           /\ evens' = active_softirq({irq})
           /\ due' = due \cup {irq}
    /\ SetTop([Top EXCEPT !.list = Tail(@)])
    /\ UNCHANGED <<current, status, count>>

\* Mutant: softirq_evens is cleared when the turn is over.
TurnClears ==
    /\ Running /\ Top.list = << >> /\ Top.evens = {}
    /\ frames' = [frames EXCEPT ![current] = Front(@)]
    /\ evens' = {}
    /\ UNCHANGED <<current, head, status, count, due>>

\* The turn is over: another one if there are new events, but not too often.
EndTurn ==
    /\ Running /\ Top.list = << >> /\ Top.evens = {}
    /\ IF evens # {} /\ Top.redo > 1
       THEN SetTop(Frame(evens, Top.redo - 1)) /\ evens' = {}
       ELSE frames' = [frames EXCEPT ![current] = Front(@)] /\ UNCHANGED evens
    /\ UNCHANGED <<current, head, status, count, due>>

-----------------------------------------------------------------------------
(* Task assists.  count goes down to disable and up to enable.             *)

\* task_assist_schedule, high_task_assist_schedule: the bit that is tested is
\* the number of the soft interrupt.
Schedule(a) ==
    LET irq == AssistIrq(a)
    IN  /\ irq \notin status[a]
        /\ status' = [status EXCEPT ![a] = @ \cup {irq}]
        /\ head' = [head EXCEPT ![irq] = <<a>> \o @]
        /\ evens' = active_softirq({irq})
        /\ due' = due \cup {irq}
        /\ UNCHANGED <<frames, current, count>>

task_assist_disable(a) ==
    /\ count[a] = 0
    /\ count' = [count EXCEPT ![a] = @ - 1]
    /\ UNCHANGED <<evens, frames, current, head, status, due>>

task_assist_enable(a) ==
    /\ count[a] < 0
    /\ count' = [count EXCEPT ![a] = @ + 1]
    /\ UNCHANGED <<evens, frames, current, head, status, due>>

-----------------------------------------------------------------------------
Turn ==
    \/ TimerAction \/ EndTurn \/ RunAssist \/ KeepAssist
    \/ \E t \in Task : SchedAction(t)
    \/ \E irq \in DOMAIN head : AssistAction(irq)

Next ==
    \/ Interrupt({}) \/ Interrupt({TIMER_SOFTIRQ, SCHED_SOFTIRQ})
    \/ Turn
    \/ \E a \in Assist : Schedule(a) \/ task_assist_disable(a) \/ task_assist_enable(a)

Spec == Init /\ [][Next]_vars

-----------------------------------------------------------------------------
(* Properties.                                                             *)

AllFrames == UNION {ToSet(frames[t]) : t \in Task}
Taken == UNION {f.evens : f \in AllFrames}

\* The places an assist is queued at.
Places(a) ==
    Cardinality({t \in Task : \E i \in DOMAIN frames[t] : Contains(frames[t][i].list, a)})
        + Cardinality({i \in DOMAIN head : Contains(head[i], a)})

\* No event is lost: one that was raised and whose action has not started since
\* is in softirq_evens or in the local copy of some handle_softirq, be it
\* interrupted or on the stack of a task that does not run; an assist is queued
\* once while its bit says so, and a list with assists in it has its event
\* raised, disabled assists included.
NoEventLost ==
    /\ due \subseteq evens \cup Taken
    /\ \A a \in High : Places(a) = IF TASK_ASSIST_SCHED \in status[a] THEN 1 ELSE 0
    /\ \A irq \in DOMAIN head : head[irq] # << >> => irq \in evens \cup Taken
=============================================================================
