------------------------------- MODULE Sleep -------------------------------
(***************************************************************************)
(* Sleeping tasks: src/task/sleep.c on top of the scheduler (module        *)
(* Sched) and a timer per sleeping task.  A sleeping task is woken by its  *)
(* timer or, earlier, by a trigger (task_wakeup).  The timer fires at its  *)
(* time or later: what update_timers does with several timers is the       *)
(* subject of module Timer.                                                *)
(*                                                                         *)
(* Steps are interrupts-off sections: timer_add, task_block and the end of *)
(* task_sleep_by_ticks are three of them, and the clock interrupt may come *)
(* in between, or before the first, and run the timer softirq or another   *)
(* task.                                                                   *)
(***************************************************************************)
EXTENDS Sched

CONSTANT SleepTime   \* the ticks a task asks for

ASSUME SleepAssumption == SleepTime \in Nat \ {0}

VARIABLES pc,      \* where in task_sleep_by_ticks a task is
          left,    \* sleep_timer.timeout - timer_ticks, down to 0
          linked,  \* sleep_timer, on the stack of the sleeper, is linked
          woken    \* a trigger has woken the sleeper

sleepVars == <<pc, left, linked, woken>>

Worker == Task \ {Kmain}

TASK_PRIO_USER == 2

SleepInit ==
    /\ Init
    /\ pc = [t \in Task |-> "run"]
    /\ left = [t \in Task |-> 0]
    /\ linked = [t \in Task |-> FALSE]
    /\ woken = [t \in Task |-> FALSE]

-----------------------------------------------------------------------------
Me == su.cur
Runs == Calls /\ Me # Kmain

\* The timer is set up on the stack: its time point counts from here on.
SleepSet ==
    /\ Runs /\ pc[Me] = "run" /\ ~ linked[Me]
    /\ pc' = [pc EXCEPT ![Me] = "set"]
    /\ left' = [left EXCEPT ![Me] = SleepTime]
    /\ woken' = [woken EXCEPT ![Me] = FALSE]
    /\ UNCHANGED <<vars, linked>>

\* timer_add.
SleepArm ==
    /\ Runs /\ pc[Me] = "set"
    /\ pc' = [pc EXCEPT ![Me] = "armed"]
    /\ linked' = [linked EXCEPT ![Me] = TRUE]
    /\ UNCHANGED <<vars, left, woken>>

\* task_block(TASK_BLOCKED).
SleepBlock ==
    /\ pc[Me] = "armed"
    /\ task_block("BLOCKED")
    /\ pc' = [pc EXCEPT ![Me] = "asleep"]
    /\ UNCHANGED <<left, linked, woken>>

\* After the switch back: a timer whose time has not come is cancelled, one
\* whose time has come is taken to have fired.
SleepReturn ==
    /\ Runs /\ pc[Me] = "asleep"
    /\ linked' = [linked EXCEPT ![Me] = @ /\ left[Me] = 0]
    /\ pc' = [pc EXCEPT ![Me] = "run"]
    /\ UNCHANGED <<vars, left, woken>>

\* The clock interrupt: time passes for the timers.
TimerTick ==
    /\ ~ panicked
    /\ \E t \in Task : left[t] > 0
    /\ left' = [t \in Task |-> IF left[t] > 0 THEN left[t] - 1 ELSE 0]
    /\ UNCHANGED <<vars, pc, linked, woken>>

\* list_del_init(&task->list): if the task is linked in its ready queue the
\* node goes, and the length of the queue stays.
Unlink(t) ==
    LET s  == su.queue[priority[t]]
        at == CHOOSE i \in 1 .. Len(s) : s[i] = t
    IN  IF \E i \in 1 .. Len(s) : s[i] = t
        THEN [su EXCEPT !.queue[priority[t]] =
                 [i \in 1 .. Len(s) - 1 |-> s[IF i < at THEN i ELSE i + 1]]]
        ELSE su

\* Mutant: one tick early.
TimeoutEarly(t) ==
    /\ ~ panicked /\ linked[t] /\ left[t] <= 1
    /\ linked' = [linked EXCEPT ![t] = FALSE]
    /\ IF state[t] \in Wakeable THEN MakeReady(t)
       ELSE su' = Unlink(t) /\ UNCHANGED taskVars
    /\ UNCHANGED <<waking, booted, panicked, pc, left, woken>>

\* update_timers takes the timer off its list and calls this, interrupts off:
\* the task is unlinked from wherever it is, then woken if its state allows.
sleep_task_timeout(t) ==
    /\ ~ panicked /\ linked[t] /\ left[t] = 0
    /\ linked' = [linked EXCEPT ![t] = FALSE]
    /\ IF state[t] \in Wakeable THEN MakeReady(t)
       ELSE su' = Unlink(t) /\ UNCHANGED taskVars
    /\ UNCHANGED <<waking, booted, panicked, pc, left, woken>>

\* A trigger: another task wakes the sleeper, with interrupts off.
TriggerWake(t) ==
    /\ Runs /\ pc[Me] = "run" /\ pc[t] = "asleep"
    /\ WakeIntrOff(t)
    /\ woken' = [woken EXCEPT ![t] = TRUE]
    /\ UNCHANGED <<pc, left, linked>>

\* The rest of the scheduler, and the start of the workers by kmain.
SchedStep ==
    /\ \/ sched_softirq_handler
       \/ IdleLoop
       \/ start_user
       \/ \E t \in Worker : kthread_start(t, TASK_PRIO_USER)
    /\ UNCHANGED sleepVars

SleepNext ==
    \/ SchedStep \/ SleepSet \/ SleepArm \/ SleepBlock \/ SleepReturn \/ TimerTick
    \/ \E t \in Worker : sleep_task_timeout(t)
    \/ \E t \in Worker : TriggerWake(t)

SleepSpec == SleepInit /\ [][SleepNext]_<<vars, sleepVars>>

-----------------------------------------------------------------------------
(* Properties.                                                             *)

\* A sleeper runs again before its time only if a trigger woke it, and the
\* timer it then cancels is still linked (the ASSERT of timer_del).
NoEarlyReturn ==
    [][\A t \in Worker :
          pc[t] = "asleep" /\ pc'[t] = "run" /\ left[t] > 0
              => woken[t] /\ linked[t]]_<<vars, sleepVars>>

=============================================================================
