----------------------------- MODULE Semaphore -----------------------------
(***************************************************************************)
(* The kernel semaphore: include/xbook/semaphore.h.                        *)
(*                                                                         *)
(* down, try_down and up run with interrupts off: one step each.  up does  *)
(* not count up when somebody waits: it takes the first waiter off the     *)
(* list, makes it READY and so gives it the unit.  down_timeout does not   *)
(* sleep but polls, with interrupts on; the clock ticks in between.        *)
(*                                                                         *)
(* down does not look at the counter again after it has slept.  A trigger  *)
(* sent to a process that sleeps there (trigger.c) makes it return without *)
(* a unit while its node is still linked; the list is broken from there    *)
(* on, and the model ends.                                                 *)
(***************************************************************************)
EXTENDS Integers, Sequences, FiniteSets

CONSTANTS Task,
          Process,  \* the tasks that have triggers
          Sema,     \* semaphore_t objects
          Value,    \* their initial value
          Clocks,   \* number of values of clock_t, an unsigned long
          Timeouts, \* the ticks given to semaphore_down_timeout, not 0
          MaxSignals \* bound: ups by tasks that hold no unit

SemaphoreConstants ==
    /\ Process \subseteq Task
    /\ Value \in Nat
    /\ Clocks \in Nat \ {0}
    /\ Timeouts \subseteq 1 .. Clocks - 1
    /\ MaxSignals \in Nat

VARIABLES counter, \* sema->counter
          waiter,  \* sema->waiter.wait_list: the tasks blocked in down
          alive,   \* not yet destroyed
          units,   \* units[t][s]: downs of s by t that no up has given back
          signals, \* ups of s by a task that held no unit of it
          ticks,   \* systicks
          poll,    \* poll[t]: the locals of semaphore_down_timeout
          strayed  \* a task has returned from down without a unit, linked

svars == <<counter, waiter, alive, units, signals, ticks, poll, strayed>>

NoPoll == [sema |-> "none", t |-> 0, start |-> 0]

\* semaphore_init.
SemaInit ==
    /\ counter = [s \in Sema |-> Value]
    /\ waiter = [s \in Sema |-> << >>]
    /\ alive = [s \in Sema |-> TRUE]
    /\ units = [t \in Task |-> [s \in Sema |-> 0]]
    /\ signals = [s \in Sema |-> 0]
    /\ ticks = 0
    /\ poll = [t \in Task |-> NoPoll]
    /\ strayed = FALSE

Blocked(t) == \E s \in Sema : \E i \in 1 .. Len(waiter[s]) : waiter[s][i] = t

\* The task runs code outside of the semaphore functions.
Free(t) == ~ Blocked(t) /\ poll[t] = NoPoll

Got(t, s) == [units EXCEPT ![t][s] = @ + 1]

-----------------------------------------------------------------------------
\* Mutant: a waiter is added at the head.
DownAtHead(t, s) ==
    IF counter[s] > 0
    THEN /\ counter' = [counter EXCEPT ![s] = @ - 1]
         /\ units' = Got(t, s)
         /\ UNCHANGED <<waiter, alive, signals, ticks, poll, strayed>>
    ELSE /\ waiter' = [waiter EXCEPT ![s] = <<t>> \o @]
         /\ UNCHANGED <<counter, units, alive, signals, ticks, poll, strayed>>

\* With interrupts off; a task that blocked returns when up makes it READY.
semaphore_down(t, s) ==
    IF counter[s] > 0
    THEN /\ counter' = [counter EXCEPT ![s] = @ - 1]
         /\ units' = Got(t, s)
         /\ UNCHANGED <<waiter, alive, signals, ticks, poll, strayed>>
    ELSE /\ waiter' = [waiter EXCEPT ![s] = Append(@, t)]
         /\ UNCHANGED <<counter, units, alive, signals, ticks, poll, strayed>>

\* The outcome 0; a failed try changes nothing.
semaphore_try_down(t, s) ==
    /\ counter[s] > 0
    /\ counter' = [counter EXCEPT ![s] = @ - 1]
    /\ units' = Got(t, s)
    /\ UNCHANGED <<waiter, alive, signals, ticks, poll, strayed>>

\* Mutants: up counts up and wakes; up counts up and lets waiters wait.
UpCountsAndWakes(t, s, u) ==
    /\ counter' = [counter EXCEPT ![s] = @ + 1]
    /\ IF waiter[s] = << >>
       THEN UNCHANGED waiter /\ units' = u
       ELSE /\ waiter' = [waiter EXCEPT ![s] = Tail(@)]
            /\ units' = [u EXCEPT ![Head(waiter[s])][s] = @ + 1]

\* The unit goes to the first waiter, or back to the counter.  u: the units
\* once the caller has given up its own, if it had one.
Up(t, s, u) ==
    IF waiter[s] = << >>
    THEN /\ counter' = [counter EXCEPT ![s] = @ + 1]
         /\ units' = u
         /\ UNCHANGED waiter
    ELSE /\ waiter' = [waiter EXCEPT ![s] = Tail(@)]
         /\ units' = [u EXCEPT ![Head(waiter[s])][s] = @ + 1]
         /\ UNCHANGED counter

\* semaphore_up by a task that holds a unit, and by one that holds none.
semaphore_up(t, s) ==
    /\ units[t][s] > 0
    /\ Up(t, s, [units EXCEPT ![t][s] = @ - 1])
    /\ UNCHANGED <<alive, signals, ticks, poll, strayed>>

Signal(t, s) ==
    /\ units[t][s] = 0
    /\ signals[s] < MaxSignals
    /\ Up(t, s, units)
    /\ signals' = [signals EXCEPT ![s] = @ + 1]
    /\ UNCHANGED <<alive, ticks, poll, strayed>>

\* Wakes the waiters only if the counter is positive.
semaphore_destroy(s) ==
    /\ waiter' = [waiter EXCEPT ![s] = IF counter[s] > 0 THEN << >> ELSE @]
    /\ counter' = [counter EXCEPT ![s] = 0]
    /\ alive' = [alive EXCEPT ![s] = FALSE]
    /\ UNCHANGED <<units, signals, ticks, poll, strayed>>

\* semaphore_down_timeout, for ticks # 0.
down_timeout(t, s, n) ==
    /\ poll' = [poll EXCEPT ![t] = [sema |-> s, t |-> n, start |-> ticks]]
    /\ UNCHANGED <<counter, waiter, alive, units, signals, ticks, strayed>>

\* One turn of its loop.  t and the clock are unsigned: the subtraction is
\* modulo Clocks.  At the turn of the clock end > start is false.
PollTurn(t) ==
    LET p == poll[t]
        left == IF ticks > p.start THEN (p.t - (ticks - p.start)) % Clocks ELSE p.t
        start == IF ticks > p.start THEN ticks ELSE p.start
    IN  /\ p.t > 0
        /\ IF counter[p.sema] > 0
           THEN /\ counter' = [counter EXCEPT ![p.sema] = @ - 1]
                /\ units' = Got(t, p.sema)
                /\ poll' = [poll EXCEPT ![t] = NoPoll]
           ELSE /\ poll' = [poll EXCEPT ![t].t = left, ![t].start = start]
                /\ UNCHANGED <<counter, units, strayed>>
        /\ UNCHANGED <<waiter, alive, signals, ticks, strayed>>

\* while (t > 0) ends: the call returns -1.
PollEnd(t) ==
    /\ poll[t].t = 0
    /\ poll' = [poll EXCEPT ![t] = NoPoll]
    /\ UNCHANGED <<counter, waiter, alive, units, signals, ticks, strayed>>

\* do_active_trigger wakes a process that sleeps in semaphore_down, which
\* returns; nothing takes it off the list.
Trigger(t) ==
    /\ t \in Process /\ Blocked(t)
    /\ strayed' = TRUE
    /\ UNCHANGED <<counter, waiter, alive, units, signals, ticks, poll>>

\* The clock interrupt.
Tick ==
    /\ ticks' = (ticks + 1) % Clocks
    /\ UNCHANGED <<counter, waiter, alive, units, signals, poll, strayed>>

-----------------------------------------------------------------------------
Polling(t) == poll[t] # NoPoll /\ (PollTurn(t) \/ PollEnd(t))

\* Nobody uses a semaphore that was destroyed.
SemaStep(t, s) ==
    /\ Free(t) /\ alive[s]
    /\ \/ semaphore_down(t, s)
       \/ semaphore_try_down(t, s)
       \/ semaphore_up(t, s)
       \/ Signal(t, s)
       \/ \E n \in Timeouts : down_timeout(t, s, n)

Destroy(s) ==
    /\ alive[s]
    /\ \A t \in Task : poll[t].sema # s /\ units[t][s] = 0
    /\ semaphore_destroy(s)

Next ==
    /\ ~ strayed
    /\ \/ \E t \in Task, s \in Sema : SemaStep(t, s)
       \/ \E t \in Task : Polling(t) \/ Trigger(t)
       \/ \E s \in Sema : Destroy(s)
       \/ Tick

Spec == SemaInit /\ [][Next]_svars

-----------------------------------------------------------------------------
(* Properties.                                                             *)

\* The units of s that are with tasks, one pair for each.
Held(s) == UNION {{t} \X (1 .. units[t][s]) : t \in Task}

\* A unit is in the counter or with a task: the hand-over in up neither loses
\* nor makes one, and down, try_down and the polling loop agree on it.
Conservation ==
    \A s \in Sema : alive[s] =>
        counter[s] + Cardinality(Held(s)) = Value + signals[s]

\* Nobody sleeps while there is a unit to take, and no task is linked twice.
\* (So the test of semaphore_destroy never finds a waiter to wake.)
WaitOnlyAtZero ==
    /\ \A s \in Sema : counter[s] > 0 => waiter[s] = << >>
    /\ \A s1, s2 \in Sema :
           \A i \in 1 .. Len(waiter[s1]), j \in 1 .. Len(waiter[s2]) :
               waiter[s1][i] = waiter[s2][j] => s1 = s2 /\ i = j

\* The hand-over of a unit from up to a waiter is exact on both sides, until a
\* trigger wakes a waiter.
SemaphoreExact == ~ strayed => Conservation /\ WaitOnlyAtZero

=============================================================================
