------------------------------- MODULE MCTime -------------------------------
(***************************************************************************)
(* Time, and what interrupts a task, in small instances for TLC: in a      *)
(* behaviour of part "timer" two clients use the kernel timers (module     *)
(* Timer), in one of part "sleep" two tasks sleep and are woken (Sleep),   *)
(* in one of part "softirq" soft interrupts run on top of two tasks        *)
(* (Softirq), in one of part "trigger" a process is sent triggers by two   *)
(* others and by its alarm clock (Trigger).  The parts share no state; the *)
(* variables of the other parts keep their first value.                    *)
(***************************************************************************)
EXTENDS Sleep

CONSTANTS Timer, idle, IdleTime, Delays, Clocks, Garbage, Horizon,
          High, Low, MAX_REDO_IRQ, MaxFrames,
          Sender, Sent, Caught, Masks, MaxDepth, HZ, Seconds,
          Parts

VARIABLES list, timeout, minim, timer_ticks, pending, client, remaining, stale,
          stopped,
          evens, frames, current, head, status, disabled, due,
          set, blocked, left_flag, actions, pstate, scan, saved, calc, outdated, alarm,
          part \* chosen at the start, never changed

timerVars ==
    <<list, timeout, minim, timer_ticks, pending, client, remaining, stale, stopped>>
softVars == <<evens, frames, current, head, status, disabled, due>>
trigVars ==
    <<set, blocked, left_flag, actions, pstate, scan, saved, calc, outdated, alarm>>

T == INSTANCE Timer WITH pc <- client, left <- remaining, panicked <- stopped

I == INSTANCE Softirq WITH Task <- Worker, count <- disabled

G == INSTANCE Trigger WITH left <- left_flag, state <- pstate, stale <- outdated

ASSUME TimeAssumption ==
    T!TimerConstants /\ I!SoftirqConstants /\ G!TriggerConstants

MCInit ==
    /\ SleepInit /\ T!Init /\ I!Init /\ G!Init
    /\ part \in Parts
    /\ part # "softirq" => current = CHOOSE t \in Worker : TRUE

MCNext ==
    /\ \/ part = "timer" /\ T!Next /\ UNCHANGED <<vars, sleepVars, softVars, trigVars>>
       \/ part = "sleep" /\ SleepNext /\ UNCHANGED <<timerVars, softVars, trigVars>>
       \/ part = "softirq" /\ I!Next /\ UNCHANGED <<vars, sleepVars, timerVars, trigVars>>
       \/ part = "trigger" /\ G!Next /\ UNCHANGED <<vars, sleepVars, timerVars, softVars>>
    /\ UNCHANGED part

MCSpec == MCInit /\ [][MCNext]_<<vars, sleepVars, timerVars, softVars, trigVars, part>>

\* No timer is linked twice, and the shortcut of update_timers
\* (minim_timeout_val) does not pass over the first one.
TimersInOrder == T!TimersInOrder

\* update_timers fires no timer before the delay last asked for is over.
NeverEarly == T!NeverEarly

\* do_softirq: an event raised at any time, on top of a running action too, has
\* its action run after it.
NoEventLost == I!NoEventLost

\* do_active_trigger and do_trigger: while a trigger is set TRIG_LEFT is too,
\* but for the sender that computes it late.
NoTriggerForgotten == G!NoTriggerForgotten
=============================================================================
