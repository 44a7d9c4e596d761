------------------------------- MODULE Timer -------------------------------
(***************************************************************************)
(* The kernel timers: src/kernel/timer.c, driven by the clock interrupt    *)
(* (kernel/clock.c) and used as gui/timer.c uses them.                     *)
(*                                                                         *)
(* timer_add, timer_del, timer_mod and update_timers run with interrupts   *)
(* off: one step each.  The functions built from them (timer_cancel,       *)
(* sys_gui_modify_timer) are several steps, with interrupts on in between; *)
(* pc[x] is where the client of timer x is.  Times are unsigned long.      *)
(***************************************************************************)
EXTENDS Integers, SequencesExt

CONSTANTS Timer,      \* timer_t objects of the clients
          idle,       \* timer_idle
          IdleTime,   \* TIMER_IDLE_TIMEOUT
          Delays,     \* the delays clients ask for
          Clocks,     \* number of values of clock_t
          Garbage,    \* what may lie in memory behind timer_list_head
          Horizon     \* bound: timer_ticks is not followed beyond it

\* What is asked of the constants; the module that instantiates this one
\* assumes it.
TimerConstants ==
    /\ idle \notin Timer
    /\ Delays \subseteq Nat \ {0} /\ Delays # {}
    /\ \A n \in Delays : Horizon + n < Clocks
    /\ Clocks \in Nat /\ Garbage \subseteq 0 .. Clocks - 1
    /\ IdleTime \in Nat \ {0} /\ Horizon \in IdleTime .. 2 * IdleTime - 1

VARIABLES list,      \* timer_list_head
          timeout,   \* timer->timeout
          minim,     \* minim_timeout_val
          timer_ticks,
          pending,   \* TIMER_SOFTIRQ is active
          pc,
          left,      \* ticks until the delay asked for is over
          stale,     \* minim was computed for another list
          panicked   \* an ASSERT failed

vars == <<list, timeout, minim, timer_ticks, pending, pc, left, stale, panicked>>

\* init_timer_system: only the idle timer is linked.
Init ==
    /\ list = <<idle>>
    /\ timeout = [x \in Timer \cup {idle} |-> IF x = idle THEN IdleTime ELSE 0]
    /\ minim = IdleTime
    /\ timer_ticks = 0
    /\ pending = FALSE
    /\ pc = [x \in Timer |-> "unused"]
    /\ left = [x \in Timer |-> 0]
    /\ stale = FALSE
    /\ panicked = FALSE

Linked(x) == \E i \in 1 .. Len(list) : list[i] = x

\* list_del of a linked timer.
Unlinked(x) == RemoveAt(list, CHOOSE i \in 1 .. Len(list) : list[i] = x)

-----------------------------------------------------------------------------
\* Where timer_add puts x: before the first timer if it is earlier; else the
\* search for a timer that is not later stops at the first one.
Insert(x, l, tmo) ==
    IF l = << >> \/ tmo[x] < tmo[Head(l)]
    THEN <<x>> \o l
    ELSE <<Head(l), x>> \o Tail(l)

\* timer_init: the time point is computed from the clock, the timer unlinked.
timer_init(x, n) ==
    /\ pc[x] = "unused" /\ ~ Linked(x)
    /\ timeout' = [timeout EXCEPT ![x] = timer_ticks + n]
    /\ left' = [left EXCEPT ![x] = n]
    /\ pc' = [pc EXCEPT ![x] = "add"]
    /\ UNCHANGED <<list, minim, timer_ticks, pending, stale, panicked>>

\* Mutant: minim is not looked after.
AddKeepsMinim(x) ==
    /\ pc[x] = "add"
    /\ panicked' = (panicked \/ Linked(x))
    /\ list' = Insert(x, list, timeout)
    /\ pc' = [pc EXCEPT ![x] = "unused"]
    /\ UNCHANGED <<timeout, minim, timer_ticks, pending, left, stale>>

timer_add(x) ==
    /\ pc[x] = "add"
    /\ panicked' = (panicked \/ Linked(x))
    /\ list' = Insert(x, list, timeout)
    /\ minim' = IF timeout[x] < timeout[Head(list)] THEN timeout[x] ELSE minim
    /\ pc' = [pc EXCEPT ![x] = "unused"]
    /\ stale' = (stale /\ minim' = minim)
    /\ UNCHANGED <<timeout, timer_ticks, pending, left>>

\* timer_cancel: timer_alive says yes, interrupts come on, timer_del.
CancelAlive(x) ==
    /\ pc[x] = "unused" /\ Linked(x)
    /\ pc' = [pc EXCEPT ![x] = "del"]
    /\ UNCHANGED <<list, timeout, minim, timer_ticks, pending, left, stale, panicked>>

timer_del(x) ==
    /\ pc[x] = "del"
    /\ panicked' = (panicked \/ ~ Linked(x))
    /\ list' = IF Linked(x) THEN Unlinked(x) ELSE list
    /\ pc' = [pc EXCEPT ![x] = "unused"]
    /\ stale' = (stale \/ Head(list) = x)
    /\ UNCHANGED <<timeout, minim, timer_ticks, pending, left>>

\* sys_gui_modify_timer: a new time point in place, then a look whether the
\* timer is still linked, then, if it is not, timer_add.
timer_mod(x, n) ==
    /\ pc[x] = "unused"
    /\ timeout' = [timeout EXCEPT ![x] = timer_ticks + n]
    /\ left' = [left EXCEPT ![x] = n]
    /\ pc' = [pc EXCEPT ![x] = "look"]
    /\ stale' = (stale \/ Head(list) = x)
    /\ UNCHANGED <<list, minim, timer_ticks, pending, panicked>>

LookAlive(x) ==
    /\ pc[x] = "look"
    /\ pc' = [pc EXCEPT ![x] = IF Linked(x) THEN "unused" ELSE "add"]
    /\ UNCHANGED <<list, timeout, minim, timer_ticks, pending, left, stale, panicked>>

-----------------------------------------------------------------------------
\* The clock interrupt counts and activates the softirq.
clock_handler ==
    /\ timer_ticks < Horizon
    /\ timer_ticks' = timer_ticks + 1
    /\ pending' = TRUE
    /\ left' = [x \in Timer |-> IF left[x] > 0 THEN left[x] - 1 ELSE 0]
    /\ UNCHANGED <<list, timeout, minim, pc, stale, panicked>>

\* How many timers at the front of l are due.
Due(l, tmo, now) ==
    CHOOSE k \in 0 .. Len(l) :
        /\ \A i \in 1 .. k : tmo[l[i]] <= now
        /\ k < Len(l) => tmo[l[k + 1]] > now

\* Mutant: one tick early.
DueEarly(l, tmo, now) == Due(l, tmo, now + 1)

DueNow(l, tmo, now) == Due(l, tmo, now)

\* update_timers, nothing due.
NothingDue ==
    /\ pending /\ timer_ticks < minim
    /\ pending' = FALSE
    /\ UNCHANGED <<list, timeout, minim, timer_ticks, pc, left, stale, panicked>>

\* update_timers, the idle timer not reached: the timers due at the front are
\* fired, up to the first one that is not.
FireDue ==
    LET k == DueNow(list, timeout, timer_ticks)
    IN  /\ pending /\ timer_ticks >= minim
        /\ \A i \in 1 .. k : list[i] # idle
        /\ list' = SubSeq(list, k + 1, Len(list))
        /\ minim' = timeout[list[k + 1]]
        /\ stale' = FALSE
        /\ pending' = FALSE
        /\ UNCHANGED <<timeout, timer_ticks, pc, left, panicked>>

\* update_timers, the idle timer due: timer_idle_handler moves the clock and
\* all linked timers back and links the idle timer again; the loop goes on at
\* the timer that followed it.  If that runs off the end of the list, minim is
\* read from behind the list head.
FireIdle ==
    LET k == DueNow(list, timeout, timer_ticks)
        p == CHOOSE i \in 1 .. Len(list) : list[i] = idle
        rest == SubSeq(list, p + 1, Len(list))
        now == timer_ticks - IdleTime
        tmo == [x \in DOMAIN timeout |->
                   IF \E i \in 1 .. Len(rest) : rest[i] = x
                   THEN (timeout[x] - IdleTime) % Clocks
                   ELSE timeout[x]]
        again == Insert(idle, rest, tmo)
        seen == IF Head(again) = idle THEN rest ELSE again
        k2 == DueNow(seen, tmo, now)
    IN  /\ pending /\ timer_ticks >= minim
        /\ p <= k
        /\ timer_ticks' = now
        /\ timeout' = tmo
        /\ list' = (IF Head(again) = idle THEN <<idle>> ELSE << >>)
                      \o SubSeq(seen, k2 + 1, Len(seen))
        /\ IF k2 < Len(seen) THEN minim' = tmo[seen[k2 + 1]] ELSE minim' \in Garbage
        /\ stale' = TRUE
        /\ pending' = FALSE
        /\ UNCHANGED <<pc, left, panicked>>

update_timers == NothingDue \/ FireDue \/ FireIdle

Client(x) ==
    \/ \E n \in Delays : timer_init(x, n)
    \/ \E n \in Delays : timer_mod(x, n)
    \/ timer_add(x) \/ CancelAlive(x) \/ timer_del(x) \/ LookAlive(x)

Next ==
    /\ ~ panicked
    /\ clock_handler \/ update_timers \/ \E x \in Timer : Client(x)

Spec == Init /\ [][Next]_vars

-----------------------------------------------------------------------------
(* Properties.                                                             *)

\* No timer is linked twice, a timer about to be added is not linked (the
\* ASSERT of timer_add), and the idle timer always is, so that the loop of
\* update_timers has a timer to stop at.
ListExact ==
    /\ \A i, j \in 1 .. Len(list) : list[i] = list[j] => i = j
    /\ \A x \in Timer : pc[x] = "add" => ~ Linked(x)
    /\ Linked(idle)

\* update_timers takes a timer off the list, and calls its callback, only when
\* the delay last asked for is over, whatever happened to the clock and the
\* time points meanwhile.
NeverEarly ==
    [][\A x \in Timer :
          update_timers /\ Linked(x) /\ ~ Linked(x)' => left[x] = 0]_vars

\* As long as the first timer was not cancelled or modified and the clock not
\* moved back, minim is its time point: the shortcut of update_timers does
\* not pass over it.
MinimIsFirst == ~ stale => minim = timeout[Head(list)]

\* What add, cancel, modify and the loop of update_timers rely on.
TimersInOrder == ListExact /\ MinimIsFirst

=============================================================================
