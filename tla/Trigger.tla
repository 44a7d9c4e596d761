------------------------------ MODULE Trigger ------------------------------
(***************************************************************************)
(* Triggers, the signals of this kernel: src/task/trigger.c,               *)
(* src/lib/trigger.c, include/xbook/trigger.h, the frames of               *)
(* arch/x86/mach-i386/task/task.c, and the alarms of src/kernel/alarm.c.   *)
(*                                                                         *)
(* One process is sent triggers by several tasks and by its alarm clock.   *)
(* A step is a section with interrupts off; do_active_trigger computes     *)
(* TRIG_LEFT after its section, in a read and a write.  While the process  *)
(* is in do_trigger nobody else runs, unless it stops.                     *)
(***************************************************************************)
EXTENDS Integers, Sequences, SequencesExt, FiniteSetsExt

CONSTANTS Sender,     \* the tasks that activate triggers
          Sent,       \* the triggers they activate
          Caught,     \* the triggers the process sets an action for
          Masks,      \* the masks of handlers and of trigger_proc_mask
          MaxDepth,   \* bound: handlers that interrupt each other
          HZ, Seconds \* ticks per second and arguments of alarm

TRIGSYS == 1
TRIGDBG == 2
TRIGPAUSE == 3
TRIGRESUM == 4
TRIGHSOFT == 5
TRIGLSOFT == 6
TRIGUSR0 == 7
TRIGUSR1 == 8
TRIGALARM == 9
Trig == TRIGSYS .. TRIGALARM

TriggerConstants ==
    /\ Sent \cup Caught \subseteq Trig /\ Masks \subseteq SUBSET Trig
    /\ MaxDepth \in Nat /\ HZ \in Nat \ {0} /\ Seconds \subseteq Nat

\* Handlers are set by trigger_handler (TA_ONCSHOT and TA_NOMASK: once, with
\* nothing blocked), or by trigger_action with a mask and no flags.
DFL == [to |-> "default", once |-> FALSE, mask |-> {}]
IGN == [to |-> "ignore", once |-> FALSE, mask |-> {}]
Catch(once, mask) == [to |-> "handler", once |-> once, mask |-> mask]

VARIABLES set, blocked, \* of triggers_t
          left,         \* TRIG_LEFT
          actions,
          state,        \* of the process: RUN, BLOCKED, STOPPED, DEAD
          scan,         \* 0 outside do_trigger, in it the last trigger looked at
          saved,        \* the masks saved in the frames of running handlers
          calc,         \* calc[s]: what s has still to do, up to trigger_calc_left
          stale,        \* TRIG_LEFT was cleared for a set read before it changed
          alarm         \* [on, second, ticks]

process == <<state, scan, saved>>
vars == <<set, blocked, left, actions, process, calc, stale, alarm>>

Idle == [at |-> "none", trig |-> 0]
Step(at, trig) == [at |-> at, trig |-> trig]

\* trigger_init.
Init ==
    /\ set = {} /\ blocked = {} /\ left = FALSE
    /\ actions = [t \in Trig |-> DFL]
    /\ state = "RUN" /\ scan = 0 /\ saved = << >>
    /\ calc = [s \in Sender |-> Idle] /\ stale = FALSE
    /\ alarm = [on |-> FALSE, second |-> 0, ticks |-> HZ]

\* Somebody else than the process runs: not while it is in do_trigger, unless it
\* was stopped there and has not run since.
Others == scan \in {0, TRIGPAUSE}

-----------------------------------------------------------------------------
(* do_active_trigger.                                                      *)

\* PAUSE and RESUM open the way for each other.
Opened(trig) ==
    CASE trig = TRIGPAUSE -> blocked \ {TRIGRESUM}
      [] trig \in {TRIGRESUM, TRIGHSOFT} -> blocked \ {TRIGPAUSE}
      [] OTHER -> blocked

News(trig) == trig \notin set /\ trig \notin Opened(trig)

\* The section with interrupts off.  RESUM and HSOFT start a stopped process
\* even if they are set already; a trigger that is not blocked wakes it from
\* any sleep.
Raise(trig) ==
    LET starts == trig \in {TRIGRESUM, TRIGHSOFT} /\ state = "STOPPED"
        wakes == News(trig) /\ state \in {"BLOCKED", "STOPPED"}
    IN  /\ blocked' = Opened(trig)
        /\ set' = set \cup {trig}
        /\ state' = IF starts \/ wakes THEN "RUN" ELSE state

\* sys_trigger_active.
Activate(s, trig) ==
    /\ Others /\ state # "DEAD" /\ calc[s] \in {Idle, Step("force", trig)}
    /\ Raise(trig)
    /\ left' = (left \/ News(trig))
    /\ stale' = (stale /\ ~ News(trig))
    /\ calc' = [calc EXCEPT ![s] = Step("read", 0)]
    /\ UNCHANGED <<actions, scan, saved, alarm>>

\* trigger_force: no longer ignored, no longer blocked; then as above.
trigger_force(s, trig) ==
    /\ Others /\ state # "DEAD" /\ calc[s] = Idle
    /\ actions' = [actions EXCEPT ![trig] = IF @ = IGN THEN DFL ELSE @]
    /\ blocked' = blocked \ {trig}
    /\ calc' = [calc EXCEPT ![s] = Step("force", trig)]
    /\ UNCHANGED <<set, left, process, stale, alarm>>

\* trigger_calc_left with interrupts on: the set is read ...
CalcRead(s) ==
    /\ Others /\ calc[s].at = "read"
    /\ calc' = [calc EXCEPT ![s] = IF set = {} THEN Step("clear", 0) ELSE Idle]
    /\ left' = (left \/ set # {})
    /\ stale' = (stale /\ set = {})
    /\ UNCHANGED <<set, blocked, actions, process, alarm>>

\* ... and the flag cleared for what was read.
CalcClear(s) ==
    /\ Others /\ calc[s].at = "clear"
    /\ calc' = [calc EXCEPT ![s] = Idle]
    /\ left' = FALSE
    /\ stale' = (set # {})
    /\ UNCHANGED <<set, blocked, actions, process, alarm>>

-----------------------------------------------------------------------------
(* The process: its system calls, and do_trigger on the way out of each    *)
(* and of every interrupt.                                                 *)

User == state = "RUN" /\ scan = 0

\* trigger_handler and trigger_action.  What is meant to take HSOFT and PAUSE
\* out of the mask passes a mask where a number is expected and does nothing.
SetAction(trig, act) ==
    /\ User /\ trig \notin {TRIGHSOFT, TRIGPAUSE}
    /\ actions' = [actions EXCEPT ![trig] = act]
    /\ UNCHANGED <<set, blocked, left, process, calc, stale, alarm>>

\* trigger_proc_mask with TRIG_SETMASK, TRIG_BLOCK, TRIG_UNBLOCK.
SetMask(mask) ==
    /\ User
    /\ \E new \in {mask, blocked \cup mask} : blocked' = new \ {TRIGHSOFT, TRIGPAUSE}
    /\ UNCHANGED <<set, left, actions, process, calc, stale, alarm>>

Unblock(mask) ==
    /\ User
    /\ blocked' = blocked \ mask
    /\ UNCHANGED <<set, left, actions, process, calc, stale, alarm>>

\* The process sleeps in a system call.
Sleep ==
    /\ User /\ state' = "BLOCKED"
    /\ UNCHANGED <<set, blocked, left, actions, scan, saved, calc, stale, alarm>>

\* What it waits for comes.
Wakeup ==
    /\ state = "BLOCKED" /\ state' = "RUN"
    /\ UNCHANGED <<set, blocked, left, actions, scan, saved, calc, stale, alarm>>

\* do_trigger: the triggers it will still look at.
Deliverable == {t \in set \ blocked : t > scan}

\* The next trigger leaves the set.
Fetch(trig) ==
    /\ state = "RUN"
    /\ scan = 0 => left
    /\ Deliverable # {} /\ trig = Min(Deliverable)
    /\ set' = set \ {trig}
    /\ left' = (set' # {}) /\ stale' = FALSE
    /\ UNCHANGED <<calc, alarm>>

\* Ignored, or ignored by default, and on to the next one.
Ignored(trig) ==
    /\ Fetch(trig)
    /\ \/ actions[trig] = IGN
       \/ actions[trig] = DFL /\ trig \notin {TRIGPAUSE, TRIGLSOFT, TRIGHSOFT, TRIGSYS}
    /\ scan' = trig
    /\ UNCHANGED <<blocked, actions, state, saved>>

\* PAUSE: the process stops, and goes on from here when it is started.
Stop ==
    /\ Fetch(TRIGPAUSE) /\ actions[TRIGPAUSE] = DFL
    /\ scan' = TRIGPAUSE
    /\ state' = "STOPPED"
    /\ UNCHANGED <<blocked, actions, saved>>

\* sys_exit.
Die(trig) ==
    /\ trig \in {TRIGLSOFT, TRIGHSOFT, TRIGSYS}
    /\ state = "RUN" /\ (scan = 0 => left)
    /\ Deliverable # {} /\ trig = Min(Deliverable)
    /\ actions[trig] = DFL
    /\ state' = "DEAD" /\ scan' = 0 /\ left' = TRUE
    /\ UNCHANGED <<set, blocked, actions, saved, calc, stale, alarm>>

\* handle_trigger: the frame keeps the mask, a handler for once is dropped; what
\* another one (without TA_NOMASK) must not be interrupted by is blocked.  One
\* handler at a time.
Handle(trig) ==
    /\ Fetch(trig) /\ actions[trig].to = "handler" /\ Len(saved) < MaxDepth
    /\ saved' = Append(saved, blocked)
    /\ actions' = [actions EXCEPT ![trig] = IF @.once THEN DFL ELSE @]
    /\ blocked' = IF actions[trig].once THEN blocked
                  ELSE blocked \cup actions[trig].mask \cup {trig}
    /\ scan' = 0
    /\ UNCHANGED state

\* Mutant: the flag goes with the last trigger that was not blocked.
ScanDoneClears ==
    /\ state = "RUN" /\ scan # 0 /\ Deliverable = {}
    /\ scan' = 0
    /\ left' = FALSE
    /\ UNCHANGED <<set, blocked, actions, state, saved, calc, stale, alarm>>

\* Nothing more: to user mode.
ScanDone ==
    /\ state = "RUN" /\ scan # 0 /\ Deliverable = {}
    /\ scan' = 0
    /\ UNCHANGED <<set, blocked, left, actions, state, saved, calc, stale, alarm>>

\* The handler returns: sys_trigger_return.
TriggerReturn ==
    /\ User /\ saved # << >>
    /\ blocked' = Last(saved) /\ saved' = Front(saved)
    /\ left' = (set # {}) /\ stale' = FALSE
    /\ UNCHANGED <<set, actions, state, scan, calc, alarm>>

-----------------------------------------------------------------------------
(* Alarms.                                                                 *)

sys_alarm(second) ==
    /\ User
    /\ alarm' = IF second = 0 THEN [alarm EXCEPT !.on = FALSE]
                ELSE [on |-> TRUE, second |-> second, ticks |-> HZ]
    /\ UNCHANGED <<set, blocked, left, actions, process, calc, stale>>

\* update_alarms, in the soft interrupt, interrupts off.
update_alarms ==
    /\ Others /\ state # "DEAD" /\ alarm.on
    /\ IF alarm.ticks > 1
       THEN alarm' = [alarm EXCEPT !.ticks = @ - 1] /\ UNCHANGED <<set, blocked, left, state, stale>>
       ELSE /\ alarm' = [on |-> alarm.second > 1, second |-> alarm.second - 1, ticks |-> HZ]
            /\ IF alarm.second = 1 THEN Raise(TRIGALARM) /\ left' = TRUE /\ stale' = FALSE
               ELSE UNCHANGED <<set, blocked, left, state, stale>>
    /\ UNCHANGED <<actions, scan, saved, calc>>

-----------------------------------------------------------------------------
Sending(s) ==
    \/ \E trig \in Sent : Activate(s, trig) \/ trigger_force(s, trig)
    \/ CalcRead(s) \/ CalcClear(s)

Delivery ==
    \/ \E trig \in Trig : Ignored(trig) \/ Die(trig) \/ Handle(trig)
    \/ Stop \/ ScanDone

Next ==
    \/ \E s \in Sender : Sending(s)
    \/ \E trig \in Caught, mask \in Masks :
          \E act \in {DFL, IGN, Catch(TRUE, {}), Catch(FALSE, mask)} : SetAction(trig, act)
    \/ \E mask \in Masks : SetMask(mask) \/ Unblock(mask)
    \/ Sleep \/ Wakeup \/ TriggerReturn \/ Delivery
    \/ \E second \in Seconds : sys_alarm(second)
    \/ update_alarms

Spec == Init /\ [][Next]_vars

-----------------------------------------------------------------------------
(* Properties.                                                             *)

\* do_trigger looks at TRIG_LEFT only: whenever a trigger is set the flag is
\* too, blocked or not, so that a later unblocking, the return of a handler or
\* the next interrupt delivers it; unless a sender cleared the flag for a set
\* it had read before, or has not come to computing it.
NoTriggerForgotten ==
    set # {} /\ ~ stale => left \/ \E s \in Sender : calc[s].at = "read"
=============================================================================
