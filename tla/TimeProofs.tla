----------------------------- MODULE TimeProofs -----------------------------
(***************************************************************************)
(* Proofs about time and what interrupts a task: triggers (Trigger), soft  *)
(* interrupts and assists (Softirq), timers (Timer) and sleeping tasks     *)
(* (Sleep), for any sets of them and any bounds.                           *)
(*                                                                         *)
(* Triggers: the flag may be wrong only while a sender has read the set    *)
(* and not yet written the flag.                                           *)
(*                                                                         *)
(* Soft interrupts: handle_softirq works on copies of the events and of    *)
(* the lists of assists, and may be interrupted, nested or left on the     *)
(* stack of a task that does not run.  The invariant follows each assist   *)
(* to the one list it is in and each event to those who still have it.     *)
(*                                                                         *)
(* Timers: an insertion in the middle of the list and a removal keep a     *)
(* list of distinct timers with the idle timer in it, and the time point   *)
(* of a linked timer is not before the ticks it has left.                  *)
(*                                                                         *)
(* Sleeping tasks: until its time has come a sleeper is blocked, unless it *)
(* was woken, and its timer is linked.  sleep_task_timeout unlinks tasks   *)
(* without counting, so the invariant of the scheduler does not hold here: *)
(* what is linked is READY all the same.                                   *)
(***************************************************************************)
EXTENDS MCTime, SequenceTheorems, FiniteSetTheorems, WellFoundedInduction, TLAPS

-----------------------------------------------------------------------------
(* Triggers.                                                               *)

CalcStep == [at : {"none", "read", "clear", "force"}, trig : {0} \cup Sent]

TriggerInv ==
    /\ calc \in [Sender -> CalcStep]
    /\ G!NoTriggerForgotten

\* At the start nothing is set.
LEMMA TriggerInitInv == G!Init => TriggerInv
  BY DEF G!Init, TriggerInv, CalcStep, G!NoTriggerForgotten, G!Idle

\* What a sender does.
LEMMA SendingInv ==
    ASSUME TriggerInv, NEW s \in Sender, G!Sending(s) PROVE TriggerInv'
  <1>1. ASSUME NEW trig \in Sent, G!Activate(s, trig) PROVE TriggerInv'
    BY <1>1 DEF G!Activate, G!Step, TriggerInv, CalcStep, G!NoTriggerForgotten
  <1>2. ASSUME NEW trig \in Sent, G!trigger_force(s, trig) PROVE TriggerInv'
    BY <1>2 DEF G!trigger_force, G!Step, G!Idle, G!process, TriggerInv, CalcStep, G!NoTriggerForgotten
  <1>3. CASE G!CalcRead(s)
    BY <1>3 DEF G!CalcRead, G!Step, G!Idle, G!process, TriggerInv, CalcStep, G!NoTriggerForgotten
  <1>4. CASE G!CalcClear(s)
    BY <1>4 DEF G!CalcClear, G!Idle, G!process, TriggerInv, CalcStep, G!NoTriggerForgotten
  <1> QED BY <1>1, <1>2, <1>3, <1>4 DEF G!Sending

\* What the process does in its system calls and in do_trigger: whatever takes
\* a trigger out of the set computes the flag from the set that is left.
LEMMA ProcessInv ==
    ASSUME TriggerInv,
           \/ G!Sleep \/ G!Wakeup \/ G!TriggerReturn \/ G!Delivery
           \/ \E trig, act : G!SetAction(trig, act)
           \/ \E mask : G!SetMask(mask) \/ G!Unblock(mask)
           \/ \E second : G!sys_alarm(second)
    PROVE  TriggerInv'
  <1> USE DEF TriggerInv, G!NoTriggerForgotten, G!process
  <1>1. ASSUME \/ UNCHANGED <<set, left_flag, outdated, calc>>
               \/ UNCHANGED calc /\ left_flag' = (set' # {})
        PROVE  TriggerInv'
    BY <1>1
  <1>2. CASE G!Sleep \/ G!Wakeup
    BY <1>1, <1>2 DEF G!Sleep, G!Wakeup
  <1>3. CASE G!TriggerReturn
    BY <1>1, <1>3 DEF G!TriggerReturn
  <1>4. ASSUME NEW trig, NEW act, G!SetAction(trig, act) PROVE TriggerInv'
    BY <1>1, <1>4 DEF G!SetAction
  <1>5. ASSUME NEW mask, G!SetMask(mask) \/ G!Unblock(mask) PROVE TriggerInv'
    BY <1>1, <1>5 DEF G!SetMask, G!Unblock
  <1>6. ASSUME NEW second, G!sys_alarm(second) PROVE TriggerInv'
    BY <1>1, <1>6 DEF G!sys_alarm
  <1>7. ASSUME NEW trig, G!Fetch(trig) PROVE TriggerInv'
    BY <1>1, <1>7 DEF G!Fetch
  <1>8. ASSUME NEW trig, G!Die(trig) PROVE TriggerInv'
    BY <1>8 DEF G!Die
  <1>9. CASE G!Delivery
    BY <1>1, <1>7, <1>8, <1>9 DEF G!Delivery, G!Ignored, G!Handle, G!Stop, G!ScanDone
  <1> QED BY <1>2, <1>3, <1>4, <1>5, <1>6, <1>9

\* The alarm clock raises its trigger and the flag in one section.
LEMMA AlarmInv == ASSUME TriggerInv, G!update_alarms PROVE TriggerInv'
  BY DEF G!update_alarms, TriggerInv, G!NoTriggerForgotten

\* A step of anybody.
LEMMA TriggerStepInv == TriggerInv /\ [G!Next]_(G!vars) => TriggerInv'
  <1> SUFFICES ASSUME TriggerInv, [G!Next]_(G!vars) PROVE TriggerInv'
    OBVIOUS
  <1>1. CASE UNCHANGED G!vars
    BY <1>1 DEF G!vars, TriggerInv, G!NoTriggerForgotten
  <1>2. CASE G!Next
    BY <1>2, SendingInv, ProcessInv, AlarmInv DEF G!Next
  <1> QED BY <1>1, <1>2

\* do_active_trigger, do_trigger and update_alarms lose no trigger: while one is
\* set TRIG_LEFT says so, or a sender has still to compute it, or has cleared
\* it for a set it read before.
THEOREM TriggersKept == G!Spec => []NoTriggerForgotten
  <1>1. TriggerInv => NoTriggerForgotten
    BY DEF TriggerInv, NoTriggerForgotten
  <1> QED BY <1>1, TriggerInitInv, TriggerStepInv, PTL DEF G!Spec

-----------------------------------------------------------------------------
(* Soft interrupts.  That an assist is queued once is not inductive: the   *)
(* positions it has in the lists have to be counted, a frame of            *)
(* handle_softirq that was interrupted included.                           *)

Irqs == {I!HIGHTASK_ASSIST_SOFTIRQ, I!TASK_ASSIST_SOFTIRQ}
FrameSet == [evens : SUBSET I!Softirqs, redo : Nat, list : Seq(I!Assist)]

SoftirqType ==
    /\ evens \in SUBSET I!Softirqs /\ due \in SUBSET I!Softirqs
    /\ frames \in [Worker -> Seq(FrameSet)]
    /\ current \in Worker
    /\ head \in [Irqs -> Seq(I!Assist)]
    /\ status \in [I!Assist -> SUBSET Irqs]

\* An action for irq is still to start.
Awaited(irq) ==
    irq \in evens \/ \E t \in Worker : \E k \in 1 .. Len(frames[t]) : irq \in frames[t][k].evens

EventsAwaited ==
    /\ \A irq \in due : Awaited(irq)
    /\ \A irq \in Irqs : head[irq] # << >> => Awaited(irq)

Has(s, a) == \E j \in 1 .. Len(s) : s[j] = a
InHead(a, i) == Has(head[i], a)
InFrame(a, t, k) == Has(frames[t][k].list, a)

NoRepeat(s) == \A j1, j2 \in 1 .. Len(s) : s[j1] = s[j2] => j1 = j2 \/ s[j1] \notin High

\* A high assist has one position while its bit is set and none otherwise.
OnePosition ==
    /\ \A i \in Irqs : NoRepeat(head[i])
    /\ \A t \in Worker : \A k \in 1 .. Len(frames[t]) : NoRepeat(frames[t][k].list)
    /\ \A a \in High :
         /\ \A i1, i2 \in Irqs : InHead(a, i1) /\ InHead(a, i2) => i1 = i2
         /\ \A t1, t2 \in Worker : \A k1 \in 1 .. Len(frames[t1]), k2 \in 1 .. Len(frames[t2]) :
              InFrame(a, t1, k1) /\ InFrame(a, t2, k2) => t1 = t2 /\ k1 = k2
         /\ \A i \in Irqs, t \in Worker : \A k \in 1 .. Len(frames[t]) :
              ~ (InHead(a, i) /\ InFrame(a, t, k))

BitExact ==
    \A a \in High :
        I!TASK_ASSIST_SCHED \in status[a]
            <=> \/ \E i \in Irqs : InHead(a, i)
                \/ \E t \in Worker : \E k \in 1 .. Len(frames[t]) : InFrame(a, t, k)

SoftirqInv == SoftirqType /\ EventsAwaited /\ OnePosition /\ BitExact

\* What Front, Last and Append do to the frames of the running task.
LEMMA TopFrame ==
    ASSUME SoftirqType, I!Running
    PROVE  LET n == Len(frames[current])
           IN  /\ n \in Nat \ {0}
               /\ I!Top = frames[current][n] /\ I!Top \in FrameSet
               /\ I!Front(frames[current]) \in Seq(FrameSet)
               /\ Len(I!Front(frames[current])) = n - 1
               /\ \A k \in 1 .. n - 1 : I!Front(frames[current])[k] = frames[current][k]
  <1> DEFINE s == frames[current]
  <1>1. s \in Seq(FrameSet) /\ s # << >>
    BY DEF SoftirqType, I!Running
  <1>2. Len(s) \in Nat \ {0}
    BY <1>1, EmptySeq
  <1>3. \A k \in 1 .. Len(s) : s[k] \in FrameSet
    BY <1>1, ElementOfSeq
  <1>4. /\ SubSeq(s, 1, Len(s) - 1) \in Seq(FrameSet)
        /\ Len(SubSeq(s, 1, Len(s) - 1)) = IF 1 <= Len(s) - 1 THEN (Len(s) - 1) - 1 + 1 ELSE 0
        /\ \A k \in 1 .. (Len(s) - 1) - 1 + 1 : SubSeq(s, 1, Len(s) - 1)[k] = s[1 + k - 1]
    <2>1. 1 \in Int /\ Len(s) - 1 \in Int /\ \A k \in 1 .. Len(s) - 1 : s[k] \in FrameSet
      BY <1>2, <1>3
    <2> HIDE DEF s
    <2> QED BY <2>1, SubSeqProperties
  <1> QED BY <1>1, <1>2, <1>3, <1>4 DEF I!Top, I!Last, I!Front

\* The top frame of the running thread is replaced, the others stay.
LEMMA TopReplaced ==
    ASSUME SoftirqType, I!Running, NEW f \in FrameSet, I!SetTop(f)
    PROVE  LET n == Len(frames[current])
           IN  /\ frames' \in [Worker -> Seq(FrameSet)]
               /\ \A t \in Worker : Len(frames'[t]) = Len(frames[t])
               /\ \A t \in Worker : \A k \in 1 .. Len(frames[t]) :
                    frames'[t][k] = IF t = current /\ k = n THEN f ELSE frames[t][k]
  <1> DEFINE n == Len(frames[current])
  <1>1. /\ n \in Nat \ {0} /\ I!Front(frames[current]) \in Seq(FrameSet)
        /\ Len(I!Front(frames[current])) = n - 1
        /\ \A k \in 1 .. n - 1 : I!Front(frames[current])[k] = frames[current][k]
    BY TopFrame
  <1> DEFINE g == Append(I!Front(frames[current]), f)
  <1>2. /\ g \in Seq(FrameSet) /\ Len(g) = n /\ g[n] = f
        /\ \A k \in 1 .. n - 1 : g[k] = frames[current][k]
    BY <1>1, AppendProperties
  <1>3. /\ frames' = [frames EXCEPT ![current] = g]
        /\ frames \in [Worker -> Seq(FrameSet)] /\ current \in Worker
    BY DEF I!SetTop, SoftirqType
  <1>4. \A t \in Worker : Len(frames[t]) \in Nat
    BY <1>3
  <1> HIDE DEF g
  <1>5. frames' \in [Worker -> Seq(FrameSet)]
    BY <1>2, <1>3
  <1>6. /\ frames'[current] = g
        /\ \A t \in Worker : t # current => frames'[t] = frames[t]
    BY <1>2, <1>3
  <1>7. \A t \in Worker : Len(frames'[t]) = Len(frames[t])
    BY <1>2, <1>6
  <1>8. ASSUME NEW t \in Worker, NEW k \in 1 .. Len(frames[t])
        PROVE  frames'[t][k] = IF t = current /\ k = n THEN f ELSE frames[t][k]
    <2>1. CASE t # current
      BY <2>1, <1>6
    <2>2. CASE t = current /\ k = n
      BY <2>2, <1>2, <1>6
    <2>3. CASE t = current /\ k # n
      <3>1. k \in 1 .. n - 1
        BY <2>3, <1>1
      <3> QED BY <3>1, <2>3, <1>2, <1>6
    <2> QED BY <2>1, <2>2, <2>3
  <1> QED BY <1>5, <1>7, <1>8

\* A new frame on top of those of the running thread.
LEMMA TopPushed ==
    ASSUME SoftirqType, NEW f \in FrameSet,
           frames' = [frames EXCEPT ![current] = Append(@, f)]
    PROVE  LET n == Len(frames[current])
           IN  /\ n \in Nat
               /\ frames' \in [Worker -> Seq(FrameSet)]
               /\ \A t \in Worker : Len(frames'[t]) = IF t = current THEN n + 1 ELSE Len(frames[t])
               /\ \A t \in Worker : \A k \in 1 .. Len(frames[t]) : frames'[t][k] = frames[t][k]
               /\ frames'[current][n + 1] = f
  <1> DEFINE n == Len(frames[current])
             g == Append(frames[current], f)
  <1>1. /\ frames \in [Worker -> Seq(FrameSet)] /\ current \in Worker
        /\ n \in Nat
    BY DEF SoftirqType
  <1>2. /\ g \in Seq(FrameSet) /\ Len(g) = n + 1 /\ g[n + 1] = f
        /\ \A k \in 1 .. n : g[k] = frames[current][k]
    BY <1>1, AppendProperties
  <1> HIDE DEF g
  <1>3. /\ frames' \in [Worker -> Seq(FrameSet)]
        /\ frames'[current] = g
        /\ \A t \in Worker : t # current => frames'[t] = frames[t]
    BY <1>1, <1>2 DEF g
  <1> QED BY <1>1, <1>2, <1>3

\* The top frame of the running thread returns.
LEMMA TopPopped ==
    ASSUME SoftirqType, I!Running,
           frames' = [frames EXCEPT ![current] = I!Front(@)]
    PROVE  LET n == Len(frames[current])
           IN  /\ frames' \in [Worker -> Seq(FrameSet)]
               /\ \A t \in Worker : Len(frames'[t]) = IF t = current THEN n - 1 ELSE Len(frames[t])
               /\ \A t \in Worker : \A k \in 1 .. Len(frames'[t]) : frames'[t][k] = frames[t][k]
  <1> DEFINE n == Len(frames[current])
             g == I!Front(frames[current])
  <1>1. /\ frames \in [Worker -> Seq(FrameSet)] /\ current \in Worker
    BY DEF SoftirqType
  <1>2. /\ n \in Nat \ {0} /\ g \in Seq(FrameSet) /\ Len(g) = n - 1
        /\ \A k \in 1 .. n - 1 : g[k] = frames[current][k]
    BY TopFrame
  <1> HIDE DEF g
  <1>3. /\ frames' \in [Worker -> Seq(FrameSet)]
        /\ frames'[current] = g
        /\ \A t \in Worker : t # current => frames'[t] = frames[t]
    BY <1>1, <1>2 DEF g
  <1> QED BY <1>1, <1>2, <1>3

\* An event that was awaited still is when the running frame has kept it or
\* given it back.
LEMMA StillAwaited ==
    ASSUME SoftirqType, I!Running, NEW f \in FrameSet, I!SetTop(f),
           NEW irq, Awaited(irq),
           irq \in evens \cup I!Top.evens => irq \in evens' \cup f.evens
    PROVE  Awaited(irq)'
  <1> DEFINE n == Len(frames[current])
  <1>1. /\ \A t \in Worker : Len(frames'[t]) = Len(frames[t])
        /\ \A t \in Worker : \A k \in 1 .. Len(frames[t]) :
             frames'[t][k] = IF t = current /\ k = n THEN f ELSE frames[t][k]
    BY TopReplaced
  <1>2. n \in 1 .. n /\ current \in Worker /\ I!Top = frames[current][n]
    BY TopFrame DEF SoftirqType
  <1>3. CASE irq \in evens' \cup f.evens
    BY <1>1, <1>2, <1>3 DEF Awaited
  <1>4. CASE irq \notin evens \cup I!Top.evens
    <2>1. PICK t \in Worker : \E k \in 1 .. Len(frames[t]) : irq \in frames[t][k].evens
      BY <1>4 DEF Awaited
    <2>2. PICK k \in 1 .. Len(frames[t]) : irq \in frames[t][k].evens
      BY <2>1
    <2>3. ~ (t = current /\ k = n)
      BY <2>2, <1>2, <1>4
    <2> QED BY <2>2, <2>3, <1>1 DEF Awaited
  <1> QED BY <1>3, <1>4

\* The lists that are not empty are where they were.
LEMMA SamePositions ==
    ASSUME OnePosition, BitExact, UNCHANGED <<head, status>>,
           \A t \in Worker : \A k \in 1 .. Len(frames'[t]) :
              frames'[t][k].list # << >> =>
                 k \in 1 .. Len(frames[t]) /\ frames'[t][k].list = frames[t][k].list,
           \A t \in Worker : \A k \in 1 .. Len(frames[t]) :
              frames[t][k].list # << >> =>
                 k \in 1 .. Len(frames'[t]) /\ frames'[t][k].list = frames[t][k].list
    PROVE  OnePosition' /\ BitExact'
  <1>1. \A a, i : InHead(a, i)' <=> InHead(a, i)
    BY DEF InHead, Has
  <1>2. ASSUME NEW a, NEW t \in Worker, NEW k \in 1 .. Len(frames'[t]), InFrame(a, t, k)'
        PROVE  k \in 1 .. Len(frames[t]) /\ InFrame(a, t, k)
    BY <1>2 DEF InFrame, Has
  <1>3. ASSUME NEW a, NEW t \in Worker, NEW k \in 1 .. Len(frames[t]), InFrame(a, t, k)
        PROVE  k \in 1 .. Len(frames'[t]) /\ InFrame(a, t, k)'
    BY <1>3 DEF InFrame, Has
  <1>4. BitExact'
    BY <1>1, <1>2, <1>3 DEF BitExact
  <1>5. ASSUME NEW t \in Worker, NEW k \in 1 .. Len(frames'[t])
        PROVE  NoRepeat(frames'[t][k].list)
    <2>1. NoRepeat(<< >>)
      BY DEF NoRepeat
    <2>2. CASE frames'[t][k].list # << >>
      BY <2>2 DEF OnePosition
    <2> QED BY <2>1, <2>2
  <1>6. OnePosition'
    BY <1>1, <1>2, <1>5 DEF OnePosition
  <1> QED BY <1>4, <1>6

\* TimerAction and SchedAction: the event leaves the frame, its action starts.
LEMMA PlainActionInv ==
    ASSUME SoftirqInv, NEW irq, irq \notin Irqs, I!Start(irq),
           I!SetTop([I!Top EXCEPT !.evens = @ \ {irq}]),
           current' \in Worker, UNCHANGED <<evens, head, status>>
    PROVE  SoftirqInv'
  <1> DEFINE f == [I!Top EXCEPT !.evens = @ \ {irq}]
             n == Len(frames[current])
  <1>1. SoftirqType /\ EventsAwaited /\ OnePosition /\ BitExact
    BY DEF SoftirqInv
  <1>2. I!Running /\ I!Top.list = << >> /\ due' = due \ {irq}
    BY DEF I!Start
  <1>3. /\ n \in Nat \ {0} /\ I!Top = frames[current][n] /\ I!Top \in FrameSet
    BY <1>1, <1>2, TopFrame
  <1>4. f \in FrameSet /\ f.list = << >> /\ f.evens = I!Top.evens \ {irq}
    BY <1>2, <1>3 DEF FrameSet
  <1> HIDE DEF f
  <1>5. I!SetTop(f)
    BY DEF f
  <1>6. /\ frames' \in [Worker -> Seq(FrameSet)]
        /\ \A t \in Worker : Len(frames'[t]) = Len(frames[t])
        /\ \A t \in Worker : \A k \in 1 .. Len(frames[t]) :
             frames'[t][k] = IF t = current /\ k = n THEN f ELSE frames[t][k]
    BY <1>1, <1>2, <1>4, <1>5, TopReplaced
  <1>7. SoftirqType'
    BY <1>1, <1>2, <1>6 DEF SoftirqType
  <1>8. ASSUME NEW e, e # irq, Awaited(e) PROVE Awaited(e)'
    BY <1>1, <1>2, <1>4, <1>5, <1>8, StillAwaited
  <1>9. EventsAwaited'
    <2>1. \A e \in due' : Awaited(e)'
      BY <1>1, <1>2, <1>8 DEF EventsAwaited
    <2>2. \A e \in Irqs : head'[e] # << >> => Awaited(e)'
      BY <1>1, <1>8 DEF EventsAwaited
    <2> QED BY <2>1, <2>2 DEF EventsAwaited
  <1>10. OnePosition' /\ BitExact'
    <2>1. \A t \in Worker : \A k \in 1 .. Len(frames[t]) :
             frames'[t][k].list = frames[t][k].list
      BY ONLY <1>2, <1>3, <1>4, <1>6
    <2>2. OnePosition /\ BitExact /\ UNCHANGED <<head, status>>
      BY <1>1
    <2> QED BY ONLY <2>1, <2>2, <1>6, SamePositions
  <1> QED BY <1>7, <1>9, <1>10 DEF SoftirqInv

\* AssistAction: the positions of the list move to the running frame.
LEMMA AssistActionInv ==
    ASSUME SoftirqInv, NEW irq, I!AssistAction(irq)
    PROVE  SoftirqInv'
  <1> DEFINE f == [I!Top EXCEPT !.evens = @ \ {irq}, !.list = head[irq]]
             n == Len(frames[current])
  <1>1. SoftirqType /\ EventsAwaited /\ OnePosition /\ BitExact
    BY DEF SoftirqInv
  <1>2. /\ I!Running /\ I!Top.list = << >> /\ due' = due \ {irq}
        /\ I!SetTop(f) /\ head' = [head EXCEPT ![irq] = << >>]
        /\ UNCHANGED <<evens, current, status>>
    BY DEF I!AssistAction, I!Start
  <1>3. head \in [Irqs -> Seq(I!Assist)] /\ irq \in Irqs
    BY <1>1 DEF SoftirqType, I!AssistAction
  <1>4. /\ n \in Nat \ {0} /\ I!Top = frames[current][n] /\ I!Top \in FrameSet
    BY <1>1, <1>2, TopFrame
  <1>5. f \in FrameSet /\ f.list = head[irq] /\ f.evens = I!Top.evens \ {irq}
    BY <1>3, <1>4 DEF FrameSet
  <1> HIDE DEF f
  <1>6. /\ frames' \in [Worker -> Seq(FrameSet)]
        /\ \A t \in Worker : Len(frames'[t]) = Len(frames[t])
        /\ \A t \in Worker : \A k \in 1 .. Len(frames[t]) :
             frames'[t][k] = IF t = current /\ k = n THEN f ELSE frames[t][k]
    BY <1>1, <1>2, <1>5, TopReplaced
  <1>7. /\ head' \in [Irqs -> Seq(I!Assist)] /\ head'[irq] = << >>
        /\ \A i \in Irqs : i # irq => head'[i] = head[i]
    BY <1>2, <1>3
  <1>8. SoftirqType'
    BY <1>1, <1>2, <1>6, <1>7 DEF SoftirqType
  <1>9. ASSUME NEW e, e # irq, Awaited(e) PROVE Awaited(e)'
    BY <1>1, <1>2, <1>5, <1>9, StillAwaited
  <1>10. EventsAwaited'
    <2>1. \A e \in due' : Awaited(e)'
      BY <1>1, <1>2, <1>9 DEF EventsAwaited
    <2>2. \A e \in Irqs : head'[e] # << >> => Awaited(e)'
      BY <1>1, <1>7, <1>9 DEF EventsAwaited
    <2> QED BY <2>1, <2>2 DEF EventsAwaited
  <1>11. PICK c \in Worker, m \in Nat : c = current /\ m = n /\ m \in 1 .. Len(frames[c])
    BY <1>1, <1>4 DEF SoftirqType
  <1>12. \A a : ~ InHead(a, irq)' /\ ~ InFrame(a, c, m)
    BY <1>2, <1>4, <1>7, <1>11 DEF InHead, InFrame, Has
  <1>13. \A a : \A i \in Irqs : i # irq => (InHead(a, i)' <=> InHead(a, i))
    BY <1>7 DEF InHead, Has
  <1>14. \A a : InFrame(a, c, m)' <=> InHead(a, irq)
    BY <1>2, <1>5, <1>6, <1>11 DEF InHead, InFrame, Has
  <1>15. \A a : \A t \in Worker : \A k \in 1 .. Len(frames[t]) :
            ~ (t = c /\ k = m) => (InFrame(a, t, k)' <=> InFrame(a, t, k))
    BY <1>6, <1>11 DEF InFrame, Has
  <1>16. BitExact'
    <2> SUFFICES ASSUME NEW a \in High
                 PROVE  (\/ \E i \in Irqs : InHead(a, i)
                         \/ \E t \in Worker : \E k \in 1 .. Len(frames[t]) : InFrame(a, t, k))
                    <=> (\/ \E i \in Irqs : InHead(a, i)'
                         \/ \E t \in Worker : \E k \in 1 .. Len(frames[t]) : InFrame(a, t, k)')
      BY <1>1, <1>2, <1>6 DEF BitExact
    <2>1. ASSUME NEW i \in Irqs, InHead(a, i)
          PROVE  InHead(a, i)' \/ InFrame(a, c, m)'
      BY <2>1, <1>13, <1>14
    <2>2. ASSUME NEW t \in Worker, NEW k \in 1 .. Len(frames[t]), InFrame(a, t, k)
          PROVE  InFrame(a, t, k)'
      BY <2>2, <1>12, <1>15
    <2>3. ASSUME NEW i \in Irqs, InHead(a, i)' PROVE InHead(a, i)
      BY <2>3, <1>12, <1>13
    <2>4. ASSUME NEW t \in Worker, NEW k \in 1 .. Len(frames[t]), InFrame(a, t, k)'
          PROVE  InFrame(a, t, k) \/ InHead(a, irq)
      BY <2>4, <1>14, <1>15
    <2> QED BY <2>1, <2>2, <2>3, <2>4, <1>3, <1>11
  <1>17. OnePosition'
    <2>1. \A i \in Irqs : NoRepeat(head'[i])
      <3>1. NoRepeat(<< >>)
        BY DEF NoRepeat
      <3> QED BY <3>1, <1>1, <1>7 DEF OnePosition
    <2>2. \A t \in Worker : \A k \in 1 .. Len(frames'[t]) : NoRepeat(frames'[t][k].list)
      BY <1>1, <1>3, <1>5, <1>6 DEF OnePosition
    <2>3. ASSUME NEW a \in High, NEW i1 \in Irqs, NEW i2 \in Irqs,
                 InHead(a, i1)', InHead(a, i2)'
          PROVE  i1 = i2
      <3>1. InHead(a, i1) /\ InHead(a, i2)
        BY <2>3, <1>12, <1>13
      <3> QED BY <3>1, <1>1 DEF OnePosition
    <2>4. ASSUME NEW a \in High, NEW i \in Irqs, NEW t \in Worker,
                 NEW k \in 1 .. Len(frames[t]), InHead(a, i)', InFrame(a, t, k)'
          PROVE  FALSE
      <3>1. InHead(a, i) /\ i # irq
        BY <2>4, <1>12, <1>13
      <3>2. CASE t = c /\ k = m
        BY <3>1, <3>2, <2>4, <1>1, <1>3, <1>14 DEF OnePosition
      <3>3. CASE ~ (t = c /\ k = m)
        BY <3>1, <3>3, <2>4, <1>1, <1>15 DEF OnePosition
      <3> QED BY <3>2, <3>3
    <2>5. ASSUME NEW a \in High, NEW t1 \in Worker, NEW t2 \in Worker,
                 NEW k1 \in 1 .. Len(frames[t1]), NEW k2 \in 1 .. Len(frames[t2]),
                 InFrame(a, t1, k1)', InFrame(a, t2, k2)'
          PROVE  t1 = t2 /\ k1 = k2
      <3>1. InFrame(a, t1, k1) \/ (t1 = c /\ k1 = m /\ InHead(a, irq))
        BY <2>5, <1>14, <1>15
      <3>2. InFrame(a, t2, k2) \/ (t2 = c /\ k2 = m /\ InHead(a, irq))
        BY <2>5, <1>14, <1>15
      <3>3. CASE InHead(a, irq)
        BY <3>1, <3>2, <3>3, <1>1, <1>3 DEF OnePosition
      <3>4. CASE ~ InHead(a, irq)
        BY <3>1, <3>2, <3>4, <1>1 DEF OnePosition
      <3> QED BY <3>3, <3>4
    <2> QED BY <2>1, <2>2, <2>3, <2>4, <2>5, <1>6 DEF OnePosition
  <1> QED BY <1>8, <1>10, <1>16, <1>17 DEF SoftirqInv

\* One assist, x, changes its place: it leaves the frames and is in one list of
\* scheduled assists, as its bit says, or in none.
LEMMA OneMoved ==
    ASSUME OnePosition, BitExact, NEW x, NEW i0 \in Irqs,
           \A t \in Worker : Len(frames'[t]) = Len(frames[t]),
           \A i \in Irqs : NoRepeat(head'[i]),
           \A t \in Worker : \A k \in 1 .. Len(frames[t]) : NoRepeat(frames'[t][k].list),
           \A a \in High : \A t \in Worker : \A k \in 1 .. Len(frames[t]) :
              InFrame(a, t, k)' <=> InFrame(a, t, k) /\ a # x,
           \A a \in High : \A i \in Irqs : a # x => (InHead(a, i)' <=> InHead(a, i)),
           x \in High => \A i \in Irqs : InHead(x, i)' => i = i0,
           \A a \in High : a # x => status'[a] = status[a],
           x \in High => (I!TASK_ASSIST_SCHED \in status'[x] <=> InHead(x, i0)')
    PROVE  OnePosition' /\ BitExact'
  <1>1. OnePosition'
    <2>1. ASSUME NEW a \in High, NEW i1 \in Irqs, NEW i2 \in Irqs,
                 InHead(a, i1)', InHead(a, i2)'
          PROVE  i1 = i2
      BY <2>1 DEF OnePosition
    <2>2. ASSUME NEW a \in High, NEW i \in Irqs, NEW t \in Worker,
                 NEW k \in 1 .. Len(frames[t]), InHead(a, i)', InFrame(a, t, k)'
          PROVE  FALSE
      <3>1. InFrame(a, t, k) /\ a # x
        BY <2>2
      <3>2. InHead(a, i)
        BY <2>2, <3>1
      <3> QED BY <3>1, <3>2 DEF OnePosition
    <2>3. ASSUME NEW a \in High, NEW t1 \in Worker, NEW t2 \in Worker,
                 NEW k1 \in 1 .. Len(frames[t1]), NEW k2 \in 1 .. Len(frames[t2]),
                 InFrame(a, t1, k1)', InFrame(a, t2, k2)'
          PROVE  t1 = t2 /\ k1 = k2
      <3>1. InFrame(a, t1, k1) /\ InFrame(a, t2, k2)
        BY <2>3
      <3> QED BY <3>1 DEF OnePosition
    <2> QED BY <2>1, <2>2, <2>3 DEF OnePosition
  <1>2. ASSUME NEW a \in High
        PROVE  I!TASK_ASSIST_SCHED \in status'[a]
                 <=> \/ \E i \in Irqs : InHead(a, i)'
                     \/ \E t \in Worker : \E k \in 1 .. Len(frames[t]) : InFrame(a, t, k)'
    <2>1. CASE a = x
      BY <2>1
    <2>2. CASE a # x
      BY <2>2 DEF BitExact
    <2> QED BY <2>1, <2>2
  <1>3. BitExact'
    BY <1>2 DEF BitExact
  <1> QED BY <1>1, <1>3

\* What Tail and the insertion at the front do to a list.
LEMMA TailList ==
    ASSUME NEW S, NEW s \in Seq(S), s # << >>, NoRepeat(s)
    PROVE  /\ Tail(s) \in Seq(S) /\ Head(s) \in S /\ Has(s, Head(s))
           /\ NoRepeat(Tail(s))
           /\ \A a \in High : Has(Tail(s), a) <=> Has(s, a) /\ a # Head(s)
  <1>1. /\ Len(s) \in Nat \ {0} /\ Head(s) = s[1]
        /\ Head(s) \in S /\ Tail(s) \in Seq(S) /\ Len(Tail(s)) = Len(s) - 1
        /\ \A i \in 1 .. Len(Tail(s)) : Tail(s)[i] = s[i + 1]
    BY HeadTailProperties, EmptySeq
  <1>2. \A i \in 1 .. Len(Tail(s)) : i + 1 \in 1 .. Len(s)
    BY <1>1
  <1>3. \A i \in 1 .. Len(s) : i = 1 \/ (i - 1 \in 1 .. Len(Tail(s)) /\ Tail(s)[i - 1] = s[i])
    BY <1>1
  <1>4. Has(s, Head(s))
    BY <1>1 DEF Has
  <1>5. NoRepeat(Tail(s))
    BY <1>1, <1>2 DEF NoRepeat
  <1>6. ASSUME NEW a \in High, Has(Tail(s), a) PROVE Has(s, a) /\ a # Head(s)
    <2>1. PICK i \in 1 .. Len(Tail(s)) : Tail(s)[i] = a
      BY <1>6 DEF Has
    <2>2. s[i + 1] = a /\ i + 1 \in 1 .. Len(s) /\ 1 \in 1 .. Len(s) /\ i + 1 # 1
      BY <2>1, <1>1, <1>2
    <2> QED BY <2>2, <1>1 DEF NoRepeat, Has
  <1>7. ASSUME NEW a, Has(s, a), a # Head(s) PROVE Has(Tail(s), a)
    BY <1>1, <1>3, <1>7 DEF Has
  <1> QED BY <1>1, <1>4, <1>5, <1>6, <1>7

\* A list with one more event in front.
LEMMA ConsList ==
    ASSUME NEW S, NEW s \in Seq(S), NEW a \in S, NoRepeat(s), a \in High => ~ Has(s, a)
    PROVE  /\ <<a>> \o s \in Seq(S) /\ NoRepeat(<<a>> \o s)
           /\ \A b : Has(<<a>> \o s, b) <=> b = a \/ Has(s, b)
  <1> DEFINE g == <<a>> \o s
  <1>1. <<a>> \in Seq(S) /\ Len(<<a>>) = 1 /\ <<a>>[1] = a /\ Len(s) \in Nat
    OBVIOUS
  <1>2. /\ g \in Seq(S) /\ Len(g) = 1 + Len(s)
        /\ \A i \in 1 .. 1 + Len(s) : g[i] = IF i <= 1 THEN <<a>>[i] ELSE s[i - 1]
    BY <1>1, ConcatProperties
  <1> HIDE DEF g
  <1>3. /\ 1 \in 1 .. Len(g) /\ g[1] = a
        /\ \A i \in 1 .. Len(s) : i + 1 \in 1 .. Len(g) /\ g[i + 1] = s[i]
        /\ \A i \in 1 .. Len(g) : i = 1 \/ (i - 1 \in 1 .. Len(s) /\ g[i] = s[i - 1])
    BY <1>1, <1>2
  <1>4. \A b : Has(g, b) <=> b = a \/ Has(s, b)
    <2>1. ASSUME NEW b, Has(g, b) PROVE b = a \/ Has(s, b)
      BY ONLY <1>3, <2>1 DEF Has
    <2>2. ASSUME NEW b, Has(s, b) PROVE Has(g, b)
      BY ONLY <1>3, <2>2 DEF Has
    <2>3. Has(g, a)
      BY ONLY <1>3 DEF Has
    <2> QED BY <2>1, <2>2, <2>3
  <1>5. NoRepeat(g)
    <2> SUFFICES ASSUME NEW i \in 1 .. Len(g), NEW j \in 1 .. Len(g), g[i] = g[j], g[i] \in High
                 PROVE  i = j
      BY DEF NoRepeat
    <2>1. CASE i = 1 \/ j = 1
      <3>1. \A k \in 1 .. Len(g) : k # 1 => Has(s, g[k])
        BY ONLY <1>3 DEF Has
      <3> QED BY <2>1, <3>1, <1>3
    <2>2. CASE i # 1 /\ j # 1
      <3>1. i - 1 = j - 1
        BY <2>2, <1>3 DEF NoRepeat
      <3> QED BY <3>1
    <2> QED BY <2>1, <2>2
  <1> QED BY <1>2, <1>4, <1>5 DEF g

\* RunAssist and KeepAssist take the first assist of the running frame's list.
LEMMA FirstTaken ==
    ASSUME SoftirqType, EventsAwaited, OnePosition, I!Running, I!Top.list # << >>,
           I!SetTop([I!Top EXCEPT !.list = Tail(@)])
    PROVE  LET x == Head(I!Top.list)
           IN  /\ x \in I!Assist
               /\ frames' \in [Worker -> Seq(FrameSet)]
               /\ \A t \in Worker : Len(frames'[t]) = Len(frames[t])
               /\ \A t \in Worker : \A k \in 1 .. Len(frames[t]) : NoRepeat(frames'[t][k].list)
               /\ \A a \in High : \A t \in Worker : \A k \in 1 .. Len(frames[t]) :
                     InFrame(a, t, k)' <=> InFrame(a, t, k) /\ a # x
               /\ \E t \in Worker : \E k \in 1 .. Len(frames[t]) : InFrame(x, t, k)
               /\ evens \subseteq evens' => \A e : Awaited(e) => Awaited(e)'
  <1> DEFINE f == [I!Top EXCEPT !.list = Tail(@)]
  <1>1. PICK c \in Worker, m \in Nat : c = current /\ m = Len(frames[current])
    BY DEF SoftirqType
  <1>2. PICK x : x = Head(I!Top.list)
    OBVIOUS
  <1>3. m \in 1 .. Len(frames[c]) /\ I!Top = frames[c][m] /\ I!Top \in FrameSet
    BY <1>1, TopFrame
  <1>4. I!Top.list \in Seq(I!Assist) /\ NoRepeat(I!Top.list)
    BY <1>3 DEF OnePosition, FrameSet
  <1>5. /\ Tail(I!Top.list) \in Seq(I!Assist) /\ x \in I!Assist /\ Has(I!Top.list, x)
        /\ NoRepeat(Tail(I!Top.list))
        /\ \A a \in High : Has(Tail(I!Top.list), a) <=> Has(I!Top.list, a) /\ a # x
    BY <1>2, <1>4, TailList
  <1>6. f \in FrameSet /\ f.list = Tail(I!Top.list) /\ f.evens = I!Top.evens
    BY <1>3, <1>5 DEF FrameSet
  <1> HIDE DEF f
  <1>7. I!SetTop(f)
    BY DEF f
  <1>8. /\ frames' \in [Worker -> Seq(FrameSet)]
        /\ \A t \in Worker : Len(frames'[t]) = Len(frames[t])
        /\ \A t \in Worker : \A k \in 1 .. Len(frames[t]) :
             frames'[t][k] = IF t = c /\ k = m THEN f ELSE frames[t][k]
    BY <1>1, <1>6, <1>7, TopReplaced
  <1>9. \A t \in Worker : \A k \in 1 .. Len(frames[t]) : NoRepeat(frames'[t][k].list)
    BY <1>5, <1>6, <1>8 DEF OnePosition
  <1>10. InFrame(x, c, m)
    BY <1>3, <1>5 DEF InFrame
  <1>11. ASSUME NEW a \in High, NEW t \in Worker, NEW k \in 1 .. Len(frames[t])
         PROVE  InFrame(a, t, k)' <=> InFrame(a, t, k) /\ a # x
    <2>1. CASE t = c /\ k = m
      BY <2>1, <1>3, <1>5, <1>6, <1>8 DEF InFrame
    <2>2. CASE ~ (t = c /\ k = m)
      <3>1. InFrame(a, t, k)' <=> InFrame(a, t, k)
        BY <2>2, <1>8 DEF InFrame
      <3>2. a = x => ~ InFrame(a, t, k)
        BY <2>2, <1>3, <1>10 DEF OnePosition
      <3> QED BY <3>1, <3>2
    <2> QED BY <2>1, <2>2
  <1>12. ASSUME evens \subseteq evens', NEW e, Awaited(e) PROVE Awaited(e)'
    BY <1>6, <1>7, <1>12, StillAwaited
  <1> QED BY <1>2, <1>3, <1>5, <1>8, <1>9, <1>10, <1>11, <1>12

\* RunAssist: the bit goes with the position.
LEMMA RunAssistInv == ASSUME SoftirqInv, I!RunAssist PROVE SoftirqInv'
  <1>1. SoftirqType /\ EventsAwaited /\ OnePosition /\ BitExact
    BY DEF SoftirqInv
  <1>2. PICK x : x = Head(I!Top.list)
    OBVIOUS
  <1>3. /\ I!Running /\ I!Top.list # << >>
        /\ I!SetTop([I!Top EXCEPT !.list = Tail(@)])
        /\ status' = [status EXCEPT ![x] = @ \ {I!TASK_ASSIST_SCHED}]
        /\ UNCHANGED <<evens, current, head, due>>
    BY <1>2 DEF I!RunAssist
  <1>4. /\ x \in I!Assist
        /\ frames' \in [Worker -> Seq(FrameSet)]
        /\ \A t \in Worker : Len(frames'[t]) = Len(frames[t])
        /\ \A t \in Worker : \A k \in 1 .. Len(frames[t]) : NoRepeat(frames'[t][k].list)
        /\ \A a \in High : \A t \in Worker : \A k \in 1 .. Len(frames[t]) :
              InFrame(a, t, k)' <=> InFrame(a, t, k) /\ a # x
        /\ \E t \in Worker : \E k \in 1 .. Len(frames[t]) : InFrame(x, t, k)
        /\ \A e : Awaited(e) => Awaited(e)'
    BY <1>1, <1>2, <1>3, FirstTaken
  <1>5. SoftirqType'
    BY <1>1, <1>3, <1>4 DEF SoftirqType
  <1>6. EventsAwaited'
    BY <1>1, <1>3, <1>4 DEF EventsAwaited
  <1>7. \A a, i : InHead(a, i)' <=> InHead(a, i)
    BY <1>3 DEF InHead
  <1>8. x \in High => \A i \in Irqs : ~ InHead(x, i)
    BY <1>1, <1>4 DEF OnePosition
  <1>9. /\ \A a \in I!Assist : a # x => status'[a] = status[a]
        /\ I!TASK_ASSIST_SCHED \notin status'[x]
    BY <1>1, <1>3, <1>4 DEF SoftirqType
  <1>10. High \subseteq I!Assist /\ I!HIGHTASK_ASSIST_SOFTIRQ \in Irqs
    BY DEF I!Assist, Irqs
  <1>11. OnePosition' /\ BitExact'
    <2>1. \A i \in Irqs : NoRepeat(head'[i])
      BY <1>1, <1>3 DEF OnePosition
    <2> QED BY <2>1, <1>1, <1>4, <1>7, <1>8, <1>9, <1>10, OneMoved
  <1> QED BY <1>5, <1>6, <1>11 DEF SoftirqInv

\* Every assist has a list of its own kind.
LEMMA AssistIrqType == \A a : I!AssistIrq(a) \in Irqs
  BY DEF I!AssistIrq, Irqs

\* What KeepAssist and Schedule share: an assist that is in no list is put at the
\* front of its list and the event is raised.
LEMMA Inserted ==
    ASSUME SoftirqType, OnePosition, NEW x \in I!Assist,
           x \in High => \A i \in Irqs : ~ InHead(x, i),
           head' = [head EXCEPT ![I!AssistIrq(x)] = <<x>> \o @]
    PROVE  /\ head' \in [Irqs -> Seq(I!Assist)]
           /\ \A i \in Irqs : i # I!AssistIrq(x) => head'[i] = head[i]
           /\ \A i \in Irqs : NoRepeat(head'[i])
           /\ \A a \in High : \A i \in Irqs : a # x => (InHead(a, i)' <=> InHead(a, i))
           /\ x \in High => \A i \in Irqs : InHead(x, i)' <=> i = I!AssistIrq(x)
  <1>1. PICK q \in Irqs : q = I!AssistIrq(x)
    BY AssistIrqType
  <1>2. /\ head \in [Irqs -> Seq(I!Assist)] /\ \A i \in Irqs : NoRepeat(head[i])
        /\ x \in High => ~ Has(head[q], x)
    BY DEF SoftirqType, OnePosition, InHead
  <1>3. /\ <<x>> \o head[q] \in Seq(I!Assist) /\ NoRepeat(<<x>> \o head[q])
        /\ \A b : Has(<<x>> \o head[q], b) <=> b = x \/ Has(head[q], b)
    BY <1>2, ConsList
  <1>4. /\ head'[q] = <<x>> \o head[q] /\ head' \in [Irqs -> Seq(I!Assist)]
        /\ \A i \in Irqs : i # q => head'[i] = head[i]
    BY <1>1, <1>2, <1>3
  <1>5. \A i \in Irqs : NoRepeat(head'[i])
    BY <1>2, <1>3, <1>4
  <1>6. \A a : \A i \in Irqs : InHead(a, i)' <=> InHead(a, i) \/ (a = x /\ i = q)
    BY <1>3, <1>4 DEF InHead
  <1> QED BY <1>1, <1>4, <1>5, <1>6

\* KeepAssist: the assist goes back to its list, and its event is raised again.
LEMMA KeepAssistInv == ASSUME SoftirqInv, I!KeepAssist PROVE SoftirqInv'
  <1>1. SoftirqType /\ EventsAwaited /\ OnePosition /\ BitExact
    BY DEF SoftirqInv
  <1>2. PICK x : x = Head(I!Top.list)
    OBVIOUS
  <1>3. PICK q \in Irqs : q = I!AssistIrq(x)
    BY AssistIrqType
  <1>4. /\ I!Running /\ I!Top.list # << >>
        /\ I!SetTop([I!Top EXCEPT !.list = Tail(@)])
        /\ head' = [head EXCEPT ![q] = <<x>> \o @]
        /\ evens' = evens \cup {q} /\ due' = due \cup {q}
        /\ UNCHANGED <<current, status>>
    BY <1>2, <1>3 DEF I!KeepAssist, I!active_softirq
  <1>5. /\ x \in I!Assist
        /\ frames' \in [Worker -> Seq(FrameSet)]
        /\ \A t \in Worker : Len(frames'[t]) = Len(frames[t])
        /\ \A t \in Worker : \A k \in 1 .. Len(frames[t]) : NoRepeat(frames'[t][k].list)
        /\ \A a \in High : \A t \in Worker : \A k \in 1 .. Len(frames[t]) :
              InFrame(a, t, k)' <=> InFrame(a, t, k) /\ a # x
        /\ \E t \in Worker : \E k \in 1 .. Len(frames[t]) : InFrame(x, t, k)
        /\ \A e : Awaited(e) => Awaited(e)'
    BY <1>1, <1>2, <1>4, FirstTaken
  <1>6. x \in High => \A i \in Irqs : ~ InHead(x, i)
    BY <1>1, <1>5 DEF OnePosition
  <1>7. /\ head' \in [Irqs -> Seq(I!Assist)]
        /\ \A i \in Irqs : i # q => head'[i] = head[i]
        /\ \A i \in Irqs : NoRepeat(head'[i])
        /\ \A a \in High : \A i \in Irqs : a # x => (InHead(a, i)' <=> InHead(a, i))
        /\ x \in High => \A i \in Irqs : InHead(x, i)' <=> i = q
    BY <1>1, <1>3, <1>4, <1>5, <1>6, Inserted
  <1>8. SoftirqType'
    <2>1. q \in I!Softirqs
      BY DEF Irqs, I!Softirqs
    <2> QED BY <2>1, <1>1, <1>4, <1>5, <1>7 DEF SoftirqType
  <1>9. EventsAwaited'
    <2>1. Awaited(q)'
      BY <1>4 DEF Awaited
    <2> QED BY <2>1, <1>1, <1>4, <1>5, <1>7 DEF EventsAwaited
  <1>10. x \in High => I!TASK_ASSIST_SCHED \in status'[x]
    BY <1>1, <1>4, <1>5 DEF BitExact
  <1>11. OnePosition' /\ BitExact'
    <2>1. \A a \in High : a # x => status'[a] = status[a]
      BY <1>4
    <2>2. x \in High => \A i \in Irqs : InHead(x, i)' => i = q
      BY <1>7
    <2>3. x \in High => (I!TASK_ASSIST_SCHED \in status'[x] <=> InHead(x, q)')
      BY <1>7, <1>10
    <2>4. /\ \A t \in Worker : Len(frames'[t]) = Len(frames[t])
          /\ \A t \in Worker : \A k \in 1 .. Len(frames[t]) : NoRepeat(frames'[t][k].list)
      BY <1>5
    <2>5. \A a \in High : \A t \in Worker : \A k \in 1 .. Len(frames[t]) :
             InFrame(a, t, k)' <=> InFrame(a, t, k) /\ a # x
      BY <1>5
    <2>6. /\ \A i \in Irqs : NoRepeat(head'[i])
          /\ \A a \in High : \A i \in Irqs : a # x => (InHead(a, i)' <=> InHead(a, i))
      BY <1>7
    <2> QED BY <2>1, <2>2, <2>3, <2>4, <2>5, <2>6, <1>1, OneMoved
  <1> QED BY <1>8, <1>9, <1>11 DEF SoftirqInv

\* Schedule: an assist whose bit is not set has no position.
LEMMA ScheduleInv ==
    ASSUME SoftirqInv, NEW x \in I!Assist, I!Schedule(x) PROVE SoftirqInv'
  <1>1. SoftirqType /\ EventsAwaited /\ OnePosition /\ BitExact
    BY DEF SoftirqInv
  <1>2. PICK q \in Irqs : q = I!AssistIrq(x)
    BY AssistIrqType
  <1>3. /\ q \notin status[x] /\ status' = [status EXCEPT ![x] = @ \cup {q}]
        /\ head' = [head EXCEPT ![q] = <<x>> \o @]
        /\ evens' = evens \cup {q} /\ due' = due \cup {q}
        /\ UNCHANGED <<frames, current>>
    BY <1>2 DEF I!Schedule, I!active_softirq
  <1>4. x \in High => q = I!TASK_ASSIST_SCHED
    BY <1>2 DEF I!AssistIrq, I!TASK_ASSIST_SCHED, I!HIGHTASK_ASSIST_SOFTIRQ
  <1>5. x \in High => /\ \A i \in Irqs : ~ InHead(x, i)
                      /\ \A t \in Worker : \A k \in 1 .. Len(frames[t]) : ~ InFrame(x, t, k)
    BY <1>1, <1>3, <1>4 DEF BitExact
  <1>6. /\ head' \in [Irqs -> Seq(I!Assist)]
        /\ \A i \in Irqs : i # q => head'[i] = head[i]
        /\ \A i \in Irqs : NoRepeat(head'[i])
        /\ \A a \in High : \A i \in Irqs : a # x => (InHead(a, i)' <=> InHead(a, i))
        /\ x \in High => \A i \in Irqs : InHead(x, i)' <=> i = q
    BY <1>1, <1>2, <1>3, <1>5, Inserted
  <1>7. SoftirqType'
    <2>1. q \in I!Softirqs
      BY DEF Irqs, I!Softirqs
    <2> QED BY <2>1, <1>1, <1>3, <1>6 DEF SoftirqType
  <1>8. \A e : Awaited(e) \/ e = q => Awaited(e)'
    BY <1>3 DEF Awaited
  <1>9. EventsAwaited'
    BY <1>1, <1>3, <1>6, <1>8 DEF EventsAwaited
  <1>10. \A a : \A t \in Worker : \A k \in 1 .. Len(frames[t]) :
             InFrame(a, t, k)' <=> InFrame(a, t, k)
    BY <1>3 DEF InFrame
  <1>11. /\ \A a \in I!Assist : a # x => status'[a] = status[a]
         /\ q \in status'[x]
    BY <1>1, <1>3 DEF SoftirqType
  <1>12. High \subseteq I!Assist
    BY DEF I!Assist
  <1>13. OnePosition' /\ BitExact'
    <2>1. /\ \A t \in Worker : Len(frames'[t]) = Len(frames[t])
          /\ \A t \in Worker : \A k \in 1 .. Len(frames[t]) : NoRepeat(frames'[t][k].list)
      BY <1>1, <1>3 DEF OnePosition
    <2>2. \A a \in High : \A t \in Worker : \A k \in 1 .. Len(frames[t]) :
             InFrame(a, t, k)' <=> InFrame(a, t, k) /\ a # x
      BY <1>5, <1>10
    <2>3. x \in High => (I!TASK_ASSIST_SCHED \in status'[x] <=> InHead(x, q)')
      BY <1>4, <1>6, <1>11
    <2> QED BY <2>1, <2>2, <2>3, <1>1, <1>6, <1>11, <1>12, OneMoved
  <1> QED BY <1>7, <1>9, <1>13 DEF SoftirqInv

\* EndTurn: the events raised meanwhile go into the next turn, or are left for the
\* next interrupt.
LEMMA EndTurnInv == ASSUME SoftirqInv, I!EndTurn PROVE SoftirqInv'
  <1> DEFINE n == Len(frames[current])
  <1>1. SoftirqType /\ EventsAwaited /\ OnePosition /\ BitExact
    BY DEF SoftirqInv
  <1>2. /\ I!Running /\ I!Top.list = << >> /\ I!Top.evens = {}
        /\ UNCHANGED <<current, head, status, due>>
    BY DEF I!EndTurn
  <1>3. current \in Worker /\ n \in Nat \ {0} /\ I!Top = frames[current][n] /\ I!Top \in FrameSet
    BY <1>1, <1>2, TopFrame DEF SoftirqType
  <1>4. CASE evens # {} /\ I!Top.redo > 1
    <2> DEFINE f == I!Frame(evens, I!Top.redo - 1)
    <2>1. I!SetTop(f) /\ evens' = {}
      BY <1>4 DEF I!EndTurn
    <2>2. f \in FrameSet /\ f.list = << >> /\ f.evens = evens
      BY <1>1, <1>3, <1>4 DEF I!Frame, FrameSet, SoftirqType
    <2> HIDE DEF f
    <2>3. /\ frames' \in [Worker -> Seq(FrameSet)]
          /\ \A t \in Worker : Len(frames'[t]) = Len(frames[t])
          /\ \A t \in Worker : \A k \in 1 .. Len(frames[t]) :
               frames'[t][k] = IF t = current /\ k = n THEN f ELSE frames[t][k]
      BY <1>1, <1>2, <2>1, <2>2, TopReplaced
    <2>4. SoftirqType'
      BY <1>1, <1>2, <2>1, <2>3 DEF SoftirqType
    <2>5. \A e : Awaited(e) => Awaited(e)'
      BY <1>1, <1>2, <2>1, <2>2, StillAwaited
    <2>6. EventsAwaited'
      BY <1>1, <1>2, <2>5 DEF EventsAwaited
    <2>7. OnePosition' /\ BitExact'
      BY <1>1, <1>2, <1>3, <2>2, <2>3, SamePositions
    <2> QED BY <2>4, <2>6, <2>7 DEF SoftirqInv
  <1>5. CASE ~ (evens # {} /\ I!Top.redo > 1)
    <2>1. frames' = [frames EXCEPT ![current] = I!Front(@)] /\ evens' = evens
      BY <1>5 DEF I!EndTurn
    <2>2. /\ frames' \in [Worker -> Seq(FrameSet)]
          /\ \A t \in Worker : Len(frames'[t]) = IF t = current THEN n - 1 ELSE Len(frames[t])
          /\ \A t \in Worker : \A k \in 1 .. Len(frames'[t]) : frames'[t][k] = frames[t][k]
      BY <1>1, <1>2, <2>1, TopPopped
    <2>3. SoftirqType'
      BY <1>1, <1>2, <2>1, <2>2 DEF SoftirqType
    <2>4. \A t \in Worker : Len(frames[t]) \in Nat
      BY <1>1 DEF SoftirqType
    <2>5. \A t \in Worker : /\ \A k \in 1 .. Len(frames'[t]) : k \in 1 .. Len(frames[t])
                            /\ \A k \in 1 .. Len(frames[t]) :
                                 (t = current /\ k = n) \/ k \in 1 .. Len(frames'[t])
      BY <1>3, <2>2, <2>4
    <2>6. ASSUME NEW e, Awaited(e) PROVE Awaited(e)'
      <3>1. CASE e \in evens
        BY <3>1, <2>1 DEF Awaited
      <3>2. CASE e \notin evens
        <4>1. PICK t \in Worker : \E k \in 1 .. Len(frames[t]) : e \in frames[t][k].evens
          BY <2>6, <3>2 DEF Awaited
        <4>2. PICK k \in 1 .. Len(frames[t]) : e \in frames[t][k].evens
          BY <4>1
        <4>3. k \in 1 .. Len(frames'[t])
          BY <1>2, <1>3, <2>5, <4>2
        <4> QED BY <2>2, <4>2, <4>3 DEF Awaited
      <3> QED BY <3>1, <3>2
    <2>7. EventsAwaited'
      BY <1>1, <1>2, <2>6 DEF EventsAwaited
    <2>8. OnePosition' /\ BitExact'
      BY <1>1, <1>2, <1>3, <2>2, <2>5, SamePositions
    <2> QED BY <2>3, <2>7, <2>8 DEF SoftirqInv
  <1> QED BY <1>4, <1>5

\* Interrupt: do_softirq takes every event into a new frame.
LEMMA InterruptInv ==
    ASSUME SoftirqInv, NEW raised \in SUBSET I!Softirqs, I!Interrupt(raised)
    PROVE  SoftirqInv'
  <1> DEFINE n == Len(frames[current])
             e == evens \cup raised
             f == I!Frame(e, MAX_REDO_IRQ)
  <1>1. SoftirqType /\ EventsAwaited /\ OnePosition /\ BitExact
    BY DEF SoftirqInv
  <1>2. /\ due' = due \cup raised /\ evens' = {}
        /\ frames' = IF e = {} THEN frames ELSE [frames EXCEPT ![current] = Append(@, f)]
        /\ UNCHANGED <<current, head, status>>
    BY DEF I!Interrupt, I!active_softirq
  <1>3. CASE e = {}
    <2>1. UNCHANGED <<evens, due, frames, current, head, status>>
      BY <1>2, <1>3
    <2> QED BY <2>1, <1>1 DEF SoftirqInv, SoftirqType, EventsAwaited, Awaited, OnePosition,
               BitExact, InHead, InFrame
  <1>4. CASE e # {}
    <2>1. e \in SUBSET I!Softirqs
      BY <1>1 DEF SoftirqType
    <2>2. f \in FrameSet /\ f.list = << >> /\ f.evens = e
      BY <2>1, TimeAssumption DEF I!Frame, FrameSet, I!SoftirqConstants
    <2>3. frames' = [frames EXCEPT ![current] = Append(@, f)]
      BY <1>2, <1>4
    <2> HIDE DEF f
    <2>4. /\ n \in Nat
          /\ frames' \in [Worker -> Seq(FrameSet)]
          /\ \A t \in Worker : Len(frames'[t]) = IF t = current THEN n + 1 ELSE Len(frames[t])
          /\ \A t \in Worker : \A k \in 1 .. Len(frames[t]) : frames'[t][k] = frames[t][k]
          /\ frames'[current][n + 1] = f
      BY <1>1, <2>2, <2>3, TopPushed
    <2>5. SoftirqType'
      BY <1>1, <1>2, <2>4 DEF SoftirqType
    <2>6. \A t \in Worker : Len(frames[t]) \in Nat
      BY <1>1 DEF SoftirqType
    <2>7. /\ current \in Worker /\ n + 1 \in 1 .. Len(frames'[current])
          /\ \A t \in Worker : /\ \A k \in 1 .. Len(frames[t]) : k \in 1 .. Len(frames'[t])
                               /\ \A k \in 1 .. Len(frames'[t]) :
                                    (t = current /\ k = n + 1) \/ k \in 1 .. Len(frames[t])
      BY <1>1, <2>4, <2>6 DEF SoftirqType
    <2>8. ASSUME NEW x, Awaited(x) \/ x \in raised PROVE Awaited(x)'
      <3>1. CASE x \in e
        BY <3>1, <2>2, <2>4, <2>7 DEF Awaited
      <3>2. CASE x \notin e
        <4>1. PICK t \in Worker : \E k \in 1 .. Len(frames[t]) : x \in frames[t][k].evens
          BY <2>8, <3>2 DEF Awaited
        <4>2. PICK k \in 1 .. Len(frames[t]) : x \in frames[t][k].evens
          BY <4>1
        <4> QED BY <4>2, <2>4, <2>7 DEF Awaited
      <3> QED BY <3>1, <3>2
    <2>9. EventsAwaited'
      BY <1>1, <1>2, <2>8 DEF EventsAwaited
    <2>10. OnePosition' /\ BitExact'
      BY <1>1, <1>2, <2>2, <2>4, <2>7, SamePositions
    <2> QED BY <2>5, <2>9, <2>10 DEF SoftirqInv
  <1> QED BY <1>3, <1>4

\* At the start nothing is raised or queued.
LEMMA SoftirqInitInv == I!Init => SoftirqInv
  <1> SUFFICES ASSUME I!Init PROVE SoftirqInv
    OBVIOUS
  <1>1. /\ evens = {} /\ due = {} /\ frames = [t \in Worker |-> << >>] /\ current \in Worker
        /\ head = [i \in Irqs |-> << >>] /\ status = [a \in I!Assist |-> {}]
    BY DEF I!Init, Irqs
  <1>2. << >> \in Seq(FrameSet) /\ << >> \in Seq(I!Assist) /\ Len(<< >>) = 0
    BY EmptySeq
  <1>3. \A t \in Worker : frames[t] = << >>
    BY <1>1
  <1>4. \A i \in Irqs : head[i] = << >>
    BY <1>1
  <1>5. SoftirqType
    BY <1>1, <1>2 DEF SoftirqType
  <1>6. EventsAwaited
    BY <1>1, <1>4 DEF EventsAwaited
  <1>7. \A a, i : i \in Irqs => ~ InHead(a, i)
    BY <1>2, <1>4 DEF InHead, Has
  <1>8. OnePosition
    BY <1>2, <1>3, <1>4, <1>7 DEF OnePosition, NoRepeat
  <1>9. BitExact
    <2>1. \A a \in High : status[a] = {}
      BY <1>1 DEF I!Assist
    <2> QED BY <2>1, <1>2, <1>3, <1>7 DEF BitExact
  <1> QED BY <1>5, <1>6, <1>8, <1>9 DEF SoftirqInv

\* A step of the machine.
LEMMA SoftirqStepInv == SoftirqInv /\ [I!Next]_(I!vars) => SoftirqInv'
  <1> SUFFICES ASSUME SoftirqInv, [I!Next]_(I!vars) PROVE SoftirqInv'
    OBVIOUS
  <1>1. ASSUME UNCHANGED <<evens, frames, current, head, status, due>> PROVE SoftirqInv'
    BY <1>1 DEF SoftirqInv, SoftirqType, EventsAwaited, Awaited, OnePosition, BitExact,
       InHead, InFrame
  <1>2. CASE UNCHANGED I!vars
    BY <1>1, <1>2 DEF I!vars
  <1>3. CASE I!Interrupt({}) \/ I!Interrupt({I!TIMER_SOFTIRQ, I!SCHED_SOFTIRQ})
    <2>1. {} \in SUBSET I!Softirqs /\ {I!TIMER_SOFTIRQ, I!SCHED_SOFTIRQ} \in SUBSET I!Softirqs
      BY DEF I!Softirqs
    <2> QED BY <1>3, <2>1, InterruptInv
  <1>4. CASE I!TimerAction
    <2>1. I!TIMER_SOFTIRQ \notin Irqs /\ current \in Worker
      BY DEF SoftirqInv, SoftirqType, Irqs, I!TIMER_SOFTIRQ, I!HIGHTASK_ASSIST_SOFTIRQ, I!TASK_ASSIST_SOFTIRQ
    <2> QED BY <1>4, <2>1, PlainActionInv DEF I!TimerAction
  <1>5. ASSUME NEW t \in Worker, I!SchedAction(t) PROVE SoftirqInv'
    <2>1. I!SCHED_SOFTIRQ \notin Irqs
      BY DEF Irqs, I!SCHED_SOFTIRQ, I!HIGHTASK_ASSIST_SOFTIRQ, I!TASK_ASSIST_SOFTIRQ
    <2> QED BY <1>5, <2>1, PlainActionInv DEF I!SchedAction
  <1>6. CASE \/ I!EndTurn \/ I!RunAssist \/ I!KeepAssist
             \/ \E irq \in DOMAIN head : I!AssistAction(irq)
    BY <1>6, EndTurnInv, RunAssistInv, KeepAssistInv, AssistActionInv
  <1>7. ASSUME NEW a \in I!Assist,
               I!Schedule(a) \/ I!task_assist_disable(a) \/ I!task_assist_enable(a)
        PROVE  SoftirqInv'
    BY <1>1, <1>7, ScheduleInv DEF I!task_assist_disable, I!task_assist_enable
  <1> QED BY <1>2, <1>3, <1>4, <1>5, <1>6, <1>7 DEF I!Next, I!Turn

\* The cardinality Softirq means is the one the library's theorems are about.
LEMMA SameCardinality == \A S : I!Cardinality(S) = Cardinality(S)
  BY DEF I!Cardinality, Cardinality

\* The sets the property counts have one element or none.
LEMMA PlacesCounted ==
    ASSUME SoftirqType, OnePosition, BitExact, NEW a \in High
    PROVE  I!Places(a) = IF I!TASK_ASSIST_SCHED \in status[a] THEN 1 ELSE 0
  <1> DEFINE A == {t \in Worker : \E k \in DOMAIN frames[t] : I!Contains(frames[t][k].list, a)}
             B == {i \in DOMAIN head : I!Contains(head[i], a)}
  <1>1. /\ \A t \in Worker : DOMAIN frames[t] = 1 .. Len(frames[t])
        /\ DOMAIN head = Irqs
    BY LenProperties DEF SoftirqType
  <1>2. A = {t \in Worker : \E k \in 1 .. Len(frames[t]) : InFrame(a, t, k)}
    BY <1>1 DEF I!Contains, InFrame, Has
  <1>3. B = {i \in Irqs : InHead(a, i)}
    BY <1>1 DEF I!Contains, InHead, Has
  <1>4. I!Places(a) = Cardinality(A) + Cardinality(B)
    BY SameCardinality DEF I!Places
  <1> HIDE DEF A, B
  <1>5. Cardinality({}) = 0 /\ \A x : Cardinality({x}) = 1
    BY FS_EmptySet, FS_Singleton
  <1>6. CASE \E i \in Irqs : InHead(a, i)
    <2>1. PICK i \in Irqs : InHead(a, i)
      BY <1>6
    <2>2. A = {} /\ B = {i}
      BY <2>1, <1>2, <1>3 DEF OnePosition
    <2>3. I!TASK_ASSIST_SCHED \in status[a]
      BY <2>1 DEF BitExact
    <2>4. I!Places(a) = 0 + 1
      BY <2>2, <1>4, <1>5
    <2> QED BY <2>3, <2>4
  <1>7. CASE \E t \in Worker : \E k \in 1 .. Len(frames[t]) : InFrame(a, t, k)
    <2>1. PICK t \in Worker : \E k \in 1 .. Len(frames[t]) : InFrame(a, t, k)
      BY <1>7
    <2>2. A = {t} /\ B = {}
      BY <2>1, <1>2, <1>3 DEF OnePosition
    <2>3. I!TASK_ASSIST_SCHED \in status[a]
      BY <2>1 DEF BitExact
    <2>4. I!Places(a) = 1 + 0
      BY <2>2, <1>4, <1>5
    <2> QED BY <2>3, <2>4
  <1>8. CASE /\ ~ \E i \in Irqs : InHead(a, i)
             /\ ~ \E t \in Worker : \E k \in 1 .. Len(frames[t]) : InFrame(a, t, k)
    <2>1. A = {} /\ B = {}
      BY <1>2, <1>3, <1>8
    <2> QED BY <2>1, <1>4, <1>5, <1>8 DEF BitExact
  <1> QED BY <1>6, <1>7, <1>8

\* do_softirq, handle_softirq and the task assists, whatever interrupts nest and
\* whatever tasks are switched in between: no event raised is lost, a high
\* assist is queued exactly while its bit is set, a list that is not empty has
\* its event raised.
THEOREM EventsKept == I!Spec => []NoEventLost
  <1>1. SoftirqInv => NoEventLost
    <2> SUFFICES ASSUME SoftirqInv PROVE I!NoEventLost
      BY DEF NoEventLost
    <2>1. SoftirqType /\ EventsAwaited /\ OnePosition /\ BitExact
      BY DEF SoftirqInv
    <2>2. \A t \in Worker : DOMAIN frames[t] = 1 .. Len(frames[t])
      BY <2>1, LenProperties DEF SoftirqType
    <2>3. DOMAIN head = Irqs
      BY <2>1 DEF SoftirqType
    <2>4. ASSUME NEW e, Awaited(e) PROVE e \in evens \cup I!Taken
      BY <2>2, <2>4 DEF Awaited, I!Taken, I!AllFrames, I!ToSet
    <2> QED BY <2>1, <2>3, <2>4, PlacesCounted DEF I!NoEventLost, EventsAwaited
  <1> QED BY <1>1, SoftirqInitInv, SoftirqStepInv, PTL DEF I!Spec

-----------------------------------------------------------------------------
(* Timers.                                                                 *)

AllTimers == Timer \cup {idle}
ClientStates == {"unused", "add", "del", "look"}

TimerType ==
    /\ list \in Seq(AllTimers)
    /\ timeout \in [AllTimers -> 0 .. Clocks - 1]
    /\ timeout[idle] = IdleTime
    /\ timer_ticks \in 0 .. Horizon
    /\ client \in [Timer -> ClientStates]
    /\ remaining \in [Timer -> Nat]
    /\ stale \in BOOLEAN

\* The time point of a timer whose delay is not over lies at least as far ahead,
\* linked or not.
NotBefore == \A x \in Timer : remaining[x] > 0 => timeout[x] >= timer_ticks + remaining[x]

Distinct(s) == \A i, j \in 1 .. Len(s) : s[i] = s[j] => i = j

ListKept ==
    /\ Distinct(list)
    /\ \A x \in Timer : client[x] = "add" => ~ Has(list, x)
    /\ Has(list, idle)

TimerInv == TimerType /\ NotBefore /\ ListKept /\ T!MinimIsFirst

\* Every set of natural numbers that is not empty has a least element.
LEMMA LeastNat ==
    ASSUME NEW S, S \subseteq Nat, S # {} PROVE \E n \in S : \A m \in S : n <= m
  <1>1. PICK n \in S : \A m \in S : ~ (<<m, n>> \in OpToRel(<, Nat))
    BY NatLessThanWellFounded, WFMin
  <1>2. \A m \in S : ~ (m < n)
    BY <1>1 DEF OpToRel
  <1> QED BY <1>2

\* What Due says of the number it chooses.
LEMMA DueProperties ==
    ASSUME NEW S, NEW l \in Seq(S), NEW tmo \in [S -> Int], NEW now \in Int
    PROVE  LET k == T!DueNow(l, tmo, now)
           IN  /\ k \in 0 .. Len(l)
               /\ \A i \in 1 .. k : tmo[l[i]] <= now
               /\ k < Len(l) => tmo[l[k + 1]] > now
  <1> DEFINE k == T!DueNow(l, tmo, now)
             Late == {i \in Nat : i \in 1 .. Len(l) /\ tmo[l[i]] > now}
             P(j) == /\ \A i \in 1 .. j : tmo[l[i]] <= now
                     /\ j < Len(l) => tmo[l[j + 1]] > now
  <1>1. Len(l) \in Nat /\ \A i \in 1 .. Len(l) : tmo[l[i]] \in Int
    OBVIOUS
  <1>2. \E j \in 0 .. Len(l) : P(j)
    <2>1. CASE Late = {}
      <3>1. \A i \in 1 .. Len(l) : tmo[l[i]] <= now
        BY <2>1, <1>1
      <3> WITNESS Len(l) \in 0 .. Len(l)
      <3> QED BY <3>1, <1>1
    <2>2. CASE Late # {}
      <3>1. PICK n \in Late : \A m \in Late : n <= m
        BY <2>2, LeastNat
      <3>2. n \in 1 .. Len(l) /\ tmo[l[n]] > now
        BY <3>1
      <3>3. \A i \in 1 .. n - 1 : tmo[l[i]] <= now
        BY <3>1, <3>2, <1>1
      <3> WITNESS n - 1 \in 0 .. Len(l)
      <3> QED BY <3>2, <3>3, <1>1
    <2> QED BY <2>1, <2>2
  <1>3. k = CHOOSE j \in 0 .. Len(l) : P(j)
    BY DEF T!DueNow, T!Due
  <1> HIDE DEF P, k
  <1>4. k \in 0 .. Len(l) /\ P(k)
    BY <1>2, <1>3
  <1> QED BY <1>4 DEF P, k

\* Remainders, for the time points that are moved back.
LEMMA Remainder ==
    ASSUME NEW c \in Nat \ {0}, NEW a \in Int
    PROVE  a % c \in 0 .. c - 1 /\ (a \in 0 .. c - 1 => a % c = a)
  OBVIOUS

\* The first element.
LEMMA HeadIsFirst ==
    ASSUME NEW S, NEW s \in Seq(S), Len(s) # 0 PROVE s # << >> /\ Head(s) = s[1]
  OBVIOUS

\* The end of a sequence.
LEMMA SuffixProperties ==
    ASSUME NEW S, NEW s \in Seq(S), NEW k \in 0 .. Len(s)
    PROVE  LET r == SubSeq(s, k + 1, Len(s))
           IN  /\ r \in Seq(S) /\ Len(r) = Len(s) - k
               /\ \A y : Has(r, y) <=> \E i \in k + 1 .. Len(s) : s[i] = y
               /\ Distinct(s) => Distinct(r)
               /\ k < Len(s) => r # << >> /\ Head(r) = s[k + 1]
  <1> DEFINE r == SubSeq(s, k + 1, Len(s))
  <1>1. Len(s) \in Nat /\ \A i \in k + 1 .. Len(s) : s[i] \in S
    OBVIOUS
  <1>2. /\ r \in Seq(S) /\ Len(r) = Len(s) - k
        /\ \A i \in 1 .. Len(s) - k : r[i] = s[k + i]
    <2>1. k + 1 \in Int /\ Len(s) \in Int
      BY <1>1
    <2>2. /\ r \in Seq(S)
          /\ Len(r) = IF k + 1 <= Len(s) THEN Len(s) - (k + 1) + 1 ELSE 0
          /\ \A i \in 1 .. Len(s) - (k + 1) + 1 : r[i] = s[(k + 1) + i - 1]
      BY <1>1, <2>1, SubSeqProperties
    <2> HIDE DEF r
    <2> QED BY <1>1, <2>2
  <1> HIDE DEF r
  <1>3. ASSUME NEW y, NEW i \in k + 1 .. Len(s), s[i] = y PROVE Has(r, y)
    <2>1. i - k \in 1 .. Len(r) /\ r[i - k] = s[i]
      BY <1>1, <1>2
    <2> QED BY <1>3, <2>1 DEF Has
  <1>4. ASSUME NEW y, Has(r, y) PROVE \E i \in k + 1 .. Len(s) : s[i] = y
    <2>1. PICK j \in 1 .. Len(r) : r[j] = y
      BY <1>4 DEF Has
    <2>2. k + j \in k + 1 .. Len(s) /\ s[k + j] = y
      BY <1>1, <1>2, <2>1
    <2> QED BY <2>2
  <1>5. Distinct(s) => Distinct(r)
    <2> SUFFICES ASSUME Distinct(s), NEW i \in 1 .. Len(r), NEW j \in 1 .. Len(r), r[i] = r[j]
                 PROVE  i = j
      BY DEF Distinct
    <2>1. k + i \in 1 .. Len(s) /\ k + j \in 1 .. Len(s) /\ s[k + i] = s[k + j]
      BY <1>1, <1>2
    <2>2. k + i = k + j
      BY <2>1 DEF Distinct
    <2> QED BY <2>2
  <1>6. k < Len(s) => r # << >> /\ Head(r) = s[k + 1]
    <2> SUFFICES ASSUME k < Len(s) PROVE r # << >> /\ Head(r) = s[k + 1]
      OBVIOUS
    <2>1. Len(r) # 0 /\ r[1] = s[k + 1]
      BY <1>1, <1>2
    <2>2. r \in Seq(S)
      BY <1>2
    <2> QED BY <2>1, <2>2, HeadIsFirst
  <1> QED BY <1>2, <1>3, <1>4, <1>5, <1>6 DEF r

\* One element fewer.
LEMMA RemoveProperties ==
    ASSUME NEW S, NEW s \in Seq(S), Distinct(s), NEW p \in 1 .. Len(s)
    PROVE  LET r == T!RemoveAt(s, p)
           IN  /\ r \in Seq(S) /\ Distinct(r)
               /\ \A y : Has(r, y) <=> Has(s, y) /\ y # s[p]
               /\ p > 1 => Head(r) = Head(s)
  <1> DEFINE r == T!RemoveAt(s, p)
  <1> DEFINE a == SubSeq(s, 1, p - 1)
             b == SubSeq(s, p + 1, Len(s))
  <1>1. Len(s) \in Nat /\ \A i \in 1 .. Len(s) : s[i] \in S
    OBVIOUS
  <1>2. a \in Seq(S) /\ Len(a) = p - 1 /\ \A i \in 1 .. p - 1 : a[i] = s[i]
    <2>1. 1 \in Int /\ p - 1 \in Int /\ \A i \in 1 .. p - 1 : s[i] \in S
      BY <1>1
    <2>2. /\ a \in Seq(S)
          /\ Len(a) = IF 1 <= p - 1 THEN (p - 1) - 1 + 1 ELSE 0
          /\ \A i \in 1 .. (p - 1) - 1 + 1 : a[i] = s[1 + i - 1]
      BY <2>1, SubSeqProperties
    <2> HIDE DEF a
    <2> QED BY <1>1, <2>2
  <1>3. b \in Seq(S) /\ Len(b) = Len(s) - p /\ \A i \in 1 .. Len(s) - p : b[i] = s[p + i]
    <2>1. p + 1 \in Int /\ Len(s) \in Int /\ \A i \in p + 1 .. Len(s) : s[i] \in S
      BY <1>1
    <2>2. /\ b \in Seq(S)
          /\ Len(b) = IF p + 1 <= Len(s) THEN Len(s) - (p + 1) + 1 ELSE 0
          /\ \A i \in 1 .. Len(s) - (p + 1) + 1 : b[i] = s[(p + 1) + i - 1]
      BY <2>1, SubSeqProperties
    <2>3. /\ (p + 1 <= Len(s) /\ Len(s) - (p + 1) + 1 = Len(s) - p) \/ (p = Len(s) /\ Len(s) - p = 0)
          /\ \A i \in 1 .. Len(s) - p : /\ i \in 1 .. Len(s) - (p + 1) + 1
                                         /\ (p + 1) + i - 1 = p + i
      BY <1>1
    <2> HIDE DEF b
    <2>4. Len(b) = Len(s) - p
      BY <1>1, <2>2, <2>3
    <2>5. \A i \in 1 .. Len(s) - p : b[i] = s[p + i]
      BY <2>2, <2>3
    <2> QED BY <2>2, <2>4, <2>5
  <1> HIDE DEF a, b
  <1>4. r = a \o b
    BY DEF T!RemoveAt, a, b
  <1> HIDE DEF r
  <1>5. /\ r \in Seq(S) /\ Len(r) = Len(a) + Len(b)
        /\ \A i \in 1 .. Len(a) + Len(b) : r[i] = IF i <= Len(a) THEN a[i] ELSE b[i - Len(a)]
    <2>1. a \in Seq(S) /\ b \in Seq(S)
      BY <1>2, <1>3
    <2>2. /\ a \o b \in Seq(S) /\ Len(a \o b) = Len(a) + Len(b)
          /\ \A i \in 1 .. Len(a) + Len(b) :
                (a \o b)[i] = IF i <= Len(a) THEN a[i] ELSE b[i - Len(a)]
      BY <2>1, ConcatProperties
    <2> QED BY <2>2, <1>4
  <1>6. /\ Len(r) = Len(s) - 1
        /\ \A i \in 1 .. Len(s) - 1 : r[i] = IF i < p THEN s[i] ELSE s[i + 1]
    <2>1. Len(r) = Len(s) - 1 /\ Len(a) = p - 1 /\ Len(b) = Len(s) - p
      BY <1>1, <1>2, <1>3, <1>5
    <2>2. ASSUME NEW i \in 1 .. Len(s) - 1 PROVE r[i] = IF i < p THEN s[i] ELSE s[i + 1]
      <3>1. CASE i < p
        <4>1. i \in 1 .. p - 1 /\ i \in 1 .. Len(a) + Len(b) /\ i <= Len(a)
          BY <3>1, <2>1, <1>1
        <4>2. r[i] = a[i] /\ a[i] = s[i]
          BY <4>1, <1>2, <1>5
        <4> QED BY <4>2, <3>1
      <3>2. CASE ~ (i < p)
        <4>1. r[i] = b[i - (p - 1)]
          <5>1. i \in 1 .. Len(a) + Len(b) /\ ~ (i <= Len(a)) /\ i - Len(a) = i - (p - 1)
            BY <3>2, <2>1, <1>1
          <5> QED BY <5>1, <1>5
        <4>2. i - (p - 1) \in 1 .. Len(s) - p /\ p + (i - (p - 1)) = i + 1
          BY <3>2, <1>1
        <4>3. b[i - (p - 1)] = s[p + (i - (p - 1))]
          BY <4>2, <1>3
        <4> QED BY <4>1, <4>2, <4>3, <3>2
      <3> QED BY <3>1, <3>2
    <2> QED BY <2>1, <2>2
  <1>7. Distinct(r)
    <2> SUFFICES ASSUME NEW i \in 1 .. Len(r), NEW j \in 1 .. Len(r), r[i] = r[j] PROVE i = j
      BY DEF Distinct
    <2> DEFINE at(n) == IF n < p THEN n ELSE n + 1
    <2>1. /\ at(i) \in 1 .. Len(s) /\ at(j) \in 1 .. Len(s) /\ s[at(i)] = s[at(j)]
      BY <1>1, <1>6
    <2>2. at(i) = at(j)
      <3> HIDE DEF at
      <3> QED BY <2>1 DEF Distinct
    <2> QED BY <2>2, <1>6
  <1>8. ASSUME NEW y, Has(r, y) PROVE Has(s, y) /\ y # s[p]
    <2>1. PICK i \in 1 .. Len(r) : r[i] = y
      BY <1>8 DEF Has
    <2>2. PICK j \in 1 .. Len(s) : j # p /\ s[j] = y
      <3>1. CASE i < p
        BY <3>1, <2>1, <1>1, <1>6
      <3>2. CASE ~ (i < p)
        <4>1. i + 1 \in 1 .. Len(s) /\ i + 1 # p /\ s[i + 1] = y
          BY <3>2, <2>1, <1>1, <1>6
        <4> QED BY <4>1
      <3> QED BY <3>1, <3>2
    <2> QED BY <2>2 DEF Has, Distinct
  <1>9. ASSUME NEW y, Has(s, y), y # s[p] PROVE Has(r, y)
    <2>1. PICK j \in 1 .. Len(s) : s[j] = y
      BY <1>9 DEF Has
    <2>2. CASE j < p
      BY <2>1, <2>2, <1>1, <1>6 DEF Has
    <2>3. CASE j > p
      <3>1. j - 1 \in 1 .. Len(r) /\ r[j - 1] = y
        BY <2>1, <2>3, <1>1, <1>6
      <3> QED BY <3>1 DEF Has
    <2> QED BY <2>1, <2>2, <2>3, <1>9
  <1>10. p > 1 => Head(r) = Head(s)
    BY <1>1, <1>5, <1>6
  <1> QED BY <1>5, <1>7, <1>8, <1>9, <1>10 DEF r

\* One element more, at the front.
LEMMA ConsProperties ==
    ASSUME NEW S, NEW s \in Seq(S), NEW x \in S
    PROVE  LET r == <<x>> \o s
           IN  /\ r \in Seq(S) /\ Len(r) = Len(s) + 1 /\ r # << >> /\ Head(r) = x
               /\ r[1] = x /\ \A i \in 1 .. Len(s) : r[i + 1] = s[i]
               /\ \A y : Has(r, y) <=> y = x \/ Has(s, y)
               /\ Distinct(s) /\ ~ Has(s, x) => Distinct(r)
  <1> DEFINE r == <<x>> \o s
  <1>1. <<x>> \in Seq(S) /\ Len(<<x>>) = 1 /\ <<x>>[1] = x /\ Len(s) \in Nat
    OBVIOUS
  <1>2. /\ r \in Seq(S) /\ Len(r) = 1 + Len(s)
        /\ \A i \in 1 .. 1 + Len(s) : r[i] = IF i <= 1 THEN <<x>>[i] ELSE s[i - 1]
    BY <1>1, ConcatProperties
  <1> HIDE DEF r
  <1>3. /\ 1 \in 1 .. Len(r) /\ r[1] = x
        /\ \A i \in 1 .. Len(s) : i + 1 \in 1 .. Len(r) /\ r[i + 1] = s[i]
        /\ \A i \in 1 .. Len(r) : i = 1 \/ (i - 1 \in 1 .. Len(s) /\ r[i] = s[i - 1])
    BY <1>1, <1>2
  <1>4. \A y : Has(r, y) <=> y = x \/ Has(s, y)
    <2>1. ASSUME NEW y, Has(r, y) PROVE y = x \/ Has(s, y)
      BY ONLY <1>3, <2>1 DEF Has
    <2>2. ASSUME NEW y, Has(s, y) PROVE Has(r, y)
      BY ONLY <1>3, <2>2 DEF Has
    <2>3. Has(r, x)
      BY ONLY <1>3 DEF Has
    <2> QED BY <2>1, <2>2, <2>3
  <1>5. Distinct(s) /\ ~ Has(s, x) => Distinct(r)
    <2> SUFFICES ASSUME Distinct(s), ~ Has(s, x),
                        NEW i \in 1 .. Len(r), NEW j \in 1 .. Len(r), r[i] = r[j]
                 PROVE  i = j
      BY DEF Distinct
    <2>1. CASE i = 1 \/ j = 1
      BY <2>1, <1>3 DEF Has
    <2>2. CASE i # 1 /\ j # 1
      <3>1. i - 1 = j - 1
        BY <2>2, <1>3 DEF Distinct
      <3> QED BY <3>1
    <2> QED BY <2>1, <2>2
  <1>6. r # << >> /\ Head(r) = x
    BY <1>2, <1>3
  <1> QED BY <1>1, <1>2, <1>3, <1>4, <1>5, <1>6 DEF r

\* What Insert does, for timer_add of a client and of the idle timer.
LEMMA InsertProperties ==
    ASSUME NEW S, NEW l \in Seq(S), NEW x \in S, NEW tmo
    PROVE  LET r == T!Insert(x, l, tmo)
           IN  /\ r \in Seq(S) /\ r # << >>
               /\ \A y : Has(r, y) <=> y = x \/ Has(l, y)
               /\ Distinct(l) /\ ~ Has(l, x) => Distinct(r)
               /\ Head(r) = IF l = << >> \/ tmo[x] < tmo[Head(l)] THEN x ELSE Head(l)
               /\ ~ Has(l, x) /\ Head(r) = x => r = <<x>> \o l
               /\ Head(r) # x => Len(r) >= 2 /\ r[2] = x
  <1> DEFINE r == T!Insert(x, l, tmo)
  <1> HIDE DEF r
  <1>1. CASE l = << >> \/ tmo[x] < tmo[Head(l)]
    <2>1. r = <<x>> \o l
      BY <1>1 DEF r, T!Insert
    <2>2. /\ r \in Seq(S) /\ r # << >> /\ Head(r) = x
          /\ \A y : Has(r, y) <=> y = x \/ Has(l, y)
          /\ Distinct(l) /\ ~ Has(l, x) => Distinct(r)
      BY <2>1, ConsProperties
    <2> QED BY <1>1, <2>1, <2>2 DEF r
  <1>2. CASE ~ (l = << >> \/ tmo[x] < tmo[Head(l)])
    <2> DEFINE t == Tail(l)
               u == <<x>> \o t
               h == Head(l)
    <2>1. h \in S /\ t \in Seq(S) /\ l = <<h>> \o t /\ Has(l, h)
      <3>1. h \in S /\ t \in Seq(S) /\ Len(l) \in Nat \ {0} /\ h = l[1]
        BY <1>2, HeadTailProperties, EmptySeq
      <3>2. l = <<h>> \o t
        BY <1>2
      <3> QED BY <3>1, <3>2 DEF Has
    <2>2. r = <<h>> \o u
      <3>1. r = <<h, x>> \o t
        BY <1>2 DEF r, T!Insert
      <3>2. <<h, x>> = <<h>> \o <<x>> /\ <<h>> \in Seq(S) /\ <<x>> \in Seq(S)
        BY <2>1
      <3>3. (<<h>> \o <<x>>) \o t = <<h>> \o (<<x>> \o t)
        BY <3>2, <2>1, ConcatAssociative
      <3> QED BY <3>1, <3>2, <3>3
    <2> HIDE DEF t, u, h
    <2>3. /\ \A y : Has(l, y) <=> y = h \/ Has(t, y)
          /\ Len(t) \in Nat
      BY <2>1, ConsProperties
    <2>4. /\ u \in Seq(S) /\ Len(u) = Len(t) + 1 /\ u[1] = x
          /\ \A y : Has(u, y) <=> y = x \/ Has(t, y)
          /\ Distinct(t) /\ ~ Has(t, x) => Distinct(u)
      BY <2>1, ConsProperties DEF u
    <2>5. /\ r \in Seq(S) /\ Len(r) = Len(u) + 1 /\ r # << >> /\ Head(r) = h
          /\ \A i \in 1 .. Len(u) : r[i + 1] = u[i]
          /\ \A y : Has(r, y) <=> y = h \/ Has(u, y)
          /\ Distinct(u) /\ ~ Has(u, h) => Distinct(r)
      <3> DEFINE g == <<h>> \o u
      <3>1. /\ g \in Seq(S) /\ Len(g) = Len(u) + 1 /\ g # << >> /\ Head(g) = h
            /\ \A i \in 1 .. Len(u) : g[i + 1] = u[i]
            /\ \A y : Has(g, y) <=> y = h \/ Has(u, y)
            /\ Distinct(u) /\ ~ Has(u, h) => Distinct(g)
        BY <2>1, <2>4, ConsProperties
      <3>2. r = g
        BY <2>2
      <3> HIDE DEF g
      <3> QED BY <3>1, <3>2
    <2>6. Distinct(l) => Distinct(t) /\ ~ Has(t, h)
      <3> SUFFICES ASSUME Distinct(l) PROVE Distinct(t) /\ ~ Has(t, h)
        OBVIOUS
      <3>1. /\ Len(l) = Len(t) + 1 /\ l[1] = h
            /\ \A i \in 1 .. Len(t) : l[i + 1] = t[i]
        BY <2>1, ConsProperties
      <3>2. \A i \in 1 .. Len(t) : i + 1 \in 1 .. Len(l) /\ i + 1 # 1 /\ 1 \in 1 .. Len(l)
        BY <3>1, <2>3
      <3>3. ~ Has(t, h)
        BY <3>1, <3>2 DEF Has, Distinct
      <3>4. ASSUME NEW i \in 1 .. Len(t), NEW j \in 1 .. Len(t), t[i] = t[j] PROVE i = j
        <4>1. i + 1 = j + 1
          BY <3>1, <3>2, <3>4 DEF Distinct
        <4> QED BY <4>1
      <3> QED BY <3>3, <3>4 DEF Distinct
    <2>7. Distinct(l) /\ ~ Has(l, x) => Distinct(r)
      BY <2>1, <2>3, <2>4, <2>5, <2>6
    <2>8. Len(r) >= 2 /\ r[2] = x
      <3>1. 1 \in 1 .. Len(u) /\ r[1 + 1] = u[1]
        BY <2>3, <2>4, <2>5
      <3> QED BY <3>1, <2>3, <2>4, <2>5
    <2>9. ~ Has(l, x) => Head(r) # x
      BY <2>1, <2>5
    <2>10. \A y : Has(r, y) <=> y = x \/ Has(l, y)
      BY <2>3, <2>4, <2>5
    <2> QED BY <1>2, <2>5, <2>7, <2>8, <2>9, <2>10 DEF h, r
  <1> QED BY <1>1, <1>2

\* What the constants are.
LEMMA TimerFacts ==
    /\ idle \notin Timer
    /\ IdleTime \in Nat \ {0} /\ Horizon \in Nat /\ IdleTime <= Horizon /\ Horizon < 2 * IdleTime
    /\ Clocks \in Nat \ {0} /\ IdleTime < Clocks
    /\ \A n \in Delays : n \in Nat \ {0} /\ \A t \in 0 .. Horizon : t + n \in 0 .. Clocks - 1
  <1>1. /\ idle \notin Timer /\ IdleTime \in Nat \ {0} /\ Clocks \in Nat
        /\ Horizon \in IdleTime .. 2 * IdleTime - 1
        /\ Delays \subseteq Nat \ {0} /\ Delays # {} /\ \A n \in Delays : Horizon + n < Clocks
    BY TimeAssumption DEF T!TimerConstants
  <1>2. Horizon \in Nat /\ IdleTime <= Horizon /\ Horizon < 2 * IdleTime
    BY <1>1
  <1>3. PICK n \in Delays : n \in Nat \ {0} /\ Horizon + n < Clocks
    BY <1>1
  <1>4. Clocks \in Nat \ {0} /\ IdleTime < Clocks
    BY <1>1, <1>2, <1>3
  <1>5. \A m \in Delays : m \in Nat \ {0} /\ \A t \in 0 .. Horizon : t + m \in 0 .. Clocks - 1
    BY <1>1, <1>2
  <1> QED BY <1>1, <1>2, <1>4, <1>5

\* There is a first timer, and it is linked.
LEMMA FirstTimer ==
    ASSUME TimerInv
    PROVE  /\ list # << >> /\ Head(list) \in AllTimers /\ Has(list, Head(list))
           /\ \A x : T!Linked(x) <=> Has(list, x)
  <1>1. list \in Seq(AllTimers) /\ list # << >> /\ Len(list) \in Nat \ {0}
    BY DEF TimerInv, TimerType, ListKept, Has
  <1>2. Head(list) \in AllTimers /\ Head(list) = list[1]
    BY <1>1
  <1> QED BY <1>1, <1>2 DEF Has, T!Linked

\* timer_init and timer_mod: a new time point.
LEMMA NewTimeInv ==
    ASSUME TimerInv, NEW x \in Timer, NEW n \in Delays, T!timer_init(x, n) \/ T!timer_mod(x, n)
    PROVE  TimerInv'
  <1>1. /\ timeout' = [timeout EXCEPT ![x] = timer_ticks + n]
        /\ remaining' = [remaining EXCEPT ![x] = n]
        /\ \/ ~ T!Linked(x) /\ client' = [client EXCEPT ![x] = "add"] /\ stale' = stale
           \/ client' = [client EXCEPT ![x] = "look"] /\ stale' = (stale \/ Head(list) = x)
        /\ UNCHANGED <<list, minim, timer_ticks>>
    BY DEF T!timer_init, T!timer_mod
  <1>2. TimerType /\ NotBefore /\ ListKept /\ T!MinimIsFirst
    BY DEF TimerInv
  <1>3. /\ x \in AllTimers /\ x # idle /\ n \in Nat /\ timer_ticks \in Nat
        /\ timer_ticks + n \in 0 .. Clocks - 1
    BY <1>2, TimerFacts DEF AllTimers, TimerType
  <1>4. /\ timeout' \in [AllTimers -> 0 .. Clocks - 1] /\ timeout'[x] = timer_ticks + n
        /\ \A y \in AllTimers : y # x => timeout'[y] = timeout[y]
        /\ remaining' \in [Timer -> Nat] /\ remaining'[x] = n
        /\ \A y \in Timer : y # x => remaining'[y] = remaining[y]
    BY <1>1, <1>2, <1>3 DEF TimerType
  <1>5. TimerType'
    <2>1. timeout'[idle] = IdleTime
      BY <1>2, <1>3, <1>4 DEF TimerType, AllTimers
    <2>2. client' \in [Timer -> ClientStates]
      BY <1>1, <1>2 DEF TimerType, ClientStates
    <2>3. stale' \in BOOLEAN
      BY <1>1, <1>2 DEF TimerType
    <2> QED BY <2>1, <2>2, <2>3, <1>1, <1>2, <1>4 DEF TimerType
  <1>6. NotBefore'
    BY <1>1, <1>2, <1>3, <1>4 DEF NotBefore, AllTimers
  <1>7. ListKept'
    <2>1. ASSUME NEW y \in Timer, client'[y] = "add" PROVE ~ Has(list, y)
      <3>1. \A z : T!Linked(z) <=> Has(list, z)
        BY FirstTimer
      <3>2. CASE y = x
        BY <2>1, <3>1, <3>2, <1>1, <1>2 DEF TimerType
      <3>3. CASE y # x
        BY <2>1, <3>3, <1>1, <1>2 DEF ListKept, TimerType
      <3> QED BY <3>2, <3>3
    <2> QED BY <2>1, <1>1, <1>2 DEF ListKept
  <1>8. T!MinimIsFirst'
    <2> SUFFICES ASSUME ~ stale' PROVE minim = timeout'[Head(list)]
      BY <1>1 DEF T!MinimIsFirst
    <2>1. /\ Head(list) \in AllTimers /\ Has(list, Head(list))
          /\ T!Linked(x) <=> Has(list, x)
      BY FirstTimer
    <2>2. CASE ~ T!Linked(x) /\ stale' = stale
      <3>1. ~ stale /\ Head(list) # x
        BY <2>1, <2>2
      <3> QED BY <3>1, <2>1, <1>2, <1>4 DEF T!MinimIsFirst
    <2>3. CASE stale' = (stale \/ Head(list) = x)
      <3>1. ~ stale /\ Head(list) # x
        BY <2>3
      <3> QED BY <3>1, <2>1, <1>2, <1>4 DEF T!MinimIsFirst
    <2> QED BY <2>2, <2>3, <1>1
  <1> QED BY <1>5, <1>6, <1>7, <1>8 DEF TimerInv

\* CancelAlive, LookAlive and a tick change neither the list nor a time point.
LEMMA LookInv ==
    ASSUME TimerInv, NEW x \in Timer, T!CancelAlive(x) \/ T!LookAlive(x) PROVE TimerInv'
  <1>1. /\ client' \in [Timer -> ClientStates]
        /\ \A y \in Timer : client'[y] = "add" => client[y] = "add" \/ ~ Has(list, y)
        /\ UNCHANGED <<list, timeout, minim, timer_ticks, remaining, stale>>
    BY FirstTimer DEF T!CancelAlive, T!LookAlive, TimerInv, TimerType, ClientStates
  <1> QED BY <1>1 DEF TimerInv, TimerType, NotBefore, ListKept, T!MinimIsFirst

\* A tick of the clock interrupt.
LEMMA ClockInv == ASSUME TimerInv, T!clock_handler PROVE TimerInv'
  <1>1. /\ timer_ticks \in 0 .. Horizon - 1 /\ timer_ticks' = timer_ticks + 1
        /\ remaining' = [x \in Timer |-> IF remaining[x] > 0 THEN remaining[x] - 1 ELSE 0]
        /\ UNCHANGED <<list, timeout, minim, client, stale>>
    BY TimerFacts DEF T!clock_handler, TimerInv, TimerType
  <1>2. timer_ticks' \in 0 .. Horizon
    BY <1>1, TimerFacts
  <1>3. remaining' \in [Timer -> Nat]
    BY <1>1 DEF TimerInv, TimerType
  <1>4. TimerType'
    BY <1>1, <1>2, <1>3 DEF TimerInv, TimerType
  <1>5. NotBefore'
    <2> SUFFICES ASSUME NEW x \in Timer, remaining'[x] > 0
                 PROVE  timeout[x] >= (timer_ticks + 1) + remaining'[x]
      BY <1>1 DEF NotBefore
    <2>1. /\ remaining[x] \in Nat /\ timeout[x] \in Int /\ timer_ticks \in Int
          /\ remaining[x] > 0 => timeout[x] >= timer_ticks + remaining[x]
      BY <1>1 DEF TimerInv, TimerType, NotBefore, AllTimers
    <2>2. remaining'[x] = IF remaining[x] > 0 THEN remaining[x] - 1 ELSE 0
      BY <1>1
    <2> QED BY <2>1, <2>2
  <1>6. ListKept' /\ T!MinimIsFirst'
    BY <1>1 DEF TimerInv, ListKept, T!MinimIsFirst
  <1> QED BY <1>4, <1>5, <1>6 DEF TimerInv

\* timer_add: the timer was not linked.
LEMMA AddInv == ASSUME TimerInv, NEW x \in Timer, T!timer_add(x) PROVE TimerInv'
  <1> DEFINE r == T!Insert(x, list, timeout)
  <1>1. /\ client[x] = "add" /\ list' = r
        /\ minim' = IF timeout[x] < timeout[Head(list)] THEN timeout[x] ELSE minim
        /\ client' = [client EXCEPT ![x] = "unused"]
        /\ stale' = (stale /\ minim' = minim)
        /\ UNCHANGED <<timeout, timer_ticks, remaining>>
    BY DEF T!timer_add
  <1>2. TimerType /\ NotBefore /\ ListKept /\ T!MinimIsFirst
    BY DEF TimerInv
  <1>3. list \in Seq(AllTimers) /\ x \in AllTimers /\ ~ Has(list, x) /\ x # idle
    BY <1>1, <1>2, TimerFacts DEF TimerType, ListKept, AllTimers
  <1>4. /\ r \in Seq(AllTimers) /\ r # << >>
        /\ \A y : Has(r, y) <=> y = x \/ Has(list, y)
        /\ Distinct(list) => Distinct(r)
        /\ Head(r) = IF list = << >> \/ timeout[x] < timeout[Head(list)] THEN x ELSE Head(list)
    <2>1. /\ r \in Seq(AllTimers) /\ r # << >>
          /\ \A y : Has(r, y) <=> y = x \/ Has(list, y)
          /\ Distinct(list) /\ ~ Has(list, x) => Distinct(r)
          /\ Head(r) = IF list = << >> \/ timeout[x] < timeout[Head(list)] THEN x ELSE Head(list)
          /\ ~ Has(list, x) /\ Head(r) = x => r = <<x>> \o list
          /\ Head(r) # x => Len(r) >= 2 /\ r[2] = x
      BY <1>3, InsertProperties
    <2> QED BY <2>1, <1>3
  <1> HIDE DEF r
  <1>5. TimerType'
    <2>1. client' \in [Timer -> ClientStates] /\ stale' \in BOOLEAN
      BY <1>1, <1>2 DEF TimerType, ClientStates
    <2> QED BY <2>1, <1>1, <1>2, <1>4 DEF TimerType
  <1>6. NotBefore'
    BY <1>1, <1>2 DEF NotBefore
  <1>7. ListKept'
    <2>1. ASSUME NEW y \in Timer, client'[y] = "add" PROVE ~ Has(r, y)
      BY <2>1, <1>1, <1>2, <1>4 DEF ListKept, TimerType
    <2> QED BY <2>1, <1>1, <1>2, <1>4 DEF ListKept
  <1>8. T!MinimIsFirst'
    <2>1. list # << >>
      BY FirstTimer
    <2>2. CASE timeout[x] < timeout[Head(list)]
      BY <2>2, <1>1, <1>4 DEF T!MinimIsFirst
    <2>3. CASE ~ (timeout[x] < timeout[Head(list)])
      BY <2>1, <2>3, <1>1, <1>2, <1>4 DEF T!MinimIsFirst
    <2> QED BY <2>2, <2>3
  <1> QED BY <1>5, <1>6, <1>7, <1>8 DEF TimerInv

\* timer_del of a linked timer; of another one it stops the kernel.
LEMMA DelInv == ASSUME TimerInv, NEW x \in Timer, T!timer_del(x) PROVE TimerInv'
  <1>1. /\ list' = IF T!Linked(x) THEN T!Unlinked(x) ELSE list
        /\ client' = [client EXCEPT ![x] = "unused"]
        /\ stale' = (stale \/ Head(list) = x)
        /\ UNCHANGED <<timeout, minim, timer_ticks, remaining>>
    BY DEF T!timer_del
  <1>2. TimerType /\ NotBefore /\ ListKept /\ T!MinimIsFirst
    BY DEF TimerInv
  <1>3. /\ list \in Seq(AllTimers) /\ list # << >> /\ Distinct(list) /\ x # idle
        /\ T!Linked(x) <=> Has(list, x)
    BY <1>2, FirstTimer, TimerFacts DEF TimerType, ListKept
  <1>4. /\ list' \in Seq(AllTimers) /\ Distinct(list')
        /\ \A y : Has(list', y) => Has(list, y)
        /\ Has(list, idle) => Has(list', idle)
        /\ Head(list) # x => Head(list') = Head(list)
    <2>1. CASE ~ T!Linked(x)
      <3>1. list' = list
        BY <1>1, <2>1
      <3> QED BY <1>3, <3>1
    <2>2. CASE T!Linked(x)
      <3> DEFINE p == CHOOSE i \in 1 .. Len(list) : list[i] = x
      <3>1. \E i \in 1 .. Len(list) : list[i] = x
        BY <2>2 DEF T!Linked
      <3>2. p \in 1 .. Len(list) /\ list[p] = x
        BY <3>1
      <3>3. list' = T!RemoveAt(list, p)
        BY <1>1, <2>2 DEF T!Unlinked
      <3> HIDE DEF p
      <3> DEFINE r == T!RemoveAt(list, p)
      <3>4. /\ r \in Seq(AllTimers) /\ Distinct(r)
            /\ \A y : Has(r, y) <=> Has(list, y) /\ y # list[p]
            /\ p > 1 => Head(r) = Head(list)
        BY <1>3, <3>2, RemoveProperties
      <3> HIDE DEF r
      <3>5. list' = r
        BY <3>3 DEF r
      <3>6. Head(list) # x => p > 1
        <4>1. Head(list) = list[1] /\ Len(list) \in Nat
          BY <1>3
        <4> QED BY <4>1, <3>2
      <3> QED BY <1>3, <3>2, <3>4, <3>5, <3>6
    <2> QED BY <2>1, <2>2
  <1>5. TimerType'
    <2>1. client' \in [Timer -> ClientStates] /\ stale' \in BOOLEAN
      BY <1>1, <1>2 DEF TimerType, ClientStates
    <2> QED BY <2>1, <1>1, <1>2, <1>4 DEF TimerType
  <1>6. NotBefore'
    BY <1>1, <1>2 DEF NotBefore
  <1>7. ListKept'
    <2>1. ASSUME NEW y \in Timer, client'[y] = "add" PROVE ~ Has(list', y)
      BY <2>1, <1>1, <1>2, <1>4 DEF ListKept, TimerType
    <2> QED BY <2>1, <1>2, <1>4 DEF ListKept
  <1>8. T!MinimIsFirst'
    <2> SUFFICES ASSUME ~ stale' PROVE minim' = timeout'[Head(list')]
      BY DEF T!MinimIsFirst
    <2>1. ~ stale /\ Head(list) # x
      BY <1>1
    <2> QED BY <2>1, <1>1, <1>2, <1>4 DEF T!MinimIsFirst
  <1> QED BY <1>5, <1>6, <1>7, <1>8 DEF TimerInv

\* FireDue keeps what follows the timers that are due.
LEMMA FireDueInv ==
    ASSUME TimerInv, T!FireDue
    PROVE  /\ TimerInv'
           /\ \A x \in Timer : Has(list, x) /\ ~ Has(list', x) => remaining[x] = 0
  <1> DEFINE k == T!DueNow(list, timeout, timer_ticks)
  <1>1. /\ \A i \in 1 .. k : list[i] # idle
        /\ list' = SubSeq(list, k + 1, Len(list))
        /\ minim' = timeout[list[k + 1]]
        /\ stale' = FALSE
        /\ UNCHANGED <<timeout, timer_ticks, client, remaining>>
    BY DEF T!FireDue
  <1>2. TimerType /\ NotBefore /\ ListKept
    BY DEF TimerInv
  <1>3. /\ list \in Seq(AllTimers) /\ timeout \in [AllTimers -> Int] /\ timer_ticks \in Int
    BY <1>2 DEF TimerType
  <1>4. k \in 0 .. Len(list) /\ \A i \in 1 .. k : timeout[list[i]] <= timer_ticks
    BY <1>3, DueProperties
  <1> HIDE DEF k
  <1> DEFINE r == SubSeq(list, k + 1, Len(list))
  <1>5. /\ r \in Seq(AllTimers)
        /\ \A y : Has(r, y) <=> \E i \in k + 1 .. Len(list) : list[i] = y
        /\ Distinct(list) => Distinct(r)
        /\ k < Len(list) => r # << >> /\ Head(r) = list[k + 1]
    BY <1>3, <1>4, SuffixProperties
  <1> HIDE DEF r
  <1>6. list' = r
    BY <1>1 DEF r
  <1>7. \A i \in 1 .. Len(list) : i \in 1 .. k \/ i \in k + 1 .. Len(list)
    BY <1>3, <1>4
  <1>8. Has(r, idle)
    BY <1>1, <1>2, <1>5, <1>7 DEF ListKept, Has
  <1>9. k < Len(list)
    BY <1>3, <1>4, <1>5, <1>8
  <1>10. \A y : Has(r, y) => Has(list, y)
    <2> SUFFICES ASSUME NEW y, NEW i \in k + 1 .. Len(list), list[i] = y PROVE Has(list, y)
      BY <1>5
    <2>1. i \in 1 .. Len(list)
      BY <1>3, <1>4
    <2> QED BY <2>1 DEF Has
  <1>11. TimerInv'
    <2>1. TimerType'
      BY <1>1, <1>2, <1>5, <1>6 DEF TimerType
    <2>2. NotBefore'
      BY <1>1, <1>2 DEF NotBefore
    <2>3. ListKept'
      BY <1>1, <1>2, <1>5, <1>6, <1>8, <1>10 DEF ListKept
    <2>4. T!MinimIsFirst'
      BY <1>1, <1>5, <1>6, <1>9 DEF T!MinimIsFirst
    <2> QED BY <2>1, <2>2, <2>3, <2>4 DEF TimerInv
  <1>12. ASSUME NEW x \in Timer, Has(list, x), ~ Has(list', x) PROVE remaining[x] = 0
    <2>1. PICK i \in 1 .. Len(list) : list[i] = x
      BY <1>12 DEF Has
    <2>2. i \in 1 .. k
      BY <1>5, <1>6, <1>7, <1>12, <2>1
    <2>3. timeout[x] <= timer_ticks /\ timeout[x] \in Int /\ remaining[x] \in Nat /\ timer_ticks \in Int
      BY <1>2, <1>4, <2>1, <2>2 DEF TimerType, AllTimers
    <2> QED BY <2>3, <1>2 DEF NotBefore
  <1> QED BY <1>11, <1>12

\* FireIdle: the clock and the linked timers go back by the same amount, which
\* the clock has reached and the timers that are not due are beyond; the idle
\* timer is not due again at once.
LEMMA FireIdleInv ==
    ASSUME TimerInv, T!FireIdle
    PROVE  /\ TimerInv'
           /\ \A x \in Timer : Has(list, x) /\ ~ Has(list', x) => remaining[x] = 0
  <1> DEFINE k == T!DueNow(list, timeout, timer_ticks)
             p == CHOOSE i \in 1 .. Len(list) : list[i] = idle
             rest == SubSeq(list, p + 1, Len(list))
             now == timer_ticks - IdleTime
             tmo == [x \in DOMAIN timeout |->
                        IF \E i \in 1 .. Len(rest) : rest[i] = x
                        THEN (timeout[x] - IdleTime) % Clocks
                        ELSE timeout[x]]
             again == T!Insert(idle, rest, tmo)
             seen == IF Head(again) = idle THEN rest ELSE again
             k2 == T!DueNow(seen, tmo, now)
             end == SubSeq(seen, k2 + 1, Len(seen))
             r == (IF Head(again) = idle THEN <<idle>> ELSE << >>) \o end
  <1>1. /\ timer_ticks' = now /\ timeout' = tmo /\ list' = r /\ stale' = TRUE
        /\ UNCHANGED <<client, remaining>>
    BY DEF T!FireIdle
  <1>2. TimerType /\ NotBefore /\ ListKept
    BY DEF TimerInv
  <1>3. /\ list \in Seq(AllTimers) /\ timeout \in [AllTimers -> Int] /\ timer_ticks \in Int
        /\ Distinct(list) /\ idle \in AllTimers
    BY <1>2 DEF TimerType, ListKept, AllTimers
  <1>4. k \in 0 .. Len(list) /\ \A i \in 1 .. k : timeout[list[i]] <= timer_ticks
    BY <1>3, DueProperties
  <1>5. p \in 1 .. Len(list) /\ list[p] = idle
    <2>1. \E i \in 1 .. Len(list) : list[i] = idle
      BY <1>2 DEF ListKept, Has
    <2> QED BY <2>1
  <1>p. p <= k
    BY DEF T!FireIdle
  <1> HIDE DEF k, p
  <1>6. now \in 0 .. Horizon /\ now < IdleTime /\ IdleTime <= timer_ticks
    <2>1. p \in 1 .. k
      BY <1>p, <1>4, <1>5
    <2>2. IdleTime <= timer_ticks /\ timer_ticks \in 0 .. Horizon
      BY <2>1, <1>2, <1>4, <1>5 DEF TimerType
    <2> QED BY <2>2, TimerFacts
  <1>7. /\ rest \in Seq(AllTimers) /\ Distinct(rest)
        /\ \A y : Has(rest, y) <=> \E i \in p + 1 .. Len(list) : list[i] = y
    <2>1. p \in 0 .. Len(list)
      BY <1>5
    <2> QED BY <2>1, <1>3, SuffixProperties
  <1>8. ~ Has(rest, idle)
    <2> SUFFICES ASSUME NEW i \in p + 1 .. Len(list), list[i] = idle PROVE FALSE
      BY <1>7
    <2>1. i \in 1 .. Len(list) /\ i # p /\ p \in 1 .. Len(list)
      BY <1>3, <1>5
    <2> QED BY <2>1, <1>3, <1>5 DEF Distinct
  <1> HIDE DEF rest
  <1>9. tmo = [x \in AllTimers |-> IF Has(rest, x) THEN (timeout[x] - IdleTime) % Clocks
                                   ELSE timeout[x]]
    BY <1>3 DEF Has
  <1> HIDE DEF tmo
  <1>10. /\ tmo \in [AllTimers -> 0 .. Clocks - 1] /\ tmo[idle] = IdleTime
         /\ \A x \in Timer : remaining[x] > 0 => tmo[x] >= now + remaining[x]
    <2>1. ASSUME NEW x \in AllTimers PROVE tmo[x] \in 0 .. Clocks - 1
      <3>1. timeout[x] - IdleTime \in Int /\ timeout[x] \in 0 .. Clocks - 1
        BY <1>2, TimerFacts DEF TimerType
      <3> QED BY <3>1, <1>9, TimerFacts, Remainder
    <2>2. tmo[idle] = IdleTime
      BY <1>2, <1>3, <1>8, <1>9 DEF TimerType
    <2>3. ASSUME NEW x \in Timer, remaining[x] > 0 PROVE tmo[x] >= now + remaining[x]
      <3>1. /\ timeout[x] \in 0 .. Clocks - 1 /\ remaining[x] \in Nat /\ timer_ticks \in Int
            /\ timeout[x] >= timer_ticks + remaining[x] /\ x \in AllTimers
        BY <2>3, <1>2 DEF TimerType, NotBefore, AllTimers
      <3>2. timeout[x] - IdleTime \in 0 .. Clocks - 1 /\ timeout[x] - IdleTime >= now + remaining[x]
        BY <3>1, <1>6, TimerFacts
      <3>3. (timeout[x] - IdleTime) % Clocks = timeout[x] - IdleTime
        <4>1. \A a \in 0 .. Clocks - 1 : a \in Int /\ a % Clocks = a
          BY TimerFacts, Remainder
        <4> QED BY <3>2, <4>1
      <3>4. tmo[x] = timeout[x] - IdleTime \/ tmo[x] = timeout[x]
        BY <3>1, <3>3, <1>9
      <3> QED BY <3>1, <3>2, <3>4, TimerFacts
    <2> QED BY <2>1, <2>2, <2>3, <1>9
  <1>11. /\ again \in Seq(AllTimers) /\ again # << >>
         /\ \A y : Has(again, y) <=> y = idle \/ Has(rest, y)
         /\ Distinct(rest) /\ ~ Has(rest, idle) => Distinct(again)
         /\ Head(again) = IF rest = << >> \/ tmo[idle] < tmo[Head(rest)] THEN idle ELSE Head(rest)
         /\ ~ Has(rest, idle) /\ Head(again) = idle => again = <<idle>> \o rest
         /\ Head(again) # idle => Len(again) >= 2 /\ again[2] = idle
    <2>1. idle \in AllTimers /\ rest \in Seq(AllTimers)
      BY <1>3, <1>7
    <2> QED BY <2>1, InsertProperties
  <1> HIDE DEF again
  <1>12. /\ seen \in Seq(AllTimers) /\ Distinct(seen)
         /\ \A y : Has(rest, y) => Has(seen, y)
         /\ \A y : Has(seen, y) => y = idle \/ Has(rest, y)
    BY <1>7, <1>8, <1>11
  <1>13. Head(again) = idle => ~ Has(seen, idle)
    BY <1>8
  <1>14. Head(again) # idle => Len(seen) >= 2 /\ seen[2] = idle
    BY <1>11
  <1> HIDE DEF seen
  <1>15. k2 \in 0 .. Len(seen) /\ \A i \in 1 .. k2 : tmo[seen[i]] <= now
    <2>1. tmo \in [AllTimers -> Int] /\ now \in Int
      BY <1>6, <1>10, TimerFacts
    <2> HIDE DEF now
    <2> QED BY <2>1, <1>12, DueProperties
  <1> HIDE DEF k2
  <1>16. /\ end \in Seq(AllTimers) /\ Distinct(end)
         /\ \A y : Has(end, y) <=> \E i \in k2 + 1 .. Len(seen) : seen[i] = y
    BY <1>12, <1>15, SuffixProperties
  <1>17. \A i \in 1 .. Len(seen) : i \in 1 .. k2 \/ i \in k2 + 1 .. Len(seen)
    BY <1>12, <1>15
  <1>18. \A y : Has(end, y) => Has(seen, y)
    <2> SUFFICES ASSUME NEW y, NEW i \in k2 + 1 .. Len(seen), seen[i] = y PROVE Has(seen, y)
      BY <1>16
    <2>1. i \in 1 .. Len(seen)
      BY <1>12, <1>15
    <2> QED BY <2>1 DEF Has
  <1> HIDE DEF end
  <1>19. /\ r \in Seq(AllTimers) /\ Distinct(r) /\ Has(r, idle)
         /\ \A y : Has(end, y) => Has(r, y)
         /\ \A y : Has(r, y) => y = idle \/ Has(rest, y)
    <2>1. CASE Head(again) = idle
      <3>1. r = <<idle>> \o end
        BY <2>1
      <3>2. ~ Has(end, idle)
        BY <2>1, <1>13, <1>18
      <3> HIDE DEF r
      <3> DEFINE g == <<idle>> \o end
      <3>3. /\ g \in Seq(AllTimers)
            /\ \A y : Has(g, y) <=> y = idle \/ Has(end, y)
            /\ Distinct(end) /\ ~ Has(end, idle) => Distinct(g)
        BY <1>3, <1>16, ConsProperties
      <3>4. r = g
        BY <3>1
      <3> HIDE DEF g
      <3> QED BY <3>2, <3>3, <3>4, <1>12, <1>16, <1>18
    <2>2. CASE Head(again) # idle
      <3>1. r = end
        BY <2>2, <1>16
      <3>2. 2 \in 1 .. Len(seen) /\ seen[2] = idle /\ k2 \in Nat
        BY <2>2, <1>12, <1>14, <1>15
      <3>3. 2 \notin 1 .. k2
        BY <3>2, <1>6, <1>10, <1>15, TimerFacts
      <3>4. Has(end, idle)
        BY <3>2, <3>3, <1>16, <1>17
      <3> HIDE DEF r
      <3> QED BY <3>1, <3>4, <1>12, <1>16, <1>18
    <2> QED BY <2>1, <2>2
  <1> HIDE DEF r
  <1>20. \A y : Has(rest, y) => Has(list, y)
    <2> SUFFICES ASSUME NEW y, NEW i \in p + 1 .. Len(list), list[i] = y PROVE Has(list, y)
      BY <1>7
    <2>1. i \in 1 .. Len(list)
      BY <1>3, <1>5
    <2> QED BY <2>1 DEF Has
  <1>21. TimerInv'
    <2>1. TimerType'
      BY <1>1, <1>2, <1>6, <1>10, <1>19 DEF TimerType
    <2>2. NotBefore'
      BY <1>1, <1>10 DEF NotBefore
    <2>3. ListKept'
      BY <1>1, <1>2, <1>19, <1>20, TimerFacts DEF ListKept
    <2>4. T!MinimIsFirst'
      BY <1>1 DEF T!MinimIsFirst
    <2> QED BY <2>1, <2>2, <2>3, <2>4 DEF TimerInv
  <1>22. ASSUME NEW x \in Timer, Has(list, x), ~ Has(list', x) PROVE remaining[x] = 0
    <2>1. PICK i \in 1 .. Len(list) : list[i] = x
      BY <1>22 DEF Has
    <2>2. /\ timeout[x] \in Int /\ tmo[x] \in Int /\ remaining[x] \in Nat /\ timer_ticks \in Int
          /\ x \in AllTimers /\ x # idle
      BY <1>2, <1>10, TimerFacts DEF TimerType, AllTimers
    <2>3. CASE i \in 1 .. k
      <3>1. timeout[x] <= timer_ticks
        BY <2>1, <2>3, <1>4
      <3> QED BY <3>1, <2>2, <1>2 DEF NotBefore
    <2>4. CASE i \notin 1 .. k
      <3>1. i \in p + 1 .. Len(list)
        BY <2>4, <1>p, <1>3, <1>4, <1>5
      <3>2. Has(seen, x) /\ ~ Has(end, x)
        BY <3>1, <2>1, <1>1, <1>7, <1>12, <1>19, <1>22
      <3>3. PICK j \in 1 .. Len(seen) : seen[j] = x
        BY <3>2 DEF Has
      <3>4. tmo[x] <= now
        BY <3>2, <3>3, <1>15, <1>16, <1>17
      <3> QED BY <3>4, <2>2, <1>6, <1>10
    <2> QED BY <2>3, <2>4
  <1> QED BY <1>21, <1>22

\* The idle timer alone is linked at the start.
LEMMA TimerInitInv == T!Init => TimerInv
  <1> SUFFICES ASSUME T!Init PROVE TimerInv
    OBVIOUS
  <1>1. /\ list = <<idle>> /\ minim = IdleTime /\ timer_ticks = 0 /\ stale = FALSE
        /\ timeout = [x \in AllTimers |-> IF x = idle THEN IdleTime ELSE 0]
        /\ client = [x \in Timer |-> "unused"] /\ remaining = [x \in Timer |-> 0]
    BY DEF T!Init, AllTimers
  <1>2. /\ idle \in AllTimers /\ list \in Seq(AllTimers) /\ Len(list) = 1 /\ list[1] = idle
        /\ Head(list) = idle
    BY <1>1 DEF AllTimers
  <1>3. TimerType
    <2>1. timeout \in [AllTimers -> 0 .. Clocks - 1] /\ timeout[idle] = IdleTime
      BY <1>1, <1>2, TimerFacts
    <2>2. client \in [Timer -> ClientStates] /\ remaining \in [Timer -> Nat]
      BY <1>1 DEF ClientStates
    <2>3. stale \in BOOLEAN
      BY <1>1, Zenon
    <2>4. timer_ticks \in 0 .. Horizon
      BY <1>1, TimerFacts
    <2> QED BY <2>1, <2>2, <2>3, <2>4, <1>2 DEF TimerType
  <1>4. NotBefore
    BY <1>1 DEF NotBefore
  <1>5. ListKept
    BY <1>1, <1>2 DEF ListKept, Distinct, Has
  <1>6. T!MinimIsFirst
    BY <1>1, <1>2 DEF T!MinimIsFirst
  <1> QED BY <1>3, <1>4, <1>5, <1>6 DEF TimerInv

\* A step of a client, the clock or update_timers.
LEMMA TimerStepInv == TimerInv /\ [T!Next]_(T!vars) => TimerInv'
  <1> SUFFICES ASSUME TimerInv, [T!Next]_(T!vars) PROVE TimerInv'
    OBVIOUS
  <1>1. ASSUME UNCHANGED <<list, timeout, minim, timer_ticks, client, remaining, stale>>
        PROVE  TimerInv'
    BY <1>1 DEF TimerInv, TimerType, NotBefore, ListKept, T!MinimIsFirst
  <1>2. CASE UNCHANGED T!vars
    BY <1>1, <1>2 DEF T!vars
  <1>3. CASE T!update_timers
    BY <1>1, <1>3, FireDueInv, FireIdleInv DEF T!update_timers, T!NothingDue
  <1>4. CASE T!clock_handler
    BY <1>4, ClockInv
  <1>5. ASSUME NEW x \in Timer, T!Client(x) PROVE TimerInv'
    BY <1>5, NewTimeInv, LookInv, AddInv, DelInv DEF T!Client
  <1> QED BY <1>2, <1>3, <1>4, <1>5 DEF T!Next

\* timer.c keeps its list in order for any number of timers and clients: no timer
\* is linked twice, none is added while it is linked, the idle timer is always
\* there to stop the loop of update_timers, and minim_timeout_val is the time
\* point of the first timer unless that timer was cancelled or modified.
THEOREM TimerListKept == T!Spec => []TimersInOrder
  <1>1. TimerInv => TimersInOrder
    BY DEF TimerInv, ListKept, Distinct, Has, TimersInOrder, T!TimersInOrder, T!ListExact, T!Linked
  <1> QED BY <1>1, TimerInitInv, TimerStepInv, PTL DEF T!Spec

\* update_timers calls no callback before the delay last asked for is over, the
\* moves of the clock by the idle timer included.
THEOREM TimersNeverEarly == T!Spec => NeverEarly
  <1> DEFINE OnTime == \A x \in Timer :
                T!update_timers /\ T!Linked(x) /\ ~ T!Linked(x)' => remaining[x] = 0
  <1>1. TimerInv /\ [T!Next]_(T!vars) => [OnTime]_(T!vars)
    <2> SUFFICES ASSUME TimerInv, T!Next, NEW x \in Timer,
                        T!update_timers, T!Linked(x), ~ T!Linked(x)'
                 PROVE  remaining[x] = 0
      OBVIOUS
    <2>1. Has(list, x) /\ ~ Has(list', x)
      BY DEF T!Linked, Has
    <2>2. ~ T!NothingDue
      BY <2>1 DEF T!NothingDue
    <2> QED BY <2>1, <2>2, FireDueInv, FireIdleInv DEF T!update_timers
  <1>2. T!Spec => [][OnTime]_(T!vars)
    <2> HIDE DEF OnTime
    <2> QED BY <1>1, TimerInitInv, TimerStepInv, PTL DEF T!Spec
  <1> QED BY <1>2 DEF NeverEarly, T!NeverEarly

-----------------------------------------------------------------------------
(* Sleeping tasks.                                                         *)

Units ==
    [queue : [Priority -> Seq(Task)], length : [Priority -> Int],
     dynamic_priority : Priority, cur : Task]

\* The ready queues u with states st and priorities pr: linked tasks are READY,
\* once, in the queue of their priority.  A READY task need not be linked, and the
\* lengths may be wrong, for sleep_task_timeout unlinks without counting.
LinksOK(u, st, pr) ==
    /\ u \in Units
    /\ st \in [Task -> TaskState]
    /\ pr \in [Task -> Priority]
    /\ \A p \in Priority : \A i \in 1 .. Len(u.queue[p]) :
           st[u.queue[p][i]] = "READY" /\ pr[u.queue[p][i]] = p
    /\ \A p \in Priority : Distinct(u.queue[p])

\* Until its time has come the timer of a sleeper is linked, and the sleeper is
\* blocked unless it was woken.
SleepInv ==
    /\ LinksOK(su, state, priority)
    /\ static_priority \in [Task -> Priority]
    /\ OneRunning
    /\ pc \in [Task -> {"run", "set", "armed", "asleep"}]
    /\ left \in [Task -> Nat]
    /\ linked \in [Task -> BOOLEAN] /\ woken \in [Task -> BOOLEAN]
    /\ \A t \in Task : pc[t] \in {"armed", "asleep"} /\ left[t] > 0 => linked[t]
    /\ \A t \in Task : pc[t] = "asleep" /\ left[t] > 0 /\ ~ woken[t] => state[t] = "BLOCKED"

StateChanged(st, t, x, sx) ==
    sx \in [Task -> TaskState] /\ sx[t] = x /\ \A y \in Task : y # t => sx[y] = st[y]

LEMMA ChangedState ==
    ASSUME NEW st \in [Task -> TaskState], NEW t \in Task, NEW x \in TaskState
    PROVE  StateChanged(st, t, x, [st EXCEPT ![t] = x])
  BY DEF StateChanged

LEMMA QueueFacts ==
    ASSUME NEW u, NEW st, NEW pr, LinksOK(u, st, pr), NEW p \in Priority
    PROVE  /\ u.queue[p] \in Seq(Task) /\ Len(u.queue[p]) \in Nat
           /\ \A i \in 1 .. Len(u.queue[p]) : /\ u.queue[p][i] \in Task
                                              /\ st[u.queue[p][i]] = "READY"
                                              /\ pr[u.queue[p][i]] = p
           /\ Distinct(u.queue[p])
  <1>1. u.queue[p] \in Seq(Task) /\ Distinct(u.queue[p])
    BY DEF LinksOK, Units
  <1>2. Len(u.queue[p]) \in Nat /\ \A i \in 1 .. Len(u.queue[p]) : u.queue[p][i] \in Task
    BY <1>1, LenProperties, ElementOfSeq
  <1> QED BY <1>1, <1>2 DEF LinksOK

\* Queues that differ in one level, which holds tasks that may be there.
LevelOK(v, st, pr, p) ==
    /\ Distinct(v.queue[p])
    /\ \A i \in 1 .. Len(v.queue[p]) : st[v.queue[p][i]] = "READY" /\ pr[v.queue[p][i]] = p

SameBut(u, v, p) == \A r \in Priority : r # p => v.queue[r] = u.queue[r]

StayReady(st, pr, sx, px, p) ==
    \A t \in Task : st[t] = "READY" /\ pr[t] # p => sx[t] = "READY" /\ px[t] = pr[t]

LEMMA OneLevel ==
    ASSUME NEW u, NEW st, NEW pr, LinksOK(u, st, pr),
           NEW v \in Units, NEW sx \in [Task -> TaskState], NEW px \in [Task -> Priority],
           NEW p \in Priority, SameBut(u, v, p), LevelOK(v, sx, px, p), StayReady(st, pr, sx, px, p)
    PROVE  LinksOK(v, sx, px)
  <1>1. ASSUME NEW r \in Priority, NEW i \in 1 .. Len(v.queue[r])
        PROVE  sx[v.queue[r][i]] = "READY" /\ px[v.queue[r][i]] = r
    <2>1. CASE r = p
      BY <2>1, <1>1 DEF LevelOK
    <2>2. CASE r # p
      <3>1. i \in 1 .. Len(u.queue[r]) /\ v.queue[r][i] = u.queue[r][i]
        BY <2>2, <1>1 DEF SameBut
      <3>2. u.queue[r][i] \in Task /\ st[u.queue[r][i]] = "READY" /\ pr[u.queue[r][i]] = r
        BY <3>1, QueueFacts
      <3> QED BY <3>1, <3>2, <2>2 DEF StayReady
    <2> QED BY <2>1, <2>2
  <1>2. \A r \in Priority : Distinct(v.queue[r])
    BY QueueFacts DEF LevelOK, SameBut
  <1> QED BY <1>1, <1>2 DEF LinksOK

\* task_priority_queue_add_tail of a task that is not READY.
LEMMA LinkReady ==
    ASSUME NEW u, NEW st, NEW pr, LinksOK(u, st, pr),
           NEW t \in Task, st[t] # "READY", NEW p \in Priority
    PROVE  /\ LinksOK(task_priority_queue_add_tail(u, t, p),
                      [st EXCEPT ![t] = "READY"], [pr EXCEPT ![t] = p])
           /\ task_priority_queue_add_tail(u, t, p).cur = u.cur
  <1>1. PICK v : v = task_priority_queue_add_tail(u, t, p)
    OBVIOUS
  <1>2. PICK s \in Seq(Task) : s = u.queue[p]
    BY QueueFacts
  <1>3. /\ Append(s, t) \in Seq(Task) /\ Len(s) \in Nat /\ Len(Append(s, t)) = Len(s) + 1
        /\ Append(s, t)[Len(s) + 1] = t /\ \A i \in 1 .. Len(s) : Append(s, t)[i] = s[i]
    BY AppendProperties, LenProperties
  <1>4. /\ u \in Units
        /\ st \in [Task -> TaskState] /\ pr \in [Task -> Priority]
    BY DEF LinksOK
  <1>5. /\ v \in Units
        /\ v.queue[p] = Append(s, t) /\ v.cur = u.cur
        /\ \A r \in Priority : r # p => v.queue[r] = u.queue[r]
    <2>1. [u.queue EXCEPT ![p] = Append(@, t)] \in [Priority -> Seq(Task)]
      BY <1>2, <1>3, <1>4 DEF Units
    <2>2. [u.length EXCEPT ![p] = @ + 1] \in [Priority -> Int]
      BY <1>4 DEF Units
    <2>3. Lower(p, u.dynamic_priority) \in Priority
      BY <1>4 DEF Lower, Units
    <2> QED BY <2>1, <2>2, <2>3, <1>1, <1>2, <1>4 DEF task_priority_queue_add_tail, Units
  <1>6. PICK sx \in [Task -> TaskState], px \in [Task -> Priority] :
            /\ sx = [st EXCEPT ![t] = "READY"] /\ px = [pr EXCEPT ![t] = p]
            /\ sx[t] = "READY" /\ px[t] = p
            /\ \A x \in Task : x # t => sx[x] = st[x] /\ px[x] = pr[x]
    <2>1. PICK sx \in [Task -> TaskState] :
              sx = [st EXCEPT ![t] = "READY"] /\ sx[t] = "READY" /\ \A x \in Task : x # t => sx[x] = st[x]
      <3>1. "READY" \in TaskState
        BY DEF TaskState
      <3>2. StateChanged(st, t, "READY", [st EXCEPT ![t] = "READY"])
        BY <3>1, <1>4, ChangedState
      <3> QED BY <3>2 DEF StateChanged
    <2>2. PICK px \in [Task -> Priority] :
              px = [pr EXCEPT ![t] = p] /\ px[t] = p /\ \A x \in Task : x # t => px[x] = pr[x]
      <3>1. [pr EXCEPT ![t] = p] \in [Task -> Priority]
        BY <1>4
      <3> QED BY <3>1, <1>4
    <2> QED BY <2>1, <2>2
  <1>7. \A i \in 1 .. Len(s) : s[i] \in Task /\ s[i] # t /\ st[s[i]] = "READY" /\ pr[s[i]] = p
    BY <1>2, QueueFacts
  <1>8. Distinct(v.queue[p])
    <2>1. Distinct(s)
      BY <1>2, QueueFacts
    <2>2. ASSUME NEW i \in 1 .. Len(s) + 1, NEW j \in 1 .. Len(s) + 1, Append(s, t)[i] = Append(s, t)[j]
          PROVE  i = j
      <3>1. /\ i \in 1 .. Len(s) \/ i = Len(s) + 1
            /\ j \in 1 .. Len(s) \/ j = Len(s) + 1
        BY <1>3
      <3> QED BY <3>1, <2>1, <2>2, <1>3, <1>7 DEF Distinct
    <2> QED BY <2>2, <1>3, <1>5 DEF Distinct
  <1>9. \A i \in 1 .. Len(v.queue[p]) : sx[v.queue[p][i]] = "READY" /\ px[v.queue[p][i]] = p
    <2>1. ASSUME NEW i \in 1 .. Len(s) + 1
          PROVE  sx[Append(s, t)[i]] = "READY" /\ px[Append(s, t)[i]] = p
      <3>1. i \in 1 .. Len(s) \/ i = Len(s) + 1
        BY <1>3
      <3> QED BY <3>1, <1>3, <1>6, <1>7
    <2> QED BY <2>1, <1>3, <1>5
  <1>10. \A x \in Task : st[x] = "READY" /\ pr[x] # p => sx[x] = "READY" /\ px[x] = pr[x]
    BY <1>6
  <1>11. LinksOK(v, sx, px)
    <2>1. v \in Units /\ SameBut(u, v, p) /\ LevelOK(v, sx, px, p) /\ StayReady(st, pr, sx, px, p)
      BY <1>5, <1>8, <1>9, <1>10 DEF SameBut, LevelOK, StayReady
    <2> QED BY <2>1, OneLevel
  <1> QED BY <1>1, <1>5, <1>6, <1>11

\* task_priority_queue_fetch_first: it takes a READY task.
LEMMA TakeReady ==
    ASSUME NEW u, NEW st, NEW pr, LinksOK(u, st, pr), CanFetch(u), NEW v,
           v = task_priority_queue_fetch_first(u)
    PROVE  /\ v.cur \in Task /\ st[v.cur] = "READY"
           /\ LinksOK(v, [st EXCEPT ![v.cur] = "RUNNING"], pr)
  <1>1. PICK p \in Priority : IsLevel(u, p) /\ u.queue[p] # << >>
    BY DEF CanFetch
  <1>2. Level(u) = p
    <2>1. \A q \in Priority : IsLevel(u, q) => q = p
      <3>1. \A q \in Priority : q \in Int
        BY DEF Priority
      <3>2. u.dynamic_priority \in Int
        BY <3>1 DEF LinksOK, Units
      <3> QED BY <3>1, <3>2, <1>1 DEF IsLevel
    <2> QED BY <2>1, <1>1 DEF Level
  <1>3. PICK s \in Seq(Task) : s = u.queue[p] /\ s # << >>
    BY <1>1, QueueFacts
  <1>4. /\ Len(s) \in Nat \ {0} /\ Head(s) = s[1] /\ 1 \in 1 .. Len(s)
        /\ Tail(s) \in Seq(Task) /\ Len(Tail(s)) = Len(s) - 1
        /\ \A i \in 1 .. Len(s) - 1 : Tail(s)[i] = s[i + 1] /\ i + 1 \in 1 .. Len(s)
    BY <1>3, HeadTailProperties, LenProperties
  <1>5. /\ \A i \in 1 .. Len(s) : s[i] \in Task /\ st[s[i]] = "READY" /\ pr[s[i]] = p
        /\ Distinct(s)
    BY <1>3, QueueFacts
  <1>6. /\ u \in Units
        /\ st \in [Task -> TaskState] /\ pr \in [Task -> Priority]
    BY DEF LinksOK
  <1>7. /\ v \in Units
        /\ v.queue[p] = Tail(s) /\ v.cur = s[1]
        /\ \A r \in Priority : r # p => v.queue[r] = u.queue[r]
    <2>1. [u.queue EXCEPT ![p] = Tail(@)] \in [Priority -> Seq(Task)]
      BY <1>3, <1>4, <1>6 DEF Units
    <2>2. [u.length EXCEPT ![p] = @ - 1] \in [Priority -> Int]
      BY <1>6 DEF Units
    <2>3. v = [queue |-> [u.queue EXCEPT ![p] = Tail(@)], length |-> [u.length EXCEPT ![p] = @ - 1],
               dynamic_priority |-> p, cur |-> Head(u.queue[p])]
      BY <1>2 DEF task_priority_queue_fetch_first
    <2>4. Head(u.queue[p]) = s[1] /\ s[1] \in Task
      BY <1>3, <1>4, <1>5
    <2> QED BY <2>1, <2>2, <2>3, <2>4, <1>3, <1>6 DEF Units
  <1>8. PICK sx \in [Task -> TaskState] :
            /\ sx = [st EXCEPT ![v.cur] = "RUNNING"]
            /\ \A x \in Task : x # s[1] => sx[x] = st[x]
    <2>1. v.cur = s[1] /\ s[1] \in Task /\ "RUNNING" \in TaskState
      BY <1>4, <1>5, <1>7 DEF TaskState
    <2>2. PICK y \in Task, x \in TaskState : y = s[1] /\ x = "RUNNING"
      BY <2>1
    <2>3. StateChanged(st, y, x, [st EXCEPT ![y] = x])
      BY <1>6, ChangedState
    <2> QED BY <2>1, <2>2, <2>3 DEF StateChanged
  <1>9. Distinct(v.queue[p])
    <2>1. ASSUME NEW i \in 1 .. Len(s) - 1, NEW j \in 1 .. Len(s) - 1, Tail(s)[i] = Tail(s)[j]
          PROVE  i = j
      <3>1. i + 1 = j + 1
        BY <2>1, <1>4, <1>5 DEF Distinct
      <3> QED BY <3>1
    <2> QED BY <2>1, <1>4, <1>7 DEF Distinct
  <1>10. \A i \in 1 .. Len(v.queue[p]) : sx[v.queue[p][i]] = "READY" /\ pr[v.queue[p][i]] = p
    <2>1. ASSUME NEW i \in 1 .. Len(s) - 1
          PROVE  sx[Tail(s)[i]] = "READY" /\ pr[Tail(s)[i]] = p
      <3>1. Tail(s)[i] = s[i + 1] /\ i + 1 \in 1 .. Len(s) /\ i + 1 # 1
        BY <1>4
      <3>2. s[i + 1] # s[1]
        BY <3>1, <1>4, <1>5 DEF Distinct
      <3> QED BY <3>1, <3>2, <1>5, <1>8
    <2> QED BY <2>1, <1>4, <1>7
  <1>11. \A x \in Task : st[x] = "READY" /\ pr[x] # p => sx[x] = "READY" /\ pr[x] = pr[x]
    BY <1>4, <1>5, <1>8
  <1>12. LinksOK(v, sx, pr)
    <2>1. v \in Units /\ SameBut(u, v, p) /\ LevelOK(v, sx, pr, p) /\ StayReady(st, pr, sx, pr, p)
      BY <1>7, <1>9, <1>10, <1>11 DEF SameBut, LevelOK, StayReady
    <2> QED BY <2>1, <1>6, OneLevel
  <1> QED BY <1>4, <1>5, <1>7, <1>8, <1>12

\* The states of tasks that are not READY do not matter.
LEMMA OtherState ==
    ASSUME NEW u, NEW st, NEW pr, LinksOK(u, st, pr),
           NEW t \in Task, st[t] # "READY", NEW x \in TaskState
    PROVE  LinksOK(u, [st EXCEPT ![t] = x], pr)
  <1>1. st \in [Task -> TaskState]
    BY DEF LinksOK
  <1>2. PICK sx \in [Task -> TaskState] :
            sx = [st EXCEPT ![t] = x] /\ \A y \in Task : y # t => sx[y] = st[y]
    BY <1>1
  <1>3. \A p \in Priority : \A i \in 1 .. Len(u.queue[p]) :
            sx[u.queue[p][i]] = "READY" /\ pr[u.queue[p][i]] = p
    BY <1>2, QueueFacts
  <1>4. LinksOK(u, sx, pr)
    BY <1>3 DEF LinksOK
  <1> QED BY <1>2, <1>4

\* list_del_init of the node of a task.
LEMMA UnlinkLinks ==
    ASSUME LinksOK(su, state, priority), NEW t \in Task
    PROVE  LinksOK(Unlink(t), state, priority) /\ Unlink(t).cur = su.cur
  <1>1. PICK p \in Priority : p = priority[t]
    BY DEF LinksOK
  <1>2. PICK s \in Seq(Task) : s = su.queue[p]
    BY QueueFacts
  <1>3. CASE ~ \E i \in 1 .. Len(s) : s[i] = t
    <2>1. Unlink(t) = su
      BY <1>1, <1>2, <1>3 DEF Unlink
    <2> QED BY <2>1
  <1>4. CASE \E i \in 1 .. Len(s) : s[i] = t
    <2>1. PICK k \in 1 .. Len(s) : k = CHOOSE i \in 1 .. Len(s) : s[i] = t
      BY <1>4
    <2>2. PICK n \in Nat : n = Len(s) /\ n >= 1
      BY <1>4, LenProperties
    <2>3. PICK d : d = [i \in 1 .. n - 1 |-> s[IF i < k THEN i ELSE i + 1]]
      OBVIOUS
    <2>4. PICK v : v = [su EXCEPT !.queue[p] = d]
      OBVIOUS
    <2>5. v = Unlink(t)
      BY <1>1, <1>2, <1>4, <2>1, <2>2, <2>3, <2>4 DEF Unlink
    <2>6. \A i \in 1 .. n - 1 : (IF i < k THEN i ELSE i + 1) \in 1 .. n
      BY <2>1, <2>2
    <2>7. /\ \A i \in 1 .. n : s[i] \in Task /\ state[s[i]] = "READY" /\ priority[s[i]] = p
          /\ Distinct(s)
      BY <1>2, <2>2, QueueFacts
    <2>8. d \in Seq(Task) /\ Len(d) = n - 1
      <3>1. \A i \in 1 .. n - 1 : s[IF i < k THEN i ELSE i + 1] \in Task
        BY <2>6, <2>7
      <3>2. d \in [1 .. n - 1 -> Task] /\ n - 1 \in Nat
        BY <2>2, <2>3, <3>1
      <3> QED BY <3>2
    <2>9. /\ v \in Units /\ v.queue[p] = d /\ v.cur = su.cur
          /\ \A r \in Priority : r # p => v.queue[r] = su.queue[r]
      <3>1. su \in Units
        BY DEF LinksOK
      <3>2. su.queue \in [Priority -> Seq(Task)]
        BY <3>1 DEF Units
      <3>3. [su.queue EXCEPT ![p] = d] \in [Priority -> Seq(Task)]
        BY <3>2, <2>8
      <3>4. v = [su EXCEPT !.queue = [su.queue EXCEPT ![p] = d]]
        BY <2>4
      <3>5. v \in Units /\ v.queue = [su.queue EXCEPT ![p] = d] /\ v.cur = su.cur
        BY <3>1, <3>3, <3>4 DEF Units
      <3> QED BY <3>2, <3>5
    <2>10. Distinct(d)
      <3>1. ASSUME NEW i \in 1 .. n - 1, NEW j \in 1 .. n - 1, d[i] = d[j] PROVE i = j
        <4>1. PICK a \in 1 .. n, b \in 1 .. n : /\ a = IF i < k THEN i ELSE i + 1
                                               /\ b = IF j < k THEN j ELSE j + 1
          BY <2>6
        <4>2. s[a] = s[b]
          BY <4>1, <3>1, <2>3
        <4>3. a = b
          BY <4>2, <2>2, <2>7 DEF Distinct
        <4> QED BY <4>1, <4>3, <2>1, <2>2
      <3> QED BY <3>1, <2>8 DEF Distinct
    <2>11. \A i \in 1 .. n - 1 : state[d[i]] = "READY" /\ priority[d[i]] = p
      BY <2>3, <2>6, <2>7
    <2>12. /\ SameBut(su, v, p) /\ LevelOK(v, state, priority, p)
           /\ StayReady(state, priority, state, priority, p)
      BY <2>8, <2>9, <2>10, <2>11 DEF SameBut, LevelOK, StayReady
    <2>13. state \in [Task -> TaskState] /\ priority \in [Task -> Priority]
      BY DEF LinksOK
    <2>14. LinksOK(v, state, priority)
      BY <2>9, <2>12, <2>13, OneLevel
    <2> QED BY <2>5, <2>9, <2>14
  <1> QED BY <1>3, <1>4

\* The task on the CPU is RUNNING.
LEMMA Current == ASSUME SleepInv PROVE su.cur \in Task /\ state[su.cur] = "RUNNING"
  BY DEF SleepInv, LinksOK, Units, OneRunning

\* schedule() keeps the links, and blocked tasks blocked.
LEMMA ScheduleLinks ==
    ASSUME SleepInv, NEW x \in {"RUNNING", "BLOCKED"}, schedule(x)
    PROVE  /\ LinksOK(su', state', priority') /\ OneRunning' /\ static_priority' = static_priority
           /\ \A t \in Task : state[t] = "BLOCKED" => state'[t] = "BLOCKED"
           /\ x = "BLOCKED" => state'[su.cur] = "BLOCKED"
  <1>1. PICK c \in Task : c = su.cur /\ state[c] = "RUNNING"
    BY Current
  <1>2. /\ LinksOK(su, state, priority) /\ state \in [Task -> TaskState]
        /\ priority \in [Task -> Priority] /\ static_priority \in [Task -> Priority]
        /\ \A t \in Task : state[t] = "RUNNING" <=> t = c
    BY <1>1 DEF SleepInv, LinksOK, OneRunning
  <1>3. PICK u : u = Requeue(x)
    OBVIOUS
  <1>4. PICK p \in Priority : p = NextPriority(c)
    BY <1>2 DEF NextPriority, Priority, MAX_PRIORITY_NR
  <1>5. PICK y \in TaskState : y = IF x = "RUNNING" THEN "READY" ELSE x
    BY DEF TaskState, Blockable
  <1>6. PICK sx : sx = [state EXCEPT ![c] = y]
    OBVIOUS
  <1>7. sx \in [Task -> TaskState] /\ sx[c] = y /\ \A t \in Task : t # c => sx[t] = state[t]
    BY <1>2, <1>6
  <1>8. LinksOK(u, sx, priority')
    <2>1. CASE x = "RUNNING"
      <3>1. u = task_priority_queue_add_tail(su, c, p) /\ priority' = [priority EXCEPT ![c] = p]
        BY <2>1, <1>1, <1>3, <1>4 DEF Requeue, schedule
      <3>2. sx = [state EXCEPT ![c] = "READY"]
        BY <2>1, <1>5, <1>6
      <3>3. LinksOK(task_priority_queue_add_tail(su, c, p), [state EXCEPT ![c] = "READY"],
                    [priority EXCEPT ![c] = p])
        BY <1>1, <1>2, LinkReady
      <3> QED BY <3>1, <3>2, <3>3
    <2>2. CASE x = "BLOCKED"
      <3>1. u = su /\ priority' = priority
        BY <2>2, <1>3 DEF Requeue, schedule
      <3>2. LinksOK(su, [state EXCEPT ![c] = y], priority)
        BY <1>1, <1>2, OtherState
      <3> QED BY <3>1, <3>2, <1>6
    <2> QED BY <2>1, <2>2
  <1>9. PICK v : v = task_priority_queue_fetch_first(u)
    OBVIOUS
  <1>10. CanFetch(u) /\ su' = v
    BY <1>3, <1>9 DEF schedule
  <1>11. v.cur \in Task /\ sx[v.cur] = "READY" /\ LinksOK(v, [sx EXCEPT ![v.cur] = "RUNNING"], priority')
    BY <1>8, <1>9, <1>10, TakeReady
  <1>12. state' = [sx EXCEPT ![v.cur] = "RUNNING"] /\ static_priority' = static_priority
    BY <1>1, <1>3, <1>5, <1>6, <1>9 DEF schedule
  <1>13. /\ state'[v.cur] = "RUNNING"
         /\ \A t \in Task : t # v.cur => state'[t] = sx[t]
    BY <1>7, <1>11, <1>12
  <1>14. OneRunning'
    <2>1. y # "RUNNING"
      BY <1>5
    <2>2. \A t \in Task : state'[t] = "RUNNING" <=> t = v.cur
      BY <2>1, <1>2, <1>7, <1>13
    <2> QED BY <2>2, <1>10 DEF OneRunning
  <1>15. \A t \in Task : state[t] = "BLOCKED" => state'[t] = "BLOCKED"
    BY <1>1, <1>7, <1>11, <1>13
  <1>16. x = "BLOCKED" => state'[c] = "BLOCKED"
    BY <1>5, <1>7, <1>11, <1>13
  <1> QED BY <1>1, <1>10, <1>11, <1>12, <1>14, <1>15, <1>16

\* task_unblock of a task that may be woken.
LEMMA ReadyLinks ==
    ASSUME SleepInv, NEW t \in Task, state[t] \in Wakeable, MakeReady(t)
    PROVE  /\ LinksOK(su', state', priority') /\ OneRunning' /\ static_priority' = static_priority
           /\ \A x \in Task : x # t => state'[x] = state[x]
  <1>1. PICK p \in Priority : p = priority[t]
    BY DEF SleepInv, LinksOK
  <1>2. /\ su' = task_priority_queue_add_tail(su, t, p)
        /\ state' = [state EXCEPT ![t] = "READY"] /\ priority' = [priority EXCEPT ![t] = p]
        /\ static_priority' = static_priority
    <2>1. su' = task_priority_queue_add_tail(su, t, p)
      BY <1>1 DEF MakeReady, task_priority_queue_add_head, task_priority_queue_add_tail
    <2>2. priority = [priority EXCEPT ![t] = p]
      BY <1>1 DEF SleepInv, LinksOK
    <2> QED BY <2>1, <2>2 DEF MakeReady
  <1>3. /\ LinksOK(task_priority_queue_add_tail(su, t, p), [state EXCEPT ![t] = "READY"],
                   [priority EXCEPT ![t] = p])
        /\ task_priority_queue_add_tail(su, t, p).cur = su.cur
    <2>1. LinksOK(su, state, priority) /\ state[t] # "READY"
      BY DEF SleepInv, Wakeable
    <2> QED BY <2>1, LinkReady
  <1>4. state'[t] = "READY" /\ \A x \in Task : x # t => state'[x] = state[x]
    BY <1>2 DEF SleepInv, LinksOK
  <1>5. OneRunning'
    <2>1. state[t] # "RUNNING"
      BY DEF Wakeable
    <2>2. su'.cur = su.cur
      BY <1>2, <1>3
    <2>3. \A x \in Task : state'[x] = "RUNNING" <=> state[x] = "RUNNING"
      BY <2>1, <1>4
    <2> QED BY <2>2, <2>3 DEF SleepInv, OneRunning
  <1> QED BY <1>2, <1>3, <1>4, <1>5

\* What leaves the sleepers alone.
LEMMA SleepersLeft ==
    ASSUME SleepInv, LinksOK(su', state', priority'), OneRunning',
           static_priority' \in [Task -> Priority], UNCHANGED sleepVars,
           \A t \in Task : state[t] = "BLOCKED" => state'[t] = "BLOCKED"
    PROVE  SleepInv'
  BY DEF SleepInv, sleepVars

LEMMA SchedStepInv == ASSUME SleepInv, SchedStep PROVE SleepInv'
  <1>1. UNCHANGED sleepVars
    BY DEF SchedStep
  <1>2. LinksOK(su, state, priority) /\ OneRunning /\ static_priority \in [Task -> Priority]
    BY DEF SleepInv
  <1>3. ASSUME schedule("RUNNING") PROVE SleepInv'
    BY <1>1, <1>2, <1>3, ScheduleLinks, SleepersLeft
  <1>4. CASE sched_softirq_handler
    <2>1. CASE schedule(state[su.cur])
      BY <2>1, <1>3, Current
    <2>2. CASE UNCHANGED <<su, state, priority, static_priority, timeslice>>
      <3>1. LinksOK(su', state', priority') /\ OneRunning' /\ static_priority' = static_priority /\ state' = state
        BY <2>2, <1>2 DEF OneRunning
      <3> QED BY <3>1, <1>1, <1>2, SleepersLeft
    <2> QED BY <2>1, <2>2, <1>4 DEF sched_softirq_handler
  <1>5. CASE IdleLoop
    BY <1>3, <1>5 DEF IdleLoop
  <1>6. CASE start_user
    <2>1. /\ su' = su /\ state' = state /\ priority' = [priority EXCEPT ![Kmain] = TASK_PRIO_IDLE]
          /\ static_priority' = [static_priority EXCEPT ![Kmain] = TASK_PRIO_IDLE]
      BY <1>6 DEF start_user
    <2>2. Kmain \in Task /\ state[Kmain] = "RUNNING" /\ TASK_PRIO_IDLE \in Priority
      BY <1>6, Current DEF start_user, TASK_PRIO_IDLE, Priority, MAX_PRIORITY_NR
    <2>3. state \in [Task -> TaskState] /\ priority \in [Task -> Priority]
      BY <1>2 DEF LinksOK
    <2>4. PICK px \in [Task -> Priority] : px = priority' /\ \A t \in Task : t # Kmain => px[t] = priority[t]
      BY <2>1, <2>2, <2>3
    <2>5. \A p \in Priority : \A i \in 1 .. Len(su.queue[p]) :
              state[su.queue[p][i]] = "READY" /\ px[su.queue[p][i]] = p
      BY <2>2, <2>4, <1>2, QueueFacts
    <2>6. LinksOK(su, state, px)
      BY <2>5, <1>2 DEF LinksOK
    <2>7. LinksOK(su', state', priority') /\ OneRunning' /\ static_priority' \in [Task -> Priority]
      BY <2>1, <2>2, <2>4, <2>6, <1>2 DEF OneRunning
    <2> QED BY <2>1, <2>7, <1>1, SleepersLeft
  <1>7. ASSUME NEW t \in Worker, kthread_start(t, TASK_PRIO_USER) PROVE SleepInv'
    <2>1. t \in Task /\ TASK_PRIO_USER \in Priority
      BY DEF Worker, TASK_PRIO_USER, Priority, MAX_PRIORITY_NR
    <2>2. PICK p \in Priority : p = Higher(0, Lower(TASK_PRIO_USER, MAX_PRIORITY_NR - 1))
      BY DEF Higher, Lower, TASK_PRIO_USER, Priority, MAX_PRIORITY_NR
    <2>3. /\ state[t] = "FREE" /\ state' = [state EXCEPT ![t] = "READY"]
          /\ priority' = [priority EXCEPT ![t] = p] /\ static_priority' = [static_priority EXCEPT ![t] = p]
          /\ su' = task_priority_queue_add_tail(su, t, p)
      BY <2>2, <1>7 DEF kthread_start
    <2>4. /\ LinksOK(task_priority_queue_add_tail(su, t, p), [state EXCEPT ![t] = "READY"],
                     [priority EXCEPT ![t] = p])
          /\ task_priority_queue_add_tail(su, t, p).cur = su.cur
      BY <2>1, <2>3, <1>2, LinkReady
    <2>5. static_priority' \in [Task -> Priority]
      BY <2>3, <1>2
    <2>6. state'[t] = "READY" /\ \A x \in Task : x # t => state'[x] = state[x]
      BY <2>1, <2>3, <1>2 DEF LinksOK
    <2>7. OneRunning'
      BY <2>3, <2>4, <2>6, <1>2 DEF OneRunning
    <2> QED BY <2>3, <2>4, <2>5, <2>6, <2>7, <1>1, SleepersLeft
  <1> QED BY <1>4, <1>5, <1>6, <1>7 DEF SchedStep

LEMMA SleepInitInv == SleepInit => SleepInv
  <1> SUFFICES ASSUME SleepInit PROVE SleepInv
    OBVIOUS
  <1>1. Kmain \in Task
    BY SchedAssumption
  <1>2. su \in Units /\ su.cur = Kmain /\ \A p \in Priority : su.queue[p] = << >>
    BY <1>1 DEF SleepInit, Init, Units, Priority, MAX_PRIORITY_NR
  <1>3. state \in [Task -> TaskState] /\ \A t \in Task : state[t] = "RUNNING" <=> t = Kmain
    BY DEF SleepInit, Init, TaskState
  <1>4. priority \in [Task -> Priority] /\ static_priority \in [Task -> Priority]
    BY DEF SleepInit, Init, TASK_PRIO_BEST, Priority, MAX_PRIORITY_NR
  <1>5. LinksOK(su, state, priority) /\ OneRunning
    BY <1>2, <1>3, <1>4 DEF LinksOK, OneRunning, Distinct
  <1> QED BY <1>4, <1>5 DEF SleepInit, SleepInv

LEMMA SleepStepInv == SleepInv /\ [SleepNext]_<<vars, sleepVars>> => SleepInv'
  <1> SUFFICES ASSUME SleepInv, [SleepNext]_<<vars, sleepVars>> PROVE SleepInv'
    OBVIOUS
  <1>1. PICK c \in Task : c = Me /\ state[c] = "RUNNING"
    BY Current DEF Me
  <1>2. ASSUME UNCHANGED vars
        PROVE  LinksOK(su', state', priority') /\ OneRunning' /\ static_priority' = static_priority
               /\ state' = state
    BY <1>2 DEF SleepInv, OneRunning, vars, taskVars
  <1>3. CASE SchedStep
    BY <1>3, SchedStepInv
  <1>4. CASE SleepSet
    <2>1. /\ pc' = [pc EXCEPT ![c] = "set"] /\ left' = [left EXCEPT ![c] = SleepTime]
          /\ woken' = [woken EXCEPT ![c] = FALSE] /\ linked' = linked
      BY <1>1, <1>4 DEF SleepSet
    <2>2. SleepTime \in Nat
      BY SleepAssumption
    <2> QED BY <2>1, <2>2, <1>2, <1>4 DEF SleepSet, SleepInv
  <1>5. CASE SleepArm
    <2>1. /\ pc' = [pc EXCEPT ![c] = "armed"] /\ linked' = [linked EXCEPT ![c] = TRUE]
          /\ left' = left /\ woken' = woken
      BY <1>1, <1>5 DEF SleepArm
    <2> QED BY <2>1, <1>2, <1>5 DEF SleepArm, SleepInv
  <1>6. CASE SleepBlock
    <2>1. /\ pc' = [pc EXCEPT ![c] = "asleep"] /\ pc[c] = "armed" /\ linked' = linked
          /\ left' = left /\ woken' = woken /\ schedule("BLOCKED")
      BY <1>1, <1>6 DEF SleepBlock, task_block
    <2>2. /\ LinksOK(su', state', priority') /\ OneRunning' /\ static_priority' = static_priority
          /\ \A t \in Task : state[t] = "BLOCKED" => state'[t] = "BLOCKED"
          /\ state'[c] = "BLOCKED"
      BY <2>1, <1>1, ScheduleLinks DEF Me
    <2> QED BY <2>1, <2>2 DEF SleepInv
  <1>7. CASE SleepReturn
    <2>1. /\ pc' = [pc EXCEPT ![c] = "run"] /\ left' = left /\ woken' = woken
          /\ linked' = [linked EXCEPT ![c] = @ /\ left[c] = 0]
      BY <1>1, <1>7 DEF SleepReturn
    <2> QED BY <2>1, <1>2, <1>7 DEF SleepReturn, SleepInv
  <1>8. CASE TimerTick
    <2>1. /\ left' = [t \in Task |-> IF left[t] > 0 THEN left[t] - 1 ELSE 0]
          /\ pc' = pc /\ linked' = linked /\ woken' = woken
      BY <1>8 DEF TimerTick
    <2>2. left' \in [Task -> Nat] /\ \A t \in Task : left'[t] > 0 => left[t] > 0
      BY <2>1 DEF SleepInv
    <2> QED BY <2>1, <2>2, <1>2, <1>8 DEF TimerTick, SleepInv
  <1>9. ASSUME NEW t \in Worker, sleep_task_timeout(t) PROVE SleepInv'
    <2>1. /\ linked' = [linked EXCEPT ![t] = FALSE] /\ left[t] = 0 /\ t \in Task
          /\ pc' = pc /\ left' = left /\ woken' = woken
      BY <1>9 DEF sleep_task_timeout, Worker
    <2>2. CASE state[t] \in Wakeable
      <3>1. MakeReady(t)
        BY <2>2, <1>9 DEF sleep_task_timeout
      <3>2. /\ LinksOK(su', state', priority') /\ OneRunning' /\ static_priority' = static_priority
            /\ \A x \in Task : x # t => state'[x] = state[x]
        BY <2>1, <2>2, <3>1, ReadyLinks
      <3> QED BY <2>1, <3>2 DEF SleepInv
    <2>3. CASE state[t] \notin Wakeable
      <3>1. su' = Unlink(t) /\ UNCHANGED taskVars
        BY <2>3, <1>9 DEF sleep_task_timeout
      <3>2. state' = state /\ priority' = priority /\ static_priority' = static_priority
        BY <3>1 DEF taskVars
      <3>3. LinksOK(Unlink(t), state, priority) /\ Unlink(t).cur = su.cur
        BY <2>1, UnlinkLinks DEF SleepInv
      <3>4. LinksOK(su', state', priority') /\ OneRunning'
        BY <3>1, <3>2, <3>3 DEF SleepInv, OneRunning
      <3> QED BY <2>1, <3>2, <3>4 DEF SleepInv
    <2> QED BY <2>2, <2>3
  <1>10. ASSUME NEW t \in Worker, TriggerWake(t) PROVE SleepInv'
    <2>1. /\ woken' = [woken EXCEPT ![t] = TRUE] /\ t \in Task
          /\ pc' = pc /\ left' = left /\ linked' = linked
          /\ state[t] \in Wakeable /\ MakeReady(t)
      BY <1>10 DEF TriggerWake, WakeIntrOff, Worker
    <2>2. /\ LinksOK(su', state', priority') /\ OneRunning' /\ static_priority' = static_priority
          /\ \A x \in Task : x # t => state'[x] = state[x]
      BY <2>1, ReadyLinks
    <2> QED BY <2>1, <2>2 DEF SleepInv
  <1>11. CASE UNCHANGED <<vars, sleepVars>>
    <2>1. UNCHANGED vars /\ UNCHANGED sleepVars
      BY <1>11
    <2> QED BY <2>1, <1>2 DEF SleepInv, sleepVars
  <1> QED BY <1>3, <1>4, <1>5, <1>6, <1>7, <1>8, <1>9, <1>10, <1>11 DEF SleepNext

\* task_sleep_by_ticks returns before its time only to a task that a trigger has
\* woken, and the timer it then cancels is linked (the ASSERT of timer_del): for
\* any number of sleepers, whenever the timers fire, and although
\* sleep_task_timeout leaves the ready queues with lengths that are wrong.
THEOREM SleepersNeverEarly == SleepSpec => NoEarlyReturn
  <1>1. SleepSpec => []SleepInv
    BY SleepInitInv, SleepStepInv, PTL DEF SleepSpec
  <1>2. SleepInv /\ [SleepNext]_<<vars, sleepVars>>
        => [\A t \in Worker : pc[t] = "asleep" /\ pc'[t] = "run" /\ left[t] > 0
                                  => woken[t] /\ linked[t]]_<<vars, sleepVars>>
    <2> SUFFICES ASSUME SleepInv, SleepNext, NEW t \in Worker,
                        pc[t] = "asleep", pc'[t] = "run", left[t] > 0
                 PROVE  woken[t] /\ linked[t]
      OBVIOUS
    <2>1. t \in Task /\ pc'[t] # pc[t]
      BY DEF Worker
    <2>2. PICK c \in Task : c = Me /\ state[c] = "RUNNING"
      BY Current DEF Me
    <2>3. pc \in [Task -> {"run", "set", "armed", "asleep"}]
      BY DEF SleepInv
    <2>4. pc' = pc \/ SleepSet \/ SleepArm \/ SleepBlock \/ SleepReturn
      BY DEF SleepNext, SchedStep, sleepVars, TimerTick, sleep_task_timeout, TriggerWake
    <2>5. CASE SleepReturn
      <3>1. pc' = [pc EXCEPT ![c] = "run"]
        BY <2>2, <2>5 DEF SleepReturn
      <3>2. t = c
        BY <3>1, <2>1, <2>3
      <3> QED BY <3>2, <2>1, <2>2 DEF SleepInv
    <2>6. CASE SleepSet \/ SleepArm \/ SleepBlock
      <3>1. pc[c] # "asleep" /\ \E x \in {"set", "armed", "asleep"} : pc' = [pc EXCEPT ![c] = x]
        BY <2>2, <2>6 DEF SleepSet, SleepArm, SleepBlock
      <3> QED BY <3>1, <2>1, <2>3
    <2> QED BY <2>1, <2>4, <2>5, <2>6
  <1>3. []SleepInv /\ [][SleepNext]_<<vars, sleepVars>> => NoEarlyReturn
    BY <1>2, PTL DEF NoEarlyReturn
  <1> QED BY <1>1, <1>3, PTL DEF SleepSpec
=============================================================================
