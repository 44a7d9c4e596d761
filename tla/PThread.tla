------------------------------ MODULE PThread ------------------------------
(***************************************************************************)
(* The threads of one process: src/task/pthread.c, close_one_thread and    *)
(* close_other_threads of src/task/wait_exit.c, and what sys_waitpid does  *)
(* with a dead thread.                                                     *)
(*                                                                         *)
(* A step is an interrupts-off section.  Threads are numbered in the order *)
(* of their pids; parents outside the process (the one that forked it, and *)
(* INIT) are one, which may be waiting or not at any time.  The waitpid of *)
(* a thread is the one with WNOHANG; module WaitExit has the one that      *)
(* sleeps.                                                                 *)
(***************************************************************************)
EXTENDS Integers, FiniteSets, FiniteSetsExt

CONSTANTS N,              \* bound: threads that are made, with the first one
          PTHREAD_MAX_NR, \* threads at a time
          Cancelled       \* the threads that are sent a cancel

Thread == 1 .. N
Main == 1
Outside == 0
NoThread == 0
Flag == {"DETACH", "JOINED", "JOINING", "CANCELED", "DISABLE", "ASYNC"}

PThreadConstants ==
    N \in Nat \ {0} /\ PTHREAD_MAX_NR \in Nat \ {0} /\ Cancelled \subseteq Thread

VARIABLES state,    \* task->state; RUN is READY or RUNNING, FREED a PCB given back
          parent,   \* task->parent_pid
          flags,    \* THREAD_FLAG_...
          pc,
          other,    \* the thread joined or detached, or the one an exit unblocks
          count,    \* thread_count
          vmm,      \* the address space is there
          closed,   \* how many threads were closed by another one
          missed,   \* joiners whose thread ended where they could not see it
          panicked  \* a panic, or the use of a freed PCB

vars == <<state, parent, flags, pc, other, count, vmm, closed, missed, panicked>>

\* pthread_desc_init: the first thread is the process.
Init ==
    /\ state = [t \in Thread |-> IF t = Main THEN "RUN" ELSE "NEW"]
    /\ parent = [t \in Thread |-> Outside]
    /\ flags = [t \in Thread |-> {}]
    /\ pc = [t \in Thread |-> "user"]
    /\ other = [t \in Thread |-> NoThread]
    /\ count = 1 /\ closed = 0
    /\ vmm = TRUE /\ missed = {} /\ panicked = FALSE

Joining == {"block", "asleep", "look"}
Ending == {"unblock", "HANGING", "ZOMBIE", "dead"}

\* Not begun to exit, and not closed.
Alive(t) == state[t] \in {"RUN", "WAITING"} /\ pc[t] \notin Ending

Runs(t) == state[t] = "RUN" /\ pc[t] = "user"
Exists(t) == state[t] \notin {"NEW", "FREED"}

\* CHECK_THREAD_CANCELATION_POTINT lets it pass.
Passes(t) == "CANCELED" \in flags[t] => "DISABLE" \in flags[t]

Unblocks(t, w) == pc[t] = "unblock" /\ other[t] = w
Joiners(t) == {w \in Thread : pc[w] \in Joining /\ other[w] = t}

-----------------------------------------------------------------------------
\* pthread_start, with room for one more.
pthread_start(p, t, detached) ==
    /\ Runs(p) /\ state[t] = "NEW" /\ \A u \in 1 .. t - 1 : state[u] # "NEW"
    /\ count + 1 <= PTHREAD_MAX_NR
    /\ count' = count + 1
    /\ state' = [state EXCEPT ![t] = "RUN"]
    /\ parent' = [parent EXCEPT ![t] = p]
    /\ flags' = [flags EXCEPT ![t] = IF detached THEN {"DETACH"} ELSE {}]
    /\ UNCHANGED <<pc, other, vmm, closed, missed, panicked>>

-----------------------------------------------------------------------------
(* pthread_join.                                                           *)

\* A turn of the loop: the thread hangs and is destroyed, or the flag JOINING
\* was taken from the caller, or interrupts go on and the caller will sleep.
JoinTurn(w, t, joining) ==
    \/ /\ state[t] = "HANGING"
       /\ state' = [state EXCEPT ![t] = "FREED"]
       /\ pc' = [pc EXCEPT ![w] = "user"]
       /\ other' = [other EXCEPT ![w] = NoThread]
       /\ missed' = missed \ {w}
    \/ /\ state[t] # "HANGING" /\ ~ joining
       /\ pc' = [pc EXCEPT ![w] = "user"]
       /\ other' = [other EXCEPT ![w] = NoThread]
       /\ missed' = missed \ {w}
       /\ UNCHANGED state
    \/ /\ state[t] # "HANGING" /\ joining
       /\ pc' = [pc EXCEPT ![w] = "block"]
       /\ other' = [other EXCEPT ![w] = t]
       /\ missed' = IF pc[t] \in Ending /\ ~ Unblocks(t, w) THEN missed \cup {w} ELSE missed
       /\ UNCHANGED state

\* A thread that is not dead, detached or joined gets the caller as its parent.
pthread_join(w, t) ==
    /\ Runs(w) /\ Passes(w)
    /\ Exists(t) /\ state[t] # "ZOMBIE" /\ flags[t] \cap {"DETACH", "JOINED"} = {}
    /\ flags' = [u \in Thread |-> flags[u] \cup (IF u = t THEN {"JOINED"} ELSE {})
                                           \cup (IF u = w THEN {"JOINING"} ELSE {})]
    /\ parent' = [parent EXCEPT ![t] = w]
    /\ JoinTurn(w, t, TRUE)
    /\ UNCHANGED <<count, vmm, closed, panicked>>

JoinBlock(w) ==
    /\ pc[w] = "block"
    /\ pc' = [pc EXCEPT ![w] = "asleep"]
    /\ state' = [state EXCEPT ![w] = "WAITING"]
    /\ UNCHANGED <<parent, flags, other, count, vmm, closed, missed, panicked>>

JoinAgain(w) ==
    /\ pc[w] = "look"
    /\ JoinTurn(w, other[w], "JOINING" \in flags[w])
    /\ UNCHANGED <<parent, flags, count, vmm, closed, panicked>>

\* A trigger wakes the joiner.
TriggerWake(w) ==
    /\ pc[w] = "asleep"
    /\ pc' = [pc EXCEPT ![w] = "look"]
    /\ state' = [state EXCEPT ![w] = "RUN"]
    /\ UNCHANGED <<parent, flags, other, count, vmm, closed, missed, panicked>>

-----------------------------------------------------------------------------
(* pthread_exit.                                                           *)

\* The joiner of a detached thread, if it sleeps: it is woken without JOINING.
Released(t) ==
    {w \in Thread : /\ {"DETACH", "JOINED"} \subseteq flags[t]
                    /\ parent[t] = w /\ state[w] = "WAITING"}

\* sys_exit: the other threads are closed; the parent, if it is not one of
\* them, is waiting or not.
EndProcess(t) ==
    /\ state' = [u \in Thread |-> IF u # t /\ Exists(u) THEN "FREED" ELSE state[u]]
    /\ \E end \in IF parent[t] = Outside THEN {"HANGING", "ZOMBIE"} ELSE {"ZOMBIE"} :
          pc' = [u \in Thread |-> IF u = t THEN end ELSE IF Exists(u) THEN "dead" ELSE pc[u]]
    /\ count' = 0 /\ closed' = 0 /\ missed' = {}
    /\ UNCHANGED <<parent, flags, other, vmm, panicked>>

sys_exit(t) == Runs(t) /\ EndProcess(t)

\* Mutant: the one that exits is not taken off the count.
LeaveUncounted == count' = count

Leave == count' = count - 1

\* Mutant: the parent is not looked at.
ParentWaitsNever(t) == FALSE

\* What the exiting thread sees of its parent; one that was just released does
\* not wait.
ParentWaits(t) ==
    parent[t] # Outside /\ state[parent[t]] = "WAITING" /\ "DETACH" \notin flags[t]

\* The section up to restore_intr.  A detached thread goes to INIT.
pthread_exit(t) ==
    /\ state[t] = "RUN" /\ pc[t] \in {"user", "cancel"}
    /\ IF count = 1 THEN EndProcess(t)
       ELSE /\ Leave
            /\ flags' = [u \in Thread |-> IF u \in Released(t) THEN flags[u] \ {"JOINING"} ELSE flags[u]]
            /\ state' = [u \in Thread |-> IF u \in Released(t) THEN "RUN" ELSE state[u]]
            /\ parent' = [parent EXCEPT ![t] = IF "DETACH" \in flags[t] THEN Outside ELSE @]
            /\ other' = [other EXCEPT ![t] = IF ParentWaits(t) THEN parent[t] ELSE NoThread]
            /\ \E end \in IF ParentWaits(t) THEN {"unblock"}
                          ELSE IF parent'[t] = Outside THEN {"HANGING", "ZOMBIE"} ELSE {"ZOMBIE"} :
                  pc' = [u \in Thread |-> IF u = t THEN end
                                          ELSE IF u \in Released(t) THEN "look" ELSE pc[u]]
            /\ missed' = missed \cup {w \in Joiners(t) : state[w] # "WAITING"}
            /\ UNCHANGED <<vmm, closed, panicked>>

\* task_unblock with interrupts on since the look.
task_unblock(t, w, next) ==
    IF state[w] = "WAITING"
    THEN /\ state' = [state EXCEPT ![w] = "RUN"]
         /\ pc' = [pc EXCEPT ![w] = "look", ![t] = next]
         /\ UNCHANGED panicked
    ELSE panicked' = TRUE /\ UNCHANGED <<state, pc>>

ExitUnblock(t) ==
    /\ pc[t] = "unblock"
    /\ task_unblock(t, other[t], "HANGING")
    /\ other' = [other EXCEPT ![t] = NoThread]
    /\ UNCHANGED <<parent, flags, count, vmm, closed, missed>>

ExitBlock(t) ==
    /\ pc[t] \in {"HANGING", "ZOMBIE"}
    /\ state' = [state EXCEPT ![t] = pc[t]]
    /\ pc' = [pc EXCEPT ![t] = "dead"]
    /\ UNCHANGED <<parent, flags, other, count, vmm, closed, missed, panicked>>

-----------------------------------------------------------------------------
(* sys_thread_detach: interrupts are on all along, and the thread may be   *)
(* freed by the time its flags are read.                                   *)

DetachMark(s, t) ==
    /\ Runs(s) /\ Exists(t)
    /\ flags' = [flags EXCEPT ![t] = @ \cup {"DETACH"}]
    /\ pc' = [pc EXCEPT ![s] = "detach"]
    /\ other' = [other EXCEPT ![s] = t]
    /\ UNCHANGED <<state, parent, count, vmm, closed, missed, panicked>>

DetachLook(s) ==
    LET w == parent[other[s]]
        sleeper == "JOINED" \in flags[other[s]] /\ w # Outside /\ state[w] = "WAITING"
    IN  /\ pc[s] = "detach"
        /\ \E found \in IF Exists(other[s]) THEN {sleeper} ELSE {sleeper, FALSE} :
              /\ pc' = [pc EXCEPT ![s] = IF found THEN "release" ELSE "user"]
              /\ other' = [other EXCEPT ![s] = IF found THEN w ELSE NoThread]
        /\ UNCHANGED <<state, parent, flags, count, vmm, closed, missed, panicked>>

DetachUnblock(s) ==
    /\ pc[s] = "release"
    /\ flags' = [flags EXCEPT ![other[s]] = @ \ {"JOINING"}]
    /\ task_unblock(s, other[s], "user")
    /\ other' = [other EXCEPT ![s] = NoThread]
    /\ UNCHANGED <<parent, count, vmm, closed, missed>>

-----------------------------------------------------------------------------
(* Cancellation.                                                           *)

\* sys_thread_setcancelstate and sys_thread_setcanceltype.
SetCancel(t, flag) ==
    /\ Runs(t) /\ t \in Cancelled
    /\ \E new \in {flags[t] \cup {flag}, flags[t] \ {flag}} : flags' = [flags EXCEPT ![t] = new]
    /\ UNCHANGED <<state, parent, pc, other, count, vmm, closed, missed, panicked>>

\* close_one_thread: the count stays, nobody is told.
close_one_thread(t) ==
    /\ state' = [state EXCEPT ![t] = "FREED"]
    /\ pc' = [pc EXCEPT ![t] = "dead"]
    /\ closed' = IF Alive(t) THEN closed + 1 ELSE closed
    /\ missed' = (missed \cup Joiners(t)) \ {t}

\* sys_thread_cancel: at the next cancellation point, or at once.
sys_thread_cancel(s, t) ==
    /\ Runs(s) /\ Exists(t) /\ t \in Cancelled
    /\ flags' = [flags EXCEPT ![t] = @ \cup {"CANCELED"}]
    /\ IF "ASYNC" \notin flags[t] THEN UNCHANGED <<state, pc, closed, missed>>
       ELSE IF t = s THEN pc' = [pc EXCEPT ![s] = "cancel"] /\ UNCHANGED <<state, closed, missed>>
       ELSE close_one_thread(t)
    /\ UNCHANGED <<parent, other, count, vmm, panicked>>

\* The end of a cancelled thread that comes to sys_thread_testcancel or another
\* cancellation point is its pthread_exit.

-----------------------------------------------------------------------------
\* proc_destroy as sys_waitpid calls it, for the hanging and zombie children of
\* the caller: the address space goes too if the process counts as a single
\* thread.
Collect(dead) ==
    /\ dead # {}
    /\ state' = [t \in Thread |-> IF t \in dead THEN "FREED" ELSE state[t]]
    /\ vmm' = (vmm /\ count > 1)
    /\ UNCHANGED <<parent, flags, pc, other, count, closed, missed, panicked>>

Dead(p, st) == {t \in Thread : parent[t] = p /\ state[t] = st}

sys_waitpid(w) ==
    /\ Runs(w) /\ Passes(w)
    /\ \/ \E t \in Dead(w, "HANGING") : t = Min(Dead(w, "HANGING")) /\ Collect({t})
       \/ Dead(w, "HANGING") = {} /\ Collect(Dead(w, "ZOMBIE"))

OutsideCollects ==
    \E t \in Dead(Outside, "HANGING") \cup Dead(Outside, "ZOMBIE") : Collect({t})

-----------------------------------------------------------------------------
Exiting(t) == pthread_exit(t) \/ sys_exit(t) \/ ExitUnblock(t) \/ ExitBlock(t)

Step(t) ==
    \/ \E u \in Thread, detached \in BOOLEAN : pthread_start(t, u, detached)
    \/ \E u \in Thread : pthread_join(t, u) \/ DetachMark(t, u) \/ sys_thread_cancel(t, u)
    \/ JoinBlock(t) \/ JoinAgain(t) \/ TriggerWake(t)
    \/ Exiting(t)
    \/ DetachLook(t) \/ DetachUnblock(t)
    \/ \E flag \in {"DISABLE", "ASYNC"} : SetCancel(t, flag)
    \/ sys_waitpid(t)

Next == ~ panicked /\ ((\E t \in Thread : Step(t)) \/ OutsideCollects)

Spec == Init /\ [][Next]_vars

-----------------------------------------------------------------------------
(* Properties.                                                             *)

\* thread_count, by which pthread_exit decides to end the process, is the
\* number of threads that have not begun to exit and of those that were closed
\* by sys_thread_cancel: the process never ends over the head of a thread.
CountExact == count = Cardinality({t \in Thread : Alive(t)}) + closed

\* pthread_join: whoever sleeps for a thread sleeps for one that lives and has
\* the sleeper as its parent, or that is about to wake it; unless the thread
\* ended before the sleeper was asleep or while it looked, or was closed.
JoinerRemembered ==
    \A w \in Thread :
        pc[w] = "asleep" /\ w \notin missed =>
            LET t == other[w]
            IN  \/ Alive(t) /\ parent[t] = w
                \/ Unblocks(t, w)

\* "A child thread frees its structure only" (proc_destroy): the address space
\* is there as long as a thread of the process lives.
VmmAlive == vmm \/ \A t \in Thread : ~ Alive(t)
=============================================================================
