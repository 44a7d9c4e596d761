------------------------------ MODULE WaitExit ------------------------------
(***************************************************************************)
(* The end of tasks: sys_exit, kthread_exit and sys_waitpid of             *)
(* src/task/wait_exit.c, with the fork that makes the tasks.               *)
(*                                                                         *)
(* A step is an interrupts-off section; a task that is not blocked may be  *)
(* preempted between any two.  proc_release sends a message if the process *)
(* has a window, and the mutex of the message pool switches the interrupts *)
(* on, so sys_exit looks at its parent in a step of its own.               *)
(*                                                                         *)
(* Tasks are named by their pids; a pid is never used again, and the       *)
(* global task list is in the order of the pids.  All processes have one   *)
(* thread.                                                                 *)
(***************************************************************************)
EXTENDS Integers, FiniteSetsExt

CONSTANTS N,          \* bound: pids go up to N
          KThread,    \* the kernel threads
          Triggered   \* the processes that are sent a special trigger

INIT_PROC_PID == 1
Pid == 1 .. N
Any == -1             \* the first argument of waitpid for any child
NoParent == -1

ASSUME WaitExitAssumption ==
    /\ N \in Nat \ {0}
    /\ KThread \subseteq Pid \ {INIT_PROC_PID}
    /\ Triggered \subseteq Pid \ KThread

VARIABLES state,     \* task->state; RUN is READY or RUNNING, FREED a PCB given back
          parent,    \* task->parent_pid
          pc,        \* where in waitpid or exit a task is
          arg,       \* the pid asked for by a task in waitpid
          ret,       \* what the last waitpid returned; NoRet before it returns
          found,     \* the parent an exiting task has seen waiting
          special,   \* a special trigger is set
          panicked

vars == <<state, parent, pc, arg, ret, found, special, panicked>>

NoRet == -2

Init ==
    /\ state = [t \in Pid |-> IF t \in KThread \cup {INIT_PROC_PID} THEN "RUN" ELSE "NEW"]
    /\ parent = [t \in Pid |-> NoParent]
    /\ pc = [t \in Pid |-> "run"]
    /\ arg = [t \in Pid |-> Any]
    /\ ret = [t \in Pid |-> NoRet]
    /\ found = [t \in Pid |-> INIT_PROC_PID]
    /\ special = [t \in Pid |-> FALSE]
    /\ panicked = FALSE

Children(p) == {c \in Pid : parent[c] = p /\ state[c] \notin {"NEW", "FREED"}}
Zombies(p) == {c \in Children(p) : state[c] = "ZOMBIE"}

\* Mutant: the PCB stays.
DestroyNothing(dead) == state

\* proc_destroy gives nothing back for a task without a vmm.
proc_destroy(dead) ==
    [t \in Pid |-> IF t \in dead \ KThread THEN "FREED" ELSE state[t]]

-----------------------------------------------------------------------------
\* sys_fork: the next pid is a child of the caller.
sys_fork(p) ==
    LET new == {c \in Pid : state[c] = "NEW"}
    IN  /\ pc[p] = "run" /\ state[p] = "RUN" /\ p \notin KThread
        /\ new # {}
        /\ state' = [state EXCEPT ![Min(new)] = "RUN"]
        /\ parent' = [parent EXCEPT ![Min(new)] = p]
        /\ UNCHANGED <<pc, arg, ret, found, special, panicked>>

\* waitpid returns r; on the way to user mode triggers are taken.
Return(p, r) ==
    /\ pc' = [pc EXCEPT ![p] = "run"]
    /\ ret' = [ret EXCEPT ![p] = r]
    /\ arg' = [arg EXCEPT ![p] = Any]
    /\ special' = [special EXCEPT ![p] = FALSE]

\* wait_any_hangging_child looks at the children of the caller,
\* wait_one_hangging_child at the pid only.
Hanging(p, a) ==
    {c \in Pid : state[c] = "HANGING" /\ IF a = Any THEN parent[c] = p ELSE c = a}

\* A turn of the loop of sys_waitpid, up to restore_intr.
Turn(p, a, nohang) ==
    /\ \/ /\ Hanging(p, a) # {}
          /\ LET c == Min(Hanging(p, a))
             IN  /\ state' = proc_destroy({c})
                 /\ Return(p, c)
       \/ /\ Hanging(p, a) = {} /\ Zombies(p) # {}
          /\ state' = proc_destroy(Zombies(p))
          /\ Return(p, Min(Zombies(p)))
       \/ /\ Hanging(p, a) = {} /\ Zombies(p) = {}
          /\ IF Children(p) = {} THEN Return(p, -1)
             ELSE IF nohang THEN Return(p, 0)
             ELSE /\ pc' = [pc EXCEPT ![p] = "block"]
                  /\ arg' = [arg EXCEPT ![p] = a]
                  /\ UNCHANGED <<ret, special>>
          /\ UNCHANGED state
    /\ UNCHANGED <<parent, found, panicked>>

sys_waitpid(p, a, nohang) ==
    /\ pc[p] = "run" /\ state[p] = "RUN" /\ p \notin KThread /\ ret[p] = NoRet
    /\ Turn(p, a, nohang)

\* The next turn after a wakeup without a special trigger.
WaitAgain(p) ==
    /\ pc[p] = "woken" /\ ~ special[p]
    /\ Turn(p, arg[p], FALSE)

WaitInterrupted(p) ==
    /\ pc[p] = "woken" /\ special[p]
    /\ Return(p, -1)
    /\ UNCHANGED <<state, parent, found, panicked>>

\* task_block(TASK_WAITING), interrupts having been on since the look.
WaitBlock(p) ==
    /\ pc[p] = "block"
    /\ pc' = [pc EXCEPT ![p] = "waiting"]
    /\ state' = [state EXCEPT ![p] = "WAITING"]
    /\ UNCHANGED <<parent, arg, ret, found, special, panicked>>

\* The caller has used the result.
Use(p) ==
    /\ pc[p] = "run" /\ ret[p] # NoRet
    /\ ret' = [ret EXCEPT ![p] = NoRet]
    /\ UNCHANGED <<state, parent, pc, arg, found, special, panicked>>

\* A process in waitpid is sent TRIGHSOFT, TRIGLSOFT or TRIGSYS.
TriggerWake(p) ==
    /\ p \in Triggered /\ pc[p] \in {"block", "waiting"} /\ ~ special[p]
    /\ special' = [special EXCEPT ![p] = TRUE]
    /\ IF state[p] = "WAITING"
       THEN state' = [state EXCEPT ![p] = "RUN"] /\ pc' = [pc EXCEPT ![p] = "woken"]
       ELSE UNCHANGED <<state, pc>>
    /\ UNCHANGED <<parent, arg, ret, found, panicked>>

-----------------------------------------------------------------------------
\* Mutant: the children keep their parent.
AdoptNobody(p) == parent

adopt_children_to_init(p) ==
    [c \in Pid |-> IF c \in Children(p) \ Zombies(p) THEN INIT_PROC_PID ELSE parent[c]]

\* sys_exit up to and with proc_release; kthread_exit makes INIT the parent.
\* INIT does not exit.
ExitRelease(p) ==
    /\ pc[p] = "run" /\ state[p] = "RUN" /\ p # INIT_PROC_PID /\ ret[p] = NoRet
    /\ state' = IF p \in KThread THEN state ELSE proc_destroy(Zombies(p))
    /\ parent' = IF p \in KThread THEN [parent EXCEPT ![p] = INIT_PROC_PID]
                 ELSE adopt_children_to_init(p)
    /\ pc' = [pc EXCEPT ![p] = "exit"]
    /\ UNCHANGED <<arg, ret, found, special, panicked>>

\* The parent is looked up and its state read; interrupts come on.
ExitLook(p) ==
    /\ pc[p] = "exit"
    /\ IF state[parent[p]] = "WAITING"
       THEN pc' = [pc EXCEPT ![p] = "unblock"] /\ found' = [found EXCEPT ![p] = parent[p]]
       ELSE pc' = [pc EXCEPT ![p] = "ZOMBIE"] /\ UNCHANGED found
    /\ UNCHANGED <<state, parent, arg, ret, special, panicked>>

\* task_unblock(parent): panics if the parent is not blocked any more.
ExitUnblock(p) ==
    /\ pc[p] = "unblock"
    /\ IF state[found[p]] = "WAITING"
       THEN /\ state' = [state EXCEPT ![found[p]] = "RUN"]
            /\ pc' = [pc EXCEPT ![p] = "HANGING", ![found[p]] = "woken"]
            /\ UNCHANGED panicked
       ELSE panicked' = TRUE /\ UNCHANGED <<state, pc>>
    /\ UNCHANGED <<parent, arg, ret, found, special>>

\* task_block(TASK_HANGING) or task_block(TASK_ZOMBIE): the last step.
ExitBlock(p) ==
    /\ pc[p] \in {"HANGING", "ZOMBIE"}
    /\ state' = [state EXCEPT ![p] = pc[p]]
    /\ pc' = [pc EXCEPT ![p] = "dead"]
    /\ UNCHANGED <<parent, arg, ret, found, special, panicked>>

-----------------------------------------------------------------------------
Waiting(p) ==
    \/ \E a \in {Any} \cup Pid, nohang \in BOOLEAN : sys_waitpid(p, a, nohang)
    \/ WaitAgain(p) \/ WaitInterrupted(p) \/ WaitBlock(p) \/ Use(p)

Exiting(p) == ExitLook(p) \/ ExitUnblock(p) \/ ExitBlock(p)

Next ==
    /\ ~ panicked
    /\ \E p \in Pid :
          sys_fork(p) \/ Waiting(p) \/ TriggerWake(p) \/ ExitRelease(p) \/ Exiting(p)

Spec == Init /\ [][Next]_vars

\* Tasks in the kernel go on, results are used, and INIT asks for any child
\* again and again.
Fairness ==
    /\ \A p \in Pid :
          /\ WF_vars(~ panicked /\ Exiting(p))
          /\ WF_vars(~ panicked /\ (WaitAgain(p) \/ WaitInterrupted(p) \/ WaitBlock(p) \/ Use(p)))
    /\ WF_vars(~ panicked /\ sys_waitpid(INIT_PROC_PID, Any, TRUE))

-----------------------------------------------------------------------------
(* Properties.                                                             *)

\* No orphans: the parent of a task whose PCB is there is a process that has
\* not begun to exit, whoever exits, forks or is collected in whatever order.
ParentAlive ==
    \A c \in Pid \ KThread :
        state[c] \notin {"NEW", "FREED"} /\ c # INIT_PROC_PID =>
            state[parent[c]] \in {"RUN", "WAITING"} /\
            pc[parent[c]] \in {"run", "block", "waiting", "woken"}

\* A process is collected by one waitpid at most: two processes, INIT and a
\* foster child say, never both hold the pid of a dead one.
CollectedOnce ==
    [][\A p, q \in Pid : ret'[p] \in Pid \ KThread /\ ret[p] = NoRet =>
          /\ state[ret'[p]] \in {"HANGING", "ZOMBIE"} /\ state'[ret'[p]] = "FREED"
          /\ p # q => ret'[q] # ret'[p]]_vars

\* "Stays WAITING until a child exits" (sys_waitpid): a process in waitpid with
\* a child that has exited gets out of it.
InWait(p) == pc[p] \in {"block", "waiting", "woken"}

WaiterReturns ==
    \A p \in Pid :
        InWait(p) /\ arg[p] = Any /\ (\E c \in Children(p) : pc[c] = "dead")
            ~> ~ InWait(p) \/ panicked

=============================================================================
