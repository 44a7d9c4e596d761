----------------------------- MODULE MCWaitExit -----------------------------
(***************************************************************************)
(* A small instance of WaitExit for TLC.  In a behaviour of use "poll"     *)
(* nobody sleeps in waitpid: every call has the flag WNOHANG or finds a    *)
(* child to return.  In one of use "any" the last pid is not given out, to *)
(* make up for the calls that sleep.                                       *)
(***************************************************************************)
EXTENDS WaitExit

CONSTANT Uses

VARIABLE use \* chosen at the start, never changed

MCInit == Init /\ use \in Uses

MCNext ==
    /\ Next
    /\ use = "poll" => \A p \in Pid : pc'[p] # "block"
    /\ use = "any" => state'[N] = "NEW"
    /\ UNCHANGED use

MCSpec == MCInit /\ [][MCNext]_<<vars, use>> /\ Fairness

\* With INIT collecting, a task that has exited is given back in the end unless
\* its own parent lives on and does not care: the parent may exit before or
\* after it, at any point of the child's exit.
DeadAreFreed ==
    \A c \in Pid \ KThread :
        use = "poll" /\ pc[c] = "dead" ~>
            \/ state[c] = "FREED"
            \/ parent[c] \in Pid \ {INIT_PROC_PID} /\ pc[parent[c]] = "run"
=============================================================================
