------------------------------ MODULE Srvcall ------------------------------
(***************************************************************************)
(* Service calls: src/kernel/srvcall.c.  A server binds a port and goes    *)
(* round listen, fetch and ack; callers poll for the port to listen, leave *)
(* their arguments and sleep until the answer is there.                    *)
(*                                                                         *)
(* One port.  A step is a section between spin_lock and spin_unlock; who   *)
(* is preempted in one keeps the others polling.  Going to sleep is a step *)
(* of its own, after the unlock.  Arguments are named by the caller.       *)
(***************************************************************************)
EXTENDS FiniteSets

CONSTANTS Server, Caller, NoTask

SrvcallConstants == Server \cap Caller = {} /\ NoTask \notin Server \cup Caller

Party == Server \cup Caller

VARIABLES state, holder, caller, \* of srvcall_t
          arg,         \* call->arg: whose arguments, and to whose the answer is
          pc,
          serving,     \* the arguments a server has got
          got,         \* the call->arg that the last call of a caller returned
          missed,      \* tasks that were to be woken when they were not asleep yet
          disturbed,   \* a trigger has woken a sleeper, or a second bind taken the port
          panicked

vars == <<state, holder, caller, arg, pc, serving, got, missed, disturbed, panicked>>

NoArg == [of |-> NoTask, answer |-> NoTask]

\* init_srvcall.
Init ==
    /\ state = "FINISH" /\ holder = NoTask /\ caller = NoTask
    /\ arg = NoArg
    /\ pc = [t \in Party |-> "user"]
    /\ serving = [s \in Server |-> NoTask]
    /\ got = [c \in Caller |-> NoArg]
    /\ missed = {} /\ disturbed = FALSE /\ panicked = FALSE

Asleep(t) == pc[t] \in {"listening", "acked", "calling"}

\* Where a task goes on after its sleep.
Resume(t) == IF pc[t] = "acked" THEN "user" ELSE "copy"

-----------------------------------------------------------------------------
(* The server.                                                             *)

\* sys_srvcall_bind: the test and the assignment are two steps.
Bind(s) ==
    /\ pc[s] = "user" /\ holder = NoTask
    /\ pc' = [pc EXCEPT ![s] = "bind"]
    /\ UNCHANGED <<state, holder, caller, arg, serving, got, missed, disturbed, panicked>>

BindSet(s) ==
    /\ pc[s] = "bind"
    /\ holder' = s
    /\ pc' = [pc EXCEPT ![s] = "user"]
    /\ disturbed' = (disturbed \/ holder # NoTask)
    /\ UNCHANGED <<state, caller, arg, serving, got, missed, panicked>>

sys_srvcall_unbind(s) ==
    /\ pc[s] = "user" /\ holder = s
    /\ holder' = NoTask
    /\ UNCHANGED <<state, caller, arg, pc, serving, got, missed, disturbed, panicked>>

sys_srvcall_listen(s) ==
    /\ pc[s] = "user" /\ holder = s
    /\ state' = "LISTEN"
    /\ pc' = [pc EXCEPT ![s] = "listen"]
    /\ UNCHANGED <<holder, caller, arg, serving, got, missed, disturbed, panicked>>

\* COPY_SRVARG at the end of listen, and sys_srvcall_fetch.
ListenCopy(s) ==
    /\ s \in Server /\ pc[s] = "copy"
    /\ serving' = [serving EXCEPT ![s] = arg.of]
    /\ pc' = [pc EXCEPT ![s] = "serve"]
    /\ UNCHANGED <<state, holder, caller, arg, got, missed, disturbed, panicked>>

\* Mutant: ack does not wait for the caller.
AfterAckUser == "user"

AfterAck == "ack"

\* sys_srvcall_ack: the answer is put over the arguments, and the caller woken if
\* it is asleep.
sys_srvcall_ack(s) ==
    /\ pc[s] = "serve"
    /\ IF holder # s THEN pc' = [pc EXCEPT ![s] = "user"] /\ UNCHANGED <<state, caller, arg, missed>>
       ELSE /\ state' = "ACK"
            /\ arg' = [arg EXCEPT !.answer = serving[s]]
            /\ pc' = [t \in Party |-> IF t = s THEN AfterAck
                                     ELSE IF t = caller /\ Asleep(t) THEN Resume(t) ELSE pc[t]]
            /\ missed' = missed \cup {t \in Party : t = caller /\ ~ Asleep(t)}
            /\ caller' = NoTask
    /\ serving' = [serving EXCEPT ![s] = NoTask]
    /\ UNCHANGED <<holder, got, disturbed, panicked>>

-----------------------------------------------------------------------------
(* sys_srvcall.                                                            *)

Call(c) ==
    /\ pc[c] = "user" /\ holder # NoTask
    /\ pc' = [pc EXCEPT ![c] = "poll"]
    /\ got' = [got EXCEPT ![c] = NoArg]
    /\ UNCHANGED <<state, holder, caller, arg, serving, missed, disturbed, panicked>>

\* The port listens, and the arguments are copied.  There may be no memory for
\* their buffers; the server may not sleep yet, or the port not be bound any
\* more, and the kernel stops.
Request(c) ==
    /\ pc[c] = "poll" /\ state = "LISTEN"
    /\ arg' = [of |-> c, answer |-> NoTask]
    /\ \/ /\ pc' = [pc EXCEPT ![c] = "user"]
          /\ UNCHANGED <<state, caller, panicked>>
       \/ /\ state' = "PENDING" /\ caller' = c
          /\ LET sleeps == holder \in Server /\ Asleep(holder)
             IN  /\ panicked' = ~ sleeps
                 /\ pc' = [t \in Party |-> IF t = c THEN "call"
                                          ELSE IF t = holder /\ sleeps THEN Resume(t) ELSE pc[t]]
    /\ UNCHANGED <<holder, serving, got, missed, disturbed>>

\* The answer goes to the caller, the buffers are given back.
CallCopy(c) ==
    /\ c \in Caller /\ pc[c] = "copy"
    /\ got' = [got EXCEPT ![c] = arg]
    /\ state' = "FINISH"
    /\ pc' = [pc EXCEPT ![c] = "wake"]
    /\ missed' = missed \ {c}
    /\ UNCHANGED <<holder, caller, arg, serving, disturbed, panicked>>

\* holder->state == TASK_BLOCKED.
Wakes(c) == {s \in Server : s = holder /\ Asleep(s)}

CallWake(c) ==
    /\ pc[c] = "wake"
    /\ pc' = [t \in Party |-> IF t = c THEN "user" ELSE IF t \in Wakes(c) THEN Resume(t) ELSE pc[t]]
    /\ missed' = missed \cup {s \in Server : s = holder /\ pc[s] = "ack"}
    /\ panicked' = (holder = NoTask)
    /\ UNCHANGED <<state, holder, caller, arg, serving, got, disturbed>>

-----------------------------------------------------------------------------
\* task_block after the unlock.
Block(t) ==
    /\ pc[t] \in {"listen", "ack", "call"}
    /\ pc' = [pc EXCEPT ![t] = CASE @ = "listen" -> "listening" [] @ = "ack" -> "acked"
                                 [] OTHER -> "calling"]
    /\ UNCHANGED <<state, holder, caller, arg, serving, got, missed, disturbed, panicked>>

TriggerWake(t) ==
    /\ Asleep(t)
    /\ pc' = [pc EXCEPT ![t] = Resume(t)]
    /\ disturbed' = TRUE
    /\ UNCHANGED <<state, holder, caller, arg, serving, got, missed, panicked>>

Next ==
    /\ ~ panicked
    /\ \/ \E s \in Server :
             \/ Bind(s) \/ BindSet(s) \/ sys_srvcall_unbind(s)
             \/ sys_srvcall_listen(s) \/ ListenCopy(s) \/ sys_srvcall_ack(s)
       \/ \E c \in Caller : Call(c) \/ Request(c) \/ CallCopy(c) \/ CallWake(c)
       \/ \E t \in Party : Block(t) \/ TriggerWake(t)

Spec == Init /\ [][Next]_vars

-----------------------------------------------------------------------------
(* Properties.                                                             *)

\* As long as no trigger wakes a sleeper a call returns the answer to its own
\* arguments, however many callers poll the port ...
OwnAnswer == \A c \in Caller : got[c] # NoArg => got[c] = [of |-> c, answer |-> c]

\* ... a sleeping caller is the one that the server will answer, or was not
\* asleep when it was answered; and a server that sleeps after its answer has
\* a caller on the way, or was not asleep when the caller had done.
Expected ==
    /\ \A c \in Caller \ missed : pc[c] = "calling" => caller = c /\ state = "PENDING"
    /\ \A s \in Server \ missed : pc[s] = "acked" =>
           \E c \in Caller : pc[c] \in {"copy", "wake"} \/ (c \in missed /\ arg.answer = c)

CallsServed == ~ disturbed => OwnAnswer /\ Expected
=============================================================================
