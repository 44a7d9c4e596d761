--------------------------- MODULE WaitExitProofs ---------------------------
(***************************************************************************)
(* Proofs about module WaitExit, for any number of pids and any kernel     *)
(* threads.                                                                *)
(*                                                                         *)
(* That a parent is alive is preserved by its own exit only because        *)
(* INIT, who adopts its children, never exits, and by everybody else's     *)
(* because what a task is doing (pc) decides the state that others read.   *)
(* That nobody is collected twice rests on the PCB: what a waitpid has     *)
(* returned stays given back.                                              *)
(***************************************************************************)
EXTENDS WaitExit, WellFoundedInduction, TLAPS

States == {"NEW", "RUN", "WAITING", "HANGING", "ZOMBIE", "FREED"}
Living == {"run", "block", "waiting", "woken"}
Leaving == {"exit", "unblock", "HANGING", "ZOMBIE"}

TypeOK ==
    /\ state \in [Pid -> States]
    /\ parent \in [Pid -> Pid \cup {NoParent}]
    /\ pc \in [Pid -> Living \cup Leaving \cup {"dead"}]
    /\ ret \in [Pid -> Int]
    /\ found \in [Pid -> Pid]

\* Where a task is decides its state.
StateOfPlace ==
    \A t \in Pid :
        /\ pc[t] \in Leaving \cup {"block", "woken"} => state[t] = "RUN"
        /\ pc[t] = "run" => state[t] \in {"NEW", "RUN"}
        /\ pc[t] = "waiting" => state[t] = "WAITING"
        /\ pc[t] = "dead" => state[t] \in {"HANGING", "ZOMBIE", "FREED"}

InitStays == pc[INIT_PROC_PID] \in Living /\ state[INIT_PROC_PID] # "NEW"

\* Kernel threads are there from the start, fork and wait for nobody, and leave
\* as children of INIT.
KThreads ==
    \A k \in KThread :
        /\ state[k] \notin {"NEW", "FREED"} /\ pc[k] \notin {"block", "waiting", "woken"}
        /\ pc[k] \in Leaving => parent[k] = INIT_PROC_PID

\* Every other task is the child of a process that is there and does not exit.
ChildOf ==
    \A c \in Pid \ KThread :
        state[c] \notin {"NEW", "FREED"} /\ c # INIT_PROC_PID =>
            /\ parent[c] \in Pid \ KThread /\ pc[parent[c]] \in Living
            /\ state[parent[c]] # "NEW"

\* What waitpid has returned is given back.
ReturnedFreed ==
    \A p \in Pid : ret[p] \in Pid \ KThread => state[ret[p]] = "FREED"

WaitInv == TypeOK /\ StateOfPlace /\ InitStays /\ KThreads /\ ChildOf /\ ReturnedFreed

-----------------------------------------------------------------------------
(* The pids.                                                               *)

\* INIT is a process; none of the other results of waitpid is a pid.
LEMMA PidFacts ==
    /\ INIT_PROC_PID \in Pid \ KThread /\ Pid \subseteq Nat
    /\ NoParent \notin Pid /\ NoRet \notin Pid /\ -1 \notin Pid /\ 0 \notin Pid
    /\ Pid \subseteq Int /\ NoRet \in Int /\ -1 \in Int /\ 0 \in Int
  BY WaitExitAssumption DEF INIT_PROC_PID, Pid, NoParent, NoRet

\* The first task of the global list that is asked for is one of those.
LEMMA FirstOfThem ==
    ASSUME NEW S, S \subseteq Pid, S # {} PROVE Min(S) \in S
  <1>1. S \subseteq Nat
    BY PidFacts
  <1>2. PICK n \in S : \A m \in S : ~ (<<m, n>> \in OpToRel(<, Nat))
    BY <1>1, NatLessThanWellFounded, WFMin
  <1>3. \A m \in S : n =< m
    <2>1. \A m \in S : ~ (m < n)
      BY <1>1, <1>2 DEF OpToRel
    <2> QED BY <2>1, <1>1
  <1> QED BY <1>3 DEF Min

-----------------------------------------------------------------------------
(* The invariant and the actions.                                          *)

\* At the start there are INIT and the kernel threads.
LEMMA InitWait == Init => WaitInv
  BY PidFacts, WaitExitAssumption
  DEF Init, WaitInv, TypeOK, States, Living, Leaving, StateOfPlace, InitStays, KThreads,
      ChildOf, ReturnedFreed

\* fork makes a child of the caller, who is not leaving.
LEMMA ForkWait ==
    ASSUME WaitInv, NEW p \in Pid, sys_fork(p) PROVE WaitInv'
  <1> DEFINE new == {c \in Pid : state[c] = "NEW"}
             n == Min(new)
  <1>1. n \in new
    BY FirstOfThem DEF sys_fork
  <1> HIDE DEF new
  <1>2. n \in Pid /\ state[n] = "NEW"
    BY <1>1 DEF new
  <1>3. /\ pc[p] = "run" /\ state[p] = "RUN" /\ p \notin KThread
        /\ state' = [state EXCEPT ![n] = "RUN"]
        /\ parent' = [parent EXCEPT ![n] = p]
        /\ UNCHANGED <<pc, arg, ret, found, special, panicked>>
    BY DEF sys_fork, new
  <1> HIDE DEF n
  <1>4. /\ \A t \in Pid : state'[t] = IF t = n THEN "RUN" ELSE state[t]
        /\ \A t \in Pid : parent'[t] = IF t = n THEN p ELSE parent[t]
    BY <1>2, <1>3 DEF WaitInv, TypeOK
  <1>5. n # INIT_PROC_PID /\ n \notin KThread /\ n # p /\ pc[n] = "run"
    BY <1>2, <1>3, PidFacts DEF WaitInv, StateOfPlace, InitStays, KThreads, TypeOK, Living, Leaving
  <1>6. TypeOK'
    BY <1>2, <1>3 DEF WaitInv, TypeOK, States
  <1>7. StateOfPlace'
    BY <1>3, <1>4, <1>5 DEF WaitInv, StateOfPlace, Leaving
  <1>8. InitStays' /\ KThreads'
    BY <1>3, <1>4, <1>5, PidFacts, WaitExitAssumption DEF WaitInv, InitStays, KThreads
  <1>9. ChildOf'
    <2> SUFFICES ASSUME NEW c \in Pid \ KThread, state'[c] \notin {"NEW", "FREED"},
                        c # INIT_PROC_PID
                 PROVE  /\ parent'[c] \in Pid \ KThread /\ pc'[parent'[c]] \in Living
                        /\ state'[parent'[c]] # "NEW"
      BY DEF ChildOf
    <2>1. CASE c = n
      BY <2>1, <1>3, <1>4, <1>5 DEF Living
    <2>2. CASE c # n
      <3>1. /\ parent[c] \in Pid \ KThread /\ pc[parent[c]] \in Living
            /\ state[parent[c]] # "NEW" /\ parent'[c] = parent[c]
        BY <2>2, <1>4 DEF WaitInv, ChildOf
      <3> QED BY <3>1, <1>3, <1>4
    <2> QED BY <2>1, <2>2
  <1>10. ReturnedFreed'
    BY <1>2, <1>3, <1>4 DEF WaitInv, ReturnedFreed
  <1> QED BY <1>6, <1>7, <1>8, <1>9, <1>10 DEF WaitInv

\* Giving back tasks that are dead, and a step of a living process to another
\* place where it is living, with a result that is given back if it is a pid.
LEMMA CollectWait ==
    ASSUME WaitInv, NEW p \in Pid, p \notin KThread, NEW dead \in SUBSET Pid, NEW r \in Int,
           NEW at \in Living \ {"waiting"},
           pc[p] \in Living, state[p] = "RUN",
           \A c \in dead : state[c] \in {"HANGING", "ZOMBIE"},
           r \in Pid \ KThread => (r \in dead \/ state[r] = "FREED"),
           state' = proc_destroy(dead), pc' = [pc EXCEPT ![p] = at],
           ret' = [ret EXCEPT ![p] = r], UNCHANGED <<parent, found>>
    PROVE  WaitInv'
  <1>1. /\ \A t \in Pid : state'[t] = IF t \in dead \ KThread THEN "FREED" ELSE state[t]
        /\ \A t \in Pid : pc'[t] = IF t = p THEN at ELSE pc[t]
        /\ \A t \in Pid : ret'[t] = IF t = p THEN r ELSE ret[t]
        /\ parent' = parent /\ found' = found
    BY DEF WaitInv, TypeOK, proc_destroy
  <1>2. \A c \in dead : pc[c] = "dead" /\ c # p
    BY DEF WaitInv, TypeOK, StateOfPlace, Leaving, Living
  <1>3. TypeOK'
    BY DEF WaitInv, TypeOK, proc_destroy, States, Living
  <1>4. StateOfPlace'
    BY <1>1, <1>2 DEF WaitInv, StateOfPlace, Leaving, Living
  <1>5. InitStays'
    BY <1>1, <1>2, PidFacts DEF WaitInv, InitStays, Living
  <1>6. KThreads'
    BY <1>1, <1>2, WaitExitAssumption DEF WaitInv, KThreads
  <1>7. ChildOf'
    <2> SUFFICES ASSUME NEW c \in Pid \ KThread, state'[c] \notin {"NEW", "FREED"},
                        c # INIT_PROC_PID
                 PROVE  /\ parent'[c] \in Pid \ KThread /\ pc'[parent'[c]] \in Living
                        /\ state'[parent'[c]] # "NEW"
      BY DEF ChildOf
    <2>1. /\ parent[c] \in Pid \ KThread /\ pc[parent[c]] \in Living
          /\ state[parent[c]] # "NEW"
      BY <1>1 DEF WaitInv, ChildOf
    <2> QED BY <2>1, <1>1
  <1>8. ReturnedFreed'
    <2> SUFFICES ASSUME NEW q \in Pid, ret'[q] \in Pid \ KThread
                 PROVE  state'[ret'[q]] = "FREED"
      BY DEF ReturnedFreed
    <2>1. CASE q = p
      BY <2>1, <1>1
    <2>2. CASE q # p
      <3>1. ret'[q] = ret[q] /\ state[ret[q]] = "FREED"
        BY <2>2, <1>1 DEF WaitInv, ReturnedFreed
      <3> QED BY <3>1, <1>1
    <2> QED BY <2>1, <2>2
  <1> QED BY <1>3, <1>4, <1>5, <1>6, <1>7, <1>8 DEF WaitInv

\* A step that moves a process in waitpid and gives nobody back.
LEMMA MoveWait ==
    ASSUME WaitInv, NEW p \in Pid, p \notin KThread, NEW r \in Int,
           NEW at \in Living \ {"waiting"}, pc[p] \in Living, state[p] = "RUN",
           r \in Pid \ KThread => state[r] = "FREED",
           pc' = [pc EXCEPT ![p] = at], ret' = [ret EXCEPT ![p] = r],
           UNCHANGED <<state, parent, found>>
    PROVE  WaitInv'
  <1>1. state' = proc_destroy({})
    BY DEF WaitInv, TypeOK, proc_destroy
  <1> DEFINE D == {}
  <1>2. /\ D \in SUBSET Pid /\ \A c \in D : state[c] \in {"HANGING", "ZOMBIE"}
        /\ state' = proc_destroy(D)
        /\ r \in Pid \ KThread => (r \in D \/ state[r] = "FREED")
    BY <1>1
  <1> HIDE DEF D
  <1> QED BY <1>2, CollectWait

\* A turn of the loop of waitpid.
LEMMA TurnWait ==
    ASSUME WaitInv, NEW p \in Pid, NEW a, NEW nohang, p \notin KThread,
           pc[p] \in {"run", "woken"}, state[p] = "RUN", Turn(p, a, nohang)
    PROVE  WaitInv'
  <1> USE DEF Living
  <1>1. UNCHANGED <<parent, found>>
    BY DEF Turn
  <1>2. CASE /\ Hanging(p, a) # {}
             /\ state' = proc_destroy({Min(Hanging(p, a))})
             /\ Return(p, Min(Hanging(p, a)))
    <2> DEFINE c == Min(Hanging(p, a))
    <2>1. c \in Hanging(p, a)
      BY <1>2, FirstOfThem DEF Hanging
    <2> HIDE DEF c
    <2>2. c \in Pid /\ state[c] = "HANGING"
      BY <2>1 DEF Hanging
    <2>3. c \in Int /\ {c} \in SUBSET Pid /\ \A x \in {c} : state[x] \in {"HANGING", "ZOMBIE"}
      BY <2>2, PidFacts
    <2>4. /\ state' = proc_destroy({c}) /\ pc' = [pc EXCEPT ![p] = "run"]
          /\ ret' = [ret EXCEPT ![p] = c]
      BY <1>2 DEF c, Return
    <2> QED BY <2>3, <2>4, <1>1, CollectWait
  <1>3. CASE /\ Zombies(p) # {}
             /\ state' = proc_destroy(Zombies(p))
             /\ Return(p, Min(Zombies(p)))
    <2> DEFINE c == Min(Zombies(p))
               D == Zombies(p)
    <2>1. c \in D
      BY <1>3, FirstOfThem DEF Zombies, Children
    <2>2. D \in SUBSET Pid /\ \A x \in D : state[x] \in {"HANGING", "ZOMBIE"}
      BY DEF Zombies, Children
    <2>3. /\ state' = proc_destroy(D) /\ pc' = [pc EXCEPT ![p] = "run"]
          /\ ret' = [ret EXCEPT ![p] = c]
      BY <1>3 DEF Return
    <2> HIDE DEF c, D
    <2>4. c \in Int
      BY <2>1, <2>2, PidFacts
    <2> QED BY <2>1, <2>2, <2>3, <2>4, <1>1, CollectWait
  <1>4. CASE /\ Hanging(p, a) = {} /\ Zombies(p) = {}
             /\ IF Children(p) = {} THEN Return(p, -1)
                ELSE IF nohang THEN Return(p, 0)
                ELSE /\ pc' = [pc EXCEPT ![p] = "block"]
                     /\ arg' = [arg EXCEPT ![p] = a]
                     /\ UNCHANGED <<ret, special>>
             /\ UNCHANGED state
    <2>1. CASE \E r \in {-1, 0} : Return(p, r)
      <3>1. PICK r \in {-1, 0} : Return(p, r)
        BY <2>1
      <3>2. r \in Int /\ r \notin Pid
        BY <3>1, PidFacts
      <3>3. pc' = [pc EXCEPT ![p] = "run"] /\ ret' = [ret EXCEPT ![p] = r]
        BY <3>1 DEF Return
      <3> QED BY <3>2, <3>3, <1>1, <1>4, MoveWait
    <2>2. CASE pc' = [pc EXCEPT ![p] = "block"] /\ UNCHANGED ret
      <3>1. ret[p] \in Int /\ (ret[p] \in Pid \ KThread => state[ret[p]] = "FREED")
        BY DEF WaitInv, TypeOK, ReturnedFreed
      <3>2. ret' = [ret EXCEPT ![p] = ret[p]]
        BY <2>2 DEF WaitInv, TypeOK
      <3> QED BY <3>1, <3>2, <2>2, <1>1, <1>4, MoveWait
    <2> QED BY <1>4, <2>1, <2>2
  <1> QED BY <1>2, <1>3, <1>4 DEF Turn

\* waitpid, its later turns, its end for a trigger, and the use of its result.
LEMMA WaitingWait ==
    ASSUME WaitInv, NEW p \in Pid, Waiting(p) PROVE WaitInv'
  <1>1. CASE \E a \in {Any} \cup Pid, nohang \in BOOLEAN : sys_waitpid(p, a, nohang)
    BY <1>1, TurnWait DEF sys_waitpid
  <1>2. pc[p] \in {"woken", "block", "waiting"} => p \notin KThread
    BY DEF WaitInv, KThreads
  <1>3. pc[p] \in {"woken", "block"} => state[p] = "RUN"
    BY DEF WaitInv, StateOfPlace
  <1>4. CASE WaitAgain(p)
    BY <1>2, <1>3, <1>4, TurnWait DEF WaitAgain
  <1>5. CASE WaitInterrupted(p)
    <2>1. /\ pc' = [pc EXCEPT ![p] = "run"] /\ ret' = [ret EXCEPT ![p] = -1]
          /\ UNCHANGED <<state, parent, found>> /\ pc[p] = "woken"
      BY <1>5 DEF WaitInterrupted, Return
    <2> QED BY <2>1, <1>2, <1>3, PidFacts, MoveWait DEF Living
  <1>6. CASE WaitBlock(p)
    <2>1. /\ pc' = [pc EXCEPT ![p] = "waiting"] /\ pc[p] = "block"
          /\ state' = [state EXCEPT ![p] = "WAITING"]
          /\ UNCHANGED <<parent, ret, found>>
      BY <1>6 DEF WaitBlock
    <2>2. /\ \A t \in Pid : state'[t] = IF t = p THEN "WAITING" ELSE state[t]
          /\ \A t \in Pid : pc'[t] = IF t = p THEN "waiting" ELSE pc[t]
      BY <2>1 DEF WaitInv, TypeOK
    <2>3. TypeOK'
      BY <2>1 DEF WaitInv, TypeOK, States, Living
    <2>4. StateOfPlace' /\ InitStays' /\ KThreads'
      BY <2>1, <2>2, <1>2, PidFacts, WaitExitAssumption
      DEF WaitInv, StateOfPlace, InitStays, KThreads, Leaving, Living
    <2>5. ChildOf'
      BY <2>1, <2>2, <1>2, <1>3 DEF WaitInv, ChildOf, Living
    <2>6. ReturnedFreed'
      BY <2>1, <2>2, <1>3 DEF WaitInv, ReturnedFreed
    <2> QED BY <2>3, <2>4, <2>5, <2>6 DEF WaitInv
  <1>7. CASE Use(p)
    <2>1. /\ ret' = [ret EXCEPT ![p] = NoRet] /\ UNCHANGED <<state, parent, pc, found>>
      BY <1>7 DEF Use
    <2>2. TypeOK' /\ ReturnedFreed'
      BY <2>1, PidFacts DEF WaitInv, TypeOK, ReturnedFreed
    <2>3. StateOfPlace' /\ InitStays' /\ KThreads' /\ ChildOf'
      BY <2>1 DEF WaitInv, StateOfPlace, InitStays, KThreads, ChildOf
    <2> QED BY <2>2, <2>3 DEF WaitInv
  <1> QED BY <1>1, <1>4, <1>5, <1>6, <1>7 DEF Waiting

\* A process q that waits is woken: by a trigger, or by a child p that goes on
\* to its last step.
LEMMA WakeWait ==
    ASSUME WaitInv, NEW q \in Pid, state[q] = "WAITING",
           state' = [state EXCEPT ![q] = "RUN"],
           \/ pc' = [pc EXCEPT ![q] = "woken"]
           \/ \E p \in Pid : /\ pc[p] = "unblock"
                             /\ pc' = [pc EXCEPT ![p] = "HANGING", ![q] = "woken"],
           UNCHANGED <<parent, ret, found>>
    PROVE  WaitInv'
  <1>1. pc[q] = "waiting" /\ q \notin KThread
    BY DEF WaitInv, TypeOK, StateOfPlace, Living, Leaving, KThreads
  <1>2. /\ \A t \in Pid : state'[t] = IF t = q THEN "RUN" ELSE state[t]
        /\ pc'[q] = "woken"
        /\ \A t \in Pid : (t # q /\ pc'[t] # pc[t]) => (pc[t] = "unblock" /\ pc'[t] = "HANGING")
    BY <1>1 DEF WaitInv, TypeOK
  <1>3. TypeOK'
    BY DEF WaitInv, TypeOK, States, Living, Leaving
  <1>4. StateOfPlace' /\ InitStays' /\ KThreads'
    BY <1>1, <1>2, PidFacts, WaitExitAssumption
    DEF WaitInv, StateOfPlace, InitStays, KThreads, Leaving, Living
  <1>5. ChildOf'
    BY <1>1, <1>2 DEF WaitInv, ChildOf, Living
  <1>6. ReturnedFreed'
    BY <1>2 DEF WaitInv, ReturnedFreed
  <1> QED BY <1>3, <1>4, <1>5, <1>6 DEF WaitInv

\* A trigger wakes the process if it waits, and is remembered otherwise.
LEMMA TriggerWait ==
    ASSUME WaitInv, NEW p \in Pid, TriggerWake(p) PROVE WaitInv'
  <1>1. CASE state[p] = "WAITING"
    BY <1>1, WakeWait DEF TriggerWake
  <1>2. CASE state[p] # "WAITING"
    BY <1>2 DEF TriggerWake, WaitInv, TypeOK, StateOfPlace, InitStays, KThreads, ChildOf, ReturnedFreed
  <1> QED BY <1>1, <1>2

\* An exiting process gives its zombies back and its other children to INIT.
LEMMA ReleaseWait ==
    ASSUME WaitInv, NEW p \in Pid, ExitRelease(p) PROVE WaitInv'
  <1>1. /\ pc[p] = "run" /\ state[p] = "RUN" /\ p # INIT_PROC_PID
        /\ pc' = [pc EXCEPT ![p] = "exit"] /\ UNCHANGED <<ret, found>>
    BY DEF ExitRelease
  <1>2. \A t \in Pid : pc'[t] = IF t = p THEN "exit" ELSE pc[t]
    BY <1>1 DEF WaitInv, TypeOK
  <1>3. CASE p \in KThread
    <2>1. UNCHANGED state /\ parent' = [parent EXCEPT ![p] = INIT_PROC_PID]
      BY <1>3 DEF ExitRelease
    <2>2. \A t \in Pid : parent'[t] = IF t = p THEN INIT_PROC_PID ELSE parent[t]
      BY <2>1 DEF WaitInv, TypeOK
    <2>3. TypeOK'
      BY <2>1, <1>1, PidFacts DEF WaitInv, TypeOK, Leaving
    <2>4. StateOfPlace' /\ InitStays' /\ KThreads'
      BY <2>1, <2>2, <1>1, <1>2, <1>3, PidFacts, WaitExitAssumption
      DEF WaitInv, StateOfPlace, InitStays, KThreads, Leaving
    <2>5. ChildOf'
      BY <2>1, <2>2, <1>2, <1>3 DEF WaitInv, ChildOf
    <2>6. ReturnedFreed'
      BY <2>1, <1>1 DEF WaitInv, ReturnedFreed
    <2> QED BY <2>3, <2>4, <2>5, <2>6 DEF WaitInv
  <1>4. CASE p \notin KThread
    <2>1. state' = proc_destroy(Zombies(p)) /\ parent' = adopt_children_to_init(p)
      BY <1>4 DEF ExitRelease
    <2>2. /\ \A t \in Pid : state'[t] = IF t \in Zombies(p) \ KThread THEN "FREED" ELSE state[t]
          /\ \A t \in Pid : parent'[t] = IF t \in Children(p) \ Zombies(p)
                                         THEN INIT_PROC_PID ELSE parent[t]
      BY <2>1 DEF proc_destroy, adopt_children_to_init
    <2>3. /\ \A t \in Zombies(p) : t \in Pid /\ state[t] = "ZOMBIE" /\ pc[t] = "dead"
          /\ \A t \in Pid : (parent[t] = p /\ state[t] \notin {"NEW", "FREED"}) => t \in Children(p)
      BY DEF Zombies, Children, WaitInv, TypeOK, StateOfPlace, Living, Leaving
    <2>4. TypeOK'
      BY <2>1, <1>1, PidFacts
      DEF WaitInv, TypeOK, Leaving, States, proc_destroy, adopt_children_to_init
    <2>5. StateOfPlace'
      BY <2>2, <2>3, <1>1, <1>2 DEF WaitInv, StateOfPlace, Leaving
    <2>6. InitStays' /\ KThreads'
      BY <2>2, <2>3, <1>1, <1>2, <1>4, PidFacts, WaitExitAssumption
      DEF WaitInv, InitStays, KThreads, Leaving, Living
    <2>7. ChildOf'
      <3> SUFFICES ASSUME NEW c \in Pid \ KThread, state'[c] \notin {"NEW", "FREED"},
                          c # INIT_PROC_PID
                   PROVE  /\ parent'[c] \in Pid \ KThread /\ pc'[parent'[c]] \in Living
                          /\ state'[parent'[c]] # "NEW"
        BY DEF ChildOf
      <3>1. state[c] \notin {"NEW", "FREED"} /\ c \notin Zombies(p)
        BY <2>2, <2>3
      <3>2. /\ parent[c] \in Pid \ KThread /\ pc[parent[c]] \in Living
            /\ state[parent[c]] # "NEW"
        BY <3>1 DEF WaitInv, ChildOf
      <3>3. CASE c \in Children(p)
        <4>1. parent'[c] = INIT_PROC_PID
          BY <3>1, <3>3, <2>2
        <4> QED BY <4>1, <2>6, PidFacts DEF InitStays
      <3>4. CASE c \notin Children(p)
        <4>1. parent'[c] = parent[c] /\ parent[c] # p
          BY <3>1, <3>4, <2>2, <2>3
        <4> QED BY <4>1, <3>2, <2>2, <1>2
      <3> QED BY <3>3, <3>4
    <2>8. ReturnedFreed'
      BY <2>2, <1>1 DEF WaitInv, ReturnedFreed
    <2> QED BY <2>4, <2>5, <2>6, <2>7, <2>8 DEF WaitInv
  <1> QED BY <1>3, <1>4

\* The parent an exiting task looks at is a pid: a kernel thread has made INIT
\* its parent, a process has the one that forked or adopted it.
LEMMA ExitingParent ==
    ASSUME WaitInv, NEW p \in Pid, pc[p] \in Leaving PROVE parent[p] \in Pid
  <1>1. CASE p \in KThread
    BY <1>1, PidFacts DEF WaitInv, KThreads
  <1>2. CASE p \notin KThread
    <2>1. p # INIT_PROC_PID /\ state[p] = "RUN"
      BY DEF WaitInv, InitStays, StateOfPlace, Living, Leaving
    <2> QED BY <2>1, <1>2 DEF WaitInv, ChildOf
  <1> QED BY <1>1, <1>2

\* The rest of an exit.
LEMMA ExitingWait ==
    ASSUME WaitInv, NEW p \in Pid, Exiting(p) PROVE WaitInv'
  <1>1. CASE ExitLook(p)
    <2>1. pc[p] = "exit" /\ parent[p] \in Pid /\ UNCHANGED <<state, parent, ret>>
      BY <1>1, ExitingParent DEF ExitLook, Leaving
    <2>2. PICK at \in {"unblock", "ZOMBIE"} : pc' = [pc EXCEPT ![p] = at]
      BY <1>1 DEF ExitLook
    <2>3. \A t \in Pid : pc'[t] = IF t = p THEN at ELSE pc[t]
      BY <2>2 DEF WaitInv, TypeOK
    <2>4. TypeOK'
      BY <1>1, <2>1, <2>2 DEF ExitLook, WaitInv, TypeOK, Leaving
    <2>5. StateOfPlace' /\ InitStays' /\ KThreads'
      BY <2>1, <2>2, <2>3, PidFacts, WaitExitAssumption
      DEF WaitInv, StateOfPlace, InitStays, KThreads, Leaving, Living
    <2>6. ChildOf' /\ ReturnedFreed'
      BY <2>1, <2>3 DEF WaitInv, ChildOf, ReturnedFreed, Living
    <2> QED BY <2>4, <2>5, <2>6 DEF WaitInv
  <1>2. CASE ExitUnblock(p)
    <2>1. found[p] \in Pid /\ UNCHANGED <<parent, ret, found>> /\ pc[p] = "unblock"
      BY <1>2 DEF ExitUnblock, WaitInv, TypeOK
    <2>2. CASE state[found[p]] = "WAITING"
      BY <1>2, <2>1, <2>2, WakeWait DEF ExitUnblock
    <2>3. CASE state[found[p]] # "WAITING"
      BY <1>2, <2>1, <2>3
      DEF ExitUnblock, WaitInv, TypeOK, StateOfPlace, InitStays, KThreads, ChildOf, ReturnedFreed
    <2> QED BY <2>2, <2>3
  <1>3. CASE ExitBlock(p)
    <2>1. /\ pc[p] \in {"HANGING", "ZOMBIE"} /\ state[p] = "RUN"
          /\ state' = [state EXCEPT ![p] = pc[p]] /\ pc' = [pc EXCEPT ![p] = "dead"]
          /\ UNCHANGED <<parent, ret, found>>
      BY <1>3 DEF ExitBlock, WaitInv, StateOfPlace, Leaving
    <2>2. /\ \A t \in Pid : state'[t] = IF t = p THEN pc[p] ELSE state[t]
          /\ \A t \in Pid : pc'[t] = IF t = p THEN "dead" ELSE pc[t]
      BY <2>1 DEF WaitInv, TypeOK
    <2>3. TypeOK'
      BY <2>1 DEF WaitInv, TypeOK, States
    <2>4. StateOfPlace' /\ InitStays' /\ KThreads'
      BY <2>1, <2>2, PidFacts, WaitExitAssumption
      DEF WaitInv, StateOfPlace, InitStays, KThreads, Leaving, Living
    <2>5. ChildOf'
      <3> SUFFICES ASSUME NEW c \in Pid \ KThread, state'[c] \notin {"NEW", "FREED"},
                          c # INIT_PROC_PID
                   PROVE  /\ parent'[c] \in Pid \ KThread /\ pc'[parent'[c]] \in Living
                          /\ state'[parent'[c]] # "NEW"
        BY DEF ChildOf
      <3>1. /\ parent[c] \in Pid \ KThread /\ pc[parent[c]] \in Living
            /\ state[parent[c]] # "NEW"
        BY <2>1, <2>2 DEF WaitInv, ChildOf
      <3> QED BY <3>1, <2>1, <2>2 DEF Living
    <2>6. ReturnedFreed'
      BY <2>1, <2>2 DEF WaitInv, ReturnedFreed
    <2> QED BY <2>3, <2>4, <2>5, <2>6 DEF WaitInv
  <1> QED BY <1>1, <1>2, <1>3 DEF Exiting

\* Every step of the specification preserves the invariant.
LEMMA NextWait == WaitInv /\ [Next]_vars => WaitInv'
  <1> SUFFICES ASSUME WaitInv, [Next]_vars PROVE WaitInv'
    OBVIOUS
  <1>1. CASE Next
    BY <1>1, ForkWait, WaitingWait, TriggerWait, ReleaseWait, ExitingWait DEF Next
  <1>2. CASE UNCHANGED vars
    BY <1>2 DEF vars, WaitInv, TypeOK, StateOfPlace, InitStays, KThreads, ChildOf, ReturnedFreed
  <1> QED BY <1>1, <1>2

-----------------------------------------------------------------------------
(* The theorems.                                                           *)

\* sys_exit, kthread_exit and sys_waitpid: whoever exits, forks or is collected
\* in whatever order, the parent of a task is a process that has not begun to
\* exit.
THEOREM ParentsAlive == Spec => []ParentAlive
  <1>1. WaitInv => ParentAlive
    <2> SUFFICES ASSUME WaitInv, NEW c \in Pid \ KThread,
                        state[c] \notin {"NEW", "FREED"}, c # INIT_PROC_PID
                 PROVE  /\ state[parent[c]] \in {"RUN", "WAITING"}
                        /\ pc[parent[c]] \in {"run", "block", "waiting", "woken"}
      BY DEF ParentAlive
    <2>1. parent[c] \in Pid /\ pc[parent[c]] \in Living /\ state[parent[c]] # "NEW"
      BY DEF WaitInv, ChildOf
    <2> QED BY <2>1 DEF WaitInv, StateOfPlace, Living, Leaving
  <1> QED BY <1>1, InitWait, NextWait, PTL DEF Spec

\* A turn of waitpid that returns a process gives back one that was dead.
LEMMA TurnCollects ==
    ASSUME WaitInv, NEW p \in Pid, NEW a, NEW nohang, Turn(p, a, nohang)
    PROVE  /\ \A q \in Pid : q # p => ret'[q] = ret[q]
           /\ (ret'[p] \in Pid \ KThread /\ ret[p] = NoRet) =>
                 /\ state[ret'[p]] \in {"HANGING", "ZOMBIE"} /\ state'[ret'[p]] = "FREED"
  <1>1. CASE /\ Hanging(p, a) # {}
             /\ state' = proc_destroy({Min(Hanging(p, a))})
             /\ Return(p, Min(Hanging(p, a)))
    <2> DEFINE c == Min(Hanging(p, a))
    <2>1. c \in Hanging(p, a)
      BY <1>1, FirstOfThem DEF Hanging
    <2>2. state' = proc_destroy({c}) /\ ret' = [ret EXCEPT ![p] = c]
      BY <1>1 DEF Return
    <2> HIDE DEF c
    <2> QED BY <2>1, <2>2 DEF Hanging, proc_destroy, WaitInv, TypeOK
  <1>2. CASE /\ Zombies(p) # {}
             /\ state' = proc_destroy(Zombies(p))
             /\ Return(p, Min(Zombies(p)))
    <2> DEFINE c == Min(Zombies(p))
    <2>1. c \in Zombies(p)
      BY <1>2, FirstOfThem DEF Zombies, Children
    <2>2. state' = proc_destroy(Zombies(p)) /\ ret' = [ret EXCEPT ![p] = c]
      BY <1>2 DEF Return
    <2> HIDE DEF c
    <2>3. c \in Pid /\ state[c] = "ZOMBIE"
      BY <2>1 DEF Zombies, Children
    <2> QED BY <2>1, <2>2, <2>3 DEF proc_destroy, WaitInv, TypeOK
  <1>3. CASE \/ \E r \in {-1, 0} : ret' = [ret EXCEPT ![p] = r]
             \/ UNCHANGED ret
    BY <1>3, PidFacts DEF WaitInv, TypeOK
  <1>4. (IF Children(p) = {} THEN Return(p, -1)
         ELSE IF nohang THEN Return(p, 0)
         ELSE /\ pc' = [pc EXCEPT ![p] = "block"]
              /\ arg' = [arg EXCEPT ![p] = a]
              /\ UNCHANGED <<ret, special>>)
        => (\/ \E r \in {-1, 0} : ret' = [ret EXCEPT ![p] = r]
            \/ UNCHANGED ret)
    BY DEF Return
  <1> QED BY <1>1, <1>2, <1>3, <1>4 DEF Turn

\* sys_waitpid: a process is collected by one waitpid at most, though INIT, a
\* parent and a caller that asks for the pid may all look for it.
THEOREM ChildrenCollectedOnce == Spec => CollectedOnce
  <1> DEFINE Once(p, q) == (ret'[p] \in Pid \ KThread /\ ret[p] = NoRet) =>
                 /\ state[ret'[p]] \in {"HANGING", "ZOMBIE"} /\ state'[ret'[p]] = "FREED"
                 /\ p # q => ret'[q] # ret'[p]
  <1>1. ASSUME WaitInv, Next, NEW p \in Pid, NEW q \in Pid PROVE Once(p, q)
    <2> SUFFICES ASSUME ret'[p] \in Pid \ KThread, ret[p] = NoRet
                 PROVE  /\ state[ret'[p]] \in {"HANGING", "ZOMBIE"} /\ state'[ret'[p]] = "FREED"
                        /\ p # q => ret'[q] # ret'[p]
      OBVIOUS
    <2>1. PICK r \in Pid :
             sys_fork(r) \/ Waiting(r) \/ TriggerWake(r) \/ ExitRelease(r) \/ Exiting(r)
      BY <1>1 DEF Next
    <2>2. ret' # ret /\ ret[p] # ret'[p]
      BY PidFacts
    <2>3. \A t \in Pid : (Use(r) \/ WaitInterrupted(r)) =>
             (ret'[t] = ret[t] \/ ret'[t] \in {-1, NoRet})
      BY <1>1 DEF Use, WaitInterrupted, Return, WaitInv, TypeOK
    <2>4. \E a \in {Any} \cup Pid \cup {arg[r]}, nohang \in BOOLEAN : Turn(r, a, nohang)
      BY <2>1, <2>2, <2>3, PidFacts
      DEF sys_fork, Waiting, sys_waitpid, WaitAgain, WaitBlock, TriggerWake, ExitRelease,
          Exiting, ExitLook, ExitUnblock, ExitBlock
    <2>5. /\ \A t \in Pid : t # r => ret'[t] = ret[t]
          /\ (ret'[r] \in Pid \ KThread /\ ret[r] = NoRet) =>
                /\ state[ret'[r]] \in {"HANGING", "ZOMBIE"} /\ state'[ret'[r]] = "FREED"
      BY <2>4, <1>1, TurnCollects
    <2>6. p = r
      BY <2>2, <2>5
    <2>7. state[ret'[p]] \in {"HANGING", "ZOMBIE"} /\ state'[ret'[p]] = "FREED"
      BY <2>5, <2>6
    <2>8. p # q => ret'[q] # ret'[p]
      <3> SUFFICES ASSUME p # q, ret'[q] = ret'[p] PROVE FALSE
        OBVIOUS
      <3>1. ret[q] = ret'[p]
        BY <2>5, <2>6
      <3> QED BY <3>1, <2>7, <1>1 DEF WaitInv, ReturnedFreed
    <2> QED BY <2>7, <2>8
  <1>2. WaitInv /\ [Next]_vars =>
            [\A p, q \in Pid : Once(p, q)]_vars
    BY <1>1
  <1>3. [\A p, q \in Pid : Once(p, q)]_vars =>
        [\A p, q \in Pid : ret'[p] \in Pid \ KThread /\ ret[p] = NoRet =>
          /\ state[ret'[p]] \in {"HANGING", "ZOMBIE"} /\ state'[ret'[p]] = "FREED"
          /\ p # q => ret'[q] # ret'[p]]_vars
    OBVIOUS
  <1> HIDE DEF Once
  <1> QED BY <1>2, <1>3, InitWait, NextWait, PTL DEF Spec, CollectedOnce
=============================================================================
