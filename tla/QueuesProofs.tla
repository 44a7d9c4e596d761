---------------------------- MODULE QueuesProofs ----------------------------
(***************************************************************************)
(* Proofs about service calls (Srvcall), for any sets of servers and       *)
(* callers, about the mutex and the semaphore of the thread library        *)
(* (UserSync), for any threads, about the queue between a driver's         *)
(* interrupt and its readers (FifoIo), for any tasks, bytes and size, and  *)
(* about the pointer lists under a message pool and a device queue         *)
(* (WaitQueue, MsgPool, DevQueue), for any tasks with one consumer.        *)
(*                                                                         *)
(* Service calls: the invariant says what each place in the four system    *)
(* calls means.  A server on its round is the one that bound the port, the *)
(* state of the port says how far it has come, and at most one call is     *)
(* with it.  It holds until a trigger wakes a sleeper or a second bind     *)
(* takes the port.                                                         *)
(*                                                                         *)
(* The user mutex: whoever is in the section owns it, however the library  *)
(* comes back to its caller after a wait.                                  *)
(*                                                                         *)
(* Its sleepers and those of the semaphore: who is in a queue is there     *)
(* once and locks again when it is woken, so the head that a release wakes *)
(* is on its way; the threads that are about to wait for a unit or to      *)
(* announce one are counted against the value step by step.                *)
(*                                                                         *)
(* The queue of the driver: a task that sleeps is in one list, or in the   *)
(* hands of one user that wakes it, so a wakeup gives a unit to a user     *)
(* that waits for one; the units of both semaphores, counted, held and     *)
(* owed, are the places of the ring; the mutex leaves one user at head and *)
(* tail, so that the bytes between them are those of the units of full.    *)
(*                                                                         *)
(* The pointer lists: tasks are added at the tail and fetched at the head, *)
(* so a list is the head and an interval of numbered tasks, and the walk   *)
(* along next meets them in that order.  Both lists are whole until the    *)
(* consumer is woken between task_block and its return; after that the     *)
(* count of the pool is 0 and the next push does not come back.            *)
(***************************************************************************)
EXTENDS MCQueues, SequenceTheorems, FiniteSetTheorems, WellFoundedInduction, TLAPS

Args == [of : C!Party \cup {NoTask}, answer : C!Party \cup {NoTask}]

SrvType ==
    /\ bound \in Server \cup {NoTask} /\ caller \in Caller \cup {NoTask}
    /\ arg \in Args /\ got \in [Caller -> Args]
    /\ serving \in [Server -> C!Party \cup {NoTask}]
    /\ DOMAIN spc = C!Party
    /\ \A s \in Server :
          spc[s] \in {"user", "bind", "listen", "listening", "copy", "serve", "ack", "acked"}
    /\ \A c \in Caller : spc[c] \in {"user", "poll", "call", "calling", "copy", "wake"}

\* A server that listens, serves or has answered is the holder of the port.
RoundIsHolders == \A s \in Server : spc[s] \notin {"user", "bind"} => bound = s

\* The state of the port is where its holder is.
StateIsPlace ==
    /\ service = "LISTEN" <=> \E s \in Server : spc[s] \in {"listen", "listening"}
    /\ service = "PENDING" <=> \E s \in Server : spc[s] \in {"copy", "serve"}

\* While a call is pending its caller has not been answered, and the arguments
\* are its own.
PendingCall ==
    /\ service = "PENDING" =>
          /\ caller \in Caller \ missed /\ spc[caller] \in {"call", "calling"}
          /\ arg.of = caller
    /\ \A s \in Server : spc[s] = "serve" => serving[s] = arg.of
    /\ \A c \in Caller \ missed :
          spc[c] \in {"call", "calling"} => caller = c /\ service = "PENDING"

\* One caller at a time takes its answer, and the server waits for it meanwhile.
TakingAnswer ==
    /\ \A c \in Caller : spc[c] = "copy" => arg = [of |-> c, answer |-> c]
    /\ \A c \in Caller : spc[c] \in {"copy", "wake"} =>
          \E s \in Server \ missed : spc[s] \in {"ack", "acked"}
    /\ \A c, d \in Caller :
          spc[c] \in {"copy", "wake"} /\ spc[d] \in {"copy", "wake"} => c = d

\* Who missed its wakeup sleeps, or is about to.
MissedAsleep ==
    /\ \A c \in Caller \cap missed : spc[c] \in {"call", "calling"}
    /\ \A s \in Server \cap missed : spc[s] \in {"ack", "acked"}

\* A server that has answered waits for a caller that is under way, or that
\* missed its wakeup.
Answered ==
    \A s \in Server \ missed : spc[s] \in {"ack", "acked"} =>
        \E c \in Caller : spc[c] \in {"copy", "wake"} \/ (c \in missed /\ arg.answer = c)

Round ==
    /\ SrvType /\ RoundIsHolders /\ StateIsPlace
    /\ PendingCall /\ TakingAnswer /\ MissedAsleep /\ Answered

\* A kernel that stopped has the port in between.
SrvInv == ~ disturbed => CallsServed /\ (~ panicked => Round)

-----------------------------------------------------------------------------
\* What the constants give, and what each place of a party says.
LEMMA SrvFacts ==
    /\ C!Party = Server \cup Caller
    /\ \A s \in Server : s \notin Caller /\ s # NoTask
    /\ \A c \in Caller : c \notin Server /\ c # NoTask
  BY QueuesAssumption DEF C!SrvcallConstants, C!Party

\* The round of the server gives CallsServed.
LEMMA RoundServes == Round /\ C!OwnAnswer => CallsServed
  <1> SUFFICES ASSUME Round, C!OwnAnswer PROVE C!Expected
    BY DEF CallsServed, C!CallsServed
  <1> QED BY DEF Round, PendingCall, Answered, C!Expected

\* Nothing is bound at the start.
LEMMA SrvInitInv == C!Init => SrvInv
  <1> SUFFICES ASSUME C!Init PROVE SrvInv
    OBVIOUS
  <1>1. /\ service = "FINISH" /\ bound = NoTask /\ caller = NoTask /\ arg = C!NoArg
        /\ spc = [t \in C!Party |-> "user"] /\ serving = [s \in Server |-> NoTask]
        /\ got = [c \in Caller |-> C!NoArg] /\ missed = {}
    BY DEF C!Init
  <1>2. C!NoArg \in Args
    BY DEF C!NoArg, Args
  <1>3. SrvType
    BY <1>1, <1>2, SrvFacts DEF SrvType
  <1>4. RoundIsHolders /\ StateIsPlace /\ PendingCall /\ TakingAnswer /\ MissedAsleep /\ Answered
    BY <1>1, SrvFacts DEF RoundIsHolders, StateIsPlace, PendingCall, TakingAnswer, MissedAsleep, Answered
  <1>5. C!OwnAnswer
    BY <1>1 DEF C!OwnAnswer
  <1> QED BY <1>3, <1>4, <1>5, RoundServes DEF SrvInv, Round

\* sys_srvcall_bind and sys_srvcall_unbind: no server is on its round.
LEMMA BindInv ==
    ASSUME Round, NEW s \in Server,
           C!Bind(s) \/ C!BindSet(s) \/ C!sys_srvcall_unbind(s), ~ disturbed'
    PROVE  Round'
  <1>1. /\ spc[s] \in {"user", "bind"} /\ spc' \in {[spc EXCEPT ![s] = "bind"], [spc EXCEPT ![s] = "user"], spc}
        /\ bound' = bound \/ (bound = NoTask /\ bound' = s) \/ (bound = s /\ bound' = NoTask)
        /\ UNCHANGED <<service, caller, arg, serving, got, missed>>
    BY DEF C!Bind, C!BindSet, C!sys_srvcall_unbind
  <1>2. SrvType /\ RoundIsHolders /\ StateIsPlace /\ PendingCall /\ TakingAnswer /\ MissedAsleep /\ Answered
    BY DEF Round
  <1>3. /\ DOMAIN spc' = C!Party
        /\ \A t \in C!Party : t # s => spc'[t] = spc[t]
        /\ spc'[s] \in {"user", "bind"}
    BY <1>1, <1>2, SrvFacts DEF SrvType
  <1>4. \A c \in Caller : spc'[c] = spc[c]
    BY <1>3, SrvFacts
  <1>5. \A r \in Server : \A p : p \notin {"user", "bind"} => (spc'[r] = p <=> spc[r] = p)
    BY <1>1, <1>3, SrvFacts
  <1>6. SrvType'
    BY <1>1, <1>2, <1>3, <1>4, SrvFacts DEF SrvType
  <1>7. RoundIsHolders'
    BY <1>1, <1>2, <1>3, SrvFacts DEF RoundIsHolders
  <1>8. StateIsPlace'
    BY <1>1, <1>2, <1>5 DEF StateIsPlace
  <1>9. PendingCall'
    BY <1>1, <1>2, <1>4, <1>5 DEF PendingCall
  <1>10. TakingAnswer' /\ MissedAsleep'
    BY <1>1, <1>2, <1>4, <1>5 DEF TakingAnswer, MissedAsleep
  <1>11. Answered'
    BY <1>1, <1>2, <1>4, <1>5 DEF Answered
  <1> QED BY <1>6, <1>7, <1>8, <1>9, <1>10, <1>11 DEF Round

\* sys_srvcall_listen: the holder starts a round, and no call is under way.
LEMMA ListenInv ==
    ASSUME Round, NEW s \in Server, C!sys_srvcall_listen(s) PROVE Round'
  <1>1. /\ spc[s] = "user" /\ bound = s /\ service' = "LISTEN" /\ spc' = [spc EXCEPT ![s] = "listen"]
        /\ UNCHANGED <<bound, caller, arg, serving, got, missed>>
    BY DEF C!sys_srvcall_listen
  <1>2. SrvType /\ RoundIsHolders /\ StateIsPlace /\ PendingCall /\ TakingAnswer /\ MissedAsleep /\ Answered
    BY DEF Round
  <1>3. \A r \in Server : spc[r] \in {"user", "bind"}
    BY <1>1, <1>2 DEF RoundIsHolders
  <1>4. \A c \in Caller : /\ spc[c] \notin {"copy", "wake"}
                          /\ spc[c] \in {"call", "calling"} => c \in missed
    BY <1>2, <1>3 DEF PendingCall, StateIsPlace, TakingAnswer
  <1>5. /\ DOMAIN spc' = C!Party
        /\ \A t \in C!Party : t # s => spc'[t] = spc[t]
        /\ spc'[s] = "listen"
    BY <1>1, <1>2, SrvFacts DEF SrvType
  <1>6. \A c \in Caller : spc'[c] = spc[c]
    BY <1>5, SrvFacts
  <1>7. \A r \in Server : r # s => spc'[r] \in {"user", "bind"}
    BY <1>3, <1>5, SrvFacts
  <1>8. SrvType'
    BY <1>1, <1>2, <1>5, <1>6, <1>7, SrvFacts DEF SrvType
  <1>9. RoundIsHolders'
    BY <1>1, <1>7 DEF RoundIsHolders
  <1>10. StateIsPlace'
    BY <1>1, <1>5, <1>7 DEF StateIsPlace
  <1>11. PendingCall'
    BY <1>1, <1>4, <1>5, <1>6, <1>7 DEF PendingCall
  <1>12. TakingAnswer'
    BY <1>4, <1>6 DEF TakingAnswer
  <1>13. MissedAsleep'
    BY <1>1, <1>2, <1>3, <1>6 DEF MissedAsleep
  <1>14. Answered'
    BY <1>5, <1>7 DEF Answered
  <1> QED BY <1>8, <1>9, <1>10, <1>11, <1>12, <1>13, <1>14 DEF Round

\* The arguments go to the server.
LEMMA ListenCopyInv ==
    ASSUME Round, NEW s \in Server, C!ListenCopy(s) PROVE Round'
  <1>1. /\ spc[s] = "copy" /\ serving' = [serving EXCEPT ![s] = arg.of]
        /\ spc' = [spc EXCEPT ![s] = "serve"]
        /\ UNCHANGED <<service, bound, caller, arg, got, missed>>
    BY DEF C!ListenCopy
  <1>2. SrvType /\ RoundIsHolders /\ StateIsPlace /\ PendingCall /\ TakingAnswer /\ MissedAsleep /\ Answered
    BY DEF Round
  <1>3. \A r \in Server : r # s => spc[r] \in {"user", "bind"}
    BY <1>1, <1>2 DEF RoundIsHolders
  <1>5. /\ DOMAIN spc' = C!Party
        /\ \A t \in C!Party : t # s => spc'[t] = spc[t]
        /\ spc'[s] = "serve"
    BY <1>1, <1>2, SrvFacts DEF SrvType
  <1>6. \A c \in Caller : spc'[c] = spc[c] /\ spc[c] \notin {"copy", "wake"}
    <2>1. \A c \in Caller : spc'[c] = spc[c]
      BY <1>5, SrvFacts
    <2>2. \A c \in Caller : spc[c] \notin {"copy", "wake"}
      BY <1>1, <1>2, <1>3 DEF TakingAnswer
    <2> QED BY <2>1, <2>2
  <1>7. \A r \in Server : r # s => spc'[r] \in {"user", "bind"}
    BY <1>3, <1>5, SrvFacts
  <1>8. SrvType'
    <2>1. arg.of \in C!Party \cup {NoTask}
      BY <1>2 DEF SrvType, Args
    <2> QED BY <1>1, <1>2, <1>5, <1>6, <1>7, <2>1, SrvFacts DEF SrvType
  <1>9. RoundIsHolders'
    BY <1>1, <1>2, <1>7 DEF RoundIsHolders
  <1>10. StateIsPlace'
    BY <1>1, <1>2, <1>5, <1>7 DEF StateIsPlace
  <1>11. PendingCall'
    <2>1. serving'[s] = arg.of
      BY <1>1, <1>2 DEF SrvType
    <2> QED BY <1>1, <1>2, <1>6, <1>7, <2>1 DEF PendingCall
  <1>12. TakingAnswer'
    BY <1>6 DEF TakingAnswer
  <1>13. MissedAsleep'
    BY <1>1, <1>2, <1>3, <1>6 DEF MissedAsleep
  <1>14. Answered'
    BY <1>5, <1>7 DEF Answered
  <1> QED BY <1>8, <1>9, <1>10, <1>11, <1>12, <1>13, <1>14 DEF Round

\* sys_srvcall_ack: the pending caller goes on with the answer to its arguments,
\* or was not asleep yet.
LEMMA AckInv ==
    ASSUME Round, NEW s \in Server, C!sys_srvcall_ack(s) PROVE Round'
  <1>2. SrvType /\ RoundIsHolders /\ StateIsPlace /\ PendingCall /\ TakingAnswer /\ MissedAsleep /\ Answered
    BY DEF Round
  <1>3. spc[s] = "serve" /\ bound = s /\ \A r \in Server : r # s => spc[r] \in {"user", "bind"}
    BY <1>2 DEF RoundIsHolders, C!sys_srvcall_ack
  <1>1. /\ service' = "ACK" /\ arg' = [arg EXCEPT !.answer = serving[s]]
        /\ spc' = [t \in C!Party |-> IF t = s THEN "ack"
                      ELSE IF t = caller /\ C!Asleep(t) THEN C!Resume(t) ELSE spc[t]]
        /\ missed' = missed \cup {t \in C!Party : t = caller /\ ~ C!Asleep(t)}
        /\ caller' = NoTask
        /\ serving' = [serving EXCEPT ![s] = NoTask]
        /\ UNCHANGED <<bound, got>>
    BY <1>3 DEF C!sys_srvcall_ack, C!AfterAck
  <1>4. /\ service = "PENDING" /\ caller \in Caller /\ caller \notin missed
        /\ spc[caller] \in {"call", "calling"} /\ arg.of = caller /\ serving[s] = caller
    BY <1>2, <1>3 DEF StateIsPlace, PendingCall
  <1>5. arg' = [of |-> caller, answer |-> caller] /\ arg' \in Args
    BY <1>1, <1>2, <1>4, SrvFacts DEF SrvType, Args
  <1>6. /\ DOMAIN spc' = C!Party /\ spc'[s] = "ack"
        /\ \A t \in C!Party : t # s /\ t # caller => spc'[t] = spc[t]
        /\ spc[caller] = "calling" => spc'[caller] = "copy" /\ missed' = missed
        /\ spc[caller] = "call" => spc'[caller] = "call" /\ missed' = missed \cup {caller}
    BY <1>1, <1>3, <1>4, SrvFacts DEF C!Asleep, C!Resume
  <1>7. \A c \in Caller : /\ spc[c] \notin {"copy", "wake"}
                          /\ c # caller => spc'[c] = spc[c]
    <2>1. \A c \in Caller : spc[c] \notin {"copy", "wake"}
      BY <1>2, <1>3 DEF TakingAnswer
    <2> QED BY <2>1, <1>6, SrvFacts
  <1>8. \A r \in Server : r # s => spc'[r] \in {"user", "bind"}
    BY <1>3, <1>4, <1>6, SrvFacts
  <1>9. s \notin missed /\ s \notin missed'
    BY <1>2, <1>3, <1>4, <1>6, SrvFacts DEF MissedAsleep
  <1>10. SrvType'
    <2>1. \A c \in Caller : spc'[c] \in {"user", "poll", "call", "calling", "copy", "wake"}
      BY <1>2, <1>4, <1>6, <1>7 DEF SrvType
    <2> QED BY <1>1, <1>2, <1>5, <1>6, <1>8, <2>1 DEF SrvType
  <1>11. RoundIsHolders' /\ StateIsPlace'
    BY <1>1, <1>3, <1>6, <1>8 DEF RoundIsHolders, StateIsPlace
  <1>12. PendingCall'
    <2>1. \A c \in Caller : spc'[c] \in {"call", "calling"} => c \in missed'
      BY <1>2, <1>4, <1>6, <1>7 DEF PendingCall
    <2> QED BY <2>1, <1>1, <1>6, <1>8 DEF PendingCall
  <1>13. TakingAnswer'
    <2>1. \A c \in Caller : spc'[c] \in {"copy", "wake"} => c = caller
      BY <1>7
    <2> QED BY <2>1, <1>5, <1>6, <1>9 DEF TakingAnswer
  <1>14. MissedAsleep'
    BY <1>2, <1>3, <1>4, <1>6, <1>7, <1>9 DEF MissedAsleep
  <1>15. Answered'
    BY <1>4, <1>5, <1>6, <1>8 DEF Answered
  <1> QED BY <1>10, <1>11, <1>12, <1>13, <1>14, <1>15 DEF Round

\* A caller finds the port bound.
LEMMA CallInv ==
    ASSUME Round, C!OwnAnswer, NEW c \in Caller, C!Call(c) PROVE Round' /\ C!OwnAnswer'
  <1>1. /\ spc[c] = "user" /\ spc' = [spc EXCEPT ![c] = "poll"]
        /\ got' = [got EXCEPT ![c] = C!NoArg]
        /\ UNCHANGED <<service, bound, caller, arg, serving, missed>>
    BY DEF C!Call
  <1>2. SrvType /\ RoundIsHolders /\ StateIsPlace /\ PendingCall /\ TakingAnswer /\ MissedAsleep /\ Answered
    BY DEF Round
  <1>3. /\ DOMAIN spc' = C!Party /\ spc'[c] = "poll"
        /\ \A t \in C!Party : t # c => spc'[t] = spc[t]
    BY <1>1, <1>2, SrvFacts DEF SrvType
  <1>4. \A s \in Server : spc'[s] = spc[s]
    BY <1>3, SrvFacts
  <1>5. \A d \in Caller : d # c => spc'[d] = spc[d]
    BY <1>3, SrvFacts
  <1>6. SrvType'
    <2>1. C!NoArg \in Args
      BY DEF C!NoArg, Args
    <2> QED BY <2>1, <1>1, <1>2, <1>3, <1>4, <1>5 DEF SrvType
  <1>7. RoundIsHolders' /\ StateIsPlace'
    BY <1>1, <1>2, <1>4 DEF RoundIsHolders, StateIsPlace
  <1>8. PendingCall'
    BY <1>1, <1>2, <1>3, <1>4, <1>5 DEF PendingCall
  <1>9. TakingAnswer' /\ MissedAsleep'
    BY <1>1, <1>2, <1>3, <1>4, <1>5 DEF TakingAnswer, MissedAsleep
  <1>10. Answered'
    BY <1>1, <1>2, <1>3, <1>4, <1>5 DEF Answered
  <1>11. C!OwnAnswer'
    BY <1>1, <1>2 DEF C!OwnAnswer, SrvType
  <1> QED BY <1>6, <1>7, <1>8, <1>9, <1>10, <1>11 DEF Round

\* A caller leaves its arguments: it may find no memory, or the server not asleep
\* yet, which stops the kernel.
LEMMA RequestInv ==
    ASSUME Round, C!OwnAnswer, NEW c \in Caller, C!Request(c)
    PROVE  CallsServed' /\ (~ panicked' => Round')
  <1>2. SrvType /\ RoundIsHolders /\ StateIsPlace /\ PendingCall /\ TakingAnswer /\ MissedAsleep /\ Answered
    BY DEF Round
  <1>1. /\ spc[c] = "poll" /\ service = "LISTEN"
        /\ arg' = [of |-> c, answer |-> NoTask] /\ arg' \in Args
        /\ UNCHANGED <<bound, serving, got, missed>>
    BY SrvFacts DEF C!Request, Args
  <1>3. PICK s \in Server : spc[s] \in {"listen", "listening"}
    BY <1>1, <1>2 DEF StateIsPlace
  <1>4. bound = s /\ \A r \in Server : r # s => spc[r] \in {"user", "bind"}
    BY <1>2, <1>3 DEF RoundIsHolders
  <1>5. \A d \in Caller : /\ spc[d] \notin {"copy", "wake"}
                          /\ spc[d] \in {"call", "calling"} => d \in missed
    BY <1>1, <1>2, <1>3, <1>4 DEF PendingCall, TakingAnswer
  <1>6. C!OwnAnswer'
    BY <1>1 DEF C!OwnAnswer
  <1>7. CASE spc' = [spc EXCEPT ![c] = "user"] /\ UNCHANGED <<service, caller, panicked>>
    <2>1. /\ DOMAIN spc' = C!Party /\ spc'[c] = "user" /\ spc'[s] = spc[s]
          /\ \A t \in C!Party : t # c => spc'[t] = spc[t]
      BY <1>2, <1>7, SrvFacts DEF SrvType
    <2>2. /\ \A r \in Server : spc'[r] = spc[r]
          /\ \A d \in Caller : d # c => spc'[d] = spc[d]
      BY <2>1, SrvFacts
    <2>3. SrvType'
      BY <1>1, <1>2, <1>7, <2>1, <2>2 DEF SrvType
    <2>4. RoundIsHolders' /\ StateIsPlace'
      BY <1>1, <1>2, <1>7, <2>2 DEF RoundIsHolders, StateIsPlace
    <2>5. PendingCall'
      BY <1>1, <1>3, <1>4, <1>5, <1>7, <2>1, <2>2 DEF PendingCall
    <2>6. TakingAnswer' /\ MissedAsleep'
      BY <1>1, <1>2, <1>5, <2>1, <2>2 DEF TakingAnswer, MissedAsleep
    <2>7. Answered'
      BY <1>3, <1>4, <2>2 DEF Answered
    <2>8. Round'
      BY <2>3, <2>4, <2>5, <2>6, <2>7 DEF Round
    <2> QED BY <2>8, <1>6 DEF CallsServed, C!CallsServed, C!Expected, Round, PendingCall, Answered
  <1>8. CASE /\ service' = "PENDING" /\ caller' = c
             /\ panicked' = ~ (bound \in Server /\ C!Asleep(bound))
             /\ spc' = [t \in C!Party |-> IF t = c THEN "call"
                           ELSE IF t = bound /\ bound \in Server /\ C!Asleep(bound)
                           THEN C!Resume(t) ELSE spc[t]]
    <2>1. /\ DOMAIN spc' = C!Party /\ spc'[c] = "call"
          /\ \A t \in C!Party : t # c /\ t # s => spc'[t] = spc[t]
          /\ spc[s] = "listen" => spc'[s] = "listen" /\ panicked'
          /\ spc[s] = "listening" => spc'[s] = "copy"
      BY <1>3, <1>4, <1>8, SrvFacts DEF C!Asleep, C!Resume
    <2>2. /\ \A r \in Server : r # s => spc'[r] \in {"user", "bind"}
          /\ \A d \in Caller : d # c => spc'[d] = spc[d]
      BY <1>4, <2>1, SrvFacts
    <2>3. c \notin missed /\ s \notin missed
      BY <1>1, <1>2, <1>3 DEF MissedAsleep
    <2>4. C!Expected'
      BY <1>1, <1>3, <1>5, <2>1, <2>2 DEF C!Expected
    <2>5. ASSUME ~ panicked' PROVE Round'
      <3>1. spc'[s] = "copy"
        BY <2>1, <2>5, <1>3
      <3>2. SrvType'
        BY <1>1, <1>2, <1>8, <2>1, <2>2, <3>1, SrvFacts DEF SrvType
      <3>3. RoundIsHolders' /\ StateIsPlace'
        BY <1>1, <1>4, <1>8, <2>2, <3>1 DEF RoundIsHolders, StateIsPlace
      <3>4. PendingCall'
        BY <1>1, <1>5, <1>8, <2>1, <2>2, <2>3, <3>1 DEF PendingCall
      <3>5. TakingAnswer'
        BY <1>5, <2>1, <2>2 DEF TakingAnswer
      <3>6. MissedAsleep'
        BY <1>1, <1>2, <1>4, <2>1, <2>2, <2>3 DEF MissedAsleep
      <3>7. Answered'
        BY <2>2, <3>1 DEF Answered
      <3> QED BY <3>2, <3>3, <3>4, <3>5, <3>6, <3>7 DEF Round
    <2> QED BY <1>6, <2>4, <2>5 DEF CallsServed, C!CallsServed
  <1> QED BY <1>7, <1>8 DEF C!Request

\* The caller takes the answer.
LEMMA CallCopyInv ==
    ASSUME Round, C!OwnAnswer, NEW c \in Caller, C!CallCopy(c) PROVE Round' /\ C!OwnAnswer'
  <1>1. /\ spc[c] = "copy" /\ got' = [got EXCEPT ![c] = arg] /\ service' = "FINISH"
        /\ spc' = [spc EXCEPT ![c] = "wake"] /\ missed' = missed \ {c}
        /\ UNCHANGED <<bound, caller, arg, serving>>
    BY DEF C!CallCopy
  <1>2. SrvType /\ RoundIsHolders /\ StateIsPlace /\ PendingCall /\ TakingAnswer /\ MissedAsleep /\ Answered
    BY DEF Round
  <1>3. PICK s \in Server \ missed : spc[s] \in {"ack", "acked"}
    BY <1>1, <1>2 DEF TakingAnswer
  <1>4. bound = s /\ \A r \in Server : r # s => spc[r] \in {"user", "bind"}
    BY <1>2, <1>3 DEF RoundIsHolders
  <1>5. missed' = missed
    BY <1>1, <1>2 DEF MissedAsleep
  <1>6. /\ DOMAIN spc' = C!Party /\ spc'[c] = "wake"
        /\ \A t \in C!Party : t # c => spc'[t] = spc[t]
    BY <1>1, <1>2, SrvFacts DEF SrvType
  <1>7. /\ \A r \in Server : spc'[r] = spc[r]
        /\ \A d \in Caller : d # c => spc'[d] = spc[d]
    BY <1>6, SrvFacts
  <1>8. SrvType'
    BY <1>1, <1>2, <1>6, <1>7 DEF SrvType
  <1>9. RoundIsHolders' /\ StateIsPlace'
    BY <1>1, <1>2, <1>3, <1>4, <1>7 DEF RoundIsHolders, StateIsPlace
  <1>10. PendingCall'
    <2>1. service # "PENDING"
      BY <1>2, <1>3, <1>4 DEF StateIsPlace
    <2> QED BY <2>1, <1>1, <1>2, <1>5, <1>6, <1>7 DEF PendingCall
  <1>11. TakingAnswer'
    BY <1>1, <1>2, <1>3, <1>5, <1>6, <1>7 DEF TakingAnswer
  <1>12. MissedAsleep'
    BY <1>1, <1>2, <1>5, <1>6, <1>7 DEF MissedAsleep
  <1>13. Answered'
    BY <1>6 DEF Answered
  <1>14. C!OwnAnswer'
    BY <1>1, <1>2 DEF C!OwnAnswer, SrvType, TakingAnswer
  <1> QED BY <1>8, <1>9, <1>10, <1>11, <1>12, <1>13, <1>14 DEF Round

\* The caller wakes the server, or finds it not asleep yet.
LEMMA CallWakeInv ==
    ASSUME Round, NEW c \in Caller, C!CallWake(c) PROVE Round'
  <1>1. /\ spc[c] = "wake"
        /\ spc' = [t \in C!Party |-> IF t = c THEN "user"
                      ELSE IF t \in C!Wakes(c) THEN C!Resume(t) ELSE spc[t]]
        /\ missed' = missed \cup {r \in Server : r = bound /\ spc[r] = "ack"}
        /\ UNCHANGED <<service, bound, caller, arg, serving, got>>
    BY DEF C!CallWake
  <1>2. SrvType /\ RoundIsHolders /\ StateIsPlace /\ PendingCall /\ TakingAnswer /\ MissedAsleep /\ Answered
    BY DEF Round
  <1>3. PICK s \in Server \ missed : spc[s] \in {"ack", "acked"}
    BY <1>1, <1>2 DEF TakingAnswer
  <1>4. bound = s /\ \A r \in Server : r # s => spc[r] \in {"user", "bind"}
    BY <1>2, <1>3 DEF RoundIsHolders
  <1>5. /\ DOMAIN spc' = C!Party /\ spc'[c] = "user"
        /\ \A t \in C!Party : t # c /\ t # s => spc'[t] = spc[t]
        /\ spc[s] = "ack" => spc'[s] = "ack" /\ missed' = missed \cup {s}
        /\ spc[s] = "acked" => spc'[s] = "user" /\ missed' = missed
    BY <1>1, <1>3, <1>4, SrvFacts DEF C!Wakes, C!Asleep, C!Resume
  <1>6. /\ \A r \in Server : r # s => spc'[r] \in {"user", "bind"}
        /\ \A d \in Caller : d # c => spc'[d] = spc[d]
        /\ \A d \in Caller : d \in missed' <=> d \in missed
    BY <1>3, <1>4, <1>5, SrvFacts
  <1>7. SrvType'
    BY <1>1, <1>2, <1>3, <1>5, <1>6 DEF SrvType
  <1>8. RoundIsHolders' /\ StateIsPlace'
    BY <1>1, <1>2, <1>3, <1>4, <1>5, <1>6 DEF RoundIsHolders, StateIsPlace
  <1>9. PendingCall'
    <2>1. service # "PENDING"
      BY <1>2, <1>3, <1>4 DEF StateIsPlace
    <2> QED BY <2>1, <1>1, <1>2, <1>3, <1>5, <1>6 DEF PendingCall
  <1>10. TakingAnswer'
    <2>1. \A d \in Caller : spc'[d] \notin {"copy", "wake"}
      BY <1>1, <1>2, <1>5, <1>6 DEF TakingAnswer
    <2> QED BY <2>1 DEF TakingAnswer
  <1>11. MissedAsleep'
    <2>1. \A d \in Caller \cap missed' : spc'[d] \in {"call", "calling"}
      BY <1>1, <1>2, <1>6 DEF MissedAsleep
    <2>2. \A r \in Server \cap missed' : spc'[r] \in {"ack", "acked"}
      BY <1>2, <1>3, <1>4, <1>5 DEF MissedAsleep
    <2> QED BY <2>1, <2>2 DEF MissedAsleep
  <1>12. Answered'
    BY <1>3, <1>5, <1>6 DEF Answered
  <1> QED BY <1>7, <1>8, <1>9, <1>10, <1>11, <1>12 DEF Round

\* Going to sleep.
LEMMA SrvBlockInv ==
    ASSUME Round, NEW t \in C!Party, C!Block(t) PROVE Round'
  <1>1. /\ spc[t] \in {"listen", "ack", "call"}
        /\ spc' = [spc EXCEPT ![t] = CASE @ = "listen" -> "listening" [] @ = "ack" -> "acked"
                                       [] OTHER -> "calling"]
        /\ UNCHANGED <<service, bound, caller, arg, serving, got, missed>>
    BY DEF C!Block
  <1>2. SrvType /\ RoundIsHolders /\ StateIsPlace /\ PendingCall /\ TakingAnswer /\ MissedAsleep /\ Answered
    BY DEF Round
  <1>3. /\ DOMAIN spc' = C!Party
        /\ \A r \in C!Party : r # t => spc'[r] = spc[r]
        /\ spc[t] = "listen" => spc'[t] = "listening"
        /\ spc[t] = "ack" => spc'[t] = "acked"
        /\ spc[t] = "call" => spc'[t] = "calling"
    BY <1>1, <1>2 DEF SrvType
  <1>4. /\ \A r \in Server : \/ spc'[r] = spc[r]
                             \/ spc[r] = "listen" /\ spc'[r] = "listening"
                             \/ spc[r] = "ack" /\ spc'[r] = "acked"
        /\ \A c \in Caller : spc'[c] = spc[c] \/ (spc[c] = "call" /\ spc'[c] = "calling")
    BY <1>1, <1>2, <1>3, SrvFacts DEF SrvType
  <1>5. SrvType'
    BY <1>1, <1>2, <1>3, <1>4 DEF SrvType
  <1>6. RoundIsHolders' /\ StateIsPlace'
    BY <1>1, <1>2, <1>4 DEF RoundIsHolders, StateIsPlace
  <1>7. PendingCall'
    BY <1>1, <1>2, <1>4 DEF PendingCall
  <1>8. TakingAnswer'
    BY <1>1, <1>2, <1>4 DEF TakingAnswer
  <1>9. MissedAsleep' /\ Answered'
    BY <1>1, <1>2, <1>4 DEF MissedAsleep, Answered
  <1> QED BY <1>5, <1>6, <1>7, <1>8, <1>9 DEF Round

\* A step of a server or a caller.
LEMMA SrvStepInv == SrvInv /\ [C!Next]_(C!vars) => SrvInv'
  <1> SUFFICES ASSUME SrvInv, [C!Next]_(C!vars), ~ disturbed'
               PROVE  CallsServed' /\ (~ panicked' => Round')
    BY DEF SrvInv
  <1>1. ASSUME Round', C!OwnAnswer' PROVE CallsServed'
    BY <1>1 DEF CallsServed, C!CallsServed, C!Expected, Round, PendingCall, Answered
  <1>2. CASE UNCHANGED C!vars
    BY <1>2 DEF C!vars, SrvInv, CallsServed, C!CallsServed, C!OwnAnswer, C!Expected, Round, SrvType,
       RoundIsHolders, StateIsPlace, PendingCall, TakingAnswer, MissedAsleep, Answered
  <1>3. CASE C!Next
    <2>1. ~ disturbed /\ ~ panicked /\ got \in [Caller -> Args]
      <3>1. ~ disturbed
        BY <1>3 DEF C!Next, C!Bind, C!BindSet, C!sys_srvcall_unbind, C!sys_srvcall_listen,
           C!ListenCopy, C!sys_srvcall_ack, C!Call, C!Request, C!CallCopy, C!CallWake, C!Block,
           C!TriggerWake
      <3> QED BY <3>1, <1>3 DEF C!Next, SrvInv, Round, SrvType
    <2>2. Round /\ C!OwnAnswer
      BY <2>1 DEF SrvInv, CallsServed, C!CallsServed
    <2>3. ASSUME NEW s \in Server,
                 \/ C!Bind(s) \/ C!BindSet(s) \/ C!sys_srvcall_unbind(s)
                 \/ C!sys_srvcall_listen(s) \/ C!ListenCopy(s) \/ C!sys_srvcall_ack(s)
          PROVE  Round' /\ C!OwnAnswer'
      <3>1. Round'
        BY <2>2, <2>3, BindInv, ListenInv, ListenCopyInv, AckInv
      <3>2. got' = got
        BY <2>3 DEF C!Bind, C!BindSet, C!sys_srvcall_unbind, C!sys_srvcall_listen,
           C!ListenCopy, C!sys_srvcall_ack
      <3> QED BY <2>2, <3>1, <3>2 DEF C!OwnAnswer
    <2>4. ASSUME NEW c \in Caller, C!Call(c) \/ C!CallCopy(c) \/ C!CallWake(c)
          PROVE  Round' /\ C!OwnAnswer'
      BY <2>2, <2>4, CallInv, CallCopyInv, CallWakeInv DEF C!CallWake, C!OwnAnswer
    <2>5. ASSUME NEW c \in Caller, C!Request(c)
          PROVE  CallsServed' /\ (~ panicked' => Round')
      BY <2>2, <2>5, RequestInv
    <2>6. ASSUME NEW t \in C!Party, C!Block(t) PROVE Round' /\ C!OwnAnswer'
      BY <2>2, <2>6, SrvBlockInv DEF C!Block, C!OwnAnswer
    <2>7. ASSUME NEW t \in C!Party, C!TriggerWake(t) PROVE FALSE
      BY <2>7 DEF C!TriggerWake
    <2> QED BY <1>1, <1>3, <2>3, <2>4, <2>5, <2>6, <2>7 DEF C!Next
  <1> QED BY <1>2, <1>3

\* Until a trigger wakes a sleeper or a second bind takes the port, sys_srvcall
\* returns the answer to its own arguments, however many callers poll the port,
\* and who sleeps in a service call is waited for or missed its wakeup.
THEOREM ServiceCallsServed == C!Spec => []CallsServed
  <1>1. SrvInv => CallsServed
    BY DEF SrvInv, CallsServed, C!CallsServed
  <1> QED BY <1>1, SrvInitInv, SrvStepInv, PTL DEF C!Spec

-----------------------------------------------------------------------------
(* The mutex of the thread library (UserSync).                             *)

\* Between pthread_mutex_lock and the release in pthread_mutex_unlock.
Inside == {"in", "wait", "timed", "try", "woken", "failed", "post",
           "create_unlock", "spin_unlock", "unlock"}
Unlocking == {"create_unlock", "spin_unlock", "unlock"}
Locking == {"create_lock", "spin_lock", "lock"}

\* Where threads go on after the unlock.
Elsewhere == {"out", "posted", "cond_wait", "cond_timed", "cond_try"}

Places == Inside \cup Locking \cup Elsewhere \cup {"spin_try", "trylock", "stuck", "signal"}

OwnerInv ==
    /\ lock \in {0, 1} /\ owner \in Thread \cup {NoThread}
    /\ lock = 1 <=> owner = NoThread
    /\ upc \in [Thread -> Places] /\ then \in [Thread -> Places]
    /\ \A t \in Thread : upc[t] \in Inside => owner = t
    /\ \A t \in Thread : upc[t] \in Locking => then[t] \in Inside \ Unlocking
    /\ \A t \in Thread : upc[t] \in Unlocking => then[t] \in Elsewhere

\* At most one thread is in the section that the mutex guards.
OneInside == \A t, u \in Thread : upc[t] \in Inside /\ upc[u] \in Inside => t = u

\* A thread that goes from one place to another and leaves the lock alone.
LEMMA MoveInv ==
    ASSUME OwnerInv, NEW t \in Thread, NEW b \in Places, NEW n \in Places,
           upc' = [upc EXCEPT ![t] = b], then' = [then EXCEPT ![t] = n],
           UNCHANGED <<lock, owner>>,
           b \in Inside => owner = t,
           b \in Locking => n \in Inside \ Unlocking,
           b \in Unlocking => n \in Elsewhere
    PROVE  OwnerInv'
  <1>1. /\ upc' \in [Thread -> Places] /\ then' \in [Thread -> Places]
        /\ \A u \in Thread : u # t => upc'[u] = upc[u] /\ then'[u] = then[u]
        /\ upc'[t] = b /\ then'[t] = n
    BY DEF OwnerInv
  <1>2. \A u \in Thread : upc'[u] \in Inside => owner' = u
    BY <1>1 DEF OwnerInv
  <1>3. \A u \in Thread : upc'[u] \in Locking => then'[u] \in Inside \ Unlocking
    BY <1>1 DEF OwnerInv
  <1>4. \A u \in Thread : upc'[u] \in Unlocking => then'[u] \in Elsewhere
    BY <1>1 DEF OwnerInv
  <1> QED BY <1>1, <1>2, <1>3, <1>4 DEF OwnerInv

\* The same when the thread goes on with what it has to do next.
LEMMA GoInv ==
    ASSUME OwnerInv, NEW t \in Thread, NEW a, NEW b \in Places, U!Go(t, a, b), UNCHANGED then,
           UNCHANGED <<lock, owner>>,
           b \in Inside => owner = t,
           b \in Locking => then[t] \in Inside \ Unlocking,
           b \in Unlocking => then[t] \in Elsewhere
    PROVE  OwnerInv'
  <1>1. upc' = [upc EXCEPT ![t] = b]
    BY DEF U!Go
  <1>2. then' = [then EXCEPT ![t] = then[t]] /\ then[t] \in Places
    BY DEF OwnerInv
  <1> QED BY <1>1, <1>2, MoveInv

\* A thread calls pthread_mutex_lock or pthread_mutex_unlock.
LEMMA CallMutexInv ==
    ASSUME OwnerInv, NEW t \in Thread, NEW a, NEW n \in Places, UNCHANGED <<lock, owner>>,
           \/ U!Call(t, a, "spin_lock", n) /\ n \in Inside \ Unlocking
           \/ U!Call(t, a, "spin_unlock", n) /\ n \in Elsewhere /\ a \in Inside
    PROVE  OwnerInv'
  <1>1. PICK entry \in {"spin_lock", "spin_unlock"} :
          /\ U!Call(t, a, entry, n)
          /\ entry = "spin_lock" => n \in Inside \ Unlocking
          /\ entry = "spin_unlock" => n \in Elsewhere /\ a \in Inside
    OBVIOUS
  <1>2. PICK b \in {"spin_lock", "create_lock", "spin_unlock", "create_unlock"} :
          /\ b = U!Enter(entry)
          /\ entry = "spin_lock" => b \in {"spin_lock", "create_lock"}
          /\ entry = "spin_unlock" => b \in {"spin_unlock", "create_unlock"}
    BY DEF U!Enter, U!CreateFor
  <1>3. upc[t] = a /\ upc' = [upc EXCEPT ![t] = b] /\ then' = [then EXCEPT ![t] = n]
    BY <1>1, <1>2 DEF U!Call, U!Go
  <1>5. b \in Places
    BY <1>2 DEF Places, Inside, Locking
  <1>4. /\ b \in Inside => owner = t
        /\ b \in Locking => n \in Inside \ Unlocking
        /\ b \in Unlocking => n \in Elsewhere
    BY <1>1, <1>2, <1>3 DEF OwnerInv, Inside, Locking, Unlocking
  <1> QED BY <1>3, <1>4, <1>5, MoveInv

\* A free lock is taken.
LEMMA TakeMutexInv ==
    ASSUME OwnerInv, NEW t \in Thread, NEW a, NEW b \in Places, U!Go(t, a, b), UNCHANGED then,
           lock = 1, lock' = 0, owner' = t, b \in Inside \ Unlocking
    PROVE  OwnerInv'
  <1>1. upc' = [upc EXCEPT ![t] = b] /\ owner = NoThread /\ t # NoThread
    BY QueuesAssumption DEF U!Go, OwnerInv, U!UserSyncConstants
  <1>2. \A u \in Thread : upc[u] \notin Inside
    BY <1>1, QueuesAssumption DEF OwnerInv, U!UserSyncConstants
  <1>3. /\ upc' \in [Thread -> Places]
        /\ \A u \in Thread : u # t => upc'[u] = upc[u]
        /\ upc'[t] = b /\ b \notin Locking
    BY <1>1 DEF OwnerInv, Inside, Locking
  <1>4. \A u \in Thread : upc'[u] \in Inside => owner' = u
    BY <1>2, <1>3
  <1>5. \A u \in Thread : upc'[u] \in Locking => then'[u] \in Inside \ Unlocking
    BY <1>3 DEF OwnerInv
  <1>6. \A u \in Thread : upc'[u] \in Unlocking => then'[u] \in Elsewhere
    BY <1>3 DEF OwnerInv
  <1>7. /\ lock' \in {0, 1} /\ owner' \in Thread \cup {NoThread}
        /\ lock' = 1 <=> owner' = NoThread
    BY <1>1
  <1>8. then' \in [Thread -> Places]
    BY DEF OwnerInv
  <1> QED BY <1>3, <1>4, <1>5, <1>6, <1>7, <1>8 DEF OwnerInv

\* The holder releases the lock.
LEMMA ReleaseMutexInv ==
    ASSUME OwnerInv, NEW t \in Thread, U!UnlockSection(t) PROVE OwnerInv'
  <1>1. /\ upc[t] = "unlock" /\ owner = t /\ then[t] \in Elsewhere /\ then[t] \in Places
        /\ UNCHANGED then
    BY DEF U!UnlockSection, U!Go, OwnerInv, Inside, Unlocking
  <1>2. CASE kind = "RECURSIVE" /\ ucount > 0
    <2>1. U!Go(t, "unlock", "in") /\ UNCHANGED <<lock, owner>>
      BY <1>2 DEF U!UnlockSection, U!Release
    <2>2. "in" \in Places /\ "in" \notin Locking /\ "in" \notin Unlocking
      BY DEF Places, Inside, Locking, Unlocking
    <2> QED BY <1>1, <2>1, <2>2, GoInv
  <1>3. CASE ~ (kind = "RECURSIVE" /\ ucount > 0)
    <2>1. upc' = [upc EXCEPT ![t] = then[t]] /\ lock' = 1 /\ owner' = NoThread
      BY <1>3 DEF U!UnlockSection, U!Release, U!Go
    <2>2. /\ upc' \in [Thread -> Places]
          /\ \A u \in Thread : u # t => upc'[u] = upc[u]
          /\ upc'[t] = then[t] /\ then[t] \notin Inside \cup Locking \cup Unlocking
      BY <1>1, <2>1 DEF OwnerInv, Inside, Locking, Unlocking, Elsewhere
    <2>3. \A u \in Thread : upc'[u] \notin Inside
      BY <1>1, <2>2 DEF OwnerInv
    <2>4. \A u \in Thread : upc'[u] \in Locking => then'[u] \in Inside \ Unlocking
      BY <1>1, <2>2 DEF OwnerInv
    <2>5. \A u \in Thread : upc'[u] \in Unlocking => then'[u] \in Elsewhere
      BY <1>1, <2>2 DEF OwnerInv
    <2> QED BY <1>1, <2>1, <2>2, <2>3, <2>4, <2>5 DEF OwnerInv
  <1> QED BY <1>2, <1>3

\* pthread_mutex_lock, pthread_mutex_trylock and pthread_mutex_unlock.
LEMMA MutexInv ==
    ASSUME OwnerInv, NEW t \in Thread, U!Mutex(t) PROVE OwnerInv'
  <1> USE DEF Inside, Locking, Unlocking, Elsewhere, Places
  <1>1. ASSUME NEW entry \in {"spin_lock", "spin_unlock"}, U!Create(t, entry) PROVE OwnerInv'
    <2>1. /\ U!Go(t, U!CreateFor(entry), entry) /\ UNCHANGED then /\ UNCHANGED <<lock, owner>>
          /\ upc[t] = U!CreateFor(entry)
      BY <1>1 DEF U!Create, U!semVars, U!Go
    <2>2. /\ entry \in Places
          /\ entry \in Inside => owner = t
          /\ entry \in Locking => then[t] \in Inside \ Unlocking
          /\ entry \in Unlocking => then[t] \in Elsewhere
      BY <2>1 DEF U!CreateFor, OwnerInv
    <2> HIDE DEF Inside, Locking, Unlocking, Elsewhere, Places
    <2> QED BY <2>1, <2>2, GoInv
  <1>2. ASSUME NEW a, NEW b,
               \/ (a = "spin_lock" /\ b = "lock") \/ (a = "spin_try" /\ b = "trylock")
               \/ (a = "spin_unlock" /\ b = "unlock"),
               U!MutexSpin(t, a, b)
        PROVE  OwnerInv'
    <2>1. U!Go(t, a, b) /\ UNCHANGED then /\ UNCHANGED <<lock, owner>> /\ upc[t] = a
      BY <1>2 DEF U!MutexSpin, U!Go
    <2>2. /\ b \in Places
          /\ b \in Inside => owner = t
          /\ b \in Locking => then[t] \in Inside \ Unlocking
          /\ b \in Unlocking => then[t] \in Elsewhere
      BY <1>2, <2>1 DEF OwnerInv
    <2> HIDE DEF Inside, Locking, Unlocking, Elsewhere, Places
    <2> QED BY <2>1, <2>2, GoInv
  <1>3. ASSUME NEW a \in {"lock", "trylock"}, U!Refuse(t, a) PROVE OwnerInv'
    <2> DEFINE b == IF owner = t THEN "in" ELSE "out"
    <2>1. U!Go(t, a, b) /\ UNCHANGED then /\ UNCHANGED <<lock, owner>>
      BY <1>3 DEF U!Refuse
    <2>2. /\ b \in Places
          /\ b \in Inside => owner = t
          /\ b \notin Locking /\ b \notin Unlocking
      OBVIOUS
    <2> HIDE DEF Inside, Locking, Unlocking, Elsewhere, Places, b
    <2> QED BY <2>1, <2>2, GoInv
  <1>4. CASE U!Take(t)
    <2>1. U!Go(t, "lock", then[t]) /\ UNCHANGED then /\ lock = 1 /\ lock' = 0 /\ owner' = t
      BY <1>4 DEF U!Take
    <2>2. then[t] \in Places /\ then[t] \in Inside \ Unlocking
      BY <2>1 DEF U!Go, OwnerInv
    <2> HIDE DEF Inside, Locking, Unlocking, Elsewhere, Places
    <2> QED BY <2>1, <2>2, TakeMutexInv
  <1>5. CASE U!WaitForMutex(t)
    <2>1. U!Go(t, "lock", "spin_lock") /\ UNCHANGED then /\ UNCHANGED <<lock, owner>> /\ upc[t] = "lock"
      BY <1>5 DEF U!WaitForMutex, U!Go
    <2>2. /\ "spin_lock" \in Places /\ "spin_lock" \notin Inside /\ "spin_lock" \notin Unlocking
          /\ then[t] \in Inside \ Unlocking
      BY <2>1 DEF OwnerInv
    <2> HIDE DEF Inside, Locking, Unlocking, Elsewhere, Places
    <2> QED BY <2>1, <2>2, GoInv
  <1>6. CASE U!TrySection(t)
    <2>1. CASE /\ U!Go(t, "trylock", IF lock = 1 THEN "in" ELSE "out")
               /\ lock' = 0 /\ owner' = IF lock = 1 THEN t ELSE owner
               /\ UNCHANGED then
      <3>1. CASE lock = 1
        <4>1. U!Go(t, "trylock", "in") /\ owner' = t
          BY <2>1, <3>1
        <4>2. "in" \in Places /\ "in" \in Inside \ Unlocking
          OBVIOUS
        <4> HIDE DEF Inside, Locking, Unlocking, Elsewhere, Places
        <4> QED BY <2>1, <3>1, <4>1, <4>2, TakeMutexInv
      <3>2. CASE lock # 1
        <4>1. U!Go(t, "trylock", "out") /\ UNCHANGED <<lock, owner>>
          BY <2>1, <3>2 DEF OwnerInv
        <4>2. "out" \in Places /\ "out" \notin Inside \cup Locking \cup Unlocking
          OBVIOUS
        <4> HIDE DEF Inside, Locking, Unlocking, Elsewhere, Places
        <4> QED BY <2>1, <4>1, <4>2, GoInv
      <3> QED BY <3>1, <3>2
    <2>2. CASE U!Go(t, "trylock", "stuck") /\ UNCHANGED <<lock, owner, then>>
      <3>1. "stuck" \in Places /\ "stuck" \notin Inside \cup Locking \cup Unlocking
        OBVIOUS
      <3> HIDE DEF Inside, Locking, Unlocking, Elsewhere, Places
      <3> QED BY <2>2, <3>1, GoInv
    <2>3. CASE U!Refuse(t, "trylock")
      BY <2>3, <1>3
    <2> HIDE DEF Inside, Locking, Unlocking, Elsewhere, Places
    <2> QED BY <1>6, <2>1, <2>2, <2>3 DEF U!TrySection, U!mutexVars
  <1>7. CASE U!LockSection(t)
    BY <1>3, <1>4, <1>5, <1>7 DEF U!LockSection
  <1> HIDE DEF Inside, Locking, Unlocking, Elsewhere, Places
  <1>9. ASSUME \/ U!MutexSpin(t, "spin_lock", "lock") \/ U!MutexSpin(t, "spin_try", "trylock")
               \/ U!MutexSpin(t, "spin_unlock", "unlock")
        PROVE  OwnerInv'
    BY <1>2, <1>9
  <1> QED BY <1>1, <1>6, <1>7, <1>9, ReleaseMutexInv DEF U!Mutex

\* sem_wait and the like leave the mutex to its functions.
LEMMA SemaphoreInv ==
    ASSUME OwnerInv, NEW t \in Thread, U!Semaphore(t) PROVE OwnerInv'
  <1> USE DEF Inside, Locking, Unlocking, Elsewhere, Places
  <1>1. ASSUME NEW a \in Inside, NEW n \in Elsewhere, U!Call(t, a, "spin_unlock", n), UNCHANGED <<lock, owner>>
        PROVE  OwnerInv'
    <2>1. n \in Places
      OBVIOUS
    <2> HIDE DEF Inside, Locking, Unlocking, Elsewhere, Places
    <2> QED BY <1>1, <2>1, CallMutexInv
  <1>2. ASSUME NEW a, NEW n \in Inside \ Unlocking, U!Call(t, a, "spin_lock", n), UNCHANGED <<lock, owner>>
        PROVE  OwnerInv'
    <2>1. n \in Places
      OBVIOUS
    <2> HIDE DEF Inside, Locking, Unlocking, Elsewhere, Places
    <2> QED BY <1>2, <2>1, CallMutexInv
  <1>3. ASSUME NEW here \in U!Way \cup {"woken"}, U!Down(t, here) PROVE OwnerInv'
    <2>1. here \in Inside /\ "out" \in Elsewhere
      BY DEF U!Way
    <2> QED BY <1>1, <1>3, <2>1 DEF U!Down, U!mutexVars
  <1>4. ASSUME NEW way \in U!Way, U!CondSpin(t, way) PROVE OwnerInv'
    <2>1. way \in Inside /\ U!Cond(way) \in Elsewhere
      BY DEF U!Way, U!Cond
    <2> QED BY <1>1, <1>4, <2>1 DEF U!CondSpin, U!mutexVars
  <1>5. ASSUME NEW way \in U!Way, U!CondWait(t, way) PROVE OwnerInv'
    <2> DEFINE n == CASE way = "wait" -> "wait" [] way = "timed" -> "woken" [] way = "try" -> "failed"
    <2>1. n \in Inside \ Unlocking
      BY DEF U!Way
    <2>2. U!Call(t, U!Cond(way), "spin_lock", n) /\ UNCHANGED <<lock, owner>>
      BY <1>5 DEF U!CondWait, U!mutexVars
    <2> HIDE DEF n
    <2> QED BY <1>2, <2>1, <2>2
  <1>6. CASE U!Failed(t)
    BY <1>1, <1>6 DEF U!Failed, U!mutexVars
  <1>7. CASE U!Post(t)
    BY <1>1, <1>7 DEF U!Post, U!mutexVars
  <1>8. CASE U!SignalSpin(t)
    <2>1. U!Go(t, "posted", "signal") /\ UNCHANGED then /\ UNCHANGED <<lock, owner>>
      BY <1>8 DEF U!SignalSpin, U!mutexVars
    <2>2. "signal" \in Places /\ "signal" \notin Inside \cup Locking \cup Unlocking
      OBVIOUS
    <2> HIDE DEF Inside, Locking, Unlocking, Elsewhere, Places
    <2> QED BY <2>1, <2>2, GoInv
  <1>9. CASE U!Signal(t)
    <2>1. U!Go(t, "signal", "out") /\ UNCHANGED then /\ UNCHANGED <<lock, owner>>
      BY <1>9 DEF U!Signal, U!mutexVars
    <2>2. "out" \in Places /\ "out" \notin Inside \cup Locking \cup Unlocking
      OBVIOUS
    <2> HIDE DEF Inside, Locking, Unlocking, Elsewhere, Places
    <2> QED BY <2>1, <2>2, GoInv
  <1> HIDE DEF Inside, Locking, Unlocking, Elsewhere, Places
  <1> QED BY <1>3, <1>4, <1>5, <1>6, <1>7, <1>8, <1>9 DEF U!Semaphore

\* The threads that call these functions.
LEMMA UsersInv ==
    ASSUME OwnerInv, NEW t \in Thread, U!UseMutex(t) \/ U!UseSem(t) PROVE OwnerInv'
  <1>0. UNCHANGED <<lock, owner>>
    BY DEF U!UseMutex, U!UseSem, U!mutexVars
  <1>1. ASSUME NEW a, NEW n \in Inside \ Unlocking, U!Call(t, a, "spin_lock", n)
        PROVE  OwnerInv'
    <2>1. n \in Places
      BY DEF Places
    <2> QED BY <1>0, <1>1, <2>1, CallMutexInv
  <1>2. CASE U!Call(t, "in", "spin_unlock", "out")
    <2>1. "out" \in Places /\ "out" \in Elsewhere /\ "in" \in Inside
      BY DEF Places, Elsewhere, Inside
    <2> QED BY <1>0, <1>2, <2>1, CallMutexInv
  <1>3. CASE U!Go(t, "out", "spin_try") /\ UNCHANGED then
    <2>1. "spin_try" \in Places /\ "spin_try" \notin Inside \cup Locking \cup Unlocking
      BY DEF Places, Inside, Locking, Unlocking
    <2> QED BY <1>0, <1>3, <2>1, GoInv
  <1>4. "in" \in Inside \ Unlocking /\ "post" \in Inside \ Unlocking /\ U!Way \subseteq Inside \ Unlocking
    BY DEF Inside, Unlocking, U!Way
  <1>5. CASE U!UseMutex(t)
    BY <1>1, <1>2, <1>3, <1>4, <1>5 DEF U!UseMutex
  <1>6. CASE U!UseSem(t)
    BY <1>1, <1>4, <1>6 DEF U!UseSem
  <1> QED BY <1>5, <1>6

\* A step of any thread.
LEMMA UserStepInv == OwnerInv /\ [U!Next]_(U!vars) => OwnerInv'
  <1> SUFFICES ASSUME OwnerInv, [U!Next]_(U!vars) PROVE OwnerInv'
    OBVIOUS
  <1>1. CASE UNCHANGED U!vars
    BY <1>1 DEF U!vars, U!mutexVars, OwnerInv
  <1>2. CASE U!Next
    BY <1>2, MutexInv, SemaphoreInv, UsersInv DEF U!Next
  <1> QED BY <1>1, <1>2

\* The mutex is free at the start.
LEMMA UserInitInv == U!Init => OwnerInv
  BY DEF U!Init, OwnerInv, Inside, Locking, Unlocking, Elsewhere, Places

\* pthread_mutex_lock, trylock and unlock keep all threads but one out, for any
\* number of threads and every kind of mutex, and when sem_wait, sem_timedwait and
\* the condition variable release and take the mutex.
THEOREM UserMutualExclusion == U!Spec => []OneInside
  <1>1. OwnerInv => OneInside
    BY DEF OwnerInv, OneInside
  <1> QED BY <1>1, UserInitInv, UserStepInv, PTL DEF U!Spec

\* The owner of a mutex of the library is the owner of an abstract lock: it is
\* never overwritten by another thread, only cleared.
THEOREM UserMutexImplementsLock == U!Spec => UserLockIsALock
  <1>1. U!Init => U!L!LockInit
    BY DEF U!Init, U!L!LockInit
  <1> DEFINE word == [m \in {"mutex"} |-> owner]
  <1>2. OwnerInv /\ [U!Next]_(U!vars) => [U!L!LockNext]_word
    <2> SUFFICES ASSUME OwnerInv, U!Next, owner' # owner PROVE U!L!LockNext
      BY DEF U!vars, U!mutexVars
    <2>0. "mutex" \in {"mutex"} /\ word["mutex"] = owner
      OBVIOUS
    <2>1. PICK t \in Thread : U!UseMutex(t) \/ U!UseSem(t) \/ U!Mutex(t) \/ U!Semaphore(t)
      BY DEF U!Next
    <2>2. U!Mutex(t)
      BY <2>1 DEF U!UseMutex, U!UseSem, U!Semaphore, U!mutexVars, U!Down, U!CondSpin, U!CondWait,
         U!Failed, U!Post, U!SignalSpin, U!Signal
    <2>3. U!Take(t) \/ (U!TrySection(t) /\ lock = 1 /\ owner' = t) \/ U!UnlockSection(t)
      BY <2>2 DEF U!Mutex, U!Create, U!MutexSpin, U!LockSection, U!WaitForMutex, U!Refuse,
         U!TrySection, U!mutexVars
    <2>4. CASE lock = 1 /\ owner' = t
      <3>1. owner = NoThread
        BY <2>4 DEF OwnerInv
      <3> QED BY <2>4, <3>1 DEF U!L!LockNext, U!L!Acquire
    <2>5. CASE U!UnlockSection(t)
      <3>1. owner = t /\ owner' = NoThread
        BY <2>5 DEF U!UnlockSection, U!Release, U!Go, OwnerInv, Inside
      <3> QED BY <3>1 DEF U!L!LockNext, U!L!Release
    <2> QED BY <2>3, <2>4, <2>5 DEF U!Take
  <1>3. U!Spec => U!L!LockSpec
    BY <1>1, <1>2, UserInitInv, UserStepInv, PTL DEF U!Spec, U!L!LockSpec
  <1> QED BY <1>3 DEF UserLockIsALock, U!ImplementsLock

-----------------------------------------------------------------------------
(* The sleepers of the mutex and of the semaphore (UserSync).              *)

OnceIn(s) == \A i, j \in 1 .. Len(s) : s[i] = s[j] => i = j
Has(s, t) == \E i \in 1 .. Len(s) : s[i] = t

UserType ==
    /\ waitque \in Handle \cup {-1} /\ used \subseteq Handle
    /\ queue \in [Handle -> Seq(Thread)] /\ cqueue \in Seq(Thread)
    /\ cspin \in {0, 1} /\ value \in Int

\* The mutex has a wait queue when it is used, and an unused one is empty.
QueueCreated ==
    /\ waitque = -1 <=> used = {}
    /\ waitque # -1 => waitque \in used
    /\ \A t \in Thread : upc[t] \in {"spin_lock", "lock", "spin_unlock", "unlock"} => waitque # -1
    /\ \A h \in Handle : queue[h] # << >> => h \in used

\* A thread that sleeps is in one queue, once, and starts to lock when it is
\* woken.
SleepsOnce ==
    /\ OnceIn(cqueue) /\ \A h \in Handle : OnceIn(queue[h])
    /\ \A t \in Thread, h \in Handle : Has(queue[h], t) =>
          upc[t] = "spin_lock" /\ ~ Has(cqueue, t) /\ \A g \in Handle : Has(queue[g], t) => g = h
    /\ \A t \in Thread : Has(cqueue, t) => upc[t] = "spin_lock" /\ then[t] \in {"wait", "woken"}

\* In pthread_cond_wait or pthread_cond_timedwait up to the block.
CondPlaces == {"cond_wait", "cond_timed", "cond_try"}

\* Where a thread that uses a semaphore is, and where it goes on.
SemPlace(at, next) ==
    /\ at \in {"wait", "timed", "try", "woken", "failed", "post"} \cup CondPlaces => next = at
    /\ at \in Locking => next \in {"wait", "timed", "try", "woken", "failed", "post"}
    /\ at \in Unlocking => next \in {"out", "posted"} \cup CondPlaces
    /\ at \in {"posted", "signal"} => next = "posted"
    /\ at = "out" => next \in {"out", "posted"}
    /\ at \notin {"in", "spin_try", "trylock", "stuck", "create_lock", "create_unlock"}
    /\ kind = "SEM" => next \notin {"timed", "woken", "cond_timed"}

SemPlaces ==
    /\ U!IsSem => waitque # -1 /\ \A t \in Thread : SemPlace(upc[t], then[t])
    /\ ~ U!IsSem =>
          /\ cqueue = << >> /\ value = Value
          /\ \A t \in Thread :
                /\ then[t] \in {"out", "in"}
                /\ upc[t] \in {"out", "in", "spin_try", "trylock", "stuck"} \cup Locking \cup Unlocking

\* Who has the spin lock of the condition variable.
HasCond(t) == upc[t] = "signal" \/ then[t] \in CondPlaces

CondHeld ==
    /\ \A t, u \in Thread : HasCond(t) /\ HasCond(u) => t = u
    /\ (\E t \in Thread : HasCond(t)) => cspin = 1

\* EveryUnitAnnounced, from the moment at which a thread has found nothing and
\* taken the spin lock of the condition variable.
UnitsAnnounced ==
    cqueue # << >> \/ (\E t \in Thread : then[t] \in CondPlaces)
        => value <= Cardinality(U!OnTheWay)

UserInv ==
    /\ UserType /\ QueueCreated /\ SleepsOnce /\ SemPlaces /\ CondHeld
    /\ U!MutexForgetsNobody /\ UnitsAnnounced /\ U!NoOverdraw

Step(t) == U!UseMutex(t) \/ U!UseSem(t) \/ U!Mutex(t) \/ U!Semaphore(t)

Others(t) == \A u \in Thread : u # t => upc'[u] = upc[u] /\ then'[u] = then[u]

LEMMA AsleepIs ==
    ASSUME NEW t
    PROVE  U!Asleep(t) <=> (Has(cqueue, t) \/ \E h \in Handle : Has(queue[h], t))
  BY DEF U!Asleep, U!Contains, Has

\* Only a thread that is awake moves.
LEMMA OneMoves ==
    ASSUME OwnerInv, NEW t \in Thread, Step(t)
    PROVE  /\ kind' = kind /\ Others(t) /\ ~ U!Asleep(t)
           /\ upc' = [upc EXCEPT ![t] = upc'[t]] /\ then' = [then EXCEPT ![t] = then'[t]]
  <1> DEFINE Moves == /\ kind' = kind /\ ~ U!Asleep(t)
                      /\ \E b : upc' = [upc EXCEPT ![t] = b]
                      /\ then' = then \/ \E n : then' = [then EXCEPT ![t] = n]
  <1>1. ASSUME U!UseMutex(t) \/ U!UseSem(t) PROVE Moves
    BY <1>1 DEF U!UseMutex, U!UseSem, U!Call, U!Go
  <1>2. ASSUME U!Mutex(t) PROVE Moves
    <2>1. ASSUME NEW e \in {"spin_lock", "spin_unlock"}, U!Create(t, e) PROVE Moves
      BY <2>1 DEF U!Create, U!Go
    <2>2. ASSUME NEW a, NEW b, U!MutexSpin(t, a, b) PROVE Moves
      BY <2>2 DEF U!MutexSpin, U!Go
    <2>3. ASSUME U!LockSection(t) \/ U!TrySection(t) PROVE Moves
      BY <2>3 DEF U!LockSection, U!TrySection, U!Take, U!WaitForMutex, U!Refuse, U!Go
    <2>4. ASSUME U!UnlockSection(t) PROVE Moves
      BY <2>4 DEF U!UnlockSection, U!Go
    <2> QED BY <1>2, <2>1, <2>2, <2>3, <2>4 DEF U!Mutex
  <1>3. ASSUME U!Semaphore(t) PROVE Moves
    BY <1>3 DEF U!Semaphore, U!Down, U!CondSpin, U!CondWait, U!Failed, U!Post, U!SignalSpin,
       U!Signal, U!Call, U!Go
  <1>4. Moves
    BY <1>1, <1>2, <1>3 DEF Step
  <1> HIDE DEF Moves
  <1>5. PICK b : upc' = [upc EXCEPT ![t] = b]
    BY <1>4 DEF Moves
  <1>6. PICK n : then' = [then EXCEPT ![t] = n]
    <2>1. CASE then' = then
      <3>1. then' = [then EXCEPT ![t] = then[t]]
        BY <2>1 DEF OwnerInv
      <3> QED BY <3>1
    <2> QED BY <2>1, <1>4 DEF Moves
  <1>7. upc'[t] = b /\ then'[t] = n /\ Others(t)
    BY <1>5, <1>6 DEF OwnerInv, Others
  <1> QED BY <1>4, <1>5, <1>6, <1>7 DEF Moves

\* A step that leaves the queues alone.
Quiet(t) ==
    /\ UNCHANGED <<waitque, used, queue, cqueue>>
    /\ upc'[t] \in {"spin_lock", "lock", "spin_unlock", "unlock"} => waitque # -1
    /\ lock' = 1 => lock = 1 /\ (upc[t] \in {"spin_lock", "lock", "unlock"} => upc'[t] = "lock")

LEMMA QuietSleep ==
    ASSUME UserType, QueueCreated, SleepsOnce, U!MutexForgetsNobody, NEW t \in Thread,
           Others(t), ~ U!Asleep(t), Quiet(t)
    PROVE  QueueCreated' /\ SleepsOnce' /\ (U!MutexForgetsNobody)'
  <1>1. QueueCreated'
    BY DEF QueueCreated, Quiet, Others
  <1>2. ~ Has(cqueue, t) /\ \A h \in Handle : ~ Has(queue[h], t)
    BY AsleepIs
  <1>3. SleepsOnce'
    BY <1>2 DEF SleepsOnce, Quiet, Others
  <1>4. ASSUME lock' = 1, Cardinality(used') = 1, NEW h \in Handle, queue'[h] # << >>
        PROVE  (U!InLockCode)' # {}
    <2>1. lock = 1 /\ U!Cardinality(used) = 1
      BY <1>4 DEF Quiet, U!Cardinality, Cardinality
    <2>2. PICK u \in U!InLockCode : TRUE
      BY <2>1, <1>4 DEF U!MutexForgetsNobody, Quiet
    <2>3. u \in Thread /\ ~ U!Asleep(u) /\ upc[u] \in {"spin_lock", "lock", "unlock"}
      BY <2>2 DEF U!InLockCode
    <2>4. upc'[u] \in {"spin_lock", "lock", "unlock"}
      BY <2>3, <1>4 DEF Quiet, Others
    <2>5. ~ (U!Asleep(u))'
      BY <2>3 DEF Quiet, U!Asleep
    <2>6. u \in (U!InLockCode)'
      BY <2>3, <2>4, <2>5 DEF U!InLockCode
    <2> QED BY <2>6
  <1>5. (U!MutexForgetsNobody)'
    <2>1. U!Cardinality(used') = Cardinality(used')
      BY DEF U!Cardinality, Cardinality
    <2> QED BY <1>4, <2>1 DEF U!MutexForgetsNobody
  <1> QED BY <1>1, <1>3, <1>5

\* The steps that do leave them alone.
LEMMA QuietSteps ==
    ASSUME OwnerInv, QueueCreated, NEW t \in Thread,
           \/ U!UseMutex(t) \/ U!UseSem(t) \/ U!Take(t) \/ U!TrySection(t) \/ U!Refuse(t, "lock")
           \/ U!MutexSpin(t, "spin_lock", "lock") \/ U!MutexSpin(t, "spin_try", "trylock")
           \/ U!MutexSpin(t, "spin_unlock", "unlock")
           \/ (\E here \in U!Way \cup {"woken"} : U!Down(t, here))
           \/ (\E way \in U!Way : U!CondSpin(t, way))
           \/ U!Failed(t) \/ U!Post(t) \/ U!SignalSpin(t)
    PROVE  Quiet(t)
  <1> USE DEF U!mutexVars, U!semVars
  <1>1. ASSUME NEW a \in {"out", "in", "wait", "timed", "try", "woken", "failed", "post"},
               NEW e \in {"spin_lock", "spin_unlock"}, NEW n, U!Call(t, a, e, n),
               UNCHANGED <<waitque, used, queue, cqueue, lock>>
        PROVE  Quiet(t)
    <2>1. upc[t] = a /\ upc'[t] = U!Enter(e)
      BY <1>1 DEF U!Call, U!Go, OwnerInv
    <2>2. U!Enter(e) \in {"spin_lock", "lock", "spin_unlock", "unlock"} => waitque # -1
      BY DEF U!Enter, U!CreateFor
    <2> QED BY <1>1, <2>1, <2>2 DEF Quiet
  <1>2. ASSUME NEW a, NEW b, U!Go(t, a, b), UNCHANGED <<waitque, used, queue, cqueue>>,
               b \in {"spin_lock", "lock", "spin_unlock", "unlock"} => waitque # -1,
               lock' = 1 => lock = 1 /\ (a \in {"spin_lock", "lock", "unlock"} => b = "lock")
        PROVE  Quiet(t)
    <2>1. upc[t] = a /\ upc'[t] = b
      BY <1>2 DEF U!Go, OwnerInv
    <2> QED BY <1>2, <2>1 DEF Quiet
  <1>3. CASE U!UseMutex(t)
    BY <1>1, <1>2, <1>3 DEF U!UseMutex
  <1>4. CASE U!UseSem(t)
    BY <1>1, <1>4 DEF U!UseSem
  <1>5. CASE U!Take(t)
    <2>1. upc[t] = "lock" /\ then[t] \in Inside \ Unlocking
      BY <1>5 DEF U!Take, U!Go, OwnerInv, Locking
    <2>2. then[t] \notin {"spin_lock", "lock", "spin_unlock", "unlock"}
      BY <2>1 DEF Inside, Unlocking
    <2>3. U!Go(t, "lock", then[t]) /\ lock' = 0 /\ UNCHANGED <<waitque, used, queue, cqueue>>
      BY <1>5 DEF U!Take
    <2>4. upc'[t] = then[t]
      BY <2>3 DEF U!Go, OwnerInv
    <2> QED BY <2>2, <2>3, <2>4 DEF Quiet
  <1>6. ASSUME NEW a \in {"lock", "trylock"}, U!Refuse(t, a) PROVE Quiet(t)
    <2>1. lock = 0
      BY <1>6 DEF U!Refuse, OwnerInv
    <2>2. /\ \E b \in {"in", "out"} : U!Go(t, a, b)
          /\ lock' = lock /\ UNCHANGED <<waitque, used, queue, cqueue>>
      BY <1>6 DEF U!Refuse
    <2>3. upc'[t] \in {"in", "out"}
      BY <2>2 DEF U!Go, OwnerInv
    <2> QED BY <2>1, <2>2, <2>3 DEF Quiet
  <1>7. CASE U!TrySection(t)
    <2>1. CASE U!Refuse(t, "trylock")
      BY <1>6, <2>1
    <2>2. CASE ~ U!Refuse(t, "trylock")
      <3>1. /\ \E b \in {"in", "out", "stuck"} : U!Go(t, "trylock", b)
            /\ lock' = lock \/ lock' = 0
            /\ UNCHANGED <<waitque, used, queue, cqueue>>
        BY <1>7, <2>2 DEF U!TrySection
      <3>2. upc[t] = "trylock" /\ upc'[t] \in {"in", "out", "stuck"}
        BY <3>1 DEF U!Go, OwnerInv
      <3> QED BY <3>1, <3>2 DEF Quiet
    <2> QED BY <2>1, <2>2
  <1>8. ASSUME NEW a, NEW b, U!MutexSpin(t, a, b),
               \/ (a = "spin_lock" /\ b = "lock") \/ (a = "spin_try" /\ b = "trylock")
               \/ (a = "spin_unlock" /\ b = "unlock")
        PROVE  Quiet(t)
    <2>1. U!Go(t, a, b) /\ upc[t] = a /\ UNCHANGED <<waitque, used, queue, cqueue, lock>>
      BY <1>8 DEF U!MutexSpin, U!Go
    <2>2. b \in {"spin_lock", "lock", "spin_unlock", "unlock"} => waitque # -1
      BY <1>8, <2>1 DEF QueueCreated
    <2> QED BY <1>2, <1>8, <2>1, <2>2
  <1>9. ASSUME NEW here \in U!Way \cup {"woken"}, U!Down(t, here) PROVE Quiet(t)
    <2>1. here \in {"wait", "timed", "try", "woken"}
      BY DEF U!Way
    <2> QED BY <1>1, <1>9, <2>1 DEF U!Down
  <1>10. ASSUME NEW way \in U!Way, U!CondSpin(t, way) PROVE Quiet(t)
    <2>1. way \in {"wait", "timed", "try", "woken"}
      BY DEF U!Way
    <2> QED BY <1>1, <1>10, <2>1 DEF U!CondSpin
  <1>11. CASE U!Failed(t) \/ U!Post(t)
    BY <1>1, <1>11 DEF U!Failed, U!Post
  <1>12. CASE U!SignalSpin(t)
    BY <1>2, <1>12 DEF U!SignalSpin
  <1> QED BY <1>3, <1>4, <1>5, <1>6, <1>7, <1>8, <1>9, <1>10, <1>11, <1>12

\* How a step of a thread changes who has the spin lock of the condition variable.
CondStep(t) ==
    \/ cspin' = cspin /\ (HasCond(t)' => HasCond(t))
    \/ cspin = 0 /\ cspin' = 1
    \/ HasCond(t) /\ ~ HasCond(t)'

LEMMA CondKept ==
    ASSUME CondHeld, NEW t \in Thread, Others(t), CondStep(t) PROVE CondHeld'
  <1>1. \A u \in Thread : u # t => (HasCond(u)' <=> HasCond(u))
    BY DEF HasCond, Others
  <1>2. CASE cspin' = cspin /\ (HasCond(t)' => HasCond(t))
    BY <1>1, <1>2 DEF CondHeld
  <1>3. CASE cspin = 0 /\ cspin' = 1
    BY <1>1, <1>3 DEF CondHeld
  <1>4. CASE HasCond(t) /\ ~ HasCond(t)'
    BY <1>1, <1>4 DEF CondHeld
  <1> QED BY <1>2, <1>3, <1>4 DEF CondStep

\* A thread that uses a semaphore moves among the places of one.
LEMMA SemMove ==
    ASSUME OwnerInv, U!IsSem, waitque # -1, NEW t \in Thread, SemPlace(upc[t], then[t]), Step(t)
    PROVE  SemPlace(upc'[t], then'[t]) /\ waitque' = waitque /\ CondStep(t)
  <1> USE DEF U!mutexVars, U!semVars, CondPlaces, Locking, Unlocking
  <1>0. kind \in {"SEM", "TIMED"} /\ U!Normal
    BY DEF U!IsSem, U!Normal
  <1>1. ASSUME NEW a, NEW e \in {"spin_lock", "spin_unlock"}, NEW n, U!Call(t, a, e, n)
        PROVE  upc[t] = a /\ upc'[t] = e /\ then'[t] = n
    BY <1>1 DEF U!Call, U!Go, U!Enter, OwnerInv
  <1>2. ASSUME NEW a, NEW b, U!Go(t, a, b) PROVE upc[t] = a /\ upc'[t] = b
    BY <1>2 DEF U!Go, OwnerInv
  <1>3. CASE U!UseMutex(t)
    BY <1>3 DEF U!UseMutex
  <1>4. CASE U!UseSem(t)
    <2>1. /\ upc[t] = "out" /\ upc'[t] = "spin_lock" /\ UNCHANGED <<waitque, cspin>>
          /\ then'[t] \in U!Way \cup {"post"}
      <3>1. /\ \E n \in U!Way \cup {"post"} : U!Call(t, "out", "spin_lock", n)
            /\ UNCHANGED <<waitque, cspin>>
        BY <1>4 DEF U!UseSem
      <3> QED BY <1>1, <3>1
    <2>2. /\ then'[t] \in {"wait", "timed", "try", "post"} /\ (kind = "SEM" => then'[t] # "timed")
      BY <1>0, <2>1 DEF U!Way
    <2> QED BY <2>1, <2>2 DEF SemPlace, CondStep, HasCond
  <1>5. CASE U!Mutex(t)
    <2>0. upc[t] \notin {"create_lock", "create_unlock", "spin_try", "trylock"}
      BY DEF SemPlace
    <2>1. ASSUME NEW e \in {"spin_lock", "spin_unlock"} PROVE ~ U!Create(t, e)
      BY <1>2, <2>0 DEF U!Create, U!CreateFor
    <2>2. ASSUME NEW a, NEW b, U!MutexSpin(t, a, b),
                 \/ (a = "spin_lock" /\ b = "lock") \/ (a = "spin_try" /\ b = "trylock")
                 \/ (a = "spin_unlock" /\ b = "unlock")
          PROVE  SemPlace(upc'[t], then'[t]) /\ waitque' = waitque /\ CondStep(t)
      <3>1. upc[t] = a /\ upc'[t] = b /\ then' = then /\ UNCHANGED <<waitque, cspin>>
        BY <1>2, <2>2 DEF U!MutexSpin
      <3> QED BY <2>0, <2>2, <3>1 DEF SemPlace, CondStep, HasCond
    <2>3. ASSUME U!LockSection(t) \/ U!TrySection(t)
          PROVE  SemPlace(upc'[t], then'[t]) /\ waitque' = waitque /\ CondStep(t)
      <3>1. U!Take(t) \/ U!WaitForMutex(t)
        BY <1>0, <1>2, <2>0, <2>3 DEF U!LockSection, U!TrySection
      <3>2. /\ upc[t] = "lock" /\ upc'[t] \in {then[t], "spin_lock"} /\ then' = then
            /\ UNCHANGED <<waitque, cspin>>
        BY <1>2, <3>1 DEF U!Take, U!WaitForMutex
      <3> QED BY <3>2 DEF SemPlace, CondStep, HasCond
    <2>4. ASSUME U!UnlockSection(t)
          PROVE  SemPlace(upc'[t], then'[t]) /\ waitque' = waitque /\ CondStep(t)
      <3>1. upc[t] = "unlock" /\ upc'[t] = then[t] /\ then' = then /\ UNCHANGED <<waitque, cspin>>
        BY <1>0, <1>2, <2>4 DEF U!UnlockSection
      <3> QED BY <3>1 DEF SemPlace, CondStep, HasCond
    <2> QED BY <1>5, <2>1, <2>2, <2>3, <2>4 DEF U!Mutex
  <1>6. CASE U!Semaphore(t)
    <2>1. ASSUME NEW here \in U!Way \cup {"woken"}, U!Down(t, here)
          PROVE  SemPlace(upc'[t], then'[t]) /\ waitque' = waitque /\ CondStep(t)
      <3>1. /\ upc[t] \in U!Way \cup {"woken"} /\ upc'[t] = "spin_unlock" /\ then'[t] = "out"
            /\ UNCHANGED <<waitque, cspin>>
        BY <1>1, <2>1 DEF U!Down
      <3> QED BY <3>1 DEF SemPlace, CondStep, HasCond
    <2>2. ASSUME NEW way \in U!Way, U!CondSpin(t, way)
          PROVE  SemPlace(upc'[t], then'[t]) /\ waitque' = waitque /\ CondStep(t)
      <3>1. /\ upc[t] = way /\ upc'[t] = "spin_unlock" /\ then'[t] = U!Cond(way)
            /\ cspin = 0 /\ cspin' = 1 /\ UNCHANGED waitque
        BY <1>1, <2>2 DEF U!CondSpin
      <3>2. then'[t] \in CondPlaces /\ (kind = "SEM" => then'[t] # "cond_timed")
        BY <1>0, <3>1 DEF U!Way, U!Cond
      <3> QED BY <3>1, <3>2 DEF SemPlace, CondStep
    <2>3. ASSUME NEW way \in U!Way, U!CondWait(t, way)
          PROVE  SemPlace(upc'[t], then'[t]) /\ waitque' = waitque /\ CondStep(t)
      <3>1. /\ upc[t] = U!Cond(way) /\ upc'[t] = "spin_lock" /\ UNCHANGED waitque
            /\ then'[t] = CASE way = "wait" -> "wait" [] way = "timed" -> "woken" [] way = "try" -> "failed"
        <4> DEFINE n == CASE way = "wait" -> "wait" [] way = "timed" -> "woken" [] way = "try" -> "failed"
        <4>1. U!Call(t, U!Cond(way), "spin_lock", n) /\ UNCHANGED waitque
          BY <2>3 DEF U!CondWait
        <4> HIDE DEF n
        <4>2. upc[t] = U!Cond(way) /\ upc'[t] = "spin_lock" /\ then'[t] = n
          BY <1>1, <4>1
        <4> QED BY <4>1, <4>2 DEF n
      <3>2. /\ upc[t] \in CondPlaces /\ then'[t] \in {"wait", "woken", "failed"}
            /\ kind = "SEM" => then'[t] # "woken"
        BY <1>0, <3>1 DEF U!Way, U!Cond
      <3> QED BY <3>1, <3>2 DEF SemPlace, CondStep, HasCond
    <2>4. CASE U!Failed(t) \/ U!Post(t)
      <3>1. /\ upc[t] \in {"failed", "post"} /\ upc'[t] = "spin_unlock" /\ then'[t] \in {"out", "posted"}
            /\ UNCHANGED <<waitque, cspin>>
        BY <1>1, <2>4 DEF U!Failed, U!Post
      <3> QED BY <3>1 DEF SemPlace, CondStep, HasCond
    <2>5. CASE U!SignalSpin(t)
      BY <1>0, <1>2, <2>5 DEF U!SignalSpin, SemPlace, CondStep
    <2>6. CASE U!Signal(t)
      BY <1>0, <1>2, <2>6 DEF U!Signal, SemPlace, CondStep, HasCond
    <2> QED BY <1>6, <2>1, <2>2, <2>3, <2>4, <2>5, <2>6 DEF U!Semaphore
  <1> QED BY <1>3, <1>4, <1>5, <1>6 DEF Step

\* The places of a thread that locks and unlocks a mutex itself.
MutexPlace(at, next) ==
    /\ next \in {"out", "in"}
    /\ at \in {"out", "in", "spin_try", "trylock", "stuck"} \cup Locking \cup Unlocking

LEMMA MutexMove ==
    ASSUME OwnerInv, ~ U!IsSem, NEW t \in Thread, MutexPlace(upc[t], then[t]), Step(t)
    PROVE  MutexPlace(upc'[t], then'[t]) /\ UNCHANGED <<cspin, cqueue, value>>
  <1> USE DEF U!semVars, Locking, Unlocking
  <1>1. ASSUME NEW a, NEW e \in {"spin_lock", "spin_unlock"}, NEW n, U!Call(t, a, e, n)
        PROVE  upc[t] = a /\ upc'[t] \in Locking \cup Unlocking /\ then'[t] = n
    BY <1>1 DEF U!Call, U!Go, U!Enter, U!CreateFor, OwnerInv
  <1>2. ASSUME NEW a, NEW b, U!Go(t, a, b) PROVE upc[t] = a /\ upc'[t] = b
    BY <1>2 DEF U!Go, OwnerInv
  <1>3. CASE U!UseMutex(t)
    <2>1. UNCHANGED <<cspin, cqueue, value>>
      BY <1>3 DEF U!UseMutex
    <2>2. CASE \E a, n \in {"out", "in"}, e \in {"spin_lock", "spin_unlock"} : U!Call(t, a, e, n)
      <3>1. then'[t] \in {"out", "in"} /\ upc'[t] \in Locking \cup Unlocking
        BY <1>1, <2>2
      <3> QED BY <2>1, <3>1 DEF MutexPlace
    <2>3. CASE U!Go(t, "out", "spin_try") /\ UNCHANGED then
      <3>1. upc'[t] = "spin_try"
        BY <1>2, <2>3
      <3> QED BY <2>1, <2>3, <3>1 DEF MutexPlace
    <2> QED BY <1>3, <2>2, <2>3 DEF U!UseMutex
  <1>4. CASE U!UseSem(t)
    BY <1>4 DEF U!UseSem
  <1>5. CASE U!Mutex(t)
    <2>1. ASSUME NEW e \in {"spin_lock", "spin_unlock"}, U!Create(t, e)
          PROVE  MutexPlace(upc'[t], then'[t]) /\ UNCHANGED <<cspin, cqueue, value>>
      <3>1. upc'[t] = e /\ UNCHANGED then /\ UNCHANGED <<cspin, cqueue, value>>
        BY <1>2, <2>1 DEF U!Create
      <3> QED BY <3>1 DEF MutexPlace
    <2>2. ASSUME NEW a, NEW b \in {"lock", "trylock", "unlock"}, U!MutexSpin(t, a, b)
          PROVE  MutexPlace(upc'[t], then'[t]) /\ UNCHANGED <<cspin, cqueue, value>>
      <3>1. upc'[t] = b /\ UNCHANGED then /\ UNCHANGED <<cspin, cqueue, value>>
        BY <1>2, <2>2 DEF U!MutexSpin
      <3> QED BY <3>1 DEF MutexPlace
    <2>3. ASSUME NEW a, NEW b \in {"in", "out", "stuck", then[t], "spin_lock"}, U!Go(t, a, b),
                 UNCHANGED then, UNCHANGED <<cspin, cqueue, value>>
          PROVE  MutexPlace(upc'[t], then'[t]) /\ UNCHANGED <<cspin, cqueue, value>>
      BY <1>2, <2>3 DEF MutexPlace
    <2>4. ASSUME U!LockSection(t) \/ U!TrySection(t) \/ U!UnlockSection(t)
          PROVE  /\ \E a : \E b \in {"in", "out", "stuck", then[t], "spin_lock"} : U!Go(t, a, b)
                 /\ UNCHANGED then /\ UNCHANGED <<cspin, cqueue, value>>
      BY <2>4 DEF U!LockSection, U!TrySection, U!UnlockSection, U!Take, U!WaitForMutex, U!Refuse
    <2> QED BY <1>5, <2>1, <2>2, <2>3, <2>4 DEF U!Mutex
  <1>6. CASE U!Semaphore(t)
    <2>1. upc[t] \notin {"wait", "timed", "try", "woken", "failed", "post", "posted", "signal",
                         "cond_wait", "cond_timed", "cond_try"}
      BY DEF MutexPlace
    <2>2. ~ \E here \in U!Way \cup {"woken"} : U!Down(t, here)
      BY <1>1, <2>1 DEF U!Down, U!Way
    <2>3. ~ \E way \in U!Way : U!CondSpin(t, way)
      BY <1>1, <2>1 DEF U!CondSpin, U!Way
    <2>4. ~ \E way \in U!Way : U!CondWait(t, way)
      <3>1. \A way \in U!Way : U!Cond(way) \in {"cond_wait", "cond_timed", "cond_try"}
        BY DEF U!Cond, U!Way
      <3> QED BY <2>1, <3>1 DEF U!CondWait, U!Call, U!Go
    <2>5. ~ (U!Failed(t) \/ U!Post(t) \/ U!SignalSpin(t) \/ U!Signal(t))
      BY <2>1 DEF U!Failed, U!Post, U!SignalSpin, U!Signal, U!Call, U!Go
    <2> QED BY <1>6, <2>2, <2>3, <2>4, <2>5 DEF U!Semaphore
  <1> QED BY <1>3, <1>4, <1>5, <1>6 DEF Step

\* Both kinds of threads keep to their places.
LEMMA PlacesKept ==
    ASSUME OwnerInv, SemPlaces, CondHeld, NEW t \in Thread, Step(t)
    PROVE  SemPlaces' /\ CondHeld'
  <1>1. kind' = kind /\ Others(t)
    BY OneMoves
  <1>2. (U!IsSem)' <=> U!IsSem
    BY <1>1 DEF U!IsSem
  <1>3. CASE U!IsSem
    <2>1. /\ waitque # -1 /\ waitque' = waitque /\ SemPlace(upc'[t], then'[t]) /\ CondStep(t)
          /\ \A u \in Thread : SemPlace(upc[u], then[u])
      BY <1>3, SemMove DEF SemPlaces
    <2>2. \A u \in Thread : SemPlace(upc'[u], then'[u])
      BY <1>1, <2>1 DEF Others
    <2>3. \A u \in Thread : SemPlace(upc[u], then[u])'
      BY <1>1, <2>2 DEF SemPlace
    <2>4. CondHeld'
      BY <1>1, <2>1, CondKept
    <2> QED BY <1>2, <1>3, <2>1, <2>3, <2>4 DEF SemPlaces
  <1>4. CASE ~ U!IsSem
    <2>1. /\ cqueue = << >> /\ value = Value
          /\ \A u \in Thread : MutexPlace(upc[u], then[u])
      BY <1>4 DEF SemPlaces, MutexPlace
    <2>2. MutexPlace(upc'[t], then'[t]) /\ UNCHANGED <<cspin, cqueue, value>>
      BY <1>4, <2>1, MutexMove
    <2>3. \A u \in Thread : MutexPlace(upc'[u], then'[u])
      BY <1>1, <2>1, <2>2 DEF Others
    <2>4. \A u \in Thread : ~ HasCond(u)'
      BY <2>3 DEF MutexPlace, HasCond, CondPlaces, Locking, Unlocking
    <2>5. CondHeld'
      BY <2>4 DEF CondHeld
    <2> QED BY <1>2, <1>4, <2>1, <2>2, <2>3, <2>5 DEF SemPlaces, MutexPlace
  <1> QED BY <1>3, <1>4

\* waitque_wait of a thread that is not in the queue.
LEMMA AddLast ==
    ASSUME NEW S, NEW s \in Seq(S), NEW t \in S, OnceIn(s), ~ Has(s, t)
    PROVE  /\ Append(s, t) \in Seq(S) /\ OnceIn(Append(s, t))
           /\ \A u : Has(Append(s, t), u) <=> (Has(s, u) \/ u = t)
  <1> DEFINE r == Append(s, t)
  <1>1. /\ r \in Seq(S) /\ Len(s) \in Nat /\ Len(r) = Len(s) + 1 /\ r[Len(s) + 1] = t
        /\ \A i \in 1 .. Len(s) : r[i] = s[i]
    BY AppendProperties
  <1> HIDE DEF r
  <1>2. OnceIn(r)
    <2> SUFFICES ASSUME NEW i \in 1 .. Len(s) + 1, NEW j \in 1 .. Len(s) + 1, r[i] = r[j]
                 PROVE  i = j
      BY <1>1 DEF OnceIn
    <2>1. i = Len(s) + 1 \/ i \in 1 .. Len(s)
      BY <1>1
    <2>2. j = Len(s) + 1 \/ j \in 1 .. Len(s)
      BY <1>1
    <2> QED BY <2>1, <2>2, <1>1 DEF OnceIn, Has
  <1>3. ASSUME NEW u PROVE Has(r, u) <=> (Has(s, u) \/ u = t)
    <2>1. ASSUME Has(r, u) PROVE Has(s, u) \/ u = t
      <3>1. PICK i \in 1 .. Len(r) : r[i] = u
        BY <2>1 DEF Has
      <3>2. i = Len(s) + 1 \/ i \in 1 .. Len(s)
        BY <3>1, <1>1
      <3> QED BY <3>1, <3>2, <1>1 DEF Has
    <2>2. ASSUME Has(s, u) PROVE Has(r, u)
      <3>1. PICK i \in 1 .. Len(s) : s[i] = u
        BY <2>2 DEF Has
      <3>2. i \in 1 .. Len(r) /\ r[i] = u
        BY <3>1, <1>1
      <3> QED BY <3>2 DEF Has
    <2>3. ASSUME u = t PROVE Has(r, u)
      <3>1. Len(s) + 1 \in 1 .. Len(r)
        BY <1>1
      <3> QED BY <3>1, <2>3, <1>1 DEF Has
    <2> QED BY <2>1, <2>2, <2>3
  <1> QED BY <1>1, <1>2, <1>3 DEF r

\* waitque_wake: the head, and nobody else, leaves the queue.
LEMMA HeadLeaves ==
    ASSUME NEW S, NEW s \in Seq(S), OnceIn(s), s # << >>
    PROVE  /\ Head(s) \in S /\ Has(s, Head(s))
           /\ Tail(s) \in Seq(S) /\ OnceIn(Tail(s))
           /\ \A u : Has(Tail(s), u) <=> (Has(s, u) /\ u # Head(s))
  <1> DEFINE r == Tail(s)
             h == Head(s)
  <1>1. /\ r \in Seq(S) /\ Len(s) \in Nat \ {0} /\ Len(r) = Len(s) - 1
        /\ \A i \in 1 .. Len(r) : r[i] = s[i + 1]
        /\ h = s[1] /\ h \in S
    BY HeadTailProperties, EmptySeq
  <1> HIDE DEF r, h
  <1>2. OnceIn(r)
    <2> SUFFICES ASSUME NEW i \in 1 .. Len(s) - 1, NEW j \in 1 .. Len(s) - 1, r[i] = r[j]
                 PROVE  i = j
      BY <1>1 DEF OnceIn
    <2>1. s[i + 1] = s[j + 1] /\ i + 1 \in 1 .. Len(s) /\ j + 1 \in 1 .. Len(s)
      BY <1>1
    <2>2. i + 1 = j + 1
      BY <2>1 DEF OnceIn
    <2> QED BY <2>2
  <1>3. ASSUME NEW u PROVE Has(r, u) <=> (Has(s, u) /\ u # h)
    <2>1. ASSUME Has(r, u) PROVE Has(s, u) /\ u # h
      <3>1. PICK i \in 1 .. Len(r) : r[i] = u
        BY <2>1 DEF Has
      <3>2. i + 1 \in 1 .. Len(s) /\ s[i + 1] = u /\ i + 1 # 1 /\ 1 \in 1 .. Len(s)
        BY <3>1, <1>1
      <3> QED BY <3>2, <1>1 DEF Has, OnceIn
    <2>2. ASSUME Has(s, u), u # h PROVE Has(r, u)
      <3>1. PICK i \in 1 .. Len(s) : s[i] = u
        BY <2>2 DEF Has
      <3>2. i - 1 \in 1 .. Len(r) /\ r[i - 1] = u
        BY <3>1, <2>2, <1>1
      <3> QED BY <3>2 DEF Has
    <2> QED BY <2>1, <2>2
  <1>4. Has(s, h)
    <2>1. 1 \in 1 .. Len(s)
      BY <1>1
    <2> QED BY <2>1, <1>1 DEF Has
  <1> QED BY <1>1, <1>2, <1>3, <1>4 DEF r, h

LEMMA EmptyHas == ASSUME NEW s, NEW S, s \in Seq(S), \A t : ~ Has(s, t) PROVE s = << >>
  <1>1. Len(s) = 0
    <2> SUFFICES ASSUME Len(s) # 0 PROVE FALSE
      OBVIOUS
    <2>1. 1 \in 1 .. Len(s)
      BY LenProperties
    <2> QED BY <2>1 DEF Has
  <1> QED BY <1>1, EmptySeq

LEMMA SomeFirst ==
    ASSUME NEW S, S \subseteq Nat, S # {} PROVE U!Min(S) \in S
  <1>1. PICK x \in S : \A y \in S : ~ (<<y, x>> \in OpToRel(<, Nat))
    BY NatLessThanWellFounded, WFMin
  <1>2. \A y \in S : ~ (y < x)
    BY <1>1 DEF OpToRel
  <1>3. \A y \in S : x =< y
    BY <1>2
  <1> QED BY <1>3 DEF U!Min

-----------------------------------------------------------------------------
(* The wait queue of the mutex is created at most once by each thread, so  *)
(* there is always a handle left.                                          *)

Creators == {t \in Thread : upc[t] \in {"create_lock", "create_unlock"}}

HandlesLeft == Creators = {} \/ Cardinality(used) + Cardinality(Creators) <= Cardinality(Thread)

LEMMA UserFacts ==
    /\ IsFiniteSet(Thread) /\ IsFiniteSet(Handle) /\ Handle \subseteq Nat /\ NoThread \notin Thread
    /\ Cardinality(Handle) > Cardinality(Thread)
    /\ \A S : U!Cardinality(S) = Cardinality(S)
  BY QueuesAssumption DEF U!UserSyncConstants, U!Cardinality, Cardinality, U!IsFiniteSet, IsFiniteSet

LEMMA EntersOnce ==
    ASSUME OwnerInv, NEW t \in Thread, Step(t), waitque # -1
    PROVE  upc'[t] \notin {"create_lock", "create_unlock"}
  <1> DEFINE Fine == upc'[t] \notin {"create_lock", "create_unlock"}
  <1>1. ASSUME NEW a, NEW e \in {"spin_lock", "spin_unlock"}, NEW n, U!Call(t, a, e, n) PROVE Fine
    BY <1>1 DEF U!Call, U!Go, U!Enter, OwnerInv
  <1>2. ASSUME NEW a, NEW b, U!Go(t, a, b), b \notin {"create_lock", "create_unlock"} PROVE Fine
    BY <1>2 DEF U!Go, OwnerInv
  <1>3. CASE U!UseMutex(t) \/ U!UseSem(t)
    BY <1>1, <1>2, <1>3 DEF U!UseMutex, U!UseSem
  <1>4. CASE U!Mutex(t)
    <2>1. ASSUME NEW e \in {"spin_lock", "spin_unlock"}, U!Create(t, e) PROVE Fine
      BY <1>2, <2>1 DEF U!Create
    <2>2. ASSUME NEW a, NEW b \in {"lock", "trylock", "unlock"}, U!MutexSpin(t, a, b) PROVE Fine
      BY <1>2, <2>2 DEF U!MutexSpin
    <2>3. ASSUME U!LockSection(t) \/ U!TrySection(t) PROVE Fine
      <3>1. \E a : \E b \in {"in", "out", "stuck", "spin_lock"} : U!Go(t, a, b) \/ U!Go(t, "lock", then[t])
        BY <2>3 DEF U!LockSection, U!TrySection, U!Take, U!WaitForMutex, U!Refuse
      <3>2. upc[t] = "lock" => then[t] \notin {"create_lock", "create_unlock"}
        BY DEF OwnerInv, Locking, Inside, Unlocking
      <3> QED BY <1>2, <3>1, <3>2 DEF U!Go
    <2>4. ASSUME U!UnlockSection(t) PROVE Fine
      <3>1. \E b \in {"in", then[t]} : U!Go(t, "unlock", b)
        BY <2>4 DEF U!UnlockSection
      <3>2. upc[t] = "unlock" => then[t] \notin {"create_lock", "create_unlock"}
        BY DEF OwnerInv, Unlocking, Elsewhere
      <3> QED BY <1>2, <3>1, <3>2 DEF U!Go
    <2> QED BY <1>4, <2>1, <2>2, <2>3, <2>4 DEF U!Mutex
  <1>5. CASE U!Semaphore(t)
    <2>1. \/ \E a, n : U!Call(t, a, "spin_lock", n) \/ U!Call(t, a, "spin_unlock", n)
          \/ U!Go(t, "posted", "signal") \/ U!Go(t, "signal", "out")
      BY <1>5 DEF U!Semaphore, U!Down, U!CondSpin, U!CondWait, U!Failed, U!Post, U!SignalSpin, U!Signal
    <2> QED BY <1>1, <1>2, <2>1
  <1> QED BY <1>3, <1>4, <1>5 DEF Step

LEMMA HandlesKept ==
    ASSUME OwnerInv, OwnerInv', UserType, QueueCreated, HandlesLeft, NEW t \in Thread, Step(t), used' = used
    PROVE  HandlesLeft'
  <1>0. IsFiniteSet(used) /\ Cardinality(used) \in Nat /\ Cardinality(Thread) \in Nat
    BY UserFacts, FS_Subset, FS_CardinalityType DEF UserType
  <1>1. CASE waitque = -1
    <2>1. Cardinality(used') = 0
      BY <1>1, FS_EmptySet DEF QueueCreated
    <2>2. Creators' \subseteq Thread
      BY DEF Creators
    <2>3. Cardinality(Creators') \in Nat /\ Cardinality(Creators') <= Cardinality(Thread)
      BY <2>2, UserFacts, FS_Subset, FS_CardinalityType
    <2> QED BY <2>1, <2>3, <1>0 DEF HandlesLeft
  <1>2. CASE waitque # -1
    <2>1. Creators' \subseteq Creators
      BY <1>2, EntersOnce, OneMoves DEF Creators, Others
    <2>2. IsFiniteSet(Creators)
      BY UserFacts, FS_Subset DEF Creators
    <2>3. /\ Cardinality(Creators') \in Nat /\ Cardinality(Creators) \in Nat
          /\ Cardinality(Creators') <= Cardinality(Creators)
      BY <2>1, <2>2, FS_Subset, FS_CardinalityType
    <2>4. Creators = {} => Creators' = {}
      BY <2>1
    <2> QED BY <2>3, <2>4, <1>0 DEF HandlesLeft
  <1> QED BY <1>1, <1>2

\* sys_waitque_create.  A second one leaves two queues.
LEMMA CreateSleeps ==
    ASSUME OwnerInv, UserType, QueueCreated, SleepsOnce, U!MutexForgetsNobody, HandlesLeft,
           NEW t \in Thread, NEW e \in {"spin_lock", "spin_unlock"}, U!Create(t, e), Step(t)
    PROVE  UserType' /\ QueueCreated' /\ SleepsOnce' /\ (U!MutexForgetsNobody)' /\ HandlesLeft'
  <1> DEFINE h == U!Min(Handle \ used)
  <1>0. /\ upc[t] = U!CreateFor(e) /\ upc'[t] = e /\ ~ U!Asleep(t) /\ Others(t)
        /\ waitque' = h /\ used' = used \cup {h}
        /\ UNCHANGED <<queue, lock, cspin, cqueue, value, then>>
    <2>1. Others(t)
      BY OneMoves
    <2> QED BY <2>1 DEF U!Create, U!Go, U!semVars, OwnerInv
  <1>1. upc[t] \in {"create_lock", "create_unlock"} /\ t \in Creators
    BY <1>0 DEF U!CreateFor, Creators
  <1>2. /\ IsFiniteSet(used) /\ IsFiniteSet(Creators) /\ Cardinality(used) \in Nat
        /\ Cardinality(Creators) \in Nat /\ Cardinality(Thread) \in Nat /\ Cardinality(Handle) \in Nat
    BY UserFacts, FS_Subset, FS_CardinalityType DEF UserType, Creators
  <1>3. Cardinality(used) + Cardinality(Creators) <= Cardinality(Thread)
    BY <1>1 DEF HandlesLeft
  <1>4. h \in Handle \ used /\ h \in Nat
    <2>1. used # Handle
      BY <1>2, <1>3, UserFacts
    <2>2. Handle \ used # {} /\ Handle \ used \subseteq Nat
      BY <2>1, UserFacts DEF UserType
    <2> QED BY <2>2, SomeFirst
  <1> HIDE DEF h
  <1>5. UserType'
    BY <1>0, <1>4 DEF UserType
  <1>6. QueueCreated'
    BY <1>0, <1>4 DEF QueueCreated
  <1>7. SleepsOnce'
    <2>1. ~ Has(cqueue, t) /\ \A g \in Handle : ~ Has(queue[g], t)
      BY <1>0, AsleepIs
    <2> QED BY <2>1, <1>0 DEF SleepsOnce, Others
  <1>8. Cardinality(used') = Cardinality(used) + 1
    BY <1>0, <1>2, <1>4, FS_AddElement
  <1>9. (U!MutexForgetsNobody)'
    <2>1. ASSUME Cardinality(used') = 1 PROVE \A g \in Handle : queue'[g] = << >>
      <3>1. used = {}
        BY <2>1, <1>2, <1>8, FS_EmptySet
      <3> QED BY <3>1, <1>0 DEF QueueCreated
    <2>2. U!Cardinality(used') = Cardinality(used')
      BY DEF U!Cardinality, Cardinality
    <2> QED BY <2>1, <2>2 DEF U!MutexForgetsNobody
  <1>10. HandlesLeft'
    <2>1. Creators' = Creators \ {t}
      BY <1>0 DEF Creators, Others
    <2>2. Cardinality(Creators') = Cardinality(Creators) - 1
      BY <2>1, <1>1, <1>2, FS_RemoveElement
    <2> QED BY <2>2, <1>2, <1>3, <1>8 DEF HandlesLeft
  <1> QED BY <1>5, <1>6, <1>7, <1>9, <1>10

\* pthread_mutex_lock goes to sleep, while another thread owns the mutex.
LEMMA WaitSleeps ==
    ASSUME OwnerInv, UserType, QueueCreated, SleepsOnce,
           NEW t \in Thread, U!WaitForMutex(t), Step(t)
    PROVE  UserType' /\ QueueCreated' /\ SleepsOnce' /\ (U!MutexForgetsNobody)'
  <1> DEFINE q == queue[waitque]
  <1>0. /\ upc[t] = "lock" /\ upc'[t] = "spin_lock" /\ ~ U!Asleep(t) /\ Others(t)
        /\ queue' = [queue EXCEPT ![waitque] = Append(q, t)] /\ lock' = 0
        /\ UNCHANGED <<waitque, used, cspin, cqueue, value, then>>
    <2>1. Others(t)
      BY OneMoves
    <2> QED BY <2>1 DEF U!WaitForMutex, U!Go, U!semVars, OwnerInv
  <1>1. waitque \in used /\ waitque \in Handle /\ waitque # -1
    BY <1>0 DEF QueueCreated, UserType
  <1>2. ~ Has(cqueue, t) /\ \A g \in Handle : ~ Has(queue[g], t)
    BY <1>0, AsleepIs
  <1>3. q \in Seq(Thread) /\ OnceIn(q) /\ ~ Has(q, t)
    BY <1>1, <1>2 DEF UserType, SleepsOnce
  <1>4. /\ Append(q, t) \in Seq(Thread) /\ OnceIn(Append(q, t))
        /\ \A u : Has(Append(q, t), u) <=> (Has(q, u) \/ u = t)
    BY <1>3, AddLast
  <1>5. queue'[waitque] = Append(q, t) /\ \A g \in Handle : g # waitque => queue'[g] = queue[g]
    BY <1>0, <1>1 DEF UserType
  <1>6. UserType'
    BY <1>0, <1>1, <1>4 DEF UserType
  <1>7. QueueCreated'
    BY <1>0, <1>1, <1>5 DEF QueueCreated
  <1> HIDE DEF q
  <1>8. SleepsOnce'
    <2>1. \A g \in Handle : OnceIn(queue'[g])
      BY <1>4, <1>5 DEF SleepsOnce
    <2>2. \A u \in Thread, g \in Handle :
             Has(queue'[g], u) <=> (Has(queue[g], u) \/ (u = t /\ g = waitque))
      BY <1>1, <1>4, <1>5 DEF q
    <2>3. ASSUME NEW u \in Thread, NEW g \in Handle, Has(queue'[g], u)
          PROVE  upc'[u] = "spin_lock" /\ ~ Has(cqueue, u) /\ \A f \in Handle : Has(queue'[f], u) => f = g
      <3>1. CASE u = t
        <4>1. \A f \in Handle : Has(queue'[f], u) => f = waitque
          BY <2>2, <1>2, <3>1
        <4> QED BY <4>1, <2>3, <3>1, <1>0, <1>2
      <3>2. CASE u # t
        <4>1. \A f \in Handle : Has(queue'[f], u) <=> Has(queue[f], u)
          BY <2>2, <3>2
        <4> QED BY <4>1, <2>3, <3>2, <1>0 DEF SleepsOnce, Others
      <3> QED BY <3>1, <3>2
    <2>4. \A u \in Thread : Has(cqueue, u) => upc'[u] = "spin_lock" /\ then'[u] \in {"wait", "woken"}
      BY <1>0, <1>2 DEF SleepsOnce, Others
    <2>5. OnceIn(cqueue)
      BY DEF SleepsOnce
    <2> QED BY <2>1, <2>3, <2>4, <2>5, <1>0 DEF SleepsOnce
  <1>9. (U!MutexForgetsNobody)'
    BY <1>0 DEF U!MutexForgetsNobody
  <1> QED BY <1>6, <1>7, <1>8, <1>9

\* pthread_mutex_unlock wakes the first sleeper, if its queue is the one that is
\* known.
LEMMA ReleaseWakes ==
    ASSUME OwnerInv, UserType, QueueCreated, SleepsOnce, U!MutexForgetsNobody,
           NEW t \in Thread, U!UnlockSection(t), Step(t)
    PROVE  UserType' /\ QueueCreated' /\ SleepsOnce' /\ (U!MutexForgetsNobody)'
  <1> DEFINE q == queue[waitque]
  <1>0. /\ upc[t] = "unlock" /\ ~ U!Asleep(t) /\ Others(t) /\ lock = 0
        /\ upc'[t] \in {"in"} \cup Elsewhere
        /\ UNCHANGED <<waitque, used, cspin, cqueue, value, then>>
    <2>1. Others(t)
      BY OneMoves
    <2>2. \E b \in {"in", then[t]} : U!Go(t, "unlock", b)
      BY DEF U!UnlockSection
    <2>3. upc[t] = "unlock" /\ ~ U!Asleep(t) /\ upc'[t] \in {"in", then[t]}
      BY <2>2 DEF U!Go, OwnerInv
    <2>4. then[t] \in Elsewhere /\ lock = 0
      BY <2>3, UserFacts DEF OwnerInv, Inside, Unlocking
    <2> QED BY <2>1, <2>3, <2>4 DEF U!UnlockSection, U!semVars
  <1>1. waitque \in used /\ waitque \in Handle /\ waitque # -1
    BY <1>0 DEF QueueCreated, UserType
  <1>2. upc'[t] \notin {"spin_lock", "lock", "spin_unlock", "unlock"}
    BY <1>0 DEF Elsewhere
  <1>3. CASE queue' = queue /\ lock' = lock
    <2>1. Quiet(t)
      BY <1>0, <1>2, <1>3 DEF Quiet
    <2>2. UserType'
      BY <1>0, <1>3 DEF UserType
    <2> QED BY <2>1, <2>2, <1>0, QuietSleep
  <1>4. CASE queue' = [queue EXCEPT ![waitque] = U!sys_waitque_wake(q)]
    <2>1. queue'[waitque] = U!sys_waitque_wake(q) /\ \A g \in Handle : g # waitque => queue'[g] = queue[g]
      BY <1>1, <1>4 DEF UserType
    <2>2. q \in Seq(Thread) /\ OnceIn(q)
      BY <1>1 DEF UserType, SleepsOnce
    <2>3. CASE q = << >>
      <3>1. queue' = queue
        BY <2>3, <1>1, <1>4 DEF U!sys_waitque_wake, UserType
      <3>2. UserType' /\ QueueCreated'
        BY <3>1, <1>0, <1>1, <1>2 DEF UserType, QueueCreated, Others
      <3>3. SleepsOnce'
        <4>1. ~ Has(cqueue, t) /\ \A g \in Handle : ~ Has(queue[g], t)
          BY <1>0, AsleepIs
        <4> QED BY <3>1, <4>1, <1>0 DEF SleepsOnce, Others
      <3>4. ASSUME Cardinality(used') = 1, NEW g \in Handle, queue'[g] # << >> PROVE FALSE
        <4>1. g \in used /\ waitque \in used
          BY <3>1, <3>4, <1>1 DEF QueueCreated
        <4>2. g = waitque
          <5>1. IsFiniteSet(used) /\ Cardinality(used) = 1
            BY <3>4, <1>0, UserFacts, FS_Subset DEF UserType
          <5>2. PICK x : used = {x}
            BY <5>1, FS_Singleton
          <5> QED BY <4>1, <5>2
        <4> QED BY <4>2, <3>1, <3>4, <2>3
      <3>5. (U!MutexForgetsNobody)'
        <4>1. U!Cardinality(used') = Cardinality(used')
          BY DEF U!Cardinality, Cardinality
        <4> QED BY <3>4, <4>1 DEF U!MutexForgetsNobody
      <3> QED BY <3>2, <3>3, <3>5
    <2>4. CASE q # << >>
      <3>0. PICK h : h = Head(q)
        OBVIOUS
      <3>1. /\ h \in Thread /\ Has(q, h) /\ queue'[waitque] \in Seq(Thread) /\ OnceIn(queue'[waitque])
            /\ \A u : Has(queue'[waitque], u) <=> (Has(q, u) /\ u # h)
        BY <3>0, <2>1, <2>2, <2>4, HeadLeaves DEF U!sys_waitque_wake
      <3>2. UserType'
        <4>1. U!sys_waitque_wake(q) \in Seq(Thread)
          BY <2>1, <3>1
        <4> HIDE DEF q
        <4> QED BY <4>1, <1>0, <1>1, <1>4 DEF UserType
      <3>3. QueueCreated'
        BY <2>1, <1>0, <1>1, <1>2 DEF QueueCreated, Others
      <3>4. \A g \in Handle : \A u : Has(queue'[g], u) => Has(queue[g], u)
        BY <2>1, <3>1
      <3>5. SleepsOnce'
        <4>1. ~ Has(cqueue, t) /\ \A g \in Handle : ~ Has(queue[g], t)
          BY <1>0, AsleepIs
        <4>2. \A g \in Handle : OnceIn(queue'[g])
          BY <2>1, <3>1 DEF SleepsOnce
        <4>3. \A u \in Thread, g \in Handle : Has(queue'[g], u) =>
                 upc'[u] = "spin_lock" /\ ~ Has(cqueue, u) /\ \A f \in Handle : Has(queue'[f], u) => f = g
          BY <3>4, <4>1, <1>0 DEF SleepsOnce, Others
        <4> HIDE DEF q
        <4> QED BY <4>1, <4>2, <4>3, <1>0 DEF SleepsOnce, Others
      <3>6. h \in (U!InLockCode)'
        <4>1. upc[h] = "spin_lock" /\ ~ Has(cqueue, h) /\ \A g \in Handle : Has(queue[g], h) => g = waitque
          BY <3>1, <1>1 DEF SleepsOnce
        <4>2. upc'[h] = "spin_lock"
          BY <4>1, <3>1, <1>0 DEF Others
        <4>3. \A g \in Handle : ~ Has(queue'[g], h)
          BY <4>1, <3>1, <3>4
        <4>4. ~ (U!Asleep(h))'
          BY <4>1, <4>3, <1>0 DEF U!Asleep, U!Contains, Has
        <4> QED BY <4>2, <4>4, <3>1 DEF U!InLockCode
      <3>7. (U!MutexForgetsNobody)'
        BY <3>6 DEF U!MutexForgetsNobody
      <3> QED BY <3>2, <3>3, <3>5, <3>7
    <2> QED BY <2>3, <2>4
  <1> QED BY <1>3, <1>4 DEF U!UnlockSection, U!Release

\* A step at the queue of the condition variable, by a thread that was not on
\* its way to the mutex.
LEMMA CondSleeps ==
    ASSUME OwnerInv, QueueCreated, SleepsOnce, U!MutexForgetsNobody, NEW t \in Thread,
           Others(t), ~ U!Asleep(t), upc[t] \notin Locking \cup Unlocking,
           UNCHANGED <<waitque, used, queue, lock>>,
           upc'[t] \in {"spin_lock", "lock", "spin_unlock", "unlock"} => waitque # -1,
           OnceIn(cqueue'),
           \A u \in Thread : Has(cqueue', u) =>
              \/ Has(cqueue, u) /\ u # t
              \/ u = t /\ upc'[t] = "spin_lock" /\ then'[t] \in {"wait", "woken"}
    PROVE  QueueCreated' /\ SleepsOnce' /\ (U!MutexForgetsNobody)'
  <1>1. QueueCreated'
    BY DEF QueueCreated, Others
  <1>2. ~ Has(cqueue, t) /\ \A h \in Handle : ~ Has(queue[h], t)
    BY AsleepIs
  <1>3. SleepsOnce'
    <2>1. \A u \in Thread, h \in Handle : Has(queue'[h], u) =>
             upc'[u] = "spin_lock" /\ ~ Has(cqueue', u) /\ \A g \in Handle : Has(queue'[g], u) => g = h
      BY <1>2 DEF SleepsOnce, Others
    <2>2. \A u \in Thread : Has(cqueue', u) => upc'[u] = "spin_lock" /\ then'[u] \in {"wait", "woken"}
      BY DEF SleepsOnce, Others
    <2>3. \A h \in Handle : OnceIn(queue'[h])
      BY DEF SleepsOnce
    <2> QED BY <2>1, <2>2, <2>3 DEF SleepsOnce
  <1>4. ASSUME NEW u \in U!InLockCode PROVE u \in (U!InLockCode)'
    <2>1. /\ u \in Thread /\ upc[u] \in {"spin_lock", "lock", "unlock"} /\ u # t
          /\ ~ Has(cqueue, u) /\ \A h \in Handle : ~ Has(queue[h], u)
      BY AsleepIs DEF U!InLockCode, Locking, Unlocking
    <2>2. upc'[u] = upc[u] /\ ~ Has(cqueue', u) /\ \A h \in Handle : ~ Has(queue'[h], u)
      BY <2>1 DEF Others
    <2>3. ~ (U!Asleep(u))'
      BY <2>2 DEF U!Asleep, U!Contains, Has
    <2> QED BY <2>1, <2>2, <2>3 DEF U!InLockCode
  <1>5. (U!MutexForgetsNobody)'
    <2>1. U!Cardinality(used') = U!Cardinality(used)
      BY DEF U!Cardinality
    <2> QED BY <1>4, <2>1 DEF U!MutexForgetsNobody
  <1> QED BY <1>1, <1>3, <1>5

\* What pthread_cond_wait and pthread_cond_signal do to the queue.
LEMMA CondWaits ==
    ASSUME OwnerInv, UserType, SemPlaces, NEW t \in Thread, NEW way \in U!Way, U!CondWait(t, way),
           U!IsSem
    PROVE  /\ upc[t] \in CondPlaces /\ then[t] \in CondPlaces /\ waitque # -1
           /\ upc'[t] = "spin_lock" /\ then'[t] \in {"wait", "woken", "failed"}
           /\ \/ cqueue' = Append(cqueue, t) /\ then'[t] # "failed"
              \/ cqueue' = cqueue
           /\ UNCHANGED <<waitque, used, queue, lock, value>>
  <1> DEFINE n == CASE way = "wait" -> "wait" [] way = "timed" -> "woken" [] way = "try" -> "failed"
  <1>1. way \in {"wait", "timed", "try"}
    BY DEF U!Way
  <1>2. U!Cond(way) \in CondPlaces
    BY <1>1 DEF U!Cond, CondPlaces
  <1>3. n \in {"wait", "woken", "failed"} /\ (way # "try" => n # "failed")
    BY <1>1
  <1>4. /\ U!Call(t, U!Cond(way), "spin_lock", n)
        /\ \/ cqueue' = Append(cqueue, t) /\ way # "try"
           \/ cqueue' = cqueue
        /\ UNCHANGED <<waitque, used, queue, lock, value>>
    BY DEF U!CondWait, U!mutexVars
  <1> HIDE DEF n
  <1>5. waitque # -1 /\ \A u \in Thread : SemPlace(upc[u], then[u])
    BY DEF SemPlaces
  <1>6. upc[t] = U!Cond(way) /\ upc'[t] = "spin_lock" /\ then'[t] = n
    BY <1>4, <1>5 DEF U!Call, U!Go, U!Enter, OwnerInv
  <1>7. then[t] \in CondPlaces
    BY <1>2, <1>5, <1>6 DEF SemPlace
  <1> QED BY <1>2, <1>3, <1>4, <1>5, <1>6, <1>7

LEMMA CondWaitSleeps ==
    ASSUME OwnerInv, UserType, QueueCreated, SleepsOnce, SemPlaces, U!MutexForgetsNobody, U!IsSem,
           NEW t \in Thread, NEW way \in U!Way, U!CondWait(t, way), Step(t)
    PROVE  UserType' /\ QueueCreated' /\ SleepsOnce' /\ (U!MutexForgetsNobody)'
  <1>1. Others(t) /\ ~ U!Asleep(t)
    BY OneMoves
  <1>2. /\ upc[t] \in CondPlaces /\ waitque # -1 /\ upc'[t] = "spin_lock"
        /\ \/ cqueue' = Append(cqueue, t) /\ then'[t] \in {"wait", "woken"}
           \/ cqueue' = cqueue
        /\ UNCHANGED <<waitque, used, queue, lock, value>>
    BY CondWaits
  <1>3. ~ Has(cqueue, t) /\ cqueue \in Seq(Thread) /\ OnceIn(cqueue)
    BY <1>1, AsleepIs DEF UserType, SleepsOnce
  <1>4. /\ Append(cqueue, t) \in Seq(Thread) /\ OnceIn(Append(cqueue, t))
        /\ \A u : Has(Append(cqueue, t), u) <=> (Has(cqueue, u) \/ u = t)
    BY <1>3, AddLast
  <1>5. /\ cqueue' \in Seq(Thread) /\ OnceIn(cqueue')
        /\ \A u \in Thread : Has(cqueue', u) =>
              \/ Has(cqueue, u) /\ u # t
              \/ u = t /\ upc'[t] = "spin_lock" /\ then'[t] \in {"wait", "woken"}
    BY <1>2, <1>3, <1>4
  <1>6. UserType'
    BY <1>2, <1>5 DEF UserType, U!CondWait
  <1>7. upc[t] \notin Locking \cup Unlocking
    BY <1>2 DEF CondPlaces, Locking, Unlocking
  <1> QED BY <1>1, <1>2, <1>5, <1>6, <1>7, CondSleeps

LEMMA SignalWakes ==
    ASSUME OwnerInv, UserType, QueueCreated, SleepsOnce, U!MutexForgetsNobody,
           NEW t \in Thread, U!Signal(t), Step(t)
    PROVE  UserType' /\ QueueCreated' /\ SleepsOnce' /\ (U!MutexForgetsNobody)'
  <1>1. Others(t) /\ ~ U!Asleep(t)
    BY OneMoves
  <1>2. /\ upc[t] = "signal" /\ upc'[t] = "out" /\ cqueue' = U!sys_waitque_wake(cqueue)
        /\ cspin' = 0 /\ UNCHANGED <<waitque, used, queue, lock, value>>
    BY DEF U!Signal, U!Go, U!mutexVars, OwnerInv
  <1>3. ~ Has(cqueue, t) /\ cqueue \in Seq(Thread) /\ OnceIn(cqueue)
    BY <1>1, AsleepIs DEF UserType, SleepsOnce
  <1>4. /\ cqueue' \in Seq(Thread) /\ OnceIn(cqueue')
        /\ \A u : Has(cqueue', u) => Has(cqueue, u)
    <2>1. CASE cqueue = << >>
      BY <1>2, <1>3, <2>1 DEF U!sys_waitque_wake
    <2>2. CASE cqueue # << >>
      <3>1. cqueue' = Tail(cqueue)
        BY <1>2, <2>2 DEF U!sys_waitque_wake
      <3> QED BY <3>1, <1>3, <2>2, HeadLeaves
    <2> QED BY <2>1, <2>2
  <1>5. UserType'
    BY <1>2, <1>4 DEF UserType
  <1>6. \A u \in Thread : Has(cqueue', u) => Has(cqueue, u) /\ u # t
    BY <1>3, <1>4
  <1>7. upc[t] \notin Locking \cup Unlocking
    BY <1>2 DEF Locking, Unlocking
  <1> QED BY <1>1, <1>2, <1>4, <1>5, <1>6, <1>7, CondSleeps

\* No step makes the value or the spin lock anything else.
LEMMA TypesKept ==
    ASSUME OwnerInv, UserType, NEW t \in Thread, Step(t) PROVE value' \in Int /\ cspin' \in {0, 1}
  <1> USE DEF UserType, U!semVars
  <1>1. CASE U!UseMutex(t) \/ U!UseSem(t)
    BY <1>1 DEF U!UseMutex, U!UseSem
  <1>2. CASE U!Mutex(t)
    BY <1>2 DEF U!Mutex, U!Create, U!MutexSpin, U!LockSection, U!TrySection, U!UnlockSection, U!Take,
       U!WaitForMutex, U!Refuse
  <1>3. CASE U!Semaphore(t)
    BY <1>3 DEF U!Semaphore, U!Down, U!CondSpin, U!CondWait, U!Failed, U!Post, U!SignalSpin, U!Signal
  <1> QED BY <1>1, <1>2, <1>3 DEF Step

\* Who sleeps where, in every step.
LEMMA SleepersKept ==
    ASSUME OwnerInv, OwnerInv', UserInv, HandlesLeft, NEW t \in Thread, Step(t)
    PROVE  UserType' /\ QueueCreated' /\ SleepsOnce' /\ (U!MutexForgetsNobody)' /\ HandlesLeft'
  <1> USE DEF UserInv
  <1>1. CASE Quiet(t)
    <2>1. Others(t) /\ ~ U!Asleep(t)
      BY OneMoves
    <2>2. QueueCreated' /\ SleepsOnce' /\ (U!MutexForgetsNobody)'
      BY <1>1, <2>1, QuietSleep
    <2>3. UNCHANGED <<waitque, used, queue, cqueue>>
      BY <1>1 DEF Quiet
    <2>4. UserType'
      BY <2>3, TypesKept DEF UserType
    <2>5. HandlesLeft'
      BY <2>3, HandlesKept
    <2> QED BY <2>2, <2>4, <2>5
  <1>2. CASE \E e \in {"spin_lock", "spin_unlock"} : U!Create(t, e)
    BY <1>2, CreateSleeps
  <1>3. CASE U!WaitForMutex(t) \/ U!UnlockSection(t) \/ U!Signal(t) \/ \E way \in U!Way : U!CondWait(t, way)
    <2>1. used' = used
      BY <1>3 DEF U!WaitForMutex, U!UnlockSection, U!Signal, U!CondWait, U!mutexVars
    <2>2. HandlesLeft'
      BY <2>1, HandlesKept
    <2>3. ASSUME NEW way \in U!Way, U!CondWait(t, way) PROVE U!IsSem
      <3>1. upc[t] \in CondPlaces
        BY <2>3 DEF U!CondWait, U!Call, U!Go, U!Cond, U!Way, CondPlaces
      <3> QED BY <3>1 DEF SemPlaces, CondPlaces, Locking, Unlocking
    <2> QED BY <1>3, <2>2, <2>3, WaitSleeps, ReleaseWakes, SignalWakes, CondWaitSleeps
  <1>4. \/ Quiet(t) \/ (\E e \in {"spin_lock", "spin_unlock"} : U!Create(t, e))
        \/ U!WaitForMutex(t) \/ U!UnlockSection(t) \/ U!Signal(t) \/ \E way \in U!Way : U!CondWait(t, way)
    BY QuietSteps DEF Step, U!Mutex, U!LockSection, U!Semaphore
  <1> QED BY <1>1, <1>2, <1>3, <1>4

-----------------------------------------------------------------------------
(* The units of the semaphore.                                             *)

Coming(t) ==
    \/ then[t] = "posted" /\ upc[t] # "out"
    \/ ~ Has(cqueue, t) /\ then[t] \in U!Way \cup {"woken"}

LEMMA ComingIs ==
    /\ U!OnTheWay = {t \in Thread : Coming(t)}
    /\ (U!OnTheWay)' = {t \in Thread : Coming(t)'}
  <1>1. \A t : U!Contains(cqueue, t) <=> Has(cqueue, t)
    BY DEF U!Contains, Has
  <1>2. \A t : U!Contains(cqueue', t) <=> Has(cqueue', t)
    BY DEF U!Contains, Has
  <1> QED BY <1>1, <1>2 DEF U!OnTheWay, Coming

\* How a step changes the value and the place of a thread that uses a semaphore.
UnitKept(t) ==
    /\ cqueue' = cqueue /\ value' = value
    /\ (Coming(t) => Coming(t)') /\ then'[t] \notin CondPlaces \ {then[t]}

UnitTaken(t) ==
    /\ cqueue' = cqueue /\ value' = value - 1 /\ then'[t] = "out"
    /\ value > 0 \/ kind = "TIMED"

UnitMissing == value <= 0 /\ value' = value

UnitPosted(t) ==
    /\ cqueue' = cqueue /\ value' = value + 1
    /\ then'[t] = "posted" /\ ~ Coming(t) /\ Coming(t)'

UnitAwaited(t) ==
    /\ then[t] \in CondPlaces /\ value' = value
    /\ \A u \in Thread : Has(cqueue', u) => Has(cqueue, u) \/ u = t

UnitSignalled(t) ==
    /\ HasCond(t) /\ then[t] = "posted" /\ then'[t] = "posted"
    /\ cqueue' = U!sys_waitque_wake(cqueue) /\ value' = value

LEMMA UnitMoves ==
    ASSUME OwnerInv, UserType, SemPlaces, SleepsOnce, U!IsSem, NEW t \in Thread, Step(t)
    PROVE  \/ UnitKept(t) \/ UnitTaken(t) \/ UnitMissing \/ UnitPosted(t) \/ UnitAwaited(t)
           \/ UnitSignalled(t)
  <1> USE DEF U!mutexVars, U!semVars, Locking, Unlocking
  <1>0. /\ kind \in {"SEM", "TIMED"} /\ U!Normal /\ waitque # -1 /\ SemPlace(upc[t], then[t])
        /\ kind' = kind /\ ~ Has(cqueue, t)
    BY OneMoves, AsleepIs DEF U!IsSem, U!Normal, SemPlaces
  <1>1. ASSUME NEW a, NEW e \in {"spin_lock", "spin_unlock"}, NEW n, U!Call(t, a, e, n)
        PROVE  upc[t] = a /\ upc'[t] = e /\ then'[t] = n
    BY <1>0, <1>1 DEF U!Call, U!Go, U!Enter, OwnerInv
  <1>2. ASSUME NEW a, NEW b, U!Go(t, a, b) PROVE upc[t] = a /\ upc'[t] = b
    BY <1>2 DEF U!Go, OwnerInv
  <1>3. U!Way \subseteq {"wait", "timed", "try"} /\ (U!Way)' = U!Way
    BY <1>0 DEF U!Way
  <1>4. CASE U!UseSem(t)
    <2>1. /\ \E n \in U!Way \cup {"post"} : U!Call(t, "out", "spin_lock", n)
          /\ cqueue' = cqueue /\ value' = value
      BY <1>4 DEF U!UseSem
    <2>2. upc[t] = "out" /\ then'[t] \in {"wait", "timed", "try", "post"}
      BY <1>1, <1>3, <2>1
    <2>3. ~ Coming(t)
      BY <1>0, <1>3, <2>2 DEF SemPlace, Coming
    <2> QED BY <2>1, <2>2, <2>3 DEF UnitKept, CondPlaces
  <1>5. ASSUME U!Mutex(t) PROVE UnitKept(t)
    <2>1. then' = then /\ cqueue' = cqueue /\ value' = value
      BY <1>5 DEF U!Mutex, U!Create, U!MutexSpin, U!LockSection, U!TrySection, U!UnlockSection, U!Take,
         U!WaitForMutex, U!Refuse
    <2>2. upc'[t] \in {"spin_lock", "lock", "spin_unlock", "unlock", then[t]}
      <3>1. upc[t] \notin {"spin_try", "trylock"}
        BY <1>0 DEF SemPlace
      <3>2. \E a : \E b \in {"spin_lock", "lock", "spin_unlock", "unlock", then[t]} : U!Go(t, a, b)
        <4>1. ~ U!TrySection(t) /\ ~ U!MutexSpin(t, "spin_try", "trylock")
          BY <1>0, <1>2, <3>1 DEF U!TrySection, U!MutexSpin
        <4>2. CASE \E e \in {"spin_lock", "spin_unlock"} : U!Create(t, e)
          BY <4>2 DEF U!Create
        <4>3. CASE U!MutexSpin(t, "spin_lock", "lock") \/ U!MutexSpin(t, "spin_unlock", "unlock")
          BY <4>3 DEF U!MutexSpin
        <4>4. CASE U!LockSection(t)
          BY <1>0, <4>4 DEF U!LockSection, U!Take, U!WaitForMutex
        <4>5. CASE U!UnlockSection(t)
          BY <1>0, <4>5 DEF U!UnlockSection
        <4> QED BY <1>5, <4>1, <4>2, <4>3, <4>4, <4>5 DEF U!Mutex
      <3> QED BY <1>2, <3>2
    <2>3. Coming(t) => Coming(t)'
      BY <1>3, <2>1, <2>2 DEF Coming
    <2> QED BY <2>1, <2>3 DEF UnitKept, CondPlaces
  <1>6. CASE \E here \in U!Way \cup {"woken"} : U!Down(t, here)
    <2>1. PICK here \in U!Way \cup {"woken"} : U!Down(t, here)
      BY <1>6
    <2>2. /\ upc[t] = here /\ then'[t] = "out" /\ cqueue' = cqueue /\ value' = value - 1
          /\ here \in U!Way => value > 0
      BY <1>1, <2>1 DEF U!Down
    <2>3. here = "woken" => kind = "TIMED"
      BY <1>0, <2>2 DEF SemPlace
    <2> QED BY <2>2, <2>3 DEF UnitTaken
  <1>7. CASE \E way \in U!Way : U!CondSpin(t, way)
    BY <1>7 DEF U!CondSpin, UnitMissing
  <1>8. CASE \E way \in U!Way : U!CondWait(t, way)
    <2>1. /\ then[t] \in CondPlaces /\ value' = value
          /\ cqueue' = Append(cqueue, t) \/ cqueue' = cqueue
      BY <1>8, CondWaits
    <2>2. \A u : Has(Append(cqueue, t), u) <=> (Has(cqueue, u) \/ u = t)
      BY <1>0, AddLast DEF UserType, SleepsOnce
    <2> QED BY <2>1, <2>2 DEF UnitAwaited
  <1>9. CASE U!Failed(t)
    <2>1. upc[t] = "failed" /\ then'[t] = "out" /\ cqueue' = cqueue /\ value' = value
      BY <1>1, <1>9 DEF U!Failed
    <2>2. ~ Coming(t)
      BY <1>0, <1>3, <2>1 DEF SemPlace, Coming
    <2> QED BY <2>1, <2>2 DEF UnitKept, CondPlaces
  <1>10. CASE U!Post(t)
    <2>1. /\ upc[t] = "post" /\ upc'[t] = "spin_unlock" /\ then'[t] = "posted"
          /\ cqueue' = cqueue /\ value' = value + 1
      BY <1>1, <1>10 DEF U!Post
    <2>2. ~ Coming(t) /\ Coming(t)'
      BY <1>0, <1>3, <2>1 DEF SemPlace, Coming
    <2> QED BY <2>1, <2>2 DEF UnitPosted
  <1>11. CASE U!SignalSpin(t)
    <2>1. upc'[t] = "signal" /\ then' = then /\ cqueue' = cqueue /\ value' = value
      BY <1>2, <1>11 DEF U!SignalSpin
    <2>2. Coming(t) => Coming(t)'
      BY <1>3, <2>1 DEF Coming
    <2> QED BY <2>1, <2>2 DEF UnitKept, CondPlaces
  <1>12. CASE U!Signal(t)
    <2>1. /\ upc[t] = "signal" /\ then' = then /\ cqueue' = U!sys_waitque_wake(cqueue) /\ value' = value
      BY <1>2, <1>12 DEF U!Signal
    <2>2. then[t] = "posted"
      BY <1>0, <2>1 DEF SemPlace
    <2> QED BY <2>1, <2>2 DEF UnitSignalled, HasCond
  <1>13. ~ U!UseMutex(t)
    BY DEF U!UseMutex
  <1> QED BY <1>4, <1>5, <1>6, <1>7, <1>8, <1>9, <1>10, <1>11, <1>12, <1>13 DEF Step, U!Semaphore

LEMMA UnitsKept ==
    ASSUME OwnerInv, UserInv, U!IsSem, NEW t \in Thread, Step(t)
    PROVE  UnitsAnnounced' /\ (U!NoOverdraw)'
  <1> USE DEF UserInv
  <1> DEFINE some == cqueue # << >> \/ \E u \in Thread : then[u] \in CondPlaces
  <1>0. kind' = kind /\ Others(t) /\ (U!Way)' = U!Way
    BY OneMoves DEF U!Way
  <1>1. /\ IsFiniteSet(U!OnTheWay) /\ Cardinality(U!OnTheWay) \in Nat /\ U!OnTheWay \subseteq Thread
        /\ IsFiniteSet((U!OnTheWay)') /\ Cardinality((U!OnTheWay)') \in Nat
        /\ value \in Int
    <2>1. U!OnTheWay \subseteq Thread /\ (U!OnTheWay)' \subseteq Thread
      BY ComingIs
    <2> QED BY <2>1, UserFacts, FS_Subset, FS_CardinalityType DEF UserType
  <1>2. /\ some => value <= Cardinality(U!OnTheWay)
        /\ (some' => value' <= Cardinality((U!OnTheWay)')) => UnitsAnnounced'
    BY UserFacts DEF UnitsAnnounced, U!Cardinality, Cardinality
  <1>3. ASSUME cqueue' = cqueue, NEW u \in Thread, u # t PROVE Coming(u)' <=> Coming(u)
    BY <1>0, <1>3 DEF Coming, Others
  <1>4. ASSUME U!OnTheWay \subseteq (U!OnTheWay)', value' = value, some' => some PROVE UnitsAnnounced'
    <2>1. Cardinality(U!OnTheWay) <= Cardinality((U!OnTheWay)')
      BY <1>1, <1>4, FS_Subset
    <2> QED BY <2>1, <1>1, <1>2, <1>4
  <1>5. CASE UnitKept(t)
    <2>1. U!OnTheWay \subseteq (U!OnTheWay)'
      BY <1>3, <1>5, ComingIs DEF UnitKept
    <2>2. some' => some
      BY <1>0, <1>5 DEF UnitKept, Others
    <2>3. (U!NoOverdraw)'
      BY <1>0, <1>5 DEF UnitKept, U!NoOverdraw
    <2> HIDE DEF some
    <2> QED BY <2>1, <2>2, <2>3, <1>4, <1>5 DEF UnitKept
  <1>6. CASE UnitTaken(t)
    <2>1. U!OnTheWay \ {t} \subseteq (U!OnTheWay)'
      BY <1>3, <1>6, ComingIs DEF UnitTaken
    <2>2. Cardinality(U!OnTheWay \ {t}) <= Cardinality((U!OnTheWay)')
      BY <2>1, <1>1, FS_Subset
    <2>3. Cardinality(U!OnTheWay) - 1 <= Cardinality(U!OnTheWay \ {t})
      <3>1. Cardinality(U!OnTheWay \ {t})
              = IF t \in U!OnTheWay THEN Cardinality(U!OnTheWay) - 1 ELSE Cardinality(U!OnTheWay)
        BY <1>1, FS_RemoveElement
      <3> QED BY <3>1, <1>1
    <2>4. some' => some
      <3>1. then'[t] \notin CondPlaces
        BY <1>6 DEF UnitTaken, CondPlaces
      <3> QED BY <3>1, <1>0, <1>6 DEF UnitTaken, Others
    <2>5. (U!NoOverdraw)'
      BY <1>0, <1>1, <1>6 DEF UnitTaken, U!NoOverdraw
    <2>6. Cardinality(U!OnTheWay \ {t}) \in Nat
      BY <1>1, FS_Subset, FS_CardinalityType
    <2>7. value' = value - 1
      BY <1>6 DEF UnitTaken
    <2> HIDE DEF some
    <2> QED BY <2>2, <2>3, <2>4, <2>5, <2>6, <2>7, <1>1, <1>2
  <1>7. CASE UnitMissing
    <2>1. value' <= Cardinality((U!OnTheWay)')
      BY <1>1, <1>7 DEF UnitMissing
    <2> QED BY <2>1, <1>0, <1>2, <1>7 DEF UnitMissing, U!NoOverdraw
  <1>8. CASE UnitPosted(t)
    <2>1. U!OnTheWay \cup {t} \subseteq (U!OnTheWay)' /\ t \notin U!OnTheWay
      BY <1>3, <1>8, ComingIs DEF UnitPosted
    <2>2. Cardinality(U!OnTheWay \cup {t}) = Cardinality(U!OnTheWay) + 1
      BY <2>1, <1>1, FS_AddElement
    <2>3. Cardinality(U!OnTheWay \cup {t}) <= Cardinality((U!OnTheWay)')
      BY <2>1, <1>1, FS_Subset
    <2>4. some' => some
      <3>1. then'[t] \notin CondPlaces
        BY <1>8 DEF UnitPosted, CondPlaces
      <3> QED BY <3>1, <1>0, <1>8 DEF UnitPosted, Others
    <2>5. (U!NoOverdraw)'
      BY <1>0, <1>1, <1>8 DEF UnitPosted, U!NoOverdraw
    <2>6. value' = value + 1
      BY <1>8 DEF UnitPosted
    <2> HIDE DEF some
    <2> QED BY <2>2, <2>3, <2>4, <2>5, <2>6, <1>1, <1>2
  <1>9. CASE UnitAwaited(t)
    <2>1. ~ Coming(t)
      BY <1>9 DEF UnitAwaited, Coming, CondPlaces, U!Way
    <2>2. \A u \in Thread : u # t /\ Coming(u) => Coming(u)'
      BY <1>0, <1>9 DEF UnitAwaited, Coming, Others
    <2>3. U!OnTheWay \subseteq (U!OnTheWay)'
      BY <2>1, <2>2, ComingIs
    <2>4. some /\ value' = value
      BY <1>9 DEF UnitAwaited
    <2>5. (U!NoOverdraw)'
      BY <2>4, <1>0 DEF U!NoOverdraw
    <2> HIDE DEF some
    <2> QED BY <2>3, <2>4, <2>5, <1>4
  <1>10. CASE UnitSignalled(t)
    <2>0. value' = value /\ (U!NoOverdraw)'
      BY <1>0, <1>10 DEF UnitSignalled, U!NoOverdraw
    <2>1. CASE cqueue = << >>
      <3>1. cqueue' = << >>
        BY <1>10, <2>1 DEF UnitSignalled, U!sys_waitque_wake
      <3>2. \A u \in Thread : then'[u] \notin CondPlaces
        <4>1. \A u \in Thread : u # t => then[u] \notin CondPlaces
          BY <1>10 DEF UnitSignalled, CondHeld, HasCond
        <4>2. then'[t] \notin CondPlaces
          BY <1>10 DEF UnitSignalled, CondPlaces
        <4> QED BY <4>1, <4>2, <1>0 DEF Others
      <3> QED BY <3>1, <3>2, <2>0 DEF UnitsAnnounced
    <2>2. CASE cqueue # << >>
      <3>0. PICK h : h = Head(cqueue)
        OBVIOUS
      <3>1. /\ h \in Thread /\ Has(cqueue, h)
            /\ \A u : Has(cqueue', u) <=> (Has(cqueue, u) /\ u # h)
        BY <3>0, <1>10, <2>2, HeadLeaves DEF UnitSignalled, U!sys_waitque_wake, UserType, SleepsOnce
      <3>2. then[h] \in {"wait", "woken"} /\ h # t
        BY <3>1, <1>10 DEF SleepsOnce, UnitSignalled
      <3>3. ~ Coming(h) /\ Coming(h)'
        BY <3>1, <3>2, <1>0 DEF Coming, U!Way, Others
      <3>4. \A u \in Thread : u # t /\ Coming(u) => Coming(u)'
        BY <3>1, <1>0 DEF Coming, Others
      <3>5. ((U!OnTheWay \ {t}) \cup {h}) \subseteq (U!OnTheWay)' /\ h \notin U!OnTheWay \ {t}
        BY <3>1, <3>3, <3>4, ComingIs
      <3>6. /\ Cardinality(U!OnTheWay) - 1 <= Cardinality(U!OnTheWay \ {t})
            /\ IsFiniteSet(U!OnTheWay \ {t}) /\ Cardinality(U!OnTheWay \ {t}) \in Nat
        BY <1>1, FS_RemoveElement, FS_Subset, FS_CardinalityType
      <3>7. Cardinality((U!OnTheWay \ {t}) \cup {h}) = Cardinality(U!OnTheWay \ {t}) + 1
        BY <3>5, <3>6, FS_AddElement
      <3>8. Cardinality((U!OnTheWay \ {t}) \cup {h}) <= Cardinality((U!OnTheWay)')
        BY <3>5, <1>1, FS_Subset
      <3>9. value <= Cardinality(U!OnTheWay)
        BY <2>2, <1>2
      <3> HIDE DEF some
      <3> QED BY <3>6, <3>7, <3>8, <3>9, <2>0, <1>1, <1>2
    <2> QED BY <2>1, <2>2
  <1> HIDE DEF some
  <1> QED BY <1>5, <1>6, <1>7, <1>8, <1>9, <1>10, UnitMoves

\* A step of any thread.
LEMMA UserInvStep ==
    OwnerInv /\ UserInv /\ HandlesLeft /\ [U!Next]_(U!vars) => UserInv' /\ HandlesLeft'
  <1> SUFFICES ASSUME OwnerInv, UserInv, HandlesLeft, [U!Next]_(U!vars) PROVE UserInv' /\ HandlesLeft'
    OBVIOUS
  <1>1. CASE UNCHANGED U!vars
    <2> USE <1>1 DEF U!vars, U!mutexVars, U!semVars
    <2>1. UserType' /\ QueueCreated' /\ SleepsOnce' /\ CondHeld'
      BY DEF UserInv, UserType, QueueCreated, SleepsOnce, CondHeld, HasCond
    <2>2. (U!IsSem)' <=> U!IsSem
      BY DEF U!IsSem
    <2>3. SemPlaces'
      BY <2>2 DEF UserInv, SemPlaces, SemPlace
    <2>4. (U!MutexForgetsNobody)' /\ (U!NoOverdraw)'
      BY DEF UserInv, U!MutexForgetsNobody, U!InLockCode, U!Asleep, U!NoOverdraw
    <2>5. UnitsAnnounced'
      BY DEF UserInv, UnitsAnnounced, U!OnTheWay, U!Way
    <2>6. HandlesLeft'
      BY DEF HandlesLeft, Creators
    <2> QED BY <2>1, <2>3, <2>4, <2>5, <2>6 DEF UserInv
  <1>2. CASE U!Next
    <2>1. PICK t \in Thread : Step(t)
      BY <1>2 DEF U!Next, Step
    <2>2. OwnerInv'
      BY UserStepInv
    <2>3. UserType' /\ QueueCreated' /\ SleepsOnce' /\ (U!MutexForgetsNobody)' /\ HandlesLeft'
      BY <2>1, <2>2, SleepersKept
    <2>4. SemPlaces' /\ CondHeld'
      BY <2>1, PlacesKept DEF UserInv
    <2>5. UnitsAnnounced' /\ (U!NoOverdraw)'
      <3>1. CASE U!IsSem
        BY <2>1, <3>1, UnitsKept
      <3>2. CASE ~ U!IsSem
        <4>1. ~ (U!IsSem)'
          BY <2>1, <3>2, OneMoves DEF U!IsSem
        <4>2. cqueue' = << >> /\ value' = Value /\ \A t1 \in Thread : then'[t1] \in {"out", "in"}
          BY <2>4, <4>1 DEF SemPlaces
        <4> QED BY <4>2, QueuesAssumption DEF UnitsAnnounced, U!NoOverdraw, CondPlaces, U!UserSyncConstants
      <3> QED BY <3>1, <3>2
    <2> QED BY <2>3, <2>4, <2>5 DEF UserInv
  <1> QED BY <1>1, <1>2

LEMMA UserInvInit == U!Init => UserInv /\ HandlesLeft
  <1> SUFFICES ASSUME U!Init PROVE UserInv /\ HandlesLeft
    OBVIOUS
  <1> USE DEF U!Init
  <1>1. U!Min(Handle) \in Handle /\ U!Min(Handle) \in Nat
    <2>1. Cardinality(Thread) \in Nat
      BY UserFacts, FS_CardinalityType
    <2>2. Handle # {}
      BY <2>1, UserFacts, FS_EmptySet
    <2> QED BY <2>2, UserFacts, SomeFirst
  <1>2. \A x : ~ Has(<< >>, x)
    BY DEF Has
  <1>3. UserType
    <2>1. << >> \in Seq(Thread)
      OBVIOUS
    <2> QED BY <2>1, <1>1, QueuesAssumption DEF UserType, U!UserSyncConstants
  <1>4. QueueCreated
    BY <1>1 DEF QueueCreated
  <1>5. SleepsOnce
    BY <1>2 DEF SleepsOnce, OnceIn
  <1>6. SemPlaces
    BY <1>1 DEF SemPlaces, SemPlace, CondPlaces, Locking, Unlocking
  <1>7. CondHeld
    BY DEF CondHeld, HasCond, CondPlaces
  <1>8. U!MutexForgetsNobody
    BY DEF U!MutexForgetsNobody
  <1>9. UnitsAnnounced
    BY DEF UnitsAnnounced, CondPlaces
  <1>10. U!NoOverdraw
    BY QueuesAssumption DEF U!NoOverdraw, U!UserSyncConstants
  <1>11. HandlesLeft
    BY DEF HandlesLeft, Creators
  <1> QED BY <1>3, <1>4, <1>5, <1>6, <1>7, <1>8, <1>9, <1>10, <1>11 DEF UserInv

\* Nobody is left asleep in pthread_mutex_lock on a free mutex unless somebody is
\* on the way to wake it or to take it, every unit of a semaphore that somebody
\* waits for is announced, and sem_wait takes no unit that is not there: for any
\* threads, initial value and kind.
THEOREM UserForgetsNobody == U!Spec => []ForgetsNobody
  <1>1. UserInv => ForgetsNobody
    BY UserFacts DEF UserInv, ForgetsNobody, U!ForgetsNobody, UnitsAnnounced, U!EveryUnitAnnounced
  <1> QED BY <1>1, UserInitInv, UserStepInv, UserInvInit, UserInvStep, PTL DEF U!Spec

-----------------------------------------------------------------------------
(* The queue of the keyboard (FifoIo) is a queue of bytes, for any tasks,  *)
(* bytes and size.                                                         *)

KbdPlaces == {"out", "down", "lock", "move", "wrap", "unlock", "wake", "up"}

KbdType ==
    /\ buffer \in [0 .. Size - 1 -> Byte] /\ khead \in 0 .. Size /\ ktail \in 0 .. Size
    /\ counter \in [F!Sema -> Nat] /\ waiter \in [F!Sema -> Seq(F!KThread)]
    /\ locked \in BOOLEAN /\ wait_list \in Seq(F!KThread)
    /\ host \in F!KThread \cup {NoTask}
    /\ kpc \in [F!User -> KbdPlaces] /\ data \in [F!User -> Byte]
    /\ wakes \in [F!User -> F!KThread \cup {NoTask}]
    /\ host = NoTask <=> kpc[Handler] = "out"

Lists == {"empty", "full", "mutex"}
Sleepers == [x \in Lists |-> IF x = "mutex" THEN wait_list ELSE waiter[x]]

\* A task that sleeps is in one list l, once, or one user has it in k to wake it;
\* a are the tasks asleep.
InOneList(l, k, a) ==
    /\ l \in [Lists -> Seq(F!KThread)] /\ k \in [F!User -> F!KThread \cup {NoTask}]
    /\ \A x \in Lists : OnceIn(l[x])
    /\ \A x \in Lists, t \in F!KThread : Has(l[x], t) => t \in a
    /\ \A x, y \in Lists, t \in F!KThread : Has(l[x], t) /\ Has(l[y], t) => x = y
    /\ \A x \in Lists, u \in F!User : ~ Has(l[x], k[u])
    /\ \A u \in F!User : k[u] # NoTask => k[u] \in a
    /\ \A u, v \in F!User : k[u] = k[v] /\ k[u] # NoTask => u = v

\* Who takes units of a semaphore and who returns them.
Downs(s) == IF s = "empty" THEN F!Putter ELSE Reader
Ups(s) == IF s = "empty" THEN Reader ELSE F!Putter

\* The user a task runs, the handler on its host.
UserOf(t) == IF t = host THEN Handler ELSE t
Waits(s, u) == \E t \in F!KThread : Has(waiter[s], t) /\ UserOf(t) = u

\* Who waits for a unit goes on to the mutex with it.
WaitersLock ==
    \A s \in F!Sema, t \in F!KThread :
        Has(waiter[s], t) => UserOf(t) \in Downs(s) /\ kpc[UserOf(t)] = "lock"

\* One user at a time is at the ring.
AtRing == {"move", "wrap", "unlock"}
OneAtRing ==
    /\ \A u \in F!User : kpc[u] \in AtRing => locked
    /\ \A u, v \in F!User : kpc[u] \in AtRing /\ kpc[v] \in AtRing => u = v

\* Every byte of the ring is a unit of one of the semaphores, or held by a user
\* that has taken it and not moved a byte yet or owed by one that has.
Holders(s) == {u \in Downs(s) : kpc[u] \in {"lock", "move"} /\ ~ Waits(s, u)}
Owers(s) == {u \in Ups(s) : kpc[u] \in {"wrap", "unlock", "wake", "up"}}
UnitsOf(s) == counter[s] + Cardinality(Holders(s)) + Cardinality(Owers(s))

\* The place i places after p.
RingPlace(p, i) == IF p + i < Size THEN p + i ELSE p + i - Size

\* Head or tail is behind the end only until the wrap, and the bytes are between
\* them.
WrapOpen ==
    /\ khead = Size => \E u \in F!Putter : kpc[u] = "wrap"
    /\ ktail = Size => \E u \in Reader : kpc[u] = "wrap"
BytesBetween == WrapOpen /\ F!Back(khead) = RingPlace(F!Back(ktail), UnitsOf("full"))

KbdInv ==
    /\ KbdType /\ InOneList(Sleepers, wakes, asleep) /\ WaitersLock /\ OneAtRing
    /\ UnitsOf("empty") + UnitsOf("full") = Size
    /\ BytesBetween

LEMMA KbdFacts ==
    /\ Size \in Nat \ {0} /\ Byte # {} /\ IsFiniteSet(Reader) /\ IsFiniteSet(F!Putter)
    /\ F!User = Reader \cup F!Putter /\ Reader \cap F!Putter = {}
    /\ F!User \subseteq F!KThread \cup {Handler} /\ Handler \in F!Putter
    /\ NoTask \notin F!KThread /\ Handler \notin F!KThread /\ Handler # NoTask
    /\ F!Sema = {"empty", "full"} /\ \A S : F!Cardinality(S) = Cardinality(S)
  <1>1. /\ Size \in Nat \ {0} /\ Byte # {} /\ Handler # NoTask
        /\ Reader \cap Writer = {} /\ {Handler, NoTask} \cap (Reader \cup Writer \cup Other) = {}
    BY QueuesAssumption DEF F!FifoIoConstants
  <1>2. IsFiniteSet(Reader \cup Writer)
    BY QueuesAssumption DEF F!FifoIoConstants, F!IsFiniteSet, IsFiniteSet
  <1>3. IsFiniteSet(Reader) /\ IsFiniteSet(Writer)
    BY <1>2, FS_Subset
  <1>4. IsFiniteSet(Writer \cup {Handler})
    BY <1>3, FS_AddElement
  <1>5. \A S : F!Cardinality(S) = Cardinality(S)
    BY DEF F!Cardinality, Cardinality, F!IsFiniteSet, IsFiniteSet
  <1> QED BY <1>1, <1>3, <1>4, <1>5 DEF F!User, F!Putter, F!KThread, F!Sema

-----------------------------------------------------------------------------
(* Tasks enter and leave the lists of sleepers.                            *)

\* A task that is awake goes to sleep in the list x.
LEMMA SleepIn ==
    ASSUME NEW l, NEW k, NEW a, InOneList(l, k, a), NEW x \in Lists,
           NEW t \in F!KThread, t \notin a
    PROVE  InOneList([l EXCEPT ![x] = Append(@, t)], k, a \cup {t})
  <1>1. PICK r : r = [l EXCEPT ![x] = Append(@, t)]
    OBVIOUS
  <1>2. l[x] \in Seq(F!KThread) /\ OnceIn(l[x]) /\ ~ Has(l[x], t)
    BY DEF InOneList
  <1>3. /\ Append(l[x], t) \in Seq(F!KThread) /\ OnceIn(Append(l[x], t))
        /\ \A u : Has(Append(l[x], t), u) <=> (Has(l[x], u) \/ u = t)
    BY <1>2, AddLast
  <1>4. /\ r \in [Lists -> Seq(F!KThread)] /\ r[x] = Append(l[x], t)
        /\ \A y \in Lists : y # x => r[y] = l[y]
    BY <1>1, <1>3 DEF InOneList
  <1>5. \A y \in Lists, u \in F!KThread : Has(r[y], u) <=> (Has(l[y], u) \/ (y = x /\ u = t))
    BY <1>3, <1>4
  <1>6. \A y \in Lists : ~ Has(l[y], t)
    BY DEF InOneList
  <1>7. \A u \in F!User : k[u] # t
    BY KbdFacts DEF InOneList
  <1>8. ASSUME NEW y \in Lists, NEW u \in F!User PROVE ~ Has(r[y], k[u])
    <2>1. ~ Has(l[y], k[u]) /\ ~ Has(l[x], k[u])
      BY DEF InOneList
    <2>2. CASE y = x
      <3>1. ~ Has(Append(l[x], t), k[u])
        BY <2>1, <1>3, <1>7
      <3> QED BY <3>1, <2>2, <1>4
    <2>3. CASE y # x
      BY <2>1, <2>3, <1>4
    <2> QED BY <2>2, <2>3
  <1>9. \A y \in Lists : OnceIn(r[y])
    BY <1>3, <1>4 DEF InOneList
  <1>10. \A y, z \in Lists, u \in F!KThread : Has(r[y], u) /\ Has(r[z], u) => y = z
    BY <1>5, <1>6 DEF InOneList
  <1>11. \A y \in Lists, u \in F!KThread : Has(r[y], u) => u \in a \cup {t}
    BY <1>5 DEF InOneList
  <1>12. \A u \in F!User : k[u] # NoTask => k[u] \in a \cup {t}
    BY DEF InOneList
  <1>13. \A u, v \in F!User : k[u] = k[v] /\ k[u] # NoTask => u = v
    BY DEF InOneList
  <1>14. k \in [F!User -> F!KThread \cup {NoTask}]
    BY DEF InOneList
  <1>15. InOneList(r, k, a \cup {t})
    BY <1>4, <1>8, <1>9, <1>10, <1>11, <1>12, <1>13, <1>14 DEF InOneList
  <1> QED BY <1>1, <1>15

\* The head of the list x leaves it.
Headless(l, x) == [l EXCEPT ![x] = Tail(@)]

LEMMA HeadOut ==
    ASSUME NEW l, NEW k, NEW a, InOneList(l, k, a), NEW x \in Lists, l[x] # << >>
    PROVE  /\ Head(l[x]) \in F!KThread /\ Head(l[x]) \in a /\ Has(l[x], Head(l[x]))
           /\ \A u \in F!User : k[u] # Head(l[x])
           /\ Headless(l, x) \in [Lists -> Seq(F!KThread)]
           /\ \A y \in Lists : OnceIn(Headless(l, x)[y])
           /\ \A y \in Lists, u \in F!KThread :
                 Has(Headless(l, x)[y], u) <=> (Has(l[y], u) /\ u # Head(l[x]))
           /\ \A y \in Lists, u \in F!User : ~ Has(Headless(l, x)[y], k[u])
           /\ \A y, z \in Lists, u \in F!KThread :
                 Has(Headless(l, x)[y], u) /\ Has(Headless(l, x)[z], u) => y = z
  <1>1. PICK r : r = Headless(l, x)
    OBVIOUS
  <1>2. l[x] \in Seq(F!KThread) /\ OnceIn(l[x])
    BY DEF InOneList
  <1>3. PICK h : h = Head(l[x])
    OBVIOUS
  <1>4. /\ h \in F!KThread /\ Has(l[x], h)
        /\ Tail(l[x]) \in Seq(F!KThread) /\ OnceIn(Tail(l[x]))
        /\ \A u : Has(Tail(l[x]), u) <=> (Has(l[x], u) /\ u # h)
    BY <1>2, <1>3, HeadLeaves
  <1>5. /\ r \in [Lists -> Seq(F!KThread)] /\ r[x] = Tail(l[x])
        /\ \A y \in Lists : y # x => r[y] = l[y]
    BY <1>1, <1>4 DEF InOneList, Headless
  <1>6. \A y \in Lists : y # x => ~ Has(l[y], h)
    BY <1>4 DEF InOneList
  <1>7. \A y \in Lists, u \in F!KThread : Has(r[y], u) <=> (Has(l[y], u) /\ u # h)
    BY <1>4, <1>5, <1>6
  <1>8. \A u \in F!User : k[u] # h
    BY <1>4 DEF InOneList
  <1>9. h \in a
    BY <1>4 DEF InOneList
  <1>10. \A y \in Lists : OnceIn(r[y])
    BY <1>4, <1>5 DEF InOneList
  <1>11. ASSUME NEW y \in Lists, NEW u \in F!User PROVE ~ Has(r[y], k[u])
    <2>1. ~ Has(l[y], k[u]) /\ ~ Has(l[x], k[u])
      BY DEF InOneList
    <2>2. ~ Has(Tail(l[x]), k[u])
      BY <2>1, <1>4
    <2>3. CASE y = x
      BY <2>2, <2>3, <1>5
    <2>4. CASE y # x
      BY <2>1, <2>4, <1>5
    <2> QED BY <2>3, <2>4
  <1>12. \A y, z \in Lists, u \in F!KThread : Has(r[y], u) /\ Has(r[z], u) => y = z
    BY <1>7 DEF InOneList
  <1> QED BY <1>1, <1>3, <1>4, <1>5, <1>7, <1>8, <1>9, <1>10, <1>11, <1>12

\* It is woken,
LEMMA HeadWoken ==
    ASSUME NEW l, NEW k, NEW a, InOneList(l, k, a), NEW x \in Lists, l[x] # << >>
    PROVE  InOneList(Headless(l, x), k, a \ {Head(l[x])})
  <1>1. PICK r, h : r = Headless(l, x) /\ h = Head(l[x])
    OBVIOUS
  <1>2. /\ \A u \in F!User : k[u] # h
        /\ r \in [Lists -> Seq(F!KThread)] /\ \A y \in Lists : OnceIn(r[y])
        /\ \A y \in Lists, u \in F!KThread : Has(r[y], u) <=> (Has(l[y], u) /\ u # h)
        /\ \A y \in Lists, u \in F!User : ~ Has(r[y], k[u])
        /\ \A y, z \in Lists, u \in F!KThread : Has(r[y], u) /\ Has(r[z], u) => y = z
    BY <1>1, HeadOut
  <1>3. \A y \in Lists, u \in F!KThread : Has(r[y], u) => u \in a \ {h}
    BY <1>2 DEF InOneList
  <1>4. \A u \in F!User : k[u] # NoTask => k[u] \in a \ {h}
    BY <1>2 DEF InOneList
  <1>5. /\ k \in [F!User -> F!KThread \cup {NoTask}]
        /\ \A u, v \in F!User : k[u] = k[v] /\ k[u] # NoTask => u = v
    BY DEF InOneList
  <1>6. InOneList(r, k, a \ {h})
    BY <1>2, <1>3, <1>4, <1>5 DEF InOneList
  <1> QED BY <1>1, <1>6

\* or the user u has it to wake,
LEMMA HeadTaken ==
    ASSUME NEW l, NEW k, NEW a, InOneList(l, k, a), NEW x \in Lists, l[x] # << >>,
           NEW u \in F!User
    PROVE  InOneList(Headless(l, x), [k EXCEPT ![u] = Head(l[x])], a)
  <1>1. PICK r, h, j : r = Headless(l, x) /\ h = Head(l[x]) /\ j = [k EXCEPT ![u] = h]
    OBVIOUS
  <1>2. /\ h \in F!KThread /\ h \in a /\ \A v \in F!User : k[v] # h
        /\ r \in [Lists -> Seq(F!KThread)] /\ \A y \in Lists : OnceIn(r[y])
        /\ \A y \in Lists, v \in F!KThread : Has(r[y], v) <=> (Has(l[y], v) /\ v # h)
        /\ \A y \in Lists, v \in F!User : ~ Has(r[y], k[v])
        /\ \A y, z \in Lists, v \in F!KThread : Has(r[y], v) /\ Has(r[z], v) => y = z
    BY <1>1, HeadOut
  <1>3. /\ j \in [F!User -> F!KThread \cup {NoTask}] /\ j[u] = h
        /\ \A v \in F!User : v # u => j[v] = k[v]
    BY <1>1, <1>2 DEF InOneList
  <1>4. \A y \in Lists, v \in F!User : ~ Has(r[y], j[v])
    BY <1>2, <1>3
  <1>5. \A y \in Lists, v \in F!KThread : Has(r[y], v) => v \in a
    BY <1>2 DEF InOneList
  <1>6. \A v \in F!User : j[v] # NoTask => j[v] \in a
    BY <1>2, <1>3 DEF InOneList
  <1>7. \A v, w \in F!User : j[v] = j[w] /\ j[v] # NoTask => v = w
    BY <1>2, <1>3 DEF InOneList
  <1>8. InOneList(r, j, a)
    BY <1>2, <1>3, <1>4, <1>5, <1>6, <1>7 DEF InOneList
  <1> QED BY <1>1, <1>8

\* and wakes it.
LEMMA TakenWoken ==
    ASSUME NEW l, NEW k, NEW a, InOneList(l, k, a), NEW u \in F!User
    PROVE  InOneList(l, [k EXCEPT ![u] = NoTask], a \ {k[u]})
  <1>1. PICK h, j : h = k[u] /\ j = [k EXCEPT ![u] = NoTask]
    OBVIOUS
  <1>2. /\ j \in [F!User -> F!KThread \cup {NoTask}] /\ j[u] = NoTask
        /\ \A v \in F!User : v # u => j[v] = k[v]
    BY <1>1 DEF InOneList
  <1>3. \A y \in Lists : ~ Has(l[y], NoTask)
    <2> SUFFICES ASSUME NEW y \in Lists, Has(l[y], NoTask) PROVE FALSE
      OBVIOUS
    <2>1. PICK s \in Seq(F!KThread) : s = l[y]
      BY DEF InOneList
    <2>2. PICK i \in 1 .. Len(s) : s[i] = NoTask
      BY <2>1 DEF Has
    <2> QED BY <2>2, ElementOfSeq, KbdFacts
  <1>4. \A y \in Lists, v \in F!User : ~ Has(l[y], j[v])
    BY <1>2, <1>3 DEF InOneList
  <1>5. \A y \in Lists, v \in F!KThread : Has(l[y], v) => v \in a \ {h}
    BY <1>1 DEF InOneList
  <1>6. \A v \in F!User : j[v] # NoTask => j[v] \in a \ {h}
    BY <1>1, <1>2 DEF InOneList
  <1>7. \A v, w \in F!User : j[v] = j[w] /\ j[v] # NoTask => v = w
    BY <1>2 DEF InOneList
  <1>8. /\ l \in [Lists -> Seq(F!KThread)] /\ \A x \in Lists : OnceIn(l[x])
        /\ \A x, y \in Lists, t \in F!KThread : Has(l[x], t) /\ Has(l[y], t) => x = y
    BY DEF InOneList
  <1>9. InOneList(l, j, a \ {h})
    BY <1>2, <1>4, <1>5, <1>6, <1>7, <1>8 DEF InOneList
  <1> QED BY <1>1, <1>9

-----------------------------------------------------------------------------
(* What the steps of a user change.                                        *)

LEMMA UsersTask ==
    ASSUME KbdType
    PROVE  /\ \A t, v \in F!KThread : UserOf(t) = UserOf(v) => t = v
           /\ \A u \in F!User : (IF u = Handler THEN host # NoTask ELSE u # host) =>
                 F!TaskOf(u) \in F!KThread /\ UserOf(F!TaskOf(u)) = u
  BY KbdFacts DEF KbdType, UserOf, F!TaskOf

\* A user that may run waits nowhere.
LEMMA Runs ==
    ASSUME KbdType, InOneList(Sleepers, wakes, asleep),
           NEW u \in F!User, NEW p, F!At(u, p), u = Handler => p # "out"
    PROVE  /\ kpc[u] = p /\ F!TaskOf(u) \in F!KThread /\ F!TaskOf(u) \notin asleep
           /\ UserOf(F!TaskOf(u)) = u
           /\ \A s \in F!Sema, t \in F!KThread : Has(waiter[s], t) => t \in asleep /\ UserOf(t) # u
           /\ \A s \in F!Sema : ~ Waits(s, u)
  <1>1. kpc[u] = p /\ F!TaskOf(u) \notin asleep /\ IF u = Handler THEN host # NoTask ELSE u # host
    BY DEF F!At, KbdType
  <1>2. F!TaskOf(u) \in F!KThread /\ UserOf(F!TaskOf(u)) = u
    BY <1>1, UsersTask
  <1>3. ASSUME NEW s \in F!Sema, NEW t \in F!KThread, Has(waiter[s], t)
        PROVE  t \in asleep /\ UserOf(t) # u
    <2>1. s \in Lists /\ s # "mutex"
      BY KbdFacts DEF Lists
    <2>2. Has(Sleepers[s], t)
      BY <1>3, <2>1 DEF Sleepers
    <2>3. t \in asleep
      BY <2>1, <2>2 DEF InOneList
    <2> QED BY <2>3, <1>1, <1>2, UsersTask
  <1> QED BY <1>1, <1>2, <1>3 DEF Waits

LEMMA SemaSides ==
    ASSUME NEW u \in F!User
    PROVE  \E s, z \in F!Sema :
              /\ s # z /\ F!Sema = {s, z} /\ u \in Downs(s) /\ u \in Ups(z)
              /\ u \notin Downs(z) /\ u \notin Ups(s)
              /\ s = (IF u \in F!Putter THEN "empty" ELSE "full")
              /\ z = (IF u \in F!Putter THEN "full" ELSE "empty")
  <1>1. CASE u \in F!Putter
    <2>1. "empty" # "full"
      OBVIOUS
    <2> QED BY <1>1, <2>1, KbdFacts DEF Downs, Ups
  <1>2. CASE u \notin F!Putter
    <2>1. "empty" # "full"
      OBVIOUS
    <2> QED BY <1>2, <2>1, KbdFacts DEF Downs, Ups
  <1> QED BY <1>1, <1>2

\* semaphore_down on s,
DownOn(u, s) ==
    /\ F!At(u, "down") /\ kpc' = [kpc EXCEPT ![u] = "lock"]
    /\ \/ /\ counter[s] > 0 /\ counter' = [counter EXCEPT ![s] = @ - 1]
          /\ waiter' = waiter /\ asleep' = asleep
       \/ /\ waiter' = [waiter EXCEPT ![s] = Append(@, F!TaskOf(u))]
          /\ asleep' = asleep \cup {F!TaskOf(u)} /\ counter' = counter
    /\ UNCHANGED <<buffer, khead, ktail, result, locked, wait_list, host, data, wakes>>

\* semaphore_up on it,
UpOn(u, s) ==
    /\ F!At(u, "up") /\ kpc' = [kpc EXCEPT ![u] = "out"]
    /\ \/ /\ waiter[s] = << >> /\ counter' = [counter EXCEPT ![s] = @ + 1]
          /\ waiter' = waiter /\ asleep' = asleep
       \/ /\ waiter[s] # << >> /\ waiter' = [waiter EXCEPT ![s] = Tail(@)]
          /\ asleep' = asleep \ {Head(waiter[s])} /\ counter' = counter
    /\ host' = IF u = Handler THEN NoTask ELSE host
    /\ UNCHANGED <<buffer, khead, ktail, result, locked, wait_list, data, wakes>>

\* and the accesses to the mutex and to the ring between them.
Between(u) ==
    \E p \in {"lock", "move", "wrap", "unlock", "wake"}, q \in {"lock", "move", "wrap", "unlock", "wake", "up"} :
        /\ F!At(u, p) /\ kpc' = [kpc EXCEPT ![u] = q]
        /\ p = "lock" <=> q \in {"lock", "move"}
        /\ p = "move" <=> q = "wrap"
        /\ counter' = counter /\ waiter' = waiter /\ host' = host

LEMMA DownIs ==
    ASSUME NEW u \in F!User, NEW s \in F!Sema, u \in Downs(s), F!Down(u) PROVE DownOn(u, s)
  <1>1. s = IF u \in F!Putter THEN "empty" ELSE "full"
    BY KbdFacts DEF Downs
  <1> QED BY <1>1 DEF F!Down, DownOn, F!Goto, F!ring, F!mutex

LEMMA UpIs ==
    ASSUME NEW u \in F!User, NEW s \in F!Sema, u \in Ups(s), F!Up(u) PROVE UpOn(u, s)
  <1>1. s = IF u \in F!Putter THEN "full" ELSE "empty"
    BY KbdFacts DEF Ups
  <1> QED BY <1>1 DEF F!Up, UpOn, F!Goto, F!ring, F!mutex

LEMMA BetweenIs ==
    ASSUME KbdType, NEW u \in F!User,
           F!Lock(u) \/ F!Move(u) \/ F!Wrap(u) \/ F!Unlock(u) \/ F!Wake(u)
    PROVE  Between(u)
  <1>0. kpc[u] = "lock" => kpc = [kpc EXCEPT ![u] = "lock"]
    BY DEF KbdType
  <1>1. CASE F!Lock(u)
    BY <1>0, <1>1 DEF F!Lock, Between, F!Goto, F!semas, F!At
  <1>2. CASE F!Move(u)
    BY <1>2 DEF F!Move, Between, F!Goto, F!semas
  <1>3. CASE F!Wrap(u)
    BY <1>3 DEF F!Wrap, Between, F!Goto, F!semas
  <1>4. CASE F!Unlock(u)
    BY <1>4 DEF F!Unlock, Between, F!Goto, F!semas
  <1>5. CASE F!Wake(u)
    BY <1>5 DEF F!Wake, Between, F!Goto, F!semas
  <1> QED BY <1>1, <1>2, <1>3, <1>4, <1>5

LEMMA ListsKept ==
    ASSUME KbdType, InOneList(Sleepers, wakes, asleep), NEW u \in F!User, F!Step(u)
    PROVE  InOneList(Sleepers, wakes, asleep)'
  <1>1. PICK s \in F!Sema, z \in F!Sema : s # z /\ u \in Downs(s) /\ u \in Ups(z)
    BY SemaSides
  <1>2. s \in Lists /\ z \in Lists /\ s # "mutex" /\ z # "mutex" /\ "mutex" \in Lists
    BY KbdFacts DEF Lists
  <1>3. /\ Sleepers[s] = waiter[s] /\ Sleepers[z] = waiter[z] /\ Sleepers["mutex"] = wait_list
        /\ waiter \in [F!Sema -> Seq(F!KThread)]
    BY <1>2 DEF Sleepers, KbdType
  <1>4. CASE F!Down(u)
    <2>1. DownOn(u, s)
      BY <1>1, <1>4, DownIs
    <2>2. F!TaskOf(u) \in F!KThread /\ F!TaskOf(u) \notin asleep
      BY <2>1, Runs DEF DownOn
    <2>3. CASE waiter' = waiter /\ asleep' = asleep
      BY <2>1, <2>3 DEF DownOn, Sleepers
    <2>4. CASE waiter' = [waiter EXCEPT ![s] = Append(@, F!TaskOf(u))] /\ asleep' = asleep \cup {F!TaskOf(u)}
      <3>1. wait_list' = wait_list /\ wakes' = wakes
        BY <2>1 DEF DownOn
      <3>2. Sleepers' = [Sleepers EXCEPT ![s] = Append(@, F!TaskOf(u))]
        BY <1>2, <1>3, <2>4, <3>1, KbdFacts DEF Sleepers, Lists
      <3> QED BY <3>1, <3>2, <1>2, <2>2, <2>4, SleepIn
    <2> QED BY <2>1, <2>3, <2>4 DEF DownOn
  <1>5. CASE F!Up(u)
    <2>1. UpOn(u, z)
      BY <1>1, <1>5, UpIs
    <2>2. CASE waiter' = waiter /\ asleep' = asleep
      BY <2>1, <2>2 DEF UpOn, Sleepers
    <2>3. CASE waiter[z] # << >> /\ waiter' = [waiter EXCEPT ![z] = Tail(@)] /\ asleep' = asleep \ {Head(waiter[z])}
      <3>1. wait_list' = wait_list /\ wakes' = wakes
        BY <2>1 DEF UpOn
      <3>2. Sleepers' = Headless(Sleepers, z)
        BY <1>2, <1>3, <2>3, <3>1, KbdFacts DEF Sleepers, Headless, Lists
      <3> QED BY <3>1, <3>2, <1>2, <1>3, <2>3, HeadWoken
    <2> QED BY <2>1, <2>2, <2>3 DEF UpOn
  <1>6. CASE F!Lock(u)
    <2>1. waiter' = waiter /\ wakes' = wakes /\ F!At(u, "lock")
      BY <1>6 DEF F!Lock, F!semas
    <2>2. F!TaskOf(u) \in F!KThread /\ F!TaskOf(u) \notin asleep
      BY <2>1, Runs
    <2>3. CASE wait_list' = wait_list /\ asleep' = asleep
      BY <2>1, <2>3 DEF Sleepers
    <2>4. CASE wait_list' = Append(wait_list, F!TaskOf(u)) /\ asleep' = asleep \cup {F!TaskOf(u)}
      <3>1. Sleepers' = [Sleepers EXCEPT !["mutex"] = Append(@, F!TaskOf(u))]
        BY <1>3, <2>1, <2>4 DEF Sleepers, Lists
      <3> QED BY <3>1, <1>2, <2>1, <2>2, <2>4, SleepIn
    <2> QED BY <1>6, <2>3, <2>4 DEF F!Lock
  <1>7. CASE F!Move(u) \/ F!Wrap(u)
    BY <1>7 DEF F!Move, F!Wrap, F!semas, F!mutex, Sleepers
  <1>8. CASE F!Unlock(u)
    <2>1. waiter' = waiter /\ asleep' = asleep
      BY <1>8 DEF F!Unlock, F!semas
    <2>2. CASE wait_list' = wait_list /\ wakes' = wakes
      BY <2>1, <2>2 DEF Sleepers
    <2>3. CASE wait_list # << >> /\ wait_list' = Tail(wait_list) /\ wakes' = [wakes EXCEPT ![u] = Head(wait_list)]
      <3>1. Sleepers' = Headless(Sleepers, "mutex")
        BY <1>3, <2>1, <2>3 DEF Sleepers, Headless, Lists
      <3> QED BY <3>1, <1>2, <1>3, <2>1, <2>3, HeadTaken
    <2> QED BY <1>8, <2>2, <2>3 DEF F!Unlock
  <1>9. CASE F!Wake(u)
    <2>1. /\ Sleepers' = Sleepers /\ asleep' = asleep \ {wakes[u]}
          /\ wakes' = [wakes EXCEPT ![u] = NoTask]
      BY <1>9 DEF F!Wake, F!semas, F!mutex, Sleepers
    <2> QED BY <2>1, TakenWoken
  <1> QED BY <1>4, <1>5, <1>6, <1>7, <1>8, <1>9 DEF F!Step

\* A step of u to another place, after which nobody else waits.
Passes(u, q) ==
    /\ kpc' = [kpc EXCEPT ![u] = q] /\ (host' = host \/ (u = Handler /\ host' = NoTask))
    /\ \A s \in F!Sema, t \in F!KThread : Has(waiter'[s], t) => Has(waiter[s], t)

LEMMA PassesKeeps ==
    ASSUME KbdType, InOneList(Sleepers, wakes, asleep), WaitersLock,
           NEW u \in F!User, NEW p, F!At(u, p), u = Handler => p # "out", NEW q, Passes(u, q)
    PROVE  /\ WaitersLock'
           /\ \A s \in F!Sema, t \in F!KThread : Has(waiter[s], t) => UserOf(t)' = UserOf(t)
  <1>1. ASSUME NEW s \in F!Sema, NEW t \in F!KThread, Has(waiter[s], t)
        PROVE  UserOf(t)' = UserOf(t) /\ UserOf(t) # u
    <2>1. UserOf(t) # u
      BY <1>1, Runs
    <2>2. CASE host' = host
      BY <2>1, <2>2 DEF UserOf
    <2>3. CASE u = Handler /\ host' = NoTask
      <3>1. t # host /\ t # NoTask
        BY <2>1, <2>3, KbdFacts DEF UserOf
      <3> QED BY <2>1, <2>3, <3>1 DEF UserOf
    <2> QED BY <2>1, <2>2, <2>3 DEF Passes
  <1>2. ASSUME NEW s \in F!Sema, NEW t \in F!KThread, Has(waiter'[s], t)
        PROVE  UserOf(t)' \in Downs(s) /\ kpc'[UserOf(t)'] = "lock"
    <2>1. Has(waiter[s], t)
      BY <1>2 DEF Passes
    <2>2. UserOf(t)' = UserOf(t) /\ UserOf(t) # u /\ UserOf(t) \in Downs(s) /\ kpc[UserOf(t)] = "lock"
      BY <1>1, <2>1 DEF WaitersLock
    <2>3. UserOf(t) \in F!User
      BY <2>2, KbdFacts DEF Downs
    <2> QED BY <2>2, <2>3 DEF Passes, KbdType
  <1>3. WaitersLock'
    BY <1>2 DEF WaitersLock
  <1> QED BY <1>1, <1>3

LEMMA HeadPasses ==
    ASSUME KbdType, NEW z \in F!Sema, OnceIn(waiter[z]), waiter[z] # << >>,
           waiter' = [waiter EXCEPT ![z] = Tail(@)]
    PROVE  /\ Head(waiter[z]) \in F!KThread /\ Has(waiter[z], Head(waiter[z]))
           /\ \A t \in F!KThread : Has(waiter'[z], t) <=> (Has(waiter[z], t) /\ t # Head(waiter[z]))
           /\ \A s \in F!Sema : s # z => waiter'[s] = waiter[s]
  <1>1. waiter[z] \in Seq(F!KThread)
    BY DEF KbdType
  <1>2. waiter'[z] = Tail(waiter[z]) /\ \A s \in F!Sema : s # z => waiter'[s] = waiter[s]
    BY DEF KbdType
  <1> QED BY <1>1, <1>2, HeadLeaves

LEMMA LastWaits ==
    ASSUME KbdType, InOneList(Sleepers, wakes, asleep), NEW s \in F!Sema,
           NEW u \in F!User, F!At(u, "down"),
           waiter' = [waiter EXCEPT ![s] = Append(@, F!TaskOf(u))]
    PROVE  /\ \A t \in F!KThread : Has(waiter'[s], t) <=> (Has(waiter[s], t) \/ t = F!TaskOf(u))
           /\ \A x \in F!Sema : x # s => waiter'[x] = waiter[x]
  <1>1. F!TaskOf(u) \in F!KThread /\ F!TaskOf(u) \notin asleep
    BY Runs
  <1>2. s \in Lists /\ Sleepers[s] = waiter[s]
    BY KbdFacts DEF Lists, Sleepers
  <1>3. waiter[s] \in Seq(F!KThread) /\ OnceIn(waiter[s]) /\ ~ Has(waiter[s], F!TaskOf(u))
    BY <1>1, <1>2 DEF InOneList
  <1>4. waiter'[s] = Append(waiter[s], F!TaskOf(u)) /\ \A x \in F!Sema : x # s => waiter'[x] = waiter[x]
    BY DEF KbdType
  <1> QED BY <1>1, <1>3, <1>4, AddLast

LEMMA WaitersKept ==
    ASSUME KbdType, InOneList(Sleepers, wakes, asleep), WaitersLock, NEW u \in F!User, F!Step(u)
    PROVE  WaitersLock'
  <1>1. PICK s \in F!Sema, z \in F!Sema : s # z /\ F!Sema = {s, z} /\ u \in Downs(s) /\ u \in Ups(z)
    BY SemaSides
  <1>2. CASE F!Down(u)
    <2>1. DownOn(u, s)
      BY <1>1, <1>2, DownIs
    <2>2. CASE waiter' = waiter
      <3>1. Passes(u, "lock") /\ F!At(u, "down")
        BY <2>1, <2>2 DEF Passes, DownOn
      <3> QED BY <3>1, PassesKeeps
    <2>3. CASE waiter' = [waiter EXCEPT ![s] = Append(@, F!TaskOf(u))]
      <3>1. /\ F!TaskOf(u) \in F!KThread /\ UserOf(F!TaskOf(u)) = u
            /\ kpc' = [kpc EXCEPT ![u] = "lock"] /\ host' = host
        BY <2>1, Runs DEF DownOn
      <3>2. ASSUME NEW x \in F!Sema, NEW t \in F!KThread, Has(waiter'[x], t)
            PROVE  UserOf(t)' \in Downs(x) /\ kpc'[UserOf(t)'] = "lock"
        <4>1. UserOf(t)' = UserOf(t)
          BY <3>1 DEF UserOf
        <4>2. CASE Has(waiter[x], t)
          <5>1. UserOf(t) \in Downs(x) /\ kpc[UserOf(t)] = "lock"
            BY <4>2 DEF WaitersLock
          <5>2. UserOf(t) \in F!User
            BY <5>1, KbdFacts DEF Downs
          <5> QED BY <4>1, <5>1, <5>2, <3>1 DEF KbdType
        <4>3. CASE ~ Has(waiter[x], t)
          <5>1. x = s /\ t = F!TaskOf(u)
            BY <2>1, <2>3, <3>2, <4>3, LastWaits DEF DownOn
          <5> QED BY <4>1, <5>1, <3>1, <1>1 DEF KbdType
        <4> QED BY <4>2, <4>3
      <3> QED BY <3>2 DEF WaitersLock
    <2> QED BY <2>1, <2>2, <2>3 DEF DownOn
  <1>3. CASE F!Up(u)
    <2>1. UpOn(u, z)
      BY <1>1, <1>3, UpIs
    <2>2. \A x \in F!Sema, t \in F!KThread : Has(waiter'[x], t) => Has(waiter[x], t)
      <3>1. CASE waiter' = waiter
        BY <3>1
      <3>2. CASE waiter[z] # << >> /\ waiter' = [waiter EXCEPT ![z] = Tail(@)]
        <4>1. z \in Lists /\ Sleepers[z] = waiter[z]
          BY KbdFacts DEF Lists, Sleepers
        <4>2. OnceIn(waiter[z])
          BY <4>1 DEF InOneList
        <4> QED BY <3>2, <4>2, HeadPasses
      <3> QED BY <2>1, <3>1, <3>2 DEF UpOn
    <2>3. Passes(u, "out") /\ F!At(u, "up")
      BY <2>1, <2>2 DEF Passes, UpOn
    <2> QED BY <2>3, PassesKeeps
  <1>4. CASE F!Lock(u) \/ F!Move(u) \/ F!Wrap(u) \/ F!Unlock(u) \/ F!Wake(u)
    <2>1. Between(u)
      BY <1>4, BetweenIs
    <2>2. \E p, q : p # "out" /\ Passes(u, q) /\ F!At(u, p)
      BY <2>1 DEF Between, Passes
    <2> QED BY <2>2, PassesKeeps
  <1> QED BY <1>2, <1>3, <1>4 DEF F!Step

LEMMA RingKept ==
    ASSUME KbdType, OneAtRing, NEW u \in F!User, F!Step(u)
    PROVE  OneAtRing'
  <1>1. ASSUME NEW q, kpc' = [kpc EXCEPT ![u] = q], q \notin AtRing, locked' = locked
        PROVE  OneAtRing'
    BY <1>1 DEF OneAtRing, KbdType
  <1>2. CASE F!Down(u) \/ F!Up(u) \/ F!Wake(u)
    BY <1>1, <1>2 DEF F!Down, F!Up, F!Wake, F!Goto, F!mutex, AtRing
  <1>3. CASE F!Lock(u)
    <2>1. CASE ~ locked
      <3>1. locked' = TRUE /\ kpc' = [kpc EXCEPT ![u] = "move"]
        BY <1>3, <2>1 DEF F!Lock, F!Goto
      <3>2. \A v \in F!User : kpc[v] \notin AtRing
        BY <2>1 DEF OneAtRing
      <3>3. \A v \in F!User : v # u => kpc'[v] \notin AtRing
        BY <3>1, <3>2 DEF KbdType
      <3> QED BY <3>1, <3>3 DEF OneAtRing
    <2>2. CASE locked
      BY <1>3, <2>2 DEF F!Lock, OneAtRing
    <2> QED BY <2>1, <2>2
  <1>4. CASE F!Move(u) \/ F!Wrap(u)
    <2>1. kpc[u] \in AtRing /\ locked' = locked /\ \E q : kpc' = [kpc EXCEPT ![u] = q]
      BY <1>4 DEF F!Move, F!Wrap, F!At, F!Goto, F!mutex, AtRing
    <2>2. locked /\ \A v \in F!User : v # u => kpc[v] \notin AtRing
      BY <2>1 DEF OneAtRing
    <2>3. \A v \in F!User : v # u => kpc'[v] \notin AtRing
      BY <2>1, <2>2 DEF KbdType
    <2> QED BY <2>1, <2>2, <2>3 DEF OneAtRing
  <1>5. CASE F!Unlock(u)
    <2>1. kpc[u] \in AtRing /\ \E q : kpc' = [kpc EXCEPT ![u] = q] /\ q \notin AtRing
      BY <1>5 DEF F!Unlock, F!At, F!Goto, AtRing
    <2>2. \A v \in F!User : v # u => kpc[v] \notin AtRing
      BY <2>1 DEF OneAtRing
    <2>3. \A v \in F!User : kpc'[v] \notin AtRing
      BY <2>1, <2>2 DEF KbdType
    <2> QED BY <2>3 DEF OneAtRing
  <1> QED BY <1>2, <1>3, <1>4, <1>5 DEF F!Step

-----------------------------------------------------------------------------
(* The units of the two semaphores.                                        *)

LEMMA UnitSets ==
    ASSUME NEW s \in F!Sema
    PROVE  /\ IsFiniteSet(Holders(s)) /\ Cardinality(Holders(s)) \in Nat
           /\ IsFiniteSet(Owers(s)) /\ Cardinality(Owers(s)) \in Nat
           /\ KbdType => UnitsOf(s) \in Nat /\ counter[s] \in Nat
  <1>1. IsFiniteSet(Downs(s)) /\ IsFiniteSet(Ups(s))
    BY KbdFacts DEF Downs, Ups
  <1>2. IsFiniteSet(Holders(s)) /\ IsFiniteSet(Owers(s))
    BY <1>1, FS_Subset DEF Holders, Owers
  <1>3. Cardinality(Holders(s)) \in Nat /\ Cardinality(Owers(s)) \in Nat
    BY <1>2, FS_CardinalityType
  <1> QED BY <1>2, <1>3 DEF UnitsOf, KbdType

\* Nobody takes or returns a unit of s.
LEMMA UnitsSame ==
    ASSUME NEW s \in F!Sema, Holders(s)' = Holders(s), Owers(s)' = Owers(s), counter'[s] = counter[s]
    PROVE  UnitsOf(s)' = UnitsOf(s)
  BY DEF UnitsOf

LEMMA WaitsSame ==
    ASSUME KbdType, InOneList(Sleepers, wakes, asleep), WaitersLock,
           NEW u \in F!User, NEW p, F!At(u, p), u = Handler => p # "out", NEW q, Passes(u, q),
           NEW s \in F!Sema, waiter'[s] = waiter[s]
    PROVE  \A v : Waits(s, v)' <=> Waits(s, v)
  <1>1. \A t \in F!KThread : Has(waiter[s], t) => UserOf(t)' = UserOf(t)
    BY PassesKeeps
  <1>2. \A t \in F!KThread : Has(waiter[s], t)' <=> Has(waiter[s], t)
    BY DEF Has
  <1> QED BY <1>1, <1>2 DEF Waits

\* semaphore_down: the unit it takes off the counter is the user's.
LEMMA DownUnits ==
    ASSUME KbdType, InOneList(Sleepers, wakes, asleep), WaitersLock,
           NEW u \in F!User, NEW s \in F!Sema, NEW z \in F!Sema, s # z,
           u \in Downs(s), u \notin Downs(z), DownOn(u, s)
    PROVE  UnitsOf(s)' = UnitsOf(s) /\ UnitsOf(z)' = UnitsOf(z)
  <1>1. /\ kpc[u] = "down" /\ ~ Waits(s, u) /\ kpc'[u] = "lock" /\ host' = host
        /\ \A v \in F!User : v # u => kpc'[v] = kpc[v]
    BY Runs DEF DownOn, KbdType
  <1>2. Downs(s) \subseteq F!User /\ Downs(z) \subseteq F!User /\ Ups(s) \subseteq F!User /\ Ups(z) \subseteq F!User
    BY KbdFacts DEF Downs, Ups
  <1>3. Owers(s)' = Owers(s) /\ Owers(z)' = Owers(z)
    BY <1>1, <1>2 DEF Owers, Ups
  <1>4. CASE counter[s] > 0 /\ counter' = [counter EXCEPT ![s] = @ - 1] /\ waiter' = waiter
    <2>1. Passes(u, "lock")
      BY <1>4 DEF Passes, DownOn
    <2>2. \A x \in F!Sema, v \in F!User : Waits(x, v)' <=> Waits(x, v)
      BY <1>4, <2>1, WaitsSame DEF DownOn
    <2>3. Holders(z)' = Holders(z)
      BY <1>1, <1>2, <2>2 DEF Holders, Downs
    <2>4. Holders(s)' = Holders(s) \cup {u} /\ u \notin Holders(s)
      BY <1>1, <1>2, <2>2 DEF Holders, Downs
    <2>5. Cardinality(Holders(s)') = Cardinality(Holders(s)) + 1
      BY <2>4, UnitSets, FS_AddElement
    <2>6. counter'[s] = counter[s] - 1 /\ counter'[z] = counter[z]
      BY <1>4 DEF KbdType
    <2>7. UnitsOf(s)' = UnitsOf(s)
      <3>1. counter[s] \in Nat /\ Cardinality(Holders(s)) \in Nat /\ Cardinality(Owers(s)) \in Nat
        BY UnitSets
      <3> QED BY <1>3, <2>5, <2>6, <3>1 DEF UnitsOf
    <2> QED BY <1>3, <2>3, <2>6, <2>7, UnitsSame
  <1>5. CASE waiter' = [waiter EXCEPT ![s] = Append(@, F!TaskOf(u))] /\ counter' = counter
    <2>1. /\ \A t \in F!KThread : Has(waiter'[s], t) <=> (Has(waiter[s], t) \/ t = F!TaskOf(u))
          /\ waiter'[z] = waiter[z]
      BY <1>5, LastWaits DEF DownOn
    <2>2. /\ \A t \in F!KThread : UserOf(t)' = UserOf(t)
          /\ F!TaskOf(u) \in F!KThread /\ UserOf(F!TaskOf(u)) = u
      BY <1>1, Runs DEF UserOf, DownOn
    <2>3. \A v \in F!User : /\ Waits(s, v)' <=> (Waits(s, v) \/ v = u)
                            /\ Waits(z, v)' <=> Waits(z, v)
      <3>1. \A t \in F!KThread : Has(waiter[s], t)' <=> (Has(waiter[s], t) \/ t = F!TaskOf(u))
        BY <2>1 DEF Has
      <3>2. \A t \in F!KThread : Has(waiter[z], t)' <=> Has(waiter[z], t)
        BY <2>1 DEF Has
      <3> QED BY <3>1, <3>2, <2>2 DEF Waits
    <2>4. Holders(s)' = Holders(s) /\ Holders(z)' = Holders(z)
      BY <1>1, <1>2, <2>3 DEF Holders, Downs
    <2> QED BY <1>3, <1>5, <2>4, UnitsSame
  <1> QED BY <1>4, <1>5 DEF DownOn

\* semaphore_up: the unit the user owes goes to the head of the waiters or to
\* the counter.
LEMMA UpUnits ==
    ASSUME KbdType, InOneList(Sleepers, wakes, asleep), WaitersLock,
           NEW u \in F!User, NEW s \in F!Sema, NEW z \in F!Sema, s # z,
           u \in Ups(z), u \notin Ups(s), u \notin Downs(z), UpOn(u, z)
    PROVE  UnitsOf(s)' = UnitsOf(s) /\ UnitsOf(z)' = UnitsOf(z)
  <1>1. /\ kpc[u] = "up" /\ kpc'[u] = "out" /\ F!At(u, "up")
        /\ \A v \in F!User : v # u => kpc'[v] = kpc[v]
    BY DEF UpOn, KbdType, F!At
  <1>2. Downs(s) \subseteq F!User /\ Downs(z) \subseteq F!User /\ Ups(s) \subseteq F!User /\ Ups(z) \subseteq F!User
    BY KbdFacts DEF Downs, Ups
  <1>3. Owers(s)' = Owers(s) /\ Owers(z)' = Owers(z) \ {u} /\ u \in Owers(z)
    BY <1>1, <1>2 DEF Owers, Ups
  <1>4. Cardinality(Owers(z)') = Cardinality(Owers(z)) - 1
    BY <1>3, UnitSets, FS_RemoveElement
  <1>5. CASE counter' = [counter EXCEPT ![z] = @ + 1] /\ waiter' = waiter
    <2>1. Passes(u, "out")
      BY <1>5 DEF Passes, UpOn
    <2>2. \A x \in F!Sema, v \in F!User : Waits(x, v)' <=> Waits(x, v)
      BY <1>1, <1>5, <2>1, WaitsSame
    <2>3. Holders(s)' = Holders(s) /\ Holders(z)' = Holders(z)
      BY <1>1, <1>2, <2>2 DEF Holders, Downs
    <2>4. counter'[z] = counter[z] + 1 /\ counter'[s] = counter[s]
      BY <1>5 DEF KbdType
    <2>5. UnitsOf(z)' = UnitsOf(z)
      <3>1. counter[z] \in Nat /\ Cardinality(Holders(z)) \in Nat /\ Cardinality(Owers(z)) \in Nat
        BY UnitSets
      <3> QED BY <1>4, <2>3, <2>4, <3>1 DEF UnitsOf
    <2> QED BY <1>3, <2>3, <2>4, <2>5, UnitsSame
  <1>6. CASE waiter[z] # << >> /\ waiter' = [waiter EXCEPT ![z] = Tail(@)] /\ counter' = counter
    <2>1. PICK h : h = Head(waiter[z])
      OBVIOUS
    <2>2. OnceIn(waiter[z])
      <3>1. z \in Lists /\ Sleepers[z] = waiter[z]
        BY KbdFacts DEF Lists, Sleepers
      <3> QED BY <3>1 DEF InOneList
    <2>3. /\ h \in F!KThread /\ Has(waiter[z], h) /\ waiter'[s] = waiter[s]
          /\ \A t \in F!KThread : Has(waiter'[z], t) <=> (Has(waiter[z], t) /\ t # h)
      BY <1>6, <2>1, <2>2, HeadPasses
    <2>4. Passes(u, "out")
      <3>1. F!Sema = {s, z}
        BY KbdFacts
      <3> QED BY <3>1, <2>3 DEF Passes, UpOn
    <2>5. \A t \in F!KThread : Has(waiter[z], t) => UserOf(t)' = UserOf(t)
      BY <1>1, <2>4, PassesKeeps
    <2>6. /\ UserOf(h) \in Downs(z) /\ kpc[UserOf(h)] = "lock" /\ UserOf(h) # u
          /\ \A t \in F!KThread : UserOf(t) = UserOf(h) => t = h
      BY <2>3, UsersTask DEF WaitersLock
    <2>7. \A v \in F!User : Waits(z, v)' <=> (Waits(z, v) /\ v # UserOf(h))
      <3>1. \A t \in F!KThread : Has(waiter[z], t)' <=> (Has(waiter[z], t) /\ t # h)
        BY <2>3 DEF Has
      <3> QED BY <3>1, <2>5, <2>6 DEF Waits
    <2>8. \A v \in F!User : Waits(s, v)' <=> Waits(s, v)
      BY <1>1, <2>3, <2>4, WaitsSame
    <2>9. Waits(z, UserOf(h))
      BY <2>3 DEF Waits
    <2>10. Holders(s)' = Holders(s)
      BY <1>1, <1>2, <2>8 DEF Holders, Downs
    <2>11. Holders(z)' = Holders(z) \cup {UserOf(h)} /\ UserOf(h) \notin Holders(z)
      BY <1>1, <1>2, <2>6, <2>7, <2>9 DEF Holders, Downs
    <2>12. Cardinality(Holders(z)') = Cardinality(Holders(z)) + 1
      BY <2>11, UnitSets, FS_AddElement
    <2>13. UnitsOf(z)' = UnitsOf(z)
      <3>1. counter'[z] = counter[z] /\ counter[z] \in Nat
        BY <1>6, UnitSets
      <3>2. Cardinality(Holders(z)) \in Nat /\ Cardinality(Owers(z)) \in Nat
        BY UnitSets
      <3> QED BY <1>4, <2>12, <3>1, <3>2 DEF UnitsOf
    <2> QED BY <1>3, <1>6, <2>10, <2>13, UnitsSame
  <1> QED BY <1>5, <1>6 DEF UpOn

\* The move makes of a unit held of one semaphore a unit owed of the other.
LEMMA BetweenUnits ==
    ASSUME KbdType, InOneList(Sleepers, wakes, asleep), WaitersLock,
           NEW u \in F!User, NEW s \in F!Sema, NEW z \in F!Sema, s # z,
           u \in Downs(s), u \notin Downs(z), u \in Ups(z), u \notin Ups(s), Between(u)
    PROVE  /\ kpc[u] # "move" => UnitsOf(s)' = UnitsOf(s) /\ UnitsOf(z)' = UnitsOf(z)
           /\ kpc[u] = "move" => /\ UnitsOf(s)' = UnitsOf(s) - 1 /\ UnitsOf(z)' = UnitsOf(z) + 1
                                 /\ UnitsOf(s) > 0
  <1>1. PICK p \in {"lock", "move", "wrap", "unlock", "wake"},
             q \in {"lock", "move", "wrap", "unlock", "wake", "up"} :
            /\ F!At(u, p) /\ kpc' = [kpc EXCEPT ![u] = q]
            /\ p = "lock" <=> q \in {"lock", "move"}
            /\ p = "move" <=> q = "wrap"
            /\ counter' = counter /\ waiter' = waiter /\ host' = host
    BY DEF Between
  <1>2. kpc[u] = p /\ kpc'[u] = q /\ \A v \in F!User : v # u => kpc'[v] = kpc[v]
    BY <1>1 DEF F!At, KbdType
  <1>3. Downs(s) \subseteq F!User /\ Downs(z) \subseteq F!User /\ Ups(s) \subseteq F!User /\ Ups(z) \subseteq F!User
    BY KbdFacts DEF Downs, Ups
  <1>4. Passes(u, q) /\ p # "out"
    BY <1>1 DEF Passes
  <1>5. \A x \in F!Sema, v \in F!User : Waits(x, v)' <=> Waits(x, v)
    BY <1>1, <1>4, WaitsSame
  <1>6. Holders(z)' = Holders(z) /\ Owers(s)' = Owers(s)
    <2>1. /\ \A v \in Downs(z) : kpc'[v] = kpc[v]
          /\ \A v \in Ups(s) : kpc'[v] = kpc[v]
      BY <1>2, <1>3
    <2>2. \A v \in Downs(z) : Waits(z, v)' <=> Waits(z, v)
      BY <1>3, <1>5
    <2>3. Downs(z)' = Downs(z) /\ Ups(s)' = Ups(s)
      BY DEF Downs, Ups
    <2> QED BY ONLY <2>1, <2>2, <2>3 DEF Holders, Owers
  <1>7. CASE p = "move"
    <2>1. ~ Waits(s, u)
      BY <1>1, <1>4, Runs
    <2>2. Holders(s)' = Holders(s) \ {u} /\ u \in Holders(s)
      BY <1>1, <1>2, <1>3, <1>5, <1>7, <2>1 DEF Holders, Downs
    <2>3. Owers(z)' = Owers(z) \cup {u} /\ u \notin Owers(z)
      BY <1>1, <1>2, <1>3, <1>7 DEF Owers, Ups
    <2>4. Cardinality(Holders(s)') = Cardinality(Holders(s)) - 1 /\ Holders(s) # {}
      BY <2>2, UnitSets, FS_RemoveElement
    <2>5. Cardinality(Owers(z)') = Cardinality(Owers(z)) + 1
      BY <2>3, UnitSets, FS_AddElement
    <2>6. Cardinality(Holders(s)) > 0
      BY <2>4, UnitSets, FS_EmptySet
    <2>7. UnitsOf(s)' = UnitsOf(s) - 1 /\ UnitsOf(z)' = UnitsOf(z) + 1 /\ UnitsOf(s) > 0
      <3>1. counter' = counter /\ counter[s] \in Nat /\ counter[z] \in Nat
        BY <1>1, UnitSets
      <3>2. /\ Cardinality(Holders(s)) \in Nat /\ Cardinality(Owers(s)) \in Nat
            /\ Cardinality(Holders(z)) \in Nat /\ Cardinality(Owers(z)) \in Nat
        BY UnitSets
      <3> QED BY <1>6, <2>4, <2>5, <2>6, <3>1, <3>2 DEF UnitsOf
    <2> QED BY <1>2, <1>7, <2>7
  <1>8. CASE p # "move"
    <2>1. Holders(s)' = Holders(s)
      BY <1>1, <1>2, <1>3, <1>5, <1>8 DEF Holders, Downs
    <2>2. Owers(z)' = Owers(z)
      BY <1>1, <1>2, <1>3, <1>8 DEF Owers, Ups
    <2> QED BY <1>1, <1>2, <1>6, <1>8, <2>1, <2>2, UnitsSame
  <1> QED BY <1>7, <1>8

-----------------------------------------------------------------------------
(* The bytes between tail and head.                                        *)

\* At the move there is a byte to take or a place to fill, and no place is behind
\* the end.
LEMMA AtMove ==
    ASSUME KbdInv, NEW u \in F!User, F!At(u, "move")
    PROVE  /\ khead \in 0 .. Size - 1 /\ ktail \in 0 .. Size - 1
           /\ u \in Reader => UnitsOf("full") > 0
           /\ u \in F!Putter => UnitsOf("full") < Size
  <1>1. kpc[u] = "move" /\ \A s \in F!Sema : ~ Waits(s, u)
    BY Runs DEF KbdInv
  <1>2. \A v \in F!User : kpc[v] # "wrap"
    BY <1>1 DEF KbdInv, OneAtRing, AtRing
  <1>3. khead # Size /\ ktail # Size
    BY <1>2, KbdFacts DEF KbdInv, BytesBetween, WrapOpen
  <1>4. khead \in 0 .. Size - 1 /\ ktail \in 0 .. Size - 1
    BY <1>3, KbdFacts DEF KbdInv, KbdType
  <1>5. ASSUME NEW s \in F!Sema, u \in Downs(s) PROVE UnitsOf(s) > 0
    <2>1. u \in Holders(s)
      BY <1>1, <1>5 DEF Holders
    <2>2. Cardinality(Holders(s)) # 0
      BY <2>1, UnitSets, FS_EmptySet
    <2>3. Cardinality(Holders(s)) \in Nat /\ Cardinality(Owers(s)) \in Nat /\ counter[s] \in Nat
      BY UnitSets DEF KbdInv
    <2> QED BY <2>2, <2>3 DEF UnitsOf
  <1>6. UnitsOf("empty") \in Nat /\ UnitsOf("full") \in Nat /\ UnitsOf("empty") + UnitsOf("full") = Size
    BY UnitSets, KbdFacts DEF KbdInv
  <1>7. CASE u \in Reader
    <2>1. "full" \in F!Sema /\ u \in Downs("full")
      BY <1>7, KbdFacts DEF Downs
    <2> QED BY <2>1, <1>4, <1>5, <1>7, KbdFacts
  <1>8. CASE u \in F!Putter
    <2>1. "empty" \in F!Sema /\ u \in Downs("empty")
      BY <1>8, KbdFacts DEF Downs
    <2> QED BY <2>1, <1>4, <1>5, <1>6, <1>8, KbdFacts
  <1> QED BY <1>7, <1>8, KbdFacts

\* fifo_io_put stores its byte behind the others,
PutsByte(u) ==
    /\ buffer' = [buffer EXCEPT ![khead] = data[u]] /\ khead' = khead + 1 /\ ktail' = ktail
    /\ result' = <<data[u]>> /\ UnitsOf("full")' = UnitsOf("full") + 1

\* fifo_io_get takes the first,
TakesByte(u) ==
    /\ buffer' = buffer /\ khead' = khead /\ ktail' = ktail + 1
    /\ result' = <<buffer[ktail]>> /\ UnitsOf("full")' = UnitsOf("full") - 1

\* and nothing else changes what the ring holds.
KeepsBytes ==
    /\ buffer' = buffer /\ result' = result /\ UnitsOf("full")' = UnitsOf("full")
    /\ F!Back(khead)' = F!Back(khead) /\ F!Back(ktail)' = F!Back(ktail)

LEMMA ByteMoves ==
    ASSUME KbdInv, NEW u \in F!User, F!Move(u)
    PROVE  /\ (u \in F!Putter /\ PutsByte(u)) \/ (u \in Reader /\ TakesByte(u))
           /\ F!At(u, "move") /\ kpc'[u] = "wrap"
           /\ UnitsOf("empty")' + UnitsOf("full")' = Size
  <1>1. F!At(u, "move") /\ kpc[u] = "move" /\ kpc' = [kpc EXCEPT ![u] = "wrap"]
    BY DEF F!Move, F!At, F!Goto
  <1>2. kpc'[u] = "wrap"
    BY <1>1 DEF KbdInv, KbdType
  <1>3. Between(u)
    BY BetweenIs DEF KbdInv
  <1>4. UnitsOf("empty") \in Nat /\ UnitsOf("full") \in Nat /\ UnitsOf("empty") + UnitsOf("full") = Size
    BY UnitSets, KbdFacts DEF KbdInv
  <1>5. CASE u \in F!Putter
    <2>1. /\ "empty" \in F!Sema /\ "full" \in F!Sema /\ "empty" # "full"
          /\ u \in Downs("empty") /\ u \notin Downs("full") /\ u \in Ups("full") /\ u \notin Ups("empty")
      BY <1>5, KbdFacts DEF Downs, Ups
    <2>2. UnitsOf("empty")' = UnitsOf("empty") - 1 /\ UnitsOf("full")' = UnitsOf("full") + 1
      BY <1>1, <1>3, <2>1, BetweenUnits DEF KbdInv
    <2>3. PutsByte(u)
      BY <1>5, <2>2 DEF PutsByte, F!Move
    <2> QED BY <1>1, <1>2, <1>4, <1>5, <2>2, <2>3
  <1>6. CASE u \in Reader
    <2>1. /\ "empty" \in F!Sema /\ "full" \in F!Sema /\ "empty" # "full"
          /\ u \in Downs("full") /\ u \notin Downs("empty") /\ u \in Ups("empty") /\ u \notin Ups("full")
      BY <1>6, KbdFacts DEF Downs, Ups
    <2>2. UnitsOf("full")' = UnitsOf("full") - 1 /\ UnitsOf("empty")' = UnitsOf("empty") + 1
      BY <1>1, <1>3, <2>1, BetweenUnits DEF KbdInv
    <2>3. u \notin F!Putter
      BY <1>6, KbdFacts
    <2>4. TakesByte(u)
      BY <2>2, <2>3 DEF TakesByte, F!Move
    <2> QED BY <1>1, <1>2, <1>4, <1>6, <2>2, <2>4
  <1> QED BY <1>5, <1>6, KbdFacts

LEMMA ByteStays ==
    ASSUME KbdInv, NEW u \in F!User,
           F!Down(u) \/ F!Lock(u) \/ F!Wrap(u) \/ F!Unlock(u) \/ F!Wake(u) \/ F!Up(u)
    PROVE  KeepsBytes /\ WrapOpen' /\ UnitsOf("empty")' + UnitsOf("full")' = Size
  <1>1. PICK s \in F!Sema, z \in F!Sema :
            /\ s # z /\ F!Sema = {s, z} /\ u \in Downs(s) /\ u \in Ups(z)
            /\ u \notin Downs(z) /\ u \notin Ups(s)
    BY SemaSides
  <1>2. "empty" \in {s, z} /\ "full" \in {s, z} /\ UnitsOf("empty") + UnitsOf("full") = Size
    BY <1>1, KbdFacts DEF KbdInv
  <1>3. KbdType /\ InOneList(Sleepers, wakes, asleep) /\ WaitersLock /\ OneAtRing /\ WrapOpen
    BY DEF KbdInv, BytesBetween, WrapOpen
  <1>4. CASE F!Down(u)
    <2>1. DownOn(u, s)
      BY <1>1, <1>4, DownIs
    <2>2. UnitsOf(s)' = UnitsOf(s) /\ UnitsOf(z)' = UnitsOf(z)
      BY <1>1, <1>3, <2>1, DownUnits
    <2>3. kpc[u] = "down" /\ \A v \in F!User : v # u => kpc'[v] = kpc[v]
      BY <1>3, <2>1 DEF DownOn, F!At, KbdType
    <2>4. buffer' = buffer /\ result' = result /\ khead' = khead /\ ktail' = ktail
      BY <2>1 DEF DownOn
    <2>5. WrapOpen'
      BY <1>3, <2>3, <2>4, KbdFacts DEF WrapOpen
    <2> QED BY <1>2, <2>2, <2>4, <2>5 DEF KeepsBytes, F!Back
  <1>5. CASE F!Up(u)
    <2>1. UpOn(u, z)
      BY <1>1, <1>5, UpIs
    <2>2. UnitsOf(s)' = UnitsOf(s) /\ UnitsOf(z)' = UnitsOf(z)
      BY <1>1, <1>3, <2>1, UpUnits
    <2>3. kpc[u] = "up" /\ \A v \in F!User : v # u => kpc'[v] = kpc[v]
      BY <1>3, <2>1 DEF UpOn, F!At, KbdType
    <2>4. buffer' = buffer /\ result' = result /\ khead' = khead /\ ktail' = ktail
      BY <2>1 DEF UpOn
    <2>5. WrapOpen'
      BY <1>3, <2>3, <2>4, KbdFacts DEF WrapOpen
    <2> QED BY <1>2, <2>2, <2>4, <2>5 DEF KeepsBytes, F!Back
  <1>6. CASE F!Lock(u) \/ F!Wrap(u) \/ F!Unlock(u) \/ F!Wake(u)
    <2>1. Between(u)
      BY <1>3, <1>6, BetweenIs
    <2>2. kpc[u] \in {"lock", "wrap", "unlock", "wake"}
      BY <1>6 DEF F!Lock, F!Wrap, F!Unlock, F!Wake, F!At
    <2>3. UnitsOf(s)' = UnitsOf(s) /\ UnitsOf(z)' = UnitsOf(z)
      BY <1>1, <1>3, <2>1, <2>2, BetweenUnits
    <2>4. \A v \in F!User : v # u => kpc'[v] = kpc[v]
      BY <1>3, <2>1 DEF Between, KbdType
    <2>5. CASE F!Lock(u) \/ F!Unlock(u) \/ F!Wake(u)
      <3>1. buffer' = buffer /\ result' = result /\ khead' = khead /\ ktail' = ktail /\ kpc[u] # "wrap"
        BY <2>5 DEF F!Lock, F!Unlock, F!Wake, F!ring, F!At
      <3>2. WrapOpen'
        BY <1>3, <2>4, <3>1, KbdFacts DEF WrapOpen
      <3> QED BY <1>2, <2>3, <3>1, <3>2 DEF KeepsBytes, F!Back
    <2>6. CASE F!Wrap(u)
      <3>1. buffer' = buffer /\ result' = result /\ kpc[u] = "wrap"
        BY <2>6 DEF F!Wrap, F!At
      <3>2. \A v \in F!User : kpc[v] = "wrap" => v = u
        BY <1>3, <3>1 DEF OneAtRing, AtRing
      <3>3. \A p \in 0 .. Size : F!Back(p) \in 0 .. Size - 1 /\ F!Back(F!Back(p)) = F!Back(p)
        BY KbdFacts DEF F!Back
      <3>4. khead \in 0 .. Size /\ ktail \in 0 .. Size
        BY <1>3 DEF KbdType
      <3>5. CASE u \in F!Putter
        <4>1. khead' = F!Back(khead) /\ ktail' = ktail
          BY <2>6, <3>5 DEF F!Wrap
        <4>2. khead' # Size /\ ktail # Size
          <5>1. khead' \in 0 .. Size - 1 /\ Size \in Nat
            BY <3>3, <3>4, <4>1, KbdFacts
          <5>2. u \notin Reader
            BY <3>5, KbdFacts
          <5> QED BY <1>3, <3>2, <5>1, <5>2, KbdFacts DEF WrapOpen
        <4>3. F!Back(khead)' = F!Back(khead) /\ F!Back(ktail)' = F!Back(ktail)
          <5>1. F!Back(khead') = F!Back(khead)
            BY <3>3, <3>4, <4>1
          <5> QED BY <5>1, <4>1 DEF F!Back
        <4> QED BY <1>2, <2>3, <3>1, <4>1, <4>2, <4>3 DEF KeepsBytes, WrapOpen
      <3>6. CASE u \in Reader
        <4>1. ktail' = F!Back(ktail) /\ khead' = khead
          BY <2>6, <3>6, KbdFacts DEF F!Wrap
        <4>2. ktail' # Size /\ khead # Size
          <5>1. ktail' \in 0 .. Size - 1 /\ Size \in Nat
            BY <3>3, <3>4, <4>1, KbdFacts
          <5>2. u \notin F!Putter
            BY <3>6, KbdFacts
          <5> QED BY <1>3, <3>2, <5>1, <5>2, KbdFacts DEF WrapOpen
        <4>3. F!Back(khead)' = F!Back(khead) /\ F!Back(ktail)' = F!Back(ktail)
          <5>1. F!Back(ktail') = F!Back(ktail)
            BY <3>3, <3>4, <4>1
          <5> QED BY <5>1, <4>1 DEF F!Back
        <4> QED BY <1>2, <2>3, <3>1, <4>1, <4>2, <4>3 DEF KeepsBytes, WrapOpen
      <3> QED BY <3>5, <3>6, KbdFacts
    <2> QED BY <1>6, <2>5, <2>6
  <1> QED BY <1>4, <1>5, <1>6

LEMMA BetweenKept ==
    ASSUME KbdInv, NEW u \in F!User, F!Step(u)
    PROVE  BytesBetween' /\ UnitsOf("empty")' + UnitsOf("full")' = Size
  <1>1. /\ khead \in 0 .. Size /\ ktail \in 0 .. Size /\ UnitsOf("full") \in 0 .. Size
        /\ F!Back(khead) = RingPlace(F!Back(ktail), UnitsOf("full")) /\ Size \in Nat \ {0}
    BY UnitSets, KbdFacts DEF KbdInv, KbdType, BytesBetween
  <1>2. CASE F!Move(u)
    <2>1. /\ khead \in 0 .. Size - 1 /\ ktail \in 0 .. Size - 1
          /\ u \in Reader => UnitsOf("full") > 0
          /\ u \in F!Putter => UnitsOf("full") < Size
          /\ kpc'[u] = "wrap" /\ UnitsOf("empty")' + UnitsOf("full")' = Size
      BY <1>2, ByteMoves, AtMove
    <2>2. PICK m \in 0 .. Size : m = UnitsOf("full")
      BY <1>1
    <2>3. CASE u \in F!Putter /\ PutsByte(u)
      <3>1. khead' = khead + 1 /\ ktail' = ktail /\ UnitsOf("full")' = m + 1 /\ m < Size
        BY <2>1, <2>2, <2>3 DEF PutsByte
      <3>2. F!Back(khead + 1) = RingPlace(F!Back(ktail), m + 1)
        BY <1>1, <2>1, <2>2, <3>1 DEF F!Back, RingPlace
      <3>3. F!Back(khead') = RingPlace(F!Back(ktail'), UnitsOf("full")')
        BY <3>1, <3>2
      <3>4. ktail' # Size
        BY <2>1, <3>1, <1>1
      <3> QED BY <2>1, <2>3, <3>3, <3>4 DEF BytesBetween, WrapOpen
    <2>4. CASE u \in Reader /\ TakesByte(u)
      <3>1. khead' = khead /\ ktail' = ktail + 1 /\ UnitsOf("full")' = m - 1 /\ m > 0
        BY <2>1, <2>2, <2>4 DEF TakesByte
      <3>2. F!Back(khead) = RingPlace(F!Back(ktail + 1), m - 1)
        BY <1>1, <2>1, <2>2, <3>1 DEF F!Back, RingPlace
      <3>3. F!Back(khead') = RingPlace(F!Back(ktail'), UnitsOf("full")')
        BY <3>1, <3>2
      <3>4. khead' # Size
        BY <2>1, <3>1, <1>1
      <3> QED BY <2>1, <2>4, <3>3, <3>4 DEF BytesBetween, WrapOpen
    <2> QED BY <1>2, <2>1, <2>3, <2>4, ByteMoves
  <1>3. CASE ~ F!Move(u)
    <2>1. KeepsBytes /\ WrapOpen' /\ UnitsOf("empty")' + UnitsOf("full")' = Size
      BY <1>3, ByteStays DEF F!Step
    <2>2. F!Back(khead)' = RingPlace(F!Back(ktail)', UnitsOf("full")')
      BY <1>1, <2>1 DEF KeepsBytes
    <2> QED BY <2>1, <2>2 DEF BytesBetween, WrapOpen, RingPlace
  <1> QED BY <1>2, <1>3

-----------------------------------------------------------------------------
(* Every step keeps the invariant.                                         *)

LEMMA KbdTypeKept ==
    ASSUME KbdInv, NEW u \in F!User, F!Step(u), InOneList(Sleepers, wakes, asleep)'
    PROVE  KbdType'
  <1>1. PICK s \in F!Sema, z \in F!Sema : s # z /\ F!Sema = {s, z} /\ u \in Downs(s) /\ u \in Ups(z)
    BY SemaSides
  <1>2. KbdType /\ Size \in Nat \ {0} /\ InOneList(Sleepers, wakes, asleep)
    BY KbdFacts DEF KbdInv
  <1>3. wait_list' \in Seq(F!KThread) /\ wakes' \in [F!User -> F!KThread \cup {NoTask}]
    <2>1. "mutex" \in Lists
      BY DEF Lists
    <2>2. Sleepers' = [x \in Lists |-> IF x = "mutex" THEN wait_list' ELSE waiter'[x]]
      BY DEF Sleepers
    <2>3. Sleepers'["mutex"] = wait_list'
      BY <2>1, <2>2
    <2> QED BY <2>1, <2>3 DEF InOneList
  <1>4. CASE F!Down(u)
    <2>1. DownOn(u, s)
      BY <1>1, <1>4, DownIs
    <2>2. F!TaskOf(u) \in F!KThread /\ kpc[u] = "down"
      BY <1>2, <2>1, Runs DEF DownOn
    <2>3. counter' \in [F!Sema -> Nat] /\ waiter' \in [F!Sema -> Seq(F!KThread)]
      <3>1. waiter[s] \in Seq(F!KThread) /\ counter[s] \in Nat
        BY <1>2 DEF KbdType
      <3>2. Append(waiter[s], F!TaskOf(u)) \in Seq(F!KThread)
        BY <2>2, <3>1, AppendProperties
      <3>3. counter' = counter \/ (counter' = [counter EXCEPT ![s] = @ - 1] /\ counter[s] - 1 \in Nat)
        BY <2>1, <3>1 DEF DownOn
      <3>4. waiter' = waiter \/ waiter' = [waiter EXCEPT ![s] = Append(@, F!TaskOf(u))]
        BY <2>1 DEF DownOn
      <3>5. counter \in [F!Sema -> Nat] /\ waiter \in [F!Sema -> Seq(F!KThread)]
        BY <1>2 DEF KbdType
      <3>6. counter' \in [F!Sema -> Nat]
        BY <3>3, <3>5
      <3>7. waiter' \in [F!Sema -> Seq(F!KThread)]
        BY <3>2, <3>4, <3>5
      <3> QED BY <3>6, <3>7
    <2>4. kpc' \in [F!User -> KbdPlaces] /\ (host' = NoTask <=> kpc'[Handler] = "out")
      BY <1>2, <2>1, <2>2, KbdFacts DEF DownOn, KbdType, KbdPlaces
    <2> QED BY <1>2, <1>3, <2>1, <2>3, <2>4 DEF DownOn, KbdType
  <1>5. CASE F!Up(u)
    <2>1. UpOn(u, z)
      BY <1>1, <1>5, UpIs
    <2>2. kpc[u] = "up"
      BY <2>1 DEF UpOn, F!At
    <2>3. counter' \in [F!Sema -> Nat] /\ waiter' \in [F!Sema -> Seq(F!KThread)]
      <3>1. waiter[z] \in Seq(F!KThread) /\ counter[z] \in Nat
        BY <1>2 DEF KbdType
      <3>2. waiter[z] # << >> => Tail(waiter[z]) \in Seq(F!KThread)
        BY <3>1, HeadTailProperties
      <3>3. counter' = counter \/ (counter' = [counter EXCEPT ![z] = @ + 1] /\ counter[z] + 1 \in Nat)
        BY <2>1, <3>1 DEF UpOn
      <3>4. waiter' = waiter \/ (waiter[z] # << >> /\ waiter' = [waiter EXCEPT ![z] = Tail(@)])
        BY <2>1 DEF UpOn
      <3>5. counter \in [F!Sema -> Nat] /\ waiter \in [F!Sema -> Seq(F!KThread)]
        BY <1>2 DEF KbdType
      <3>6. counter' \in [F!Sema -> Nat]
        BY <3>3, <3>5
      <3>7. waiter' \in [F!Sema -> Seq(F!KThread)]
        BY <3>2, <3>4, <3>5
      <3> QED BY <3>6, <3>7
    <2>4. kpc' \in [F!User -> KbdPlaces] /\ (host' = NoTask <=> kpc'[Handler] = "out")
      BY <1>2, <2>1, <2>2, KbdFacts DEF UpOn, KbdType, KbdPlaces
    <2> QED BY <1>2, <1>3, <2>1, <2>3, <2>4, KbdFacts DEF UpOn, KbdType
  <1>6. CASE F!Lock(u) \/ F!Move(u) \/ F!Wrap(u) \/ F!Unlock(u) \/ F!Wake(u)
    <2>1. Between(u)
      BY <1>2, <1>6, BetweenIs
    <2>2. /\ kpc' \in [F!User -> KbdPlaces] /\ (host' = NoTask <=> kpc'[Handler] = "out")
          /\ counter' = counter /\ waiter' = waiter /\ host' = host
      BY <1>2, <2>1, KbdFacts DEF Between, KbdType, KbdPlaces, F!At
    <2>3. locked' \in BOOLEAN
      BY <1>2, <1>6 DEF F!Lock, F!Move, F!Wrap, F!Unlock, F!Wake, F!mutex, KbdType
    <2>4. CASE F!Lock(u) \/ F!Unlock(u) \/ F!Wake(u)
      <3>1. buffer' = buffer /\ khead' = khead /\ ktail' = ktail /\ data' = data
        BY <2>4 DEF F!Lock, F!Unlock, F!Wake, F!ring
      <3> QED BY <1>2, <1>3, <2>2, <2>3, <3>1 DEF KbdType
    <2>5. CASE F!Move(u)
      <3>1. khead \in 0 .. Size - 1 /\ ktail \in 0 .. Size - 1 /\ data[u] \in Byte /\ buffer[ktail] \in Byte
        <4>1. khead \in 0 .. Size - 1 /\ ktail \in 0 .. Size - 1
          BY <2>5, AtMove DEF F!Move
        <4> QED BY <1>2, <4>1 DEF KbdType
      <3>2. khead' \in 0 .. Size /\ ktail' \in 0 .. Size
        BY <1>2, <2>5, <3>1 DEF F!Move
      <3>3. buffer' \in [0 .. Size - 1 -> Byte] /\ data' \in [F!User -> Byte]
        BY <1>2, <2>5, <3>1 DEF F!Move, KbdType
      <3> QED BY <1>2, <1>3, <2>2, <2>3, <3>2, <3>3 DEF KbdType
    <2>6. CASE F!Wrap(u)
      <3>1. khead' \in 0 .. Size /\ ktail' \in 0 .. Size
        BY <1>2, <2>6 DEF F!Wrap, F!Back, KbdType
      <3>2. buffer' = buffer /\ data' = data
        BY <2>6 DEF F!Wrap
      <3> QED BY <1>2, <1>3, <2>2, <2>3, <3>1, <3>2 DEF KbdType
    <2> QED BY <1>6, <2>4, <2>5, <2>6
  <1> QED BY <1>4, <1>5, <1>6 DEF F!Step

\* A thread that calls, or the handler that starts, has nothing yet.
LEMMA StartKept ==
    ASSUME KbdInv, NEW u \in F!User, kpc[u] = "out", kpc' = [kpc EXCEPT ![u] = "down"],
           \A s \in F!Sema : \A v \in F!User : Waits(s, v)' <=> Waits(s, v),
           UNCHANGED <<counter, locked, buffer, khead, ktail, result>>
    PROVE  /\ OneAtRing' /\ BytesBetween' /\ KeepsBytes
           /\ UnitsOf("empty")' + UnitsOf("full")' = Size
  <1>1. kpc'[u] = "down" /\ \A v \in F!User : v # u => kpc'[v] = kpc[v]
    BY DEF KbdInv, KbdType
  <1>2. OneAtRing'
    BY <1>1 DEF KbdInv, OneAtRing, AtRing
  <1>3. ASSUME NEW s \in F!Sema PROVE UnitsOf(s)' = UnitsOf(s)
    <2>1. Downs(s) \subseteq F!User /\ Ups(s) \subseteq F!User
      BY KbdFacts DEF Downs, Ups
    <2>2. Holders(s)' = Holders(s) /\ Owers(s)' = Owers(s)
      BY <1>1, <2>1 DEF Holders, Owers, Downs, Ups
    <2> QED BY <2>2, UnitsSame
  <1>4. UnitsOf("empty")' = UnitsOf("empty") /\ UnitsOf("full")' = UnitsOf("full")
    BY <1>3, KbdFacts
  <1>5. WrapOpen'
    BY <1>1, KbdFacts DEF KbdInv, BytesBetween, WrapOpen
  <1> QED BY <1>2, <1>4, <1>5 DEF KbdInv, BytesBetween, KeepsBytes, F!Back, RingPlace

LEMMA CallKept ==
    ASSUME KbdInv, NEW u \in F!User \ {Handler}, NEW b \in Byte, F!Call(u, b)
    PROVE  KbdInv' /\ KeepsBytes
  <1>1. /\ F!At(u, "out") /\ kpc[u] = "out" /\ kpc' = [kpc EXCEPT ![u] = "down"]
        /\ UNCHANGED <<buffer, khead, ktail, result, counter, waiter, locked, wait_list, asleep, host, wakes>>
    BY DEF F!Call, F!At, F!Goto, F!ring, F!semas, F!mutex
  <1>2. KbdType /\ InOneList(Sleepers, wakes, asleep) /\ WaitersLock
    BY DEF KbdInv
  <1>3. Passes(u, "down")
    BY <1>1 DEF Passes
  <1>4. WaitersLock' /\ \A s \in F!Sema : \A v \in F!User : Waits(s, v)' <=> Waits(s, v)
    BY <1>1, <1>2, <1>3, PassesKeeps, WaitsSame
  <1>5. /\ OneAtRing' /\ BytesBetween' /\ KeepsBytes /\ UnitsOf("empty")' + UnitsOf("full")' = Size
    BY <1>1, <1>4, StartKept
  <1>6. InOneList(Sleepers, wakes, asleep)'
    BY <1>1, <1>2 DEF Sleepers
  <1>7. KbdType'
    <2>1. data' \in [F!User -> Byte]
      BY <1>2 DEF F!Call, KbdType
    <2>2. kpc' \in [F!User -> KbdPlaces] /\ kpc'[Handler] = kpc[Handler]
      BY <1>1, <1>2, KbdFacts DEF KbdType, KbdPlaces
    <2> QED BY <1>1, <1>2, <2>1, <2>2 DEF KbdType
  <1> QED BY <1>4, <1>5, <1>6, <1>7 DEF KbdInv

LEMMA InterruptKept ==
    ASSUME KbdInv, NEW t \in F!KThread, NEW b \in Byte, F!Interrupt(t, b)
    PROVE  KbdInv' /\ KeepsBytes
  <1>1. /\ host = NoTask /\ host' = t /\ t \notin asleep /\ kpc' = [kpc EXCEPT ![Handler] = "down"]
        /\ data' = [data EXCEPT ![Handler] = b]
        /\ UNCHANGED <<buffer, khead, ktail, result, counter, waiter, locked, wait_list, asleep, wakes>>
    BY DEF F!Interrupt, F!Goto, F!ring, F!semas, F!mutex
  <1>2. /\ KbdType /\ InOneList(Sleepers, wakes, asleep) /\ WaitersLock
        /\ Handler \in F!User /\ kpc[Handler] = "out"
    BY <1>1, KbdFacts DEF KbdInv, KbdType
  <1>3. ASSUME NEW s \in F!Sema, NEW v \in F!KThread, Has(waiter[s], v)
        PROVE  UserOf(v)' = UserOf(v) /\ UserOf(v) # Handler
    <2>1. s \in Lists /\ Sleepers[s] = waiter[s]
      BY KbdFacts DEF Lists, Sleepers
    <2>2. v \in asleep
      BY <1>2, <1>3, <2>1 DEF InOneList
    <2> QED BY <1>1, <2>2, KbdFacts DEF UserOf
  <1>4. \A s \in F!Sema : \A v \in F!User : Waits(s, v)' <=> Waits(s, v)
    BY <1>1, <1>3 DEF Waits
  <1>5. WaitersLock'
    <2> SUFFICES ASSUME NEW s \in F!Sema, NEW v \in F!KThread, Has(waiter[s], v)
                 PROVE  UserOf(v)' \in Downs(s) /\ kpc'[UserOf(v)'] = "lock"
      BY <1>1 DEF WaitersLock
    <2>1. UserOf(v)' = UserOf(v) /\ UserOf(v) # Handler /\ UserOf(v) \in Downs(s) /\ kpc[UserOf(v)] = "lock"
      BY <1>2, <1>3 DEF WaitersLock
    <2>2. UserOf(v) \in F!User
      BY <2>1, KbdFacts DEF Downs
    <2> QED BY <1>1, <1>2, <2>1, <2>2 DEF KbdType
  <1>6. OneAtRing' /\ BytesBetween' /\ KeepsBytes /\ UnitsOf("empty")' + UnitsOf("full")' = Size
    BY <1>1, <1>2, <1>4, StartKept
  <1>7. InOneList(Sleepers, wakes, asleep)'
    BY <1>1, <1>2 DEF Sleepers
  <1>8. KbdType'
    <2>1. /\ data' \in [F!User -> Byte] /\ kpc' \in [F!User -> KbdPlaces] /\ kpc'[Handler] = "down"
          /\ host' \in F!KThread \cup {NoTask} /\ host' # NoTask
      BY <1>1, <1>2, KbdFacts DEF KbdType, KbdPlaces
    <2> QED BY <1>1, <1>2, <2>1 DEF KbdType
  <1> QED BY <1>5, <1>6, <1>7, <1>8 DEF KbdInv

LEMMA KbdInit == F!Init => KbdInv /\ UnitsOf("full") = 0
  <1> SUFFICES ASSUME F!Init PROVE KbdInv /\ UnitsOf("full") = 0
    OBVIOUS
  <1>1. /\ buffer = [i \in 0 .. Size - 1 |-> F!Zero] /\ khead = 0 /\ ktail = 0
        /\ counter = [s \in F!Sema |-> IF s = "empty" THEN Size ELSE 0]
        /\ waiter = [s \in F!Sema |-> << >>] /\ locked = FALSE /\ wait_list = << >>
        /\ asleep = {} /\ host = NoTask /\ kpc = [u \in F!User |-> "out"]
        /\ data = [u \in F!User |-> F!Zero] /\ wakes = [u \in F!User |-> NoTask]
    BY DEF F!Init
  <1>2. F!Zero \in Byte
    BY KbdFacts DEF F!Zero
  <1>3. \A t : ~ Has(<< >>, t)
    BY DEF Has
  <1>4. << >> \in Seq(F!KThread) /\ OnceIn(<< >>)
    BY DEF OnceIn
  <1>5. KbdType
    <2>1. buffer \in [0 .. Size - 1 -> Byte] /\ khead \in 0 .. Size /\ ktail \in 0 .. Size
      BY <1>1, <1>2, KbdFacts
    <2>2. counter \in [F!Sema -> Nat]
      BY <1>1, KbdFacts
    <2>3. waiter \in [F!Sema -> Seq(F!KThread)] /\ wait_list \in Seq(F!KThread)
      BY <1>1, <1>4
    <2>4. kpc \in [F!User -> KbdPlaces] /\ kpc[Handler] = "out"
      BY <1>1, KbdFacts DEF KbdPlaces
    <2>5. data \in [F!User -> Byte] /\ wakes \in [F!User -> F!KThread \cup {NoTask}]
      BY <1>1, <1>2
    <2> QED BY <1>1, <2>1, <2>2, <2>3, <2>4, <2>5 DEF KbdType
  <1>6. Sleepers = [x \in Lists |-> << >>]
    BY <1>1, KbdFacts DEF Sleepers, Lists
  <1>7. InOneList(Sleepers, wakes, asleep)
    BY <1>1, <1>3, <1>4, <1>6 DEF InOneList
  <1>8. WaitersLock
    BY <1>1, <1>3 DEF WaitersLock
  <1>9. OneAtRing
    BY <1>1 DEF OneAtRing, AtRing
  <1>10. ASSUME NEW s \in F!Sema PROVE UnitsOf(s) = counter[s] /\ counter[s] \in Nat
    <2>1. Downs(s) \subseteq F!User /\ Ups(s) \subseteq F!User
      BY KbdFacts DEF Downs, Ups
    <2>2. Holders(s) = {} /\ Owers(s) = {}
      BY <1>1, <2>1 DEF Holders, Owers
    <2>3. counter[s] \in Nat
      BY <1>5 DEF KbdType
    <2> QED BY <2>2, <2>3, FS_EmptySet DEF UnitsOf
  <1>11. UnitsOf("empty") = Size /\ UnitsOf("full") = 0
    BY <1>1, <1>10, KbdFacts
  <1>12. BytesBetween
    BY <1>1, <1>11, KbdFacts DEF BytesBetween, WrapOpen, F!Back, RingPlace
  <1> QED BY <1>5, <1>7, <1>8, <1>9, <1>11, <1>12, KbdFacts DEF KbdInv

LEMMA KbdStep ==
    ASSUME KbdInv, F!Next
    PROVE  /\ KbdInv'
           /\ \/ \E u \in F!Putter : F!At(u, "move") /\ PutsByte(u)
              \/ \E u \in Reader : F!At(u, "move") /\ TakesByte(u)
              \/ KeepsBytes
  <1>1. CASE \E u \in F!User : F!Step(u)
    <2>1. PICK u \in F!User : F!Step(u)
      BY <1>1
    <2>2. KbdType /\ InOneList(Sleepers, wakes, asleep) /\ WaitersLock /\ OneAtRing
      BY DEF KbdInv
    <2>3. InOneList(Sleepers, wakes, asleep)' /\ WaitersLock' /\ OneAtRing'
      BY <2>1, <2>2, ListsKept, WaitersKept, RingKept
    <2>4. KbdType' /\ BytesBetween' /\ UnitsOf("empty")' + UnitsOf("full")' = Size
      BY <2>1, <2>3, KbdTypeKept, BetweenKept
    <2>5. KbdInv'
      BY <2>3, <2>4 DEF KbdInv
    <2> QED BY <2>1, <2>5, ByteMoves, ByteStays DEF F!Step
  <1>2. CASE \E u \in F!User \ {Handler}, b \in Byte : F!Call(u, b)
    BY <1>2, CallKept
  <1>3. CASE \E t \in F!KThread, b \in Byte : F!Interrupt(t, b)
    BY <1>3, InterruptKept
  <1> QED BY <1>1, <1>2, <1>3 DEF F!Next

-----------------------------------------------------------------------------
(* What the ring holds is the queue of module ByteQueue.                   *)

\* The ring from tail on.
LEMMA RestIs ==
    ASSUME NEW p \in 0 .. Size, NEW i \in 1 .. Size
    PROVE  (p + i - 1) % Size = RingPlace(F!Back(p), i - 1)
  <1>1. PICK n \in Nat \ {0} : n = Size
    BY KbdFacts
  <1>2. PICK x \in 0 .. 2 * n - 1 : x = p + i - 1
    BY <1>1
  <1>3. x % n = IF x < n THEN x ELSE x - n
    <2>1. x = n * (x \div n) + (x % n) /\ x % n \in 0 .. n - 1 /\ x \div n \in Int
      BY <1>1, <1>2
    <2>2. PICK d \in Int, r \in 0 .. n - 1 : d = x \div n /\ r = x % n /\ x = n * d + r
      BY <2>1
    <2>3. d = 0 \/ d = 1
      <3>1. CASE d >= 2
        <4>1. n * d >= n * 2
          BY <3>1, <1>1
        <4> QED BY <4>1, <2>2, <1>2, <1>1
      <3>2. CASE d <= -1
        <4>1. n * d <= n * (-1)
          BY <3>2, <1>1
        <4> QED BY <4>1, <2>2, <1>2, <1>1
      <3> QED BY <3>1, <3>2
    <2> QED BY <2>2, <2>3, <1>1
  <1> QED BY <1>1, <1>2, <1>3 DEF RingPlace, F!Back

\* n bytes of b, from the place p on.
Held(b, p, n) == [i \in 1 .. n |-> b[RingPlace(p, i - 1)]]

RingContents == [i \in 1 .. F!Stored |-> buffer[(ktail + i - 1) % Size]]

LEMMA ContentsAre ==
    KbdInv => /\ F!Stored = UnitsOf("full") /\ UnitsOf("full") \in 0 .. Size
              /\ RingContents = Held(buffer, F!Back(ktail), UnitsOf("full"))
  <1> SUFFICES ASSUME KbdInv
               PROVE  /\ F!Stored = UnitsOf("full") /\ UnitsOf("full") \in 0 .. Size
                      /\ RingContents = Held(buffer, F!Back(ktail), UnitsOf("full"))
    OBVIOUS
  <1>1. UnitsOf("full") \in 0 .. Size
    BY UnitSets, KbdFacts DEF KbdInv
  <1>2. F!Taking = Holders("full")
    <2>1. ASSUME NEW r \in Reader PROVE Waits("full", r) <=> Has(waiter["full"], r)
      <3>1. "full" \in F!Sema /\ r \in F!KThread /\ Downs("full") = Reader
        BY KbdFacts DEF F!KThread, Downs
      <3>2. \A t \in F!KThread : Has(waiter["full"], t) => UserOf(t) = t
        BY <3>1, KbdFacts DEF KbdInv, WaitersLock, UserOf
      <3> QED BY <3>1, <3>2 DEF Waits
    <2>2. DOMAIN waiter["full"] = 1 .. Len(waiter["full"])
      <3>1. waiter["full"] \in Seq(F!KThread)
        BY KbdFacts DEF KbdInv, KbdType
      <3> QED BY <3>1, LenProperties
    <2>3. \A r \in Reader : Waits("full", r) <=> \E i \in DOMAIN waiter["full"] : waiter["full"][i] = r
      BY <2>1, <2>2 DEF Has
    <2>4. Downs("full") = Reader
      BY DEF Downs
    <2> QED BY <2>3, <2>4 DEF F!Taking, Holders
  <1>3. F!Putting = Owers("full")
    BY DEF F!Putting, Owers, Ups
  <1>4. F!Stored = UnitsOf("full")
    BY <1>2, <1>3, KbdFacts DEF F!Stored, UnitsOf
  <1>5. ASSUME NEW i \in 1 .. UnitsOf("full")
        PROVE  (ktail + i - 1) % Size = RingPlace(F!Back(ktail), i - 1)
    <2>1. PICK m \in 0 .. Size : m = UnitsOf("full")
      BY <1>1
    <2>2. i \in 1 .. Size
      BY <2>1, KbdFacts
    <2>3. ktail \in 0 .. Size
      BY DEF KbdInv, KbdType
    <2> QED BY <2>2, <2>3, RestIs
  <1> QED BY <1>1, <1>4, <1>5 DEF RingContents, Held

LEMMA NextContents == KbdInv' => RingContents' = Held(buffer, F!Back(ktail), UnitsOf("full"))'
  <1> DEFINE HoldsThem == RingContents = Held(buffer, F!Back(ktail), UnitsOf("full"))
  <1>1. KbdInv => HoldsThem
    BY ContentsAre
  <1> HIDE DEF HoldsThem
  <1>2. KbdInv' => HoldsThem'
    BY <1>1, PTL
  <1> QED BY <1>2 DEF HoldsThem

LEMMA HeldBytes ==
    ASSUME NEW b \in [0 .. Size - 1 -> Byte], NEW p \in 0 .. Size - 1, NEW n \in 0 .. Size
    PROVE  /\ Held(b, p, n) \in Seq(Byte) /\ Len(Held(b, p, n)) = n
           /\ \A i \in 1 .. n : Held(b, p, n)[i] = b[RingPlace(p, i - 1)]
  <1>1. n \in Nat
    BY KbdFacts
  <1>2. \A i \in 1 .. n : RingPlace(p, i - 1) \in 0 .. Size - 1
    BY KbdFacts DEF RingPlace
  <1>3. \A i \in 1 .. n : Held(b, p, n)[i] = b[RingPlace(p, i - 1)]
    BY DEF Held
  <1>4. Held(b, p, n) \in [1 .. n -> Byte]
    BY <1>2 DEF Held
  <1>5. Held(b, p, n) \in Seq(Byte) /\ Len(Held(b, p, n)) = n
    BY <1>1, <1>4
  <1> QED BY <1>3, <1>5

LEMMA FirstOf ==
    ASSUME NEW S, NEW q \in Seq(S), Len(q) > 0 PROVE SubSeq(q, 1, 1) = <<q[1]>>
  <1>1. PICK x \in S : x = q[1]
    <2>1. 1 \in 1 .. Len(q)
      BY LenProperties
    <2> QED BY <2>1, ElementOfSeq
  <1>2. /\ SubSeq(q, 1, 1) \in Seq(S)
        /\ Len(SubSeq(q, 1, 1)) = IF 1 <= 1 THEN 1 - 1 + 1 ELSE 0
        /\ \A i \in 1 .. 1 - 1 + 1 : SubSeq(q, 1, 1)[i] = q[1 + i - 1]
    <2>1. \A i \in 1 .. 1 : q[i] \in S
      BY <1>1
    <2> QED BY <2>1, SubSeqProperties
  <1>3. PICK z \in Seq(S) : z = SubSeq(q, 1, 1) /\ Len(z) = 1 /\ z[1] = x
    <2>1. 1 \in 1 .. 1 - 1 + 1 /\ 1 + 1 - 1 = 1
      OBVIOUS
    <2>2. PICK z : z = SubSeq(q, 1, 1)
      OBVIOUS
    <2>3. z \in Seq(S) /\ Len(z) = 1
      BY <1>2, <2>2
    <2>4. z[1] = x
      BY <1>1, <1>2, <2>1, <2>2
    <2> QED BY <2>2, <2>3, <2>4
  <1>4. PICK y \in Seq(S) : y = <<x>> /\ Len(y) = 1 /\ y[1] = x
    <2>1. <<x>> \in Seq(S) /\ Len(<<x>>) = 1 /\ <<x>>[1] = x
      OBVIOUS
    <2> QED BY <2>1
  <1>5. \A i \in 1 .. Len(z) : z[i] = y[i]
    BY <1>3, <1>4
  <1>6. z = y
    BY <1>3, <1>4, <1>5, SeqEqual
  <1> QED BY <1>1, <1>3, <1>4, <1>6

\* One element more at the end,
LEMMA OneBehind ==
    ASSUME NEW S, NEW q \in Seq(S), NEW r \in Seq(S), NEW d \in S, Len(r) = Len(q) + 1,
           \A i \in 1 .. Len(q) : r[i] = q[i], r[Len(q) + 1] = d
    PROVE  r = q \o SubSeq(<<d>>, 1, 1) /\ SubSeq(<<d>>, 1, 1) = <<d>>
  <1>1. <<d>> \in Seq(S) /\ Len(<<d>>) = 1 /\ <<d>>[1] = d
    OBVIOUS
  <1>2. SubSeq(<<d>>, 1, 1) = <<d>>
    <2>1. PICK e \in Seq(S) : e = <<d>> /\ Len(e) = 1 /\ e[1] = d
      BY <1>1
    <2>2. Len(e) > 0
      BY <2>1
    <2>3. SubSeq(e, 1, 1) = <<e[1]>>
      BY <2>2, FirstOf
    <2> QED BY <2>1, <2>3
  <1>3. PICK c \in Seq(S) : c = q \o <<d>>
    BY <1>1, ConcatProperties
  <1>4. /\ Len(q) \in Nat /\ Len(c) = Len(q) + 1
        /\ \A i \in 1 .. Len(q) + 1 : c[i] = IF i <= Len(q) THEN q[i] ELSE <<d>>[i - Len(q)]
    BY <1>1, <1>3, ConcatProperties, LenProperties
  <1>5. \A i \in 1 .. Len(r) : r[i] = c[i]
    <2> SUFFICES ASSUME NEW i \in 1 .. Len(q) + 1 PROVE r[i] = c[i]
      OBVIOUS
    <2>1. CASE i \in 1 .. Len(q)
      BY <2>1, <1>4
    <2>2. CASE i = Len(q) + 1
      <3>1. i - Len(q) = 1 /\ ~ (i <= Len(q))
        BY <2>2, <1>4
      <3> QED BY <2>2, <3>1, <1>1, <1>4
    <2> QED BY <2>1, <2>2, <1>4
  <1>6. r = c
    BY <1>4, <1>5, SeqEqual
  <1> QED BY <1>2, <1>3, <1>6

\* and one less at the start.
LEMMA OneOff ==
    ASSUME NEW S, NEW q \in Seq(S), NEW r \in Seq(S), Len(q) > 0, Len(r) = Len(q) - 1,
           \A i \in 1 .. Len(r) : r[i] = q[i + 1]
    PROVE  r = SubSeq(q, 1 + 1, Len(q)) /\ SubSeq(q, 1, 1) = <<q[1]>>
  <1>1. PICK m \in Nat \ {0} : m = Len(q)
    BY LenProperties
  <1>2. \A i \in 1 .. m : q[i] \in S
    BY <1>1, ElementOfSeq
  <1>3. /\ SubSeq(q, 2, m) \in Seq(S) /\ Len(SubSeq(q, 2, m)) = m - 1
        /\ \A i \in 1 .. m - 1 : SubSeq(q, 2, m)[i] = q[i + 1]
    <2>1. /\ SubSeq(q, 2, m) \in Seq(S)
          /\ Len(SubSeq(q, 2, m)) = IF 2 <= m THEN m - 2 + 1 ELSE 0
          /\ \A i \in 1 .. m - 2 + 1 : SubSeq(q, 2, m)[i] = q[2 + i - 1]
      <3>1. \A i \in 2 .. m : q[i] \in S
        BY <1>2
      <3> QED BY <3>1, SubSeqProperties
    <2>2. PICK z : z = SubSeq(q, 2, m)
      OBVIOUS
    <2>3. ASSUME NEW i \in 1 .. m - 1 PROVE z[i] = q[i + 1]
      <3>1. i \in 1 .. m - 2 + 1 /\ 2 + i - 1 = i + 1
        BY <1>1
      <3> QED BY <3>1, <2>1, <2>2
    <2>4. Len(z) = m - 1
      BY <2>1, <2>2, <1>1
    <2> QED BY <2>1, <2>2, <2>3, <2>4
  <1>6. r = SubSeq(q, 2, m)
    <2>1. PICK z \in Seq(S) : z = SubSeq(q, 2, m) /\ Len(z) = m - 1 /\ \A i \in 1 .. m - 1 : z[i] = q[i + 1]
      BY <1>3
    <2>2. z = r
      BY <2>1, <1>1, SeqEqual
    <2> QED BY <2>1, <2>2
  <1> QED BY <1>1, <1>6, FirstOf

LEMMA OneOfTwo == ASSUME NEW k \in Nat, k > 0 PROVE F!Queue!Min({1, k}) = 1
  <1>1. 1 \in {1, k} /\ \A y \in {1, k} : 1 <= y
    OBVIOUS
  <1>2. \A x \in {1, k} : (\A y \in {1, k} : x <= y) => x = 1
    OBVIOUS
  <1> QED BY <1>1, <1>2 DEF F!Queue!Min

LEMMA PutIsPut ==
    ASSUME KbdInv, KbdInv', NEW u \in F!Putter, F!At(u, "move"), PutsByte(u)
    PROVE  F!Queue!Put
  <1>1. PICK m \in 0 .. Size - 1, p \in 0 .. Size - 1, b \in [0 .. Size - 1 -> Byte], d \in Byte :
            /\ m = UnitsOf("full") /\ p = F!Back(ktail) /\ b = buffer /\ d = data[u]
            /\ ktail' = ktail /\ khead = RingPlace(p, m)
    <2>1. u \in F!User /\ Size \in Nat \ {0}
      BY KbdFacts
    <2>2. UnitsOf("full") < Size /\ UnitsOf("full") \in 0 .. Size /\ khead \in 0 .. Size - 1
      BY <2>1, AtMove, ContentsAre
    <2>3. /\ ktail \in 0 .. Size /\ buffer \in [0 .. Size - 1 -> Byte] /\ data[u] \in Byte
          /\ F!Back(khead) = RingPlace(F!Back(ktail), UnitsOf("full"))
      BY <2>1 DEF KbdInv, KbdType, BytesBetween
    <2>4. F!Back(ktail) \in 0 .. Size - 1 /\ F!Back(khead) = khead
      BY <2>1, <2>2, <2>3 DEF F!Back
    <2>5. UnitsOf("full") \in 0 .. Size - 1
      BY <2>1, <2>2
    <2> QED BY <2>3, <2>4, <2>5 DEF PutsByte
  <1>2. PICK q \in Seq(Byte) : /\ q = RingContents /\ Len(q) = m
                              /\ \A i \in 1 .. m : q[i] = b[RingPlace(p, i - 1)]
    <2>1. m \in 0 .. Size
      BY KbdFacts
    <2>2. /\ Held(b, p, m) \in Seq(Byte) /\ Len(Held(b, p, m)) = m
          /\ \A i \in 1 .. m : Held(b, p, m)[i] = b[RingPlace(p, i - 1)]
      BY <2>1, HeldBytes
    <2>3. RingContents = Held(b, p, m)
      BY <1>1, ContentsAre
    <2> QED BY <2>2, <2>3
  <1>3. PICK c \in [0 .. Size - 1 -> Byte] : c = buffer' /\ c = [b EXCEPT ![RingPlace(p, m)] = d]
    BY <1>1 DEF PutsByte
  <1>4. PICK r \in Seq(Byte) : /\ r = RingContents' /\ Len(r) = m + 1
                              /\ \A i \in 1 .. m + 1 : r[i] = c[RingPlace(p, i - 1)]
    <2>1. RingContents' = Held(buffer, F!Back(ktail), UnitsOf("full"))'
      BY NextContents
    <2>2. UnitsOf("full")' = m + 1 /\ F!Back(ktail)' = p
      BY <1>1 DEF PutsByte, F!Back
    <2>3. RingContents' = Held(c, p, m + 1)
      BY <2>1, <2>2, <1>3 DEF Held, RingPlace
    <2>4. m + 1 \in 0 .. Size
      BY KbdFacts
    <2> QED BY <2>3, <2>4, HeldBytes
  <1>5. ASSUME NEW i \in 1 .. m PROVE r[i] = q[i]
    <2>1. RingPlace(p, i - 1) \in 0 .. Size - 1 /\ RingPlace(p, i - 1) # RingPlace(p, m)
      BY KbdFacts DEF RingPlace
    <2>2. c[RingPlace(p, i - 1)] = b[RingPlace(p, i - 1)]
      BY <2>1, <1>3
    <2>3. i \in 1 .. m + 1
      OBVIOUS
    <2> QED BY <2>2, <2>3, <1>2, <1>4
  <1>6. r[m + 1] = d
    <2>1. RingPlace(p, m) \in 0 .. Size - 1
      BY KbdFacts DEF RingPlace
    <2>2. c[RingPlace(p, m)] = d
      BY <2>1, <1>3
    <2>3. m + 1 \in 1 .. m + 1 /\ (m + 1) - 1 = m
      OBVIOUS
    <2> QED BY <2>2, <2>3, <1>4
  <1>7. r = q \o SubSeq(<<d>>, 1, 1) /\ SubSeq(<<d>>, 1, 1) = <<d>>
    BY <1>2, <1>4, <1>5, <1>6, OneBehind
  <1>8. F!Queue!Min({Len(<<d>>), Size - Len(q)}) = 1
    <2>1. Size - m \in Nat /\ Size - m > 0 /\ Len(<<d>>) = 1
      BY KbdFacts
    <2> QED BY <2>1, <1>2, OneOfTwo
  <1>9. <<d>> \in F!Queue!BoundedSeq(Byte, 1)
    BY DEF F!Queue!BoundedSeq, F!Queue!SeqOf
  <1>10. result' = SubSeq(<<d>>, 1, 1)
    BY <1>1, <1>7 DEF PutsByte
  <1>11. \E bytes \in F!Queue!BoundedSeq(Byte, 1) :
            LET n == F!Queue!Min({Len(bytes), Size - Len(RingContents)})
            IN  RingContents' = RingContents \o SubSeq(bytes, 1, n) /\ result' = SubSeq(bytes, 1, n)
    BY <1>2, <1>4, <1>7, <1>8, <1>9, <1>10
  <1> QED BY <1>11 DEF F!Queue!Put, RingContents

LEMMA GetIsGet ==
    ASSUME KbdInv, KbdInv', NEW u \in Reader, F!At(u, "move"), TakesByte(u)
    PROVE  F!Queue!Get
  <1>1. PICK m \in 1 .. Size, p \in 0 .. Size - 1, b \in [0 .. Size - 1 -> Byte] :
            /\ m = UnitsOf("full") /\ p = F!Back(ktail) /\ p = ktail /\ b = buffer
    <2>1. u \in F!User /\ Size \in Nat \ {0}
      BY KbdFacts
    <2>2. UnitsOf("full") > 0 /\ UnitsOf("full") \in 0 .. Size /\ ktail \in 0 .. Size - 1
      BY <2>1, AtMove, ContentsAre
    <2>3. buffer \in [0 .. Size - 1 -> Byte]
      BY DEF KbdInv, KbdType
    <2>4. F!Back(ktail) = ktail
      BY <2>1, <2>2 DEF F!Back
    <2>5. UnitsOf("full") \in 1 .. Size
      BY <2>1, <2>2
    <2> QED BY <2>2, <2>3, <2>4, <2>5
  <1>2. PICK q \in Seq(Byte) : /\ q = RingContents /\ Len(q) = m
                              /\ \A i \in 1 .. m : q[i] = b[RingPlace(p, i - 1)]
    <2>1. m \in 0 .. Size
      BY KbdFacts
    <2>2. /\ Held(b, p, m) \in Seq(Byte) /\ Len(Held(b, p, m)) = m
          /\ \A i \in 1 .. m : Held(b, p, m)[i] = b[RingPlace(p, i - 1)]
      BY <2>1, HeldBytes
    <2>3. RingContents = Held(b, p, m)
      BY <1>1, ContentsAre
    <2> QED BY <2>2, <2>3
  <1>3. PICK r \in Seq(Byte) : /\ r = RingContents' /\ Len(r) = m - 1
                              /\ \A i \in 1 .. m - 1 : r[i] = b[RingPlace(F!Back(p + 1), i - 1)]
    <2>1. RingContents' = Held(buffer, F!Back(ktail), UnitsOf("full"))'
      BY NextContents
    <2>2. UnitsOf("full")' = m - 1 /\ F!Back(ktail)' = F!Back(p + 1) /\ buffer' = b
      BY <1>1 DEF TakesByte, F!Back
    <2>3. RingContents' = Held(b, F!Back(p + 1), m - 1)
      BY <2>1, <2>2 DEF Held, RingPlace
    <2>4. m - 1 \in 0 .. Size /\ F!Back(p + 1) \in 0 .. Size - 1
      BY KbdFacts DEF F!Back
    <2> QED BY <2>3, <2>4, HeldBytes
  <1>4. ASSUME NEW i \in 1 .. m - 1 PROVE r[i] = q[i + 1]
    <2>1. RingPlace(F!Back(p + 1), i - 1) = RingPlace(p, i + 1 - 1)
      BY KbdFacts DEF RingPlace, F!Back
    <2>2. i + 1 \in 1 .. m
      OBVIOUS
    <2>3. r[i] = b[RingPlace(F!Back(p + 1), i - 1)]
      BY <1>3
    <2>4. q[i + 1] = b[RingPlace(p, i + 1 - 1)]
      BY <1>2, <2>2
    <2> QED BY <2>1, <2>3, <2>4
  <1>5. r = SubSeq(q, 1 + 1, Len(q)) /\ SubSeq(q, 1, 1) = <<q[1]>>
    <2>1. Len(q) > 0 /\ Len(r) = Len(q) - 1 /\ \A i \in 1 .. Len(r) : r[i] = q[i + 1]
      BY <1>2, <1>3, <1>4
    <2> QED BY <2>1, OneOff
  <1>6. result' = SubSeq(q, 1, 1)
    <2>1. 1 \in 1 .. m /\ RingPlace(p, 1 - 1) = p
      BY KbdFacts DEF RingPlace
    <2>2. q[1] = b[p]
      BY <2>1, <1>2
    <2> QED BY <2>2, <1>1, <1>5 DEF TakesByte
  <1>7. F!Queue!Min({1, Len(q)}) = 1
    BY <1>2, OneOfTwo
  <1>8. \E len \in 0 .. 1 :
            LET n == F!Queue!Min({len, Len(RingContents)})
            IN  /\ result' = SubSeq(RingContents, 1, n)
                /\ RingContents' = SubSeq(RingContents, n + 1, Len(RingContents))
    <2>1. 1 \in 0 .. 1
      OBVIOUS
    <2> QED BY <2>1, <1>2, <1>3, <1>5, <1>6, <1>7
  <1> QED BY <1>8 DEF F!Queue!Get, RingContents

LEMMA QueueStep ==
    ASSUME KbdInv, [F!Next]_(F!vars)
    PROVE  KbdInv' /\ [F!Queue!Put \/ F!Queue!Get \/ F!Queue!Reset]_<<RingContents, result>>
  <1>1. CASE F!Next
    <2>1. KbdInv'
      BY <1>1, KbdStep
    <2>2. CASE \E u \in F!Putter : F!At(u, "move") /\ PutsByte(u)
      BY <2>1, <2>2, PutIsPut
    <2>3. CASE \E u \in Reader : F!At(u, "move") /\ TakesByte(u)
      BY <2>1, <2>3, GetIsGet
    <2>4. CASE KeepsBytes
      <3>1. RingContents' = RingContents
        <4>1. RingContents' = Held(buffer, F!Back(ktail), UnitsOf("full"))'
          BY <2>1, NextContents
        <4> QED BY <4>1, <2>4, ContentsAre DEF KeepsBytes, Held, RingPlace
      <3> QED BY <2>1, <2>4, <3>1 DEF KeepsBytes
    <2> QED BY <1>1, <2>1, <2>2, <2>3, <2>4, KbdStep
  <1>2. CASE UNCHANGED F!vars
    <2>1. UNCHANGED <<buffer, khead, ktail, result, counter, waiter, locked, wait_list, asleep, host, kpc, data, wakes>>
      BY <1>2 DEF F!vars
    <2>2. KbdInv'
      BY <2>1 DEF KbdInv, KbdType, Sleepers, InOneList, WaitersLock, UserOf, OneAtRing, UnitsOf, Holders,
         Owers, Waits, BytesBetween, WrapOpen, F!Back, RingPlace
    <2>3. RingContents' = RingContents
      BY <2>1 DEF RingContents, F!Stored, F!Taking, F!Putting
    <2> QED BY <2>1, <2>2, <2>3
  <1> QED BY <1>1, <1>2

\* fifo_io_put and fifo_io_get, called by any tasks and by the keyboard interrupt:
\* the ring is a bounded queue of bytes of any size.  The units that the two
\* semaphores count, and those that a user holds or owes, are the places of the
\* ring, whoever sleeps and whoever is woken for whom.
THEOREM KeyboardIsAQueue == F!Spec => FifoIoIsAQueue
  <1>1. F!Init => KbdInv /\ F!Queue!Init
    <2> SUFFICES ASSUME F!Init PROVE KbdInv /\ F!Queue!Init
      OBVIOUS
    <2>1. KbdInv /\ UnitsOf("full") = 0 /\ result = << >>
      BY KbdInit DEF F!Init
    <2>2. RingContents = << >>
      BY <2>1, ContentsAre DEF Held
    <2> QED BY <2>1, <2>2 DEF F!Queue!Init, RingContents
  <1>2. KbdInv /\ [F!Next]_(F!vars) => KbdInv'
    BY QueueStep
  <1>3. KbdInv /\ [F!Next]_(F!vars)
        => [F!Queue!Put \/ F!Queue!Get \/ F!Queue!Reset]_<<RingContents, result>>
    BY QueueStep
  <1>4. F!Init /\ [][F!Next]_(F!vars) => []KbdInv
    BY <1>1, <1>2, PTL
  <1>5. []KbdInv /\ [][F!Next]_(F!vars)
        => [][F!Queue!Put \/ F!Queue!Get \/ F!Queue!Reset]_<<RingContents, result>>
    BY <1>3, PTL
  <1>6. F!Init /\ [][F!Next]_(F!vars)
        => F!Queue!Init /\ [][F!Queue!Put \/ F!Queue!Get \/ F!Queue!Reset]_<<RingContents, result>>
    BY <1>1, <1>4, <1>5, PTL
  <1> QED BY <1>6, PTL DEF F!Spec, FifoIoIsAQueue, F!IsAQueue, F!Queue!Spec, RingContents

-----------------------------------------------------------------------------
(* The lists of WaitQueue.  Tasks enter a list at its tail and leave it at *)
(* its head, so the tasks in it are those of an interval of a numbering.   *)

\* The node at place i of the list of h with the tasks s[lo], ..., s[hi].
NodeAt(h, s, lo, hi, i) == IF i \in lo .. hi THEN s[i] ELSE h

LineOf(s, lo, hi) == {s[i] : i \in lo .. hi}

Numbering(s, lo, hi) ==
    /\ lo \in Int /\ hi \in Int /\ lo <= hi + 1
    /\ \A i \in lo .. hi : s[i] \in Task
    /\ \A i, j \in lo .. hi : s[i] = s[j] => i = j

Chained(m, h, s, lo, hi) ==
    \A i \in (lo - 1) .. hi :
        /\ m.next[NodeAt(h, s, lo, hi, i)] = NodeAt(h, s, lo, hi, i + 1)
        /\ m.prev[NodeAt(h, s, lo, hi, i + 1)] = NodeAt(h, s, lo, hi, i)

\* The list of h is a ring of the tasks in S.
RingOf(m, h, S) ==
    \E s, lo, hi : /\ Numbering(s, lo, hi) /\ LineOf(s, lo, hi) = S
                   /\ Chained(m, h, s, lo, hi)

Pointers(m) ==
    /\ m = [next |-> m.next, prev |-> m.prev, len |-> m.len, state |-> m.state,
            bad |-> m.bad]
    /\ m.next \in [Node -> Node \cup {NULL}] /\ m.prev \in [Node -> Node \cup {NULL}]
    /\ m.len \in Int
    /\ m.state \in [Task -> {"READY", "RUNNING", "BLOCKED"}]

LEMMA HeadsAreNoTasks ==
    /\ RQ # WQ /\ RQ # NULL /\ WQ # NULL /\ Idle \notin {RQ, WQ, NULL}
    /\ RQ \notin Task /\ WQ \notin Task /\ NULL \notin Task /\ Idle \notin Task
    /\ RQ \in Node /\ WQ \in Node /\ NULL \notin Node /\ Task \subseteq Node
    /\ IsFiniteSet(Node) /\ Cardinality(Node) = Cardinality(Task) + 2
    /\ Cardinality(Task) \in Nat \ {0}
  <1>1. IsFiniteSet(Task) /\ Cardinality({RQ, WQ, NULL, Idle}) = 4
        /\ Task # {} /\ {RQ, WQ, NULL, Idle} \cap Task = {}
    BY WaitQueueAssumption
  <1>2. \A a, b, c : IsFiniteSet({a, b, c}) /\ Cardinality({a, b, c}) <= 3
    <2> TAKE a, b, c
    <2>1. IsFiniteSet({a}) /\ Cardinality({a}) = 1
      BY FS_Singleton
    <2>2. /\ IsFiniteSet({a} \cup {b})
          /\ Cardinality({a} \cup {b}) = (IF b \in {a} THEN 1 ELSE 2)
      BY <2>1, FS_AddElement
    <2>3. /\ IsFiniteSet(({a} \cup {b}) \cup {c})
          /\ Cardinality(({a} \cup {b}) \cup {c}) \in {1, 2, 3}
      BY <2>2, FS_AddElement
    <2>4. ({a} \cup {b}) \cup {c} = {a, b, c}
      OBVIOUS
    <2> QED BY <2>3, <2>4
  <1>3. /\ RQ # WQ /\ RQ # NULL /\ WQ # NULL /\ Idle # RQ /\ Idle # WQ /\ Idle # NULL
    <2>1. SUFFICES ASSUME \/ RQ = WQ \/ RQ = NULL \/ WQ = NULL
                          \/ Idle = RQ \/ Idle = WQ \/ Idle = NULL
                   PROVE  FALSE
      OBVIOUS
    <2>2. \E a, b, c : {RQ, WQ, NULL, Idle} = {a, b, c}
      <3>1. CASE RQ = WQ \/ RQ = NULL \/ Idle = RQ
        <4>1. {RQ, WQ, NULL, Idle} = {WQ, NULL, Idle}
          BY <3>1
        <4> QED BY <4>1
      <3>2. CASE WQ = NULL \/ Idle = WQ
        <4>1. {RQ, WQ, NULL, Idle} = {RQ, NULL, Idle}
          BY <3>2
        <4> QED BY <4>1
      <3>3. CASE Idle = NULL
        <4>1. {RQ, WQ, NULL, Idle} = {RQ, WQ, Idle}
          BY <3>3
        <4> QED BY <4>1
      <3> QED BY <2>1, <3>1, <3>2, <3>3
    <2>3. PICK a, b, c : {RQ, WQ, NULL, Idle} = {a, b, c}
      BY <2>2
    <2>4. Cardinality({a, b, c}) <= 3 /\ Cardinality({a, b, c}) = 4
      BY <1>1, <1>2, <2>3
    <2> QED BY <2>4
  <1>4. RQ \notin Task /\ WQ \notin Task /\ NULL \notin Task /\ Idle \notin Task
    BY <1>1
  <1>5. IsFiniteSet(Task \cup {RQ}) /\ Cardinality(Task \cup {RQ}) = Cardinality(Task) + 1
    BY <1>1, <1>4, FS_AddElement
  <1>6. /\ IsFiniteSet((Task \cup {RQ}) \cup {WQ})
        /\ Cardinality((Task \cup {RQ}) \cup {WQ}) = Cardinality(Task) + 1 + 1
    BY <1>3, <1>4, <1>5, FS_AddElement
  <1>7. Node = (Task \cup {RQ}) \cup {WQ}
    BY DEF Node
  <1>8. Cardinality(Task) \in Nat /\ Cardinality(Task) # 0
    BY <1>1, FS_CardinalityType, FS_EmptySet
  <1> QED BY <1>3, <1>4, <1>6, <1>7, <1>8

\* A list holds at most the tasks there are.
LEMMA LineLength ==
    ASSUME NEW s, NEW lo, NEW hi, Numbering(s, lo, hi)
    PROVE  /\ hi - lo + 1 <= Cardinality(Task)
           /\ Cardinality(LineOf(s, lo, hi)) = hi - lo + 1
  <1>1. lo \in Int /\ hi \in Int /\ lo <= hi + 1
    BY DEF Numbering
  <1>2. IsFiniteSet(lo .. hi) /\ Cardinality(lo .. hi) = hi - lo + 1
    BY <1>1, FS_Interval
  <1> DEFINE f == [i \in lo .. hi |-> s[i]]
  <1>3. f \in Injection(lo .. hi, Task)
    BY DEF Injection, IsInjective, Numbering
  <1>4. f \in Bijection(lo .. hi, LineOf(s, lo, hi))
    BY DEF Bijection, Injection, IsInjective, Surjection, Numbering, LineOf
  <1>5. ExistsBijection(lo .. hi, LineOf(s, lo, hi))
    BY <1>4 DEF ExistsBijection
  <1>6. Cardinality(LineOf(s, lo, hi)) = hi - lo + 1
    BY <1>2, <1>5, FS_Bijection
  <1>7. IsFiniteSet(Task)
    BY WaitQueueAssumption
  <1>8. Cardinality(lo .. hi) <= Cardinality(Task)
    BY <1>3, <1>7, FS_Injection
  <1> QED BY <1>2, <1>6, <1>8

\* What a walk meets, step by step.
WalkOf(m, h, w) ==
    w = [k \in 0 .. Cardinality(Node) |->
            IF k = 0 THEN m.next[h]
            ELSE LET x == w[k - 1] IN IF x \in {h, NULL} THEN x ELSE m.next[x]]

LEMMA WalkAt ==
    ASSUME NEW m, NEW h, NEW w, WalkOf(m, h, w)
    PROVE  /\ w = [k \in 0 .. Cardinality(Node) |-> w[k]]
           /\ w[0] = m.next[h]
           /\ \A k \in 1 .. Cardinality(Node) :
                 w[k] = IF w[k - 1] \in {h, NULL} THEN w[k - 1] ELSE m.next[w[k - 1]]
  <1>1. Cardinality(Node) \in Nat
    BY HeadsAreNoTasks
  <1> DEFINE at(k) == IF k = 0 THEN m.next[h]
                      ELSE IF w[k - 1] \in {h, NULL} THEN w[k - 1] ELSE m.next[w[k - 1]]
  <1>2. w = [k \in 0 .. Cardinality(Node) |-> at(k)]
    BY DEF WalkOf
  <1>3. \A k \in 0 .. Cardinality(Node) : w[k] = at(k)
    <2> HIDE DEF at
    <2> QED BY <1>2
  <1>4. w = [k \in 0 .. Cardinality(Node) |-> w[k]]
    <2> HIDE DEF at
    <2> QED BY <1>2
  <1>5. w[0] = m.next[h]
    BY <1>1, <1>3
  <1>6. \A k \in 1 .. Cardinality(Node) : k \in 0 .. Cardinality(Node) /\ k # 0
    BY <1>1
  <1>7. \A k \in 1 .. Cardinality(Node) :
           w[k] = IF w[k - 1] \in {h, NULL} THEN w[k - 1] ELSE m.next[w[k - 1]]
    BY <1>3, <1>6
  <1> QED BY <1>4, <1>5, <1>7

LEMMA WalkOnce ==
    ASSUME NEW m, NEW h, NEW w, WalkOf(m, h, w)
    PROVE  Walk(m, h) = w
  <1> DEFINE last == Cardinality(Node)
             W == Walk(m, h)
  <1>1. W = CHOOSE g : WalkOf(m, h, g)
    BY DEF Walk, WalkOf
  <1>2. WalkOf(m, h, W)
    BY <1>1
  <1> HIDE DEF W
  <1>3. last \in Nat
    BY HeadsAreNoTasks
  <1>4. /\ W = [k \in 0 .. last |-> W[k]]
        /\ W[0] = m.next[h]
        /\ \A k \in 1 .. last :
              W[k] = IF W[k - 1] \in {h, NULL} THEN W[k - 1] ELSE m.next[W[k - 1]]
    BY <1>2, WalkAt
  <1>5. /\ w = [k \in 0 .. last |-> w[k]]
        /\ w[0] = m.next[h]
        /\ \A k \in 1 .. last :
              w[k] = IF w[k - 1] \in {h, NULL} THEN w[k - 1] ELSE m.next[w[k - 1]]
    BY WalkAt
  <1> HIDE DEF last
  <1>6. SUFFICES ASSUME NEW b \in 0 .. last, W[b] # w[b] PROVE FALSE
    <2>1. (\A k \in 0 .. last : W[k] = w[k]) => W = w
      BY <1>4, <1>5
    <2> QED BY <2>1 DEF W
  <1> DEFINE Bad == {k \in 0 .. last : W[k] # w[k]}
  <1>7. PICK k \in Bad : \A j \in Bad : ~ (<<j, k>> \in OpToRel(<, Nat))
    <2>1. Bad \subseteq Nat /\ b \in Bad
      BY <1>3, <1>6
    <2> HIDE DEF Bad
    <2> QED BY <2>1, NatLessThanWellFounded, WFMin
  <1>8. k \in 0 .. last /\ W[k] # w[k]
    OBVIOUS
  <1>9. \A j \in 0 .. last : j < k => W[j] = w[j]
    <2> TAKE j \in 0 .. last
    <2> HAVE j < k
    <2>1. <<j, k>> \in OpToRel(<, Nat)
      BY <1>3, <1>8 DEF OpToRel
    <2> QED BY <1>7, <2>1
  <1> HIDE DEF Bad
  <1>10. k # 0
    BY <1>4, <1>5, <1>8
  <1>11. k \in 1 .. last /\ k - 1 \in 0 .. last /\ k - 1 < k
    BY <1>3, <1>8, <1>10
  <1>12. W[k - 1] = w[k - 1]
    BY <1>9, <1>11
  <1> QED BY <1>4, <1>5, <1>8, <1>11, <1>12

LEMMA WalkIs ==
    ASSUME NEW m, NEW h \in {RQ, WQ}, NEW s, NEW lo, NEW hi,
           Numbering(s, lo, hi), Chained(m, h, s, lo, hi)
    PROVE  Walk(m, h) = [k \in 0 .. Cardinality(Node) |-> NodeAt(h, s, lo, hi, lo + k)]
  <1> DEFINE G == [k \in 0 .. Cardinality(Node) |-> NodeAt(h, s, lo, hi, lo + k)]
  <1>1. lo \in Int /\ hi \in Int /\ lo <= hi + 1 /\ Cardinality(Node) \in Nat
    BY HeadsAreNoTasks DEF Numbering
  <1>2. ASSUME NEW k \in 0 .. Cardinality(Node)
        PROVE  G[k] = IF k = 0 THEN m.next[h]
                      ELSE IF G[k - 1] \in {h, NULL} THEN G[k - 1] ELSE m.next[G[k - 1]]
    <2>1. CASE k = 0
      <3>1. NodeAt(h, s, lo, hi, lo - 1) = h /\ lo - 1 \in (lo - 1) .. hi
        BY <1>1 DEF NodeAt
      <3>2. m.next[h] = NodeAt(h, s, lo, hi, lo - 1 + 1)
        BY <3>1 DEF Chained
      <3>3. lo - 1 + 1 = lo + k
        BY <1>1, <2>1
      <3> QED BY <1>2, <2>1, <3>2, <3>3
    <2>2. CASE k # 0
      <3>1. k - 1 \in 0 .. Cardinality(Node) /\ lo + (k - 1) \in Int
        BY <1>1, <2>2
      <3>2. G[k - 1] = NodeAt(h, s, lo, hi, lo + (k - 1))
        BY <3>1
      <3>3. CASE lo + (k - 1) \in lo .. hi
        <4>1. NodeAt(h, s, lo, hi, lo + (k - 1)) \in Task
          BY <3>3 DEF NodeAt, Numbering
        <4>2. lo + (k - 1) \in (lo - 1) .. hi
          BY <1>1, <3>3
        <4>3. m.next[NodeAt(h, s, lo, hi, lo + (k - 1))] = NodeAt(h, s, lo, hi, lo + (k - 1) + 1)
          BY <4>2 DEF Chained
        <4>4. lo + (k - 1) + 1 = lo + k
          BY <1>1
        <4>5. NodeAt(h, s, lo, hi, lo + (k - 1)) \notin {h, NULL}
          BY <4>1, HeadsAreNoTasks
        <4> QED BY <1>2, <2>2, <3>2, <4>3, <4>4, <4>5
      <3>4. CASE lo + (k - 1) \notin lo .. hi
        <4>1. lo + k \notin lo .. hi
          BY <1>1, <2>2, <3>4
        <4> QED BY <1>2, <2>2, <3>2, <3>4, <4>1 DEF NodeAt
      <3> QED BY <3>3, <3>4
    <2> QED BY <2>1, <2>2
  <1>3. WalkOf(m, h, G)
    <2> DEFINE at(k) == IF k = 0 THEN m.next[h]
                        ELSE IF G[k - 1] \in {h, NULL} THEN G[k - 1] ELSE m.next[G[k - 1]]
    <2>1. \A k \in 0 .. Cardinality(Node) : G[k] = at(k)
      BY <1>2
    <2>2. G = [k \in 0 .. Cardinality(Node) |-> G[k]]
      OBVIOUS
    <2>3. G = [k \in 0 .. Cardinality(Node) |-> at(k)]
      <3> HIDE DEF at, G
      <3> QED BY <2>1, <2>2
    <2> HIDE DEF G
    <2> QED BY <2>3 DEF WalkOf
  <1> HIDE DEF G
  <1>4. Walk(m, h) = G
    BY <1>3, WalkOnce
  <1> QED BY <1>4 DEF G

\* What the code that walks through a list finds.
LEMMA RingWalk ==
    ASSUME NEW m, NEW h \in {RQ, WQ}, NEW S, RingOf(m, h, S)
    PROVE  /\ Ends(m, h) /\ Members(m, h) = S /\ S \subseteq Task
           /\ \A t \in Task : list_find(m, t, h) <=> t \in S
           /\ \A x \in S \cup {h} : m.prev[m.next[x]] = x /\ m.next[x] \in S \cup {h}
           /\ m.prev[h] \in S \cup {h}
           /\ Cardinality(S) \in Nat
           /\ m.next[h] = h <=> S = {}
           /\ S # {} => m.next[h] \in S
  <1>1. PICK s, lo, hi : Numbering(s, lo, hi) /\ LineOf(s, lo, hi) = S /\ Chained(m, h, s, lo, hi)
    BY DEF RingOf
  <1>2. lo \in Int /\ hi \in Int /\ lo <= hi + 1 /\ Cardinality(Node) \in Nat
        /\ hi - lo + 1 < Cardinality(Node) /\ h \notin Task /\ NULL \notin Task /\ h # NULL
    BY <1>1, HeadsAreNoTasks, LineLength DEF Numbering
  <1>3. Walk(m, h) = [k \in 0 .. Cardinality(Node) |-> NodeAt(h, s, lo, hi, lo + k)]
    BY <1>1, WalkIs
  <1> DEFINE N == Cardinality(Node)
             W == [k \in 0 .. N |-> NodeAt(h, s, lo, hi, lo + k)]
  <1>4. S \subseteq Task
    BY <1>1 DEF LineOf, Numbering
  <1>5. W[N] = h
    BY <1>2 DEF NodeAt
  <1>6. \A t \in S : \E k \in 0 .. N : W[k] = t
    <2> TAKE t \in S
    <2>1. PICK i \in lo .. hi : t = s[i]
      BY <1>1 DEF LineOf
    <2>2. i - lo \in 0 .. N /\ lo + (i - lo) = i
      BY <1>2, <2>1
    <2>3. W[i - lo] = s[i]
      BY <2>2 DEF NodeAt
    <2> QED BY <2>1, <2>2, <2>3
  <1>7. \A k \in 0 .. N : W[k] \in S \cup {h}
    BY <1>1, <1>2 DEF NodeAt, LineOf
  <1>8. Ends(m, h)
    BY <1>3, <1>5 DEF Ends
  <1>9. Members(m, h) = {W[k] : k \in 0 .. N} \ {h, NULL}
    BY <1>3 DEF Members
  <1>10. \A t \in Task : list_find(m, t, h) <=> \E k \in 0 .. N : W[k] = t
    BY <1>3 DEF list_find
  <1>16. \A i \in Int : NodeAt(h, s, lo, hi, i) \in S \cup {h}
    BY <1>1 DEF NodeAt, LineOf
  <1>17. m.prev[h] \in S \cup {h}
    <2>1. hi \in (lo - 1) .. hi /\ NodeAt(h, s, lo, hi, hi + 1) = h
      BY <1>2 DEF NodeAt
    <2> QED BY <1>1, <1>2, <1>16, <2>1 DEF Chained
  <1>11. \A x \in S \cup {h} : m.prev[m.next[x]] = x /\ m.next[x] \in S \cup {h}
    <2> TAKE x \in S \cup {h}
    <2>1. \E i \in (lo - 1) .. hi : x = NodeAt(h, s, lo, hi, i)
      <3>1. CASE x = h
        BY <1>2, <3>1 DEF NodeAt
      <3>2. CASE x \in S
        <4>1. PICK i \in lo .. hi : x = s[i]
          BY <1>1, <3>2 DEF LineOf
        <4>2. i \in (lo - 1) .. hi /\ x = NodeAt(h, s, lo, hi, i)
          BY <1>2, <4>1 DEF NodeAt
        <4> QED BY <4>2
      <3> QED BY <3>1, <3>2
    <2>2. \A i \in (lo - 1) .. hi : NodeAt(h, s, lo, hi, i + 1) \in S \cup {h}
      BY <1>2, <1>16
    <2> QED BY <1>1, <2>1, <2>2 DEF Chained
  <1>12. /\ m.next[h] = h <=> S = {}
         /\ S # {} => m.next[h] \in S
    <2>1. m.next[h] = NodeAt(h, s, lo, hi, lo)
      <3>1. lo - 1 \in (lo - 1) .. hi /\ NodeAt(h, s, lo, hi, lo - 1) = h /\ lo - 1 + 1 = lo
        BY <1>2 DEF NodeAt
      <3> QED BY <1>1, <3>1 DEF Chained
    <2>2. CASE lo = hi + 1
      <3>1. S = {} /\ m.next[h] = h
        BY <1>1, <1>2, <2>1, <2>2 DEF NodeAt, LineOf
      <3> QED BY <3>1
    <2>3. CASE lo <= hi
      <3>1. s[lo] \in S /\ m.next[h] = s[lo]
        BY <1>1, <1>2, <2>1, <2>3 DEF NodeAt, LineOf
      <3> QED BY <1>2, <1>4, <3>1
    <2> QED BY <1>2, <2>2, <2>3
  <1>13. Cardinality(S) \in Nat
    BY <1>4, WaitQueueAssumption, FS_Subset, FS_CardinalityType
  <1>14. Members(m, h) = S
    BY <1>2, <1>4, <1>6, <1>7, <1>9
  <1>15. \A t \in Task : list_find(m, t, h) <=> t \in S
    BY <1>2, <1>6, <1>7, <1>10
  <1> QED BY <1>4, <1>8, <1>11, <1>12, <1>13, <1>14, <1>15, <1>17

LEMMA RingFrame ==
    ASSUME NEW m, NEW a, NEW h, NEW S, RingOf(m, h, S),
           \A x \in S \cup {h} : a.next[x] = m.next[x] /\ a.prev[x] = m.prev[x]
    PROVE  RingOf(a, h, S)
  <1>1. PICK s, lo, hi : Numbering(s, lo, hi) /\ LineOf(s, lo, hi) = S /\ Chained(m, h, s, lo, hi)
    BY DEF RingOf
  <1>2. \A i \in Int : NodeAt(h, s, lo, hi, i) \in S \cup {h}
    BY <1>1 DEF NodeAt, LineOf
  <1>3. lo \in Int /\ hi \in Int
    BY <1>1 DEF Numbering
  <1>4. Chained(a, h, s, lo, hi)
    <2> SUFFICES ASSUME NEW i \in (lo - 1) .. hi
                 PROVE  /\ a.next[NodeAt(h, s, lo, hi, i)] = NodeAt(h, s, lo, hi, i + 1)
                        /\ a.prev[NodeAt(h, s, lo, hi, i + 1)] = NodeAt(h, s, lo, hi, i)
      BY DEF Chained
    <2>1. /\ m.next[NodeAt(h, s, lo, hi, i)] = NodeAt(h, s, lo, hi, i + 1)
          /\ m.prev[NodeAt(h, s, lo, hi, i + 1)] = NodeAt(h, s, lo, hi, i)
      BY <1>1 DEF Chained
    <2>2. i \in Int /\ i + 1 \in Int
      BY <1>3
    <2> QED BY <1>2, <2>1, <2>2
  <1> QED BY <1>1, <1>4 DEF RingOf

\* list_add_tail: one more task in the ring, the other nodes as they were.
LEMMA TailAdded ==
    ASSUME NEW m, Pointers(m), NEW h \in {RQ, WQ}, NEW S, RingOf(m, h, S),
           NEW n \in Task, n \notin S
    PROVE  LET a == list_add_tail(m, n, h)
           IN  /\ Pointers(a) /\ RingOf(a, h, S \cup {n})
               /\ a.len = m.len /\ a.state = m.state /\ a.bad = m.bad
               /\ \A x \in Node : x \notin S \cup {n, h} =>
                     a.next[x] = m.next[x] /\ a.prev[x] = m.prev[x]
  <1>1. PICK s, lo, hi : Numbering(s, lo, hi) /\ LineOf(s, lo, hi) = S /\ Chained(m, h, s, lo, hi)
    BY DEF RingOf
  <1> DEFINE p == m.prev[h]
             a == list_add_tail(m, n, h)
             A(i) == NodeAt(h, s, lo, hi, i)
             r == [i \in lo .. hi + 1 |-> IF i = hi + 1 THEN n ELSE s[i]]
             B(i) == NodeAt(h, r, lo, hi + 1, i)
  <1>2. lo \in Int /\ hi \in Int /\ lo <= hi + 1
    BY <1>1 DEF Numbering
  <1>3. /\ h \in Node /\ n \in Node /\ h # n /\ S \subseteq Task /\ h \notin S
        /\ p \in S \cup {h} /\ p # NULL /\ p \in Node /\ p # n
    BY RingWalk, HeadsAreNoTasks DEF Pointers
  <1>4. /\ a.prev = [m.prev EXCEPT ![h] = n, ![n] = p]
        /\ a.next = [m.next EXCEPT ![n] = h, ![p] = n]
        /\ a.len = m.len /\ a.state = m.state /\ a.bad = m.bad
        /\ a = [next |-> a.next, prev |-> a.prev, len |-> a.len, state |-> a.state,
                bad |-> a.bad]
    BY <1>3 DEF list_add_tail, Pointers
  <1> HIDE DEF a
  <1>5. Pointers(a)
    BY <1>3, <1>4 DEF Pointers
  <1>6. /\ a.next[n] = h /\ a.next[p] = n /\ a.prev[h] = n /\ a.prev[n] = p
        /\ \A x \in Node : x \notin {n, p} => a.next[x] = m.next[x]
        /\ \A x \in Node : x \notin {n, h} => a.prev[x] = m.prev[x]
    BY <1>3, <1>4 DEF Pointers
  <1>7. \A i \in lo .. hi : s[i] \in Task /\ s[i] \in S /\ s[i] # n /\ s[i] \in Node
    BY <1>1, <1>3, HeadsAreNoTasks DEF Numbering, LineOf
  <1>8. Numbering(r, lo, hi + 1)
    <2>1. \A i \in lo .. hi + 1 : r[i] = IF i = hi + 1 THEN n ELSE s[i]
      OBVIOUS
    <2>2. \A i \in lo .. hi + 1 : i # hi + 1 => i \in lo .. hi
      BY <1>2
    <2>3. \A i \in lo .. hi + 1 : r[i] \in Task
      BY <1>7, <2>1, <2>2
    <2> HIDE DEF r
    <2>4. ASSUME NEW i \in lo .. hi + 1, NEW j \in lo .. hi + 1, r[i] = r[j] PROVE i = j
      <3>1. CASE i # hi + 1 /\ j # hi + 1
        BY <1>1, <2>1, <2>2, <2>4, <3>1 DEF Numbering
      <3>2. CASE i = hi + 1 \/ j = hi + 1
        BY <1>7, <2>1, <2>2, <2>4, <3>2
      <3> QED BY <3>1, <3>2
    <2> QED BY <1>2, <2>3, <2>4 DEF Numbering
  <1>9. LineOf(r, lo, hi + 1) = S \cup {n}
    <2>1. hi + 1 \in lo .. hi + 1 /\ r[hi + 1] = n
      BY <1>2
    <2>2. \A i \in lo .. hi : i \in lo .. hi + 1 /\ r[i] = s[i]
      BY <1>2
    <2>3. \A i \in lo .. hi + 1 : i = hi + 1 \/ i \in lo .. hi
      BY <1>2
    <2> HIDE DEF r
    <2> QED BY <1>1, <2>1, <2>2, <2>3 DEF LineOf
  <1>10. /\ \A i \in (lo - 1) .. hi : B(i) = A(i)
         /\ B(hi + 1) = n /\ B(hi + 1 + 1) = h /\ A(hi + 1) = h
    <2>1. \A i \in (lo - 1) .. hi : i \in lo .. hi + 1 <=> i \in lo .. hi
      BY <1>2
    <2>2. \A i \in lo .. hi : r[i] = s[i]
      BY <1>2
    <2>3. \A i \in (lo - 1) .. hi : B(i) = A(i)
      BY <2>1, <2>2 DEF NodeAt
    <2> QED BY <1>2, <2>3 DEF NodeAt
  <1> HIDE DEF r
  <1>11. p = A(hi)
    BY <1>1, <1>2, <1>10 DEF Chained
  <1>12. \A i, j \in (lo - 1) .. hi : A(i) = A(j) => i = j
    <2> TAKE i, j \in (lo - 1) .. hi
    <2> HAVE A(i) = A(j)
    <2>1. (i = lo - 1 \/ i \in lo .. hi) /\ (j = lo - 1 \/ j \in lo .. hi)
      BY <1>2
    <2>2. lo - 1 \notin lo .. hi
      BY <1>2
    <2> QED BY <1>1, <1>3, <1>7, <2>1, <2>2 DEF NodeAt, Numbering
  <1>13. Chained(a, h, r, lo, hi + 1)
    <2> SUFFICES ASSUME NEW i \in (lo - 1) .. (hi + 1)
                 PROVE  a.next[B(i)] = B(i + 1) /\ a.prev[B(i + 1)] = B(i)
      BY DEF Chained
    <2>1. CASE i = hi + 1
      BY <1>6, <1>10, <2>1
    <2>2. CASE i = hi
      <3>1. B(i) = p /\ B(i + 1) = n
        BY <1>2, <1>10, <1>11, <2>2
      <3> QED BY <1>6, <3>1
    <2>3. CASE i < hi
      <3>1. i \in (lo - 1) .. hi /\ i + 1 \in lo .. hi /\ i + 1 \in (lo - 1) .. hi /\ hi \in (lo - 1) .. hi
        BY <1>2, <2>3
      <3>2. B(i) = A(i) /\ B(i + 1) = A(i + 1) /\ A(i + 1) = s[i + 1]
        BY <1>10, <3>1 DEF NodeAt
      <3>3. m.next[A(i)] = A(i + 1) /\ m.prev[A(i + 1)] = A(i)
        BY <1>1, <3>1 DEF Chained
      <3>4. A(i) \in Node /\ A(i) # n /\ A(i) # p
        <4>1. A(i) = h \/ A(i) \in S
          BY <1>1 DEF NodeAt, LineOf
        <4> HIDE DEF A
        <4> QED BY <1>2, <1>3, <1>11, <1>12, <2>3, <3>1, <4>1, HeadsAreNoTasks
      <3>5. A(i + 1) \in Node /\ A(i + 1) \notin {n, h}
        BY <1>3, <1>7, <3>1, <3>2
      <3> QED BY <1>6, <3>2, <3>3, <3>4, <3>5
    <2> QED BY <1>2, <2>1, <2>2, <2>3
  <1>14. RingOf(a, h, S \cup {n})
    BY <1>8, <1>9, <1>13 DEF RingOf
  <1>15. \A x \in Node : x \notin S \cup {n, h} =>
            a.next[x] = m.next[x] /\ a.prev[x] = m.prev[x]
    BY <1>3, <1>6
  <1> QED BY <1>4, <1>5, <1>14, <1>15 DEF a

\* __list_del_node of the first task.
LEMMA HeadUnlinked ==
    ASSUME NEW m, Pointers(m), NEW h \in {RQ, WQ}, NEW S, RingOf(m, h, S), S # {},
           NEW p \in Node \cup {NULL}, NEW n, n = m.next[h]
    PROVE  LET a == Unlink(m, n, p)
           IN  /\ n \in S /\ Pointers(a) /\ RingOf(a, h, S \ {n})
               /\ a.len = m.len /\ a.state = m.state /\ a.bad = m.bad
               /\ a.next[n] = p /\ a.prev[n] = p
               /\ \A x \in Node : x \notin S \cup {h} =>
                     a.next[x] = m.next[x] /\ a.prev[x] = m.prev[x]
  <1>1. PICK s, lo, hi : Numbering(s, lo, hi) /\ LineOf(s, lo, hi) = S /\ Chained(m, h, s, lo, hi)
    BY DEF RingOf
  <1> DEFINE a == Unlink(m, n, p)
             q == m.next[n]
             A(i) == NodeAt(h, s, lo, hi, i)
             B(i) == NodeAt(h, s, lo + 1, hi, i)
  <1>2. lo \in Int /\ hi \in Int /\ lo <= hi
    BY <1>1 DEF Numbering, LineOf
  <1>3. A(lo - 1) = h /\ A(lo) = s[lo] /\ A(hi + 1) = h
    BY <1>2 DEF NodeAt
  <1>4. /\ m.next[A(lo - 1)] = A(lo) /\ m.prev[A(lo)] = A(lo - 1)
        /\ m.next[A(lo)] = A(lo + 1) /\ m.prev[A(lo + 1)] = A(lo)
    <2>1. lo - 1 \in (lo - 1) .. hi /\ lo \in (lo - 1) .. hi /\ lo - 1 + 1 = lo
      BY <1>2
    <2> QED BY <1>1, <2>1 DEF Chained
  <1>5. n = s[lo] /\ n = A(lo) /\ q = A(lo + 1) /\ m.prev[n] = h
    BY <1>3, <1>4
  <1>6. \A i \in lo .. hi : s[i] \in Task /\ s[i] \in S /\ s[i] \in Node /\ s[i] # h
    BY <1>1, HeadsAreNoTasks DEF Numbering, LineOf
  <1>7. n \in S /\ n \in Task /\ n \in Node /\ n # h /\ h \in Node /\ h # NULL
    <2>1. lo \in lo .. hi
      BY <1>2
    <2>2. n \in S /\ n \in Task /\ n \in Node /\ n # h
      BY <1>5, <1>6, <2>1
    <2>3. h \in Node /\ h # NULL
      BY HeadsAreNoTasks
    <2> QED BY <2>2, <2>3
  <1>8. \A i, j \in lo .. (hi + 1) : A(i) = A(j) => i = j
    <2> TAKE i, j \in lo .. (hi + 1)
    <2> HAVE A(i) = A(j)
    <2>1. (i = hi + 1 \/ i \in lo .. hi) /\ (j = hi + 1 \/ j \in lo .. hi)
      BY <1>2
    <2>2. hi + 1 \notin lo .. hi
      BY <1>2
    <2> QED BY <1>1, <1>6, <2>1, <2>2 DEF NodeAt, Numbering
  <1>9. \A i \in (lo - 1) .. (hi + 1) : A(i) \in Node /\ A(i) \in S \cup {h}
    BY <1>6, <1>7 DEF NodeAt
  <1>10. q \in Node /\ q # n /\ q \in S \cup {h}
    <2>1. lo + 1 \in lo .. (hi + 1) /\ lo \in lo .. (hi + 1) /\ lo + 1 # lo
          /\ lo + 1 \in (lo - 1) .. (hi + 1)
      BY <1>2
    <2> HIDE DEF A
    <2> QED BY <1>5, <1>8, <1>9, <2>1
  <1>11. /\ a.prev = [m.prev EXCEPT ![q] = h, ![n] = p]
         /\ a.next = [m.next EXCEPT ![h] = q, ![n] = p]
         /\ a.len = m.len /\ a.state = m.state /\ a.bad = m.bad
         /\ a = [next |-> a.next, prev |-> a.prev, len |-> a.len, state |-> a.state,
                 bad |-> a.bad]
    <2>1. m.prev[n] # NULL
      BY <1>5, <1>7
    <2> QED BY <1>5, <2>1 DEF Unlink, Pointers
  <1> HIDE DEF a, q
  <1>12. Pointers(a)
    BY <1>7, <1>10, <1>11 DEF Pointers
  <1>13. /\ a.next[n] = p /\ a.next[h] = q /\ a.prev[n] = p /\ a.prev[q] = h
         /\ \A x \in Node : x \notin {n, h} => a.next[x] = m.next[x]
         /\ \A x \in Node : x \notin {n, q} => a.prev[x] = m.prev[x]
    BY <1>7, <1>10, <1>11 DEF Pointers
  <1>14. Numbering(s, lo + 1, hi)
    BY <1>1, <1>2 DEF Numbering
  <1>15. LineOf(s, lo + 1, hi) = S \ {n}
    <2>1. \A i \in (lo + 1) .. hi : i \in lo .. hi /\ i # lo
      BY <1>2
    <2>2. \A i \in lo .. hi : i = lo \/ i \in (lo + 1) .. hi
      BY <1>2
    <2>3. lo \in lo .. hi
      BY <1>2
    <2>4. \A i \in lo .. hi : s[i] = n => i = lo
      BY <1>1, <1>5, <2>3 DEF Numbering
    <2> QED BY <1>1, <1>5, <2>1, <2>2, <2>4 DEF LineOf
  <1>16. B(lo) = h /\ \A i \in (lo + 1) .. (hi + 1) : B(i) = A(i)
    BY <1>2 DEF NodeAt
  <1>17. Chained(a, h, s, lo + 1, hi)
    <2> SUFFICES ASSUME NEW i \in ((lo + 1) - 1) .. hi
                 PROVE  a.next[B(i)] = B(i + 1) /\ a.prev[B(i + 1)] = B(i)
      BY DEF Chained
    <2>1. i \in lo .. hi
      BY <1>2
    <2>2. i + 1 \in (lo + 1) .. (hi + 1) /\ i + 1 \in (lo - 1) .. (hi + 1) /\ i \in Int
          /\ i \in (lo - 1) .. (hi + 1) /\ i \in (lo - 1) .. hi
          /\ i + 1 \in lo .. (hi + 1) /\ i \in lo .. (hi + 1) /\ lo \in lo .. (hi + 1)
          /\ lo + 1 \in lo .. (hi + 1)
      BY <1>2, <2>1
    <2>3. B(i + 1) = A(i + 1)
      BY <1>16, <2>2
    <2> HIDE DEF A, B
    <2>4. CASE i = lo
      BY <1>5, <1>13, <1>16, <2>3, <2>4
    <2>5. CASE i # lo
      <3>1. i \in (lo + 1) .. (hi + 1) /\ i + 1 # lo + 1 /\ i + 1 # lo
        BY <1>2, <2>1, <2>5
      <3>2. B(i) = A(i) /\ A(i) = s[i]
        BY <1>16, <2>1, <2>2, <3>1 DEF A, NodeAt
      <3>3. A(i) \notin {n, h} /\ A(i + 1) \notin {n, q}
        BY <1>5, <1>6, <1>8, <2>1, <2>2, <2>5, <3>1, <3>2
      <3>4. m.next[A(i)] = A(i + 1) /\ m.prev[A(i + 1)] = A(i)
        BY <1>1, <2>2 DEF Chained, A
      <3>5. A(i) \in Node /\ A(i + 1) \in Node
        BY <1>9, <2>2
      <3> QED BY <1>13, <2>3, <3>2, <3>3, <3>4, <3>5
    <2> QED BY <2>4, <2>5
  <1>18. RingOf(a, h, S \ {n})
    BY <1>14, <1>15, <1>17 DEF RingOf
  <1>19. \A x \in Node : x \notin S \cup {h} =>
            a.next[x] = m.next[x] /\ a.prev[x] = m.prev[x]
    BY <1>7, <1>10, <1>13
  <1> QED BY <1>7, <1>11, <1>12, <1>13, <1>18, <1>19 DEF a

-----------------------------------------------------------------------------
(* The calls of the scheduler and of the wait queues.                      *)

ReadyIn(m) == {t \in Task : m.state[t] = "READY"}

\* The ready queue holds the READY tasks, and their number is the counter.
ReadyQueue(m) ==
    /\ Pointers(m) /\ RingOf(m, RQ, ReadyIn(m))
    /\ m.len = Cardinality(ReadyIn(m))

\* Only nodes in S may have moved from m to a.
Moved(m, a, S) ==
    \A x \in Node \ S : a.next[x] = m.next[x] /\ a.prev[x] = m.prev[x]

LEMMA ReadyAdded ==
    ASSUME NEW m, ReadyQueue(m), NEW t \in Task, m.state[t] # "READY"
    PROVE  LET a == add_ready(m, t)
           IN  /\ ReadyQueue(a) /\ a.state = [m.state EXCEPT ![t] = "READY"]
               /\ a.bad = m.bad /\ ReadyIn(a) = ReadyIn(m) \cup {t}
               /\ Moved(m, a, ReadyIn(m) \cup {RQ, t})
  <1> DEFINE l == list_add_tail(m, t, RQ)
             a == add_ready(m, t)
  <1>1. Pointers(m) /\ RingOf(m, RQ, ReadyIn(m)) /\ m.len = Cardinality(ReadyIn(m))
        /\ t \notin ReadyIn(m) /\ IsFiniteSet(ReadyIn(m))
    <2>1. IsFiniteSet(ReadyIn(m))
      BY WaitQueueAssumption, FS_Subset DEF ReadyIn
    <2> QED BY <2>1 DEF ReadyQueue, ReadyIn
  <1>2. /\ Pointers(l) /\ RingOf(l, RQ, ReadyIn(m) \cup {t})
        /\ l.len = m.len /\ l.state = m.state /\ l.bad = m.bad
        /\ \A x \in Node : x \notin ReadyIn(m) \cup {t, RQ} =>
              l.next[x] = m.next[x] /\ l.prev[x] = m.prev[x]
    BY <1>1, TailAdded
  <1> HIDE DEF l
  <1>3. /\ a.next = l.next /\ a.prev = l.prev /\ a.len = l.len + 1 /\ a.bad = l.bad
        /\ a.state = [l.state EXCEPT ![t] = "READY"]
        /\ a = [next |-> a.next, prev |-> a.prev, len |-> a.len, state |-> a.state,
                bad |-> a.bad]
    <2>1. a = [l EXCEPT !.state[t] = "READY", !.len = @ + 1]
      BY DEF add_ready, l
    <2> HIDE DEF a
    <2> QED BY <1>2, <2>1 DEF Pointers
  <1> HIDE DEF a
  <1>4. Pointers(a)
    BY <1>2, <1>3 DEF Pointers
  <1>5. ReadyIn(a) = ReadyIn(m) \cup {t}
    BY <1>1, <1>2, <1>3 DEF ReadyIn, Pointers
  <1>6. RingOf(a, RQ, ReadyIn(a))
    BY <1>2, <1>3, <1>5, RingFrame
  <1>7. Cardinality(ReadyIn(m) \cup {t}) = Cardinality(ReadyIn(m)) + 1
    BY <1>1, FS_AddElement
  <1>8. Moved(m, a, ReadyIn(m) \cup {RQ, t})
    BY <1>2, <1>3 DEF Moved
  <1> QED BY <1>1, <1>2, <1>3, <1>4, <1>5, <1>6, <1>7, <1>8 DEF ReadyQueue, a

\* fetch_first: the head of the ready queue runs, if there is one.
LEMMA FirstFetched ==
    ASSUME NEW m, ReadyQueue(m)
    PROVE  LET a == fetch_first(m)
               t == NextTask(m)
           IN  /\ ReadyQueue(a) /\ a.bad = m.bad
               /\ Moved(m, a, ReadyIn(m) \cup {RQ})
               /\ m.len = 0 => ReadyIn(m) = {} /\ t = Idle /\ a = m
               /\ m.len # 0 => /\ t \in ReadyIn(m) /\ a.next[t] = t
                               /\ a.state = [m.state EXCEPT ![t] = "RUNNING"]
                               /\ ReadyIn(a) = ReadyIn(m) \ {t}
  <1> DEFINE S == ReadyIn(m)
             a == fetch_first(m)
             t == m.next[RQ]
             l == list_del_init(m, t)
  <1>1. Pointers(m) /\ RingOf(m, RQ, S) /\ m.len = Cardinality(S) /\ S \subseteq Task
        /\ IsFiniteSet(S)
    <2>1. IsFiniteSet(ReadyIn(m))
      BY WaitQueueAssumption, FS_Subset DEF ReadyIn
    <2> QED BY <2>1 DEF ReadyQueue, ReadyIn
  <1>2. CASE m.len = 0
    <2>1. S = {}
      BY <1>1, <1>2, FS_EmptySet
    <2>2. a = m /\ NextTask(m) = Idle
      BY <1>2 DEF fetch_first, NextTask
    <2> QED BY <1>2, <2>1, <2>2 DEF Moved
  <1>3. CASE m.len # 0
    <2>1. S # {}
      BY <1>1, <1>3, FS_EmptySet
    <2>2. t \in S /\ t \in Task /\ t \in Node
      BY <1>1, <2>1, RingWalk, HeadsAreNoTasks
    <2>3. NextTask(m) = t
      BY <1>3 DEF NextTask
    <2> HIDE DEF S
    <2>4. /\ Pointers(l) /\ RingOf(l, RQ, S \ {t})
          /\ l.len = m.len /\ l.state = m.state /\ l.bad = m.bad /\ l.next[t] = t
          /\ \A x \in Node : x \notin S \cup {RQ} =>
                l.next[x] = m.next[x] /\ l.prev[x] = m.prev[x]
      <3>1. l = Unlink(m, t, t) /\ t = m.next[RQ] /\ t \in Node \cup {NULL}
        BY <2>2 DEF list_del_init
      <3>2. RQ \in {RQ, WQ}
        OBVIOUS
      <3> HIDE DEF l, t
      <3>3. LET b == Unlink(m, t, t)
            IN  /\ t \in S /\ Pointers(b) /\ RingOf(b, RQ, S \ {t})
                /\ b.len = m.len /\ b.state = m.state /\ b.bad = m.bad
                /\ b.next[t] = t /\ b.prev[t] = t
                /\ \A x \in Node : x \notin S \cup {RQ} =>
                      b.next[x] = m.next[x] /\ b.prev[x] = m.prev[x]
        BY <1>1, <2>1, <3>1, <3>2, HeadUnlinked
      <3> QED BY <3>1, <3>3
    <2> HIDE DEF l
    <2>5. /\ a.next = l.next /\ a.prev = l.prev /\ a.len = l.len - 1 /\ a.bad = l.bad
          /\ a.state = [l.state EXCEPT ![t] = "RUNNING"]
          /\ a = [next |-> a.next, prev |-> a.prev, len |-> a.len, state |-> a.state,
                  bad |-> a.bad]
      <3>1. a = [l EXCEPT !.len = @ - 1, !.state[t] = "RUNNING"]
        BY <1>3, <2>2 DEF fetch_first, l
      <3> HIDE DEF a
      <3> QED BY <2>4, <3>1 DEF Pointers
    <2> HIDE DEF a
    <2>6. Pointers(a)
      BY <2>2, <2>4, <2>5 DEF Pointers
    <2>7. ReadyIn(a) = S \ {t}
      BY <1>1, <2>2, <2>4, <2>5 DEF ReadyIn, Pointers, S
    <2>8. RingOf(a, RQ, ReadyIn(a))
      BY <2>4, <2>5, <2>7, RingFrame
    <2>9. Cardinality(S \ {t}) = Cardinality(S) - 1
      BY <1>1, <2>2, FS_RemoveElement
    <2>10. Moved(m, a, S \cup {RQ})
      BY <2>4, <2>5 DEF Moved
    <2> QED BY <1>1, <1>3, <2>2, <2>3, <2>4, <2>5, <2>6, <2>7, <2>8, <2>9, <2>10
            DEF ReadyQueue, a, S
  <1> QED BY <1>2, <1>3

\* wait_queue_add, and what is in the ready queue stays there.
LEMMA WaitAdded ==
    ASSUME NEW m, ReadyQueue(m), NEW S, RingOf(m, WQ, S), S \cap ReadyIn(m) = {},
           NEW t \in Task, t \notin S, t \notin ReadyIn(m)
    PROVE  LET a == wait_queue_add(m, t)
           IN  /\ ReadyQueue(a) /\ RingOf(a, WQ, S \cup {t})
               /\ a.state = m.state /\ a.bad = m.bad
  <1> DEFINE a == wait_queue_add(m, t)
  <1>1. ~ list_find(m, t, WQ) /\ Ends(m, WQ)
    BY RingWalk
  <1>2. a = list_add_tail(m, t, WQ)
    BY <1>1 DEF wait_queue_add
  <1>3. Pointers(m) /\ RingOf(m, RQ, ReadyIn(m)) /\ m.len = Cardinality(ReadyIn(m))
    BY DEF ReadyQueue
  <1>4. /\ Pointers(a) /\ RingOf(a, WQ, S \cup {t})
        /\ a.len = m.len /\ a.state = m.state /\ a.bad = m.bad
        /\ \A x \in Node : x \notin S \cup {t, WQ} =>
              a.next[x] = m.next[x] /\ a.prev[x] = m.prev[x]
    BY <1>2, <1>3, TailAdded
  <1> HIDE DEF a
  <1>5. ReadyIn(a) = ReadyIn(m)
    BY <1>4 DEF ReadyIn
  <1>6. \A x \in ReadyIn(m) \cup {RQ} : x \in Node /\ x \notin S \cup {t, WQ}
    <2>1. S \subseteq Task /\ ReadyIn(m) \subseteq Task
      BY RingWalk DEF ReadyIn
    <2> QED BY <2>1, HeadsAreNoTasks
  <1>7. RingOf(a, RQ, ReadyIn(m))
    BY <1>3, <1>4, <1>6, RingFrame
  <1> QED BY <1>3, <1>4, <1>5, <1>7 DEF ReadyQueue, a

\* wait_queue_wakeup of an empty queue, and of one whose tasks are blocked.
LEMMA NobodyAwake ==
    ASSUME NEW m, RingOf(m, WQ, {})
    PROVE  wait_queue_wakeup(m) = m /\ WakeupIfAny(m) = m
  <1>1. Ends(m, WQ) /\ m.next[WQ] = WQ
    BY RingWalk
  <1> QED BY <1>1 DEF WakeupIfAny, wait_queue_wakeup

LEMMA HeadAwake ==
    ASSUME NEW m, ReadyQueue(m), NEW S, RingOf(m, WQ, S), S # {},
           \A t \in S : m.state[t] = "BLOCKED"
    PROVE  \E t \in S :
              LET a == wait_queue_wakeup(m)
              IN  /\ WakeupIfAny(m) = a /\ ReadyQueue(a) /\ RingOf(a, WQ, S \ {t})
                  /\ a.state = [m.state EXCEPT ![t] = "READY"] /\ a.bad = m.bad
  <1> DEFINE t == m.next[WQ]
             l == list_del(m, t)
             a == wait_queue_wakeup(m)
  <1>1. Ends(m, WQ) /\ S \subseteq Task /\ t \in S
    BY RingWalk
  <1>2. WakeupIfAny(m) = a
    BY <1>1 DEF WakeupIfAny
  <1>3. t \in S /\ t \in Task /\ t # WQ /\ m.state[t] = "BLOCKED"
    BY <1>1, HeadsAreNoTasks
  <1>4. a = task_wakeup(l, t)
    BY <1>3 DEF wait_queue_wakeup
  <1>5. Pointers(m) /\ RingOf(m, RQ, ReadyIn(m)) /\ m.len = Cardinality(ReadyIn(m))
    BY DEF ReadyQueue
  <1>6. /\ Pointers(l) /\ RingOf(l, WQ, S \ {t})
        /\ l.len = m.len /\ l.state = m.state /\ l.bad = m.bad
        /\ \A x \in Node : x \notin S \cup {WQ} =>
              l.next[x] = m.next[x] /\ l.prev[x] = m.prev[x]
    BY <1>5, HeadUnlinked DEF list_del
  <1> HIDE DEF l, a
  <1>7. ReadyIn(l) = ReadyIn(m) /\ S \cap ReadyIn(m) = {}
    BY <1>6 DEF ReadyIn
  <1>8. \A x \in ReadyIn(m) \cup {RQ} : x \in Node /\ x \notin S \cup {WQ}
    BY <1>1, <1>7, HeadsAreNoTasks DEF ReadyIn
  <1>9. RingOf(l, RQ, ReadyIn(l))
    BY <1>5, <1>6, <1>7, <1>8, RingFrame
  <1>10. ReadyQueue(l)
    BY <1>5, <1>6, <1>7, <1>9 DEF ReadyQueue
  <1>11. ~ list_find(l, t, RQ) /\ Ends(l, RQ)
    BY <1>3, <1>7, <1>9, RingWalk
  <1>12. a = add_ready(l, t)
    BY <1>3, <1>4, <1>6, <1>11 DEF task_wakeup
  <1>13. /\ ReadyQueue(a) /\ a.state = [l.state EXCEPT ![t] = "READY"]
         /\ a.bad = l.bad /\ Moved(l, a, ReadyIn(l) \cup {RQ, t})
    BY <1>3, <1>6, <1>10, <1>12, ReadyAdded
  <1>14. \A x \in (S \ {t}) \cup {WQ} : x \in Node \ (ReadyIn(l) \cup {RQ, t})
    BY <1>1, <1>3, <1>7, HeadsAreNoTasks DEF ReadyIn
  <1>15. RingOf(a, WQ, S \ {t})
    BY <1>6, <1>13, <1>14, RingFrame DEF Moved
  <1> QED BY <1>2, <1>3, <1>6, <1>13, <1>15 DEF a

\* kthread_start: every task is ready.
LEMMA BootQueues ==
    ASSUME NEW first \in Task
    PROVE  LET m == BootMemory(first)
           IN  /\ ReadyQueue(m) /\ RingOf(m, WQ, {})
               /\ m.state = [t \in Task |-> "READY"] /\ m.bad = "no"
  <1> DEFINE n == Cardinality(Task)
             Order(f) == /\ f[1] = first
                         /\ \A i, j \in DOMAIN f : f[i] = f[j] => i = j
             order == CHOOSE f \in [1 .. n -> Task] : Order(f)
             at(i) == IF i \in 1 .. n THEN order[i] ELSE RQ
             pos(t) == CHOOSE i \in 1 .. n : order[i] = t
             m == BootMemory(first)
  <1>1. n \in Nat \ {0} /\ IsFiniteSet(Task)
    BY WaitQueueAssumption, HeadsAreNoTasks
  <1>2. \E f \in [1 .. n -> Task] : Order(f)
    <2>1. PICK g \in Bijection(1 .. n, Task) : TRUE
      BY <1>1, FS_CardinalityType DEF ExistsBijection
    <2>2. g \in [1 .. n -> Task] /\ \A i, j \in 1 .. n : g[i] = g[j] => i = j
      BY <2>1 DEF Bijection, Injection, IsInjective
    <2>3. PICK k \in 1 .. n : g[k] = first
      BY <2>1 DEF Bijection, Surjection
    <2> DEFINE f == [i \in 1 .. n |-> IF i = 1 THEN first ELSE IF i = k THEN g[1] ELSE g[i]]
    <2>4. 1 \in 1 .. n
      BY <1>1
    <2>5. f \in [1 .. n -> Task] /\ f[1] = first
      BY <2>2, <2>4
    <2>6. \A i, j \in 1 .. n : f[i] = f[j] => i = j
      BY <2>2, <2>3, <2>4
    <2> HIDE DEF f
    <2> QED BY <2>5, <2>6
  <1>3. order \in [1 .. n -> Task] /\ Order(order)
    <2> HIDE DEF Order
    <2> QED BY <1>2
  <1>4. m = [next  |-> [x \in Node |-> CASE x = WQ -> WQ
                                         [] x = RQ -> at(1)
                                         [] OTHER -> at(pos(x) + 1)],
             prev  |-> [x \in Node |-> CASE x = WQ -> WQ
                                         [] x = RQ -> at(n)
                                         [] OTHER -> at(pos(x) - 1)],
             len   |-> n,
             state |-> [t \in Task |-> "READY"],
             bad   |-> "no"]
    BY DEF BootMemory
  <1> HIDE DEF m, order
  <1>5. Numbering(order, 1, n)
    BY <1>1, <1>3 DEF Numbering
  <1>6. LineOf(order, 1, n) = Task
    <2>1. LineOf(order, 1, n) \subseteq Task
      BY <1>3 DEF LineOf
    <2>2. Cardinality(LineOf(order, 1, n)) = n - 1 + 1
      BY <1>5, LineLength
    <2> QED BY <1>1, <2>1, <2>2, FS_Subset
  <1>7. \A i \in 1 .. n : pos(order[i]) = i
    <2> TAKE i \in 1 .. n
    <2>1. pos(order[i]) \in 1 .. n /\ order[pos(order[i])] = order[i]
      OBVIOUS
    <2> HIDE DEF pos
    <2> QED BY <1>3, <2>1
  <1>8. \A t \in Task : pos(t) \in 1 .. n
    <2> TAKE t \in Task
    <2>1. \E i \in 1 .. n : order[i] = t
      BY <1>6 DEF LineOf
    <2> QED BY <2>1
  <1> HIDE DEF pos
  <1>9. \A i \in Int : at(i) \in Task \cup {RQ} /\ at(i) = NodeAt(RQ, order, 1, n, i)
    BY <1>3 DEF NodeAt
  <1>10. \A i \in Int : i \in 1 .. n => at(i) = order[i]
    OBVIOUS
  <1>11. at(0) = RQ /\ at(n + 1) = RQ
    BY <1>1
  <1> HIDE DEF at
  <1>12. /\ m.next[WQ] = WQ /\ m.prev[WQ] = WQ /\ m.next[RQ] = at(1) /\ m.prev[RQ] = at(n)
         /\ \A t \in Task : m.next[t] = at(pos(t) + 1) /\ m.prev[t] = at(pos(t) - 1)
    BY <1>4, HeadsAreNoTasks
  <1>13. Pointers(m)
    <2>1. \A x \in Node : m.next[x] \in Node /\ m.prev[x] \in Node
      <3> TAKE x \in Node
      <3>1. x = WQ \/ x = RQ \/ x \in Task
        BY DEF Node
      <3>2. CASE x \in Task
        <4>1. pos(x) + 1 \in Int /\ pos(x) - 1 \in Int
          BY <1>1, <1>8, <3>2
        <4> QED BY <1>9, <1>12, <3>2, <4>1, HeadsAreNoTasks
      <3> QED BY <1>1, <1>9, <1>12, <3>1, <3>2, HeadsAreNoTasks
    <2>2. m.next = [x \in Node |-> m.next[x]] /\ m.prev = [x \in Node |-> m.prev[x]]
      BY <1>4
    <2>3. m.next \in [Node -> Node \cup {NULL}] /\ m.prev \in [Node -> Node \cup {NULL}]
      BY <2>1, <2>2
    <2>4. m.len = n /\ m.state = [t \in Task |-> "READY"]
          /\ m = [next |-> m.next, prev |-> m.prev, len |-> m.len, state |-> m.state,
                  bad |-> m.bad]
      BY <1>4
    <2> QED BY <1>1, <2>3, <2>4 DEF Pointers
  <1>14. Chained(m, RQ, order, 1, n)
    <2>1. 1 - 1 = 0
      OBVIOUS
    <2> SUFFICES ASSUME NEW i \in 0 .. n
                 PROVE  m.next[at(i)] = at(i + 1) /\ m.prev[at(i + 1)] = at(i)
      BY <1>1, <1>9, <2>1 DEF Chained
    <2>2. m.next[at(i)] = at(i + 1)
      <3>1. CASE i = 0
        BY <1>11, <1>12, <3>1
      <3>2. CASE i # 0
        <4>1. i \in 1 .. n
          BY <1>1, <3>2
        <4>2. at(i) = order[i] /\ order[i] \in Task /\ pos(order[i]) = i
          BY <1>3, <1>7, <1>10, <4>1
        <4> QED BY <1>12, <4>2
      <3> QED BY <3>1, <3>2
    <2>3. m.prev[at(i + 1)] = at(i)
      <3>1. CASE i = n
        BY <1>11, <1>12, <3>1
      <3>2. CASE i # n
        <4>1. i + 1 \in 1 .. n /\ i + 1 - 1 = i
          BY <1>1, <3>2
        <4>2. at(i + 1) = order[i + 1] /\ order[i + 1] \in Task /\ pos(order[i + 1]) = i + 1
          BY <1>3, <1>7, <1>10, <4>1
        <4>3. m.prev[order[i + 1]] = at(pos(order[i + 1]) - 1)
          BY <1>12, <4>2
        <4> QED BY <1>1, <4>1, <4>2, <4>3
      <3> QED BY <3>1, <3>2
    <2> QED BY <2>2, <2>3
  <1>15. ReadyIn(m) = Task /\ m.len = Cardinality(Task)
    BY <1>4 DEF ReadyIn
  <1>16. RingOf(m, RQ, ReadyIn(m))
    BY <1>5, <1>6, <1>14, <1>15 DEF RingOf
  <1>17. RingOf(m, WQ, {})
    <2> DEFINE s == [i \in {} |-> RQ]
    <2>1. Numbering(s, 1, 0) /\ LineOf(s, 1, 0) = {}
      BY DEF Numbering, LineOf
    <2>2. Chained(m, WQ, s, 1, 0)
      BY <1>12 DEF Chained, NodeAt
    <2> QED BY <2>1, <2>2 DEF RingOf
  <1> QED BY <1>4, <1>13, <1>15, <1>16, <1>17 DEF ReadyQueue, m

\* schedule(), the task that ran being where it goes.
LEMMA Switched ==
    ASSUME NEW m, ReadyQueue(m), \A t \in Task : m.state[t] # "RUNNING"
    PROVE  LET a == fetch_first(m)
               c == NextTask(m)
           IN  /\ ReadyQueue(a) /\ a.bad = m.bad /\ c \in Task \cup {Idle}
               /\ \A t \in Task : a.state[t] = "RUNNING" <=> t = c
               /\ \A t \in Task : a.state[t] = "BLOCKED" <=> m.state[t] = "BLOCKED"
               /\ Moved(m, a, ReadyIn(m) \cup {RQ})
               /\ \A x \in ReadyIn(m) \cup {RQ} : a.next[x] # WQ
  <1> DEFINE a == fetch_first(m)
             c == NextTask(m)
  <1>1. /\ ReadyQueue(a) /\ a.bad = m.bad
        /\ Moved(m, a, ReadyIn(m) \cup {RQ})
        /\ m.len = 0 => ReadyIn(m) = {} /\ c = Idle /\ a = m
        /\ m.len # 0 => /\ c \in ReadyIn(m) /\ a.next[c] = c
                        /\ a.state = [m.state EXCEPT ![c] = "RUNNING"]
                        /\ ReadyIn(a) = ReadyIn(m) \ {c}
    BY FirstFetched
  <1> HIDE DEF a, c
  <1>2. \A x \in ReadyIn(a) \cup {RQ} : a.next[x] # WQ
    <2>1. RingOf(a, RQ, ReadyIn(a)) /\ ReadyIn(a) \subseteq Task
      BY <1>1 DEF ReadyQueue, ReadyIn
    <2>2. \A x \in ReadyIn(a) \cup {RQ} : a.next[x] \in ReadyIn(a) \cup {RQ}
      BY <2>1, RingWalk
    <2> QED BY <2>1, <2>2, HeadsAreNoTasks
  <1>3. m.state \in [Task -> {"READY", "RUNNING", "BLOCKED"}]
    BY DEF ReadyQueue, Pointers
  <1>4. CASE m.len = 0
    BY <1>1, <1>2, <1>4, HeadsAreNoTasks DEF a, c
  <1>5. CASE m.len # 0
    <2>1. c \in Task /\ m.state[c] = "READY"
      BY <1>1, <1>5 DEF ReadyIn
    <2>2. \A x \in ReadyIn(m) \cup {RQ} : a.next[x] # WQ
      BY <1>1, <1>2, <1>5, <2>1, HeadsAreNoTasks
    <2>3. /\ \A t \in Task : a.state[t] = "RUNNING" <=> t = c
          /\ \A t \in Task : a.state[t] = "BLOCKED" <=> m.state[t] = "BLOCKED"
      BY <1>1, <1>3, <1>5, <2>1
    <2> QED BY <1>1, <2>1, <2>2, <2>3 DEF a, c
  <1> QED BY <1>4, <1>5

\* The clock takes the CPU from task c.
LEMMA Preempted ==
    ASSUME NEW m, ReadyQueue(m), NEW c \in Task,
           \A t \in Task : m.state[t] = "RUNNING" <=> t = c
    PROVE  LET a == fetch_first(add_ready(m, c))
               d == NextTask(add_ready(m, c))
           IN  /\ ReadyQueue(a) /\ a.bad = m.bad /\ d \in Task \cup {Idle}
               /\ \A t \in Task : a.state[t] = "RUNNING" <=> t = d
               /\ \A t \in Task : a.state[t] = "BLOCKED" <=> m.state[t] = "BLOCKED"
               /\ Moved(m, a, ReadyIn(m) \cup {RQ, c})
               /\ \A x \in ReadyIn(m) \cup {RQ, c} : a.next[x] # WQ
  <1> DEFINE l == add_ready(m, c)
             a == fetch_first(l)
             d == NextTask(l)
  <1>1. m.state[c] # "READY" /\ m.state \in [Task -> {"READY", "RUNNING", "BLOCKED"}]
    BY DEF ReadyQueue, Pointers
  <1>2. /\ ReadyQueue(l) /\ l.state = [m.state EXCEPT ![c] = "READY"]
        /\ l.bad = m.bad /\ ReadyIn(l) = ReadyIn(m) \cup {c}
        /\ Moved(m, l, ReadyIn(m) \cup {RQ, c})
    BY <1>1, ReadyAdded
  <1> HIDE DEF l
  <1>3. /\ \A t \in Task : l.state[t] # "RUNNING"
        /\ \A t \in Task : l.state[t] = "BLOCKED" <=> m.state[t] = "BLOCKED"
    BY <1>1, <1>2
  <1>4. /\ ReadyQueue(a) /\ a.bad = l.bad /\ d \in Task \cup {Idle}
        /\ \A t \in Task : a.state[t] = "RUNNING" <=> t = d
        /\ \A t \in Task : a.state[t] = "BLOCKED" <=> l.state[t] = "BLOCKED"
        /\ Moved(l, a, ReadyIn(l) \cup {RQ})
        /\ \A x \in ReadyIn(l) \cup {RQ} : a.next[x] # WQ
    <2>1. ReadyQueue(l) /\ \A t \in Task : l.state[t] # "RUNNING"
      BY <1>2, <1>3
    <2> QED BY <2>1, Switched
  <1> HIDE DEF a, d
  <1>5. ReadyIn(l) \cup {RQ} = ReadyIn(m) \cup {RQ, c}
    BY <1>2
  <1>6. Moved(m, a, ReadyIn(m) \cup {RQ, c})
    BY <1>2, <1>4, <1>5 DEF Moved
  <1>7. \A x \in ReadyIn(m) \cup {RQ, c} : a.next[x] # WQ
    BY <1>4, <1>5
  <1> QED BY <1>2, <1>3, <1>4, <1>6, <1>7 DEF a, d, l

\* What a walk meets exists, whatever the pointers are.
WalkTo(m, h, n, w) ==
    w = [k \in 0 .. n |->
            IF k = 0 THEN m.next[h]
            ELSE LET x == w[k - 1] IN IF x \in {h, NULL} THEN x ELSE m.next[x]]

LEMMA WalkGoesOn ==
    ASSUME NEW m, NEW h, NEW n \in Nat \ {0}, NEW v, WalkTo(m, h, n - 1, v)
    PROVE  \E w : WalkTo(m, h, n, w)
  <1> DEFINE at(w, k) == IF k = 0 THEN m.next[h]
                         ELSE IF w[k - 1] \in {h, NULL} THEN w[k - 1] ELSE m.next[w[k - 1]]
             w == [k \in 0 .. n |-> IF k = n THEN at(v, n) ELSE v[k]]
  <1>1. v = [k \in 0 .. (n - 1) |-> at(v, k)]
    BY DEF WalkTo
  <1>2. \A k \in 0 .. (n - 1) : v[k] = at(v, k)
    <2> HIDE DEF at
    <2> QED BY <1>1
  <1>3. \A k \in 0 .. (n - 1) : w[k] = v[k]
    OBVIOUS
  <1>4. w[n] = at(v, n)
    OBVIOUS
  <1>5. w = [k \in 0 .. n |-> w[k]]
    OBVIOUS
  <1> HIDE DEF w
  <1>6. \A k \in 0 .. n : w[k] = at(w, k)
    <2> TAKE k \in 0 .. n
    <2>1. at(w, k) = at(v, k)
      <3>1. CASE k = 0
        BY <3>1
      <3>2. CASE k # 0
        <4>1. k - 1 \in 0 .. (n - 1)
          BY <3>2
        <4>2. w[k - 1] = v[k - 1]
          BY <1>3, <4>1
        <4> QED BY <3>2, <4>2
      <3> QED BY <3>1, <3>2
    <2> HIDE DEF at
    <2> QED BY <1>2, <1>3, <1>4, <2>1
  <1>7. w = [k \in 0 .. n |-> at(w, k)]
    <2> HIDE DEF at
    <2> QED BY <1>5, <1>6
  <1> QED BY <1>7 DEF WalkTo

LEMMA WalkIsWalk ==
    ASSUME NEW m, NEW h
    PROVE  WalkOf(m, h, Walk(m, h))
  <1> DEFINE Bad == {n \in Nat : ~ \E w : WalkTo(m, h, n, w)}
  <1>1. SUFFICES ASSUME Bad # {} PROVE FALSE
    <2>1. Bad = {} => \E w : WalkOf(m, h, w)
      <3>1. Bad = {} => \E w : WalkTo(m, h, Cardinality(Node), w)
        <4>1. Cardinality(Node) \in Nat
          BY HeadsAreNoTasks
        <4>2. \A n \in Nat : n \in Bad \/ \E w : WalkTo(m, h, n, w)
          OBVIOUS
        <4> HIDE DEF Bad
        <4> QED BY <4>1, <4>2
      <3> QED BY <3>1 DEF WalkOf, WalkTo
    <2>2. Walk(m, h) = CHOOSE g : WalkOf(m, h, g)
      BY DEF Walk, WalkOf
    <2> QED BY <2>1, <2>2
  <1>2. PICK n \in Bad : \A j \in Bad : ~ (<<j, n>> \in OpToRel(<, Nat))
    <2>1. Bad \subseteq Nat
      OBVIOUS
    <2> HIDE DEF Bad
    <2> QED BY <1>1, <2>1, NatLessThanWellFounded, WFMin
  <1>3. n \in Nat /\ ~ \E w : WalkTo(m, h, n, w)
    OBVIOUS
  <1>4. \A j \in Nat : j < n => \E w : WalkTo(m, h, j, w)
    <2> TAKE j \in Nat
    <2> HAVE j < n
    <2>1. <<j, n>> \in OpToRel(<, Nat)
      BY <1>3 DEF OpToRel
    <2> QED BY <1>2, <2>1
  <1> HIDE DEF Bad
  <1>5. n # 0
    <2> DEFINE w == [k \in 0 .. 0 |-> m.next[h]]
    <2>1. WalkTo(m, h, 0, w)
      <3>1. \A k \in 0 .. 0 : k = 0
        OBVIOUS
      <3> DEFINE at(k) == IF k = 0 THEN m.next[h]
                          ELSE IF w[k - 1] \in {h, NULL} THEN w[k - 1] ELSE m.next[w[k - 1]]
      <3>2. \A k \in 0 .. 0 : at(k) = m.next[h]
        BY <3>1
      <3>3. w = [k \in 0 .. 0 |-> at(k)]
        <4> HIDE DEF at
        <4> QED BY <3>2
      <3> HIDE DEF w
      <3> QED BY <3>3 DEF WalkTo
    <2> QED BY <1>3, <2>1
  <1>6. n - 1 \in Nat /\ n - 1 < n /\ n \in Nat \ {0}
    BY <1>3, <1>5
  <1>7. PICK v : WalkTo(m, h, n - 1, v)
    BY <1>4, <1>6
  <1> QED BY <1>3, <1>6, <1>7, WalkGoesOn

\* A walk that cannot return from the tasks and the ready queue does not end.
LEMMA WalkLost ==
    ASSUME NEW m, Pointers(m), m.next[WQ] \in Task,
           \A x \in Task \cup {RQ} : m.next[x] # WQ
    PROVE  ~ Ends(m, WQ)
  <1> DEFINE w == Walk(m, WQ)
             last == Cardinality(Node)
             Away == Task \cup {RQ, NULL}
             Bad == {k \in 0 .. last : w[k] \notin Away}
  <1>1. WalkOf(m, WQ, w)
    BY WalkIsWalk
  <1> HIDE DEF w
  <1>2. /\ w[0] = m.next[WQ]
        /\ \A k \in 1 .. last :
              w[k] = IF w[k - 1] \in {WQ, NULL} THEN w[k - 1] ELSE m.next[w[k - 1]]
    BY <1>1, WalkAt
  <1>3. last \in Nat /\ WQ \notin Away
    BY HeadsAreNoTasks
  <1>4. \A x \in Task \cup {RQ} : m.next[x] \in Away
    BY DEF Pointers, Node
  <1> HIDE DEF last, Away
  <1>5. SUFFICES ASSUME Bad # {} PROVE FALSE
    <2>1. Bad = {} => w[last] # WQ
      BY <1>3
    <2> QED BY <2>1 DEF Ends, last, w
  <1>6. PICK k \in Bad : \A j \in Bad : ~ (<<j, k>> \in OpToRel(<, Nat))
    <2>1. Bad \subseteq Nat
      BY <1>3
    <2> HIDE DEF Bad
    <2> QED BY <1>5, <2>1, NatLessThanWellFounded, WFMin
  <1>7. k \in 0 .. last /\ w[k] \notin Away
    OBVIOUS
  <1>8. \A j \in 0 .. last : j < k => w[j] \in Away
    <2> TAKE j \in 0 .. last
    <2> HAVE j < k
    <2>1. <<j, k>> \in OpToRel(<, Nat)
      BY <1>3, <1>7 DEF OpToRel
    <2> QED BY <1>6, <2>1
  <1> HIDE DEF Bad
  <1>9. k # 0
    BY <1>2, <1>7 DEF Away
  <1>10. k \in 1 .. last /\ k - 1 \in 0 .. last /\ k - 1 < k
    BY <1>3, <1>7, <1>9
  <1>11. w[k - 1] \in Away
    BY <1>8, <1>10
  <1> QED BY <1>2, <1>3, <1>4, <1>7, <1>10, <1>11 DEF Away

-----------------------------------------------------------------------------
(* The message pool: the queues are as they should be until a task is      *)
(* switched away from between wait_queue_add and task_block, or a trigger  *)
(* wakes it there.  After a switch in that window the head of the wait     *)
(* queue points into the ready queue, the consumer sleeps or is about to,  *)
(* and the next task that walks through the wait queue, whoever pushes a   *)
(* message, does not come back from it.                                    *)

PoolPlaces == {"out", "block", "woken"}

\* The place of the message after n messages in the ring.
PoolIndex(i, n) == IF i + n < Max THEN i + n ELSE i + n - Max

PoolType ==
    /\ pc \in [Task -> PoolPlaces] /\ cur \in Task \cup {Idle} /\ torn \in BOOLEAN
    /\ count \in 0 .. Max /\ head \in 0 .. Max - 1 /\ tail \in 0 .. Max - 1
    /\ head = PoolIndex(tail, count)
    /\ \A t \in Task \ Consumer : pc[t] = "out"

\* One task runs, and only a consumer of messages is blocked.
PoolTasks ==
    /\ ReadyQueue(mem)
    /\ \A t \in Task : mem.state[t] = "RUNNING" <=> t = cur
    /\ \A t \in Task : mem.state[t] = "BLOCKED" => pc[t] = "woken"

Waiting == {t \in Task : mem.state[t] = "BLOCKED" \/ pc[t] = "block"}

PoolWhole ==
    /\ mem.bad = "no" /\ RingOf(mem, WQ, Waiting)
    /\ \A t \in Task : pc[t] = "block" => cur = t /\ count = 0
    /\ \A t \in Task : mem.state[t] = "BLOCKED" => count = 0
    /\ \A t \in Task : pc[t] = "woken" /\ mem.state[t] # "BLOCKED" => count > 0

PoolTorn ==
    /\ count = 0 /\ mem.next[WQ] \in Task
    /\ \A x \in Task \cup {RQ} : mem.next[x] # WQ
    /\ \A t \in Consumer : pc[t] = "block" \/ (pc[t] = "woken" /\ mem.state[t] = "BLOCKED")

PoolInv ==
    /\ PoolType
    /\ mem.bad = "no" => PoolTasks
    /\ ~ torn => PoolWhole
    /\ torn /\ mem.bad = "no" => PoolTorn

\* A process waits for the messages of its own pool only.
OneConsumer == \A c, d \in Consumer : c = d

LEMMA PoolConstants ==
    /\ Consumer \subseteq Task /\ Max \in Nat \ {0} /\ Sizes \in Nat /\ Sizes > Max + 1
  BY MsgPoolAssumption

\* Indexes of the ring.
LEMMA PoolPut ==
    ASSUME PoolType, count < Max
    PROVE  /\ (count + 1) % Sizes = count + 1 /\ count + 1 \in 0 .. Max
           /\ After(head) \in 0 .. Max - 1 /\ After(head) = PoolIndex(tail, count + 1)
  BY PoolConstants DEF PoolType, After, PoolIndex

LEMMA PoolTake ==
    ASSUME PoolType, count > 0
    PROVE  /\ (count - 1) % Sizes = count - 1 /\ count - 1 \in 0 .. Max
           /\ After(tail) \in 0 .. Max - 1 /\ head = PoolIndex(After(tail), count - 1)
  BY PoolConstants DEF PoolType, After, PoolIndex

LEMMA PoolInitInv == Init => PoolInv
  <1> SUFFICES ASSUME Init PROVE PoolInv
    OBVIOUS
  <1>1. PICK t \in Task : mem = BootMemory(t)
    BY DEF Init
  <1>2. /\ ReadyQueue(mem) /\ RingOf(mem, WQ, {})
        /\ mem.state = [x \in Task |-> "READY"] /\ mem.bad = "no"
    BY <1>1, BootQueues
  <1>3. /\ cur = Idle /\ count = 0 /\ head = 0 /\ tail = 0
        /\ pc = [x \in Task |-> "out"] /\ torn = FALSE
    BY DEF Init
  <1>4. PoolType
    <2>1. pc \in [Task -> PoolPlaces] /\ \A x \in Task \ Consumer : pc[x] = "out"
      BY <1>3 DEF PoolPlaces
    <2>2. /\ count \in 0 .. Max /\ head \in 0 .. Max - 1 /\ tail \in 0 .. Max - 1
          /\ head = PoolIndex(tail, count)
      BY <1>3, PoolConstants DEF PoolIndex
    <2> QED BY <1>3, <2>1, <2>2 DEF PoolType
  <1>5. PoolTasks
    BY <1>2, <1>3, HeadsAreNoTasks DEF PoolTasks
  <1>6. Waiting = {}
    BY <1>2, <1>3 DEF Waiting
  <1>7. PoolWhole
    BY <1>2, <1>3, <1>6 DEF PoolWhole
  <1> QED BY <1>3, <1>4, <1>5, <1>7 DEF PoolInv

\* A task that is blocked or about to block is a consumer.
LEMMA WaitingConsumes ==
    ASSUME PoolInv, mem.bad = "no"
    PROVE  /\ PoolType /\ PoolTasks /\ (~ torn => PoolWhole) /\ (torn => PoolTorn)
           /\ Waiting \subseteq Consumer
           /\ Waiting \cap ReadyIn(mem) = {} \/ \E t \in Task : pc[t] = "block"
           /\ mem.state \in [Task -> {"READY", "RUNNING", "BLOCKED"}]
           /\ Waiting \subseteq Task /\ Consumer \subseteq Task
  BY PoolConstants
     DEF PoolInv, PoolType, PoolTasks, Waiting, ReadyIn, ReadyQueue, Pointers, PoolPlaces

\* What a switch does to the wait queue, the tasks of S and the ready queue
\* having moved.
LEMMA SwitchKeepsWaiting ==
    ASSUME NEW a, NEW S, NEW W, S \subseteq Task \cup {RQ}, W \subseteq Task,
           RingOf(mem, WQ, W), W \cap S = {}, Moved(mem, a, S)
    PROVE  RingOf(a, WQ, W)
  <1>1. \A x \in W \cup {WQ} : x \in Node \ S
    BY HeadsAreNoTasks
  <1> QED BY <1>1, RingFrame DEF Moved

LEMMA PreemptInv ==
    ASSUME OneConsumer, PoolInv, mem.bad = "no", Preempt
    PROVE  PoolInv'
  <1>1. /\ PoolType /\ PoolTasks /\ (~ torn => PoolWhole) /\ (torn => PoolTorn)
        /\ Waiting \subseteq Consumer /\ Consumer \subseteq Task
        /\ mem.state \in [Task -> {"READY", "RUNNING", "BLOCKED"}]
    BY WaitingConsumes
  <1> DEFINE l == add_ready(mem, cur)
             S == ReadyIn(mem) \cup {RQ, cur}
  <1>2. /\ cur \in Task /\ mem' = fetch_first(l)
        /\ cur' = (IF mem'.bad = "no" THEN NextTask(l) ELSE cur)
        /\ torn' = (torn \/ list_find(mem, cur, WQ))
        /\ UNCHANGED <<count, head, tail, pc>>
    BY <1>1 DEF Preempt, Switch, PoolType
  <1>3. /\ ReadyQueue(mem') /\ mem'.bad = "no" /\ NextTask(l) \in Task \cup {Idle}
        /\ \A t \in Task : mem'.state[t] = "RUNNING" <=> t = NextTask(l)
        /\ \A t \in Task : mem'.state[t] = "BLOCKED" <=> mem.state[t] = "BLOCKED"
        /\ Moved(mem, mem', S)
        /\ \A x \in S : mem'.next[x] # WQ
    <2>1. ReadyQueue(mem) /\ \A t \in Task : mem.state[t] = "RUNNING" <=> t = cur
      BY <1>1 DEF PoolTasks
    <2> HIDE DEF l
    <2>2. LET a == fetch_first(add_ready(mem, cur))
              d == NextTask(add_ready(mem, cur))
          IN  /\ ReadyQueue(a) /\ a.bad = mem.bad /\ d \in Task \cup {Idle}
              /\ \A t \in Task : a.state[t] = "RUNNING" <=> t = d
              /\ \A t \in Task : a.state[t] = "BLOCKED" <=> mem.state[t] = "BLOCKED"
              /\ Moved(mem, a, ReadyIn(mem) \cup {RQ, cur})
              /\ \A x \in ReadyIn(mem) \cup {RQ, cur} : a.next[x] # WQ
      BY <1>2, <2>1, Preempted
    <2> QED BY <1>2, <2>2 DEF l
  <1>4. cur' = NextTask(l)
    BY <1>2, <1>3
  <1> HIDE DEF l
  <1>5. PoolType'
    <2>1. torn' \in BOOLEAN
      BY <1>2 DEF list_find
    <2> QED BY <1>1, <1>2, <1>3, <1>4, <2>1 DEF PoolType
  <1>6. PoolTasks'
    BY <1>1, <1>2, <1>3, <1>4 DEF PoolTasks
  <1>7. Waiting' = Waiting
    BY <1>2, <1>3 DEF Waiting
  <1>8. S \subseteq Task \cup {RQ} /\ \A x \in Task \ S : mem.state[x] = "BLOCKED"
    BY <1>1, <1>2 DEF ReadyIn, PoolTasks
  <1>9. mem'.next[WQ] = mem.next[WQ]
    BY <1>3, <1>8, HeadsAreNoTasks DEF Moved
  <1>10. ASSUME ~ torn' PROVE PoolWhole'
    <2>1. PoolWhole /\ ~ list_find(mem, cur, WQ)
      BY <1>1, <1>2, <1>10
    <2>2. cur \notin Waiting
      BY <1>2, <2>1, RingWalk DEF PoolWhole
    <2>3. \A t \in Task : pc[t] # "block"
      BY <1>2, <2>1, <2>2 DEF PoolWhole, Waiting
    <2>4. Waiting \cap S = {}
      BY <1>1, <2>2, <2>3, HeadsAreNoTasks DEF Waiting, ReadyIn
    <2>5. RingOf(mem', WQ, Waiting)
      BY <1>1, <1>3, <1>8, <2>1, <2>4, SwitchKeepsWaiting DEF PoolWhole
    <2> QED BY <1>2, <1>3, <1>7, <2>1, <2>3, <2>5 DEF PoolWhole
  <1>11. ASSUME torn' PROVE PoolTorn'
    <2>1. CASE torn
      <3>1. PoolTorn
        BY <1>1, <2>1
      <3>2. \A x \in Task \cup {RQ} : mem'.next[x] # WQ
        BY <1>3, <3>1, HeadsAreNoTasks DEF PoolTorn, Moved
      <3> QED BY <1>1, <1>2, <1>3, <1>9, <3>1, <3>2 DEF PoolTorn
    <2>2. CASE ~ torn
      <3>1. PoolWhole /\ list_find(mem, cur, WQ)
        BY <1>1, <1>2, <1>11, <2>2
      <3>2. cur \in Waiting /\ mem.next[WQ] \in Waiting
        BY <1>2, <3>1, RingWalk DEF PoolWhole
      <3>3. pc[cur] = "block" /\ cur \in Consumer /\ count = 0
        BY <1>1, <1>2, <3>1, <3>2 DEF Waiting, PoolTasks, PoolWhole
      <3>4. \A t \in Consumer : t = cur
        BY <3>3, OneConsumer DEF OneConsumer
      <3>5. \A x \in Task : x # cur => x \in S
        BY <1>1, <1>8, <3>3, <3>4 DEF PoolTasks, PoolType
      <3>6. \A x \in Task \cup {RQ} : mem'.next[x] # WQ
        BY <1>3, <3>5
      <3> QED BY <1>1, <1>2, <1>9, <3>2, <3>3, <3>4, <3>6 DEF PoolTorn
    <2> QED BY <2>1, <2>2
  <1> QED BY <1>5, <1>6, <1>10, <1>11 DEF PoolInv

LEMMA LeaveIdleInv ==
    ASSUME PoolInv, mem.bad = "no", LeaveIdle
    PROVE  PoolInv'
  <1>1. /\ PoolType /\ PoolTasks /\ (~ torn => PoolWhole) /\ (torn => PoolTorn)
        /\ mem.state \in [Task -> {"READY", "RUNNING", "BLOCKED"}]
    BY WaitingConsumes
  <1> DEFINE S == ReadyIn(mem) \cup {RQ}
  <1>2. /\ cur = Idle /\ cur \notin Task /\ mem' = fetch_first(mem)
        /\ cur' = (IF mem'.bad = "no" THEN NextTask(mem) ELSE cur)
        /\ UNCHANGED <<count, head, tail, pc, torn>>
    BY HeadsAreNoTasks DEF LeaveIdle, Switch
  <1>3. ReadyQueue(mem) /\ \A t \in Task : mem.state[t] # "RUNNING"
    BY <1>1, <1>2 DEF PoolTasks
  <1>4. LET a == fetch_first(mem)
            c == NextTask(mem)
        IN  /\ ReadyQueue(a) /\ a.bad = mem.bad /\ c \in Task \cup {Idle}
            /\ \A t \in Task : a.state[t] = "RUNNING" <=> t = c
            /\ \A t \in Task : a.state[t] = "BLOCKED" <=> mem.state[t] = "BLOCKED"
            /\ Moved(mem, a, ReadyIn(mem) \cup {RQ})
            /\ \A x \in ReadyIn(mem) \cup {RQ} : a.next[x] # WQ
    BY <1>3, Switched
  <1>5. /\ ReadyQueue(mem') /\ mem'.bad = "no" /\ cur' \in Task \cup {Idle}
        /\ \A t \in Task : mem'.state[t] = "RUNNING" <=> t = cur'
        /\ \A t \in Task : mem'.state[t] = "BLOCKED" <=> mem.state[t] = "BLOCKED"
        /\ Moved(mem, mem', S)
        /\ \A x \in S : mem'.next[x] # WQ
    BY <1>2, <1>4
  <1>6. PoolType'
    BY <1>1, <1>2, <1>5 DEF PoolType
  <1>7. PoolTasks'
    BY <1>1, <1>2, <1>5 DEF PoolTasks
  <1>8. Waiting' = Waiting
    BY <1>2, <1>5 DEF Waiting
  <1>9. S \subseteq Task \cup {RQ} /\ mem'.next[WQ] = mem.next[WQ]
    <2>1. S \subseteq Task \cup {RQ}
      BY DEF ReadyIn
    <2> QED BY <1>5, <2>1, HeadsAreNoTasks DEF Moved
  <1>10. ASSUME ~ torn PROVE PoolWhole'
    <2>1. PoolWhole
      BY <1>1, <1>10
    <2>2. Waiting \cap S = {} /\ Waiting \subseteq Task
      BY <1>2, <2>1, HeadsAreNoTasks DEF Waiting, ReadyIn, PoolWhole
    <2>3. RingOf(mem', WQ, Waiting)
      BY <1>5, <1>9, <2>1, <2>2, SwitchKeepsWaiting DEF PoolWhole
    <2>4. \A t \in Task : pc[t] # "block"
      BY <1>2, <2>1 DEF PoolWhole
    <2> QED BY <1>2, <1>5, <1>8, <2>1, <2>3, <2>4 DEF PoolWhole
  <1>11. ASSUME torn PROVE PoolTorn'
    <2>1. PoolTorn
      BY <1>1, <1>11
    <2>2. \A x \in Task \cup {RQ} : mem'.next[x] # WQ
      BY <1>5, <2>1, HeadsAreNoTasks DEF PoolTorn, Moved
    <2> QED BY <1>2, <1>5, <1>9, <2>1, <2>2, PoolConstants DEF PoolTorn
  <1> QED BY <1>2, <1>6, <1>7, <1>10, <1>11 DEF PoolInv

\* A consumer that runs and is not about to block: nobody waits.
LEMMA NobodyWaits ==
    ASSUME OneConsumer, PoolInv, mem.bad = "no", NEW c \in Consumer, cur = c, pc[c] # "block"
    PROVE  /\ ~ torn /\ Waiting = {} /\ RingOf(mem, WQ, {})
           /\ WakeupIfAny(mem) = mem /\ mem.state[c] = "RUNNING"
  <1>1. /\ PoolType /\ PoolTasks /\ (~ torn => PoolWhole) /\ (torn => PoolTorn)
        /\ Waiting \subseteq Consumer /\ Consumer \subseteq Task
    BY WaitingConsumes
  <1>2. mem.state[c] = "RUNNING"
    BY <1>1 DEF PoolTasks
  <1>3. ~ torn
    BY <1>1, <1>2 DEF PoolTorn
  <1>4. Waiting = {}
    BY <1>1, <1>2 DEF OneConsumer, Waiting
  <1>5. ReadyQueue(mem) /\ RingOf(mem, WQ, {})
    BY <1>1, <1>3, <1>4 DEF PoolWhole, PoolTasks
  <1>6. WakeupIfAny(mem) = mem
    BY <1>5, NobodyAwake
  <1> QED BY <1>2, <1>3, <1>4, <1>5, <1>6

LEMMA TakeInv ==
    ASSUME OneConsumer, PoolInv, mem.bad = "no", NEW c \in Consumer, cur = c,
           pc[c] # "block", count > 0, Take(c)
    PROVE  PoolInv'
  <1>1. /\ PoolType /\ PoolTasks /\ PoolWhole /\ Consumer \subseteq Task
    BY WaitingConsumes, NobodyWaits
  <1>2. /\ ~ torn /\ Waiting = {} /\ WakeupIfAny(mem) = mem /\ mem.state[c] = "RUNNING"
    BY NobodyWaits
  <1>3. /\ tail' = After(tail) /\ count' = (count - 1) % Sizes /\ mem' = mem
        /\ pc' = [pc EXCEPT ![c] = "out"]
        /\ UNCHANGED <<cur, head, torn>>
    BY <1>2 DEF Take
  <1>4. PoolType'
    <2>1. /\ count' \in 0 .. Max /\ head' \in 0 .. Max - 1 /\ tail' \in 0 .. Max - 1
          /\ head' = PoolIndex(tail', count')
      BY <1>1, <1>3, PoolTake DEF PoolType
    <2>2. pc' \in [Task -> PoolPlaces] /\ \A t \in Task \ Consumer : pc'[t] = "out"
      BY <1>1, <1>3 DEF PoolType, PoolPlaces
    <2> QED BY <1>1, <1>3, <2>1, <2>2 DEF PoolType
  <1>5. \A t \in Task : mem.state[t] # "BLOCKED" /\ pc[t] # "block"
    BY <1>2 DEF Waiting
  <1>6. \A t \in Task : pc'[t] = "out"
    BY <1>1, <1>3 DEF PoolType, OneConsumer
  <1>7. PoolTasks'
    BY <1>1, <1>3, <1>5 DEF PoolTasks
  <1>8. Waiting' = {}
    BY <1>3, <1>5, <1>6 DEF Waiting
  <1>9. PoolWhole'
    BY <1>1, <1>2, <1>3, <1>5, <1>6, <1>8 DEF PoolWhole
  <1> QED BY <1>2, <1>3, <1>4, <1>7, <1>9 DEF PoolInv

LEMMA PopWaitInv ==
    ASSUME OneConsumer, PoolInv, mem.bad = "no", NEW c \in Consumer, PopWait(c)
    PROVE  PoolInv'
  <1>0. cur = c /\ pc[c] = "out" /\ count = 0 /\ mem' = wait_queue_add(mem, c)
        /\ pc' = [pc EXCEPT ![c] = "block"]
        /\ UNCHANGED <<cur, count, head, tail, torn>>
    BY DEF PopWait
  <1>1. /\ ~ torn /\ Waiting = {} /\ RingOf(mem, WQ, {}) /\ mem.state[c] = "RUNNING"
    BY <1>0, NobodyWaits
  <1>2. /\ PoolType /\ PoolTasks /\ PoolWhole /\ Consumer \subseteq Task
    BY <1>1, WaitingConsumes
  <1>3. /\ ReadyQueue(mem') /\ RingOf(mem', WQ, {c})
        /\ mem'.state = mem.state /\ mem'.bad = mem.bad
    <2>1. c \in Task /\ ReadyQueue(mem) /\ c \notin ReadyIn(mem) /\ c \notin {}
          /\ {} \cap ReadyIn(mem) = {} /\ {} \cup {c} = {c}
      BY <1>1, <1>2 DEF PoolTasks, ReadyIn
    <2>2. LET a == wait_queue_add(mem, c)
          IN  /\ ReadyQueue(a) /\ RingOf(a, WQ, {} \cup {c})
              /\ a.state = mem.state /\ a.bad = mem.bad
      BY <1>1, <2>1, WaitAdded
    <2> QED BY <1>0, <2>1, <2>2
  <1>4. PoolType'
    BY <1>0, <1>2 DEF PoolType, PoolPlaces
  <1>5. \A t \in Task : mem.state[t] # "BLOCKED" /\ pc[t] # "block"
    BY <1>1 DEF Waiting
  <1>6. PoolTasks'
    BY <1>0, <1>2, <1>3, <1>5 DEF PoolTasks
  <1>7. \A t \in Task : pc'[t] = IF t = c THEN "block" ELSE "out"
    BY <1>0, <1>2 DEF PoolType, OneConsumer
  <1>8. Waiting' = {c}
    BY <1>2, <1>3, <1>5, <1>7 DEF Waiting
  <1>9. PoolWhole'
    BY <1>0, <1>2, <1>3, <1>5, <1>7, <1>8 DEF PoolWhole
  <1> QED BY <1>0, <1>1, <1>4, <1>6, <1>9 DEF PoolInv

LEMMA PopBlockInv ==
    ASSUME OneConsumer, PoolInv, mem.bad = "no", NEW c \in Consumer, PopBlock(c)
    PROVE  PoolInv'
  <1> DEFINE l == [mem EXCEPT !.state[c] = "BLOCKED"]
             S == ReadyIn(mem) \cup {RQ}
  <1>0. /\ cur = c /\ pc[c] = "block" /\ mem' = fetch_first(l)
        /\ cur' = (IF mem'.bad = "no" THEN NextTask(l) ELSE cur)
        /\ pc' = [pc EXCEPT ![c] = "woken"]
        /\ UNCHANGED <<count, head, tail, torn>>
    BY DEF PopBlock, Switch
  <1>1. /\ PoolType /\ PoolTasks /\ (~ torn => PoolWhole) /\ (torn => PoolTorn)
        /\ mem.state \in [Task -> {"READY", "RUNNING", "BLOCKED"}]
        /\ Consumer \subseteq Task /\ c \in Task
    BY WaitingConsumes
  <1>2. /\ l.next = mem.next /\ l.prev = mem.prev /\ l.len = mem.len /\ l.bad = mem.bad
        /\ l.state = [mem.state EXCEPT ![c] = "BLOCKED"] /\ Pointers(l)
    <2>1. Pointers(mem)
      BY <1>1 DEF PoolTasks, ReadyQueue
    <2> QED BY <1>1, <2>1 DEF Pointers
  <1> HIDE DEF l
  <1>3. mem.state[c] = "RUNNING" /\ \A t \in Task : mem.state[t] = "RUNNING" <=> t = c
    BY <1>0, <1>1 DEF PoolTasks
  <1>4. ReadyIn(l) = ReadyIn(mem)
    BY <1>1, <1>2, <1>3 DEF ReadyIn
  <1>5. ReadyQueue(l)
    <2>1. RingOf(mem, RQ, ReadyIn(mem)) /\ mem.len = Cardinality(ReadyIn(mem))
      BY <1>1 DEF PoolTasks, ReadyQueue
    <2>2. RingOf(l, RQ, ReadyIn(mem))
      BY <1>2, <2>1, RingFrame
    <2> QED BY <1>2, <1>4, <2>1, <2>2 DEF ReadyQueue
  <1>6. \A t \in Task : l.state[t] # "RUNNING"
    BY <1>1, <1>2, <1>3
  <1>7. LET a == fetch_first(l)
            d == NextTask(l)
        IN  /\ ReadyQueue(a) /\ a.bad = l.bad /\ d \in Task \cup {Idle}
            /\ \A t \in Task : a.state[t] = "RUNNING" <=> t = d
            /\ \A t \in Task : a.state[t] = "BLOCKED" <=> l.state[t] = "BLOCKED"
            /\ Moved(l, a, ReadyIn(l) \cup {RQ})
            /\ \A x \in ReadyIn(l) \cup {RQ} : a.next[x] # WQ
    BY <1>5, <1>6, Switched
  <1>8. /\ ReadyQueue(mem') /\ mem'.bad = "no" /\ cur' \in Task \cup {Idle}
        /\ \A t \in Task : mem'.state[t] = "RUNNING" <=> t = cur'
        /\ Moved(mem, mem', S)
        /\ \A x \in S : mem'.next[x] # WQ
    BY <1>0, <1>2, <1>4, <1>7 DEF Moved
  <1>9. \A t \in Task : mem'.state[t] = "BLOCKED" <=> (t = c \/ mem.state[t] = "BLOCKED")
    BY <1>0, <1>1, <1>2, <1>7
  <1>10. PoolType'
    BY <1>0, <1>1, <1>8 DEF PoolType, PoolPlaces
  <1>11. \A t \in Task : pc'[t] = IF t = c THEN "woken" ELSE "out"
    BY <1>0, <1>1 DEF PoolType, OneConsumer
  <1>12. \A t \in Task : mem.state[t] # "BLOCKED"
    BY <1>0, <1>1, <1>3 DEF PoolTasks, PoolType, OneConsumer
  <1>13. PoolTasks'
    BY <1>8, <1>9, <1>11, <1>12 DEF PoolTasks
  <1>14. Waiting = {c} /\ Waiting' = {c}
    <2>1. \A t \in Task : pc[t] = IF t = c THEN "block" ELSE "out"
      BY <1>0, <1>1 DEF PoolType, OneConsumer
    <2>2. Waiting = {c}
      BY <1>1, <1>12, <2>1 DEF Waiting
    <2>3. Waiting' = {c}
      BY <1>1, <1>9, <1>11, <1>12 DEF Waiting
    <2> QED BY <2>2, <2>3
  <1>15. S \subseteq Task \cup {RQ} /\ c \notin S /\ WQ \notin S
    BY <1>1, <1>3, HeadsAreNoTasks DEF ReadyIn
  <1>16. ASSUME ~ torn PROVE PoolWhole'
    <2>1. PoolWhole
      BY <1>1, <1>16
    <2>2. RingOf(mem', WQ, Waiting)
      BY <1>1, <1>8, <1>14, <1>15, <2>1, SwitchKeepsWaiting DEF PoolWhole
    <2>3. count' = 0
      BY <1>0, <1>1, <2>1 DEF PoolWhole
    <2> QED BY <1>8, <1>9, <1>11, <1>14, <2>2, <2>3 DEF PoolWhole
  <1>17. ASSUME torn PROVE PoolTorn'
    <2>1. PoolTorn
      BY <1>1, <1>17
    <2>2. mem'.next[WQ] = mem.next[WQ]
      BY <1>8, <1>15, HeadsAreNoTasks DEF Moved
    <2>3. \A x \in Task \cup {RQ} : mem'.next[x] # WQ
      BY <1>8, <2>1, HeadsAreNoTasks DEF PoolTorn, Moved
    <2>4. \A t \in Consumer : pc'[t] = "woken" /\ mem'.state[t] = "BLOCKED"
      BY <1>1, <1>9, <1>11 DEF OneConsumer
    <2> QED BY <1>0, <2>1, <2>2, <2>3, <2>4 DEF PoolTorn
  <1> QED BY <1>0, <1>10, <1>13, <1>16, <1>17 DEF PoolInv

LEMMA PushInv ==
    ASSUME OneConsumer, PoolInv, mem.bad = "no", NEW p \in Task \ Consumer,
           msgpool_try_push(p)
    PROVE  PoolInv'
  <1>0. /\ cur = p /\ count < Max /\ head' = After(head) /\ count' = (count + 1) % Sizes
        /\ mem' = WakeupIfAny(mem) /\ UNCHANGED <<cur, tail, pc, torn>>
    BY DEF msgpool_try_push
  <1>1. /\ PoolType /\ PoolTasks /\ (~ torn => PoolWhole) /\ (torn => PoolTorn)
        /\ mem.state \in [Task -> {"READY", "RUNNING", "BLOCKED"}]
        /\ Waiting \subseteq Consumer /\ Consumer \subseteq Task
    BY WaitingConsumes
  <1>2. PoolType'
    <2>1. /\ count' \in 0 .. Max /\ head' \in 0 .. Max - 1 /\ tail' \in 0 .. Max - 1
          /\ head' = PoolIndex(tail', count')
      BY <1>0, <1>1, PoolPut DEF PoolType
    <2> QED BY <1>0, <1>1, <2>1 DEF PoolType
  <1>3. count' = count + 1 /\ count \in Nat
    BY <1>0, <1>1, PoolPut DEF PoolType
  <1>4. CASE torn
    <2>1. PoolTorn /\ Pointers(mem)
      BY <1>1, <1>4 DEF PoolTasks, ReadyQueue
    <2>2. ~ Ends(mem, WQ)
      BY <2>1, WalkLost DEF PoolTorn
    <2>3. mem'.bad # "no"
      <3>1. mem' = Lost(mem, WQ) /\ mem = [next |-> mem.next, prev |-> mem.prev,
                   len |-> mem.len, state |-> mem.state, bad |-> mem.bad]
        BY <1>0, <2>1, <2>2 DEF WakeupIfAny, Pointers
      <3> QED BY <3>1 DEF Lost
    <2> QED BY <1>0, <1>2, <1>4, <2>3 DEF PoolInv
  <1>5. CASE ~ torn
    <2>1. PoolWhole /\ ReadyQueue(mem) /\ RingOf(mem, WQ, Waiting)
      BY <1>1, <1>5 DEF PoolTasks, PoolWhole
    <2>2. \A t \in Task : pc[t] # "block"
      BY <1>0, <1>1, <2>1 DEF PoolWhole, PoolType
    <2>3. \A t \in Waiting : mem.state[t] = "BLOCKED" /\ count = 0 /\ pc[t] = "woken"
      BY <1>1, <2>1, <2>2 DEF Waiting, PoolWhole, PoolTasks
    <2>4. CASE Waiting = {}
      <3>1. mem' = mem
        BY <1>0, <2>1, <2>4, NobodyAwake
      <3>2. Waiting' = Waiting
        BY <1>0, <3>1 DEF Waiting
      <3>3. PoolTasks'
        BY <1>0, <1>1, <3>1 DEF PoolTasks
      <3>4. \A t \in Task : mem.state[t] # "BLOCKED"
        BY <2>4 DEF Waiting
      <3>5. PoolWhole'
        BY <1>0, <1>3, <2>1, <2>2, <3>1, <3>2, <3>4 DEF PoolWhole
      <3> QED BY <1>0, <1>2, <1>5, <3>3, <3>5 DEF PoolInv
    <2>5. CASE Waiting # {}
      <3>0. PICK c \in Waiting :
               LET a == wait_queue_wakeup(mem)
               IN  /\ WakeupIfAny(mem) = a /\ ReadyQueue(a) /\ RingOf(a, WQ, Waiting \ {c})
                   /\ a.state = [mem.state EXCEPT ![c] = "READY"] /\ a.bad = mem.bad
        <4>1. \A t \in Waiting : mem.state[t] = "BLOCKED"
          BY <2>3
        <4>2. ReadyQueue(mem) /\ RingOf(mem, WQ, Waiting)
          BY <2>1
        <4> QED BY <2>5, <4>1, <4>2, HeadAwake
      <3>1. /\ ReadyQueue(mem') /\ RingOf(mem', WQ, Waiting \ {c})
            /\ mem'.state = [mem.state EXCEPT ![c] = "READY"] /\ mem'.bad = mem.bad
        BY <1>0, <3>0
      <3>2. c \in Consumer /\ c \in Task /\ count = 0 /\ Waiting = {c} /\ mem.state[c] = "BLOCKED"
            /\ pc[c] = "woken" /\ c # p
        BY <1>1, <2>3, <3>1 DEF OneConsumer
      <3>3. \A t \in Task : mem'.state[t] # "BLOCKED"
        BY <1>1, <2>2, <3>1, <3>2 DEF Waiting
      <3>4. Waiting' = {}
        BY <1>0, <2>2, <3>3 DEF Waiting
      <3>5. PoolTasks'
        BY <1>0, <1>1, <3>1, <3>2, <3>3 DEF PoolTasks
      <3>6. RingOf(mem', WQ, Waiting')
        BY <3>1, <3>2, <3>4
      <3>7. PoolWhole'
        BY <1>0, <1>3, <2>1, <2>2, <3>1, <3>3, <3>6 DEF PoolWhole
      <3> QED BY <1>0, <1>2, <1>5, <3>5, <3>7 DEF PoolInv
    <2> QED BY <2>4, <2>5
  <1> QED BY <1>4, <1>5

\* A trigger puts the node of a sleeper into both lists; until then all is as
\* PoolInv says.
PoolKept ==
    /\ triggered => torn
    /\ ~ triggered => PoolInv

LEMMA PoolStepInv ==
    ASSUME OneConsumer
    PROVE  PoolKept /\ [Next]_vars => PoolKept'
  <1> SUFFICES ASSUME PoolKept, [Next]_vars, ~ \E c \in Consumer : Trigger(c)
               PROVE  PoolKept'
    BY DEF PoolKept, Trigger
  <1>0. triggered' = triggered /\ (triggered => torn')
    BY DEF Next, vars, Preempt, LeaveIdle, Pop, PopNow, PopWait, PopBlock, PopWoken, Take,
           msgpool_try_push, PoolKept
  <1> SUFFICES ASSUME PoolInv PROVE PoolInv'
    BY <1>0 DEF PoolKept
  <1>1. CASE UNCHANGED vars
    BY <1>1 DEF vars, PoolInv, PoolType, PoolTasks, PoolWhole, PoolTorn, Waiting
  <1>2. CASE Next
    <2>1. mem.bad = "no"
      BY <1>2 DEF Next
    <2>2. CASE Preempt
      BY <2>1, <2>2, PreemptInv
    <2>3. CASE LeaveIdle
      BY <2>1, <2>3, LeaveIdleInv
    <2>4. ASSUME NEW c \in Consumer, Pop(c) PROVE PoolInv'
      <3>1. CASE PopNow(c)
        BY <2>1, <3>1, TakeInv DEF PopNow
      <3>2. CASE PopWait(c)
        BY <2>1, <3>2, PopWaitInv
      <3>3. CASE PopBlock(c)
        BY <2>1, <3>3, PopBlockInv
      <3>4. CASE PopWoken(c)
        <4>1. cur = c /\ pc[c] = "woken" /\ Take(c)
          BY <3>4 DEF PopWoken
        <4>2. ~ torn /\ mem.state[c] = "RUNNING" /\ c \in Task
          BY <2>1, <4>1, NobodyWaits, PoolConstants
        <4>3. count > 0
          BY <4>1, <4>2 DEF PoolInv, PoolWhole
        <4> QED BY <2>1, <4>1, <4>3, TakeInv
      <3> QED BY <2>4, <3>1, <3>2, <3>3, <3>4 DEF Pop
    <2>5. ASSUME NEW p \in Task \ Consumer, msgpool_try_push(p) PROVE PoolInv'
      BY <2>1, <2>5, PushInv
    <2> QED BY <1>2, <2>2, <2>3, <2>4, <2>5 DEF Next
  <1> QED BY <1>1, <1>2

LEMMA PoolInvExact == PoolKept => ListsExact /\ NoSleepOnMessages
  <1> SUFFICES ASSUME PoolInv PROVE ListsExact /\ NoSleepOnMessages
    BY DEF PoolKept, ListsExact, NoSleepOnMessages
  <1>1. PoolType /\ (~ torn => PoolWhole /\ PoolTasks)
    BY DEF PoolInv, PoolWhole
  <1>2. PoolExact
    <2>1. head - tail - count = 0 \/ head - tail - count = - Max
      BY <1>1, PoolConstants DEF PoolType, PoolIndex
    <2>2. 0 % Max = 0 /\ (- Max) % Max = 0
      BY PoolConstants
    <2> QED BY <1>1, <2>1, <2>2 DEF PoolExact, PoolType
  <1>3. ASSUME ~ torn
        PROVE  /\ mem.bad = "no" /\ Ring(RQ) /\ Ring(WQ)
               /\ Members(mem, RQ) = {t \in Task : mem.state[t] = "READY"}
               /\ mem.len = Cardinality(Members(mem, RQ))
               /\ Members(mem, WQ) =
                     {t \in Task : mem.state[t] = "BLOCKED" \/ pc[t] = "block"}
    <2>1. /\ RingOf(mem, RQ, ReadyIn(mem)) /\ mem.len = Cardinality(ReadyIn(mem))
          /\ RingOf(mem, WQ, Waiting) /\ mem.bad = "no"
      BY <1>1, <1>3 DEF PoolWhole, PoolTasks, ReadyQueue
    <2>2. Members(mem, RQ) = ReadyIn(mem) /\ Ring(RQ)
      BY <2>1, RingWalk DEF Ring
    <2>3. Members(mem, WQ) = Waiting /\ Ring(WQ)
      BY <2>1, RingWalk DEF Ring
    <2> QED BY <2>1, <2>2, <2>3 DEF ReadyIn, Waiting
  <1>4. NoSleepOnMessages
    BY <1>1, PoolConstants DEF NoSleepOnMessages, PoolWhole
  <1> QED BY <1>2, <1>3, <1>4 DEF ListsExact

\* The pointer lists of src/task/waitqueue.c and the ring of src/lib/msgpool.c:
\* with one process waiting for the messages of a pool no message is lost or
\* read twice until a trigger wakes that process, and until a task is switched
\* away from between wait_queue_add and task_block, or woken by a trigger after
\* it, both lists are whole and hold the tasks they should.
THEOREM PoolListsExact ==
    ASSUME OneConsumer
    PROVE  Spec => []ListsExact
  <1>1. Init => PoolKept
    BY PoolInitInv DEF PoolKept, Init
  <1>2. PoolKept /\ [Next]_vars => PoolKept'
    BY PoolStepInv
  <1>3. PoolKept => ListsExact
    BY PoolInvExact
  <1> QED BY <1>1, <1>2, <1>3, PTL DEF Spec

-----------------------------------------------------------------------------
(* The packet queue of a device, on the same lists: nothing is said of it  *)
(* once an interrupt has come between wait_queue_add and task_block.       *)

LEMMA SameLists ==
    /\ \A m : D!fetch_first(m) = fetch_first(m) /\ D!NextTask(m) = NextTask(m)
    /\ \A m : D!wait_queue_wakeup(m) = wait_queue_wakeup(m)
    /\ \A m, t : D!add_ready(m, t) = add_ready(m, t)
    /\ \A m, t : D!wait_queue_add(m, t) = wait_queue_add(m, t)
    /\ \A t : D!BootMemory(t) = BootMemory(t)
  <1>1. \A m, n, h : D!list_add_tail(m, n, h) = list_add_tail(m, n, h)
    BY DEF D!list_add_tail, list_add_tail
  <1>2. \A m, n, p : D!Unlink(m, n, p) = Unlink(m, n, p)
    BY DEF D!Unlink, Unlink
  <1>3. \A m, n : D!list_del(m, n) = list_del(m, n) /\ D!list_del_init(m, n) = list_del_init(m, n)
    BY <1>2 DEF D!list_del, list_del, D!list_del_init, list_del_init
  <1>4. D!Node = Node /\ \A S : D!Cardinality(S) = Cardinality(S)
    <2>1. D!Node = Node
      BY DEF D!Node, Node
    <2>2. \A S : D!Cardinality(S) = Cardinality(S)
      BY DEF D!Cardinality, Cardinality
    <2> QED BY <2>1, <2>2
  <1>5. ASSUME NEW m, NEW h PROVE D!Walk(m, h) = Walk(m, h)
    <2> DEFINE W(n) == CHOOSE w :
                          w = [k \in 0 .. n |->
                                  IF k = 0 THEN m.next[h]
                                  ELSE LET x == w[k - 1]
                                       IN  IF x \in {h, NULL} THEN x ELSE m.next[x]]
    <2>1. D!Walk(m, h) = W(D!Cardinality(D!Node)) /\ Walk(m, h) = W(Cardinality(Node))
      BY DEF D!Walk, Walk
    <2> HIDE DEF W
    <2> QED BY <1>4, <2>1
  <1>6. /\ \A m, n, h : D!list_find(m, n, h) <=> list_find(m, n, h)
        /\ \A m, h : (D!Ends(m, h) <=> Ends(m, h)) /\ D!Lost(m, h) = Lost(m, h)
    BY <1>5, <1>4 DEF D!list_find, list_find, D!Ends, Ends, D!Lost, Lost
  <1>7. \A m, t : D!add_ready(m, t) = add_ready(m, t)
    BY <1>1 DEF D!add_ready, add_ready
  <1>8. \A m, t : D!task_wakeup(m, t) = task_wakeup(m, t)
    BY <1>6, <1>7 DEF D!task_wakeup, task_wakeup
  <1>9. \A m : D!fetch_first(m) = fetch_first(m) /\ D!NextTask(m) = NextTask(m)
    BY <1>3 DEF D!fetch_first, fetch_first, D!NextTask, NextTask
  <1>10. \A m, t : D!wait_queue_add(m, t) = wait_queue_add(m, t)
    BY <1>1, <1>6 DEF D!wait_queue_add, wait_queue_add
  <1>11. \A m : D!wait_queue_wakeup(m) = wait_queue_wakeup(m)
    BY <1>3, <1>8 DEF D!wait_queue_wakeup, wait_queue_wakeup
  <1>12. ASSUME NEW t PROVE D!BootMemory(t) = BootMemory(t)
    <2> DEFINE B(n, nodes) ==
                  LET order == CHOOSE f \in [1 .. n -> Task] :
                                   /\ f[1] = t
                                   /\ \A i, j \in DOMAIN f : f[i] = f[j] => i = j
                      at(i) == IF i \in 1 .. n THEN order[i] ELSE RQ
                      pos(u) == CHOOSE i \in 1 .. n : order[i] = u
                  IN  [next  |-> [x \in nodes |-> CASE x = WQ -> WQ
                                                    [] x = RQ -> at(1)
                                                    [] OTHER -> at(pos(x) + 1)],
                       prev  |-> [x \in nodes |-> CASE x = WQ -> WQ
                                                    [] x = RQ -> at(n)
                                                    [] OTHER -> at(pos(x) - 1)],
                       len   |-> n,
                       state |-> [u \in Task |-> "READY"],
                       bad   |-> "no"]
    <2>1. D!BootMemory(t) = B(D!Cardinality(Task), D!Node)
      BY DEF D!BootMemory
    <2>2. BootMemory(t) = B(Cardinality(Task), Node)
      BY DEF BootMemory
    <2> HIDE DEF B
    <2> QED BY <1>4, <2>1, <2>2
  <1> QED BY <1>7, <1>9, <1>10, <1>11, <1>12

DevWaiting == {t \in {reader} : dmem.state[t] = "BLOCKED" \/ dpc = "block"}

DevTasks ==
    /\ dcur \in Task \cup {Idle} /\ dmem.bad = "no" /\ ReadyQueue(dmem)
    /\ RingOf(dmem, WQ, DevWaiting)
    /\ \A t \in Task : dmem.state[t] = "RUNNING" <=> t = dcur
    /\ \A t \in Task : dmem.state[t] = "BLOCKED" => t = reader /\ dpc = "woken"

\* The reader blocks on an empty queue, and is woken for a packet.
DevPackets ==
    /\ dpc \in {"out", "block", "woken"} /\ entry_count \in Nat
    /\ dpc = "block" => dcur = reader /\ entry_count = 0
    /\ dmem.state[reader] = "BLOCKED" => entry_count = 0
    /\ dpc = "woken" /\ dmem.state[reader] # "BLOCKED" => entry_count > 0

DevInv == ~ dtorn => DevTasks /\ DevPackets

LEMMA DevReader == reader \in Task
  BY QueuesAssumption DEF D!DevQueueConstants

LEMMA DevInitInv == D!Init => DevInv
  <1> SUFFICES ASSUME D!Init PROVE DevInv
    OBVIOUS
  <1>1. dmem = BootMemory(reader) /\ dcur = Idle /\ entry_count = 0 /\ dpc = "out"
    BY SameLists DEF D!Init
  <1>2. /\ ReadyQueue(dmem) /\ RingOf(dmem, WQ, {})
        /\ dmem.state = [x \in Task |-> "READY"] /\ dmem.bad = "no"
    BY <1>1, BootQueues, DevReader
  <1>3. DevWaiting = {}
    BY <1>1, <1>2, DevReader DEF DevWaiting
  <1>4. DevTasks
    BY <1>1, <1>2, <1>3, HeadsAreNoTasks DEF DevTasks
  <1>5. DevPackets
    BY <1>1, <1>2, DevReader DEF DevPackets
  <1> QED BY <1>4, <1>5 DEF DevInv

LEMMA DevSwitchKeeps ==
    ASSUME NEW a, NEW S, NEW W, S \subseteq Task \cup {RQ}, W \subseteq Task,
           RingOf(dmem, WQ, W), W \cap S = {}, Moved(dmem, a, S)
    PROVE  RingOf(a, WQ, W)
  <1>1. \A x \in W \cup {WQ} : x \in Node \ S
    BY HeadsAreNoTasks
  <1> QED BY <1>1, RingFrame DEF Moved

LEMMA DevPreemptInv ==
    ASSUME DevTasks, DevPackets, D!Preempt, ~ dtorn'
    PROVE  DevTasks' /\ DevPackets'
  <1> DEFINE l == add_ready(dmem, dcur)
             S == ReadyIn(dmem) \cup {RQ, dcur}
  <1>1. /\ dcur \in Task /\ dmem' = fetch_first(l)
        /\ dcur' = (IF dmem'.bad = "no" THEN NextTask(l) ELSE dcur)
        /\ ~ (dcur = reader /\ dpc = "block")
        /\ UNCHANGED <<entry_count, dpc>>
    BY SameLists DEF D!Preempt, D!Switch, DevTasks
  <1>2. ReadyQueue(dmem) /\ (\A t \in Task : dmem.state[t] = "RUNNING" <=> t = dcur)
        /\ dpc # "block" /\ reader \in Task
    BY <1>1, DevReader DEF DevTasks, DevPackets
  <1>3. LET a == fetch_first(add_ready(dmem, dcur))
            d == NextTask(add_ready(dmem, dcur))
        IN  /\ ReadyQueue(a) /\ a.bad = dmem.bad /\ d \in Task \cup {Idle}
            /\ \A t \in Task : a.state[t] = "RUNNING" <=> t = d
            /\ \A t \in Task : a.state[t] = "BLOCKED" <=> dmem.state[t] = "BLOCKED"
            /\ Moved(dmem, a, ReadyIn(dmem) \cup {RQ, dcur})
            /\ \A x \in ReadyIn(dmem) \cup {RQ, dcur} : a.next[x] # WQ
    <2>1. dcur \in Task /\ ReadyQueue(dmem)
          /\ \A t \in Task : dmem.state[t] = "RUNNING" <=> t = dcur
      BY <1>1, <1>2
    <2> QED BY <2>1, Preempted
  <1> HIDE DEF l
  <1>4. /\ ReadyQueue(dmem') /\ dmem'.bad = "no" /\ dcur' \in Task \cup {Idle}
        /\ \A t \in Task : dmem'.state[t] = "RUNNING" <=> t = dcur'
        /\ \A t \in Task : dmem'.state[t] = "BLOCKED" <=> dmem.state[t] = "BLOCKED"
        /\ Moved(dmem, dmem', S)
    BY <1>1, <1>3 DEF DevTasks, l
  <1>5. DevWaiting' = DevWaiting /\ DevWaiting \subseteq Task
    BY <1>1, <1>2, <1>4 DEF DevWaiting
  <1>6. S \subseteq Task \cup {RQ} /\ DevWaiting \cap S = {}
    BY <1>1, <1>2, HeadsAreNoTasks DEF DevWaiting, ReadyIn
  <1>7. RingOf(dmem', WQ, DevWaiting')
    BY <1>4, <1>5, <1>6, DevSwitchKeeps DEF DevTasks
  <1>8. DevTasks'
    BY <1>1, <1>4, <1>7 DEF DevTasks
  <1>9. DevPackets'
    BY <1>1, <1>2, <1>4 DEF DevPackets
  <1> QED BY <1>8, <1>9

LEMMA DevLeaveIdleInv ==
    ASSUME DevTasks, DevPackets, D!LeaveIdle
    PROVE  DevTasks' /\ DevPackets'
  <1> DEFINE S == ReadyIn(dmem) \cup {RQ}
  <1>1. /\ dcur = Idle /\ dcur \notin Task /\ dmem' = fetch_first(dmem)
        /\ dcur' = (IF dmem'.bad = "no" THEN NextTask(dmem) ELSE dcur)
        /\ UNCHANGED <<entry_count, dpc>>
    BY SameLists, HeadsAreNoTasks DEF D!LeaveIdle, D!Switch
  <1>2. ReadyQueue(dmem) /\ (\A t \in Task : dmem.state[t] # "RUNNING")
        /\ dpc # "block" /\ reader \in Task
    BY <1>1, DevReader DEF DevTasks, DevPackets
  <1>3. LET a == fetch_first(dmem)
            c == NextTask(dmem)
        IN  /\ ReadyQueue(a) /\ a.bad = dmem.bad /\ c \in Task \cup {Idle}
            /\ \A t \in Task : a.state[t] = "RUNNING" <=> t = c
            /\ \A t \in Task : a.state[t] = "BLOCKED" <=> dmem.state[t] = "BLOCKED"
            /\ Moved(dmem, a, ReadyIn(dmem) \cup {RQ})
            /\ \A x \in ReadyIn(dmem) \cup {RQ} : a.next[x] # WQ
    BY <1>2, Switched
  <1>4. /\ ReadyQueue(dmem') /\ dmem'.bad = "no" /\ dcur' \in Task \cup {Idle}
        /\ \A t \in Task : dmem'.state[t] = "RUNNING" <=> t = dcur'
        /\ \A t \in Task : dmem'.state[t] = "BLOCKED" <=> dmem.state[t] = "BLOCKED"
        /\ Moved(dmem, dmem', S)
    BY <1>1, <1>3 DEF DevTasks
  <1>5. DevWaiting' = DevWaiting /\ DevWaiting \subseteq Task
    BY <1>1, <1>2, <1>4 DEF DevWaiting
  <1>6. S \subseteq Task \cup {RQ} /\ DevWaiting \cap S = {}
    BY <1>1, <1>2, HeadsAreNoTasks DEF DevWaiting, ReadyIn
  <1>7. RingOf(dmem', WQ, DevWaiting')
    BY <1>4, <1>5, <1>6, DevSwitchKeeps DEF DevTasks
  <1>8. DevTasks'
    BY <1>1, <1>4, <1>7 DEF DevTasks
  <1>9. DevPackets'
    BY <1>1, <1>2, <1>4 DEF DevPackets
  <1> QED BY <1>8, <1>9

LEMMA DevAppendInv ==
    ASSUME DevTasks, DevPackets, D!io_device_queue_append, ~ dtorn'
    PROVE  DevTasks' /\ DevPackets'
  <1>1. /\ entry_count' = entry_count + 1 /\ dmem' = wait_queue_wakeup(dmem)
        /\ dpc # "block" /\ UNCHANGED <<dcur, dpc>>
    BY SameLists DEF D!io_device_queue_append
  <1>2. /\ ReadyQueue(dmem) /\ RingOf(dmem, WQ, DevWaiting) /\ reader \in Task
        /\ entry_count \in Nat
    BY DevReader DEF DevTasks, DevPackets
  <1>3. \A t \in DevWaiting : t = reader /\ dmem.state[t] = "BLOCKED"
    BY <1>1 DEF DevWaiting
  <1>4. CASE DevWaiting = {}
    <2>1. dmem' = dmem
      BY <1>1, <1>2, <1>4, NobodyAwake
    <2>2. DevWaiting' = DevWaiting /\ dmem.state[reader] # "BLOCKED"
      BY <1>1, <1>4, <2>1 DEF DevWaiting
    <2>3. DevTasks'
      BY <1>1, <2>1, <2>2 DEF DevTasks
    <2>4. DevPackets'
      BY <1>1, <1>2, <2>1, <2>2 DEF DevPackets
    <2> QED BY <2>3, <2>4
  <1>5. CASE DevWaiting # {}
    <2>1. \A t \in DevWaiting : dmem.state[t] = "BLOCKED"
      BY <1>3
    <2>2. PICK c \in DevWaiting :
             LET a == wait_queue_wakeup(dmem)
             IN  /\ WakeupIfAny(dmem) = a /\ ReadyQueue(a) /\ RingOf(a, WQ, DevWaiting \ {c})
                 /\ a.state = [dmem.state EXCEPT ![c] = "READY"] /\ a.bad = dmem.bad
      BY <1>2, <1>5, <2>1, HeadAwake
    <2>3. c = reader /\ DevWaiting \ {c} = {} /\ dmem.state[reader] = "BLOCKED"
          /\ dpc = "woken"
      BY <1>2, <1>3 DEF DevTasks
    <2>4. dmem.state \in [Task -> {"READY", "RUNNING", "BLOCKED"}]
      BY <1>2 DEF ReadyQueue, Pointers
    <2>5. /\ ReadyQueue(dmem') /\ RingOf(dmem', WQ, {})
          /\ dmem'.state = [dmem.state EXCEPT ![reader] = "READY"] /\ dmem'.bad = dmem.bad
      BY <1>1, <2>2, <2>3
    <2>6. DevWaiting' = {}
      BY <1>1, <1>2, <2>4, <2>5 DEF DevWaiting
    <2>7. RingOf(dmem', WQ, DevWaiting')
      BY <2>5, <2>6
    <2>8. /\ \A t \in Task : dmem'.state[t] = "RUNNING" <=> dmem.state[t] = "RUNNING"
          /\ \A t \in Task : dmem'.state[t] = "BLOCKED" => dmem.state[t] = "BLOCKED"
          /\ dmem'.state[reader] = "READY"
      BY <1>2, <2>3, <2>4, <2>5
    <2>9. DevTasks'
      BY <1>1, <2>5, <2>7, <2>8 DEF DevTasks
    <2>10. DevPackets'
      BY <1>1, <1>2, <2>8 DEF DevPackets
    <2> QED BY <2>9, <2>10
  <1> QED BY <1>4, <1>5

LEMMA DevPickupInv ==
    ASSUME DevTasks, DevPackets, D!io_device_queue_pickup
    PROVE  DevTasks' /\ DevPackets'
  <1>1. /\ ReadyQueue(dmem) /\ RingOf(dmem, WQ, DevWaiting) /\ reader \in Task
        /\ dmem.state \in [Task -> {"READY", "RUNNING", "BLOCKED"}]
        /\ entry_count \in Nat
    BY DevReader DEF DevTasks, DevPackets, ReadyQueue, Pointers
  <1>2. CASE D!PickupNow
    <2>1. /\ dcur = reader /\ dpc = "out" /\ entry_count > 0 /\ entry_count' = entry_count - 1
          /\ UNCHANGED <<dmem, dcur, dpc>>
      BY <1>2 DEF D!PickupNow
    <2>2. DevWaiting' = DevWaiting /\ dmem.state[reader] = "RUNNING"
      BY <1>1, <2>1 DEF DevWaiting, DevTasks
    <2>3. DevTasks' /\ DevPackets'
      BY <1>1, <2>1, <2>2 DEF DevTasks, DevPackets
    <2> QED BY <2>3
  <1>3. CASE D!PickupWait
    <2>1. /\ dcur = reader /\ dpc = "out" /\ entry_count = 0
          /\ dmem' = wait_queue_add(dmem, reader) /\ dpc' = "block"
          /\ UNCHANGED <<dcur, entry_count>>
      BY <1>3, SameLists DEF D!PickupWait
    <2>2. dmem.state[reader] = "RUNNING"
      BY <1>1, <2>1 DEF DevTasks
    <2>3. DevWaiting = {} /\ reader \notin ReadyIn(dmem)
      BY <2>1, <2>2 DEF DevWaiting, ReadyIn
    <2>4. RingOf(dmem, WQ, {}) /\ {} \cap ReadyIn(dmem) = {} /\ reader \notin {}
          /\ {} \cup {reader} = {reader}
      BY <1>1, <2>3
    <2>5. LET a == wait_queue_add(dmem, reader)
          IN  /\ ReadyQueue(a) /\ RingOf(a, WQ, {} \cup {reader})
              /\ a.state = dmem.state /\ a.bad = dmem.bad
      BY <1>1, <2>3, <2>4, WaitAdded
    <2>6. /\ ReadyQueue(dmem') /\ RingOf(dmem', WQ, {reader})
          /\ dmem'.state = dmem.state /\ dmem'.bad = dmem.bad
      BY <2>1, <2>4, <2>5
    <2>7. DevWaiting' = {reader}
      BY <2>1 DEF DevWaiting
    <2>8. RingOf(dmem', WQ, DevWaiting')
      BY <2>6, <2>7
    <2>9. \A t \in Task : dmem.state[t] # "BLOCKED"
      BY <2>1 DEF DevTasks
    <2>10. DevTasks'
      BY <2>1, <2>6, <2>8, <2>9 DEF DevTasks
    <2>11. DevPackets'
      BY <1>1, <2>1, <2>6, <2>9 DEF DevPackets
    <2> QED BY <2>10, <2>11
  <1>4. CASE D!PickupBlock
    <2> DEFINE l == [dmem EXCEPT !.state[reader] = "BLOCKED"]
               S == ReadyIn(dmem) \cup {RQ}
    <2>1. /\ dcur = reader /\ dpc = "block" /\ dmem' = fetch_first(l)
          /\ dcur' = (IF dmem'.bad = "no" THEN NextTask(l) ELSE dcur)
          /\ dpc' = "woken" /\ UNCHANGED entry_count
      BY <1>4, SameLists DEF D!PickupBlock, D!Switch
    <2>2. /\ l.next = dmem.next /\ l.prev = dmem.prev /\ l.len = dmem.len
          /\ l.bad = dmem.bad /\ Pointers(l)
          /\ l.state = [dmem.state EXCEPT ![reader] = "BLOCKED"]
      BY <1>1 DEF ReadyQueue, Pointers
    <2> HIDE DEF l
    <2>3. dmem.state[reader] = "RUNNING" /\ \A t \in Task : dmem.state[t] = "RUNNING" <=> t = reader
      BY <1>1, <2>1 DEF DevTasks
    <2>4. ReadyIn(l) = ReadyIn(dmem)
      BY <1>1, <2>2, <2>3 DEF ReadyIn
    <2>5. ReadyQueue(l)
      <3>1. RingOf(dmem, RQ, ReadyIn(dmem)) /\ dmem.len = Cardinality(ReadyIn(dmem))
        BY <1>1 DEF ReadyQueue
      <3>2. RingOf(l, RQ, ReadyIn(dmem))
        BY <2>2, <3>1, RingFrame
      <3> QED BY <2>2, <2>4, <3>1, <3>2 DEF ReadyQueue
    <2>6. \A t \in Task : l.state[t] # "RUNNING"
      BY <1>1, <2>2, <2>3
    <2>7. LET a == fetch_first(l)
              d == NextTask(l)
          IN  /\ ReadyQueue(a) /\ a.bad = l.bad /\ d \in Task \cup {Idle}
              /\ \A t \in Task : a.state[t] = "RUNNING" <=> t = d
              /\ \A t \in Task : a.state[t] = "BLOCKED" <=> l.state[t] = "BLOCKED"
              /\ Moved(l, a, ReadyIn(l) \cup {RQ})
              /\ \A x \in ReadyIn(l) \cup {RQ} : a.next[x] # WQ
      BY <2>5, <2>6, Switched
    <2>8. /\ ReadyQueue(dmem') /\ dmem'.bad = "no" /\ dcur' \in Task \cup {Idle}
          /\ \A t \in Task : dmem'.state[t] = "RUNNING" <=> t = dcur'
          /\ Moved(dmem, dmem', S)
      BY <2>1, <2>2, <2>4, <2>7 DEF Moved, DevTasks
    <2>9. \A t \in Task : dmem.state[t] # "BLOCKED"
      BY <2>1 DEF DevTasks
    <2>10. \A t \in Task : dmem'.state[t] = "BLOCKED" <=> t = reader
      BY <1>1, <2>1, <2>2, <2>7, <2>9
    <2>11. DevWaiting = {reader} /\ DevWaiting' = {reader}
      BY <1>1, <2>1, <2>10 DEF DevWaiting
    <2>12. S \subseteq Task \cup {RQ} /\ {reader} \cap S = {} /\ {reader} \subseteq Task
      BY <1>1, <2>3, HeadsAreNoTasks DEF ReadyIn
    <2>13. RingOf(dmem', WQ, {reader})
      BY <1>1, <2>8, <2>11, <2>12, DevSwitchKeeps
    <2>14. RingOf(dmem', WQ, DevWaiting')
      BY <2>11, <2>13
    <2>15. DevTasks'
      BY <2>1, <2>8, <2>10, <2>14 DEF DevTasks
    <2>16. DevPackets'
      BY <1>1, <2>1, <2>10 DEF DevPackets
    <2> QED BY <2>15, <2>16
  <1>5. CASE D!PickupWoken
    <2>1. /\ dcur = reader /\ dpc = "woken" /\ dpc' = "out" /\ entry_count' = entry_count - 1
          /\ dmem' = (IF entry_count = 0 THEN [dmem EXCEPT !.bad = "fault"] ELSE dmem)
          /\ UNCHANGED dcur
      BY <1>5 DEF D!PickupWoken
    <2>2. dmem.state[reader] = "RUNNING"
      BY <1>1, <2>1 DEF DevTasks
    <2>3. entry_count > 0 /\ dmem' = dmem
      BY <2>1, <2>2 DEF DevPackets
    <2>4. DevWaiting = {} /\ DevWaiting' = {}
      BY <2>1, <2>2, <2>3 DEF DevWaiting
    <2>5. \A t \in Task : dmem.state[t] # "BLOCKED"
      BY <2>2 DEF DevTasks
    <2>6. DevTasks'
      BY <2>1, <2>3, <2>4, <2>5 DEF DevTasks
    <2>7. DevPackets'
      BY <1>1, <2>1, <2>2, <2>3 DEF DevPackets
    <2> QED BY <2>6, <2>7
  <1> QED BY <1>2, <1>3, <1>4, <1>5 DEF D!io_device_queue_pickup

LEMMA DevStepInv == DevInv /\ [D!Next]_(D!vars) => DevInv'
  <1> SUFFICES ASSUME DevInv, [D!Next]_(D!vars) PROVE DevInv'
    OBVIOUS
  <1>1. CASE UNCHANGED D!vars
    BY <1>1 DEF D!vars, DevInv, DevTasks, DevPackets, DevWaiting
  <1>2. CASE D!Next
    <2>1. SUFFICES ASSUME ~ dtorn' PROVE DevTasks' /\ DevPackets'
      BY DEF DevInv
    <2>2. ~ dtorn
      BY <1>2, <2>1 DEF D!Next, D!Preempt, D!LeaveIdle, D!io_device_queue_append,
           D!io_device_queue_pickup, D!PickupNow, D!PickupWait, D!PickupBlock, D!PickupWoken,
           D!Trigger
    <2>3. DevTasks /\ DevPackets
      BY <2>2 DEF DevInv
    <2> QED BY <1>2, <2>1, <2>3, DevPreemptInv, DevLeaveIdleInv, DevAppendInv, DevPickupInv
            DEF D!Next, D!Trigger
  <1> QED BY <1>1, <1>2

LEMMA DevInvExact == DevInv => D!SleepsOnlyWhenEmpty
  BY DEF DevInv, DevTasks, DevPackets, D!SleepsOnlyWhenEmpty

\* msgpool_pop and io_device_queue_pickup: until a task is switched away from
\* between its two steps, or woken by a trigger after them, nobody sleeps on messages or packets that are there and
\* that no woken task is on the way to take, and a woken reader finds a packet.
THEOREM QueuesSleepOnlyWhenEmpty ==
    ASSUME OneConsumer
    PROVE  Spec /\ D!Spec => []SleepsOnlyWhenEmpty
  <1>1. Init => PoolKept
    BY PoolInitInv DEF PoolKept, Init
  <1>2. PoolKept /\ [Next]_vars => PoolKept'
    BY PoolStepInv
  <1>3. D!Init => DevInv
    BY DevInitInv
  <1>4. DevInv /\ [D!Next]_(D!vars) => DevInv'
    BY DevStepInv
  <1>5. PoolKept /\ DevInv => SleepsOnlyWhenEmpty
    BY PoolInvExact, DevInvExact DEF SleepsOnlyWhenEmpty
  <1> QED BY <1>1, <1>2, <1>3, <1>4, <1>5, PTL DEF Spec, D!Spec
=============================================================================
