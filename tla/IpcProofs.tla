----------------------------- MODULE IpcProofs -----------------------------
(***************************************************************************)
(* Proofs about what processes share: the pipe (module Pipe) and its ring  *)
(* buffer (FifoBuf), the threads of a process (PThread) and message queues *)
(* (MsgQueue), for any number of tasks, any size of the pipe and any       *)
(* requests.                                                               *)
(*                                                                         *)
(* pipe_close frees the memory when two counters are 0 that are changed    *)
(* and read with interrupts on; they are the numbers of tasks that hold an *)
(* end, after every step.  The same numbers are what pipe_read and         *)
(* pipe_write look at before a wakeup: a wakeup is left out only if nobody *)
(* of the other side can sleep.                                            *)
(*                                                                         *)
(* The bytes of a write end up in the pipe behind those that are there, a  *)
(* reader takes them from the front, and a writer that was put to sleep in *)
(* the middle of a request goes on where it stopped: what readers got and  *)
(* what is in the pipe is, position by position, what the requests say.    *)
(* The ring buffer below (FifoBuf) is a queue of bytes, with indices that  *)
(* run over an unsigned int and copies cut in two at its end.              *)
(*                                                                         *)
(* pthread_exit sets the state of a thread and counts it off in two steps, *)
(* and a joiner looks at a thread before it sleeps for it.  Who sleeps for *)
(* a thread is written in that thread, and the threads that still count    *)
(* are those whose states say so, but for the one that is between the two  *)
(* steps.                                                                  *)
(*                                                                         *)
(* msg_queue_recv wakes a sender when there was a message to take, so that *)
(* senders get past the end of the queue, but not by more than were woken; *)
(* the counter of messages is an unsigned char and must hold that many.    *)
(***************************************************************************)
EXTENDS MCIpc, SequenceTheorems, FiniteSetTheorems, WellFoundedInduction, TLAPS

-----------------------------------------------------------------------------
(* Wait queues.                                                            *)

OnceIn(s) == \A i, j \in 1 .. Len(s) : s[i] = s[j] => i = j

\* wait_queue_add of a task that is not in the queue.
LEMMA AddLast ==
    ASSUME NEW S, NEW s \in Seq(S), NEW t \in S, OnceIn(s), ~ Contains(s, t)
    PROVE  /\ Append(s, t) \in Seq(S) /\ OnceIn(Append(s, t))
           /\ \A u : Contains(Append(s, t), u) <=> (Contains(s, u) \/ u = t)
  <1> DEFINE r == Append(s, t)
  <1>1. /\ r \in Seq(S) /\ Len(s) \in Nat /\ Len(r) = Len(s) + 1 /\ r[Len(s) + 1] = t
        /\ \A i \in 1 .. Len(s) : r[i] = s[i]
    BY AppendProperties
  <1> HIDE DEF r
  <1>2. OnceIn(r)
    <2> SUFFICES ASSUME NEW i \in 1 .. Len(s) + 1, NEW j \in 1 .. Len(s) + 1, r[i] = r[j]
                 PROVE  i = j
      BY <1>1 DEF OnceIn
    <2>1. i = Len(s) + 1 \/ i \in 1 .. Len(s)
      BY <1>1
    <2>2. j = Len(s) + 1 \/ j \in 1 .. Len(s)
      BY <1>1
    <2> QED BY <2>1, <2>2, <1>1 DEF OnceIn, Contains
  <1>3. ASSUME NEW u PROVE Contains(r, u) <=> (Contains(s, u) \/ u = t)
    <2>1. ASSUME Contains(r, u) PROVE Contains(s, u) \/ u = t
      <3>1. PICK i \in 1 .. Len(r) : r[i] = u
        BY <2>1 DEF Contains
      <3>2. i = Len(s) + 1 \/ i \in 1 .. Len(s)
        BY <3>1, <1>1
      <3> QED BY <3>1, <3>2, <1>1 DEF Contains
    <2>2. ASSUME Contains(s, u) PROVE Contains(r, u)
      <3>1. PICK i \in 1 .. Len(s) : s[i] = u
        BY <2>2 DEF Contains
      <3>2. i \in 1 .. Len(r) /\ r[i] = u
        BY <3>1, <1>1
      <3> QED BY <3>2 DEF Contains
    <2>3. ASSUME u = t PROVE Contains(r, u)
      <3>1. Len(s) + 1 \in 1 .. Len(r)
        BY <1>1
      <3> QED BY <3>1, <2>3, <1>1 DEF Contains
    <2> QED BY <2>1, <2>2, <2>3
  <1> QED BY <1>1, <1>2, <1>3 DEF r

\* wait_queue_wakeup: the head, and nobody else, leaves the queue.
LEMMA HeadLeaves ==
    ASSUME NEW S, NEW s \in Seq(S), OnceIn(s), s # << >>
    PROVE  /\ Head(s) \in S /\ Contains(s, Head(s))
           /\ Tail(s) \in Seq(S) /\ OnceIn(Tail(s))
           /\ \A u : Contains(Tail(s), u) <=> (Contains(s, u) /\ u # Head(s))
  <1> DEFINE r == Tail(s)
             h == Head(s)
  <1>1. /\ r \in Seq(S) /\ Len(s) \in Nat \ {0} /\ Len(r) = Len(s) - 1
        /\ \A i \in 1 .. Len(r) : r[i] = s[i + 1]
        /\ h = s[1] /\ h \in S
    BY HeadTailProperties, EmptySeq
  <1> HIDE DEF r, h
  <1>2. OnceIn(r)
    <2> SUFFICES ASSUME NEW i \in 1 .. Len(s) - 1, NEW j \in 1 .. Len(s) - 1, r[i] = r[j]
                 PROVE  i = j
      BY <1>1 DEF OnceIn
    <2>1. s[i + 1] = s[j + 1] /\ i + 1 \in 1 .. Len(s) /\ j + 1 \in 1 .. Len(s)
      BY <1>1
    <2>2. i + 1 = j + 1
      BY <2>1 DEF OnceIn
    <2> QED BY <2>2
  <1>3. ASSUME NEW u PROVE Contains(r, u) <=> (Contains(s, u) /\ u # h)
    <2>1. ASSUME Contains(r, u) PROVE Contains(s, u) /\ u # h
      <3>1. PICK i \in 1 .. Len(r) : r[i] = u
        BY <2>1 DEF Contains
      <3>2. i + 1 \in 1 .. Len(s) /\ s[i + 1] = u /\ i + 1 # 1 /\ 1 \in 1 .. Len(s)
        BY <3>1, <1>1
      <3> QED BY <3>2, <1>1 DEF Contains, OnceIn
    <2>2. ASSUME Contains(s, u), u # h PROVE Contains(r, u)
      <3>1. PICK i \in 1 .. Len(s) : s[i] = u
        BY <2>2 DEF Contains
      <3>2. i - 1 \in 1 .. Len(r) /\ r[i - 1] = u
        BY <3>1, <2>2, <1>1
      <3> QED BY <3>2 DEF Contains
    <2> QED BY <2>1, <2>2
  <1>4. Contains(s, h)
    <2>1. 1 \in 1 .. Len(s)
      BY <1>1
    <2> QED BY <2>1, <1>1 DEF Contains
  <1> QED BY <1>1, <1>2, <1>3, <1>4 DEF r, h

-----------------------------------------------------------------------------
(* The pipe.                                                               *)

PipeType ==
    /\ fifo \in Seq(Writer \X Nat) /\ Len(fifo) <= PIPE_SIZE
    /\ wait_queue \in Seq(Task)
    /\ pc \in [Task -> {"out", "read", "woken", "write", "close"}]
    /\ left \in [Task -> Nat] /\ asked \in [Writer -> Nat]
    /\ freed \in Nat
    /\ open \in SUBSET Task /\ IsFiniteSet(open)

\* The counters are the numbers of tasks that hold the ends.
EndsCounted ==
    /\ read_count = Cardinality(open \cap Reader)
    /\ write_count = Cardinality(open \cap Writer)

\* Whoever is in pipe_read or pipe_write holds its end.
CallersHold ==
    \A t \in Task :
        /\ pc[t] \in {"read", "woken", "write"} => t \in open
        /\ pc[t] \in {"read", "woken"} => t \in Reader
        /\ pc[t] = "write" => t \in Writer

\* The wait queue holds tasks that sleep in the pipe, each once.
SleepersLinked ==
    /\ OnceIn(wait_queue)
    /\ \A t \in Task : Blocked(t) => pc[t] \in {"woken", "write"}

PipeInv ==
    PipeType /\ EndsCounted /\ CallersHold /\ SleepersLinked /\ NobodyForgotten /\ FreedWhenUnused

\* The counters tell whether somebody holds an end.
LEMMA CountersTell ==
    ASSUME PipeInv
    PROVE  /\ read_count \in Nat /\ write_count \in Nat
           /\ read_count = 0 <=> open \cap Reader = {}
           /\ write_count = 0 <=> open \cap Writer = {}
  <1>1. IsFiniteSet(open \cap Reader) /\ IsFiniteSet(open \cap Writer)
    BY FS_Subset DEF PipeInv, PipeType
  <1> QED BY <1>1, FS_EmptySet, FS_CardinalityType DEF PipeInv, EndsCounted

\* Who sleeps in the pipe is counted.
LEMMA SleepersCounted ==
    ASSUME PipeInv
    PROVE  /\ \A t \in Task : Blocked(t) => pc[t] \in {"woken", "write"} /\ t \in open
           /\ \A r \in Reader : Blocked(r) => read_count > 0
           /\ \A w \in Writer : Blocked(w) => write_count > 0
  <1>1. \A t \in Task : Blocked(t) => (pc[t] \in {"woken", "write"} /\ t \in open)
    BY DEF PipeInv, SleepersLinked, CallersHold
  <1> QED BY <1>1, CountersTell DEF Task

\* What Wakeup leaves of a queue; if it leaves it as it is, there is nobody of
\* the other side, or nobody at all.
LEMMA WakeupFacts ==
    ASSUME NEW s \in Seq(Task), OnceIn(s), NEW count0 \in Nat
    PROVE  LET r == Wakeup(count0, s)
           IN  /\ r \in Seq(Task) /\ OnceIn(r)
               /\ \A u : Contains(r, u) => Contains(s, u)
               /\ \/ count0 = 0 /\ r = s
                  \/ s = << >> /\ r = << >>
                  \/ /\ count0 > 0
                     /\ \E h \in Task : Contains(s, h) /\ ~ Contains(r, h)
  <1>1. CASE count0 > 0 /\ s # << >>
    <2>1. Wakeup(count0, s) = Tail(s)
      BY <1>1 DEF Wakeup
    <2> QED BY <1>1, <2>1, HeadLeaves
  <1>2. CASE ~ (count0 > 0 /\ s # << >>)
    <2>1. Wakeup(count0, s) = s
      BY <1>2 DEF Wakeup
    <2> QED BY <1>2, <2>1
  <1> QED BY <1>1, <1>2

\* The smaller of two numbers.
LEMMA LeastOfTwo ==
    ASSUME NEW a \in Nat, NEW b \in Nat
    PROVE  /\ Min({a, b}) \in Nat /\ Min({a, b}) <= a /\ Min({a, b}) <= b
           /\ Min({a, b}) = a \/ Min({a, b}) = b
  <1> DEFINE m == Min({a, b})
  <1>1. \E x \in {a, b} : \A y \in {a, b} : x =< y
    OBVIOUS
  <1>2. m = CHOOSE x \in {a, b} : \A y \in {a, b} : x =< y
    BY DEF Min
  <1> HIDE DEF m
  <1>3. m \in {a, b} /\ \A y \in {a, b} : m =< y
    BY <1>1, <1>2
  <1>4. m \in Nat /\ m <= a /\ m <= b /\ (m = a \/ m = b)
    BY <1>3
  <1> QED BY <1>4 DEF m

\* create_pipe.
LEMMA PipeInit == Init => PipeInv
  <1> SUFFICES ASSUME Init PROVE PipeInv
    OBVIOUS
  <1>1. /\ fifo = << >> /\ wait_queue = << >> /\ freed = 0 /\ read_count = 1 /\ write_count = 1
        /\ open = {FirstReader, FirstWriter} /\ pc = [t \in Task |-> "out"]
        /\ left = [t \in Task |-> 0] /\ asked = [w \in Writer |-> 0]
    BY DEF Init
  <1>2. Len(fifo) = 0 /\ \A t : ~ Blocked(t)
    BY <1>1 DEF Blocked, Contains
  <1>3. open \cap Reader = {FirstReader} /\ open \cap Writer = {FirstWriter} /\ open \subseteq Task
    BY <1>1, PipeAssumption DEF Task
  <1>4. IsFiniteSet(open)
    <2>1. open = {FirstReader} \cup {FirstWriter}
      BY <1>1
    <2> QED BY <2>1, FS_Singleton, FS_AddElement
  <1>5. PipeType
    BY <1>1, <1>2, <1>3, <1>4, PipeAssumption DEF PipeType
  <1>6. EndsCounted
    BY <1>1, <1>3, FS_Singleton DEF EndsCounted
  <1>7. CallersHold /\ SleepersLinked
    BY <1>1, <1>2 DEF CallersHold, SleepersLinked, OnceIn
  <1>8. NobodyForgotten /\ FreedWhenUnused
    <2>1. NobodyForgotten
      BY <1>2 DEF NobodyForgotten, NoSleepOnBytes, NoSleepOnRoom
    <2>2. FreedWhenUnused
      BY <1>1 DEF FreedWhenUnused
    <2> QED BY <2>1, <2>2
  <1> QED BY <1>5, <1>6, <1>7, <1>8 DEF PipeInv

\* Somebody who was asleep is on the way.
LEMMA OnTheWay ==
    ASSUME NEW h \in Task, pc'[h] \in {"woken", "write"}, ~ Contains(wait_queue', h)
    PROVE  NobodyForgotten'
  <1>1. ~ Blocked(h)'
    BY DEF Blocked
  <1>2. Underway'
    BY <1>1 DEF Underway
  <1> QED BY <1>2 DEF NobodyForgotten, NoSleepOnBytes, NoSleepOnRoom

\* If a task that is not on the way moves, and neither the ends nor the bytes
\* nor the queue change, nobody is forgotten.
LEMMA NothingMoved ==
    ASSUME PipeInv, NEW t \in Task,
           \A u \in Task : u # t => pc'[u] = pc[u],
           pc[t] \notin {"woken", "write"} \/ pc'[t] \in {"woken", "write"},
           UNCHANGED <<fifo, wait_queue>>,
           write_count' > 0 => write_count > 0, read_count' > 0 => read_count > 0
    PROVE  NobodyForgotten'
  <1>1. \A u : Blocked(u)' <=> Blocked(u)
    BY DEF Blocked
  <1>2. Underway => Underway'
    BY <1>1 DEF Underway
  <1>3. Room' = Room
    BY DEF Room
  <1>4. NoSleepOnBytes'
    BY <1>1, <1>2 DEF PipeInv, NobodyForgotten, NoSleepOnBytes
  <1>5. NoSleepOnRoom'
    BY <1>1, <1>2, <1>3 DEF PipeInv, NobodyForgotten, NoSleepOnRoom
  <1> QED BY <1>4, <1>5 DEF NobodyForgotten

\* A wakeup of pipe_read: either somebody is on the way, or nobody who sleeps
\* can be served.
LEMMA WakeupServes ==
    ASSUME PipeInv, NEW t \in Task, ~ Blocked(t),
           \A u \in Task : u # t => pc'[u] = pc[u],
           wait_queue' = Wakeup(write_count, wait_queue), UNCHANGED <<read_count, write_count>>
    PROVE  NobodyForgotten'
  <1>1. wait_queue \in Seq(Task) /\ OnceIn(wait_queue) /\ write_count \in Nat
    BY CountersTell DEF PipeInv, PipeType, SleepersLinked
  <1>2. /\ \A u : Contains(wait_queue', u) => Contains(wait_queue, u)
        /\ \/ write_count = 0 /\ wait_queue' = wait_queue
           \/ wait_queue' = << >>
           \/ \E h \in Task : Contains(wait_queue, h) /\ ~ Contains(wait_queue', h)
    BY <1>1, WakeupFacts
  <1>3. CASE write_count = 0 /\ wait_queue' = wait_queue
    <2>1. \A w \in Writer : ~ Blocked(w)'
      BY <1>3, SleepersCounted DEF Blocked
    <2> QED BY <1>3, <2>1 DEF NobodyForgotten, NoSleepOnBytes, NoSleepOnRoom
  <1>4. CASE wait_queue' = << >>
    <2>1. \A u : ~ Blocked(u)'
      BY <1>4 DEF Blocked, Contains
    <2> QED BY <2>1 DEF NobodyForgotten, NoSleepOnBytes, NoSleepOnRoom
  <1>5. CASE \E h \in Task : Contains(wait_queue, h) /\ ~ Contains(wait_queue', h)
    <2>1. PICK h \in Task : Contains(wait_queue, h) /\ ~ Contains(wait_queue', h)
      BY <1>5
    <2>2. Blocked(h) /\ h # t
      BY <2>1 DEF Blocked
    <2>3. pc'[h] \in {"woken", "write"}
      BY <2>2, SleepersCounted
    <2> QED BY <2>1, <2>3, OnTheWay
  <1> QED BY <1>2, <1>3, <1>4, <1>5

\* The ends stay as they are when nobody opens or closes one.
LEMMA EndsKept ==
    ASSUME PipeInv, UNCHANGED files PROVE EndsCounted' /\ FreedWhenUnused'
  BY DEF files, PipeInv, EndsCounted, FreedWhenUnused

\* __pipe_read takes bytes.
LEMMA TakePipe ==
    ASSUME PipeInv, NEW r \in Reader, pc[r] \in {"read", "woken"}, ~ Blocked(r), Take(r)
    PROVE  PipeInv'
  <1> DEFINE n == Min({left[r], Len(fifo)})
  <1>1. r \in Task /\ left[r] \in Nat /\ Len(fifo) \in Nat
    BY DEF Task, PipeInv, PipeType
  <1>2. n \in Nat /\ n <= left[r] /\ n <= Len(fifo)
    BY <1>1, LeastOfTwo
  <1>3. /\ fifo' = SubSeq(fifo, n + 1, Len(fifo)) /\ Turn(r, n)
        /\ wait_queue' = Wakeup(write_count, wait_queue) /\ UNCHANGED <<files, asked>>
    BY DEF Take
  <1> HIDE DEF n
  <1>4. PICK at \in {"out", "read"} : pc' = [pc EXCEPT ![r] = at]
    BY <1>3 DEF Turn, Return
  <1>5. \A u \in Task : pc'[u] = IF u = r THEN at ELSE pc[u]
    BY <1>4 DEF PipeInv, PipeType
  <1>6. left' \in [Task -> Nat]
    <2>1. left[r] - n \in Nat /\ left \in [Task -> Nat]
      BY <1>1, <1>2 DEF PipeInv, PipeType
    <2>2. \E m \in Nat : left' = [left EXCEPT ![r] = m]
      BY <2>1, <1>3 DEF Turn, Return
    <2> QED BY <2>1, <2>2
  <1>7. fifo' \in Seq(Writer \X Nat) /\ Len(fifo') <= PIPE_SIZE
    <2>1. fifo \in Seq(Writer \X Nat) /\ Len(fifo) <= PIPE_SIZE /\ PIPE_SIZE \in Nat
      BY PipeAssumption DEF PipeInv, PipeType
    <2>2. \A i \in n + 1 .. Len(fifo) : fifo[i] \in Writer \X Nat
      BY <2>1, <1>1, <1>2
    <2> QED BY <2>1, <2>2, <1>1, <1>2, <1>3, SubSeqProperties
  <1>8. /\ wait_queue' \in Seq(Task) /\ OnceIn(wait_queue')
        /\ \A u : Contains(wait_queue', u) => Contains(wait_queue, u)
    <2>1. wait_queue \in Seq(Task) /\ OnceIn(wait_queue) /\ write_count \in Nat
      BY CountersTell DEF PipeInv, PipeType, SleepersLinked
    <2> QED BY <2>1, <1>3, WakeupFacts
  <1>9. PipeType'
    BY <1>3, <1>4, <1>6, <1>7, <1>8 DEF files, PipeInv, PipeType
  <1>10. CallersHold'
    BY <1>3, <1>5 DEF files, PipeInv, CallersHold
  <1>11. SleepersLinked'
    BY <1>5, <1>8 DEF PipeInv, SleepersLinked, Blocked
  <1>12. NobodyForgotten'
    BY <1>1, <1>3, <1>5, WakeupServes DEF files
  <1> QED BY <1>3, <1>9, <1>10, <1>11, <1>12, EndsKept DEF PipeInv

\* A reader finds nothing and sleeps, though a writer may sleep too.
LEMMA ReadWaitPipe ==
    ASSUME PipeInv, NEW r \in Reader, ReadWait(r) PROVE PipeInv'
  <1>1. /\ pc[r] = "read" /\ fifo = << >> /\ r \in Task
        /\ wait_queue' = Append(wait_queue, r) /\ pc' = [pc EXCEPT ![r] = "woken"]
        /\ UNCHANGED <<files, data, left>>
    BY DEF ReadWait, Task
  <1>2. \A u \in Task : pc'[u] = IF u = r THEN "woken" ELSE pc[u]
    BY <1>1 DEF PipeInv, PipeType
  <1>3. ~ Blocked(r)
    BY <1>1 DEF PipeInv, SleepersLinked
  <1>4. /\ wait_queue' \in Seq(Task) /\ OnceIn(wait_queue')
        /\ \A u : Contains(wait_queue', u) <=> (Contains(wait_queue, u) \/ u = r)
    <2>1. wait_queue \in Seq(Task) /\ OnceIn(wait_queue) /\ ~ Contains(wait_queue, r)
      BY <1>3 DEF PipeInv, PipeType, SleepersLinked, Blocked
    <2> QED BY <2>1, <1>1, AddLast
  <1>5. PipeType'
    BY <1>1, <1>4 DEF files, data, PipeInv, PipeType
  <1>6. CallersHold'
    BY <1>1, <1>2 DEF files, PipeInv, CallersHold
  <1>7. SleepersLinked'
    BY <1>2, <1>4 DEF PipeInv, SleepersLinked, Blocked
  <1>8. NobodyForgotten'
    <2>1. \A u : Blocked(u)' <=> (Blocked(u) \/ u = r)
      BY <1>4 DEF Blocked
    <2>2. fifo' = fifo /\ Room' = Room /\ read_count' = read_count
      BY <1>1 DEF data, files, Room
    <2>3. r \notin Writer
      BY PipeAssumption
    <2>4. Underway => Underway'
      BY <1>1, <1>2, <2>1 DEF Underway
    <2>5. NoSleepOnRoom'
      BY <2>1, <2>2, <2>3, <2>4 DEF PipeInv, NobodyForgotten, NoSleepOnRoom
    <2> QED BY <1>1, <2>2, <2>5 DEF NobodyForgotten, NoSleepOnBytes
  <1> QED BY <1>1, <1>5, <1>6, <1>7, <1>8, EndsKept DEF PipeInv

\* A turn of pipe_write.  If the writer sleeps, the pipe is full; if it leaves
\* readers asleep, one of them or a writer is on the way.
LEMMA WriteTurnPipe ==
    ASSUME PipeInv, NEW w \in Writer, WriteTurn(w) PROVE PipeInv'
  <1> DEFINE n == Min({left[w], Room})
             queue0 == Wakeup(read_count, wait_queue)
             rest0 == left[w] - n
  <1>1. /\ w \in Task /\ left[w] \in Nat /\ Len(fifo) \in Nat /\ Room \in Nat
        /\ Room = PIPE_SIZE - Len(fifo)
    BY PipeAssumption DEF Task, PipeInv, PipeType, Room
  <1>2. n \in Nat /\ n <= left[w] /\ n <= Room /\ (n = left[w] \/ n = Room)
    BY <1>1, LeastOfTwo
  <1>3. /\ pc[w] = "write" /\ ~ Blocked(w) /\ UNCHANGED <<files, got>>
        /\ fifo' = fifo \o Chunk(w, n)
        /\ IF rest0 > 0 /\ "write" \notin nowait
           THEN /\ wait_queue' = Append(queue0, w)
                /\ left' = [left EXCEPT ![w] = rest0]
                /\ UNCHANGED <<pc, asked>>
           ELSE /\ wait_queue' = queue0
                /\ asked' = [asked EXCEPT ![w] = (@ - rest0) % Numbers]
                /\ Return(w)
    BY DEF WriteTurn, Put
  <1> HIDE DEF n, queue0
  <1>4. rest0 \in Nat /\ rest0 = left[w] - n
    BY <1>1, <1>2
  <1> HIDE DEF rest0
  <1>5. /\ wait_queue \in Seq(Task) /\ OnceIn(wait_queue) /\ read_count \in Nat
        /\ ~ Contains(wait_queue, w)
    BY <1>3, CountersTell DEF PipeInv, PipeType, SleepersLinked, Blocked
  <1>6. /\ queue0 \in Seq(Task) /\ OnceIn(queue0)
        /\ \A u : Contains(queue0, u) => Contains(wait_queue, u)
        /\ \/ read_count = 0 /\ queue0 = wait_queue
           \/ queue0 = << >>
           \/ \E h \in Task : Contains(wait_queue, h) /\ ~ Contains(queue0, h)
    BY <1>5, WakeupFacts DEF queue0
  <1>7. /\ wait_queue' \in Seq(Task) /\ OnceIn(wait_queue')
        /\ \A u : Contains(wait_queue', u) => (Contains(queue0, u) \/ u = w)
    <2>1. ~ Contains(queue0, w)
      BY <1>5, <1>6
    <2>2. wait_queue' = queue0 \/ wait_queue' = Append(queue0, w)
      BY <1>3
    <2>3. CASE wait_queue' = queue0
      BY <2>3, <1>6
    <2>4. CASE wait_queue' = Append(queue0, w)
      <3>1. /\ Append(queue0, w) \in Seq(Task) /\ OnceIn(Append(queue0, w))
            /\ \A u : Contains(Append(queue0, w), u) <=> (Contains(queue0, u) \/ u = w)
        BY <2>1, <1>1, <1>6, AddLast
      <3> QED BY <3>1, <2>4
    <2> QED BY <2>2, <2>3, <2>4
  <1>8. /\ \A u \in Task : u # w => pc'[u] = pc[u]
        /\ pc'[w] = "write" \/ (pc'[w] = "out" /\ wait_queue' = queue0)
        /\ pc' \in [Task -> {"out", "read", "woken", "write", "close"}]
    BY <1>1, <1>3 DEF Return, PipeInv, PipeType
  <1>9. /\ Chunk(w, n) \in Seq(Writer \X Nat) /\ Len(Chunk(w, n)) = n
    <2>1. asked[w] \in Nat /\ Numbers \in Nat /\ Numbers > 0
      BY PipeAssumption DEF PipeInv, PipeType
    <2>2. \A i \in 1 .. n : (asked[w] - left[w] + i) % Numbers \in Nat
      BY <2>1, <1>1, <1>2
    <2> QED BY <2>2, <1>2 DEF Chunk
  <1>10. fifo' \in Seq(Writer \X Nat) /\ Len(fifo') = Len(fifo) + n
    <2> DEFINE c == Chunk(w, n)
    <2>1. fifo \in Seq(Writer \X Nat) /\ c \in Seq(Writer \X Nat) /\ Len(c) = n /\ fifo' = fifo \o c
      BY <1>3, <1>9 DEF PipeInv, PipeType
    <2> HIDE DEF c
    <2> QED BY <2>1, ConcatProperties
  <1>11. left' \in [Task -> Nat] /\ asked' \in [Writer -> Nat]
    <2>1. asked \in [Writer -> Nat] /\ Numbers \in Nat /\ Numbers > 0 /\ left \in [Task -> Nat]
      BY PipeAssumption DEF PipeInv, PipeType
    <2>2. (asked[w] - rest0) % Numbers \in Nat
      BY <2>1, <1>4
    <2>3. \E m \in Nat : left' = [left EXCEPT ![w] = m]
      BY <1>3, <1>4 DEF Return
    <2>4. UNCHANGED asked \/ \E m \in Nat : asked' = [asked EXCEPT ![w] = m]
      BY <1>3, <2>1, <2>2
    <2> QED BY <2>1, <2>3, <2>4
  <1>12. PipeType'
    <2>1. /\ freed' \in Nat /\ open' \in SUBSET Task /\ IsFiniteSet(open')
      BY <1>3 DEF files, PipeInv, PipeType
    <2>2. PIPE_SIZE \in Nat
      BY PipeAssumption
    <2>3. Len(fifo') <= PIPE_SIZE
      BY ONLY <1>1, <1>2, <1>10, <2>2
    <2> QED BY ONLY <2>1, <2>3, <1>7, <1>8, <1>10, <1>11 DEF PipeType
  <1>13. CallersHold'
    BY <1>3, <1>8 DEF files, PipeInv, CallersHold
  <1>14. SleepersLinked'
    <2> SUFFICES ASSUME NEW u \in Task, Contains(wait_queue', u)
                 PROVE  pc'[u] \in {"woken", "write"}
      BY <1>7 DEF SleepersLinked, Blocked
    <2>1. CASE u = w
      <3>1. ~ Contains(queue0, w)
        BY <1>5, <1>6
      <3> QED BY <3>1, <2>1, <1>8
    <2>2. CASE u # w
      <3>1. Contains(wait_queue, u)
        BY <2>2, <1>6, <1>7
      <3> QED BY <3>1, <2>2, <1>8 DEF PipeInv, SleepersLinked, Blocked
    <2> QED BY <2>1, <2>2
  <1>15. NobodyForgotten'
    <2>1. CASE \E h \in Task : Contains(wait_queue, h) /\ ~ Contains(queue0, h)
      <3>1. PICK h \in Task : Contains(wait_queue, h) /\ ~ Contains(queue0, h)
        BY <2>1
      <3>2. h # w /\ ~ Contains(wait_queue', h)
        BY <3>1, <1>5, <1>7
      <3>3. pc'[h] \in {"woken", "write"}
        BY <3>1, <3>2, <1>8 DEF PipeInv, SleepersLinked, Blocked
      <3> QED BY <3>2, <3>3, OnTheWay
    <2>2. CASE read_count = 0 \/ queue0 = << >>
      <3>1. \A r \in Reader : ~ Blocked(r)'
        <4> SUFFICES ASSUME NEW r \in Reader, Contains(wait_queue', r) PROVE FALSE
          BY DEF Blocked
        <4>1. r # w
          BY PipeAssumption
        <4>2. Contains(queue0, r) /\ Contains(wait_queue, r)
          BY <4>1, <1>6, <1>7
        <4>3. read_count > 0
          BY <4>2, SleepersCounted DEF Blocked
        <4> QED BY <4>2, <4>3, <2>2 DEF Contains
      <3>2. read_count' = read_count
        BY <1>3 DEF files
      <3>3. ASSUME queue0 = << >>, NEW u \in Writer, Blocked(u)' PROVE Room' = 0
        <4>1. ~ Contains(queue0, u) /\ Contains(wait_queue', u)
          BY <3>3 DEF Contains, Blocked
        <4>2. wait_queue' # queue0
          BY <4>1
        <4>3. rest0 > 0
          BY <4>2, <1>3
        <4>4. n = Room
          BY <4>3, <1>1, <1>2, <1>4
        <4> QED BY <4>4, <1>1, <1>10, PipeAssumption DEF Room
      <3>4. NoSleepOnRoom'
        BY <2>2, <3>2, <3>3 DEF NoSleepOnRoom
      <3> QED BY <3>1, <3>4 DEF NobodyForgotten, NoSleepOnBytes
    <2> QED BY <2>1, <2>2, <1>6
  <1> QED BY <1>3, <1>12, <1>13, <1>14, <1>15, EndsKept DEF PipeInv

\* A call begins or ends, the queue and the bytes being as they were.
LEMMA CallPipe ==
    ASSUME PipeInv, NEW t \in Task, NEW at \in {"out", "read", "write"},
           pc' = [pc EXCEPT ![t] = at],
           pc[t] \in {"out", "read", "close"},
           at # "out" => t \in open,
           at = "read" => t \in Reader, at = "write" => t \in Writer,
           left' \in [Task -> Nat], asked' \in [Writer -> Nat],
           UNCHANGED <<fifo, wait_queue, read_count, write_count, open>>,
           freed' \in Nat, FreedWhenUnused'
    PROVE  PipeInv'
  <1>1. \A u \in Task : pc'[u] = IF u = t THEN at ELSE pc[u]
    BY DEF PipeInv, PipeType
  <1>2. PipeType'
    BY DEF PipeInv, PipeType
  <1>3. EndsCounted' /\ CallersHold'
    BY <1>1 DEF PipeInv, EndsCounted, CallersHold
  <1>4. SleepersLinked'
    BY <1>1 DEF PipeInv, SleepersLinked, Blocked
  <1>5. NobodyForgotten'
    BY <1>1, NothingMoved
  <1> QED BY <1>2, <1>3, <1>4, <1>5 DEF PipeInv

\* fork: one more task holds an end.
LEMMA GrowPipe ==
    ASSUME PipeInv, NEW t \in Task, NEW child \in Task, pipe_grow(t, child) PROVE PipeInv'
  <1>1. /\ t \in open /\ child \notin open /\ freed = 0 /\ open' = open \cup {child}
        /\ {t, child} \subseteq Reader \/ {t, child} \subseteq Writer
        /\ IF t \in Writer THEN write_count' = write_count + 1 /\ UNCHANGED read_count
           ELSE read_count' = read_count + 1 /\ UNCHANGED write_count
        /\ UNCHANGED <<data, nowait, freed, wait_queue, pc, left>>
    BY DEF pipe_grow
  <1>2. /\ IsFiniteSet(open) /\ IsFiniteSet(open \cap Reader) /\ IsFiniteSet(open \cap Writer)
        /\ open \in SUBSET Task
    BY FS_Subset DEF PipeInv, PipeType
  <1>3. IsFiniteSet(open')
    BY <1>1, <1>2, FS_AddElement
  <1>4. PipeType'
    BY <1>1, <1>2, <1>3 DEF data, PipeInv, PipeType
  <1>5. EndsCounted'
    <2>1. CASE t \in Writer
      <3>1. child \in Writer /\ child \notin Reader
        BY <2>1, <1>1, PipeAssumption
      <3>2. open' \cap Reader = open \cap Reader /\ open' \cap Writer = (open \cap Writer) \cup {child}
        BY <1>1, <3>1
      <3>3. Cardinality((open \cap Writer) \cup {child}) = Cardinality(open \cap Writer) + 1
        BY <1>1, <1>2, FS_AddElement
      <3> QED BY <2>1, <3>2, <3>3, <1>1 DEF PipeInv, EndsCounted
    <2>2. CASE t \notin Writer
      <3>1. child \in Reader /\ child \notin Writer
        BY <2>2, <1>1, PipeAssumption
      <3>2. open' \cap Writer = open \cap Writer /\ open' \cap Reader = (open \cap Reader) \cup {child}
        BY <1>1, <3>1
      <3>3. Cardinality((open \cap Reader) \cup {child}) = Cardinality(open \cap Reader) + 1
        BY <1>1, <1>2, FS_AddElement
      <3> QED BY <2>2, <3>2, <3>3, <1>1 DEF PipeInv, EndsCounted
    <2> QED BY <2>1, <2>2
  <1>6. CallersHold' /\ SleepersLinked' /\ FreedWhenUnused'
    BY <1>1 DEF PipeInv, CallersHold, SleepersLinked, Blocked, FreedWhenUnused
  <1>7. NobodyForgotten'
    <2>1. write_count' > 0 => (write_count > 0 \/ t \in Writer)
      BY <1>1
    <2>2. read_count' > 0 => (read_count > 0 \/ t \in Reader)
      BY <1>1 DEF Task
    <2>3. /\ t \in Writer => write_count > 0
          /\ t \in Reader => read_count > 0
      BY <1>1, CountersTell
    <2> QED BY <2>1, <2>2, <2>3, <1>1, NothingMoved DEF data
  <1> QED BY <1>4, <1>5, <1>6, <1>7 DEF PipeInv

\* The first part of pipe_close: one task less holds an end.
LEMMA CloseCountPipe ==
    ASSUME PipeInv, NEW t \in Task, CloseCount(t) PROVE PipeInv'
  <1>1. /\ t \in open /\ pc[t] = "out" /\ open' = open \ {t}
        /\ IF t \in Writer THEN write_count' = write_count - 1 /\ UNCHANGED read_count
           ELSE read_count' = read_count - 1 /\ UNCHANGED write_count
        /\ pc' = [pc EXCEPT ![t] = "close"]
        /\ UNCHANGED <<data, nowait, freed, wait_queue, left>>
    BY DEF CloseCount
  <1>2. /\ IsFiniteSet(open) /\ IsFiniteSet(open \cap Reader) /\ IsFiniteSet(open \cap Writer)
        /\ open \in SUBSET Task
    BY FS_Subset DEF PipeInv, PipeType
  <1>3. IsFiniteSet(open')
    BY <1>1, <1>2, FS_RemoveElement
  <1>4. \A u \in Task : pc'[u] = IF u = t THEN "close" ELSE pc[u]
    BY <1>1 DEF PipeInv, PipeType
  <1>5. PipeType'
    BY <1>1, <1>2, <1>3 DEF data, PipeInv, PipeType
  <1>6. EndsCounted'
    <2>1. CASE t \in Writer
      <3>1. t \notin Reader
        BY <2>1, PipeAssumption
      <3>2. open' \cap Reader = open \cap Reader /\ open' \cap Writer = (open \cap Writer) \ {t}
        BY <1>1, <3>1
      <3>3. Cardinality((open \cap Writer) \ {t}) = Cardinality(open \cap Writer) - 1
        BY <2>1, <1>1, <1>2, FS_RemoveElement
      <3> QED BY <2>1, <3>2, <3>3, <1>1 DEF PipeInv, EndsCounted
    <2>2. CASE t \notin Writer
      <3>1. t \in Reader
        BY <2>2 DEF Task
      <3>2. open' \cap Writer = open \cap Writer /\ open' \cap Reader = (open \cap Reader) \ {t}
        BY <1>1, <2>2
      <3>3. Cardinality((open \cap Reader) \ {t}) = Cardinality(open \cap Reader) - 1
        BY <3>1, <1>1, <1>2, FS_RemoveElement
      <3> QED BY <2>2, <3>2, <3>3, <1>1 DEF PipeInv, EndsCounted
    <2> QED BY <2>1, <2>2
  <1>7. CallersHold' /\ SleepersLinked'
    BY <1>1, <1>4 DEF PipeInv, CallersHold, SleepersLinked, Blocked
  <1>8. FreedWhenUnused'
    BY <1>1 DEF PipeInv, FreedWhenUnused
  <1>9. NobodyForgotten'
    <2>1. /\ write_count' > 0 => write_count > 0
          /\ read_count' > 0 => read_count > 0
      BY <1>1, CountersTell
    <2> QED BY <2>1, <1>1, <1>4, NothingMoved DEF data
  <1> QED BY <1>5, <1>6, <1>7, <1>8, <1>9 DEF PipeInv

\* The second part: the memory is given back if both counters are 0.
LEMMA CloseDestroyPipe ==
    ASSUME PipeInv, NEW t \in Task, CloseDestroy(t) PROVE PipeInv'
  <1>1. /\ pc[t] = "close" /\ pc' = [pc EXCEPT ![t] = "out"] /\ left' = [left EXCEPT ![t] = 0]
        /\ freed' = IF write_count <= 0 /\ read_count <= 0 THEN freed + 1 ELSE freed
        /\ UNCHANGED <<data, read_count, write_count, nowait, open, wait_queue>>
    BY DEF CloseDestroy, Return
  <1>2. left' \in [Task -> Nat] /\ asked' \in [Writer -> Nat]
    BY <1>1 DEF PipeInv, PipeType, data
  <1>3. freed' \in Nat
    BY <1>1 DEF PipeInv, PipeType
  <1>4. FreedWhenUnused'
    <2> SUFFICES ASSUME freed' > 0 PROVE open' = {}
      BY DEF FreedWhenUnused
    <2>1. CASE write_count <= 0 /\ read_count <= 0
      <3>1. write_count = 0 /\ read_count = 0
        BY <2>1, CountersTell
      <3>2. open \cap Writer = {} /\ open \cap Reader = {}
        BY <3>1, CountersTell
      <3> QED BY <3>2, <1>1 DEF PipeInv, PipeType, Task
    <2>2. CASE ~ (write_count <= 0 /\ read_count <= 0)
      BY <2>2, <1>1 DEF PipeInv, FreedWhenUnused
    <2> QED BY <2>1, <2>2
  <1> QED BY <1>1, <1>2, <1>3, <1>4, CallPipe DEF data

\* The calls.
LEMMA CallsPipe ==
    ASSUME PipeInv, NEW t \in Task,
           \/ t \in Reader /\ \E n \in Requests : ReadCall(t, n)
           \/ t \in Reader /\ ReadNowait(t)
           \/ t \in Writer /\ \E n \in Requests : WriteCall(t, n)
           \/ t \in Writer /\ WriteNoReader(t)
    PROVE  PipeInv'
  <1> USE DEF files, data
  <1>1. left \in [Task -> Nat] /\ asked \in [Writer -> Nat] /\ freed \in Nat /\ FreedWhenUnused
    BY DEF PipeInv, PipeType
  <1>2. CASE t \in Reader /\ \E n \in Requests : ReadCall(t, n)
    <2>1. PICK n \in Requests : ReadCall(t, n)
      BY <1>2
    <2>2. left' \in [Task -> Nat]
      BY <1>1, <2>1, PipeAssumption DEF ReadCall
    <2>3. FreedWhenUnused' /\ freed' \in Nat /\ asked' \in [Writer -> Nat]
      BY <1>1, <2>1 DEF ReadCall, FreedWhenUnused
    <2> QED BY <1>2, <2>1, <2>2, <2>3, CallPipe DEF ReadCall
  <1>3. CASE t \in Reader /\ ReadNowait(t)
    <2>1. left' \in [Task -> Nat]
      BY <1>1, <1>3 DEF ReadNowait, Return
    <2>2. FreedWhenUnused' /\ freed' \in Nat /\ asked' \in [Writer -> Nat]
      BY <1>1, <1>3 DEF ReadNowait, FreedWhenUnused
    <2> QED BY <1>3, <2>1, <2>2, CallPipe DEF ReadNowait, Return
  <1>4. CASE t \in Writer /\ \E n \in Requests : WriteCall(t, n)
    <2>1. PICK n \in Requests : WriteCall(t, n)
      BY <1>4
    <2>2. left' \in [Task -> Nat]
      BY <1>1, <2>1, PipeAssumption DEF WriteCall
    <2>3. n \in Nat /\ asked[t] \in Nat /\ Numbers \in Nat /\ Numbers > 0
      BY <1>1, <1>4, PipeAssumption
    <2>4. (asked[t] + n) % Numbers \in Nat
      BY <2>3
    <2>5. asked' \in [Writer -> Nat]
      BY <1>1, <2>1, <2>4 DEF WriteCall
    <2>6. FreedWhenUnused' /\ freed' \in Nat
      BY <1>1, <2>1 DEF WriteCall, FreedWhenUnused
    <2> QED BY <1>4, <2>1, <2>2, <2>5, <2>6, CallPipe DEF WriteCall
  <1>5. CASE t \in Writer /\ WriteNoReader(t)
    <2>1. left' \in [Task -> Nat]
      BY <1>1, <1>5 DEF WriteNoReader, Return
    <2>2. FreedWhenUnused' /\ freed' \in Nat /\ asked' \in [Writer -> Nat]
      BY <1>1, <1>5 DEF WriteNoReader, FreedWhenUnused
    <2> QED BY <1>5, <2>1, <2>2, CallPipe DEF WriteNoReader, Return
  <1> QED BY <1>2, <1>3, <1>4, <1>5

\* A step that changes only the flags of the ends, or nothing.
LEMMA FlagsPipe ==
    ASSUME PipeInv, UNCHANGED <<data, read_count, write_count, freed, open, wait_queue, pc, left>>
    PROVE  PipeInv'
  <1>1. PipeType' /\ EndsCounted' /\ CallersHold' /\ FreedWhenUnused'
    BY DEF data, PipeInv, PipeType, EndsCounted, CallersHold, FreedWhenUnused
  <1>2. \A u : Blocked(u)' <=> Blocked(u)
    BY DEF Blocked
  <1>3. SleepersLinked'
    BY <1>2 DEF PipeInv, SleepersLinked
  <1>4. Underway => Underway'
    BY <1>2 DEF Underway
  <1>5. NobodyForgotten'
    BY <1>2, <1>4 DEF data, PipeInv, NobodyForgotten, NoSleepOnBytes, NoSleepOnRoom, Room
  <1> QED BY <1>1, <1>3, <1>5 DEF PipeInv

\* Every step preserves the invariant.
LEMMA NextPipe == PipeInv /\ [Next]_vars => PipeInv'
  <1> SUFFICES ASSUME PipeInv, [Next]_vars PROVE PipeInv'
    OBVIOUS
  <1> USE DEF Task
  <1>1. CASE \E r \in Reader, n \in Requests : ReadCall(r, n)
    BY <1>1, CallsPipe
  <1>2. CASE \E w \in Writer, n \in Requests : WriteCall(w, n)
    BY <1>2, CallsPipe
  <1>3. CASE \E w \in Writer : WriteNoReader(w)
    BY <1>3, CallsPipe
  <1>4. CASE \E r \in Reader : Read(r)
    <2>1. PICK r \in Reader : Read(r)
      BY <1>4
    <2>2. CASE ReadTake(r)
      <3>1. pc[r] = "read" /\ Take(r)
        BY <2>2 DEF ReadTake
      <3>2. ~ Blocked(r)
        BY <3>1 DEF PipeInv, SleepersLinked
      <3> QED BY <3>1, <3>2, TakePipe
    <2>3. CASE ReadNowait(r)
      BY <2>3, CallsPipe
    <2>4. CASE ReadWait(r)
      BY <2>4, ReadWaitPipe
    <2>5. CASE ReadWoken(r)
      BY <2>5, TakePipe DEF ReadWoken
    <2> QED BY <2>1, <2>2, <2>3, <2>4, <2>5 DEF Read
  <1>5. CASE \E w \in Writer : WriteTurn(w)
    BY <1>5, WriteTurnPipe
  <1>6. CASE \E t, child \in Task : pipe_grow(t, child)
    BY <1>6, GrowPipe
  <1>7. CASE \E t \in Task : pipe_ioctl(t)
    BY <1>7, FlagsPipe DEF pipe_ioctl
  <1>8. CASE \E t \in Task : CloseCount(t) \/ CloseDestroy(t)
    BY <1>8, CloseCountPipe, CloseDestroyPipe
  <1>9. CASE UNCHANGED vars
    BY <1>9, FlagsPipe DEF vars, files
  <1> QED BY <1>1, <1>2, <1>3, <1>4, <1>5, <1>6, <1>7, <1>8, <1>9 DEF Next, Move

\* pipe_close: the memory of a pipe is not given back while a task holds an
\* end, whoever forks and closes in between.
THEOREM PipeFreedWhenUnused == Spec => []FreedWhenUnused
  <1>1. PipeInv => FreedWhenUnused
    BY DEF PipeInv
  <1> QED BY <1>1, PipeInit, NextPipe, PTL DEF Spec

\* pipe_read and pipe_write: nobody sleeps on bytes or on room while nobody is
\* on the way, though readers and writers share one wait queue and one wakeup
\* wakes one task.
THEOREM PipeForgetsNobody == Spec => []NobodyForgotten
  <1>1. PipeInv => NobodyForgotten
    BY DEF PipeInv
  <1> QED BY <1>1, PipeInit, NextPipe, PTL DEF Spec

-----------------------------------------------------------------------------
(* The bytes of the pipe.                                                  *)

\* Two numbers that differ by a multiple of m leave the same rest.
LEMMA SameRest ==
    ASSUME NEW m \in Nat \ {0}, NEW x \in Int, NEW y \in Int, NEW k \in Int, x = y + m * k
    PROVE  x % m = y % m
  <1>1. PICK p \in Int, r \in 0 .. m - 1 : x = m * p + r /\ r = x % m
    <2>1. x = m * (x \div m) + (x % m) /\ x % m \in 0 .. m - 1 /\ x \div m \in Int
      OBVIOUS
    <2> QED BY <2>1
  <1>2. PICK q \in Int, s \in 0 .. m - 1 : y = m * q + s /\ s = y % m
    <2>1. y = m * (y \div m) + (y % m) /\ y % m \in 0 .. m - 1 /\ y \div m \in Int
      OBVIOUS
    <2> QED BY <2>1
  <1>3. PICK t \in Int : t = q + k /\ x = m * t + s
    <2>1. m * (q + k) = m * q + m * k
      OBVIOUS
    <2> QED BY <2>1, <1>2
  <1>4. ASSUME NEW a \in Int, NEW b \in Int, a < b PROVE m * a + m <= m * b
    <2>1. PICK d \in Nat : b = a + 1 + d
      BY <1>4
    <2>2. m * b = m * a + m + m * d
      BY <2>1
    <2>3. m * d >= 0
      OBVIOUS
    <2> QED BY <2>2, <2>3
  <1>5. ~ (p < t)
    <2>1. SUFFICES ASSUME p < t PROVE FALSE
      OBVIOUS
    <2>2. m * p + m <= m * t
      BY <2>1, <1>4
    <2> QED BY <2>2, <1>1, <1>3
  <1>6. ~ (t < p)
    <2>1. SUFFICES ASSUME t < p PROVE FALSE
      OBVIOUS
    <2>2. m * t + m <= m * p
      BY <2>1, <1>4
    <2> QED BY <2>2, <1>1, <1>3
  <1>7. p = t
    BY <1>5, <1>6
  <1>8. m * p = m * t
    BY <1>7
  <1>9. r = s
    BY <1>1, <1>3, <1>8
  <1> QED BY <1>1, <1>2, <1>9

LEMMA Rests ==
    ASSUME NEW m \in Nat \ {0}
    PROVE  /\ \A x, y \in Int : ((x % m) + y) % m = (x + y) % m
           /\ \A x \in Int : x % m \in 0 .. m - 1
           /\ \A x \in 0 .. m - 1 : x % m = x
  <1>1. ASSUME NEW x \in Int, NEW y \in Int PROVE ((x % m) + y) % m = (x + y) % m
    <2>1. PICK p \in Int, r \in 0 .. m - 1 : x = m * p + r /\ r = x % m
      <3>1. x = m * (x \div m) + (x % m) /\ x % m \in 0 .. m - 1 /\ x \div m \in Int
        OBVIOUS
      <3> QED BY <3>1
    <2>2. x + y \in Int /\ r + y \in Int /\ x + y = (r + y) + m * p
      BY <2>1
    <2>3. (x + y) % m = (r + y) % m
      BY <2>2, SameRest
    <2> QED BY <2>1, <2>3
  <1>2. \A x \in Int : x % m \in 0 .. m - 1
    OBVIOUS
  <1>3. \A x \in 0 .. m - 1 : x % m = x
    OBVIOUS
  <1> QED BY <1>1, <1>2, <1>3

LEMMA NumbersRests ==
    \A x, y \in Int : ((x % Numbers) + y) % Numbers = (x + y) % Numbers
  <1>1. Numbers \in Nat \ {0}
    BY PipeAssumption
  <1> QED BY <1>1, Rests

LEMMA NumbersFit == \A x \in Int : (x % Numbers) \in Nat
  <1>1. Numbers \in Nat \ {0}
    BY PipeAssumption
  <1>2. \A x \in Int : x % Numbers \in 0 .. Numbers - 1
    BY <1>1, Rests
  <1> QED BY <1>1, <1>2

\* BytesOf, of any sequence, and their number.
PlacesOf(s, w, n) == {i \in 1 .. n : s[i][1] = w}
HowMany(s, w, n) == Cardinality(PlacesOf(s, w, n))

LEMMA FiniteInterval ==
    ASSUME NEW n \in Nat PROVE IsFiniteSet(1 .. n) /\ Cardinality(1 .. n) = n
  <1>1. IsFiniteSet(1 .. n) /\ Cardinality(1 .. n) = IF 1 > n THEN 0 ELSE n - 1 + 1
    BY FS_Interval
  <1> QED BY <1>1

LEMMA PlacesFinite ==
    ASSUME NEW s, NEW w, NEW n \in Nat
    PROVE  IsFiniteSet(PlacesOf(s, w, n)) /\ HowMany(s, w, n) \in Nat /\ HowMany(s, w, n) <= n
  <1>1. IsFiniteSet(1 .. n) /\ Cardinality(1 .. n) = n
    BY FiniteInterval
  <1>2. PlacesOf(s, w, n) \subseteq 1 .. n
    BY DEF PlacesOf
  <1>3. IsFiniteSet(PlacesOf(s, w, n)) /\ Cardinality(PlacesOf(s, w, n)) <= Cardinality(1 .. n)
    BY <1>1, <1>2, FS_Subset
  <1> QED BY <1>1, <1>3, FS_CardinalityType DEF HowMany

\* k bytes of s behind the first n, and the first of z, are of the same writers.
SameWriters(s, n, z, k) == \A i \in 1 .. k : s[n + i][1] = z[i][1]

\* The places behind a beginning of n are those of the rest, moved by n.
LEMMA PlacesBehind ==
    ASSUME NEW s, NEW z, NEW w, NEW n \in Nat, NEW k \in Nat, SameWriters(s, n, z, k)
    PROVE  HowMany(s, w, n + k) = HowMany(s, w, n) + HowMany(z, w, k)
  <1>1. PICK xs, ys, zs : xs = PlacesOf(s, w, n) /\ ys = PlacesOf(z, w, k) /\ zs = PlacesOf(s, w, n + k) \ xs
    OBVIOUS
  <1>2. IsFiniteSet(xs) /\ IsFiniteSet(ys) /\ IsFiniteSet(PlacesOf(s, w, n + k))
    BY <1>1, PlacesFinite
  <1>3. IsFiniteSet(zs) /\ xs \cap zs = {} /\ xs \cup zs = PlacesOf(s, w, n + k)
    <2>1. xs \subseteq PlacesOf(s, w, n + k)
      BY <1>1 DEF PlacesOf
    <2>2. zs \subseteq PlacesOf(s, w, n + k)
      BY <1>1
    <2>3. IsFiniteSet(zs)
      BY <2>2, <1>2, FS_Subset
    <2> QED BY <2>1, <2>3, <1>1
  <1>4. zs = {n + i : i \in ys}
    <2>1. ASSUME NEW j \in zs PROVE j \in {n + i : i \in ys}
      <3>1. j \in 1 .. n + k /\ s[j][1] = w /\ j \notin 1 .. n
        BY <1>1 DEF PlacesOf
      <3>2. j - n \in 1 .. k /\ n + (j - n) = j
        BY <3>1
      <3>3. j - n \in ys
        <4>1. z[j - n][1] = w
          BY <3>1, <3>2 DEF SameWriters
        <4> QED BY <4>1, <3>2, <1>1 DEF PlacesOf
      <3> QED BY <3>2, <3>3
    <2>2. ASSUME NEW i \in ys PROVE n + i \in zs
      <3>1. i \in 1 .. k /\ z[i][1] = w
        BY <1>1 DEF PlacesOf
      <3>2. n + i \in 1 .. n + k /\ n + i \notin 1 .. n /\ s[n + i][1] = w
        BY <3>1 DEF SameWriters
      <3> QED BY <3>2, <1>1 DEF PlacesOf
    <2> QED BY <2>1, <2>2
  <1>5. Cardinality(zs) = Cardinality(ys)
    <2> DEFINE f == [i \in ys |-> n + i]
    <2>1. ys \subseteq Nat
      BY <1>1 DEF PlacesOf
    <2>2. f \in [ys -> zs] /\ \A i \in ys : f[i] = n + i
      BY <1>4
    <2> HIDE DEF f
    <2>3. \A i, j \in ys : f[i] = f[j] => i = j
      BY <2>1, <2>2
    <2>4. \A c \in zs : \E i \in ys : f[i] = c
      BY <1>4, <2>2
    <2>5. f \in Bijection(ys, zs)
      BY <2>2, <2>3, <2>4 DEF Bijection, Injection, Surjection, IsInjective
    <2>6. ExistsBijection(ys, zs)
      BY <2>5 DEF ExistsBijection
    <2> QED BY <2>6, <1>2, FS_Bijection
  <1>6. Cardinality(xs \cup zs) = Cardinality(xs) + Cardinality(zs)
    <2>1. Cardinality(xs \cup zs) = Cardinality(xs) + Cardinality(zs) - Cardinality(xs \cap zs)
      BY <1>2, <1>3, FS_Union
    <2>2. Cardinality(xs \cap zs) = 0
      BY <1>3, FS_EmptySet
    <2>3. Cardinality(xs) \in Nat /\ Cardinality(zs) \in Nat
      BY <1>2, <1>3, FS_CardinalityType
    <2> QED BY <2>1, <2>2, <2>3
  <1> QED BY <1>1, <1>3, <1>5, <1>6 DEF HowMany

LEMMA SamePlaces ==
    ASSUME NEW s, NEW z, NEW w, NEW n \in Nat, \A i \in 1 .. n : s[i][1] = z[i][1]
    PROVE  HowMany(s, w, n) = HowMany(z, w, n)
  <1>1. PlacesOf(s, w, n) = PlacesOf(z, w, n)
    BY DEF PlacesOf
  <1> QED BY <1>1 DEF HowMany

\* All of a chunk is of one writer.
LEMMA AllPlaces ==
    ASSUME NEW s, NEW w, NEW n \in Nat, \A i \in 1 .. n : s[i][1] = w
    PROVE  HowMany(s, w, n) = n /\ \A u : u # w => HowMany(s, u, n) = 0
  <1>1. PlacesOf(s, w, n) = 1 .. n
    BY DEF PlacesOf
  <1>2. \A u : u # w => PlacesOf(s, u, n) = {}
    BY DEF PlacesOf
  <1> QED BY <1>1, <1>2, FiniteInterval, FS_EmptySet DEF HowMany

\* The bytes of a writer in s: a is asked of it, l left, g handed to readers.
Stream(s, w, a, l, g) ==
    /\ HowMany(s, w, Len(s)) = (a - l - g) % Numbers
    /\ \A i \in 1 .. Len(s) : s[i][1] = w => s[i][2] = (g + HowMany(s, w, i)) % Numbers

\* Only the rest of what was asked matters.
LEMMA StreamShift ==
    ASSUME NEW s, NEW w, NEW g \in Nat, NEW a \in Nat, NEW l \in Nat, NEW b \in Nat, NEW k \in Nat,
           (a - l) % Numbers = (b - k) % Numbers, Stream(s, w, a, l, g)
    PROVE  Stream(s, w, b, k, g)
  <1>1. Numbers \in Nat \ {0}
    BY PipeAssumption
  <1>2. PICK x \in Int, y \in Int, h \in Int : x = a - l /\ y = b - k /\ h = 0 - g
    OBVIOUS
  <1>3. (x + h) % Numbers = (y + h) % Numbers
    <2>1. /\ ((x % Numbers) + h) % Numbers = (x + h) % Numbers
          /\ ((y % Numbers) + h) % Numbers = (y + h) % Numbers
      BY <1>1, Rests
    <2> QED BY <2>1, <1>2
  <1>4. (a - l - g) % Numbers = (b - k - g) % Numbers
    <2>1. x + h = a - l - g /\ y + h = b - k - g
      BY <1>2
    <2> QED BY <2>1, <1>3
  <1> QED BY <1>4 DEF Stream

\* z is s, and behind it c.
Behind(z, s, c) ==
    /\ Len(z) = Len(s) + Len(c)
    /\ \A i \in 1 .. Len(s) : z[i] = s[i]
    /\ \A i \in 1 .. Len(c) : z[Len(s) + i] = c[i]

LEMMA ChunkBehind ==
    ASSUME NEW S, NEW s \in Seq(S), NEW c \in Seq(S) PROVE Behind(s \o c, s, c)
  <1>1. PICK z \in Seq(S) : z = s \o c
    BY ConcatProperties
  <1>2. Len(s) \in Nat /\ Len(c) \in Nat
    BY LenProperties
  <1>3. /\ Len(z) = Len(s) + Len(c)
        /\ \A i \in 1 .. Len(s) + Len(c) : z[i] = IF i <= Len(s) THEN s[i] ELSE c[i - Len(s)]
    BY <1>1, ConcatProperties
  <1>4. \A i \in 1 .. Len(s) : z[i] = s[i]
    BY <1>2, <1>3
  <1>5. ASSUME NEW i \in 1 .. Len(c) PROVE z[Len(s) + i] = c[i]
    <2>1. Len(s) + i \in 1 .. Len(s) + Len(c) /\ ~ (Len(s) + i <= Len(s)) /\ Len(s) + i - Len(s) = i
      BY <1>2
    <2> QED BY <2>1, <1>3
  <1> QED BY <1>1, <1>3, <1>4, <1>5 DEF Behind

\* A chunk of k bytes of w, of those the next of a - l.
ChunkOf(c, w, a, l, k) ==
    /\ c \in Seq(Writer \X Nat) /\ Len(c) = k
    /\ \A i \in 1 .. k : c[i] = <<w, (a - l + i) % Numbers>>

\* A chunk is put behind.
LEMMA StreamPut ==
    ASSUME NEW s \in Seq(Writer \X Nat), NEW w \in Writer, NEW a \in Nat, NEW l \in Nat, NEW g \in Nat,
           NEW k \in Nat, k <= l, NEW c, ChunkOf(c, w, a, l, k), Len(s) + k <= PIPE_SIZE
    PROVE  /\ Stream(s, w, a, l, g) => Stream(s \o c, w, a, l - k, g)
           /\ \A u \in Writer : \A b, j, h : u # w /\ Stream(s, u, b, j, h) => Stream(s \o c, u, b, j, h)
  <1>0. PICK m \in Nat : m = Len(s)
    <2>1. Len(s) \in Nat
      BY LenProperties
    <2> QED BY <2>1
  <1>1. PICK z : /\ z = s \o c /\ m = Len(s) /\ Len(z) = m + k
                 /\ \A i \in 1 .. m : z[i] = s[i]
                 /\ \A i \in 1 .. k : z[m + i] = c[i]
    <2>1. PICK S : S = Writer \X Nat
      OBVIOUS
    <2>2. s \in Seq(S) /\ c \in Seq(S) /\ Len(c) = k
      BY <2>1 DEF ChunkOf
    <2>3. Behind(s \o c, s, c)
      BY <2>2, ChunkBehind
    <2>4. PICK z : z = s \o c /\ Behind(z, s, c)
      BY <2>3
    <2>5. Len(z) = m + k /\ (\A i \in 1 .. m : z[i] = s[i]) /\ \A i \in 1 .. k : z[m + i] = c[i]
      BY <2>2, <2>4, <1>0 DEF Behind
    <2> QED BY <2>4, <2>5, <1>0
  <1>2. ASSUME NEW u, NEW i \in 0 .. m PROVE HowMany(z, u, i) = HowMany(s, u, i)
    <2>1. i \in Nat /\ \A j \in 1 .. i : z[j][1] = s[j][1]
      BY <1>1
    <2> QED BY <2>1, SamePlaces
  <1>3. \A i \in 1 .. k : z[m + i][1] = w /\ c[i][1] = w /\ c[i][2] = (a - l + i) % Numbers
    BY <1>1 DEF ChunkOf
  <1>4. \A i \in 0 .. k : HowMany(z, w, m + i) = HowMany(s, w, m) + i
    <2> SUFFICES ASSUME NEW i \in 0 .. k PROVE HowMany(z, w, m + i) = HowMany(s, w, m) + i
      OBVIOUS
    <2>1. HowMany(z, w, m + i) = HowMany(z, w, m) + HowMany(c, w, i)
      <3>1. SameWriters(z, m, c, i)
        <4>1. \A j \in 1 .. i : j \in 1 .. k
          OBVIOUS
        <4>2. \A j \in 1 .. k : z[m + j][1] = w /\ c[j][1] = w
          BY <1>3
        <4>3. ASSUME NEW j \in 1 .. i PROVE z[m + j][1] = c[j][1]
          <5>1. j \in 1 .. k
            BY <4>1
          <5>2. z[m + j][1] = w /\ c[j][1] = w
            BY <5>1, <4>2
          <5> QED BY <5>2
        <4> QED BY <4>3 DEF SameWriters
      <3>2. i \in Nat
        OBVIOUS
      <3> QED BY <3>1, <3>2, PlacesBehind
    <2>2. HowMany(c, w, i) = i
      <3>1. \A j \in 1 .. i : c[j][1] = w
        BY <1>3
      <3> QED BY <3>1, AllPlaces
    <2>3. HowMany(z, w, m) = HowMany(s, w, m)
      BY <1>2
    <2> QED BY <2>1, <2>2, <2>3
  <1>5. Numbers \in Nat \ {0} /\ m + k < Numbers
    BY <1>1, PipeAssumption
  <1>6. ASSUME Stream(s, w, a, l, g) PROVE Stream(z, w, a, l - k, g)
    <2>1. PICK n \in Nat : n = HowMany(s, w, m) /\ n <= m /\ n = (a - l - g) % Numbers
      BY <1>1, <1>6, PlacesFinite DEF Stream
    <2>2. n + k = (a - (l - k) - g) % Numbers
      <3>1. (n + k) % Numbers = ((a - l - g) + k) % Numbers
        <4>1. PICK x \in Int : x = a - l - g
          OBVIOUS
        <4>2. ((x % Numbers) + k) % Numbers = (x + k) % Numbers
          <5>1. \A y \in Int : ((x % Numbers) + y) % Numbers = (x + y) % Numbers
            BY <1>5, Rests
          <5> QED BY <5>1
        <4> QED BY <4>1, <4>2, <2>1
      <3>2. (n + k) % Numbers = n + k
        <4>1. n + k \in 0 .. Numbers - 1
          BY <1>5, <2>1
        <4> QED BY <4>1, <1>5, Rests
      <3>3. (a - l - g) + k = a - (l - k) - g
        OBVIOUS
      <3> QED BY <3>1, <3>2, <3>3
    <2>3. HowMany(z, w, Len(z)) = n + k
      BY <1>1, <1>4, <2>1
    <2>4. ASSUME NEW i \in 1 .. m, z[i][1] = w PROVE z[i][2] = (g + HowMany(z, w, i)) % Numbers
      BY <2>4, <1>1, <1>2, <1>6 DEF Stream
    <2>5. ASSUME NEW i \in 1 .. k PROVE z[m + i][2] = (g + HowMany(z, w, m + i)) % Numbers
      <3>1. z[m + i][2] = (a - l + i) % Numbers /\ HowMany(z, w, m + i) = n + i
        <4>1. i \in 0 .. k
          OBVIOUS
        <4> QED BY <4>1, <1>1, <1>3, <1>4, <2>1
      <3>2. (n + (g + i)) % Numbers = ((a - l - g) + (g + i)) % Numbers
        <4>1. PICK x \in Int, y \in Int : x = a - l - g /\ y = g + i
          OBVIOUS
        <4>2. ((x % Numbers) + y) % Numbers = (x + y) % Numbers
          BY <1>5, Rests
        <4> QED BY <4>1, <4>2, <2>1
      <3>3. (a - l - g) + (g + i) = a - l + i /\ n + (g + i) = g + (n + i)
        OBVIOUS
      <3> QED BY <3>1, <3>2, <3>3
    <2>6. ASSUME NEW i \in 1 .. Len(z), z[i][1] = w PROVE z[i][2] = (g + HowMany(z, w, i)) % Numbers
      <3>1. CASE i \in 1 .. m
        BY <3>1, <2>4, <2>6
      <3>2. CASE i \notin 1 .. m
        <4>1. i - m \in 1 .. k /\ m + (i - m) = i
          BY <3>2, <1>1
        <4> QED BY <4>1, <2>5
      <3> QED BY <3>1, <3>2
    <2> QED BY <2>2, <2>3, <2>6 DEF Stream
  <1>7. ASSUME NEW u \in Writer, NEW b, NEW j, NEW h, u # w, Stream(s, u, b, j, h) PROVE Stream(z, u, b, j, h)
    <2>1. HowMany(z, u, Len(z)) = HowMany(s, u, m)
      <3>1. HowMany(z, u, m + k) = HowMany(z, u, m) + HowMany(c, u, k)
        <4>1. SameWriters(z, m, c, k)
          <5>1. \A i \in 1 .. k : z[m + i][1] = w /\ c[i][1] = w
            BY <1>3
          <5>2. \A i \in 1 .. k : z[m + i][1] = c[i][1]
            BY <5>1
          <5> QED BY <5>2 DEF SameWriters
        <4> QED BY <4>1, PlacesBehind
      <3>2. HowMany(c, u, k) = 0
        <4>1. \A i \in 1 .. k : c[i][1] = w
          BY <1>3
        <4>2. \A x : x # w => HowMany(c, x, k) = 0
          BY <4>1, AllPlaces
        <4> QED BY <4>2, <1>7
      <3>3. HowMany(z, u, m) = HowMany(s, u, m) /\ HowMany(s, u, m) \in Nat
        BY <1>2, PlacesFinite
      <3> QED BY <3>1, <3>2, <3>3, <1>1
    <2>2. ASSUME NEW i \in 1 .. Len(z), z[i][1] = u PROVE z[i][2] = (h + HowMany(z, u, i)) % Numbers
      <3>1. i \in 1 .. m
        <4>1. i \notin 1 .. m => i - m \in 1 .. k /\ m + (i - m) = i
          BY <1>1
        <4> QED BY <4>1, <1>3, <1>7, <2>2
      <3> QED BY <3>1, <2>2, <1>1, <1>2, <1>7 DEF Stream
    <2> QED BY <2>1, <2>2, <1>1, <1>7 DEF Stream
  <1> QED BY <1>1, <1>6, <1>7

\* A finite set of numbers has a greatest one.
LEMMA GreatestOf ==
    ASSUME NEW n \in Nat, NEW ys \in SUBSET (1 .. n), ys # {}
    PROVE  \E b \in ys : \A i \in ys : i <= b
  <1> DEFINE d == {n - i : i \in ys}
  <1>1. d \in SUBSET Nat /\ d # {}
    <2>1. \A i \in ys : n - i \in Nat
      OBVIOUS
    <2> QED BY <2>1
  <1>2. \A i \in ys : n - i \in d
    OBVIOUS
  <1>3. \A x \in d : \E i \in ys : x = n - i
    OBVIOUS
  <1> HIDE DEF d
  <1>4. PICK x \in d : \A y \in d : ~ (<<y, x>> \in OpToRel(<, Nat))
    BY <1>1, NatLessThanWellFounded, WFMin
  <1>5. \A y \in d : ~ (y < x)
    BY <1>1, <1>4 DEF OpToRel
  <1>6. PICK b \in ys : x = n - b
    BY <1>3
  <1>7. \A i \in ys : i <= b
    BY <1>1, <1>2, <1>5, <1>6
  <1> QED BY <1>7

\* The last place of a writer.
LEMMA LastPlace ==
    ASSUME NEW s, NEW w, NEW n \in Nat, PlacesOf(s, w, n) # {}
    PROVE  /\ Max(PlacesOf(s, w, n)) \in PlacesOf(s, w, n)
           /\ HowMany(s, w, Max(PlacesOf(s, w, n))) = HowMany(s, w, n)
  <1> DEFINE ys == PlacesOf(s, w, n)
  <1>1. ys \subseteq 1 .. n
    BY DEF PlacesOf
  <1>6. PICK b \in ys : \A i \in ys : i <= b
    <2>1. ys \in SUBSET (1 .. n) /\ ys # {}
      BY <1>1
    <2> HIDE DEF ys
    <2> QED BY <2>1, GreatestOf
  <1>7. Max(ys) \in ys /\ \A i \in ys : i <= Max(ys)
    <2>1. \E m \in ys : \A y \in ys : m >= y
      BY <1>1, <1>6
    <2>2. Max(ys) = CHOOSE m \in ys : \A y \in ys : m >= y
      BY DEF Max
    <2> HIDE DEF ys
    <2>3. Max(ys) \in ys /\ \A y \in ys : Max(ys) >= y
      BY <2>1, <2>2
    <2> QED BY <2>3, <1>1
  <1>8. PlacesOf(s, w, Max(ys)) = ys
    <2>1. PICK m \in 1 .. n : m = Max(ys)
      BY <1>1, <1>7
    <2>2. \A i \in ys : i <= m
      BY <1>7, <2>1
    <2>3. PlacesOf(s, w, m) = ys
      BY <2>2 DEF PlacesOf
    <2> QED BY <2>1, <2>3
  <1> QED BY <1>7, <1>8 DEF HowMany

\* A beginning goes to a reader.
Taken(s, w, n, g) == IF PlacesOf(s, w, n) = {} THEN g ELSE s[Max(PlacesOf(s, w, n))][2]

LEMMA StreamTake ==
    ASSUME NEW s \in Seq(Writer \X Nat), NEW w, NEW a \in Nat, NEW l \in Nat, NEW g \in Nat,
           NEW n \in Nat, n <= Len(s), Len(s) <= PIPE_SIZE, Stream(s, w, a, l, g)
    PROVE  /\ Taken(s, w, n, g) \in Nat
           /\ Stream(SubSeq(s, n + 1, Len(s)), w, a, l, Taken(s, w, n, g))
  <1>0. PICK m \in Nat : m = Len(s) - n /\ Len(s) = n + m
    <2>1. Len(s) \in Nat
      BY LenProperties
    <2>2. PICK k \in Nat : k = Len(s)
      BY <2>1
    <2>3. k - n \in Nat /\ k = n + (k - n)
      BY <2>2
    <2> QED BY <2>2, <2>3
  <1>1. PICK z : /\ z = SubSeq(s, n + 1, Len(s)) /\ Len(z) = m
                 /\ \A i \in 1 .. m : z[i] = s[n + i]
    <2>1. PICK S : S = Writer \X Nat
      OBVIOUS
    <2>2. s \in Seq(S)
      BY <2>1
    <2>3. n + 1 \in 1 .. n + m + 1 /\ n + m \in n .. n + m
      BY <1>0
    <2>4. PICK z : z = SubSeq(s, n + 1, n + m)
      OBVIOUS
    <2>5. \A i \in n + 1 .. n + m : s[i] \in S
      BY <2>2, <1>0
    <2>6. /\ Len(z) = IF n + 1 <= n + m THEN n + m - (n + 1) + 1 ELSE 0
          /\ \A i \in 1 .. n + m - (n + 1) + 1 : z[i] = s[n + 1 + i - 1]
      <3>1. n + 1 \in Int /\ n + m \in Int
        OBVIOUS
      <3> QED BY <3>1, <2>4, <2>5, SubSeqProperties
    <2>7. Len(z) = m
      BY <2>6
    <2>8. \A i \in 1 .. m : z[i] = s[n + i]
      <3> SUFFICES ASSUME NEW i \in 1 .. m PROVE z[i] = s[n + i]
        OBVIOUS
      <3>1. i \in 1 .. n + m - (n + 1) + 1 /\ n + 1 + i - 1 = n + i
        OBVIOUS
      <3> QED BY <3>1, <2>6
    <2> QED BY <2>4, <2>7, <2>8, <1>0
  <1>2. Numbers \in Nat \ {0} /\ n + m < Numbers
    BY <1>0, PipeAssumption
  <1>3. PICK h \in Nat : h = Taken(s, w, n, g) /\ (h % Numbers) = (g + HowMany(s, w, n)) % Numbers
    <2>1. CASE PlacesOf(s, w, n) = {}
      <3>1. Taken(s, w, n, g) = g /\ HowMany(s, w, n) = 0
        BY <2>1, FS_EmptySet DEF Taken, HowMany
      <3> QED BY <3>1
    <2>2. CASE PlacesOf(s, w, n) # {}
      <3>1. PICK b : b = Max(PlacesOf(s, w, n))
        OBVIOUS
      <3>2. b \in PlacesOf(s, w, n) /\ HowMany(s, w, b) = HowMany(s, w, n)
        BY <3>1, <2>2, LastPlace
      <3>3. b \in 1 .. Len(s) /\ s[b][1] = w
        BY <3>2, <1>0 DEF PlacesOf
      <3>4. s[b][2] = (g + HowMany(s, w, b)) % Numbers
        BY <3>3 DEF Stream
      <3>5. PICK x \in Int : x = g + HowMany(s, w, n)
        BY PlacesFinite
      <3>6. s[b][2] = x % Numbers
        BY <3>2, <3>4, <3>5
      <3>7. x % Numbers \in 0 .. Numbers - 1 /\ (x % Numbers) % Numbers = x % Numbers
        BY <1>2, Rests
      <3>8. Taken(s, w, n, g) = s[b][2]
        BY <3>1, <2>2 DEF Taken
      <3>9. x % Numbers \in Nat
        BY <3>7, <1>2
      <3> QED BY <3>5, <3>6, <3>7, <3>8, <3>9
    <2> QED BY <2>1, <2>2
  <1>4. PICK q \in Nat : q = HowMany(s, w, n) /\ q <= n
    BY PlacesFinite
  <1>5. ASSUME NEW i \in 0 .. m PROVE HowMany(s, w, n + i) = q + HowMany(z, w, i) /\ HowMany(z, w, i) \in Nat
    <2>1. SameWriters(s, n, z, i)
      <3> SUFFICES ASSUME NEW j \in 1 .. i PROVE s[n + j][1] = z[j][1]
        BY DEF SameWriters
      <3>1. j \in 1 .. m
        OBVIOUS
      <3> QED BY <3>1, <1>1
    <2>2. i \in Nat
      OBVIOUS
    <2>3. HowMany(s, w, n + i) = HowMany(s, w, n) + HowMany(z, w, i)
      BY <2>1, <2>2, PlacesBehind
    <2>4. HowMany(z, w, i) \in Nat
      BY <2>2, PlacesFinite
    <2> QED BY <2>3, <2>4, <1>4
  <1>6. \A x \in Int : (h + x) % Numbers = (g + q + x) % Numbers
    <2> SUFFICES ASSUME NEW x \in Int PROVE (h + x) % Numbers = (g + q + x) % Numbers
      OBVIOUS
    <2>1. PICK y \in Int : y = g + q
      OBVIOUS
    <2>2. ((h % Numbers) + x) % Numbers = (h + x) % Numbers
      <3>1. h \in Int
        OBVIOUS
      <3> QED BY <3>1, NumbersRests
    <2>3. ((y % Numbers) + x) % Numbers = (y + x) % Numbers
      BY NumbersRests
    <2>4. h % Numbers = y % Numbers
      BY <2>1, <1>3, <1>4
    <2> QED BY <2>1, <2>2, <2>3, <2>4
  <1>7. HowMany(z, w, Len(z)) = (a - l - h) % Numbers
    <2>1. PICK t \in Nat : t = HowMany(z, w, m) /\ t <= m
      BY PlacesFinite
    <2>2. q + t = (a - l - g) % Numbers
      <3>1. HowMany(s, w, n + m) = q + t
        BY <1>5, <2>1
      <3> QED BY <3>1, <1>0 DEF Stream
    <2>3. (a - l - h) % Numbers = (q + t + g - h) % Numbers
      <3>1. PICK x \in Int, y \in Int : x = a - l - g /\ y = g - h
        OBVIOUS
      <3>2. ((x % Numbers) + y) % Numbers = (x + y) % Numbers
        BY NumbersRests
      <3>3. x + y = a - l - h /\ (x % Numbers) + y = q + t + g - h
        BY <3>1, <2>2
      <3> QED BY <3>2, <3>3
    <2>4. (q + t + g - h) % Numbers = t % Numbers
      <3>1. PICK x \in Int : x = t - h
        OBVIOUS
      <3>2. (h + x) % Numbers = (g + q + x) % Numbers
        BY <1>6
      <3>3. h + x = t /\ g + q + x = q + t + g - h
        BY <3>1
      <3> QED BY <3>2, <3>3
    <2>5. t % Numbers = t
      <3>1. t \in 0 .. Numbers - 1
        BY <2>1, <1>2
      <3> QED BY <3>1, <1>2, Rests
    <2> QED BY <2>1, <2>3, <2>4, <2>5, <1>1
  <1>8. ASSUME NEW i \in 1 .. m, z[i][1] = w PROVE z[i][2] = (h + HowMany(z, w, i)) % Numbers
    <2>1. n + i \in 1 .. Len(s) /\ s[n + i][1] = w /\ s[n + i] = z[i]
      <3>1. n + i \in 1 .. n + m
        OBVIOUS
      <3>2. z[i] = s[n + i]
        BY <1>1
      <3> QED BY <3>1, <3>2, <1>0, <1>8
    <2>2. z[i][2] = (g + HowMany(s, w, n + i)) % Numbers
      BY <2>1 DEF Stream
    <2>3. PICK t \in Nat : t = HowMany(z, w, i) /\ HowMany(s, w, n + i) = q + t
      BY <1>5
    <2>4. (h + t) % Numbers = (g + q + t) % Numbers
      <3>1. t \in Int
        OBVIOUS
      <3> QED BY <3>1, <1>6
    <2>5. g + q + t = g + (q + t)
      OBVIOUS
    <2> QED BY <2>2, <2>3, <2>4, <2>5
  <1> QED BY <1>1, <1>3, <1>7, <1>8 DEF Stream

\* What StreamExact rests on.
StreamInv ==
    /\ got \in [Writer -> Nat]
    /\ \A w \in Writer : pc[w] \in {"out", "close"} => left[w] = 0
    /\ \A w \in Writer : Stream(fifo, w, asked[w], left[w], got[w])

LEMMA StreamSays == StreamInv => StreamExact
  <1>1. \A w, n : BytesOf(w, n) = PlacesOf(fifo, w, n)
    BY DEF BytesOf, PlacesOf
  <1>2. ASSUME StreamInv, NEW w \in Writer
        PROVE  /\ Cardinality(BytesOf(w, Len(fifo))) = (asked[w] - left[w] - got[w]) % Numbers
               /\ \A i \in BytesOf(w, Len(fifo)) :
                     fifo[i][2] = (got[w] + Cardinality(BytesOf(w, i))) % Numbers
    <2>1. Stream(fifo, w, asked[w], left[w], got[w])
      BY <1>2 DEF StreamInv
    <2>2. Cardinality(BytesOf(w, Len(fifo))) = (asked[w] - left[w] - got[w]) % Numbers
      BY <1>1, <2>1 DEF Stream, HowMany
    <2>3. ASSUME NEW i \in BytesOf(w, Len(fifo))
          PROVE  fifo[i][2] = (got[w] + Cardinality(BytesOf(w, i))) % Numbers
      <3>1. i \in 1 .. Len(fifo) /\ fifo[i][1] = w
        BY DEF BytesOf
      <3>2. fifo[i][2] = (got[w] + HowMany(fifo, w, i)) % Numbers
        BY <2>1, <3>1 DEF Stream
      <3> QED BY <1>1, <3>2 DEF HowMany
    <2> QED BY <2>2, <2>3
  <1> QED BY <1>2 DEF StreamExact

LEMMA StreamInit == Init => StreamInv
  <1> SUFFICES ASSUME Init PROVE StreamInv
    OBVIOUS
  <1>1. /\ fifo = << >> /\ got = [w \in Writer |-> 0] /\ left = [t \in Task |-> 0]
        /\ asked = [w \in Writer |-> 0]
    BY DEF Init
  <1>2. Len(fifo) = 0
    BY <1>1
  <1>3. \A w : HowMany(fifo, w, 0) = 0
    <2>1. \A w : PlacesOf(fifo, w, 0) = {}
      BY DEF PlacesOf
    <2> QED BY <2>1, FS_EmptySet DEF HowMany
  <1>4. (0 - 0 - 0) % Numbers = 0
    <2>1. Numbers \in Nat \ {0}
      BY PipeAssumption
    <2>2. 0 \in 0 .. Numbers - 1
      BY <2>1
    <2> QED BY <2>1, <2>2, Rests
  <1>5. ASSUME NEW w \in Writer PROVE Stream(fifo, w, asked[w], left[w], got[w]) /\ left[w] = 0
    <2>1. asked[w] = 0 /\ left[w] = 0 /\ got[w] = 0
      BY <1>1 DEF Task
    <2> QED BY <2>1, <1>2, <1>3, <1>4 DEF Stream
  <1> QED BY <1>1, <1>5 DEF StreamInv

\* __pipe_read.
LEMMA TakeStream ==
    ASSUME PipeInv, StreamInv, NEW r \in Reader, Take(r) PROVE StreamInv'
  <1> DEFINE n == Min({left[r], Len(fifo)})
  <1>1. r \in Task /\ left[r] \in Nat /\ Len(fifo) \in Nat
    BY DEF Task, PipeInv, PipeType
  <1>2. n \in Nat /\ n <= Len(fifo)
    BY <1>1, LeastOfTwo
  <1>3. /\ fifo' = SubSeq(fifo, n + 1, Len(fifo)) /\ Turn(r, n) /\ got' = Handed(n) /\ UNCHANGED asked
    BY DEF Take
  <1> HIDE DEF n
  <1>4. \A w \in Writer : w # r /\ w \in Task
    BY PipeAssumption DEF Task
  <1>5. \A w \in Writer : pc'[w] = pc[w] /\ left'[w] = left[w]
    BY <1>3, <1>4 DEF Turn, Return, PipeInv, PipeType
  <1>6. \A w \in Writer : got'[w] = Taken(fifo, w, n, got[w])
    BY <1>3 DEF Handed, BytesOf, Taken, PlacesOf
  <1>7. ASSUME NEW w \in Writer
        PROVE  Taken(fifo, w, n, got[w]) \in Nat /\ Stream(fifo', w, asked[w], left[w], Taken(fifo, w, n, got[w]))
    <2>1. PICK a \in Nat, l \in Nat, g \in Nat : a = asked[w] /\ l = left[w] /\ g = got[w]
      BY <1>4 DEF PipeInv, PipeType, StreamInv
    <2>2. Stream(fifo, w, a, l, g)
      BY <2>1 DEF StreamInv
    <2>3. fifo \in Seq(Writer \X Nat) /\ Len(fifo) <= PIPE_SIZE
      BY DEF PipeInv, PipeType
    <2>4. Taken(fifo, w, n, g) \in Nat /\ Stream(SubSeq(fifo, n + 1, Len(fifo)), w, a, l, Taken(fifo, w, n, g))
      BY <2>2, <2>3, <1>2, StreamTake
    <2> QED BY <2>1, <2>4, <1>3
  <1>8. got' \in [Writer -> Nat]
    <2>1. got' = [w \in Writer |-> got'[w]]
      BY <1>3 DEF Handed
    <2>2. \A w \in Writer : got'[w] \in Nat
      BY <1>6, <1>7
    <2> QED BY <2>1, <2>2
  <1>9. \A w \in Writer : Stream(fifo', w, asked'[w], left'[w], got'[w])
    BY <1>3, <1>5, <1>6, <1>7
  <1>10. \A w \in Writer : pc'[w] \in {"out", "close"} => left'[w] = 0
    BY <1>5 DEF StreamInv
  <1> QED BY <1>8, <1>9, <1>10 DEF StreamInv

\* pipe_write up to the lock.
LEMMA CallStream ==
    ASSUME PipeInv, StreamInv, NEW w \in Writer, NEW n \in Requests, WriteCall(w, n) PROVE StreamInv'
  <1>1. /\ pc[w] = "out" /\ pc' = [pc EXCEPT ![w] = "write"] /\ left' = [left EXCEPT ![w] = n]
        /\ asked' = [asked EXCEPT ![w] = (asked[w] + n) % Numbers] /\ UNCHANGED <<fifo, got>>
    BY DEF WriteCall
  <1>2. /\ pc \in [Task -> {"out", "read", "woken", "write", "close"}] /\ left \in [Task -> Nat]
        /\ asked \in [Writer -> Nat] /\ w \in Task /\ Writer \subseteq Task
    BY DEF PipeInv, PipeType, Task
  <1>3. /\ \A u \in Writer : u # w => (pc'[u] = pc[u] /\ left'[u] = left[u] /\ asked'[u] = asked[u])
        /\ pc'[w] = "write" /\ left'[w] = n /\ asked'[w] = (asked[w] + n) % Numbers
    BY <1>1, <1>2
  <1>4. PICK a \in Nat, g \in Nat : a = asked[w] /\ g = got[w]
    BY <1>2 DEF StreamInv
  <1>5. Stream(fifo, w, a, 0, g)
    BY <1>1, <1>4 DEF StreamInv
  <1>6. Stream(fifo, w, (a + n) % Numbers, n, g)
    <2>1. PICK k \in Nat : k = n
      BY PipeAssumption
    <2>2. (a + k) % Numbers \in Nat
      BY NumbersFit
    <2>3. (a - 0) % Numbers = (((a + k) % Numbers) - k) % Numbers
      <3>1. PICK x \in Int, y \in Int : x = a + k /\ y = 0 - k
        OBVIOUS
      <3>2. ((x % Numbers) + y) % Numbers = (x + y) % Numbers
        BY NumbersRests
      <3>3. x + y = a - 0 /\ (x % Numbers) + y = ((a + k) % Numbers) - k
        BY <3>1, <2>2
      <3> QED BY <3>2, <3>3
    <2>4. Stream(fifo, w, (a + k) % Numbers, k, g)
      BY <2>2, <2>3, <1>5, StreamShift
    <2> QED BY <2>1, <2>4
  <1>7. \A u \in Writer : Stream(fifo', u, asked'[u], left'[u], got'[u])
    BY <1>1, <1>3, <1>4, <1>6 DEF StreamInv
  <1>8. \A u \in Writer : pc'[u] \in {"out", "close"} => left'[u] = 0
    BY <1>3 DEF StreamInv
  <1>9. got' \in [Writer -> Nat]
    BY <1>1 DEF StreamInv
  <1> QED BY <1>7, <1>8, <1>9 DEF StreamInv

\* A turn of pipe_write: what fits is put behind, and if the call ends the rest
\* is no longer asked for.
LEMMA WriteTurnStream ==
    ASSUME PipeInv, StreamInv, NEW w \in Writer, WriteTurn(w) PROVE StreamInv'
  <1> DEFINE n == Min({left[w], Room})
             rest0 == left[w] - n
  <1>1. /\ w \in Task /\ Writer \subseteq Task /\ left[w] \in Nat /\ Len(fifo) \in Nat /\ Room \in Nat
        /\ Room = PIPE_SIZE - Len(fifo)
    BY PipeAssumption DEF Task, PipeInv, PipeType, Room
  <1>2. n \in Nat /\ n <= left[w] /\ n <= Room
    BY <1>1, LeastOfTwo
  <1>3. /\ fifo' = fifo \o Chunk(w, n) /\ UNCHANGED got
        /\ \/ left' = [left EXCEPT ![w] = rest0] /\ UNCHANGED <<pc, asked>>
           \/ /\ asked' = [asked EXCEPT ![w] = (asked[w] - rest0) % Numbers]
              /\ left' = [left EXCEPT ![w] = 0] /\ pc' = [pc EXCEPT ![w] = "out"]
        /\ pc[w] = "write"
    BY DEF WriteTurn, Put, Return
  <1> HIDE DEF n
  <1>4. PICK a \in Nat, l \in Nat, g \in Nat, k \in Nat :
             a = asked[w] /\ l = left[w] /\ g = got[w] /\ k = n /\ k <= l /\ rest0 = l - k
    BY <1>1, <1>2 DEF PipeInv, PipeType, StreamInv
  <1> HIDE DEF rest0
  <1>5. PICK c : c = Chunk(w, n)
    OBVIOUS
  <1>6. ChunkOf(c, w, a, l, k)
    <2>1. c = [i \in 1 .. k |-> <<w, (a - l + i) % Numbers>>]
      BY <1>4, <1>5 DEF Chunk
    <2>2. \A i \in 1 .. k : (a - l + i) % Numbers \in Nat
      <3> SUFFICES ASSUME NEW i \in 1 .. k PROVE (a - l + i) % Numbers \in Nat
        OBVIOUS
      <3>1. a - l + i \in Int
        OBVIOUS
      <3> QED BY <3>1, NumbersFit
    <2>3. \A i \in 1 .. k : c[i] = <<w, (a - l + i) % Numbers>>
      BY <2>1
    <2>4. c \in [1 .. k -> Writer \X Nat]
      BY <2>1, <2>2
    <2>5. c \in Seq(Writer \X Nat) /\ Len(c) = k
      BY <2>4
    <2> QED BY <2>3, <2>5 DEF ChunkOf
  <1>7. fifo \in Seq(Writer \X Nat) /\ Len(fifo) + k <= PIPE_SIZE
    <2>1. PIPE_SIZE \in Nat
      BY PipeAssumption
    <2> QED BY <2>1, <1>1, <1>2, <1>4 DEF PipeInv, PipeType
  <1>8. /\ Stream(fifo, w, a, l, g) => Stream(fifo \o c, w, a, l - k, g)
        /\ \A u \in Writer : \A b, j, h : u # w /\ Stream(fifo, u, b, j, h) => Stream(fifo \o c, u, b, j, h)
    <2>1. k <= l
      BY <1>4
    <2> QED BY <2>1, <1>6, <1>7, StreamPut
  <1>9. Stream(fifo', w, a, l - k, g)
    BY <1>3, <1>4, <1>5, <1>8 DEF StreamInv
  <1>10. ASSUME NEW u \in Writer, u # w PROVE Stream(fifo', u, asked[u], left[u], got[u])
    <2>1. Stream(fifo, u, asked[u], left[u], got[u])
      BY DEF StreamInv
    <2> QED BY <2>1, <1>3, <1>5, <1>8, <1>10
  <1>11. /\ pc \in [Task -> {"out", "read", "woken", "write", "close"}] /\ left \in [Task -> Nat]
         /\ asked \in [Writer -> Nat]
    BY DEF PipeInv, PipeType
  <1>12. got' \in [Writer -> Nat]
    BY <1>3 DEF StreamInv
  <1>13. CASE left' = [left EXCEPT ![w] = rest0] /\ UNCHANGED <<pc, asked>>
    <2>1. /\ left'[w] = rest0 /\ pc'[w] = "write" /\ asked'[w] = a
          /\ \A u \in Writer : u # w => (left'[u] = left[u] /\ pc'[u] = pc[u] /\ asked'[u] = asked[u])
      BY <1>1, <1>3, <1>4, <1>11, <1>13
    <2>2. \A u \in Writer : pc'[u] \in {"out", "close"} => left'[u] = 0
      BY <2>1 DEF StreamInv
    <2>3. \A u \in Writer : Stream(fifo', u, asked'[u], left'[u], got'[u])
      BY <2>1, <1>3, <1>4, <1>9, <1>10
    <2> QED BY <2>2, <2>3, <1>12 DEF StreamInv
  <1>14. CASE /\ asked' = [asked EXCEPT ![w] = (asked[w] - rest0) % Numbers]
              /\ left' = [left EXCEPT ![w] = 0] /\ pc' = [pc EXCEPT ![w] = "out"]
    <2>1. /\ left'[w] = 0 /\ pc'[w] = "out" /\ asked'[w] = (a - rest0) % Numbers
          /\ \A u \in Writer : u # w => (left'[u] = left[u] /\ pc'[u] = pc[u] /\ asked'[u] = asked[u])
      BY <1>1, <1>4, <1>11, <1>14
    <2>2. \A u \in Writer : pc'[u] \in {"out", "close"} => left'[u] = 0
      BY <2>1 DEF StreamInv
    <2>3. Stream(fifo', w, (a - rest0) % Numbers, 0, g)
      <3>1. PICK x \in Int, r \in Nat : r = rest0 /\ x = a - r
        BY <1>4
      <3>2. Stream(fifo', w, a, r, g)
        BY <3>1, <1>4, <1>9
      <3>3. x % Numbers \in Nat
        BY NumbersFit
      <3>4. PICK y \in Nat : y = x % Numbers
        BY <3>3
      <3>5. (a - r) % Numbers = (y - 0) % Numbers
        <4>1. ((x % Numbers) + 0) % Numbers = (x + 0) % Numbers
          BY NumbersRests
        <4>2. x + 0 = a - r /\ y + 0 = y - 0
          BY <3>1
        <4> QED BY <4>1, <4>2, <3>4
      <3>6. \A s : Stream(s, w, a, r, g) => Stream(s, w, y, 0, g)
        BY <3>5, StreamShift
      <3>7. Stream(fifo', w, y, 0, g)
        BY <3>2, <3>6
      <3> QED BY <3>1, <3>4, <3>7
    <2>4. \A u \in Writer : Stream(fifo', u, asked'[u], left'[u], got'[u])
      BY <2>1, <2>3, <1>3, <1>4, <1>10
    <2> QED BY <2>2, <2>4, <1>12 DEF StreamInv
  <1> QED BY <1>3, <1>13, <1>14

\* The other steps move no bytes and ask for none.
WritersRest ==
    \A w \in Writer :
        /\ left'[w] = left[w] \/ (left'[w] = 0 /\ pc[w] \in {"out", "close"})
        /\ pc'[w] \in {"out", "close"} => pc[w] \in {"out", "close"}

LEMMA QuietStream ==
    ASSUME PipeInv, StreamInv, UNCHANGED data, WritersRest PROVE StreamInv'
  <1>1. fifo' = fifo /\ got' = got /\ asked' = asked
    BY DEF data
  <1>2. \A w \in Writer : left'[w] = left[w]
    BY DEF StreamInv, WritersRest
  <1>3. \A w \in Writer : pc'[w] \in {"out", "close"} => left'[w] = 0
    BY <1>2 DEF StreamInv, WritersRest
  <1> QED BY <1>1, <1>2, <1>3 DEF StreamInv

LEMMA NextStream == PipeInv /\ StreamInv /\ [Next]_vars => StreamInv'
  <1> SUFFICES ASSUME PipeInv, StreamInv, [Next]_vars PROVE StreamInv'
    OBVIOUS
  <1>1. /\ pc \in [Task -> {"out", "read", "woken", "write", "close"}] /\ left \in [Task -> Nat]
    BY DEF PipeInv, PipeType
  <1>2. Writer \subseteq Task /\ Reader \subseteq Task /\ \A r \in Reader : r \notin Writer
    BY PipeAssumption DEF Task
  <1>3. CASE \E r \in Reader, n \in Requests : ReadCall(r, n)
    <2>1. PICK r \in Reader, n \in Requests : ReadCall(r, n)
      BY <1>3
    <2>2. UNCHANGED data /\ \A w \in Writer : left'[w] = left[w] /\ pc'[w] = pc[w]
      BY <2>1, <1>1, <1>2 DEF ReadCall
    <2> QED BY <2>2, QuietStream DEF WritersRest
  <1>4. CASE \E w \in Writer, n \in Requests : WriteCall(w, n)
    BY <1>4, CallStream
  <1>5. CASE \E w \in Writer : WriteNoReader(w)
    <2>1. PICK t \in Writer : WriteNoReader(t)
      BY <1>5
    <2>2. /\ UNCHANGED data /\ pc[t] = "out" /\ left'[t] = 0
          /\ \A w \in Writer : pc'[w] = pc[w] /\ (w # t => left'[w] = left[w])
      BY <2>1, <1>1, <1>2 DEF WriteNoReader, Return
    <2>3. WritersRest
      BY <2>2 DEF WritersRest
    <2> QED BY <2>2, <2>3, QuietStream
  <1>6. CASE \E r \in Reader : Read(r)
    <2>1. PICK r \in Reader : Read(r)
      BY <1>6
    <2>2. CASE Take(r)
      BY <2>2, TakeStream
    <2>3. CASE ReadNowait(r) \/ ReadWait(r)
      <3>1. UNCHANGED data /\ \A w \in Writer : left'[w] = left[w] /\ pc'[w] = pc[w]
        BY <2>3, <1>1, <1>2 DEF ReadNowait, ReadWait, Return
      <3> QED BY <3>1, QuietStream DEF WritersRest
    <2> QED BY <2>1, <2>2, <2>3 DEF Read, ReadTake, ReadWoken
  <1>7. CASE \E w \in Writer : WriteTurn(w)
    BY <1>7, WriteTurnStream
  <1>8. CASE \E t, child \in Task : pipe_grow(t, child)
    <2>1. UNCHANGED <<data, pc, left>>
      BY <1>8 DEF pipe_grow
    <2> QED BY <2>1, QuietStream DEF WritersRest
  <1>9. CASE \E t \in Task : pipe_ioctl(t)
    <2>1. UNCHANGED <<data, pc, left>>
      BY <1>9 DEF pipe_ioctl
    <2> QED BY <2>1, QuietStream DEF WritersRest
  <1>10. CASE \E t \in Task : CloseCount(t)
    <2>1. PICK t \in Task : CloseCount(t)
      BY <1>10
    <2>2. /\ UNCHANGED data /\ pc[t] = "out" /\ UNCHANGED left
          /\ \A w \in Writer : w # t => pc'[w] = pc[w]
      BY <2>1, <1>1, <1>2 DEF CloseCount
    <2>3. WritersRest
      BY <2>2 DEF WritersRest
    <2> QED BY <2>2, <2>3, QuietStream
  <1>11. CASE \E t \in Task : CloseDestroy(t)
    <2>1. PICK t \in Task : CloseDestroy(t)
      BY <1>11
    <2>2. /\ UNCHANGED data /\ pc[t] = "close" /\ left'[t] = 0
          /\ \A w \in Writer : w # t => (pc'[w] = pc[w] /\ left'[w] = left[w])
      BY <2>1, <1>1, <1>2 DEF CloseDestroy, Return
    <2>3. WritersRest
      BY <2>2 DEF WritersRest
    <2> QED BY <2>2, <2>3, QuietStream
  <1>12. CASE UNCHANGED vars
    <2>1. UNCHANGED <<data, pc, left>>
      BY <1>12 DEF vars
    <2> QED BY <2>1, QuietStream DEF WritersRest
  <1> QED BY <1>3, <1>4, <1>5, <1>6, <1>7, <1>8, <1>9, <1>10, <1>11, <1>12 DEF Next, Move

\* pipe_read and pipe_write: the bytes of every writer reach the readers in
\* the order in which they were written, each once, in whatever pieces and
\* between whatever other writers.
THEOREM PipeStreamExact == Spec => []StreamExact
  <1>1. Spec => [](PipeInv /\ StreamInv)
    <2>1. Init => PipeInv /\ StreamInv
      BY PipeInit, StreamInit
    <2>2. PipeInv /\ StreamInv /\ [Next]_vars => (PipeInv /\ StreamInv)'
      BY NextPipe, NextStream
    <2> QED BY <2>1, <2>2, PTL DEF Spec
  <1> QED BY <1>1, StreamSays, PTL

-----------------------------------------------------------------------------
(* The ring buffer below the pipe is a queue of bytes.                     *)

LEMMA RingSize ==
    /\ Size \in Nat \ {0} /\ Uints \in Nat \ {0} /\ Size < Uints
    /\ \E k \in Nat : Uints = Size * k
  <1>1. Size \in Nat \ {0} /\ Uints \in Nat /\ Size < Uints /\ Uints % Size = 0
    BY IpcAssumption DEF B!FifoBufConstants
  <1>2. Uints = Size * (Uints \div Size) + (Uints % Size) /\ Uints \div Size \in Nat
    BY <1>1
  <1>3. PICK k \in Nat : k = Uints \div Size
    BY <1>2
  <1>4. Uints = Size * k
    BY <1>1, <1>2, <1>3
  <1> QED BY <1>1, <1>4

\* in and out run on modulo Uints, a multiple of the size.
LEMMA RingRests ==
    /\ \A x \in Int, y \in Int : ((x % Uints) + y) % Uints = (x + y) % Uints
    /\ \A x \in Int : (x % Uints) \in 0 .. Uints - 1
    /\ \A x \in 0 .. Uints - 1 : x % Uints = x
    /\ \A x \in Int, y \in Int : ((x % Size) + y) % Size = (x + y) % Size
    /\ \A x \in Int : (x % Size) \in 0 .. Size - 1
    /\ \A x \in 0 .. Size - 1 : x % Size = x
    /\ \A x \in Int : (x % Uints) % Size = x % Size
  <1>1. ASSUME NEW x \in Int PROVE (x % Uints) % Size = x % Size
    <2>1. PICK k \in Nat : Uints = Size * k
      BY RingSize
    <2>2. PICK q \in Int, r \in Int : x = Uints * q + r /\ r = x % Uints
      <3>1. Uints \in Nat \ {0}
        BY RingSize
      <3>2. x = Uints * (x \div Uints) + (x % Uints) /\ x % Uints \in Int /\ x \div Uints \in Int
        BY <3>1
      <3> QED BY <3>2
    <2>3. PICK h \in Int : h = k * q
      OBVIOUS
    <2>4. x = r + Size * h
      <3>1. Size \in Int /\ (Size * k) * q = Size * (k * q)
        BY RingSize
      <3> QED BY <3>1, <2>1, <2>2, <2>3
    <2>5. Size \in Nat \ {0}
      BY RingSize
    <2>6. x % Size = r % Size
      BY <2>4, <2>5, SameRest
    <2> QED BY <2>2, <2>6
  <1>2. Size \in Nat \ {0} /\ Uints \in Nat \ {0}
    BY RingSize
  <1> QED BY <1>1, <1>2, Rests

\* The place k places after p.
Place(p, k) == IF p + k < Size THEN p + k ELSE p + k - Size

LEMMA PlaceOf ==
    ASSUME NEW x \in Int, NEW k \in 0 .. Size - 1 PROVE (x + k) % Size = Place(x % Size, k)
  <1>1. Size \in Nat \ {0} /\ k \in Int
    BY RingSize
  <1>2. PICK p \in 0 .. Size - 1 : p = x % Size
    BY RingRests
  <1>3. (p + k) % Size = (x + k) % Size
    BY <1>1, <1>2, RingRests
  <1>4. CASE p + k < Size
    <2>1. p + k \in 0 .. Size - 1
      BY <1>1, <1>4
    <2> QED BY <2>1, <1>2, <1>3, <1>4, RingRests DEF Place
  <1>5. CASE ~ (p + k < Size)
    <2>1. PICK y \in 0 .. Size - 1 : y = p + k - Size
      BY <1>1, <1>5
    <2>2. p + k = y + Size * 1
      BY <2>1, <1>1
    <2>3. (p + k) % Size = y % Size
      <3>1. PICK a \in Int, c \in Int : a = p + k /\ c = 1
        BY <1>1
      <3>2. a = y + Size * c /\ y \in Int
        BY <3>1, <2>2
      <3>3. a % Size = y % Size
        BY <3>2, <1>1, SameRest
      <3> QED BY <3>1, <3>3
    <2>4. y % Size = y
      BY RingRests
    <2> QED BY <2>1, <2>3, <2>4, <1>2, <1>3, <1>5 DEF Place
  <1> QED BY <1>4, <1>5

\* n bytes of b, from the place p on.
Held(b, p, n) == [i \in 1 .. n |-> b[Place(p, i - 1)]]

LEMMA HeldType ==
    ASSUME NEW b \in [0 .. Size - 1 -> Byte], NEW p \in 0 .. Size - 1, NEW n \in 0 .. Size
    PROVE  /\ Held(b, p, n) \in Seq(Byte) /\ Len(Held(b, p, n)) = n
           /\ \A i \in 1 .. n : Held(b, p, n)[i] = b[Place(p, i - 1)]
  <1>1. n \in Nat
    OBVIOUS
  <1>2. \A i \in 1 .. n : Place(p, i - 1) \in 0 .. Size - 1
    BY RingSize DEF Place
  <1>3. \A i \in 1 .. n : Held(b, p, n)[i] = b[Place(p, i - 1)]
    BY DEF Held
  <1>4. Held(b, p, n) \in [1 .. n -> Byte]
    BY <1>2 DEF Held
  <1>5. Held(b, p, n) \in Seq(Byte) /\ Len(Held(b, p, n)) = n
    BY <1>1, <1>4
  <1> QED BY <1>3, <1>5

\* Bytes taken from the place p on leave what comes n places after it.
LEMMA HeldTaken ==
    ASSUME NEW b \in [0 .. Size - 1 -> Byte], NEW p \in 0 .. Size - 1,
           NEW m \in 0 .. Size, NEW n \in 0 .. m
    PROVE  /\ Held(b, p, n) = SubSeq(Held(b, p, m), 1, n)
           /\ Place(p, n) \in 0 .. Size - 1
           /\ Held(b, Place(p, n), m - n) = SubSeq(Held(b, p, m), n + 1, m)
  <1>0. Size \in Nat \ {0} /\ n \in 0 .. Size /\ m - n \in 0 .. Size
    BY RingSize
  <1>1. PICK s \in Seq(Byte) : /\ s = Held(b, p, m) /\ Len(s) = m
                              /\ \A i \in 1 .. m : s[i] = b[Place(p, i - 1)] /\ s[i] \in Byte
    <2>1. /\ Held(b, p, m) \in Seq(Byte) /\ Len(Held(b, p, m)) = m
          /\ \A i \in 1 .. m : Held(b, p, m)[i] = b[Place(p, i - 1)]
      BY HeldType
    <2>2. PICK s \in Seq(Byte) : s = Held(b, p, m)
      BY <2>1
    <2>3. \A i \in 1 .. Len(s) : s[i] \in Byte
      BY ElementOfSeq
    <2> QED BY <2>1, <2>2, <2>3
  <1>2. Held(b, p, n) = SubSeq(s, 1, n)
    <2>1. /\ Held(b, p, n) \in Seq(Byte) /\ Len(Held(b, p, n)) = n
          /\ \A i \in 1 .. n : Held(b, p, n)[i] = b[Place(p, i - 1)]
      BY <1>0, HeldType
    <2>2. \A i \in 1 .. n : s[i] \in Byte
      BY <1>1
    <2>3. /\ SubSeq(s, 1, n) \in Seq(Byte) /\ Len(SubSeq(s, 1, n)) = n
          /\ \A i \in 1 .. n : SubSeq(s, 1, n)[i] = s[i]
      BY <2>2, <1>1, SubSeqProperties
    <2>4. PICK x \in Seq(Byte), y \in Seq(Byte) : x = Held(b, p, n) /\ y = SubSeq(s, 1, n)
      BY <2>1, <2>3
    <2>5. Len(x) = Len(y) /\ \A i \in 1 .. Len(x) : x[i] = y[i]
      BY <2>1, <2>3, <2>4, <1>1
    <2>6. x = y
      BY <2>5, SeqEqual
    <2> QED BY <2>4, <2>6
  <1>3. PICK q \in 0 .. Size - 1 : q = Place(p, n)
    BY <1>0 DEF Place
  <1>4. Held(b, q, m - n) = SubSeq(s, n + 1, m)
    <2>1. /\ Held(b, q, m - n) \in Seq(Byte) /\ Len(Held(b, q, m - n)) = m - n
          /\ \A i \in 1 .. m - n : Held(b, q, m - n)[i] = b[Place(q, i - 1)]
      BY <1>0, HeldType
    <2>2. \A i \in n + 1 .. m : s[i] \in Byte
      BY <1>1
    <2>3. /\ SubSeq(s, n + 1, m) \in Seq(Byte) /\ Len(SubSeq(s, n + 1, m)) = m - n
          /\ \A i \in 1 .. m - n : SubSeq(s, n + 1, m)[i] = s[n + i]
      <3>1. n + 1 \in Int /\ m \in Int
        OBVIOUS
      <3>2. /\ SubSeq(s, n + 1, m) \in Seq(Byte)
            /\ Len(SubSeq(s, n + 1, m)) = IF n + 1 <= m THEN m - (n + 1) + 1 ELSE 0
            /\ \A i \in 1 .. m - (n + 1) + 1 : SubSeq(s, n + 1, m)[i] = s[n + 1 + i - 1]
        BY <2>2, <3>1, SubSeqProperties
      <3>3. PICK z : z = SubSeq(s, n + 1, m)
        OBVIOUS
      <3>4. ASSUME NEW i \in 1 .. m - n PROVE z[i] = s[n + i]
        <4>1. i \in 1 .. m - (n + 1) + 1 /\ n + 1 + i - 1 = n + i
          OBVIOUS
        <4> QED BY <4>1, <3>2, <3>3
      <3>5. Len(z) = m - n
        BY <3>2, <3>3
      <3> QED BY <3>2, <3>3, <3>4, <3>5
    <2>4. \A i \in 1 .. m - n : Place(q, i - 1) = Place(p, n + i - 1) /\ n + i \in 1 .. m
      BY <1>0, <1>3 DEF Place
    <2>5. PICK x \in Seq(Byte), y \in Seq(Byte) : x = Held(b, q, m - n) /\ y = SubSeq(s, n + 1, m)
      BY <2>1, <2>3
    <2>6. Len(x) = Len(y) /\ \A i \in 1 .. Len(x) : x[i] = y[i]
      <3>1. ASSUME NEW i \in 1 .. m - n PROVE x[i] = y[i]
        <4>1. n + i \in 1 .. m /\ Place(q, i - 1) = Place(p, n + i - 1)
          BY <2>4
        <4>2. s[n + i] = b[Place(p, n + i - 1)]
          BY <4>1, <1>1
        <4> QED BY <4>1, <4>2, <2>1, <2>3, <2>5
      <3> QED BY <3>1, <2>1, <2>3, <2>5
    <2>7. x = y
      BY <2>6, SeqEqual
    <2> QED BY <2>5, <2>7
  <1> QED BY <1>1, <1>2, <1>3, <1>4

\* What two memcpys make of b: l bytes from the place h on, the rest of n from
\* the start of the buffer on.
CopiedIn(b, bytes, h, l, n) ==
    [q \in 0 .. Size - 1 |->
        CASE q \in h .. h + l - 1 -> bytes[q - h + 1]
          [] q \in 0 .. n - l - 1 -> bytes[l + q + 1]
          [] OTHER -> b[q]]

\* Bytes put behind the m that are there.
PutBehind(c, b, p, m, bytes, n) ==
    /\ c \in [0 .. Size - 1 -> Byte]
    /\ Held(c, p, m + n) = Held(b, p, m) \o SubSeq(bytes, 1, n)

LEMMA HeldPut ==
    ASSUME NEW b \in [0 .. Size - 1 -> Byte], NEW p \in 0 .. Size - 1,
           NEW m \in 0 .. Size, NEW n \in 0 .. Size - m, NEW bytes \in Seq(Byte), n <= Len(bytes),
           NEW h \in 0 .. Size - 1, m < Size => h = Place(p, m),
           NEW l \in 0 .. n, l <= Size - h, l = n \/ l = Size - h,
           NEW c, c = CopiedIn(b, bytes, h, l, n)
    PROVE  PutBehind(c, b, p, m, bytes, n)
  <1>0. Size \in Nat \ {0} /\ m + n \in 0 .. Size /\ n - l <= h
    <2>1. Size \in Nat \ {0} /\ m + n \in 0 .. Size
      BY RingSize
    <2>2. n - l <= h
      BY <2>1 DEF Place
    <2> QED BY <2>1, <2>2
  <1>1. \A i \in 1 .. n : bytes[i] \in Byte
    <2>1. Len(bytes) \in Nat
      BY LenProperties
    <2>2. \A i \in 1 .. n : i \in 1 .. Len(bytes)
      BY <2>1
    <2> QED BY <2>2, ElementOfSeq
  <1>2. ASSUME NEW q \in 0 .. Size - 1
        PROVE  /\ q \in h .. h + l - 1 => c[q] = bytes[q - h + 1] /\ q - h + 1 \in 1 .. n
               /\ q \in 0 .. n - l - 1 => c[q] = bytes[l + q + 1] /\ l + q + 1 \in 1 .. n
               /\ ~ (q \in h .. h + l - 1) /\ ~ (q \in 0 .. n - l - 1) => c[q] = b[q]
    <2>1. c[q] = CASE q \in h .. h + l - 1 -> bytes[q - h + 1]
                   [] q \in 0 .. n - l - 1 -> bytes[l + q + 1]
                   [] OTHER -> b[q]
      BY DEF CopiedIn
    <2>2. ~ (q \in h .. h + l - 1 /\ q \in 0 .. n - l - 1)
      BY <1>0
    <2>3. CASE q \in h .. h + l - 1
      <3>1. c[q] = bytes[q - h + 1]
        BY <2>1, <2>2, <2>3
      <3>2. q - h + 1 \in 1 .. n
        BY <2>3
      <3> QED BY <3>1, <3>2, <2>2, <2>3
    <2>4. CASE q \in 0 .. n - l - 1
      <3>1. c[q] = bytes[l + q + 1]
        BY <2>1, <2>2, <2>4
      <3>2. l + q + 1 \in 1 .. n
        BY <2>4
      <3> QED BY <3>1, <3>2, <2>2, <2>4
    <2>5. CASE ~ (q \in h .. h + l - 1) /\ ~ (q \in 0 .. n - l - 1)
      <3>1. c[q] = b[q]
        BY <2>1, <2>5
      <3> QED BY <3>1, <2>5
    <2> QED BY <2>3, <2>4, <2>5
  <1>3. c \in [0 .. Size - 1 -> Byte]
    <2>1. \A q \in 0 .. Size - 1 : c[q] \in Byte
      <3> SUFFICES ASSUME NEW q \in 0 .. Size - 1 PROVE c[q] \in Byte
        OBVIOUS
      <3> QED BY <1>1, <1>2
    <2>2. c = [q \in 0 .. Size - 1 |-> c[q]]
      BY DEF CopiedIn
    <2> QED BY <2>1, <2>2
  <1>4. ASSUME NEW i \in 1 .. m PROVE c[Place(p, i - 1)] = b[Place(p, i - 1)]
    <2>1. PICK q \in 0 .. Size - 1 : q = Place(p, i - 1)
      BY <1>0 DEF Place
    <2>2. ~ (q \in h .. h + l - 1) /\ ~ (q \in 0 .. n - l - 1)
      BY <2>1, <1>0 DEF Place
    <2> QED BY <2>1, <2>2, <1>2
  <1>5. ASSUME NEW j \in 1 .. n PROVE c[Place(p, m + j - 1)] = bytes[j]
    <2>1. PICK q \in 0 .. Size - 1 : q = Place(p, m + j - 1)
      <3>1. PICK k \in 0 .. Size - 1 : k = m + j - 1
        BY <1>0
      <3>2. Place(p, k) \in 0 .. Size - 1
        BY <1>0 DEF Place
      <3> QED BY <3>1, <3>2
    <2>2. h = Place(p, m)
      BY <1>0
    <2>3. CASE j <= l
      <3>1. q \in h .. h + l - 1 /\ q - h + 1 = j
        BY <2>1, <2>2, <2>3, <1>0 DEF Place
      <3> QED BY <3>1, <2>1, <1>2
    <2>4. CASE ~ (j <= l)
      <3>1. q \in 0 .. n - l - 1 /\ l + q + 1 = j
        BY <2>1, <2>2, <2>4, <1>0 DEF Place
      <3> QED BY <3>1, <2>1, <1>2
    <2> QED BY <2>3, <2>4
  <1>6. PICK x \in Seq(Byte), y \in Seq(Byte), z \in Seq(Byte) :
            /\ x = Held(c, p, m + n) /\ Len(x) = m + n
            /\ \A i \in 1 .. m + n : x[i] = c[Place(p, i - 1)]
            /\ y = Held(b, p, m) /\ Len(y) = m /\ \A i \in 1 .. m : y[i] = b[Place(p, i - 1)]
            /\ z = SubSeq(bytes, 1, n) /\ Len(z) = n /\ \A i \in 1 .. n : z[i] = bytes[i]
    <2>1. PICK x \in Seq(Byte) : /\ x = Held(c, p, m + n) /\ Len(x) = m + n
                                /\ \A i \in 1 .. m + n : x[i] = c[Place(p, i - 1)]
      <3>1. m + n \in 0 .. Size
        BY <1>0
      <3>2. /\ Held(c, p, m + n) \in Seq(Byte) /\ Len(Held(c, p, m + n)) = m + n
            /\ \A i \in 1 .. m + n : Held(c, p, m + n)[i] = c[Place(p, i - 1)]
        BY <1>3, <3>1, HeldType
      <3> QED BY <3>2
    <2>2. PICK y \in Seq(Byte) : /\ y = Held(b, p, m) /\ Len(y) = m
                                /\ \A i \in 1 .. m : y[i] = b[Place(p, i - 1)]
      BY HeldType
    <2>3. PICK z \in Seq(Byte) : z = SubSeq(bytes, 1, n) /\ Len(z) = n /\ \A i \in 1 .. n : z[i] = bytes[i]
      <3>1. n \in Int /\ n \in Nat
        BY RingSize
      <3>2. /\ SubSeq(bytes, 1, n) \in Seq(Byte) /\ Len(SubSeq(bytes, 1, n)) = IF 1 <= n THEN n - 1 + 1 ELSE 0
            /\ \A i \in 1 .. n - 1 + 1 : SubSeq(bytes, 1, n)[i] = bytes[1 + i - 1]
        BY <3>1, <1>1, SubSeqProperties
      <3>3. PICK z \in Seq(Byte) : z = SubSeq(bytes, 1, n)
        BY <3>2
      <3>4. Len(z) = n
        BY <3>1, <3>2, <3>3
      <3>5. ASSUME NEW i \in 1 .. n PROVE z[i] = bytes[i]
        <4>1. i \in 1 .. n - 1 + 1 /\ 1 + i - 1 = i
          BY <3>1
        <4> QED BY <4>1, <3>2, <3>3
      <3> QED BY <3>3, <3>4, <3>5
    <2> QED BY <2>1, <2>2, <2>3
  <1>7. PICK d \in Seq(Byte) : d = y \o z /\ Behind(d, y, z)
    <2>1. y \o z \in Seq(Byte)
      BY ConcatProperties
    <2>2. Behind(y \o z, y, z)
      BY ChunkBehind
    <2> QED BY <2>1, <2>2
  <1>8. Len(x) = Len(d) /\ \A i \in 1 .. Len(x) : x[i] = d[i]
    <2>1. Len(d) = m + n /\ (\A i \in 1 .. m : d[i] = y[i]) /\ \A i \in 1 .. n : d[m + i] = z[i]
      BY <1>6, <1>7 DEF Behind
    <2>2. ASSUME NEW i \in 1 .. m PROVE x[i] = d[i]
      <3>1. i \in 1 .. m + n
        BY <1>0
      <3>2. x[i] = c[Place(p, i - 1)] /\ y[i] = b[Place(p, i - 1)]
        BY <3>1, <1>6
      <3>3. d[i] = y[i]
        BY <2>1
      <3> QED BY <3>2, <3>3, <1>4
    <2>3. ASSUME NEW j \in 1 .. n PROVE x[m + j] = d[m + j]
      <3>1. m + j \in 1 .. m + n
        BY <1>0
      <3>2. x[m + j] = c[Place(p, m + j - 1)]
        BY <3>1, <1>6
      <3>3. d[m + j] = bytes[j]
        BY <2>1, <1>6
      <3> QED BY <3>2, <3>3, <1>5
    <2>4. ASSUME NEW i \in 1 .. m + n PROVE x[i] = d[i]
      <3>1. CASE i \in 1 .. m
        BY <3>1, <2>2
      <3>2. CASE ~ (i \in 1 .. m)
        <4>1. PICK j \in 1 .. n : m + j = i
          <5>1. i - m \in 1 .. n /\ m + (i - m) = i
            BY <3>2, <1>0
          <5> QED BY <5>1
        <4> QED BY <4>1, <2>3
      <3> QED BY <3>1, <3>2
    <2> QED BY <2>1, <2>4, <1>6
  <1>9. x = d
    BY <1>8, SeqEqual
  <1> QED BY <1>3, <1>6, <1>7, <1>9 DEF PutBehind

\* in and out, and as many bytes between them as there is room for.
RingInv ==
    /\ in \in 0 .. Uints - 1 /\ out \in 0 .. Uints - 1
    /\ buffer \in [0 .. Size - 1 -> Byte]
    /\ B!fifo_buf_len <= Size

Contents == [i \in 1 .. B!fifo_buf_len |-> buffer[B!Offset(out + i - 1)]]

\* The ring between out and in.
LEMMA RingBetween ==
    ASSUME NEW i \in 0 .. Uints - 1, NEW o \in 0 .. Uints - 1, NEW m \in Int,
           m = (i - o) % Uints, m <= Size
    PROVE  /\ m \in 0 .. Size /\ (Size - m) % Uints = Size - m
           /\ m < Size => i % Size = Place(o % Size, m)
           /\ o % Size \in 0 .. Size - 1 /\ i % Size \in 0 .. Size - 1
  <1>1. Size \in Nat \ {0} /\ Uints \in Nat \ {0} /\ Size < Uints
    BY RingSize
  <1>2. m \in 0 .. Size
    <2>1. i - o \in Int
      BY <1>1
    <2>2. (i - o) % Uints \in 0 .. Uints - 1
      BY <2>1, RingRests
    <2> QED BY <2>2, <1>1
  <1>3. (Size - m) % Uints = Size - m
    <2>1. Size - m \in 0 .. Uints - 1
      BY <1>1, <1>2
    <2> QED BY <2>1, RingRests
  <1>4. ASSUME m < Size PROVE i % Size = Place(o % Size, m)
    <2>1. PICK x \in Int, y \in Int : x = i - o /\ y = o
      BY <1>1
    <2>2. ((x % Uints) + y) % Uints = (x + y) % Uints
      BY RingRests
    <2>3. x + y = i /\ (x % Uints) + y = o + m
      BY <2>1, <1>1, <1>2
    <2>4. i % Uints = i
      BY RingRests
    <2>5. (o + m) % Uints = i
      BY <2>2, <2>3, <2>4
    <2>6. o + m \in Int /\ o \in Int /\ m \in 0 .. Size - 1
      BY <1>1, <1>2, <1>4
    <2>7. ((o + m) % Uints) % Size = (o + m) % Size
      BY <2>6, RingRests
    <2>8. (o + m) % Size = Place(o % Size, m)
      BY <2>6, PlaceOf
    <2> QED BY <2>5, <2>7, <2>8
  <1>5. o % Size \in 0 .. Size - 1 /\ i % Size \in 0 .. Size - 1
    <2>1. o \in Int /\ i \in Int
      BY <1>1
    <2> QED BY <2>1, RingRests
  <1> QED BY <1>2, <1>3, <1>4, <1>5

LEMMA ContentsOf ==
    ASSUME NEW b, NEW o \in 0 .. Uints - 1, NEW m \in 0 .. Size
    PROVE  [i \in 1 .. m |-> b[B!Offset(o + i - 1)]] = Held(b, o % Size, m)
  <1>1. ASSUME NEW i \in 1 .. m PROVE B!Offset(o + i - 1) = Place(o % Size, i - 1)
    <2>1. PICK k \in 0 .. Size - 1 : k = i - 1
      BY RingSize
    <2>2. o \in Int /\ o + k = o + i - 1
      BY <2>1, RingSize
    <2>3. (o + k) % Size = Place(o % Size, k)
      BY <2>2, PlaceOf
    <2> QED BY <2>1, <2>2, <2>3 DEF B!Offset
  <1> QED BY <1>1 DEF Held

\* The three numbers of the ring, and what it holds.
LEMMA RingLengths ==
    ASSUME RingInv
    PROVE  /\ B!fifo_buf_len \in 0 .. Size /\ B!fifo_buf_avali = Size - B!fifo_buf_len
           /\ B!fifo_buf_len < Size => B!Offset(in) = Place(out % Size, B!fifo_buf_len)
           /\ out % Size \in 0 .. Size - 1 /\ B!Offset(in) \in 0 .. Size - 1
           /\ Contents = Held(buffer, out % Size, B!fifo_buf_len) /\ Len(Contents) = B!fifo_buf_len
           /\ Contents \in Seq(Byte)
  <1>1. PICK m \in Int : m = B!fifo_buf_len /\ m = (in - out) % Uints /\ m <= Size
    <2>1. in - out \in Int
      BY RingSize DEF RingInv
    <2>2. (in - out) % Uints \in 0 .. Uints - 1
      BY <2>1, RingRests
    <2> QED BY <2>2, RingSize DEF RingInv, B!fifo_buf_len
  <1>2. in \in 0 .. Uints - 1 /\ out \in 0 .. Uints - 1
    BY DEF RingInv
  <1>3. /\ m \in 0 .. Size /\ (Size - m) % Uints = Size - m
        /\ m < Size => in % Size = Place(out % Size, m)
        /\ out % Size \in 0 .. Size - 1 /\ in % Size \in 0 .. Size - 1
    BY <1>1, <1>2, RingBetween
  <1>4. B!fifo_buf_avali = Size - m
    BY <1>1, <1>3 DEF B!fifo_buf_avali
  <1>5. Contents = Held(buffer, out % Size, m)
    <2>1. PICK o \in 0 .. Uints - 1 : o = out
      BY <1>2
    <2>2. m \in 0 .. Size
      BY <1>3
    <2>3. \A b : [i \in 1 .. m |-> b[B!Offset(o + i - 1)]] = Held(b, o % Size, m)
      BY <2>2, ContentsOf
    <2>4. Contents = [i \in 1 .. m |-> buffer[B!Offset(o + i - 1)]]
      BY <2>1, <1>1 DEF Contents
    <2> QED BY <2>1, <2>3, <2>4
  <1>6. Held(buffer, out % Size, m) \in Seq(Byte) /\ Len(Held(buffer, out % Size, m)) = m
    BY <1>3, HeldType DEF RingInv
  <1> QED BY <1>1, <1>3, <1>4, <1>5, <1>6 DEF B!Offset

\* Sums of the indices, modulo Uints.
Moved(i, o, m, n) ==
    /\ n \in 0 .. Size - m => (((i + n) % Uints) - o) % Uints = m + n
    /\ n \in 0 .. m => (i - ((o + n) % Uints)) % Uints = m - n
    /\ n \in 0 .. m => ((o + n) % Uints = i <=> n = m)
    /\ (i + n) % Uints \in 0 .. Uints - 1 /\ (o + n) % Uints \in 0 .. Uints - 1
    /\ n \in 0 .. Size - 1 => ((o + n) % Uints) % Size = Place(o % Size, n)

LEMMA RingMoves ==
    ASSUME NEW i \in 0 .. Uints - 1, NEW o \in 0 .. Uints - 1, NEW m \in 0 .. Size,
           m = (i - o) % Uints, NEW n \in Int
    PROVE  Moved(i, o, m, n)
  <1>1. Size \in Nat \ {0} /\ Uints \in Nat \ {0} /\ Size < Uints
    BY RingSize
  <1>2. (i + n) % Uints \in 0 .. Uints - 1 /\ (o + n) % Uints \in 0 .. Uints - 1
    <2>1. i + n \in Int /\ o + n \in Int
      BY <1>1
    <2> QED BY <2>1, RingRests
  <1>3. ASSUME n \in 0 .. Size - m PROVE (((i + n) % Uints) - o) % Uints = m + n
    <2>1. PICK x \in Int, y \in Int : x = i + n /\ y = 0 - o
      BY <1>1
    <2>2. ((x % Uints) + y) % Uints = (x + y) % Uints
      BY RingRests
    <2>3. PICK u \in Int : u = i - o
      BY <1>1
    <2>4. ((u % Uints) + n) % Uints = (u + n) % Uints
      BY RingRests
    <2>5. x + y = u + n
      BY <2>1, <2>3
    <2>6. (m + n) % Uints = m + n
      <3>1. m + n \in 0 .. Uints - 1
        BY <1>1, <1>3
      <3> QED BY <3>1, RingRests
    <2>7. PICK v \in Int : v = x % Uints
      BY <1>2, <2>1
    <2>8. (v + y) % Uints = m + n
      BY <2>2, <2>3, <2>4, <2>5, <2>6, <2>7
    <2>9. v + y = ((i + n) % Uints) - o
      BY <2>1, <2>7
    <2> QED BY <2>8, <2>9
  <1>4. ASSUME n \in 0 .. m PROVE (i - ((o + n) % Uints)) % Uints = m - n
    <2>1. PICK v \in 0 .. Uints - 1 : v = (o + n) % Uints
      BY <1>2
    <2>2. PICK w \in Int : w = (i - v) % Uints /\ w \in 0 .. Uints - 1
      <3>1. i - v \in Int
        BY <1>1
      <3>2. (i - v) % Uints \in 0 .. Uints - 1
        BY <3>1, RingRests
      <3> QED BY <3>2, <1>1
    <2>3. (w + v) % Uints = i
      <3>1. PICK x \in Int : x = i - v
        BY <1>1
      <3>2. ((x % Uints) + v) % Uints = (x + v) % Uints
        <4>1. v \in Int
          BY <1>1
        <4> QED BY <4>1, RingRests
      <3>3. x + v = i /\ i % Uints = i
        BY <3>1, RingRests
      <3> QED BY <3>1, <3>2, <3>3, <2>2
    <2>4. (w + n) % Uints = m
      <3>1. PICK x \in Int : x = o + n
        BY <1>1
      <3>2. PICK y \in Int : y = i - o
        BY <1>1
      <3>3. PICK z \in Int : z = 0 - v
        BY <1>1
      <3>4. PICK a \in Int : a = i - v
        BY <1>1
      <3>5. ((a % Uints) + n) % Uints = (a + n) % Uints
        BY RingRests
      <3>6. PICK c \in Int : c = i + n
        BY <1>1
      <3>7. a + n = c - v
        BY <3>4, <3>6, <1>1
      <3>8. (c - v) % Uints = (c - x) % Uints
        <4>1. PICK d \in Int : d = c - x - v
          BY <1>1
        <4>2. ((x % Uints) + d) % Uints = (x + d) % Uints
          BY RingRests
        <4>3. x + d = c - v /\ v + d = c - x
          BY <4>1, <1>1
        <4> QED BY <4>2, <4>3, <3>1, <2>1
      <3>9. c - x = y
        BY <3>1, <3>2, <3>6, <1>1
      <3> QED BY <3>2, <3>4, <3>5, <3>7, <3>8, <3>9, <2>2
    <2>5. w = m - n
      <3>1. ((m - n) + n) % Uints = m
        <4>1. m \in 0 .. Uints - 1 /\ (m - n) + n = m
          BY <1>1
        <4> QED BY <4>1, RingRests
      <3>2. PICK e \in Int : e = 0 - n
        OBVIOUS
      <3>3. (((w + n) % Uints) + e) % Uints = ((w + n) + e) % Uints
        <4>1. w + n \in Int
          BY <2>2
        <4> QED BY <4>1, RingRests
      <3>4. (w + n) + e = w /\ w % Uints = w
        <4>1. (w + n) + e = w
          BY <3>2
        <4>2. w % Uints = w
          BY <2>2, RingRests
        <4> QED BY <4>1, <4>2
      <3>5. (m + e) % Uints = w
        BY <3>3, <3>4, <2>4
      <3>6. m + e = m - n /\ (m - n) \in 0 .. Uints - 1
        BY <3>2, <1>1, <1>4
      <3>7. (m - n) % Uints = m - n
        BY <3>6, RingRests
      <3> QED BY <3>5, <3>6, <3>7
    <2> QED BY <2>1, <2>2, <2>5
  <1>5. ASSUME n \in 0 .. m PROVE (o + n) % Uints = i <=> n = m
    <2>1. PICK v \in 0 .. Uints - 1 : v = (o + n) % Uints
      BY <1>2
    <2>2. (i - v) % Uints = m - n
      BY <1>4, <1>5, <2>1
    <2>3. CASE v = i
      <3>1. i - v = 0 /\ 0 \in 0 .. Uints - 1
        BY <2>3, <1>1
      <3>2. 0 % Uints = 0
        BY <3>1, RingRests
      <3>3. m - n = 0
        BY <3>1, <3>2, <2>2
      <3> QED BY <3>3, <2>1, <2>3
    <2>4. CASE n = m
      <3>1. PICK x \in Int, y \in Int : x = i - o /\ y = o
        BY <1>1
      <3>2. ((x % Uints) + y) % Uints = (x + y) % Uints
        BY RingRests
      <3>3. x + y = i /\ i % Uints = i /\ (x % Uints) + y = o + n
        <4>1. x + y = i /\ m + y = o + n
          BY <3>1, <2>4, <1>1
        <4>2. i % Uints = i
          BY RingRests
        <4>3. x % Uints = m
          BY <3>1
        <4> QED BY <4>1, <4>2, <4>3
      <3> QED BY <3>2, <3>3, <2>4
    <2> QED BY <2>1, <2>3, <2>4
  <1>6. ASSUME n \in 0 .. Size - 1 PROVE ((o + n) % Uints) % Size = Place(o % Size, n)
    <2>1. o + n \in Int /\ o \in Int
      BY <1>1
    <2>2. ((o + n) % Uints) % Size = (o + n) % Size
      BY <2>1, RingRests
    <2>3. (o + n) % Size = Place(o % Size, n)
      BY <2>1, <1>6, PlaceOf
    <2> QED BY <2>2, <2>3
  <1> QED BY <1>2, <1>3, <1>4, <1>5, <1>6 DEF Moved

\* fifo_buf_put: what a queue puts.
LEMMA PutRing ==
    ASSUME RingInv, NEW bytes \in Seq(Byte), B!fifo_buf_put(bytes)
    PROVE  /\ RingInv'
           /\ LET n == Min({Len(bytes), Size - Len(Contents)})
              IN  Contents' = Contents \o SubSeq(bytes, 1, n) /\ result' = SubSeq(bytes, 1, n)
  <1>1. PICK m \in 0 .. Size, p \in 0 .. Size - 1, h \in 0 .. Size - 1 :
            /\ m = B!fifo_buf_len /\ B!fifo_buf_avali = Size - m /\ Len(Contents) = m
            /\ p = out % Size /\ h = B!Offset(in) /\ (m < Size => h = Place(p, m))
            /\ Contents = Held(buffer, p, m)
    BY RingLengths
  <1>2. /\ Size \in Nat \ {0} /\ Size - m \in Nat /\ Size - h \in Nat /\ Len(bytes) \in Nat
        /\ in \in 0 .. Uints - 1 /\ out \in 0 .. Uints - 1 /\ buffer \in [0 .. Size - 1 -> Byte]
    BY <1>1, RingSize, LenProperties DEF RingInv
  <1>3. \A x : B!Min(x) = Min(x)
    BY DEF B!Min, Min
  <1>4. PICK n : n = Min({Len(bytes), Size - m})
    OBVIOUS
  <1>5. n \in 0 .. Size - m /\ n <= Len(bytes) /\ n \in Nat
    <2>1. n \in Nat /\ n <= Len(bytes) /\ n <= Size - m
      BY <1>2, <1>4, LeastOfTwo
    <2> QED BY <2>1, <1>2
  <1>6. PICK l : l = Min({n, Size - h})
    OBVIOUS
  <1>7. l \in 0 .. n /\ l <= Size - h /\ (l = n \/ l = Size - h)
    <2>1. l \in Nat /\ l <= n /\ l <= Size - h /\ (l = n \/ l = Size - h)
      BY <1>2, <1>5, <1>6, LeastOfTwo
    <2> QED BY <2>1, <1>5
  <1>8. /\ buffer' = CopiedIn(buffer, bytes, h, l, n)
        /\ in' = (in + n) % Uints /\ result' = SubSeq(bytes, 1, n) /\ out' = out
    <2>1. Min({Len(bytes), B!fifo_buf_avali}) = n
      BY <1>1, <1>4
    <2>2. /\ buffer' = B!CopyIn(bytes, n)
          /\ in' = (in + n) % Uints /\ result' = SubSeq(bytes, 1, n) /\ out' = out
      BY <2>1, <1>3 DEF B!fifo_buf_put
    <2>3. B!CopyIn(bytes, n) = CopiedIn(buffer, bytes, h, l, n)
      BY <1>1, <1>3, <1>6 DEF B!CopyIn, CopiedIn
    <2> QED BY <2>2, <2>3
  <1>9. /\ buffer' \in [0 .. Size - 1 -> Byte]
        /\ Held(buffer', p, m + n) = Contents \o SubSeq(bytes, 1, n)
    <2>1. PICK b \in [0 .. Size - 1 -> Byte] : b = buffer
      BY <1>2
    <2>2. PICK c : c = CopiedIn(b, bytes, h, l, n)
      OBVIOUS
    <2>3. m < Size => h = Place(p, m)
      BY <1>1
    <2>4. n \in 0 .. Size - m /\ n <= Len(bytes)
      BY <1>5
    <2>5. l \in 0 .. n /\ l <= Size - h /\ (l = n \/ l = Size - h)
      BY <1>7
    <2>6. PutBehind(c, b, p, m, bytes, n)
      BY <2>2, <2>3, <2>4, <2>5, HeldPut
    <2> QED BY <2>1, <2>2, <2>6, <1>1, <1>8 DEF PutBehind
  <1>10. in' \in 0 .. Uints - 1 /\ out' \in 0 .. Uints - 1 /\ B!fifo_buf_len' = m + n
    <2>1. m = (in - out) % Uints
      BY <1>1 DEF B!fifo_buf_len
    <2>2. n \in Int
      BY <1>5
    <2>3. Moved(in, out, m, n)
      BY <2>1, <2>2, <1>2, RingMoves
    <2>4. (((in + n) % Uints) - out) % Uints = m + n /\ (in + n) % Uints \in 0 .. Uints - 1
      BY <2>3, <1>5 DEF Moved
    <2> QED BY <2>4, <1>2, <1>8 DEF B!fifo_buf_len
  <1>11. m + n \in 0 .. Size
    BY <1>2, <1>5
  <1>12. Contents' = Held(buffer', p, m + n)
    <2>1. \A b : [i \in 1 .. m + n |-> b[B!Offset(out + i - 1)]] = Held(b, out % Size, m + n)
      BY <1>2, <1>11, ContentsOf
    <2>2. Contents' = [i \in 1 .. m + n |-> buffer'[B!Offset(out + i - 1)]]
      BY <1>8, <1>10 DEF Contents, B!Offset
    <2> QED BY <2>1, <2>2, <1>1
  <1>13. RingInv'
    BY <1>9, <1>10, <1>11 DEF RingInv
  <1> QED BY <1>1, <1>4, <1>8, <1>9, <1>12, <1>13

\* fifo_buf_get: what a queue gives.
LEMMA GetRing ==
    ASSUME RingInv, NEW k \in Nat, B!fifo_buf_get(k)
    PROVE  /\ RingInv'
           /\ LET n == Min({k, Len(Contents)})
              IN  /\ result' = SubSeq(Contents, 1, n)
                  /\ Contents' = SubSeq(Contents, n + 1, Len(Contents))
  <1>1. PICK m \in 0 .. Size, p \in 0 .. Size - 1 :
            /\ m = B!fifo_buf_len /\ Len(Contents) = m
            /\ p = out % Size /\ Contents = Held(buffer, p, m)
    BY RingLengths
  <1>2. /\ Size \in Nat \ {0} /\ m \in Nat /\ Size - p \in Nat
        /\ in \in 0 .. Uints - 1 /\ out \in 0 .. Uints - 1 /\ buffer \in [0 .. Size - 1 -> Byte]
    BY <1>1, RingSize DEF RingInv
  <1>3. \A x : B!Min(x) = Min(x)
    BY DEF B!Min, Min
  <1>4. PICK n : n = Min({k, m})
    OBVIOUS
  <1>5. n \in 0 .. m /\ n \in Nat
    <2>1. n \in Nat /\ n <= m
      BY <1>2, <1>4, LeastOfTwo
    <2> QED BY <2>1, <1>2
  <1>6. PICK l : l = Min({n, Size - p})
    OBVIOUS
  <1>7. l \in 0 .. n /\ l <= Size - p /\ (l = n \/ l = Size - p)
    <2>1. l \in Nat /\ l <= n /\ l <= Size - p /\ (l = n \/ l = Size - p)
      BY <1>2, <1>5, <1>6, LeastOfTwo
    <2> QED BY <2>1, <1>5
  <1>8. PICK o : o = (out + n) % Uints
    OBVIOUS
  <1>9. /\ result' = B!CopyOut(n) /\ buffer' = buffer
        /\ IF o = in THEN in' = 0 /\ out' = 0 ELSE out' = o /\ in' = in
    <2>1. Min({k, B!fifo_buf_len}) = n
      BY <1>1, <1>4
    <2> QED BY <2>1, <1>3, <1>8 DEF B!fifo_buf_get
  <1>10. /\ Held(buffer, p, n) = SubSeq(Contents, 1, n)
         /\ Place(p, n) \in 0 .. Size - 1
         /\ Held(buffer, Place(p, n), m - n) = SubSeq(Contents, n + 1, m)
    <2>1. /\ Held(buffer, p, n) = SubSeq(Held(buffer, p, m), 1, n)
          /\ Place(p, n) \in 0 .. Size - 1
          /\ Held(buffer, Place(p, n), m - n) = SubSeq(Held(buffer, p, m), n + 1, m)
      BY <1>2, <1>5, HeldTaken
    <2> QED BY <2>1, <1>1
  <1>11. B!CopyOut(n) = Held(buffer, p, n)
    <2>1. B!CopyOut(n) = [i \in 1 .. n |-> IF i <= l THEN buffer[p + i - 1] ELSE buffer[i - l - 1]]
      BY <1>1, <1>3, <1>6 DEF B!CopyOut, B!Offset
    <2>2. ASSUME NEW i \in 1 .. n
          PROVE  /\ i <= l => p + i - 1 = Place(p, i - 1)
                 /\ ~ (i <= l) => i - l - 1 = Place(p, i - 1)
      BY <1>2, <1>5, <1>7 DEF Place
    <2>3. ASSUME NEW i \in 1 .. n
          PROVE  (IF i <= l THEN buffer[p + i - 1] ELSE buffer[i - l - 1]) = buffer[Place(p, i - 1)]
      BY <2>2
    <2> QED BY <2>1, <2>3 DEF Held
  <1>12. /\ (in - o) % Uints = m - n /\ (o = in <=> n = m) /\ o \in 0 .. Uints - 1
         /\ n < Size => o % Size = Place(p, n)
    <2>1. m = (in - out) % Uints /\ n \in Int
      BY <1>1, <1>5 DEF B!fifo_buf_len
    <2>2. /\ (in - ((out + n) % Uints)) % Uints = m - n
          /\ (out + n) % Uints = in <=> n = m
          /\ (out + n) % Uints \in 0 .. Uints - 1
          /\ n \in 0 .. Size - 1 => ((out + n) % Uints) % Size = Place(out % Size, n)
      <3>1. PICK i \in 0 .. Uints - 1, r \in 0 .. Uints - 1 : i = in /\ r = out
        BY <1>2
      <3>2. m = (i - r) % Uints /\ m <= Size /\ m \in Int /\ n \in Int
        BY <3>1, <2>1, <1>2
      <3>3. Moved(i, r, m, n)
        BY <3>2, RingMoves
      <3>4. /\ n \in 0 .. m => (i - ((r + n) % Uints)) % Uints = m - n
            /\ n \in 0 .. m => ((r + n) % Uints = i <=> n = m)
            /\ (r + n) % Uints \in 0 .. Uints - 1
            /\ n \in 0 .. Size - 1 => ((r + n) % Uints) % Size = Place(r % Size, n)
        BY <3>3 DEF Moved
      <3> QED BY <3>1, <3>4, <1>5
    <2>3. n < Size => n \in 0 .. Size - 1
      BY <1>2, <1>5
    <2> QED BY <2>2, <2>3, <1>1, <1>8
  <1>13. m - n \in 0 .. Size
    BY <1>2, <1>5
  <1>14. CASE o = in
    <2>1. in' = 0 /\ out' = 0 /\ n = m
      BY <1>9, <1>12, <1>14
    <2>2. 0 \in 0 .. Uints - 1 /\ 0 - 0 = 0
      BY RingSize
    <2>3. B!fifo_buf_len' = 0
      <3>1. 0 % Uints = 0
        BY <2>2, RingRests
      <3> QED BY <2>1, <2>2, <3>1 DEF B!fifo_buf_len
    <2>4. Contents' = << >>
      BY <2>3 DEF Contents
    <2>5. SubSeq(Contents, n + 1, m) = << >>
      <3>1. Held(buffer, Place(p, n), m - n) = << >>
        BY <2>1, <1>2 DEF Held
      <3> QED BY <3>1, <1>10
    <2>6. RingInv'
      BY <2>1, <2>2, <2>3, <1>2, <1>9 DEF RingInv
    <2> QED BY <2>4, <2>5, <2>6, <1>1, <1>4, <1>9, <1>10, <1>11
  <1>15. CASE o # in
    <2>1. in' = in /\ out' = o /\ n # m
      BY <1>9, <1>12, <1>15
    <2>2. n < Size
      BY <2>1, <1>2, <1>5
    <2>3. B!fifo_buf_len' = m - n
      BY <2>1, <1>12 DEF B!fifo_buf_len
    <2>4. RingInv'
      BY <2>1, <2>3, <1>2, <1>9, <1>12, <1>13 DEF RingInv
    <2>5. Contents' = Held(buffer, Place(p, n), m - n)
      <3>1. [i \in 1 .. m - n |-> buffer[B!Offset(o + i - 1)]] = Held(buffer, o % Size, m - n)
        <4>1. PICK d \in 0 .. Size : d = m - n
          BY <1>13
        <4>2. o \in 0 .. Uints - 1
          BY <1>12
        <4>3. \A b : [i \in 1 .. d |-> b[B!Offset(o + i - 1)]] = Held(b, o % Size, d)
          BY <4>2, ContentsOf
        <4> QED BY <4>1, <4>3
      <3>2. Contents' = [i \in 1 .. m - n |-> buffer[B!Offset(o + i - 1)]]
        BY <2>1, <2>3, <1>9 DEF Contents, B!Offset
      <3> QED BY <3>1, <3>2, <2>2, <1>12
    <2> QED BY <2>4, <2>5, <1>1, <1>4, <1>9, <1>10, <1>11
  <1> QED BY <1>14, <1>15

\* A queue of bytes, of what the ring holds.
LEMMA QueueSteps ==
    /\ B!Queue!Init <=> Contents = << >> /\ result = << >>
    /\ B!Queue!Reset <=> Contents' = << >> /\ result' = << >>
    /\ B!Queue!Put <=> \E bytes \in B!BoundedSeq(Byte, MaxLen) :
                          LET n == Min({Len(bytes), Size - Len(Contents)})
                          IN  Contents' = Contents \o SubSeq(bytes, 1, n) /\ result' = SubSeq(bytes, 1, n)
    /\ B!Queue!Get <=> \E k \in 0 .. MaxLen :
                          LET n == Min({k, Len(Contents)})
                          IN  /\ result' = SubSeq(Contents, 1, n)
                              /\ Contents' = SubSeq(Contents, n + 1, Len(Contents))
  <1>1. \A x : B!Queue!Min(x) = Min(x)
    BY DEF B!Queue!Min, Min
  <1>2. B!BoundedSeq(Byte, MaxLen) = B!Queue!BoundedSeq(Byte, MaxLen)
    BY DEF B!BoundedSeq, B!Queue!BoundedSeq, B!SeqOf, B!Queue!SeqOf
  <1>3. B!Queue!Init <=> Contents = << >> /\ result = << >>
    BY DEF B!Queue!Init, Contents
  <1>4. B!Queue!Reset <=> Contents' = << >> /\ result' = << >>
    BY DEF B!Queue!Reset, Contents
  <1>5. B!Queue!Put <=> \E bytes \in B!BoundedSeq(Byte, MaxLen) :
                           LET n == Min({Len(bytes), Size - Len(Contents)})
                           IN  Contents' = Contents \o SubSeq(bytes, 1, n) /\ result' = SubSeq(bytes, 1, n)
    BY <1>1, <1>2 DEF B!Queue!Put, Contents
  <1>6. B!Queue!Get <=> \E k \in 0 .. MaxLen :
                           LET n == Min({k, Len(Contents)})
                           IN  /\ result' = SubSeq(Contents, 1, n)
                               /\ Contents' = SubSeq(Contents, n + 1, Len(Contents))
    BY <1>1 DEF B!Queue!Get, Contents
  <1> QED BY <1>3, <1>4, <1>5, <1>6

\* fifo_buf_alloc and fifo_buf_reset: an empty ring.
LEMMA EmptyRing ==
    /\ B!Init => RingInv /\ B!Queue!Init
    /\ RingInv /\ B!fifo_buf_reset => RingInv' /\ B!Queue!Reset
  <1>1. 0 \in 0 .. Uints - 1 /\ 0 - 0 = 0 /\ 0 <= Size
    BY RingSize
  <1>2. 0 % Uints = 0
    BY <1>1, RingRests
  <1>3. ASSUME B!Init PROVE RingInv /\ B!Queue!Init
    <2>1. in = 0 /\ out = 0 /\ result = << >> /\ buffer \in [0 .. Size - 1 -> Byte]
      BY <1>3 DEF B!Init
    <2>2. B!fifo_buf_len = 0
      BY <2>1, <1>1, <1>2 DEF B!fifo_buf_len
    <2>3. Contents = << >>
      BY <2>2 DEF Contents
    <2> QED BY <2>1, <2>2, <2>3, <1>1, QueueSteps DEF RingInv
  <1>4. ASSUME RingInv, B!fifo_buf_reset PROVE RingInv' /\ B!Queue!Reset
    <2>1. in' = 0 /\ out' = 0 /\ result' = << >> /\ buffer' \in [0 .. Size - 1 -> Byte]
      BY <1>4 DEF B!fifo_buf_reset, RingInv
    <2>2. B!fifo_buf_len' = 0
      BY <2>1, <1>1, <1>2 DEF B!fifo_buf_len
    <2>3. Contents' = << >>
      BY <2>2 DEF Contents
    <2> QED BY <2>1, <2>2, <2>3, <1>1, QueueSteps DEF RingInv
  <1> QED BY <1>3, <1>4

LEMMA NextRing ==
    ASSUME RingInv, [B!Next]_bufVars
    PROVE  RingInv' /\ [B!Queue!Put \/ B!Queue!Get \/ B!Queue!Reset]_<<Contents, result>>
  <1>1. CASE \E bytes \in B!BoundedSeq(Byte, MaxLen) : B!fifo_buf_put(bytes)
    <2>1. PICK bytes \in B!BoundedSeq(Byte, MaxLen) : B!fifo_buf_put(bytes)
      BY <1>1
    <2>2. MaxLen \in Nat
      BY RingSize, IpcAssumption DEF B!FifoBufConstants
    <2>3. bytes \in Seq(Byte)
      BY <2>2 DEF B!BoundedSeq, B!SeqOf
    <2>4. /\ RingInv'
          /\ LET n == Min({Len(bytes), Size - Len(Contents)})
             IN  Contents' = Contents \o SubSeq(bytes, 1, n) /\ result' = SubSeq(bytes, 1, n)
      BY <2>1, <2>3, PutRing
    <2> QED BY <2>4, QueueSteps
  <1>2. CASE \E k \in 0 .. MaxLen : B!fifo_buf_get(k)
    <2>1. PICK k \in 0 .. MaxLen : B!fifo_buf_get(k)
      BY <1>2
    <2>2. k \in Nat
      BY RingSize, IpcAssumption DEF B!FifoBufConstants
    <2>3. /\ RingInv'
          /\ LET n == Min({k, Len(Contents)})
             IN  /\ result' = SubSeq(Contents, 1, n)
                 /\ Contents' = SubSeq(Contents, n + 1, Len(Contents))
      BY <2>1, <2>2, GetRing
    <2> QED BY <2>3, QueueSteps
  <1>3. CASE B!fifo_buf_reset
    BY <1>3, EmptyRing
  <1>4. CASE UNCHANGED bufVars
    <2>1. buffer' = buffer /\ in' = in /\ out' = out /\ result' = result
      BY <1>4 DEF bufVars
    <2>2. B!fifo_buf_len' = B!fifo_buf_len
      BY <2>1 DEF B!fifo_buf_len
    <2>3. RingInv' /\ Contents' = Contents
      BY <2>1, <2>2 DEF RingInv, Contents, B!Offset
    <2> QED BY <2>1, <2>3
  <1> QED BY <1>1, <1>2, <1>3, <1>4 DEF B!Next

\* fifo_buf_put and fifo_buf_get: the ring is a bounded queue of bytes, for any
\* size and any width of the indices that the size divides, the indices running
\* over or not, and the copies cut in two by the end of the buffer or not.
THEOREM RingIsAQueue == B!Spec => BufferIsAQueue
  <1>1. B!Init => RingInv /\ B!Queue!Init
    BY EmptyRing
  <1>2. RingInv /\ [B!Next]_bufVars => RingInv'
    BY NextRing
  <1>3. RingInv /\ [B!Next]_bufVars => [B!Queue!Put \/ B!Queue!Get \/ B!Queue!Reset]_<<Contents, result>>
    BY NextRing
  <1>4. B!Init /\ [][B!Next]_bufVars => []RingInv
    BY <1>1, <1>2, PTL
  <1>5. []RingInv /\ [][B!Next]_bufVars => [][B!Queue!Put \/ B!Queue!Get \/ B!Queue!Reset]_<<Contents, result>>
    BY <1>3, PTL
  <1>6. B!Init /\ [][B!Next]_bufVars
        => B!Queue!Init /\ [][B!Queue!Put \/ B!Queue!Get \/ B!Queue!Reset]_<<Contents, result>>
    BY <1>1, <1>4, <1>5, PTL
  <1> QED BY <1>6, PTL DEF B!Spec, B!vars, bufVars, BufferIsAQueue, B!IsAQueue, B!Queue!Spec, Contents

-----------------------------------------------------------------------------
(* The threads of a process.                                               *)

ThreadType ==
    /\ state \in [P!Thread -> {"NEW", "RUN", "WAITING", "HANGING", "ZOMBIE", "FREED"}]
    /\ parent \in [P!Thread -> 0 .. N]
    /\ flags \in [P!Thread -> SUBSET P!Flag]
    /\ tpc \in [P!Thread -> P!Joining \cup P!Ending \cup {"user", "cancel", "detach", "release"}]
    /\ other \in [P!Thread -> 0 .. N]
    /\ count \in Int /\ closed \in Int

\* Where a thread is decides its state, and whether it has another one in mind.
ThreadPlaces ==
    \A t \in P!Thread :
        /\ state[t] = "NEW" => tpc[t] = "user"
        /\ tpc[t] = "dead" <=> state[t] \in {"HANGING", "ZOMBIE", "FREED"}
        /\ tpc[t] = "asleep" <=> state[t] = "WAITING"
        /\ tpc[t] \in P!Joining => other[t] \in P!Thread
        /\ tpc[t] \in {"unblock", "detach", "release"} /\ ~ panicked => other[t] \in P!Thread

\* The thread that is joined is marked, and has the joiner as its parent until
\* it ends.
JoinersMark ==
    \A w \in P!Thread :
        tpc[w] \in P!Joining =>
            /\ state[other[w]] # "NEW" /\ "JOINED" \in flags[other[w]]
            /\ parent[other[w]] = w \/ tpc[other[w]] \in P!Ending

\* Whoever is going to sleep is remembered already, unless its thread unblocks
\* it too early, which is a panic.
SleepersRemembered ==
    \A w \in P!Thread :
        tpc[w] \in {"block", "asleep"} /\ w \notin missed =>
            \/ P!Alive(other[w]) /\ parent[other[w]] = w
            \/ P!Unblocks(other[w], w)
            \/ panicked /\ tpc[w] = "block"

ThreadInv == ThreadType /\ ThreadPlaces /\ P!CountExact /\ JoinersMark /\ SleepersRemembered

\* The threads are finitely many, none of them is Outside.
LEMMA ThreadFacts ==
    /\ N \in Nat \ {0} /\ P!Thread = 1 .. N /\ IsFiniteSet(P!Thread)
    /\ P!Main \in P!Thread /\ P!Outside \notin P!Thread /\ P!NoThread \notin P!Thread
    /\ P!Outside = 0 /\ P!NoThread = 0 /\ P!Thread \subseteq 0 .. N /\ 0 \in 0 .. N
  <1>1. N \in Nat \ {0}
    BY IpcAssumption DEF P!PThreadConstants
  <1>2. IsFiniteSet(1 .. N)
    BY <1>1, FS_Interval
  <1> QED BY <1>1, <1>2 DEF P!Thread, P!Main, P!Outside, P!NoThread

\* What Alive and Unblocks are after a step.
LEMMA AfterStep ==
    /\ \A t : P!Alive(t)' <=> (state'[t] \in {"RUN", "WAITING"} /\ tpc'[t] \notin P!Ending)
    /\ \A t, w : P!Unblocks(t, w)' <=> (tpc'[t] = "unblock" /\ other'[t] = w)
  BY DEF P!Alive, P!Unblocks, P!Ending

\* After a step, the thread t keeps w in mind.
RemembersNext(t, w) ==
    \/ state'[t] \in {"RUN", "WAITING"} /\ tpc'[t] \notin P!Ending /\ parent'[t] = w
    \/ tpc'[t] = "unblock" /\ other'[t] = w
    \/ panicked' /\ tpc'[w] = "block"

\* What has to be shown of a step for those who are going to sleep.
LEMMA RememberedAfter ==
    ASSUME \A w \in P!Thread :
               (tpc'[w] \in {"block", "asleep"} /\ w \notin missed') => RemembersNext(other'[w], w)
    PROVE  SleepersRemembered'
  BY DEF RemembersNext, SleepersRemembered, P!Alive, P!Unblocks, P!Ending

\* The instance counts as the library does.
LEMMA SameCardinality == ASSUME NEW S PROVE P!Cardinality(S) = Cardinality(S)
  BY DEF P!Cardinality, Cardinality

\* CountExact before and after a step.
LEMMA CountMeans ==
    /\ P!CountExact <=> count = Cardinality({t \in P!Thread : P!Alive(t)}) + closed
    /\ P!CountExact' <=> count' = Cardinality({t \in P!Thread : P!Alive(t)'}) + closed'
  <1>1. P!CountExact <=> count = P!Cardinality({t \in P!Thread : P!Alive(t)}) + closed
    BY DEF P!CountExact
  <1>2. P!CountExact' <=> count' = P!Cardinality({t \in P!Thread : P!Alive(t)'}) + closed'
    BY DEF P!CountExact
  <1> QED BY <1>1, <1>2, SameCardinality

\* The count if nobody begins or ends,
LEMMA CountKept ==
    ASSUME P!CountExact, count' = count, closed' = closed,
           \A t \in P!Thread : P!Alive(t)' <=> P!Alive(t)
    PROVE  P!CountExact'
  <1>1. {t \in P!Thread : P!Alive(t)'} = {t \in P!Thread : P!Alive(t)}
    OBVIOUS
  <1>2. P!CountExact' <=> count' = Cardinality({t \in P!Thread : P!Alive(t)'}) + closed'
    BY CountMeans
  <1> QED BY <1>1, <1>2, CountMeans

\* if one begins,
LEMMA CountMore ==
    ASSUME P!CountExact, count \in Int, closed \in Int, count' = count + 1, closed' = closed,
           NEW u \in P!Thread, ~ P!Alive(u), P!Alive(u)',
           \A t \in P!Thread : t # u => (P!Alive(t)' <=> P!Alive(t))
    PROVE  P!CountExact'
  <1> DEFINE A == {t \in P!Thread : P!Alive(t)}
             B1 == {t \in P!Thread : P!Alive(t)'}
  <1>1. B1 = A \cup {u}
    OBVIOUS
  <1>2. P!CountExact' <=> count' = Cardinality(B1) + closed'
    BY CountMeans
  <1>3. count = Cardinality(A) + closed
    BY CountMeans
  <1>4. IsFiniteSet(A) /\ u \notin A
    BY ThreadFacts, FS_Subset
  <1> HIDE DEF A, B1
  <1>5. Cardinality(A) \in Nat /\ Cardinality(A \cup {u}) = Cardinality(A) + 1
    BY <1>4, FS_AddElement, FS_CardinalityType
  <1> QED BY <1>1, <1>2, <1>3, <1>5

\* and if one ends, taken off the count or closed.
LEMMA CountLess ==
    ASSUME P!CountExact, count \in Int, closed \in Int,
           \/ count' = count - 1 /\ closed' = closed
           \/ count' = count /\ closed' = closed + 1,
           NEW u \in P!Thread, P!Alive(u), ~ P!Alive(u)',
           \A t \in P!Thread : t # u => (P!Alive(t)' <=> P!Alive(t))
    PROVE  P!CountExact'
  <1> DEFINE A == {t \in P!Thread : P!Alive(t)}
             B1 == {t \in P!Thread : P!Alive(t)'}
  <1>1. B1 = A \ {u}
    OBVIOUS
  <1>2. P!CountExact' <=> count' = Cardinality(B1) + closed'
    BY CountMeans
  <1>3. count = Cardinality(A) + closed
    BY CountMeans
  <1>4. IsFiniteSet(A) /\ u \in A
    BY ThreadFacts, FS_Subset
  <1> HIDE DEF A, B1
  <1>5. Cardinality(A) \in Nat /\ Cardinality(A \ {u}) = Cardinality(A) - 1
    BY <1>4, FS_RemoveElement, FS_CardinalityType
  <1> QED BY <1>1, <1>2, <1>3, <1>5

\* pthread_desc_init.
LEMMA ThreadInit == P!Init => ThreadInv
  <1> SUFFICES ASSUME P!Init PROVE ThreadInv
    OBVIOUS
  <1> USE ThreadFacts DEF P!Init, P!Joining, P!Ending
  <1>1. ThreadType
    BY DEF ThreadType
  <1>2. ThreadPlaces /\ JoinersMark /\ SleepersRemembered
    BY DEF ThreadPlaces, JoinersMark, SleepersRemembered
  <1>3. P!CountExact
    <2>1. {t \in P!Thread : P!Alive(t)} = {P!Main}
      BY DEF P!Alive
    <2>2. Cardinality({t \in P!Thread : P!Alive(t)}) = 1
      BY <2>1, FS_Singleton
    <2>3. count = 1 /\ closed = 0
      OBVIOUS
    <2> QED BY ONLY <2>2, <2>3, CountMeans
  <1> QED BY <1>1, <1>2, <1>3 DEF ThreadInv

\* A step of a thread that neither joins nor ends.
LEMMA UserStepThread ==
    ASSUME ThreadInv, NEW t \in P!Thread,
           NEW at \in {"user", "cancel", "detach", "release"}, NEW x \in 0 .. N,
           state[t] = "RUN", tpc[t] \in {"user", "cancel", "detach", "release"},
           at \in {"detach", "release"} => x \in P!Thread,
           tpc' = [tpc EXCEPT ![t] = at], other' = [other EXCEPT ![t] = x],
           flags' \in [P!Thread -> SUBSET P!Flag],
           \A u \in P!Thread : "JOINED" \in flags[u] => "JOINED" \in flags'[u],
           UNCHANGED <<state, parent, count, closed, missed, panicked>>
    PROVE  ThreadInv'
  <1> USE DEF P!Joining, P!Ending
  <1>1. /\ \A u \in P!Thread : tpc'[u] = IF u = t THEN at ELSE tpc[u]
        /\ \A u \in P!Thread : other'[u] = IF u = t THEN x ELSE other[u]
    BY DEF ThreadInv, ThreadType
  <1>2. ThreadType'
    BY DEF ThreadInv, ThreadType
  <1>3. ThreadPlaces'
    BY <1>1 DEF ThreadInv, ThreadPlaces
  <1>4. \A u \in P!Thread : P!Alive(u)' <=> P!Alive(u)
    BY <1>1, AfterStep DEF P!Alive
  <1>5. P!CountExact'
    BY <1>4, CountKept DEF ThreadInv
  <1>6. JoinersMark'
    <2> SUFFICES ASSUME NEW w \in P!Thread, tpc'[w] \in P!Joining
                 PROVE  /\ state'[other'[w]] # "NEW" /\ "JOINED" \in flags'[other'[w]]
                        /\ parent'[other'[w]] = w \/ tpc'[other'[w]] \in P!Ending
      BY DEF JoinersMark
    <2>1. tpc[w] \in P!Joining /\ other'[w] = other[w] /\ other[w] \in P!Thread
      BY <1>1 DEF ThreadInv, ThreadPlaces
    <2> QED BY <2>1, <1>1 DEF ThreadInv, JoinersMark
  <1>7. SleepersRemembered'
    <2> SUFFICES ASSUME NEW w \in P!Thread, tpc'[w] \in {"block", "asleep"}, w \notin missed'
                 PROVE  \/ P!Alive(other[w])' /\ parent[other[w]] = w
                        \/ P!Unblocks(other[w], w)'
                        \/ panicked' /\ tpc'[w] = "block"
      BY <1>1, AfterStep DEF SleepersRemembered, P!Alive, P!Unblocks
    <2>1. tpc[w] = tpc'[w] /\ other[w] \in P!Thread
      BY <1>1 DEF ThreadInv, ThreadPlaces
    <2> QED BY <2>1, <1>1, <1>4, AfterStep DEF ThreadInv, SleepersRemembered, P!Unblocks
  <1> QED BY <1>2, <1>3, <1>5, <1>6, <1>7 DEF ThreadInv

\* pthread_start: nobody has a thread in mind that is not there yet.
LEMMA StartThread ==
    ASSUME ThreadInv, NEW p \in P!Thread, NEW t \in P!Thread, NEW detached \in BOOLEAN,
           P!pthread_start(p, t, detached)
    PROVE  ThreadInv'
  <1> USE DEF P!Joining, P!Ending
  <1>1. /\ state[t] = "NEW" /\ count' = count + 1
        /\ state' = [state EXCEPT ![t] = "RUN"] /\ parent' = [parent EXCEPT ![t] = p]
        /\ flags' = [flags EXCEPT ![t] = IF detached THEN {"DETACH"} ELSE {}]
        /\ UNCHANGED <<tpc, other, closed, missed, panicked>>
    BY DEF P!pthread_start
  <1>2. /\ \A u \in P!Thread : state'[u] = IF u = t THEN "RUN" ELSE state[u]
        /\ \A u \in P!Thread : u # t => parent'[u] = parent[u] /\ flags'[u] = flags[u]
    BY <1>1 DEF ThreadInv, ThreadType
  <1>3. tpc[t] = "user"
    BY <1>1 DEF ThreadInv, ThreadPlaces
  <1>4. ThreadType'
    BY <1>1, ThreadFacts DEF ThreadInv, ThreadType, P!Flag
  <1>5. ThreadPlaces'
    BY <1>1, <1>2, <1>3 DEF ThreadInv, ThreadPlaces
  <1>6. /\ ~ P!Alive(t) /\ P!Alive(t)'
        /\ \A u \in P!Thread : u # t => (P!Alive(u)' <=> P!Alive(u))
    BY <1>1, <1>2, <1>3, AfterStep DEF P!Alive
  <1>7. P!CountExact'
    BY <1>1, <1>6, CountMore DEF ThreadInv, ThreadType
  <1>8. \A w \in P!Thread : tpc[w] \in P!Joining => (other[w] \in P!Thread /\ other[w] # t)
    BY <1>1 DEF ThreadInv, ThreadPlaces, JoinersMark
  <1>9. JoinersMark'
    BY <1>1, <1>2, <1>8 DEF ThreadInv, JoinersMark
  <1>10. SleepersRemembered'
    <2> SUFFICES ASSUME NEW w \in P!Thread, tpc[w] \in {"block", "asleep"}, w \notin missed
                 PROVE  \/ P!Alive(other[w])' /\ parent'[other[w]] = w
                        \/ P!Unblocks(other[w], w)'
                        \/ panicked /\ tpc[w] = "block"
      BY <1>1, AfterStep DEF SleepersRemembered, P!Alive, P!Unblocks
    <2>1. other[w] \in P!Thread /\ other[w] # t
      BY <1>8
    <2> QED BY <2>1, <1>1, <1>2, <1>6, AfterStep DEF ThreadInv, SleepersRemembered, P!Unblocks
  <1> QED BY <1>4, <1>5, <1>7, <1>9, <1>10 DEF ThreadInv

\* A turn of pthread_join: if the caller is going to sleep, the thread lives and
\* has it as its parent or is about to wake it, or the caller is counted among
\* those who came too late.
LEMMA JoinTurnThread ==
    ASSUME ThreadInv, ~ panicked, NEW w \in P!Thread, NEW t \in P!Thread, NEW joining,
           state[w] = "RUN", tpc[w] \in {"user", "look"}, state[t] # "NEW",
           flags' \in [P!Thread -> SUBSET P!Flag], "JOINED" \in flags'[t],
           \A u \in P!Thread : "JOINED" \in flags[u] => "JOINED" \in flags'[u],
           parent' \in [P!Thread -> 0 .. N], parent'[t] = w \/ tpc[t] \in P!Ending,
           \A u \in P!Thread : u # t => parent'[u] = parent[u],
           \/ parent' = parent
           \/ \A v \in P!Thread : tpc[v] \in P!Joining => other[v] # t,
           P!JoinTurn(w, t, joining), UNCHANGED <<count, closed, panicked>>
    PROVE  ThreadInv'
  <1> USE DEF P!Joining, P!Ending
  <1>1. PICK at \in {"user", "block"}, x \in 0 .. N, f \in BOOLEAN :
           /\ tpc' = [tpc EXCEPT ![w] = at] /\ other' = [other EXCEPT ![w] = x]
           /\ at = "block" => x = t
           /\ state' = IF f THEN [state EXCEPT ![t] = "FREED"] ELSE state
           /\ f => state[t] = "HANGING"
           /\ \A v \in P!Thread : v # w => (v \in missed' <=> v \in missed)
           /\ (at = "block" /\ w \notin missed') => 
                 /\ state[t] # "HANGING" /\ (tpc[t] \notin P!Ending \/ P!Unblocks(t, w))
    BY ThreadFacts DEF P!JoinTurn
  <1>2. /\ \A u \in P!Thread : tpc'[u] = IF u = w THEN at ELSE tpc[u]
        /\ \A u \in P!Thread : other'[u] = IF u = w THEN x ELSE other[u]
        /\ \A u \in P!Thread : state'[u] = IF f /\ u = t THEN "FREED" ELSE state[u]
    BY <1>1 DEF ThreadInv, ThreadType
  <1>3. f => (t # w /\ tpc[t] = "dead")
    BY <1>1 DEF ThreadInv, ThreadPlaces
  <1>4. ThreadType'
    BY <1>1 DEF ThreadInv, ThreadType
  <1>5. ThreadPlaces'
    BY <1>1, <1>2, <1>3 DEF ThreadInv, ThreadPlaces
  <1>6. \A u \in P!Thread : P!Alive(u)' <=> P!Alive(u)
    BY <1>1, <1>2, <1>3, AfterStep DEF P!Alive
  <1>7. P!CountExact'
    BY <1>6, CountKept DEF ThreadInv
  <1>8. ASSUME NEW v \in P!Thread, v # w, tpc'[v] \in P!Joining
        PROVE  /\ tpc[v] = tpc'[v] /\ other'[v] = other[v] /\ other[v] \in P!Thread
               /\ parent'[other[v]] = parent[other[v]]
    BY <1>2, <1>8 DEF ThreadInv, ThreadPlaces
  <1>9. JoinersMark'
    <2> SUFFICES ASSUME NEW v \in P!Thread, tpc'[v] \in P!Joining
                 PROVE  /\ state'[other'[v]] # "NEW" /\ "JOINED" \in flags'[other'[v]]
                        /\ parent'[other'[v]] = v \/ tpc'[other'[v]] \in P!Ending
      BY DEF JoinersMark
    <2>1. CASE v = w
      <3>1. at = "block" /\ other'[v] = t
        BY <2>1, <1>1, <1>2
      <3> QED BY <3>1, <2>1, <1>1, <1>2
    <2>2. CASE v # w
      <3>1. /\ tpc[v] \in P!Joining /\ other'[v] = other[v] /\ other[v] \in P!Thread
            /\ parent'[other[v]] = parent[other[v]]
        BY <2>2, <1>8
      <3>2. /\ state[other[v]] # "NEW" /\ "JOINED" \in flags[other[v]]
            /\ parent[other[v]] = v \/ tpc[other[v]] \in P!Ending
        BY <3>1 DEF ThreadInv, JoinersMark
      <3> QED BY <3>1, <3>2, <1>2
    <2> QED BY <2>1, <2>2
  <1>10. SleepersRemembered'
    <2> SUFFICES ASSUME NEW v \in P!Thread, tpc'[v] \in {"block", "asleep"}, v \notin missed'
                 PROVE  RemembersNext(other'[v], v)
      BY RememberedAfter
    <2>1. CASE v = w
      <3>1. /\ at = "block" /\ other'[v] = t /\ state[t] # "HANGING"
            /\ tpc[t] \notin P!Ending \/ P!Unblocks(t, w)
        BY <2>1, <1>1, <1>2
      <3>2. CASE tpc[t] \notin P!Ending
        <4>1. P!Alive(t)
          BY <3>2 DEF P!Alive, ThreadInv, ThreadType, ThreadPlaces
        <4> QED BY <4>1, <3>1, <3>2, <2>1, <1>6, AfterStep DEF RemembersNext
      <3>3. CASE P!Unblocks(t, w)
        <4>1. tpc[t] = "unblock" /\ other[t] = w /\ t # w
          BY <3>3 DEF P!Unblocks
        <4> QED BY <4>1, <3>1, <2>1, <1>2 DEF RemembersNext
      <3> QED BY <3>1, <3>2, <3>3
    <2>2. CASE v # w
      <3>1. /\ tpc[v] = tpc'[v] /\ other'[v] = other[v] /\ other[v] \in P!Thread
            /\ parent'[other[v]] = parent[other[v]] /\ v \notin missed
        BY <2>2, <1>1, <1>8
      <3>2. CASE P!Alive(other[v]) /\ parent[other[v]] = v
        BY <3>1, <3>2, <1>6, AfterStep DEF RemembersNext
      <3>3. CASE P!Unblocks(other[v], v)
        <4>1. tpc[other[v]] = "unblock" /\ other[v] # w /\ other[other[v]] = v
          BY <3>3 DEF P!Unblocks
        <4> QED BY <3>1, <4>1, <1>2 DEF RemembersNext
      <3> QED BY <3>1, <3>2, <3>3 DEF ThreadInv, SleepersRemembered
    <2> QED BY <2>1, <2>2
  <1> QED BY <1>4, <1>5, <1>7, <1>9, <1>10 DEF ThreadInv

\* pthread_join and its later turns.
LEMMA JoinThread ==
    ASSUME ThreadInv, ~ panicked, NEW w \in P!Thread,
           (\E t \in P!Thread : P!pthread_join(w, t)) \/ P!JoinAgain(w)
    PROVE  ThreadInv'
  <1> USE DEF P!Joining, P!Ending
  <1>1. CASE \E t \in P!Thread : P!pthread_join(w, t)
    <2>1. PICK t \in P!Thread : P!pthread_join(w, t)
      BY <1>1
    <2>2. /\ state[w] = "RUN" /\ tpc[w] = "user" /\ state[t] # "NEW" /\ "JOINED" \notin flags[t]
          /\ parent' = [parent EXCEPT ![t] = w] /\ P!JoinTurn(w, t, TRUE)
          /\ UNCHANGED <<count, closed, panicked>>
      BY <2>1 DEF P!pthread_join, P!Runs, P!Exists
    <2>3. /\ flags' \in [P!Thread -> SUBSET P!Flag] /\ "JOINED" \in flags'[t]
          /\ \A u \in P!Thread : "JOINED" \in flags[u] => "JOINED" \in flags'[u]
      <3>1. flags' = [u \in P!Thread |-> flags[u] \cup (IF u = t THEN {"JOINED"} ELSE {})
                                           \cup (IF u = w THEN {"JOINING"} ELSE {})]
        BY <2>1 DEF P!pthread_join
      <3> QED BY <3>1 DEF ThreadInv, ThreadType, P!Flag
    <2>4. /\ parent' \in [P!Thread -> 0 .. N] /\ parent'[t] = w
          /\ \A u \in P!Thread : u # t => parent'[u] = parent[u]
      BY <2>2, ThreadFacts DEF ThreadInv, ThreadType
    <2>5. \A v \in P!Thread : tpc[v] \in P!Joining => other[v] # t
      BY <2>2 DEF ThreadInv, JoinersMark
    <2> HIDE DEF P!Joining, P!Ending
    <2> QED BY <2>2, <2>3, <2>4, <2>5, JoinTurnThread
  <1>2. CASE P!JoinAgain(w)
    <2> DEFINE t == other[w]
    <2>1. /\ tpc[w] = "look" /\ P!JoinTurn(w, t, "JOINING" \in flags[w])
          /\ UNCHANGED <<parent, flags, count, closed, panicked>>
      BY <1>2 DEF P!JoinAgain
    <2>2. state[w] = "RUN" /\ t \in P!Thread
      BY <2>1 DEF ThreadInv, ThreadType, ThreadPlaces
    <2>3. state[t] # "NEW" /\ "JOINED" \in flags[t] /\ (parent[t] = w \/ tpc[t] \in P!Ending)
      BY <2>1 DEF ThreadInv, JoinersMark
    <2>4. flags \in [P!Thread -> SUBSET P!Flag] /\ parent \in [P!Thread -> 0 .. N]
      BY DEF ThreadInv, ThreadType
    <2> HIDE DEF t, P!Joining, P!Ending
    <2> QED BY <2>1, <2>2, <2>3, <2>4, JoinTurnThread
  <1> QED BY <1>1, <1>2

\* The joiner goes to sleep.
LEMMA JoinBlockThread ==
    ASSUME ThreadInv, ~ panicked, NEW w \in P!Thread, P!JoinBlock(w) PROVE ThreadInv'
  <1> USE DEF P!Joining, P!Ending
  <1>1. /\ tpc[w] = "block" /\ tpc' = [tpc EXCEPT ![w] = "asleep"]
        /\ state' = [state EXCEPT ![w] = "WAITING"]
        /\ UNCHANGED <<parent, flags, other, count, closed, missed, panicked>>
    BY DEF P!JoinBlock
  <1>2. state[w] = "RUN"
    BY <1>1 DEF ThreadInv, ThreadType, ThreadPlaces
  <1>3. /\ \A u \in P!Thread : tpc'[u] = IF u = w THEN "asleep" ELSE tpc[u]
        /\ \A u \in P!Thread : state'[u] = IF u = w THEN "WAITING" ELSE state[u]
    BY <1>1 DEF ThreadInv, ThreadType
  <1>4. ThreadType'
    BY <1>1 DEF ThreadInv, ThreadType
  <1>5. ThreadPlaces'
    BY <1>1, <1>3 DEF ThreadInv, ThreadPlaces
  <1>6. \A u \in P!Thread : P!Alive(u)' <=> P!Alive(u)
    BY <1>1, <1>2, <1>3, AfterStep DEF P!Alive
  <1>7. P!CountExact'
    BY <1>1, <1>6, CountKept DEF ThreadInv
  <1>8. \A v \in P!Thread : tpc'[v] \in P!Joining => (tpc[v] \in P!Joining /\ other[v] \in P!Thread)
    BY <1>1, <1>3 DEF ThreadInv, ThreadPlaces
  <1>9. JoinersMark'
    BY <1>1, <1>3, <1>8 DEF ThreadInv, JoinersMark
  <1>10. SleepersRemembered'
    <2> SUFFICES ASSUME NEW v \in P!Thread, tpc'[v] \in {"block", "asleep"}, v \notin missed'
                 PROVE  RemembersNext(other'[v], v)
      BY RememberedAfter
    <2>1. /\ tpc[v] \in {"block", "asleep"} /\ v \notin missed /\ other[v] \in P!Thread
          /\ other'[v] = other[v]
      BY <1>1, <1>3, <1>8
    <2>2. CASE P!Alive(other[v]) /\ parent[other[v]] = v
      BY <1>1, <1>6, <2>1, <2>2, AfterStep DEF RemembersNext
    <2>3. CASE P!Unblocks(other[v], v)
      BY <1>1, <1>3, <2>1, <2>3 DEF RemembersNext, P!Unblocks
    <2> QED BY <2>1, <2>2, <2>3 DEF ThreadInv, SleepersRemembered
  <1> QED BY <1>4, <1>5, <1>7, <1>9, <1>10 DEF ThreadInv

\* A joiner w is woken: by a trigger, or by a thread t that ends or detaches.
LEMMA WakeThread ==
    ASSUME ThreadInv, ~ panicked, NEW w \in P!Thread, state[w] = "WAITING",
           state' = [state EXCEPT ![w] = "RUN"],
           \/ tpc' = [tpc EXCEPT ![w] = "look"] /\ other' = other
           \/ \E t \in P!Thread, next \in {"HANGING", "user"} :
                 /\ tpc[t] = (IF next = "HANGING" THEN "unblock" ELSE "release")
                 /\ other[t] = w
                 /\ tpc' = [tpc EXCEPT ![w] = "look", ![t] = next]
                 /\ other' = [other EXCEPT ![t] = P!NoThread],
           flags' \in [P!Thread -> SUBSET P!Flag],
           \A u \in P!Thread : "JOINED" \in flags[u] => "JOINED" \in flags'[u],
           UNCHANGED <<parent, count, closed, missed, panicked>>
    PROVE  ThreadInv'
  <1> USE DEF P!Joining, P!Ending
  <1>1. tpc[w] = "asleep"
    BY DEF ThreadInv, ThreadPlaces
  <1>2. /\ \A u \in P!Thread : state'[u] = IF u = w THEN "RUN" ELSE state[u]
        /\ tpc'[w] = "look" /\ other'[w] = other[w]
        /\ \A u \in P!Thread : u # w =>
              \/ tpc'[u] = tpc[u] /\ other'[u] = other[u]
              \/ tpc[u] = "unblock" /\ other[u] = w /\ tpc'[u] = "HANGING"
              \/ tpc[u] = "release" /\ tpc'[u] = "user"
    <2>1. \A u \in P!Thread : state'[u] = IF u = w THEN "RUN" ELSE state[u]
      BY DEF ThreadInv, ThreadType
    <2>2. CASE tpc' = [tpc EXCEPT ![w] = "look"] /\ other' = other
      BY <2>1, <2>2 DEF ThreadInv, ThreadType
    <2>3. CASE \E t \in P!Thread, next \in {"HANGING", "user"} :
                 /\ tpc[t] = (IF next = "HANGING" THEN "unblock" ELSE "release")
                 /\ other[t] = w
                 /\ tpc' = [tpc EXCEPT ![w] = "look", ![t] = next]
                 /\ other' = [other EXCEPT ![t] = P!NoThread]
      <3>1. PICK t \in P!Thread, next \in {"HANGING", "user"} :
                 /\ tpc[t] = (IF next = "HANGING" THEN "unblock" ELSE "release")
                 /\ other[t] = w
                 /\ tpc' = [tpc EXCEPT ![w] = "look", ![t] = next]
                 /\ other' = [other EXCEPT ![t] = P!NoThread]
        BY <2>3
      <3>2. t # w
        BY <3>1, <1>1
      <3>3. /\ \A u \in P!Thread : tpc'[u] = IF u = t THEN next ELSE IF u = w THEN "look" ELSE tpc[u]
            /\ \A u \in P!Thread : u # t => other'[u] = other[u]
        BY <3>1 DEF ThreadInv, ThreadType
      <3>4. tpc'[w] = "look" /\ other'[w] = other[w] /\ tpc'[t] = next
        BY ONLY <3>1, <3>2, <3>3, w \in P!Thread
      <3>5. /\ tpc[t] = (IF next = "HANGING" THEN "unblock" ELSE "release")
            /\ other[t] = w /\ next \in {"HANGING", "user"}
        BY <3>1
      <3> QED BY ONLY <2>1, <3>2, <3>3, <3>4, <3>5
    <2> QED BY <2>2, <2>3
  <1>3. ThreadType'
    <2>1. \/ tpc' = [tpc EXCEPT ![w] = "look"]
          \/ \E t \in P!Thread, next \in {"HANGING", "user"} :
                tpc' = [tpc EXCEPT ![w] = "look", ![t] = next]
      OBVIOUS
    <2>2. other' = other \/ \E t \in P!Thread : other' = [other EXCEPT ![t] = P!NoThread]
      OBVIOUS
    <2>3. tpc' \in [P!Thread -> P!Joining \cup P!Ending \cup {"user", "cancel", "detach", "release"}]
      BY <2>1 DEF ThreadInv, ThreadType
    <2>4. other' \in [P!Thread -> 0 .. N]
      <3>1. P!NoThread \in 0 .. N /\ other \in [P!Thread -> 0 .. N]
        BY ThreadFacts DEF ThreadInv, ThreadType
      <3> QED BY ONLY <3>1, <2>2
    <2> QED BY <2>3, <2>4 DEF ThreadInv, ThreadType
  <1>4. ThreadPlaces'
    BY <1>1, <1>2 DEF ThreadInv, ThreadPlaces
  <1>5. \A u \in P!Thread : P!Alive(u)' <=> P!Alive(u)
    BY <1>1, <1>2, AfterStep DEF P!Alive
  <1>6. P!CountExact'
    BY <1>5, CountKept DEF ThreadInv
  <1>7. \A v \in P!Thread : tpc'[v] \in P!Joining =>
           (tpc[v] \in P!Joining /\ other[v] \in P!Thread /\ other'[v] = other[v])
    BY <1>1, <1>2 DEF ThreadInv, ThreadPlaces
  <1>8. \A u \in P!Thread : tpc[u] \in P!Ending => tpc'[u] \in P!Ending
    BY <1>1, <1>2
  <1>9. JoinersMark'
    <2> SUFFICES ASSUME NEW v \in P!Thread, tpc'[v] \in P!Joining
                 PROVE  /\ state'[other'[v]] # "NEW" /\ "JOINED" \in flags'[other'[v]]
                        /\ parent'[other'[v]] = v \/ tpc'[other'[v]] \in P!Ending
      BY DEF JoinersMark
    <2>1. tpc[v] \in P!Joining /\ other[v] \in P!Thread /\ other'[v] = other[v]
      BY <1>7
    <2> QED BY <2>1, <1>2, <1>8 DEF ThreadInv, JoinersMark
  <1>10. SleepersRemembered'
    <2> SUFFICES ASSUME NEW v \in P!Thread, tpc'[v] \in {"block", "asleep"}, v \notin missed'
                 PROVE  RemembersNext(other'[v], v)
      BY RememberedAfter
    <2>1. /\ tpc[v] \in {"block", "asleep"} /\ v \notin missed /\ other[v] \in P!Thread
          /\ other'[v] = other[v] /\ v # w
      BY <1>2, <1>7
    <2>2. CASE P!Alive(other[v]) /\ parent[other[v]] = v
      BY <1>5, <2>1, <2>2, AfterStep DEF RemembersNext
    <2>3. CASE P!Unblocks(other[v], v)
      BY <1>1, <1>2, <2>1, <2>3 DEF RemembersNext, P!Unblocks
    <2> QED BY <2>1, <2>2, <2>3 DEF ThreadInv, SleepersRemembered
  <1> QED BY <1>3, <1>4, <1>6, <1>9, <1>10 DEF ThreadInv

\* task_unblock of a thread that is not asleep: the kernel panics.
LEMMA PanicThread ==
    ASSUME ThreadInv, ~ panicked, NEW t \in P!Thread, tpc[t] \in {"unblock", "release"},
           state[other[t]] # "WAITING", other' = [other EXCEPT ![t] = P!NoThread],
           flags' \in [P!Thread -> SUBSET P!Flag],
           \A u \in P!Thread : "JOINED" \in flags[u] => "JOINED" \in flags'[u],
           panicked' = TRUE, UNCHANGED <<state, parent, tpc, count, closed, missed>>
    PROVE  ThreadInv'
  <1> USE DEF P!Joining, P!Ending
  <1>1. \A u \in P!Thread : u # t => other'[u] = other[u]
    BY DEF ThreadInv, ThreadType
  <1>2. ThreadType'
    BY ThreadFacts DEF ThreadInv, ThreadType
  <1>3. ThreadPlaces'
    BY <1>1 DEF ThreadInv, ThreadPlaces
  <1>4. \A u \in P!Thread : P!Alive(u)' <=> P!Alive(u)
    BY AfterStep DEF P!Alive
  <1>5. P!CountExact'
    BY <1>4, CountKept DEF ThreadInv
  <1>6. \A v \in P!Thread : tpc[v] \in P!Joining => (other'[v] = other[v] /\ other[v] \in P!Thread)
    BY <1>1 DEF ThreadInv, ThreadPlaces
  <1>7. JoinersMark'
    BY <1>6 DEF ThreadInv, JoinersMark
  <1>8. SleepersRemembered'
    <2> SUFFICES ASSUME NEW v \in P!Thread, tpc[v] = "asleep", v \notin missed
                 PROVE  RemembersNext(other'[v], v)
      BY RememberedAfter DEF RemembersNext
    <2>1. other[v] \in P!Thread /\ other'[v] = other[v] /\ state[v] = "WAITING"
      BY <1>6 DEF ThreadInv, ThreadPlaces
    <2>2. CASE P!Alive(other[v]) /\ parent[other[v]] = v
      BY <1>4, <2>1, <2>2, AfterStep DEF RemembersNext
    <2>3. CASE P!Unblocks(other[v], v)
      <3>1. other[v] # t
        BY <2>1, <2>3 DEF P!Unblocks
      <3> QED BY <1>1, <3>1, <2>1, <2>3 DEF RemembersNext, P!Unblocks
    <2> QED BY <2>1, <2>2, <2>3 DEF ThreadInv, SleepersRemembered
  <1> QED BY <1>2, <1>3, <1>5, <1>7, <1>8 DEF ThreadInv

\* The last step of an exit.
LEMMA ExitBlockThread ==
    ASSUME ThreadInv, ~ panicked, NEW t \in P!Thread, P!ExitBlock(t) PROVE ThreadInv'
  <1> USE DEF P!Joining, P!Ending
  <1>1. /\ tpc[t] \in {"HANGING", "ZOMBIE"} /\ tpc' = [tpc EXCEPT ![t] = "dead"]
        /\ state' = [state EXCEPT ![t] = tpc[t]]
        /\ UNCHANGED <<parent, flags, other, count, closed, missed, panicked>>
    BY DEF P!ExitBlock
  <1>2. /\ \A u \in P!Thread : tpc'[u] = IF u = t THEN "dead" ELSE tpc[u]
        /\ \A u \in P!Thread : state'[u] = IF u = t THEN tpc[t] ELSE state[u]
    BY <1>1 DEF ThreadInv, ThreadType
  <1>3. ThreadType'
    BY <1>1 DEF ThreadInv, ThreadType
  <1>4. ThreadPlaces'
    BY <1>1, <1>2 DEF ThreadInv, ThreadPlaces
  <1>5. \A u \in P!Thread : P!Alive(u)' <=> P!Alive(u)
    BY <1>1, <1>2, AfterStep DEF P!Alive
  <1>6. P!CountExact'
    BY <1>1, <1>5, CountKept DEF ThreadInv
  <1>7. \A v \in P!Thread : tpc'[v] \in P!Joining => (tpc[v] = tpc'[v] /\ other[v] \in P!Thread)
    BY <1>1, <1>2 DEF ThreadInv, ThreadPlaces
  <1>8. JoinersMark'
    BY <1>1, <1>2, <1>7 DEF ThreadInv, JoinersMark
  <1>9. SleepersRemembered'
    <2> SUFFICES ASSUME NEW v \in P!Thread, tpc'[v] \in {"block", "asleep"}, v \notin missed'
                 PROVE  RemembersNext(other'[v], v)
      BY RememberedAfter
    <2>1. /\ tpc[v] \in {"block", "asleep"} /\ v \notin missed /\ other[v] \in P!Thread
          /\ other'[v] = other[v]
      BY <1>1, <1>7
    <2>2. CASE P!Alive(other[v]) /\ parent[other[v]] = v
      BY <1>1, <1>5, <2>1, <2>2, AfterStep DEF RemembersNext
    <2>3. CASE P!Unblocks(other[v], v)
      BY <1>1, <1>2, <2>1, <2>3 DEF RemembersNext, P!Unblocks
    <2> QED BY <2>1, <2>2, <2>3 DEF ThreadInv, SleepersRemembered
  <1> QED BY <1>3, <1>4, <1>6, <1>8, <1>9 DEF ThreadInv

\* The end of the process: the other threads are closed.
LEMMA EndProcessThread ==
    ASSUME ThreadInv, ~ panicked, NEW t \in P!Thread, state[t] = "RUN", P!EndProcess(t)
    PROVE  ThreadInv'
  <1> USE DEF P!Joining, P!Ending
  <1>1. PICK end \in {"HANGING", "ZOMBIE"} :
           /\ state' = [u \in P!Thread |-> IF u # t /\ P!Exists(u) THEN "FREED" ELSE state[u]]
           /\ tpc' = [u \in P!Thread |-> IF u = t THEN end ELSE IF P!Exists(u) THEN "dead" ELSE tpc[u]]
           /\ count' = 0 /\ closed' = 0 /\ missed' = {}
           /\ UNCHANGED <<parent, flags, other, panicked>>
    BY DEF P!EndProcess
  <1>2. /\ \A u \in P!Thread : u # t => (state'[u] \in {"NEW", "FREED"} /\
               tpc'[u] = (IF state'[u] = "NEW" THEN "user" ELSE "dead"))
        /\ state'[t] = "RUN" /\ tpc'[t] = end
    <2>1. ASSUME NEW u \in P!Thread, u # t, state[u] = "NEW"
          PROVE  state'[u] = "NEW" /\ tpc'[u] = "user"
      BY <2>1, <1>1 DEF P!Exists, ThreadInv, ThreadPlaces
    <2>2. ASSUME NEW u \in P!Thread, u # t, state[u] # "NEW"
          PROVE  state'[u] = "FREED" /\ tpc'[u] = "dead"
      BY <2>2, <1>1 DEF P!Exists, ThreadInv, ThreadPlaces
    <2> QED BY <2>1, <2>2, <1>1
  <1>3. ThreadType'
    <2>1. \A u \in P!Thread :
             /\ state'[u] \in {"NEW", "RUN", "WAITING", "HANGING", "ZOMBIE", "FREED"}
             /\ tpc'[u] \in P!Joining \cup P!Ending \cup {"user", "cancel", "detach", "release"}
      BY <1>2
    <2> QED BY <2>1, <1>1 DEF ThreadInv, ThreadType
  <1>4. ThreadPlaces'
    BY <1>2 DEF ThreadPlaces
  <1>5. P!CountExact'
    <2>1. {u \in P!Thread : P!Alive(u)'} = {}
      BY <1>2, AfterStep
    <2>2. Cardinality({u \in P!Thread : P!Alive(u)'}) = 0
      BY <2>1, FS_EmptySet
    <2>3. count' = 0 /\ closed' = 0
      BY <1>1
    <2> QED BY ONLY <2>2, <2>3, CountMeans
  <1>6. JoinersMark'
    BY <1>2 DEF JoinersMark
  <1>7. SleepersRemembered'
    BY <1>2, RememberedAfter
  <1> QED BY <1>3, <1>4, <1>5, <1>6, <1>7 DEF ThreadInv

\* pthread_exit of a thread that is not the last: its joiner is released, will
\* be unblocked, or came too late.
LEMMA PthreadExitThread ==
    ASSUME ThreadInv, ~ panicked, NEW t \in P!Thread, count # 1, P!pthread_exit(t)
    PROVE  ThreadInv'
  <1> USE DEF P!Joining, P!Ending
  <1> DEFINE R == P!Released(t)
  <1>1. PICK end \in {"unblock", "HANGING", "ZOMBIE"} :
           /\ state[t] = "RUN" /\ tpc[t] \in {"user", "cancel"} /\ count' = count - 1
           /\ flags' = [u \in P!Thread |-> IF u \in R THEN flags[u] \ {"JOINING"} ELSE flags[u]]
           /\ state' = [u \in P!Thread |-> IF u \in R THEN "RUN" ELSE state[u]]
           /\ parent' = [parent EXCEPT ![t] = IF "DETACH" \in flags[t] THEN P!Outside ELSE @]
           /\ other' = [other EXCEPT ![t] = IF P!ParentWaits(t) THEN parent[t] ELSE P!NoThread]
           /\ tpc' = [u \in P!Thread |-> IF u = t THEN end ELSE IF u \in R THEN "look" ELSE tpc[u]]
           /\ P!ParentWaits(t) <=> end = "unblock"
           /\ missed' = missed \cup {w \in P!Joiners(t) : state[w] # "WAITING"}
           /\ UNCHANGED <<closed, panicked>>
    BY DEF P!pthread_exit, P!Leave
  <1>2. \A w : w \in R <=> (/\ w \in P!Thread /\ {"DETACH", "JOINED"} \subseteq flags[t]
                            /\ parent[t] = w /\ state[w] = "WAITING")
    BY DEF P!Released
  <1> HIDE DEF R
  <1>3. \A w \in R : tpc[w] = "asleep" /\ w # t
    BY <1>1, <1>2 DEF ThreadInv, ThreadPlaces
  <1>4. parent[t] \in 0 .. N /\ (parent[t] # P!Outside => parent[t] \in P!Thread)
    BY ThreadFacts DEF ThreadInv, ThreadType
  <1>5. /\ \A u \in P!Thread : tpc'[u] = IF u = t THEN end ELSE IF u \in R THEN "look" ELSE tpc[u]
        /\ \A u \in P!Thread : state'[u] = IF u \in R THEN "RUN" ELSE state[u]
        /\ \A u \in P!Thread : u # t => (parent'[u] = parent[u] /\ other'[u] = other[u])
        /\ P!ParentWaits(t) => (other'[t] = parent[t] /\ parent[t] \in P!Thread)
    BY <1>1, <1>4 DEF ThreadInv, ThreadType, P!ParentWaits
  <1>6. ThreadType'
    <2>1. other' \in [P!Thread -> 0 .. N]
      BY <1>1, <1>4, ThreadFacts DEF ThreadInv, ThreadType
    <2>2. parent' \in [P!Thread -> 0 .. N]
      BY <1>1, ThreadFacts DEF ThreadInv, ThreadType
    <2>3. flags' \in [P!Thread -> SUBSET P!Flag]
      BY <1>1 DEF ThreadInv, ThreadType
    <2>4. \A u \in P!Thread :
             /\ state'[u] \in {"NEW", "RUN", "WAITING", "HANGING", "ZOMBIE", "FREED"}
             /\ tpc'[u] \in P!Joining \cup P!Ending \cup {"user", "cancel", "detach", "release"}
      BY <1>5 DEF ThreadInv, ThreadType
    <2>5. count' \in Int /\ closed' \in Int
      BY <1>1 DEF ThreadInv, ThreadType
    <2> QED BY <2>1, <2>2, <2>3, <2>4, <2>5, <1>1 DEF ThreadType
  <1>7. ThreadPlaces'
    <2> SUFFICES ASSUME NEW u \in P!Thread
                 PROVE  /\ state'[u] = "NEW" => tpc'[u] = "user"
                        /\ tpc'[u] = "dead" <=> state'[u] \in {"HANGING", "ZOMBIE", "FREED"}
                        /\ tpc'[u] = "asleep" <=> state'[u] = "WAITING"
                        /\ tpc'[u] \in P!Joining => other'[u] \in P!Thread
                        /\ tpc'[u] \in {"unblock", "detach", "release"} => other'[u] \in P!Thread
      BY DEF ThreadPlaces
    <2>1. CASE u = t
      BY <2>1, <1>1, <1>3, <1>5
    <2>2. CASE u # t
      BY <2>2, <1>1, <1>3, <1>5 DEF ThreadInv, ThreadPlaces
    <2> QED BY <2>1, <2>2
  <1>8. /\ P!Alive(t) /\ ~ P!Alive(t)'
        /\ \A u \in P!Thread : u # t => (P!Alive(u)' <=> P!Alive(u))
    BY <1>1, <1>2, <1>3, <1>5, AfterStep DEF P!Alive
  <1>9. P!CountExact'
    BY <1>1, <1>8, CountLess DEF ThreadInv, ThreadType
  <1>10. \A v \in P!Thread : tpc'[v] \in P!Joining =>
            (tpc[v] \in P!Joining /\ v # t /\ other[v] \in P!Thread /\ other'[v] = other[v])
    BY <1>1, <1>3, <1>5 DEF ThreadInv, ThreadPlaces
  <1>11. JoinersMark'
    <2> SUFFICES ASSUME NEW v \in P!Thread, tpc'[v] \in P!Joining
                 PROVE  /\ state'[other'[v]] # "NEW" /\ "JOINED" \in flags'[other'[v]]
                        /\ parent'[other'[v]] = v \/ tpc'[other'[v]] \in P!Ending
      BY DEF JoinersMark
    <2> DEFINE x == other[v]
    <2>1. x \in P!Thread /\ other'[v] = x
      BY <1>10
    <2>2. state[x] # "NEW" /\ "JOINED" \in flags[x] /\ (parent[x] = v \/ tpc[x] \in P!Ending)
      BY <1>10 DEF ThreadInv, JoinersMark
    <2> HIDE DEF x
    <2>3. "JOINED" \in flags'[x]
      BY <1>1, <2>1, <2>2
    <2>4. parent'[x] = v \/ tpc'[x] \in P!Ending
      BY <1>3, <1>5, <2>1, <2>2
    <2> QED BY <2>1, <2>2, <2>3, <2>4, <1>5
  <1>12. SleepersRemembered'
    <2> SUFFICES ASSUME NEW v \in P!Thread, tpc'[v] \in {"block", "asleep"}, v \notin missed'
                 PROVE  RemembersNext(other'[v], v)
      BY RememberedAfter
    <2>1. /\ tpc[v] = tpc'[v] /\ v \notin missed /\ other[v] \in P!Thread /\ v # t /\ v \notin R
          /\ other'[v] = other[v] /\ tpc[v] \in P!Joining
      BY <1>1, <1>5, <1>10
    <2>2. CASE P!Alive(other[v]) /\ parent[other[v]] = v /\ other[v] # t
      BY <1>5, <1>8, <2>1, <2>2, AfterStep DEF RemembersNext
    <2>3. CASE P!Alive(other[v]) /\ parent[other[v]] = v /\ other[v] = t
      <3>1. v \in P!Joiners(t)
        BY <2>1, <2>3 DEF P!Joiners
      <3>2. state[v] = "WAITING"
        BY <1>1, <2>1, <3>1
      <3>3. "JOINED" \in flags[t]
        BY <2>1, <2>3 DEF ThreadInv, JoinersMark
      <3>4. "DETACH" \notin flags[t]
        BY <1>2, <2>1, <2>3, <3>2, <3>3
      <3>5. P!ParentWaits(t)
        BY <2>3, <3>2, <3>4, ThreadFacts DEF P!ParentWaits
      <3>6. tpc'[t] = "unblock" /\ other'[t] = v
        BY <1>1, <1>5, <2>3, <3>5
      <3> QED BY <2>1, <2>3, <3>6 DEF RemembersNext
    <2>4. CASE P!Unblocks(other[v], v)
      <3>1. tpc[other[v]] = "unblock" /\ other[other[v]] = v /\ other[v] # t /\ other[v] \notin R
        BY <1>1, <1>3, <2>4 DEF P!Unblocks
      <3> QED BY <1>5, <2>1, <3>1 DEF RemembersNext
    <2> QED BY <2>1, <2>2, <2>3, <2>4 DEF ThreadInv, SleepersRemembered
  <1> QED BY <1>6, <1>7, <1>9, <1>11, <1>12 DEF ThreadInv

\* sys_thread_cancel closes another thread at once: its joiner is not told, and
\* the count stays.
LEMMA CloseThread ==
    ASSUME ThreadInv, ~ panicked, NEW t \in P!Thread, state[t] # "NEW", P!close_one_thread(t),
           flags' \in [P!Thread -> SUBSET P!Flag],
           \A u \in P!Thread : "JOINED" \in flags[u] => "JOINED" \in flags'[u],
           UNCHANGED <<parent, other, count, panicked>>
    PROVE  ThreadInv'
  <1> USE DEF P!Joining, P!Ending
  <1>1. /\ state' = [state EXCEPT ![t] = "FREED"] /\ tpc' = [tpc EXCEPT ![t] = "dead"]
        /\ closed' = IF P!Alive(t) THEN closed + 1 ELSE closed
        /\ missed' = (missed \cup P!Joiners(t)) \ {t}
    BY DEF P!close_one_thread
  <1>2. /\ \A u \in P!Thread : tpc'[u] = IF u = t THEN "dead" ELSE tpc[u]
        /\ \A u \in P!Thread : state'[u] = IF u = t THEN "FREED" ELSE state[u]
    BY <1>1 DEF ThreadInv, ThreadType
  <1>3. ThreadType'
    BY <1>1 DEF ThreadInv, ThreadType
  <1>4. ThreadPlaces'
    BY <1>2 DEF ThreadInv, ThreadPlaces
  <1>5. /\ ~ P!Alive(t)'
        /\ \A u \in P!Thread : u # t => (P!Alive(u)' <=> P!Alive(u))
    BY <1>2, AfterStep DEF P!Alive
  <1>6. P!CountExact'
    <2>1. CASE P!Alive(t)
      BY <2>1, <1>1, <1>5, CountLess DEF ThreadInv, ThreadType
    <2>2. CASE ~ P!Alive(t)
      BY <2>2, <1>1, <1>5, CountKept DEF ThreadInv
    <2> QED BY <2>1, <2>2
  <1>7. \A v \in P!Thread : tpc'[v] \in P!Joining =>
           (tpc[v] = tpc'[v] /\ v # t /\ other[v] \in P!Thread)
    BY <1>2 DEF ThreadInv, ThreadPlaces
  <1>8. JoinersMark'
    BY <1>2, <1>7 DEF ThreadInv, JoinersMark
  <1>9. SleepersRemembered'
    <2> SUFFICES ASSUME NEW v \in P!Thread, tpc'[v] \in {"block", "asleep"}, v \notin missed'
                 PROVE  RemembersNext(other'[v], v)
      BY RememberedAfter
    <2>1. /\ tpc[v] \in {"block", "asleep"} /\ v \notin missed /\ other[v] \in P!Thread
          /\ other'[v] = other[v] /\ other[v] # t
      BY <1>1, <1>7 DEF P!Joiners
    <2>2. CASE P!Alive(other[v]) /\ parent[other[v]] = v
      BY <1>5, <2>1, <2>2, AfterStep DEF RemembersNext
    <2>3. CASE P!Unblocks(other[v], v)
      BY <1>2, <2>1, <2>3 DEF RemembersNext, P!Unblocks
    <2> QED BY <2>1, <2>2, <2>3 DEF ThreadInv, SleepersRemembered
  <1> QED BY <1>3, <1>4, <1>6, <1>8, <1>9 DEF ThreadInv

\* waitpid gives dead threads back.
LEMMA CollectThread ==
    ASSUME ThreadInv, ~ panicked, NEW D, P!Collect(D),
           \A t \in D : state[t] \in {"HANGING", "ZOMBIE"}
    PROVE  ThreadInv'
  <1> USE DEF P!Joining, P!Ending
  <1>1. /\ state' = [t \in P!Thread |-> IF t \in D THEN "FREED" ELSE state[t]]
        /\ UNCHANGED <<parent, flags, tpc, other, count, closed, missed, panicked>>
    BY DEF P!Collect
  <1>2. ThreadType'
    BY <1>1 DEF ThreadInv, ThreadType
  <1>3. ThreadPlaces'
    BY <1>1 DEF ThreadInv, ThreadPlaces
  <1>4. \A u \in P!Thread : P!Alive(u)' <=> P!Alive(u)
    BY <1>1, AfterStep DEF P!Alive
  <1>5. P!CountExact'
    BY <1>1, <1>4, CountKept DEF ThreadInv
  <1>6. JoinersMark'
    <2>1. \A u \in P!Thread : state[u] # "NEW" => state'[u] # "NEW"
      BY <1>1
    <2> QED BY <1>1, <2>1 DEF ThreadInv, JoinersMark, ThreadPlaces
  <1>7. SleepersRemembered'
    <2> SUFFICES ASSUME NEW v \in P!Thread, tpc'[v] \in {"block", "asleep"}, v \notin missed'
                 PROVE  RemembersNext(other'[v], v)
      BY RememberedAfter
    <2>1. /\ tpc[v] \in {"block", "asleep"} /\ v \notin missed /\ other[v] \in P!Thread
          /\ other'[v] = other[v]
      BY <1>1 DEF ThreadInv, ThreadPlaces
    <2>2. CASE P!Alive(other[v]) /\ parent[other[v]] = v
      BY <1>1, <1>4, <2>1, <2>2, AfterStep DEF RemembersNext
    <2>3. CASE P!Unblocks(other[v], v)
      BY <1>1, <2>1, <2>3 DEF RemembersNext, P!Unblocks
    <2> QED BY <2>1, <2>2, <2>3 DEF ThreadInv, SleepersRemembered
  <1> QED BY <1>2, <1>3, <1>5, <1>6, <1>7 DEF ThreadInv

\* The ways out of a thread.
LEMMA ExitingThread ==
    ASSUME ThreadInv, ~ panicked, NEW t \in P!Thread, P!Exiting(t) PROVE ThreadInv'
  <1>1. CASE P!pthread_exit(t)
    <2>1. CASE count = 1
      BY <1>1, <2>1, EndProcessThread DEF P!pthread_exit
    <2>2. CASE count # 1
      BY <1>1, <2>2, PthreadExitThread
    <2> QED BY <2>1, <2>2
  <1>2. CASE P!sys_exit(t)
    BY <1>2, EndProcessThread DEF P!sys_exit, P!Runs
  <1>3. CASE P!ExitUnblock(t)
    <2>1. /\ tpc[t] = "unblock" /\ P!task_unblock(t, other[t], "HANGING")
          /\ other' = [other EXCEPT ![t] = P!NoThread]
          /\ UNCHANGED <<parent, flags, count, closed, missed>>
      BY <1>3 DEF P!ExitUnblock
    <2>2. other[t] \in P!Thread /\ flags \in [P!Thread -> SUBSET P!Flag]
      BY <2>1 DEF ThreadInv, ThreadPlaces, ThreadType
    <2>3. CASE state[other[t]] = "WAITING"
      <3>1. /\ state' = [state EXCEPT ![other[t]] = "RUN"] /\ UNCHANGED panicked
            /\ tpc' = [tpc EXCEPT ![other[t]] = "look", ![t] = "HANGING"]
        BY <2>1, <2>3 DEF P!task_unblock
      <3> QED BY <2>1, <2>2, <2>3, <3>1, WakeThread
    <2>4. CASE state[other[t]] # "WAITING"
      <3>1. panicked' = TRUE /\ UNCHANGED <<state, tpc>>
        BY <2>1, <2>4 DEF P!task_unblock
      <3> QED BY <2>1, <2>2, <2>4, <3>1, PanicThread
    <2> QED BY <2>3, <2>4
  <1>4. CASE P!ExitBlock(t)
    BY <1>4, ExitBlockThread
  <1> QED BY <1>1, <1>2, <1>3, <1>4 DEF P!Exiting

\* Detaching and cancelling.
LEMMA OthersThread ==
    ASSUME ThreadInv, ~ panicked, NEW s \in P!Thread,
           \/ \E t \in P!Thread : P!DetachMark(s, t) \/ P!sys_thread_cancel(s, t)
           \/ P!DetachLook(s) \/ P!DetachUnblock(s)
           \/ \E flag \in {"DISABLE", "ASYNC"} : P!SetCancel(s, flag)
    PROVE  ThreadInv'
  <1>1. flags \in [P!Thread -> SUBSET P!Flag] /\ other[s] \in 0 .. N /\ other \in [P!Thread -> 0 .. N]
    BY DEF ThreadInv, ThreadType
  <1>2. tpc \in [P!Thread -> P!Joining \cup P!Ending \cup {"user", "cancel", "detach", "release"}]
    BY DEF ThreadInv, ThreadType
  <1>3. CASE \E t \in P!Thread : P!DetachMark(s, t)
    <2>1. PICK t \in P!Thread : P!DetachMark(s, t)
      BY <1>3
    <2>2. /\ flags' \in [P!Thread -> SUBSET P!Flag]
          /\ \A u \in P!Thread : "JOINED" \in flags[u] => "JOINED" \in flags'[u]
      BY <1>1, <2>1 DEF P!DetachMark, P!Flag
    <2>3. t \in 0 .. N
      BY ThreadFacts
    <2> QED BY <2>1, <2>2, <2>3, UserStepThread DEF P!DetachMark, P!Runs
  <1>4. CASE \E t \in P!Thread : P!sys_thread_cancel(s, t)
    <2>1. PICK t \in P!Thread : P!sys_thread_cancel(s, t)
      BY <1>4
    <2>2. /\ flags' \in [P!Thread -> SUBSET P!Flag]
          /\ \A u \in P!Thread : "JOINED" \in flags[u] => "JOINED" \in flags'[u]
      BY <1>1, <2>1 DEF P!sys_thread_cancel, P!Flag
    <2>3. state[s] = "RUN" /\ tpc[s] = "user" /\ state[t] # "NEW"
      BY <2>1 DEF P!sys_thread_cancel, P!Runs, P!Exists
    <2>4. UNCHANGED <<parent, other, count, panicked>>
      BY <2>1 DEF P!sys_thread_cancel
    <2>5. other' = [other EXCEPT ![s] = other[s]]
      BY <1>1, <2>4
    <2>6. CASE "ASYNC" \notin flags[t]
      <3>1. UNCHANGED <<state, closed, missed>> /\ tpc' = [tpc EXCEPT ![s] = "user"]
        BY <2>1, <2>3, <2>6, <1>2 DEF P!sys_thread_cancel
      <3> QED BY <3>1, <2>2, <2>3, <2>4, <2>5, <1>1, UserStepThread
    <2>7. CASE "ASYNC" \in flags[t] /\ t = s
      <3>1. UNCHANGED <<state, closed, missed>> /\ tpc' = [tpc EXCEPT ![s] = "cancel"]
        BY <2>1, <2>7 DEF P!sys_thread_cancel
      <3> QED BY <3>1, <2>2, <2>3, <2>4, <2>5, <1>1, UserStepThread
    <2>8. CASE "ASYNC" \in flags[t] /\ t # s
      <3>1. P!close_one_thread(t)
        BY <2>1, <2>8 DEF P!sys_thread_cancel
      <3> QED BY <3>1, <2>2, <2>3, <2>4, CloseThread
    <2> QED BY <2>6, <2>7, <2>8
  <1>5. CASE P!DetachLook(s)
    <2>1. /\ tpc[s] = "detach" /\ UNCHANGED <<state, parent, flags, count, closed, missed, panicked>>
      BY <1>5 DEF P!DetachLook
    <2>2. other[s] \in P!Thread /\ state[s] = "RUN"
      BY <2>1 DEF ThreadInv, ThreadPlaces, ThreadType
    <2>3. parent[other[s]] \in 0 .. N
      BY <2>2 DEF ThreadInv, ThreadType
    <2>4. parent[other[s]] # P!Outside => parent[other[s]] \in P!Thread
      BY <2>3, ThreadFacts
    <2>5. PICK at \in {"user", "release"}, x \in 0 .. N :
             /\ tpc' = [tpc EXCEPT ![s] = at] /\ other' = [other EXCEPT ![s] = x]
             /\ at = "release" => x \in P!Thread
      <3>1. PICK found \in BOOLEAN :
               /\ tpc' = [tpc EXCEPT ![s] = IF found THEN "release" ELSE "user"]
               /\ other' = [other EXCEPT ![s] = IF found THEN parent[other[s]] ELSE P!NoThread]
               /\ found => parent[other[s]] # P!Outside
        BY <1>5 DEF P!DetachLook
      <3> QED BY <3>1, <2>3, <2>4, ThreadFacts
    <2> QED BY <2>1, <2>2, <2>5, <1>1, UserStepThread
  <1>6. CASE P!DetachUnblock(s)
    <2>1. /\ tpc[s] = "release" /\ P!task_unblock(s, other[s], "user")
          /\ flags' = [flags EXCEPT ![other[s]] = @ \ {"JOINING"}]
          /\ other' = [other EXCEPT ![s] = P!NoThread]
          /\ UNCHANGED <<parent, count, closed, missed>>
      BY <1>6 DEF P!DetachUnblock
    <2>2. other[s] \in P!Thread
      BY <2>1 DEF ThreadInv, ThreadPlaces
    <2>3. /\ flags' \in [P!Thread -> SUBSET P!Flag]
          /\ \A u \in P!Thread : "JOINED" \in flags[u] => "JOINED" \in flags'[u]
      BY <1>1, <2>1, <2>2
    <2>4. CASE state[other[s]] = "WAITING"
      <3>1. /\ state' = [state EXCEPT ![other[s]] = "RUN"] /\ UNCHANGED panicked
            /\ tpc' = [tpc EXCEPT ![other[s]] = "look", ![s] = "user"]
        BY <2>1, <2>4 DEF P!task_unblock
      <3> QED BY <2>1, <2>2, <2>3, <2>4, <3>1, WakeThread
    <2>5. CASE state[other[s]] # "WAITING"
      <3>1. panicked' = TRUE /\ UNCHANGED <<state, tpc>>
        BY <2>1, <2>5 DEF P!task_unblock
      <3> QED BY <2>1, <2>2, <2>3, <2>5, <3>1, PanicThread
    <2> QED BY <2>4, <2>5
  <1>7. CASE \E flag \in {"DISABLE", "ASYNC"} : P!SetCancel(s, flag)
    <2>1. PICK flag \in {"DISABLE", "ASYNC"} : P!SetCancel(s, flag)
      BY <1>7
    <2>2. /\ flags' \in [P!Thread -> SUBSET P!Flag]
          /\ \A u \in P!Thread : "JOINED" \in flags[u] => "JOINED" \in flags'[u]
      BY <1>1, <2>1 DEF P!SetCancel, P!Flag
    <2>3. /\ state[s] = "RUN" /\ tpc[s] = "user"
          /\ UNCHANGED <<state, parent, tpc, other, count, closed, missed, panicked>>
      BY <2>1 DEF P!SetCancel, P!Runs
    <2>4. tpc' = [tpc EXCEPT ![s] = "user"] /\ other' = [other EXCEPT ![s] = other[s]]
      BY <1>1, <1>2, <2>3
    <2> QED BY <2>2, <2>3, <2>4, <1>1, UserStepThread
  <1> QED BY <1>3, <1>4, <1>5, <1>6, <1>7

\* Every step preserves the invariant.
LEMMA NextThread == ThreadInv /\ [P!Next]_(P!vars) => ThreadInv'
  <1> SUFFICES ASSUME ThreadInv, [P!Next]_(P!vars) PROVE ThreadInv'
    OBVIOUS
  <1>1. CASE ~ panicked /\ \E t \in P!Thread : P!Step(t)
    <2>1. PICK t \in P!Thread : P!Step(t)
      BY <1>1
    <2>2. CASE \E u \in P!Thread, detached \in BOOLEAN : P!pthread_start(t, u, detached)
      BY <2>2, StartThread
    <2>3. CASE (\E u \in P!Thread : P!pthread_join(t, u)) \/ P!JoinAgain(t)
      BY <2>3, <1>1, JoinThread
    <2>4. CASE P!JoinBlock(t)
      BY <2>4, <1>1, JoinBlockThread
    <2>5. CASE P!TriggerWake(t)
      <3>1. /\ tpc[t] = "asleep" /\ tpc' = [tpc EXCEPT ![t] = "look"] /\ other' = other
            /\ state' = [state EXCEPT ![t] = "RUN"]
            /\ UNCHANGED <<parent, flags, count, closed, missed, panicked>>
        BY <2>5 DEF P!TriggerWake
      <3>2. state[t] = "WAITING" /\ flags \in [P!Thread -> SUBSET P!Flag]
        BY <3>1 DEF ThreadInv, ThreadPlaces, ThreadType
      <3> QED BY <3>1, <3>2, <1>1, WakeThread
    <2>6. CASE P!Exiting(t)
      BY <2>6, <1>1, ExitingThread
    <2>7. CASE P!sys_waitpid(t)
      <3>1. \E D : P!Collect(D) /\ \A u \in D : state[u] \in {"HANGING", "ZOMBIE"}
        BY <2>7 DEF P!sys_waitpid, P!Dead
      <3> QED BY <3>1, <1>1, CollectThread
    <2>8. CASE \/ \E u \in P!Thread : P!DetachMark(t, u) \/ P!sys_thread_cancel(t, u)
               \/ P!DetachLook(t) \/ P!DetachUnblock(t)
               \/ \E flag \in {"DISABLE", "ASYNC"} : P!SetCancel(t, flag)
      BY <2>8, <1>1, OthersThread
    <2> QED BY <2>1, <2>2, <2>3, <2>4, <2>5, <2>6, <2>7, <2>8 DEF P!Step
  <1>2. CASE ~ panicked /\ P!OutsideCollects
    <2>1. \E D : P!Collect(D) /\ \A u \in D : state[u] \in {"HANGING", "ZOMBIE"}
      BY <1>2 DEF P!OutsideCollects, P!Dead
    <2> QED BY <2>1, <1>2, CollectThread
  <1>3. CASE UNCHANGED P!vars
    <2>1. UNCHANGED <<state, parent, flags, tpc, other, count, closed, missed, panicked>>
      BY <1>3 DEF P!vars
    <2>2. ThreadType' /\ ThreadPlaces' /\ JoinersMark'
      BY <2>1 DEF ThreadInv, ThreadType, ThreadPlaces, JoinersMark, P!Joining, P!Ending
    <2>3. \A u \in P!Thread : P!Alive(u)' <=> P!Alive(u)
      BY <2>1, AfterStep DEF P!Alive, P!Ending
    <2>4. P!CountExact'
      BY <2>1, <2>3, CountKept DEF ThreadInv
    <2>5. SleepersRemembered'
      BY <2>1, RememberedAfter
      DEF ThreadInv, SleepersRemembered, RemembersNext, P!Alive, P!Unblocks
    <2> QED BY <2>2, <2>4, <2>5 DEF ThreadInv
  <1> QED BY <1>1, <1>2, <1>3 DEF P!Next

\* pthread_exit ends the process by thread_count, which is the number of threads
\* that have not begun to exit and of those that were closed.
THEOREM ThreadsCounted == P!Spec => []CountExact
  <1>1. ThreadInv => CountExact
    BY DEF ThreadInv, CountExact
  <1> QED BY <1>1, ThreadInit, NextThread, PTL DEF P!Spec

\* pthread_join: whoever sleeps for a thread is remembered by it, unless the
\* thread ended in one of the windows.
THEOREM JoinersRemembered == P!Spec => []JoinerRemembered
  <1>1. ThreadInv => JoinerRemembered
    BY DEF ThreadInv, SleepersRemembered, JoinerRemembered, P!JoinerRemembered
  <1> QED BY <1>1, ThreadInit, NextThread, PTL DEF P!Spec

-----------------------------------------------------------------------------
(* Message queues (MsgQueue).                                              *)

Queues == [name : Name \cup {NoName}, msg_list : Seq(Type), msgs : Nat,
           senders : Seq(Client), receivers : Seq(Client)]

QueueType ==
    /\ queue \in [Slot -> Queues] /\ asleep \subseteq Client
    /\ handle \in [Client -> Slot \cup {NoName}]
    /\ mpc \in [Client -> {"out", "send", "send_woken", "recv", "recv_woken"}]
    /\ call \in [Client -> [type : Int, except : BOOLEAN, nowait : BOOLEAN]]

\* What a task in send or recv works with.  Every message suits every receiver.
InCall ==
    \A t \in Client :
        /\ mpc[t] # "out" => handle[t] \in Slot
        /\ mpc[t] \in {"send", "send_woken"} => call[t].type \in Type
        /\ mpc[t] \in {"recv", "recv_woken"} => \A x \in Type : Q!Matches(call[t], x)

\* Who is in a list of a queue sleeps there, once.
ListedAsleep ==
    /\ \A t \in asleep : mpc[t] \in {"send_woken", "recv_woken"}
    /\ \A s \in Slot : OnceIn(queue[s].senders) /\ OnceIn(queue[s].receivers)
    /\ \A s \in Slot, t \in Client : Contains(queue[s].senders, t) =>
          t \in asleep /\ handle[t] = s /\ mpc[t] = "send_woken"
    /\ \A s \in Slot, t \in Client : Contains(queue[s].receivers, t) =>
          t \in asleep /\ handle[t] = s /\ mpc[t] = "recv_woken"

\* The tasks that have been woken and not gone on yet.
WokenAt(s, step) == {t \in Client : handle[t] = s /\ mpc[t] = step /\ t \notin asleep}

\* Every woken sender adds one message more; the counter is never at its end.
RoomForWoken ==
    \A s \in Slot :
        /\ queue[s].msgs = Len(queue[s].msg_list)
        /\ Len(queue[s].msg_list) + Cardinality(WokenAt(s, "send_woken"))
              <= MSGQ_MAX_MSGS + Cardinality(Client)

\* As long as somebody sleeps in recv there is a woken receiver for each message.
MessagesAwaited ==
    \A s \in Slot :
        queue[s].receivers # << >> =>
            Len(queue[s].msg_list) <= Cardinality(WokenAt(s, "recv_woken"))

MsgInv == QueueType /\ InCall /\ ListedAsleep /\ RoomForWoken /\ MessagesAwaited

LEMMA QueueFacts ==
    /\ IsFiniteSet(Client) /\ Cardinality(Client) \in Nat /\ MSGQ_MAX_MSGS \in Nat
    /\ Uchars \in Nat \ {0} /\ Type \subseteq Nat \ {0}
    /\ \A s \in SUBSET Client : IsFiniteSet(s) /\ Cardinality(s) \in Nat
  <1>1. IsFiniteSet(Client)
    BY IpcAssumption DEF Q!MsgQueueConstants, Q!IsFiniteSet, IsFiniteSet
  <1>2. MSGQ_MAX_MSGS \in Nat /\ Uchars \in Nat \ {0} /\ Type \subseteq Nat \ {0}
    BY IpcAssumption DEF Q!MsgQueueConstants
  <1>3. \A s \in SUBSET Client : IsFiniteSet(s) /\ Cardinality(s) \in Nat
    BY <1>1, FS_CardinalityType, FS_Subset
  <1> QED BY <1>1, <1>2, <1>3

\* The arguments that receivers call with.
LEMMA EverythingSuits ==
    ASSUME NEW c, NEW x \in Type,
           <<c.type, c.except>> \in {<<0, FALSE>>, <<-Greatest, FALSE>>, <<Greatest + 1, TRUE>>}
    PROVE  Q!Matches(c, x)
  <1>1. Greatest \in Type /\ \A y \in Type : y <= Greatest
    BY IpcAssumption DEF Greatest
  <1>2. Greatest \in Nat \ {0} /\ x \in Nat /\ x <= Greatest
    BY <1>1, QueueFacts
  <1>3. CASE c.type = 0
    BY <1>3 DEF Q!Matches
  <1>4. CASE c.type = -Greatest /\ c.except = FALSE
    BY <1>2, <1>4 DEF Q!Matches
  <1>5. CASE c.type = Greatest + 1 /\ c.except = TRUE
    BY <1>2, <1>5 DEF Q!Matches
  <1> QED BY <1>3, <1>4, <1>5

\* Without a wrap an unsigned char counts.
LEMMA SmallMod == ASSUME NEW x \in Nat, NEW m \in Nat, x < m PROVE x % m = x
  OBVIOUS

\* The first message is taken off the list.
LEMMA FirstTaken ==
    ASSUME NEW S, NEW l \in Seq(S), l # << >>
    PROVE  Q!RemoveAt(l, 1) \in Seq(S) /\ Len(Q!RemoveAt(l, 1)) = Len(l) - 1
  <1>1. PICK n \in Nat \ {0} : n = Len(l)
    BY EmptySeq
  <1>2. SubSeq(l, 1, 0) \in Seq(S) /\ Len(SubSeq(l, 1, 0)) = 0
    BY SubSeqProperties
  <1>3. SubSeq(l, 2, n) \in Seq(S) /\ Len(SubSeq(l, 2, n)) = n - 1
    <2>1. \A i \in 2 .. n : l[i] \in S
      BY <1>1
    <2>2. /\ SubSeq(l, 2, n) \in Seq(S)
          /\ Len(SubSeq(l, 2, n)) = IF 2 <= n THEN n - 2 + 1 ELSE 0
      BY <1>1, <2>1, SubSeqProperties
    <2>3. (IF 2 <= n THEN n - 2 + 1 ELSE 0) = n - 1
      OBVIOUS
    <2> QED BY <2>2, <2>3
  <1>4. Q!RemoveAt(l, 1) = SubSeq(l, 1, 0) \o SubSeq(l, 2, n)
    BY <1>1 DEF Q!RemoveAt
  <1>5. /\ Q!RemoveAt(l, 1) \in Seq(S)
        /\ Len(Q!RemoveAt(l, 1)) = Len(SubSeq(l, 1, 0)) + Len(SubSeq(l, 2, n))
    BY <1>2, <1>3, <1>4, ConcatProperties
  <1> QED BY <1>1, <1>2, <1>3, <1>5

\* What a task does that comes back from send or recv: queue s becomes n, and
\* the tasks of H are woken.
LeavesQueue(t, s, n, H) ==
    /\ t \in Client /\ t \notin asleep /\ mpc[t] # "out" /\ s \in Slot /\ s = handle[t]
    /\ n \in Queues /\ queue' = [queue EXCEPT ![s] = n]
    /\ Q!Leave(t) /\ handle' = handle
    /\ H \in SUBSET Client /\ asleep' = asleep \ H
    /\ \A h \in H : h \in asleep /\ handle[h] = s
    /\ OnceIn(n.senders) /\ OnceIn(n.receivers)
    /\ \A u \in Client : Contains(n.senders, u) => Contains(queue[s].senders, u) /\ u \notin H
    /\ \A u \in Client : Contains(n.receivers, u) => Contains(queue[s].receivers, u) /\ u \notin H

LEMMA LeaveQueue ==
    ASSUME QueueType, InCall, ListedAsleep,
           NEW t, NEW s, NEW n, NEW H, LeavesQueue(t, s, n, H)
    PROVE  /\ QueueType' /\ InCall' /\ ListedAsleep'
           /\ queue'[s] = n /\ \A r \in Slot \ {s} : queue'[r] = queue[r]
           /\ \A r \in Slot \ {s} : \A step : WokenAt(r, step)' = WokenAt(r, step) \/ step = "out"
           /\ \A step \in {"send_woken", "recv_woken"} :
                 WokenAt(s, step)' = (WokenAt(s, step) \ {t}) \cup {h \in H : mpc[h] = step}
  <1> USE DEF LeavesQueue
  <1>1. /\ mpc' = [mpc EXCEPT ![t] = "out"] /\ call' = [call EXCEPT ![t] = Q!NoCall]
    BY DEF Q!Leave
  <1>2. Q!NoCall \in [type : Int, except : BOOLEAN, nowait : BOOLEAN]
    BY DEF Q!NoCall
  <1>3. QueueType'
    BY <1>1, <1>2 DEF QueueType
  <1>4. /\ mpc'[t] = "out" /\ \A u \in Client : u # t => mpc'[u] = mpc[u] /\ call'[u] = call[u]
        /\ queue'[s] = n /\ \A r \in Slot \ {s} : queue'[r] = queue[r]
    BY <1>1 DEF QueueType
  <1>5. InCall'
    BY <1>4 DEF InCall
  <1>6. ListedAsleep'
    <2>1. \A u \in asleep' : mpc'[u] \in {"send_woken", "recv_woken"}
      BY <1>4 DEF ListedAsleep, QueueType
    <2>2. \A r \in Slot : OnceIn(queue'[r].senders) /\ OnceIn(queue'[r].receivers)
      BY <1>4 DEF ListedAsleep
    <2>3. ASSUME NEW r \in Slot, NEW u \in Client, Contains(queue'[r].senders, u)
          PROVE  u \in asleep' /\ handle'[u] = r /\ mpc'[u] = "send_woken"
      <3>1. Contains(queue[r].senders, u) /\ (r = s => u \notin H)
        BY <1>4, <2>3
      <3>2. u \in asleep /\ handle[u] = r /\ mpc[u] = "send_woken"
        BY <3>1 DEF ListedAsleep
      <3> QED BY <3>1, <3>2, <1>4
    <2>4. ASSUME NEW r \in Slot, NEW u \in Client, Contains(queue'[r].receivers, u)
          PROVE  u \in asleep' /\ handle'[u] = r /\ mpc'[u] = "recv_woken"
      <3>1. Contains(queue[r].receivers, u) /\ (r = s => u \notin H)
        BY <1>4, <2>4
      <3>2. u \in asleep /\ handle[u] = r /\ mpc[u] = "recv_woken"
        BY <3>1 DEF ListedAsleep
      <3> QED BY <3>1, <3>2, <1>4
    <2> QED BY <2>1, <2>2, <2>3, <2>4 DEF ListedAsleep
  <1>7. ASSUME NEW r \in Slot \ {s}, NEW step, step # "out" PROVE WokenAt(r, step)' = WokenAt(r, step)
    <2>1. \A u \in Client : handle[u] = r =>
             u # t /\ mpc'[u] = mpc[u] /\ (u \in asleep' <=> u \in asleep)
      BY <1>4
    <2> QED BY <2>1 DEF WokenAt
  <1>8. ASSUME NEW step \in {"send_woken", "recv_woken"}
        PROVE  WokenAt(s, step)' = (WokenAt(s, step) \ {t}) \cup {h \in H : mpc[h] = step}
    <2>1. ASSUME NEW u \in Client
          PROVE  u \in WokenAt(s, step)' <=>
                    (u \in WokenAt(s, step) \ {t} \/ (u \in H /\ mpc[u] = step))
      <3>1. CASE u = t
        BY <3>1, <1>4 DEF WokenAt
      <3>2. CASE u # t
        BY <3>2, <1>4 DEF WokenAt
      <3> QED BY <3>1, <3>2
    <2>2. WokenAt(s, step)' \subseteq Client /\ WokenAt(s, step) \subseteq Client
      BY DEF WokenAt
    <2> QED BY <2>1, <2>2
  <1> QED BY <1>3, <1>4, <1>5, <1>6, <1>7, <1>8

\* wait_queue_wakeup on a list of a queue.
LEMMA WakesHead ==
    ASSUME NEW l \in Seq(Client), OnceIn(l)
    PROVE  /\ Q!Woken(l) \in SUBSET Client /\ Q!Rest(l) \in Seq(Client) /\ OnceIn(Q!Rest(l))
           /\ \A u : Contains(Q!Rest(l), u) => Contains(l, u) /\ u \notin Q!Woken(l)
           /\ \A u \in Q!Woken(l) : Contains(l, u)
           /\ l = << >> => Q!Woken(l) = {} /\ Q!Rest(l) = << >>
           /\ l # << >> => \E h \in Client : Q!Woken(l) = {h}
  <1>1. CASE l = << >>
    <2>1. Q!Woken(l) = {} /\ Q!Rest(l) = l
      BY <1>1 DEF Q!Woken, Q!Rest
    <2> QED BY <1>1, <2>1
  <1>2. CASE l # << >>
    <2>1. Q!Woken(l) = {Head(l)} /\ Q!Rest(l) = Tail(l)
      BY <1>2 DEF Q!Woken, Q!Rest
    <2> QED BY <1>2, <2>1, HeadLeaves
  <1> QED BY <1>1, <1>2

\* msg_queue_send puts its message into the queue.
LEMMA AddQueue ==
    ASSUME MSGQ_MAX_MSGS + Cardinality(Client) < Uchars, MsgInv, ~ strayed, NEW t \in Client, t \notin asleep,
           mpc[t] = "send_woken" \/ (mpc[t] = "send" /\ ~ Q!Full(t)), Q!Add(t)
    PROVE  MsgInv'
  <1> USE DEF MsgInv
  <1>1. PICK s \in Slot : s = handle[t]
    BY DEF InCall
  <1>2. PICK q \in Queues : q = queue[s]
    BY DEF QueueType
  <1>3. PICK x \in Type : x = call[t].type
    BY DEF InCall
  <1>4. PICK m \in Nat : m = Len(q.msg_list) /\ m = q.msgs
    BY <1>2 DEF RoomForWoken, Queues
  <1>5. PICK H : H = Q!Woken(q.receivers)
    OBVIOUS
  <1>6. /\ q.receivers \in Seq(Client) /\ OnceIn(q.receivers)
        /\ q.senders \in Seq(Client) /\ OnceIn(q.senders) /\ q.msg_list \in Seq(Type)
    BY <1>2 DEF Queues, ListedAsleep
  <1>7. /\ H \in SUBSET Client /\ Q!Rest(q.receivers) \in Seq(Client) /\ OnceIn(Q!Rest(q.receivers))
        /\ \A u : Contains(Q!Rest(q.receivers), u) => Contains(q.receivers, u) /\ u \notin H
        /\ q.receivers = << >> => H = {} /\ Q!Rest(q.receivers) = << >>
        /\ q.receivers # << >> => \E h \in Client : H = {h}
        /\ \A h \in H : h \in asleep /\ handle[h] = s /\ mpc[h] = "recv_woken"
    <2>1. \A u \in H : u \in Client /\ Contains(q.receivers, u)
      BY <1>5, <1>6, WakesHead
    <2>2. \A h \in H : h \in asleep /\ handle[h] = s /\ mpc[h] = "recv_woken"
      BY <1>2, <2>1 DEF ListedAsleep
    <2> QED BY <1>5, <1>6, <2>2, WakesHead
  <1>8. <<x>> \o q.msg_list \in Seq(Type) /\ Len(<<x>> \o q.msg_list) = m + 1
    <2>1. <<x>> \in Seq(Type) /\ Len(<<x>>) = 1
      OBVIOUS
    <2>2. PICK l \in Seq(Type) : l = q.msg_list
      BY <1>6
    <2>3. <<x>> \o l \in Seq(Type) /\ Len(<<x>> \o l) = Len(<<x>>) + Len(l)
      BY <2>1, <2>2, ConcatProperties
    <2> QED BY <2>1, <2>2, <2>3, <1>4
  <1>9. PICK k \in Nat : k = Cardinality(WokenAt(s, "send_woken"))
    BY QueueFacts DEF WokenAt
  <1>10. /\ m + 1 + Cardinality(WokenAt(s, "send_woken") \ {t}) <= MSGQ_MAX_MSGS + Cardinality(Client)
         /\ Cardinality(WokenAt(s, "send_woken") \ {t}) \in Nat
    <2>0. WokenAt(s, "send_woken") \in SUBSET Client /\ WokenAt(s, "send_woken") \ {t} \in SUBSET Client
      BY DEF WokenAt
    <2>1. Cardinality(WokenAt(s, "send_woken") \ {t}) \in Nat
      BY <2>0, QueueFacts
    <2>2. CASE mpc[t] = "send_woken"
      <3>1. t \in WokenAt(s, "send_woken")
        BY <1>1, <2>2 DEF WokenAt
      <3>2. Cardinality(WokenAt(s, "send_woken") \ {t}) = k - 1
        BY <2>0, <3>1, <1>9, QueueFacts, FS_RemoveElement
      <3>3. m + k <= MSGQ_MAX_MSGS + Cardinality(Client)
        BY <1>2, <1>4, <1>9 DEF RoomForWoken
      <3> QED BY <2>1, <3>2, <3>3, <1>4, <1>9, QueueFacts
    <2>3. CASE mpc[t] = "send" /\ ~ Q!Full(t)
      <3>1. m <= MSGQ_MAX_MSGS
        BY <1>1, <1>2, <1>4, <2>3, QueueFacts DEF Q!Full, Q!Mine
      <3>2. /\ Cardinality(Client \ {t}) = Cardinality(Client) - 1
            /\ Cardinality(WokenAt(s, "send_woken") \ {t}) <= Cardinality(Client \ {t})
        <4>1. WokenAt(s, "send_woken") \ {t} \subseteq Client \ {t}
          BY <2>0
        <4> QED BY <4>1, QueueFacts, FS_RemoveElement, FS_Subset
      <3> QED BY <2>1, <3>1, <3>2, QueueFacts
    <2> QED BY <2>2, <2>3
  <1>11. (q.msgs + 1) % Uchars = m + 1
    <2>1. m + 1 \in Nat /\ m + 1 < Uchars
      BY <1>10, QueueFacts
    <2> QED BY <2>1, <1>4, QueueFacts, SmallMod
  <1>12. PICK n : n = [q EXCEPT !.msg_list = <<x>> \o q.msg_list, !.msgs = m + 1,
                                !.receivers = Q!Rest(q.receivers)]
    OBVIOUS
  <1>13. /\ n \in Queues /\ n.senders = q.senders /\ n.receivers = Q!Rest(q.receivers)
         /\ n.msgs = m + 1 /\ n.msg_list = <<x>> \o q.msg_list
    <2>1. m + 1 \in Nat
      OBVIOUS
    <2> QED BY <1>7, <1>8, <1>12, <2>1 DEF Queues
  <1>14. /\ queue' = [queue EXCEPT ![s] = n] /\ asleep' = asleep \ H /\ Q!Leave(t) /\ handle' = handle
    BY <1>1, <1>2, <1>3, <1>5, <1>11, <1>12 DEF Q!Add, Q!Mine, Q!WakeFirst
  <1>15. /\ QueueType' /\ InCall' /\ ListedAsleep'
         /\ queue'[s] = n /\ \A r \in Slot \ {s} : queue'[r] = queue[r]
         /\ \A r \in Slot \ {s} : \A step : WokenAt(r, step)' = WokenAt(r, step) \/ step = "out"
         /\ \A step \in {"send_woken", "recv_woken"} :
               WokenAt(s, step)' = (WokenAt(s, step) \ {t}) \cup {h \in H : mpc[h] = step}
    <2>1. \A u \in Client : Contains(q.senders, u) => u \notin H
      BY <1>2, <1>7 DEF ListedAsleep
    <2>2. \A u \in Client : Contains(n.senders, u) => Contains(queue[s].senders, u) /\ u \notin H
      BY <1>2, <1>13, <2>1
    <2>3. \A u \in Client : Contains(n.receivers, u) => Contains(queue[s].receivers, u) /\ u \notin H
      BY <1>2, <1>7, <1>13
    <2>4. OnceIn(n.senders) /\ OnceIn(n.receivers)
      BY <1>6, <1>7, <1>13
    <2>5. H \in SUBSET Client /\ (\A u \in H : u \in asleep /\ handle[u] = s) /\ mpc[t] # "out"
      BY <1>7
    <2>6. LeavesQueue(t, s, n, H)
      BY <1>1, <1>13, <1>14, <2>2, <2>3, <2>4, <2>5 DEF LeavesQueue
    <2> QED BY <2>6, LeaveQueue
  <1>16. RoomForWoken'
    <2>1. WokenAt(s, "send_woken")' = WokenAt(s, "send_woken") \ {t}
      BY <1>7, <1>15
    <2>2. \A r \in Slot \ {s} : WokenAt(r, "send_woken")' = WokenAt(r, "send_woken")
      BY <1>15
    <2> QED BY <1>8, <1>10, <1>13, <1>15, <2>1, <2>2 DEF RoomForWoken
  <1>17. MessagesAwaited'
    <2>1. \A r \in Slot \ {s} : WokenAt(r, "recv_woken")' = WokenAt(r, "recv_woken")
      BY <1>15
    <2>2. ASSUME n.receivers # << >> PROVE m + 1 <= Cardinality(WokenAt(s, "recv_woken")')
      <3>1. q.receivers # << >>
        BY <2>2, <1>7, <1>13
      <3>2. PICK h \in Client : H = {h}
        BY <1>7, <3>1
      <3>3. WokenAt(s, "recv_woken")' = WokenAt(s, "recv_woken") \cup {h}
        <4>1. t \notin WokenAt(s, "recv_woken")
          BY DEF WokenAt
        <4> QED BY <4>1, <3>2, <1>7, <1>15
      <3>4. h \notin WokenAt(s, "recv_woken") /\ IsFiniteSet(WokenAt(s, "recv_woken"))
        BY <1>7, <3>2, QueueFacts DEF WokenAt
      <3>5. Cardinality(WokenAt(s, "recv_woken")') = Cardinality(WokenAt(s, "recv_woken")) + 1
        BY <3>3, <3>4, FS_AddElement
      <3>6. m <= Cardinality(WokenAt(s, "recv_woken")) /\ Cardinality(WokenAt(s, "recv_woken")) \in Nat
        BY <3>1, <3>4, <1>2, <1>4, FS_CardinalityType DEF MessagesAwaited
      <3> QED BY <3>5, <3>6
    <2> QED BY <1>8, <1>13, <1>15, <2>1, <2>2 DEF MessagesAwaited
  <1> QED BY <1>15, <1>16, <1>17

\* send or recv returns and has done nothing.
LEMMA LeaveQuietly ==
    ASSUME MsgInv, NEW t \in Client, t \notin asleep, mpc[t] # "out", mpc[t] # "send_woken",
           mpc[t] = "recv_woken" => queue[handle[t]].msg_list = << >>,
           Q!Leave(t), UNCHANGED <<queue, asleep, handle>>
    PROVE  MsgInv'
  <1> USE DEF MsgInv
  <1>1. PICK s \in Slot : s = handle[t]
    BY DEF InCall
  <1>2. queue[s] \in Queues /\ queue = [queue EXCEPT ![s] = queue[s]]
    BY DEF QueueType
  <1>3. OnceIn(queue[s].senders) /\ OnceIn(queue[s].receivers)
    BY DEF ListedAsleep
  <1>4. LeavesQueue(t, s, queue[s], {})
    BY <1>1, <1>2, <1>3 DEF LeavesQueue
  <1>5. /\ QueueType' /\ InCall' /\ ListedAsleep' /\ \A r \in Slot : queue'[r] = queue[r]
        /\ \A r \in Slot \ {s} : \A step : WokenAt(r, step)' = WokenAt(r, step) \/ step = "out"
        /\ \A step \in {"send_woken", "recv_woken"} :
              WokenAt(s, step)' = (WokenAt(s, step) \ {t}) \cup {h \in {} : mpc[h] = step}
    BY <1>4, LeaveQueue
  <1>6. \A r \in Slot : WokenAt(r, "send_woken")' = WokenAt(r, "send_woken")
    <2>1. t \notin WokenAt(s, "send_woken")
      BY DEF WokenAt
    <2> QED BY <2>1, <1>5
  <1>7. RoomForWoken'
    BY <1>5, <1>6 DEF RoomForWoken
  <1>8. ASSUME NEW r \in Slot, queue[r].receivers # << >>
        PROVE  Len(queue[r].msg_list) <= Cardinality(WokenAt(r, "recv_woken")')
    <2>1. CASE r = s /\ mpc[t] = "recv_woken"
      <3>1. Len(queue[r].msg_list) = 0
        BY <2>1, <1>1
      <3>2. WokenAt(r, "recv_woken")' \in SUBSET Client
        BY DEF WokenAt
      <3>3. Cardinality(WokenAt(r, "recv_woken")') \in Nat
        BY <3>2, QueueFacts
      <3> QED BY <3>1, <3>3
    <2>2. CASE r # s \/ mpc[t] # "recv_woken"
      <3>1. r = s => t \notin WokenAt(s, "recv_woken")
        BY <2>2 DEF WokenAt
      <3>2. WokenAt(r, "recv_woken")' = WokenAt(r, "recv_woken")
        BY <3>1, <1>5
      <3> QED BY <3>2, <1>8 DEF MessagesAwaited
    <2> QED BY <2>1, <2>2
  <1>9. MessagesAwaited'
    BY <1>5, <1>8 DEF MessagesAwaited
  <1> QED BY <1>5, <1>7, <1>9

\* msg_queue_recv takes the first message, or finds none.
LEMMA SearchQueue ==
    ASSUME MSGQ_MAX_MSGS + Cardinality(Client) < Uchars, MsgInv, ~ strayed, NEW t \in Client, t \notin asleep,
           mpc[t] \in {"recv", "recv_woken"}, Q!Search(t)
    PROVE  MsgInv'
  <1> USE DEF MsgInv
  <1>1. PICK s \in Slot : s = handle[t]
    BY DEF InCall
  <1>2. PICK q \in Queues : q = queue[s]
    BY DEF QueueType
  <1>3. /\ q.receivers \in Seq(Client) /\ OnceIn(q.receivers)
        /\ q.senders \in Seq(Client) /\ OnceIn(q.senders) /\ q.msg_list \in Seq(Type)
    BY <1>2 DEF Queues, ListedAsleep
  <1>4. PICK m \in Nat : m = Len(q.msg_list) /\ m = q.msgs
    BY <1>2 DEF RoomForWoken, Queues
  <1>5. Q!Found(t) = 1 .. m
    <2>1. \A i \in DOMAIN q.msg_list : q.msg_list[i] \in Type
      BY <1>3
    <2>2. \A i \in DOMAIN q.msg_list : Q!Matches(call[t], q.msg_list[i])
      BY <2>1 DEF InCall
    <2>3. DOMAIN q.msg_list = 1 .. m
      <3>1. PICK l \in Seq(Type) : l = q.msg_list
        BY <1>3
      <3>2. DOMAIN l = 1 .. Len(l)
        OBVIOUS
      <3> QED BY <3>1, <3>2, <1>4
    <2>4. Q!Found(t) = {i \in DOMAIN q.msg_list : Q!Matches(call[t], q.msg_list[i])}
      BY <1>1, <1>2 DEF Q!Found, Q!Mine
    <2>5. {i \in DOMAIN q.msg_list : Q!Matches(call[t], q.msg_list[i])} = DOMAIN q.msg_list
      BY <2>2
    <2> QED BY <2>3, <2>4, <2>5
  <1>6. CASE m = 0
    <2>1. Q!Found(t) = {}
      BY <1>5, <1>6
    <2>2. Q!Leave(t) /\ UNCHANGED <<queue, asleep, handle>>
      BY <2>1 DEF Q!Search
    <2>3. q.msg_list = << >>
      BY <1>3, <1>4, <1>6, EmptySeq
    <2> QED BY <2>2, <2>3, <1>1, <1>2, LeaveQuietly
  <1>7. CASE m # 0
    <2>1. (CHOOSE k \in Q!Found(t) : \A x \in Q!Found(t) : k <= x) = 1
      <3>1. 1 \in 1 .. m /\ \A x \in 1 .. m : 1 <= x
        BY <1>7
      <3>2. \A k \in 1 .. m : (\A x \in 1 .. m : k <= x) => k = 1
        BY <3>1
      <3> QED BY <1>5, <3>1, <3>2
    <2>2. PICK H : H = Q!Woken(q.senders)
      OBVIOUS
    <2>3. PICK l \in Seq(Type) : l = Q!RemoveAt(q.msg_list, 1) /\ Len(l) = m - 1
      <3>1. q.msg_list # << >>
        BY <1>4, <1>7
      <3> QED BY <3>1, <1>3, <1>4, FirstTaken
    <2>4. /\ Q!Rest(q.senders) \in Seq(Client) /\ OnceIn(Q!Rest(q.senders))
          /\ H \in SUBSET Client /\ \A u \in H : Contains(q.senders, u)
          /\ \A u : Contains(Q!Rest(q.senders), u) => Contains(q.senders, u) /\ u \notin H
          /\ H = {} \/ \E h \in Client : H = {h}
      BY <2>2, <1>3, WakesHead
    <2>5. \A h \in H : h \in asleep /\ handle[h] = s /\ mpc[h] = "send_woken"
      BY <2>4, <1>2 DEF ListedAsleep
    <2>6. (q.msgs - 1) % Uchars = m - 1 /\ m - 1 \in Nat
      <3>1. WokenAt(s, "send_woken") \in SUBSET Client
        BY DEF WokenAt
      <3>2. PICK k \in Nat : k = Cardinality(WokenAt(s, "send_woken"))
        BY <3>1, QueueFacts
      <3>3. m + k <= MSGQ_MAX_MSGS + Cardinality(Client)
        BY <3>2, <1>2, <1>4 DEF RoomForWoken
      <3>4. m - 1 \in Nat /\ m - 1 < Uchars
        BY <3>3, <1>7, QueueFacts
      <3> QED BY <3>4, <1>4, QueueFacts, SmallMod
    <2>7. PICK n : n = [q EXCEPT !.msg_list = l, !.msgs = m - 1, !.senders = Q!Rest(q.senders)]
      OBVIOUS
    <2>7a. m - 1 \in Nat /\ Q!Rest(q.senders) \in Seq(Client)
      BY <2>4, <2>6
    <2>8. /\ n \in Queues /\ n.senders = Q!Rest(q.senders) /\ n.receivers = q.receivers
          /\ n.msgs = m - 1 /\ n.msg_list = l
      BY <2>7, <2>7a DEF Queues
    <2>9. Q!Leave(t) /\ handle' = handle
      BY DEF Q!Search
    <2>10. queue' = [queue EXCEPT ![s] = n] /\ asleep' = asleep \ H
      <3>1. Q!Found(t) # {}
        <4>1. 1 \in 1 .. m
          BY <1>7
        <4> QED BY <4>1, <1>5
      <3>2. /\ queue' = [queue EXCEPT ![s] =
                            [q EXCEPT !.msg_list = Q!RemoveAt(q.msg_list, 1), !.msgs = (q.msgs - 1) % Uchars,
                                      !.senders = Q!Rest(q.senders)]]
            /\ asleep' = asleep \ Q!Woken(q.senders)
        BY <3>1, <2>1, <1>1, <1>2 DEF Q!Search, Q!Mine, Q!WakeFirst
      <3> QED BY <3>2, <2>2, <2>3, <2>6, <2>7
    <2>11. LeavesQueue(t, s, n, H)
      <3>1. \A u \in Client : Contains(n.senders, u) => Contains(queue[s].senders, u) /\ u \notin H
        BY <2>4, <2>8, <1>2
      <3>2. \A u \in Client : Contains(n.receivers, u) => Contains(queue[s].receivers, u) /\ u \notin H
        <4>1. \A u \in Client : Contains(q.receivers, u) => u \notin H
          BY <2>5, <1>2 DEF ListedAsleep
        <4> QED BY <4>1, <2>8, <1>2
      <3>3. OnceIn(n.senders) /\ OnceIn(n.receivers)
        BY <2>4, <2>8, <1>3
      <3> QED BY <1>1, <2>4, <2>5, <2>8, <2>9, <2>10, <3>1, <3>2, <3>3 DEF LeavesQueue
    <2>12. /\ QueueType' /\ InCall' /\ ListedAsleep'
           /\ queue'[s] = n /\ \A r \in Slot \ {s} : queue'[r] = queue[r]
           /\ \A r \in Slot \ {s} : \A step : WokenAt(r, step)' = WokenAt(r, step) \/ step = "out"
           /\ \A step \in {"send_woken", "recv_woken"} :
                 WokenAt(s, step)' = (WokenAt(s, step) \ {t}) \cup {h \in H : mpc[h] = step}
      BY <2>11, LeaveQueue
    <2>13. /\ WokenAt(s, "send_woken") \in SUBSET Client /\ IsFiniteSet(WokenAt(s, "send_woken"))
           /\ WokenAt(s, "recv_woken") \in SUBSET Client /\ IsFiniteSet(WokenAt(s, "recv_woken"))
           /\ Cardinality(WokenAt(s, "send_woken")) \in Nat /\ Cardinality(WokenAt(s, "recv_woken")) \in Nat
      <3>1. WokenAt(s, "send_woken") \in SUBSET Client /\ WokenAt(s, "recv_woken") \in SUBSET Client
        BY DEF WokenAt
      <3> QED BY <3>1, QueueFacts
    <2>14. RoomForWoken'
      <3>1. WokenAt(s, "send_woken")' = WokenAt(s, "send_woken") \cup H
        <4>1. t \notin WokenAt(s, "send_woken")
          BY DEF WokenAt
        <4> QED BY <4>1, <2>5, <2>12
      <3>2. Cardinality(WokenAt(s, "send_woken") \cup H) <= Cardinality(WokenAt(s, "send_woken")) + 1
        <4>1. CASE H = {}
          BY <4>1, <2>13
        <4>2. ASSUME NEW h \in Client, H = {h} PROVE <3>2
          <5>1. Cardinality(WokenAt(s, "send_woken") \cup {h}) =
                  IF h \in WokenAt(s, "send_woken") THEN Cardinality(WokenAt(s, "send_woken"))
                  ELSE Cardinality(WokenAt(s, "send_woken")) + 1
            BY <2>13, FS_AddElement
          <5> QED BY <5>1, <4>2, <2>13
        <4> QED BY <4>1, <4>2, <2>4
      <3>3. /\ Cardinality(WokenAt(s, "send_woken") \cup H) \in Nat
            /\ m + Cardinality(WokenAt(s, "send_woken")) <= MSGQ_MAX_MSGS + Cardinality(Client)
        <4>1. WokenAt(s, "send_woken") \cup H \in SUBSET Client
          BY <2>4, <2>13
        <4> QED BY <4>1, <1>2, <1>4, QueueFacts DEF RoomForWoken
      <3>4. m - 1 + Cardinality(WokenAt(s, "send_woken") \cup H) <= MSGQ_MAX_MSGS + Cardinality(Client)
        BY <3>2, <3>3, <2>13, QueueFacts
      <3>5. \A r \in Slot \ {s} : WokenAt(r, "send_woken")' = WokenAt(r, "send_woken")
        BY <2>12
      <3> QED BY <2>3, <2>8, <2>12, <3>1, <3>4, <3>5 DEF RoomForWoken
    <2>15. MessagesAwaited'
      <3>1. WokenAt(s, "recv_woken")' = WokenAt(s, "recv_woken") \ {t}
        BY <2>5, <2>12
      <3>2. ASSUME q.receivers # << >> PROVE m - 1 <= Cardinality(WokenAt(s, "recv_woken") \ {t})
        <4>1. m <= Cardinality(WokenAt(s, "recv_woken"))
          BY <3>2, <1>2, <1>4 DEF MessagesAwaited
        <4>2. Cardinality(WokenAt(s, "recv_woken") \ {t}) =
                IF t \in WokenAt(s, "recv_woken") THEN Cardinality(WokenAt(s, "recv_woken")) - 1
                ELSE Cardinality(WokenAt(s, "recv_woken"))
          BY <2>13, FS_RemoveElement
        <4> QED BY <4>1, <4>2, <2>13
      <3>3. \A r \in Slot \ {s} : WokenAt(r, "recv_woken")' = WokenAt(r, "recv_woken")
        BY <2>12
      <3> QED BY <2>3, <2>8, <2>12, <3>1, <3>2, <3>3 DEF MessagesAwaited
    <2> QED BY <2>12, <2>14, <2>15
  <1> QED BY <1>6, <1>7

\* A task goes to sleep in one of the two lists.
LEMMA WaitQueue ==
    ASSUME MsgInv, ~ strayed, NEW t \in Client, Q!SendWait(t) \/ Q!RecvWait(t)
    PROVE  MsgInv'
  <1> USE DEF MsgInv
  <1>1. PICK s \in Slot : s = handle[t]
    BY DEF InCall, Q!SendWait, Q!RecvWait
  <1>2. PICK q \in Queues : q = queue[s]
    BY DEF QueueType
  <1>3. /\ q.receivers \in Seq(Client) /\ OnceIn(q.receivers)
        /\ q.senders \in Seq(Client) /\ OnceIn(q.senders) /\ q.msg_list \in Seq(Type)
    BY <1>2 DEF Queues, ListedAsleep
  <1>4. /\ mpc[t] \in {"send", "recv"} /\ t \notin asleep
        /\ ~ Contains(q.senders, t) /\ ~ Contains(q.receivers, t)
    <2>1. mpc[t] \in {"send", "recv"}
      BY DEF Q!SendWait, Q!RecvWait
    <2>2. t \notin asleep
      BY <2>1 DEF ListedAsleep
    <2> QED BY <1>2, <2>1, <2>2 DEF ListedAsleep
  <1>5. PICK step \in {"send_woken", "recv_woken"} : step = IF mpc[t] = "send" THEN "send_woken" ELSE "recv_woken"
    BY <1>4
  <1>6. /\ asleep' = asleep \cup {t} /\ handle' = handle /\ call' = call
        /\ mpc' = [mpc EXCEPT ![t] = step]
    BY <1>5 DEF Q!SendWait, Q!RecvWait
  <1>7. PICK n : n = IF mpc[t] = "send" THEN [q EXCEPT !.senders = Append(q.senders, t)]
                                        ELSE [q EXCEPT !.receivers = Append(q.receivers, t)]
    OBVIOUS
  <1>8. queue' = [queue EXCEPT ![s] = n]
    <2>1. CASE mpc[t] = "send"
      <3>1. queue' = [queue EXCEPT ![s].senders = Append(@, t)]
        BY <1>1, <2>1 DEF Q!SendWait, Q!RecvWait, Q!Mine, Q!Enter
      <3> QED BY <3>1, <1>2, <1>7, <2>1
    <2>2. CASE mpc[t] = "recv"
      <3>1. queue' = [queue EXCEPT ![s].receivers = Append(@, t)]
        BY <1>1, <2>2 DEF Q!SendWait, Q!RecvWait, Q!Mine, Q!Enter
      <3> QED BY <3>1, <1>2, <1>7, <2>2
    <2> QED BY <1>4, <2>1, <2>2
  <1>9. /\ Append(q.senders, t) \in Seq(Client) /\ OnceIn(Append(q.senders, t))
        /\ \A u : Contains(Append(q.senders, t), u) <=> (Contains(q.senders, u) \/ u = t)
        /\ Append(q.receivers, t) \in Seq(Client) /\ OnceIn(Append(q.receivers, t))
        /\ \A u : Contains(Append(q.receivers, t), u) <=> (Contains(q.receivers, u) \/ u = t)
    BY <1>3, <1>4, AddLast
  <1>10. /\ n \in Queues /\ n.msgs = q.msgs /\ n.msg_list = q.msg_list
         /\ n.senders = IF mpc[t] = "send" THEN Append(q.senders, t) ELSE q.senders
         /\ n.receivers = IF mpc[t] = "send" THEN q.receivers ELSE Append(q.receivers, t)
    BY <1>7, <1>9 DEF Queues
  <1>11. /\ queue'[s] = n /\ \A r \in Slot \ {s} : queue'[r] = queue[r]
         /\ mpc'[t] = step /\ \A u \in Client \ {t} : mpc'[u] = mpc[u]
    BY <1>6, <1>8 DEF QueueType
  <1>12. QueueType'
    BY <1>6, <1>8, <1>10 DEF QueueType
  <1>13. InCall'
    <2>1. \A u \in Client \ {t} : mpc'[u] = mpc[u]
      BY <1>11
    <2>2. mpc'[t] = "send_woken" <=> mpc[t] = "send"
      BY <1>4, <1>5, <1>11
    <2> QED BY <1>4, <1>6, <1>11, <2>1, <2>2 DEF InCall
  <1>14. ListedAsleep'
    <2>1. \A u \in asleep' : mpc'[u] \in {"send_woken", "recv_woken"}
      BY <1>6, <1>11 DEF ListedAsleep, QueueType
    <2>2. \A r \in Slot : OnceIn(queue'[r].senders) /\ OnceIn(queue'[r].receivers)
      BY <1>3, <1>9, <1>10, <1>11 DEF ListedAsleep
    <2>3. ASSUME NEW r \in Slot, NEW u \in Client, Contains(queue'[r].senders, u)
          PROVE  u \in asleep' /\ handle'[u] = r /\ mpc'[u] = "send_woken"
      <3>1. CASE Contains(queue[r].senders, u)
        <4>1. u \in asleep /\ handle[u] = r /\ mpc[u] = "send_woken"
          BY <3>1 DEF ListedAsleep
        <4> QED BY <4>1, <1>4, <1>6, <1>11
      <3>2. CASE ~ Contains(queue[r].senders, u)
        <4>1. r = s /\ u = t /\ mpc[t] = "send"
          BY <2>3, <3>2, <1>2, <1>9, <1>10, <1>11
        <4> QED BY <4>1, <1>1, <1>5, <1>6, <1>11
      <3> QED BY <3>1, <3>2
    <2>4. ASSUME NEW r \in Slot, NEW u \in Client, Contains(queue'[r].receivers, u)
          PROVE  u \in asleep' /\ handle'[u] = r /\ mpc'[u] = "recv_woken"
      <3>1. CASE Contains(queue[r].receivers, u)
        <4>1. u \in asleep /\ handle[u] = r /\ mpc[u] = "recv_woken"
          BY <3>1 DEF ListedAsleep
        <4> QED BY <4>1, <1>4, <1>6, <1>11
      <3>2. CASE ~ Contains(queue[r].receivers, u)
        <4>1. r = s /\ u = t /\ mpc[t] # "send"
          BY <2>4, <3>2, <1>2, <1>9, <1>10, <1>11
        <4> QED BY <4>1, <1>1, <1>5, <1>6, <1>11
      <3> QED BY <3>1, <3>2
    <2> QED BY <2>1, <2>2, <2>3, <2>4 DEF ListedAsleep
  <1>15. \A r \in Slot : \A x \in {"send_woken", "recv_woken"} : WokenAt(r, x)' = WokenAt(r, x)
    <2>1. ASSUME NEW r \in Slot, NEW x \in {"send_woken", "recv_woken"}, NEW u \in Client
          PROVE  (handle'[u] = r /\ mpc'[u] = x /\ u \notin asleep')
                    <=> (handle[u] = r /\ mpc[u] = x /\ u \notin asleep)
      BY <1>4, <1>6, <1>11
    <2> QED BY <2>1 DEF WokenAt
  <1>16. RoomForWoken'
    BY <1>2, <1>10, <1>11, <1>15 DEF RoomForWoken
  <1>17. MessagesAwaited'
    <2>1. ASSUME n.receivers # << >> PROVE Len(n.msg_list) <= Cardinality(WokenAt(s, "recv_woken"))
      <3>1. CASE mpc[t] = "send"
        BY <2>1, <3>1, <1>2, <1>10 DEF MessagesAwaited
      <3>2. CASE mpc[t] = "recv"
        <4>1. q.msgs = 0 /\ q.msgs = Len(q.msg_list)
          BY <3>2, <1>1, <1>2 DEF Q!SendWait, Q!RecvWait, Q!Mine, RoomForWoken
        <4>2. WokenAt(s, "recv_woken") \in SUBSET Client
          BY DEF WokenAt
        <4>3. Cardinality(WokenAt(s, "recv_woken")) \in Nat
          BY <4>2, QueueFacts
        <4> QED BY <4>1, <4>3, <1>10
      <3> QED BY <3>1, <3>2, <1>4
    <2> QED BY <2>1, <1>11, <1>15 DEF MessagesAwaited
  <1> QED BY <1>12, <1>13, <1>14, <1>16, <1>17

\* msg_queue_get, msg_queue_put and the lookup of send and recv.
LEMMA GetQueue ==
    ASSUME MsgInv, NEW t \in Client, NEW x \in Name, NEW s \in Slot, Q!msg_queue_get(t, x, s)
    PROVE  MsgInv'
  <1> USE DEF MsgInv
  <1>1. mpc[t] = "out" /\ handle' = [handle EXCEPT ![t] = s] /\ UNCHANGED <<asleep, mpc, call>>
    BY DEF Q!msg_queue_get
  <1>2. queue' = queue \/ (queue[s].name = NoName /\ queue' = [queue EXCEPT ![s] = Q!Fresh(x)])
    BY DEF Q!msg_queue_get
  <1>3. /\ Q!Fresh(x) \in Queues /\ Q!Fresh(x).senders = << >> /\ Q!Fresh(x).receivers = << >>
        /\ Q!Fresh(x).msgs = 0 /\ Q!Fresh(x).msg_list = << >>
    BY DEF Q!Fresh, Queues
  <1>4. /\ \A u \in Client \ {t} : handle'[u] = handle[u]
        /\ \A r \in Slot : queue'[r] = queue[r] \/ queue'[r] = Q!Fresh(x)
        /\ \A r \in Slot : \A step \in {"send_woken", "recv_woken"} : WokenAt(r, step)' = WokenAt(r, step)
    <2>1. \A u \in Client \ {t} : handle'[u] = handle[u]
      BY <1>1 DEF QueueType
    <2>2. \A r \in Slot : queue'[r] = queue[r] \/ queue'[r] = Q!Fresh(x)
      BY <1>2 DEF QueueType
    <2>3. ASSUME NEW r \in Slot, NEW step \in {"send_woken", "recv_woken"}
          PROVE  WokenAt(r, step)' = WokenAt(r, step)
      <3>1. \A u \in Client : (handle'[u] = r /\ mpc'[u] = step /\ u \notin asleep')
                                <=> (handle[u] = r /\ mpc[u] = step /\ u \notin asleep)
        BY <1>1, <2>1
      <3> QED BY <3>1 DEF WokenAt
    <2> QED BY <2>1, <2>2, <2>3
  <1>5. QueueType'
    <2>1. queue' \in [Slot -> Queues]
      BY <1>2, <1>3 DEF QueueType
    <2> QED BY <1>1, <2>1 DEF QueueType
  <1>6. InCall'
    BY <1>1, <1>4 DEF InCall
  <1>7. ListedAsleep'
    <2>1. OnceIn(<< >>) /\ \A u : ~ Contains(<< >>, u)
      BY DEF OnceIn, Contains
    <2>2. \A r \in Slot : OnceIn(queue'[r].senders) /\ OnceIn(queue'[r].receivers)
      BY <1>3, <1>4, <2>1 DEF ListedAsleep
    <2>3. ASSUME NEW r \in Slot, NEW u \in Client, Contains(queue'[r].senders, u)
          PROVE  u \in asleep' /\ handle'[u] = r /\ mpc'[u] = "send_woken"
      <3>1. Contains(queue[r].senders, u)
        BY <2>3, <2>1, <1>3, <1>4
      <3>2. u \in asleep /\ handle[u] = r /\ mpc[u] = "send_woken"
        BY <3>1 DEF ListedAsleep
      <3> QED BY <3>2, <1>1, <1>4
    <2>4. ASSUME NEW r \in Slot, NEW u \in Client, Contains(queue'[r].receivers, u)
          PROVE  u \in asleep' /\ handle'[u] = r /\ mpc'[u] = "recv_woken"
      <3>1. Contains(queue[r].receivers, u)
        BY <2>4, <2>1, <1>3, <1>4
      <3>2. u \in asleep /\ handle[u] = r /\ mpc[u] = "recv_woken"
        BY <3>1 DEF ListedAsleep
      <3> QED BY <3>2, <1>1, <1>4
    <2>5. \A u \in asleep' : mpc'[u] \in {"send_woken", "recv_woken"}
      BY <1>1 DEF ListedAsleep
    <2> QED BY <2>2, <2>3, <2>4, <2>5 DEF ListedAsleep
  <1>8. RoomForWoken'
    <2>1. ASSUME NEW r \in Slot
          PROVE  Cardinality(WokenAt(r, "send_woken")) <= MSGQ_MAX_MSGS + Cardinality(Client)
                 /\ Cardinality(WokenAt(r, "send_woken")) \in Nat
      <3>1. WokenAt(r, "send_woken") \subseteq Client
        BY DEF WokenAt
      <3>2. /\ Cardinality(WokenAt(r, "send_woken")) <= Cardinality(Client)
            /\ Cardinality(WokenAt(r, "send_woken")) \in Nat
        BY <3>1, QueueFacts, FS_Subset
      <3> QED BY <3>2, QueueFacts
    <2>2. Len(Q!Fresh(x).msg_list) = 0 /\ Q!Fresh(x).msgs = 0
      BY <1>3
    <2>3. ASSUME NEW r \in Slot
          PROVE  /\ queue'[r].msgs = Len(queue'[r].msg_list)
                 /\ Len(queue'[r].msg_list) + Cardinality(WokenAt(r, "send_woken")) <= MSGQ_MAX_MSGS + Cardinality(Client)
      <3>1. CASE queue'[r] = queue[r]
        BY <3>1 DEF RoomForWoken
      <3>2. CASE queue'[r] = Q!Fresh(x)
        BY <3>2, <2>1, <2>2
      <3> QED BY <3>1, <3>2, <1>4
    <2> QED BY <2>3, <1>4 DEF RoomForWoken
  <1>9. MessagesAwaited'
    <2>1. ASSUME NEW r \in Slot, queue'[r].receivers # << >>
          PROVE  Len(queue'[r].msg_list) <= Cardinality(WokenAt(r, "recv_woken"))
      <3>1. queue'[r] = queue[r]
        BY <2>1, <1>3, <1>4
      <3> QED BY <2>1, <3>1 DEF MessagesAwaited
    <2> QED BY <2>1, <1>4 DEF MessagesAwaited
  <1> QED BY <1>5, <1>6, <1>7, <1>8, <1>9

LEMMA PutQueue ==
    ASSUME MsgInv, NEW t \in Client, Q!msg_queue_put(t)
    PROVE  MsgInv'
  <1> USE DEF MsgInv
  <1>1. PICK s \in Slot : s = handle[t] /\ queue' = [queue EXCEPT ![s].name = NoName]
    BY DEF Q!msg_queue_put, Q!Mine
  <1>2. UNCHANGED <<asleep, handle, mpc, call>>
    BY DEF Q!msg_queue_put
  <1>3. QueueType'
    <2>1. queue[s] \in Queues
      BY DEF QueueType
    <2>2. [queue[s] EXCEPT !.name = NoName] \in Queues
      BY <2>1 DEF Queues
    <2>3. queue' = [queue EXCEPT ![s] = [queue[s] EXCEPT !.name = NoName]]
      BY <1>1
    <2> QED BY <1>2, <2>2, <2>3 DEF QueueType
  <1>4. \A r \in Slot : /\ queue'[r].senders = queue[r].senders /\ queue'[r].receivers = queue[r].receivers
                         /\ queue'[r].msgs = queue[r].msgs /\ queue'[r].msg_list = queue[r].msg_list
    BY <1>1 DEF QueueType, Queues
  <1>5. InCall' /\ ListedAsleep'
    BY <1>2, <1>4 DEF InCall, ListedAsleep
  <1>6. RoomForWoken' /\ MessagesAwaited'
    <2>1. \A r \in Slot : \A step : WokenAt(r, step)' = WokenAt(r, step)
      BY <1>2 DEF WokenAt
    <2> QED BY <1>4, <2>1 DEF RoomForWoken, MessagesAwaited
  <1> QED BY <1>3, <1>5, <1>6

LEMMA FindQueue ==
    ASSUME MsgInv, NEW t \in Client,
           \/ \E type \in Type, now \in BOOLEAN : Q!SendFind(t, type, now)
           \/ \E select \in {<<0, FALSE>>, <<-Greatest, FALSE>>, <<Greatest + 1, TRUE>>}, now \in BOOLEAN :
                 Q!RecvFind(t, select, now)
    PROVE  MsgInv'
  <1> USE DEF MsgInv
  <1>1. PICK c \in [type : Int, except : BOOLEAN, nowait : BOOLEAN], step \in {"send", "recv"} :
           /\ Q!Find(t, step, c)
           /\ step = "send" => c.type \in Type
           /\ step = "recv" => \A x \in Type : Q!Matches(c, x)
    <2>1. CASE \E type \in Type, now \in BOOLEAN : Q!SendFind(t, type, now)
      <3>1. PICK type \in Type, now \in BOOLEAN : Q!SendFind(t, type, now)
        BY <2>1
      <3>2. PICK c : c = [type |-> type, except |-> FALSE, nowait |-> now]
        OBVIOUS
      <3>3. Q!Find(t, "send", c)
        BY <3>1, <3>2 DEF Q!SendFind
      <3>4. c \in [type : Int, except : BOOLEAN, nowait : BOOLEAN] /\ c.type = type
        BY <3>2, QueueFacts
      <3> QED BY <3>3, <3>4
    <2>2. CASE \E select \in {<<0, FALSE>>, <<-Greatest, FALSE>>, <<Greatest + 1, TRUE>>}, now \in BOOLEAN :
                  Q!RecvFind(t, select, now)
      <3>1. PICK select \in {<<0, FALSE>>, <<-Greatest, FALSE>>, <<Greatest + 1, TRUE>>}, now \in BOOLEAN :
               Q!RecvFind(t, select, now)
        BY <2>2
      <3>2. PICK c : c = [type |-> select[1], except |-> select[2], nowait |-> now]
        OBVIOUS
      <3>3. Q!Find(t, "recv", c)
        BY <3>1, <3>2 DEF Q!RecvFind
      <3>4. select[1] \in Int /\ select[2] \in BOOLEAN /\ <<select[1], select[2]>> = select
        <4>1. Greatest \in Type
          BY IpcAssumption DEF Greatest
        <4>2. 0 \in Int /\ -Greatest \in Int /\ Greatest + 1 \in Int
          BY <4>1, QueueFacts
        <4>3. CASE select = <<0, FALSE>>
          BY <4>2, <4>3
        <4>4. CASE select = <<-Greatest, FALSE>>
          BY <4>2, <4>4
        <4>5. CASE select = <<Greatest + 1, TRUE>>
          BY <4>2, <4>5
        <4> QED BY <4>3, <4>4, <4>5
      <3>5. c \in [type : Int, except : BOOLEAN, nowait : BOOLEAN] /\ <<c.type, c.except>> = select
        BY <3>2, <3>4
      <3> QED BY <3>3, <3>5, EverythingSuits
    <2> QED BY <2>1, <2>2
  <1>2. /\ mpc[t] = "out" /\ handle[t] \in Slot
        /\ mpc' = [mpc EXCEPT ![t] = step] /\ call' = [call EXCEPT ![t] = c]
        /\ UNCHANGED <<queue, asleep, handle>>
    BY <1>1 DEF Q!Find, Q!Mine
  <1>3. /\ QueueType' /\ mpc'[t] = step /\ call'[t] = c
        /\ \A u \in Client \ {t} : mpc'[u] = mpc[u] /\ call'[u] = call[u]
    BY <1>2 DEF QueueType
  <1>4. InCall'
    BY <1>1, <1>2, <1>3 DEF InCall
  <1>5. ListedAsleep'
    <2>1. \A u \in asleep : u # t
      BY <1>2 DEF ListedAsleep
    <2>2. \A u \in asleep : mpc'[u] = mpc[u]
      BY <1>3, <2>1 DEF QueueType
    <2> QED BY <1>2, <2>2 DEF ListedAsleep
  <1>6. RoomForWoken' /\ MessagesAwaited'
    <2>1. ASSUME NEW r \in Slot, NEW x \in {"send_woken", "recv_woken"} PROVE WokenAt(r, x)' = WokenAt(r, x)
      <3>1. \A u \in Client : mpc'[u] = x <=> mpc[u] = x
        BY <1>2, <1>3
      <3> QED BY <1>2, <3>1 DEF WokenAt
    <2> QED BY <1>2, <2>1 DEF RoomForWoken, MessagesAwaited
  <1> QED BY <1>3, <1>4, <1>5, <1>6

LEMMA QueueInit == Q!Init => MsgInv
  <1> SUFFICES ASSUME Q!Init PROVE MsgInv
    OBVIOUS
  <1>1. /\ queue = [s \in Slot |-> Q!Fresh(NoName)] /\ asleep = {}
        /\ handle = [t \in Client |-> NoName] /\ mpc = [t \in Client |-> "out"]
        /\ call = [t \in Client |-> Q!NoCall]
    BY DEF Q!Init
  <1>2. /\ Q!Fresh(NoName) \in Queues
        /\ Q!Fresh(NoName).senders = << >> /\ Q!Fresh(NoName).receivers = << >>
        /\ Q!Fresh(NoName).msgs = 0 /\ Q!Fresh(NoName).msg_list = << >>
    BY DEF Q!Fresh, Queues
  <1>3. QueueType
    <2>1. Q!NoCall \in [type : Int, except : BOOLEAN, nowait : BOOLEAN]
      BY DEF Q!NoCall
    <2> QED BY <1>1, <1>2, <2>1 DEF QueueType
  <1>4. InCall
    BY <1>1 DEF InCall
  <1>5. ListedAsleep
    <2>1. OnceIn(<< >>) /\ \A u : ~ Contains(<< >>, u)
      BY DEF OnceIn, Contains
    <2> QED BY <1>1, <1>2, <2>1 DEF ListedAsleep
  <1>6. \A s \in Slot, step \in {"send_woken", "recv_woken"} : WokenAt(s, step) = {}
    BY <1>1 DEF WokenAt
  <1>7. RoomForWoken
    <2>1. Cardinality({}) = 0 /\ Len(<< >>) = 0
      BY FS_EmptySet
    <2>2. 0 + 0 <= MSGQ_MAX_MSGS + Cardinality(Client)
      BY QueueFacts
    <2> QED BY <1>1, <1>2, <1>6, <2>1, <2>2 DEF RoomForWoken
  <1>8. MessagesAwaited
    BY <1>1, <1>2 DEF MessagesAwaited
  <1> QED BY <1>3, <1>4, <1>5, <1>7, <1>8 DEF MsgInv

\* Nothing is said of the wait queues once a trigger has woken who is in one.
MsgKept == ~ strayed => MsgInv

LEMMA NextQueue ==
    ASSUME MSGQ_MAX_MSGS + Cardinality(Client) < Uchars, MsgKept, [Q!Next]_(Q!vars)
    PROVE  MsgKept'
  <1> SUFFICES ASSUME ~ strayed' PROVE MsgInv'
    BY DEF MsgKept
  <1>0. ~ strayed
    BY DEF Q!Next, Q!vars, Q!msg_queue_get, Q!msg_queue_put, Q!SendFind, Q!RecvFind, Q!Find,
           Q!Send, Q!SendNow, Q!SendNowait, Q!SendWait, Q!SendWoken, Q!Add,
           Q!Recv, Q!RecvNow, Q!RecvNowait, Q!RecvWait, Q!RecvWoken, Q!Search, Q!Trigger
  <1> MsgInv
    BY <1>0 DEF MsgKept
  <1>1. CASE UNCHANGED Q!vars
    <2>1. UNCHANGED <<queue, asleep, handle, mpc, call>>
      BY <1>1 DEF Q!vars
    <2>2. \A s, step : WokenAt(s, step)' = WokenAt(s, step)
      BY <2>1 DEF WokenAt
    <2> QED BY <2>1, <2>2 DEF MsgInv, QueueType, InCall, ListedAsleep, RoomForWoken, MessagesAwaited
  <1>2. ASSUME NEW t \in Client, NEW x \in Name, NEW s \in Slot, Q!msg_queue_get(t, x, s) PROVE MsgInv'
    BY <1>2, GetQueue
  <1>3. ASSUME NEW t \in Client, Q!msg_queue_put(t) PROVE MsgInv'
    BY <1>3, PutQueue
  <1>4. ASSUME NEW t \in Client,
               \/ \E type \in Type, now \in BOOLEAN : Q!SendFind(t, type, now)
               \/ \E select \in {<<0, FALSE>>, <<-Greatest, FALSE>>, <<Greatest + 1, TRUE>>}, now \in BOOLEAN :
                     Q!RecvFind(t, select, now)
        PROVE  MsgInv'
    BY <1>4, FindQueue
  <1>5. ASSUME NEW t \in Client, Q!Send(t) PROVE MsgInv'
    <2>1. CASE Q!SendNow(t)
      <3>1. mpc[t] = "send" /\ ~ Q!Full(t) /\ Q!Add(t)
        BY <2>1 DEF Q!SendNow
      <3>2. t \notin asleep
        BY <3>1 DEF MsgInv, ListedAsleep
      <3> QED BY <1>0, <3>1, <3>2, AddQueue
    <2>2. CASE Q!SendNowait(t)
      <3>1. mpc[t] = "send" /\ Q!Leave(t) /\ UNCHANGED <<queue, asleep, handle>>
        BY <2>2 DEF Q!SendNowait
      <3>2. t \notin asleep
        BY <3>1 DEF MsgInv, ListedAsleep
      <3> QED BY <3>1, <3>2, LeaveQuietly
    <2>3. CASE Q!SendWait(t)
      BY <1>0, <2>3, WaitQueue
    <2>4. CASE Q!SendWoken(t)
      BY <1>0, <2>4, AddQueue DEF Q!SendWoken
    <2> QED BY <1>5, <2>1, <2>2, <2>3, <2>4 DEF Q!Send
  <1>6. ASSUME NEW t \in Client, Q!Recv(t) PROVE MsgInv'
    <2>1. CASE Q!RecvNow(t)
      <3>1. mpc[t] = "recv" /\ Q!Search(t)
        BY <2>1 DEF Q!RecvNow
      <3>2. t \notin asleep
        BY <3>1 DEF MsgInv, ListedAsleep
      <3> QED BY <1>0, <3>1, <3>2, SearchQueue
    <2>2. CASE Q!RecvNowait(t)
      <3>1. mpc[t] = "recv" /\ Q!Leave(t) /\ UNCHANGED <<queue, asleep, handle>>
        BY <2>2 DEF Q!RecvNowait
      <3>2. t \notin asleep
        BY <3>1 DEF MsgInv, ListedAsleep
      <3> QED BY <3>1, <3>2, LeaveQuietly
    <2>3. CASE Q!RecvWait(t)
      BY <1>0, <2>3, WaitQueue
    <2>4. CASE Q!RecvWoken(t)
      BY <1>0, <2>4, SearchQueue DEF Q!RecvWoken
    <2> QED BY <1>6, <2>1, <2>2, <2>3, <2>4 DEF Q!Recv
  <1> QED BY <1>1, <1>2, <1>3, <1>4, <1>5, <1>6 DEF Q!Next, Q!Trigger

\* msg_queue_send and msg_queue_recv: with fewer tasks than the counter of
\* messages leaves room for, no queue gets more than a message of each task past
\* its limit, and nobody sleeps in recv while there are messages that no woken
\* receiver is on the way to take, if every message suits every receiver; until a
\* trigger wakes a task that is in a wait queue.
THEOREM QueuesServed ==
    ASSUME MSGQ_MAX_MSGS + Cardinality(Client) < Uchars
    PROVE  Q!Spec => []QueueServed
  <1>1. MsgKept => QueueServed
    <2> SUFFICES ASSUME MsgInv PROVE Q!SendersBound /\ Q!NoSleepOnMessages
      BY DEF QueueServed, MsgKept, Q!SendersBound, Q!NoSleepOnMessages
    <2>1. Q!Cardinality(Client) = Cardinality(Client)
      BY DEF Q!Cardinality, Cardinality
    <2>2. ASSUME NEW s \in Slot PROVE Len(queue[s].msg_list) <= MSGQ_MAX_MSGS + Cardinality(Client)
      <3>1. WokenAt(s, "send_woken") \in SUBSET Client /\ queue[s].msg_list \in Seq(Type)
        BY DEF WokenAt, MsgInv, QueueType, Queues
      <3>2. Cardinality(WokenAt(s, "send_woken")) \in Nat /\ Len(queue[s].msg_list) \in Nat
        BY <3>1, QueueFacts
      <3>3. Len(queue[s].msg_list) + Cardinality(WokenAt(s, "send_woken")) <= MSGQ_MAX_MSGS + Cardinality(Client)
        BY DEF MsgInv, RoomForWoken
      <3> QED BY <3>2, <3>3, QueueFacts
    <2>3. ASSUME NEW s \in Slot, queue[s].msgs > 0, queue[s].receivers # << >>
          PROVE  Q!Waking(s, "recv_woken")
      <3>1. queue[s].msg_list \in Seq(Type)
        BY DEF MsgInv, QueueType, Queues
      <3>2. 0 < Len(queue[s].msg_list) /\ Len(queue[s].msg_list) <= Cardinality(WokenAt(s, "recv_woken"))
        BY <2>3 DEF MsgInv, RoomForWoken, MessagesAwaited
      <3>3. WokenAt(s, "recv_woken") # {}
        <4>1. SUFFICES ASSUME WokenAt(s, "recv_woken") = {} PROVE FALSE
          OBVIOUS
        <4>2. Cardinality(WokenAt(s, "recv_woken")) = 0
          BY <4>1, FS_EmptySet
        <4> QED BY <3>1, <3>2, <4>2
      <3> QED BY <3>3 DEF Q!Waking, Q!Mine, WokenAt
    <2> QED BY <2>1, <2>2, <2>3 DEF Q!SendersBound, Q!NoSleepOnMessages
  <1>2. Q!Init => MsgKept
    BY QueueInit DEF MsgKept
  <1> QED BY <1>1, <1>2, NextQueue, PTL DEF Q!Spec

=============================================================================
