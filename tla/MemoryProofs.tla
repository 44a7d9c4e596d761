---------------------------- MODULE MemoryProofs ----------------------------
(***************************************************************************)
(* Proofs about the memory of processes: shared memory (module ShareMem),  *)
(* for any number of processes, pages and slots, and the address ranges of *)
(* a process (VmSpace), for any size of page, zones, lengths and kinds;    *)
(* and about named pipes (NamedPipe), with the pointers in memory of the   *)
(* lists that their two tasks are in, for any size and any requests.       *)
(*                                                                         *)
(* The slot of shared memory is found under a semaphore and used after it. *)
(* What a process then knows of its slot (ProcsAt) stays true until the    *)
(* process is done with it, because the links count everybody who maps the *)
(* memory or is about to be uncounted, and a slot with links is not put    *)
(* away.                                                                   *)
(*                                                                         *)
(* A list of ranges is taken apart where something is inserted or cut out  *)
(* and put together again: what matters of it is that it is in order       *)
(* (InOrder) and which addresses are in it (In).  No gap that is searched  *)
(* for ends behind the stack, which is the last range throughout.          *)
(*                                                                         *)
(* A named pipe has two tasks, so that the ready queue and the list of its *)
(* mutex can be written out.  A task that sleeps for room or bytes has set *)
(* its flag where the other looks; only the one that has taken a task off  *)
(* the list of the mutex unblocks it, until somebody wakes a task that is  *)
(* still linked there.                                                     *)
(***************************************************************************)
EXTENDS MCIpc, SequenceTheorems, FiniteSetTheorems, WellFoundedInduction, TLAPS

-----------------------------------------------------------------------------
(* Shared memory.                                                          *)

ShmPlaces ==
    {"user", "test", "test own", "alloc", "mmap", "share own", "inc", "inc own",
     "unmap", "unmap own", "dec"}

Blocks == Page \cup Proc \cup {NoPage}

Segments ==
    [name : ShmName \cup {NoName}, page : Blocks, links : Int, private : BOOLEAN]

ShmType ==
    /\ shm \in [ShmSlot -> Segments]
    /\ free \subseteq Page /\ live \subseteq Proc /\ attached \subseteq Proc
    /\ view \in [Proc -> Blocks]
    /\ hpc \in [Proc -> ShmPlaces]
    /\ slot \in [Proc -> ShmSlot]

\* A process that does not live has no memory.
DeadMapNothing ==
    \A p \in Proc : p \notin live => hpc[p] = "user" /\ view[p] = NoPage /\ p \notin attached

\* The slot has a name and memory.
Holding(s) == shm[s].name # NoName /\ shm[s].page # NoPage

\* The memory of a slot is not free, is of a living process if it is private,
\* and is that of no other slot.
BlocksHeld ==
    /\ \A s \in ShmSlot : shm[s].name # NoName /\ shm[s].page = NoPage => ~ shm[s].private
    /\ \A s \in ShmSlot : Holding(s) =>
          /\ shm[s].page \notin free
          /\ shm[s].private <=> shm[s].page \in Proc
          /\ shm[s].page \in Proc => shm[s].page \in live
    /\ \A s, r \in ShmSlot : Holding(s) /\ Holding(r) /\ shm[r].page = shm[s].page => r = s

\* What a process that is inside share_mem_map or share_mem_unmap knows of the
\* slot it has found.
ProcAt(p) ==
    /\ hpc[p] # "user" => shm[slot[p]].name # NoName
    /\ hpc[p] \in {"mmap", "inc", "inc own", "unmap", "unmap own", "dec"} =>
          shm[slot[p]].page # NoPage
    /\ hpc[p] \in {"inc", "unmap"} => view[p] = shm[slot[p]].page
    /\ hpc[p] = "unmap own" => shm[slot[p]].page = p /\ view[p] # p
    /\ hpc[p] = "dec" =>
          /\ view[p] # shm[slot[p]].page
          /\ ~ (shm[slot[p]].page = p /\ p \in attached)
    /\ hpc[p] = "unmap own" => p \in attached

ProcsAt == \A p \in Proc : ProcAt(p)

\* What is mapped is the memory of a slot.
ViewsHeld ==
    \A p \in Proc : view[p] # NoPage => \E s \in ShmSlot : Holding(s) /\ shm[s].page = view[p]

\* The processes that are counted in a slot and have not begun to count again.
UsersOf(s) ==
    {p \in Proc : \/ hpc[p] # "inc" /\ view[p] = shm[s].page
                  \/ hpc[p] = "dec" /\ slot[p] = s
                  \/ shm[s].page = p /\ p \in attached /\ hpc[p] # "inc own"}

LinksCount ==
    \A s \in ShmSlot :
        /\ shm[s].links >= 0
        /\ Holding(s) => IsFiniteSet(UsersOf(s)) /\ shm[s].links >= Cardinality(UsersOf(s))

ShmGood == ShmType /\ DeadMapNothing /\ BlocksHeld /\ ProcsAt /\ ViewsHeld /\ LinksCount

ShmInv == disturbed \in BOOLEAN /\ (~ disturbed => ShmGood)

\* The least of a set of slots.
LEMMA LeastSlot ==
    ASSUME NEW S, S \subseteq Nat, S # {} PROVE M!Min(S) \in S
  <1>1. PICK x \in S : \A y \in S : ~ (<<y, x>> \in OpToRel(<, Nat))
    BY NatLessThanWellFounded, WFMin
  <1>2. \A y \in S : ~ (y < x)
    BY <1>1 DEF OpToRel
  <1>3. \A y \in S : x =< y
    BY <1>2
  <1> QED BY <1>3 DEF M!Min

\* Counting: the links are enough for fewer users,
LEMMA FewerUsers ==
    ASSUME NEW X, NEW Y, NEW k \in Int, IsFiniteSet(X), k >= Cardinality(X), Y \subseteq X
    PROVE  IsFiniteSet(Y) /\ k >= Cardinality(Y)
  <1>1. IsFiniteSet(Y) /\ Cardinality(Y) <= Cardinality(X)
    BY FS_Subset
  <1>2. Cardinality(Y) \in Nat /\ Cardinality(X) \in Nat
    BY <1>1, FS_CardinalityType
  <1> QED BY <1>1, <1>2

\* one more are enough for one user more,
LEMMA OneMoreUser ==
    ASSUME NEW X, NEW Y, NEW p, NEW k \in Int, IsFiniteSet(X), k >= Cardinality(X),
           Y \subseteq X \cup {p}
    PROVE  IsFiniteSet(Y) /\ k + 1 >= Cardinality(Y)
  <1>1. IsFiniteSet(X \cup {p}) /\ Cardinality(X \cup {p}) <= Cardinality(X) + 1
    <2>1. CASE p \in X
      <3>1. X \cup {p} = X
        BY <2>1
      <3>2. Cardinality(X) \in Nat
        BY FS_CardinalityType
      <3>3. IsFiniteSet(X \cup {p}) /\ Cardinality(X \cup {p}) = Cardinality(X)
        BY <3>1, Zenon
      <3> QED BY <3>2, <3>3
    <2>2. CASE p \notin X
      <3>1. IsFiniteSet(X \cup {p}) /\ Cardinality(X \cup {p}) = Cardinality(X) + 1
        BY <2>2, FS_AddElement
      <3>2. Cardinality(X) \in Nat
        BY FS_CardinalityType
      <3> QED BY <3>1, <3>2
    <2> QED BY <2>1, <2>2
  <1>2. IsFiniteSet(Y) /\ Cardinality(Y) <= Cardinality(X \cup {p})
    BY <1>1, FS_Subset
  <1>3. /\ Cardinality(X) \in Nat /\ Cardinality(Y) \in Nat
        /\ Cardinality(X \cup {p}) \in Nat
    BY <1>1, <1>2, FS_CardinalityType
  <1> QED BY <1>1, <1>2, <1>3

\* and one less are enough without one.
LEMMA OneUserLess ==
    ASSUME NEW X, NEW Y, NEW p \in X, NEW k \in Int, IsFiniteSet(X), k >= Cardinality(X),
           Y \subseteq X \ {p}
    PROVE  IsFiniteSet(Y) /\ k - 1 >= Cardinality(Y) /\ k - 1 >= 0
  <1>1. IsFiniteSet(X \ {p}) /\ Cardinality(X \ {p}) = Cardinality(X) - 1
    BY FS_RemoveElement
  <1>2. IsFiniteSet(Y) /\ Cardinality(Y) <= Cardinality(X \ {p})
    BY <1>1, FS_Subset
  <1>3. /\ Cardinality(X) \in Nat /\ Cardinality(Y) \in Nat
        /\ Cardinality(X \ {p}) \in Nat
    BY <1>1, <1>2, FS_CardinalityType
  <1> QED BY <1>1, <1>2, <1>3

\* A step that changes no slot and adds no user.
LEMMA LinksKept ==
    ASSUME ShmType, LinksCount, shm' = shm,
           \A s \in ShmSlot : Holding(s) => UsersOf(s)' \subseteq UsersOf(s)
    PROVE  LinksCount'
  <1> SUFFICES ASSUME NEW s \in ShmSlot
               PROVE  /\ shm[s].links >= 0
                      /\ Holding(s) => /\ IsFiniteSet(UsersOf(s)')
                                       /\ shm[s].links >= Cardinality(UsersOf(s)')
    BY DEF LinksCount, Holding
  <1>1. shm[s].links \in Int /\ shm[s].links >= 0
    BY DEF ShmType, Segments, LinksCount
  <1>2. ASSUME Holding(s)
        PROVE  IsFiniteSet(UsersOf(s)') /\ shm[s].links >= Cardinality(UsersOf(s)')
    <2>1. /\ IsFiniteSet(UsersOf(s)) /\ shm[s].links >= Cardinality(UsersOf(s))
          /\ UsersOf(s)' \subseteq UsersOf(s)
      BY <1>2 DEF LinksCount
    <2> QED BY ONLY <2>1, <1>1, FewerUsers
  <1> QED BY <1>1, <1>2

\* What is known of the constants.
LEMMA ShmConstants ==
    /\ NoName \notin ShmName /\ ShmSlot \subseteq Nat /\ ShmSlot # {} /\ FirstProc \in Proc
    /\ NoPage \notin Page /\ NoPage \notin Proc /\ \A p \in Proc : p \notin Page
  BY IpcAssumption DEF M!ShareMemConstants

\* A step of one process that changes no slot.
LEMMA QuietStep ==
    ASSUME ShmGood, NEW p \in Proc, p \in live,
           shm' = shm, free' = free, live' = live, ShmType',
           \A q \in Proc : q # p => /\ hpc'[q] = hpc[q] /\ view'[q] = view[q] /\ slot'[q] = slot[q]
                                    /\ q \in attached' <=> q \in attached,
           ProcAt(p)',
           view'[p] # NoPage => \E s \in ShmSlot : Holding(s) /\ shm[s].page = view'[p],
           \A s \in ShmSlot : Holding(s) /\ p \in UsersOf(s)' => p \in UsersOf(s)
    PROVE  ShmGood'
  <1>1. DeadMapNothing'
    BY DEF ShmGood, DeadMapNothing
  <1>2. BlocksHeld'
    <2>1. BlocksHeld /\ UNCHANGED <<shm, free, live>>
      BY DEF ShmGood
    <2> QED BY ONLY <2>1 DEF BlocksHeld, Holding
  <1>3. ProcsAt'
    <2>1. ASSUME NEW q \in Proc, q # p PROVE ProcAt(q)'
      <3>1. ProcAt(q) /\ shm' = shm
        BY DEF ShmGood, ProcsAt
      <3>2. /\ hpc'[q] = hpc[q] /\ view'[q] = view[q] /\ slot'[q] = slot[q]
            /\ q \in attached' <=> q \in attached
        BY <2>1
      <3> QED BY ONLY <3>1, <3>2 DEF ProcAt
    <2> QED BY <2>1 DEF ProcsAt
  <1>4. ViewsHeld'
    BY DEF ShmGood, ViewsHeld, Holding
  <1>5. ASSUME NEW s \in ShmSlot, Holding(s) PROVE UsersOf(s)' \subseteq UsersOf(s)
    <2> SUFFICES ASSUME NEW q \in Proc, q \in UsersOf(s)' PROVE q \in UsersOf(s)
      BY DEF UsersOf
    <2>1. CASE q = p
      BY <2>1, <1>5
    <2>2. CASE q # p
      BY <2>2 DEF UsersOf
    <2> QED BY <2>1, <2>2
  <1>6. LinksCount'
    BY <1>5, LinksKept DEF ShmGood
  <1> QED BY <1>1, <1>2, <1>3, <1>4, <1>6 DEF ShmGood

\* A process inside a call lives.
LEMMA InsideLives ==
    ASSUME ShmGood, NEW p \in Proc, hpc[p] # "user" PROVE p \in live
  BY DEF ShmGood, DeadMapNothing

\* share_mem_map up to vmspace_mmap: the slot is looked up and looked at.
LEMMA MapFindShm ==
    ASSUME ShmGood, NEW p \in Proc, NEW s \in ShmSlot, M!MapFind(p, s) PROVE ShmGood'
  <1> USE ShmConstants
  <1>1. /\ p \in live /\ hpc[p] = "user" /\ shm[s].name # NoName
        /\ \E x \in {"test", "test own"} : hpc' = [hpc EXCEPT ![p] = x]
        /\ slot' = [slot EXCEPT ![p] = s]
        /\ UNCHANGED <<shm, free, live, view, attached>>
    BY DEF M!MapFind, M!Calls, M!Named, M!Go
  <1>2. ShmType'
    BY <1>1 DEF ShmGood, ShmType, ShmPlaces
  <1>3. /\ \A q \in Proc : q # p => hpc'[q] = hpc[q] /\ slot'[q] = slot[q]
        /\ slot'[p] = s /\ hpc'[p] \in {"test", "test own"}
    BY <1>1 DEF ShmGood, ShmType
  <1>4. ProcAt(p)'
    BY <1>1, <1>3 DEF ProcAt
  <1>5. \A r \in ShmSlot : Holding(r) /\ p \in UsersOf(r)' => p \in UsersOf(r)
    BY <1>1, <1>3 DEF UsersOf
  <1>6. view'[p] # NoPage => \E r \in ShmSlot : Holding(r) /\ shm[r].page = view'[p]
    BY <1>1 DEF ShmGood, ViewsHeld
  <1> QED BY <1>1, <1>2, <1>3, <1>4, <1>5, <1>6, QuietStep

\* Whether the slot has memory decides where the process goes on.
LEMMA MapTestShm ==
    ASSUME ShmGood, NEW p \in Proc, M!MapTest(p) PROVE ShmGood'
  <1> USE ShmConstants
  <1> DEFINE s == slot[p]
  <1>1. /\ hpc[p] \in {"test", "test own"}
        /\ \E x \in {"mmap", "inc own", "alloc", "share own"} :
              /\ hpc' = [hpc EXCEPT ![p] = x]
              /\ x \in {"mmap", "inc own"} => shm[s].page # NoPage
        /\ UNCHANGED <<shm, free, live, view, attached, slot>>
    BY DEF M!MapTest, M!Go
  <1>2. ShmType'
    BY <1>1 DEF ShmGood, ShmType, ShmPlaces
  <1>3. /\ \A q \in Proc : q # p => hpc'[q] = hpc[q]
        /\ hpc'[p] \in {"mmap", "inc own", "alloc", "share own"}
        /\ hpc'[p] \in {"mmap", "inc own"} => shm[s].page # NoPage
    BY <1>1 DEF ShmGood, ShmType
  <1>4. ProcAt(p)'
    <2>1. shm[s].name # NoName
      BY <1>1 DEF ShmGood, ProcsAt, ProcAt
    <2> QED BY <2>1, <1>1, <1>3 DEF ProcAt
  <1>5. \A r \in ShmSlot : Holding(r) /\ p \in UsersOf(r)' => p \in UsersOf(r)
    BY <1>1, <1>3 DEF UsersOf
  <1>6. view'[p] # NoPage => \E r \in ShmSlot : Holding(r) /\ shm[r].page = view'[p]
    BY <1>1 DEF ShmGood, ViewsHeld
  <1>7. p \in live
    BY <1>1, InsideLives
  <1> QED BY <1>1, <1>2, <1>3, <1>4, <1>5, <1>6, <1>7, QuietStep

\* vmspace_mmap.
LEMMA MapMmapShm ==
    ASSUME ShmGood, NEW p \in Proc, M!MapMmap(p) PROVE ShmGood'
  <1> USE ShmConstants
  <1> DEFINE s == slot[p]
  <1>1. /\ hpc[p] = "mmap" /\ hpc' = [hpc EXCEPT ![p] = "inc"]
        /\ view' = [view EXCEPT ![p] = shm[s].page]
        /\ UNCHANGED <<shm, free, live, attached, slot>>
    BY DEF M!MapMmap, M!Go
  <1>2. s \in ShmSlot /\ shm[s].page \in Blocks /\ Holding(s)
    BY <1>1 DEF ShmGood, ShmType, Segments, ProcsAt, ProcAt, Holding
  <1>3. ShmType'
    BY <1>1, <1>2 DEF ShmGood, ShmType, ShmPlaces
  <1>4. /\ \A q \in Proc : q # p => hpc'[q] = hpc[q] /\ view'[q] = view[q]
        /\ hpc'[p] = "inc" /\ view'[p] = shm[s].page
    BY <1>1 DEF ShmGood, ShmType
  <1>5. ProcAt(p)'
    BY <1>1, <1>2, <1>4 DEF ProcAt, Holding
  <1>6. \A r \in ShmSlot : Holding(r) /\ p \in UsersOf(r)' => p \in UsersOf(r)
    BY <1>1, <1>4 DEF UsersOf
  <1>7. p \in live
    BY <1>1, InsideLives
  <1> QED BY <1>1, <1>2, <1>3, <1>4, <1>5, <1>6, <1>7, QuietStep

\* share_mem_unmap finds the one slot with that memory.
LEMMA UnmapFindShm ==
    ASSUME ShmGood, NEW p \in Proc, NEW block \in {view[p], p}, M!UnmapFind(p, block) PROVE ShmGood'
  <1> USE ShmConstants
  <1> DEFINE found == M!find_by_addr(block)
  <1>1. /\ p \in live /\ hpc[p] = "user" /\ block # NoPage
        /\ block = view[p] \/ (block = p /\ p \in attached)
        /\ UNCHANGED <<shm, free, live, view, attached>>
    BY DEF M!UnmapFind, M!Calls
  <1>2. CASE found = {}
    <2>1. UNCHANGED <<hpc, slot>>
      BY <1>2 DEF M!UnmapFind
    <2>2. ShmType' /\ ProcAt(p)'
      BY <2>1, <1>1 DEF ShmGood, ShmType, ProcsAt, ProcAt
    <2>3. \A r \in ShmSlot : Holding(r) /\ p \in UsersOf(r)' => p \in UsersOf(r)
      BY <2>1, <1>1 DEF UsersOf
    <2>4. view'[p] # NoPage => \E r \in ShmSlot : Holding(r) /\ shm[r].page = view'[p]
      BY <1>1 DEF ShmGood, ViewsHeld
    <2> QED BY <2>1, <2>2, <2>3, <2>4, <1>1, QuietStep
  <1>3. CASE found # {}
    <2> DEFINE s == M!Min(found)
    <2>1. /\ slot' = [slot EXCEPT ![p] = s]
          /\ hpc' = [hpc EXCEPT ![p] = IF block = view[p] THEN "unmap" ELSE "unmap own"]
      BY <1>3 DEF M!UnmapFind, M!Go
    <2>2. s \in found
      <3>1. found \subseteq Nat
        BY DEF M!find_by_addr
      <3> HIDE DEF found
      <3> QED BY <3>1, <1>3, LeastSlot
    <2>3. s \in ShmSlot /\ shm[s].name # NoName /\ shm[s].page = block
      BY <2>2 DEF M!find_by_addr, M!Named
    <2> HIDE DEF s, found
    <2>4. ShmType'
      BY <2>1, <2>3, <1>1 DEF ShmGood, ShmType, ShmPlaces
    <2>5. /\ \A q \in Proc : q # p => hpc'[q] = hpc[q] /\ slot'[q] = slot[q]
          /\ slot'[p] = s /\ hpc'[p] = IF block = view[p] THEN "unmap" ELSE "unmap own"
      BY <2>1 DEF ShmGood, ShmType
    <2>6. ProcAt(p)'
      BY <2>3, <2>5, <1>1 DEF ProcAt
    <2>7. \A r \in ShmSlot : Holding(r) /\ p \in UsersOf(r)' => p \in UsersOf(r)
      BY <1>1, <2>5 DEF UsersOf
    <2>8. view'[p] # NoPage => \E r \in ShmSlot : Holding(r) /\ shm[r].page = view'[p]
      BY <1>1 DEF ShmGood, ViewsHeld
    <2> QED BY <1>1, <2>4, <2>5, <2>6, <2>7, <2>8, QuietStep
  <1> QED BY <1>2, <1>3

\* do_vmspace_unmap of what is no process's own: it stays counted until links--.
LEMMA UnmapViewShm ==
    ASSUME ShmGood, NEW p \in Proc, M!UnmapView(p), ~ disturbed' PROVE ShmGood'
  <1> USE ShmConstants
  <1> DEFINE s == slot[p]
  <1>1. /\ hpc[p] = "unmap" /\ hpc' = [hpc EXCEPT ![p] = "dec"] /\ ~ shm[s].private
        /\ view' = [view EXCEPT ![p] = NoPage]
        /\ UNCHANGED <<shm, free, live, attached, slot>>
    BY DEF M!UnmapView, M!Go
  <1>2. s \in ShmSlot /\ Holding(s) /\ view[p] = shm[s].page /\ shm[s].page \notin Proc
    BY <1>1 DEF ShmGood, ShmType, ProcsAt, ProcAt, Holding, BlocksHeld
  <1>3. ShmType'
    BY <1>1 DEF ShmGood, ShmType, ShmPlaces, Blocks
  <1>4. /\ \A q \in Proc : q # p => hpc'[q] = hpc[q] /\ view'[q] = view[q]
        /\ hpc'[p] = "dec" /\ view'[p] = NoPage
    BY <1>1 DEF ShmGood, ShmType
  <1>5. ProcAt(p)'
    BY <1>1, <1>2, <1>4 DEF ProcAt, Holding
  <1>6. \A r \in ShmSlot : Holding(r) /\ p \in UsersOf(r)' => p \in UsersOf(r)
    BY <1>1, <1>2, <1>4 DEF UsersOf, Holding
  <1>7. p \in live
    BY <1>1, InsideLives
  <1> QED BY <1>1, <1>2, <1>3, <1>4, <1>5, <1>6, <1>7, QuietStep

\* Memory of the process's own stays where it is.
LEMMA UnmapOwnShm ==
    ASSUME ShmGood, NEW p \in Proc, M!UnmapOwn(p) PROVE ShmGood'
  <1> USE ShmConstants
  <1> DEFINE s == slot[p]
  <1>1. /\ hpc[p] = "unmap own" /\ hpc' = [hpc EXCEPT ![p] = "dec"]
        /\ attached' = attached \ {p}
        /\ UNCHANGED <<shm, free, live, view, slot>>
    BY DEF M!UnmapOwn, M!Go
  <1>2. s \in ShmSlot /\ Holding(s) /\ shm[s].page = p /\ view[p] # p /\ p \in attached
    BY <1>1 DEF ShmGood, ShmType, ProcsAt, ProcAt, Holding
  <1>3. ShmType'
    BY <1>1 DEF ShmGood, ShmType, ShmPlaces
  <1>4. /\ \A q \in Proc : q # p => hpc'[q] = hpc[q]
        /\ hpc'[p] = "dec"
    BY <1>1 DEF ShmGood, ShmType
  <1>5. ProcAt(p)'
    BY <1>1, <1>2, <1>4 DEF ProcAt, Holding
  <1>6. \A r \in ShmSlot : Holding(r) /\ p \in UsersOf(r)' => p \in UsersOf(r)
    BY <1>1, <1>2, <1>4 DEF UsersOf
  <1>7. p \in live
    BY <1>1, InsideLives
  <1>8. view'[p] # NoPage => \E r \in ShmSlot : Holding(r) /\ shm[r].page = view'[p]
    BY <1>1 DEF ShmGood, ViewsHeld
  <1> QED BY <1>1, <1>3, <1>4, <1>5, <1>6, <1>7, <1>8, QuietStep

\* page_addr of one slot.
LEMMA MemoryOf ==
    ASSUME NEW f \in [ShmSlot -> Segments], NEW s \in ShmSlot, NEW block \in Blocks,
           NEW g, g = [f EXCEPT ![s].page = block]
    PROVE  /\ g \in [ShmSlot -> Segments]
           /\ g[s].name = f[s].name /\ g[s].page = block
           /\ g[s].links = f[s].links /\ g[s].private = f[s].private
           /\ \A r \in ShmSlot : r # s => g[r] = f[r]
  <1> DEFINE x == [f[s] EXCEPT !.page = block]
  <1>1. f[s] \in Segments
    OBVIOUS
  <1>2. /\ x \in Segments /\ x.page = block
        /\ x.name = f[s].name /\ x.links = f[s].links /\ x.private = f[s].private
    BY <1>1 DEF Segments
  <1>3. g = [f EXCEPT ![s] = x]
    OBVIOUS
  <1> HIDE DEF x
  <1> QED BY <1>2, <1>3

\* A slot without memory gets a block: nobody maps it, nobody is counted in it.
LEMMA FirstMemory ==
    ASSUME ShmGood, NEW p \in Proc, NEW block \in Page \cup Proc, NEW place \in {"mmap", "inc own"},
           hpc[p] \in {"alloc", "share own"},
           shm[slot[p]].page = NoPage,
           \A r \in ShmSlot : Holding(r) => shm[r].page # block,
           block \in Proc => block = p /\ place = "inc own",
           shm' \in [ShmSlot -> Segments],
           shm'[slot[p]].name = shm[slot[p]].name,
           shm'[slot[p]].page = block,
           shm'[slot[p]].links = shm[slot[p]].links,
           shm'[slot[p]].private <=> block \in Proc,
           \A r \in ShmSlot : r # slot[p] => shm'[r] = shm[r],
           free' = free \ {block},
           hpc' \in [Proc -> ShmPlaces], hpc'[p] = place,
           \A q \in Proc : q # p => hpc'[q] = hpc[q],
           UNCHANGED <<live, view, attached, slot>>
    PROVE  ShmGood'
  <1> DEFINE s == slot[p]
  <1>1. /\ s \in ShmSlot /\ shm[s].name # NoName /\ ~ Holding(s) /\ ~ shm[s].private
        /\ p \in live /\ block # NoPage
    BY ShmConstants, InsideLives DEF ShmGood, ShmType, ProcsAt, ProcAt, Holding, BlocksHeld
  <1>2. /\ \A q \in Proc : q # p => hpc'[q] = hpc[q]
        /\ hpc'[p] = place /\ place \in {"mmap", "inc own"}
        /\ UNCHANGED <<live, view, attached, slot>>
    OBVIOUS
  <1>3. ShmType'
    BY DEF ShmGood, ShmType, ShmPlaces
  <1>4. DeadMapNothing'
    <2>1. DeadMapNothing
      BY DEF ShmGood
    <2> QED BY ONLY <2>1, <1>1, <1>2 DEF DeadMapNothing
  <1>5. Holding(s)' /\ \A r \in ShmSlot : r # s => (Holding(r)' <=> Holding(r))
    BY <1>1 DEF Holding
  <1>6. BlocksHeld'
    <2>1. \A r \in ShmSlot : shm'[r].name # NoName /\ shm'[r].page = NoPage => ~ shm'[r].private
      BY <1>1 DEF ShmGood, BlocksHeld
    <2>2. \A r \in ShmSlot : Holding(r)' =>
             /\ shm'[r].page \notin free'
             /\ shm'[r].private <=> shm'[r].page \in Proc
             /\ shm'[r].page \in Proc => shm'[r].page \in live'
      <3>1. BlocksHeld
        BY DEF ShmGood
      <3>2. /\ shm'[s].page = block /\ block \notin free' /\ free' \subseteq free
            /\ shm'[s].private <=> block \in Proc
            /\ block \in Proc => block \in live'
        BY <1>1
      <3>3. \A r \in ShmSlot : r # s => shm'[r] = shm[r] /\ (Holding(r)' <=> Holding(r))
        BY <1>5
      <3>4. live' = live
        OBVIOUS
      <3> QED BY ONLY <3>1, <3>2, <3>3, <3>4 DEF BlocksHeld
    <2>3. ASSUME NEW r \in ShmSlot, NEW q \in ShmSlot, Holding(r)', Holding(q)',
                 shm'[q].page = shm'[r].page
          PROVE  q = r
      <3>1. \A x \in ShmSlot : x # s /\ Holding(x)' => Holding(x) /\ shm'[x].page = shm[x].page
        BY <1>5
      <3>2. \A x \in ShmSlot : x # s /\ Holding(x)' => shm'[x].page # block
        <4>1. \A x \in ShmSlot : Holding(x) => shm[x].page # block
          OBVIOUS
        <4> QED BY ONLY <3>1, <4>1
      <3>3. CASE r = s \/ q = s
        BY <3>2, <3>3, <2>3
      <3>4. CASE r # s /\ q # s
        <4>1. Holding(r) /\ Holding(q) /\ shm[q].page = shm[r].page
          BY <3>1, <3>4, <2>3
        <4>2. BlocksHeld
          BY DEF ShmGood
        <4> QED BY ONLY <4>1, <4>2, <2>3 DEF BlocksHeld
      <3> QED BY <3>3, <3>4
    <2> QED BY <2>1, <2>2, <2>3 DEF BlocksHeld
  <1>7. ProcsAt'
    <2>1. ASSUME NEW q \in Proc, q # p, slot[q] = s PROVE ProcAt(q)'
      <3>1. hpc[q] \notin {"mmap", "inc", "inc own", "unmap", "unmap own", "dec"}
        BY <2>1 DEF ShmGood, ProcsAt, ProcAt
      <3> QED BY <3>1, <2>1, <1>1, <1>2 DEF ProcAt
    <2>2. ASSUME NEW q \in Proc, q # p, slot[q] # s PROVE ProcAt(q)'
      <3>1. shm'[slot[q]] = shm[slot[q]]
        BY <2>2 DEF ShmGood, ShmType
      <3>2. ProcAt(q)
        BY DEF ShmGood, ProcsAt
      <3> QED BY ONLY <3>1, <3>2, <2>2, <1>2 DEF ProcAt
    <2>3. ProcAt(p)'
      BY <1>1, <1>2 DEF ProcAt
    <2> QED BY <2>1, <2>2, <2>3 DEF ProcsAt
  <1>8. ViewsHeld'
    <2>1. ASSUME NEW q \in Proc, view[q] # NoPage
          PROVE  \E r \in ShmSlot : Holding(r)' /\ shm'[r].page = view[q]
      <3>1. PICK r \in ShmSlot : Holding(r) /\ shm[r].page = view[q]
        BY <2>1 DEF ShmGood, ViewsHeld
      <3>2. r # s
        BY <3>1, <1>1
      <3> QED BY <3>1, <3>2, <1>5
    <2>2. view' = view
      OBVIOUS
    <2> QED BY ONLY <2>1, <2>2 DEF ViewsHeld
  <1>9. UsersOf(s)' = {}
    <2> SUFFICES ASSUME NEW q \in Proc, q \in UsersOf(s)' PROVE FALSE
      BY DEF UsersOf
    <2>1. view[q] # block
      <3>1. ASSUME view[q] # NoPage PROVE \E r \in ShmSlot : Holding(r) /\ shm[r].page = view[q]
        BY <3>1 DEF ShmGood, ViewsHeld
      <3> QED BY <3>1, <1>1
    <2>2. ~ (hpc[q] = "dec" /\ slot[q] = s)
      BY DEF ShmGood, ProcsAt, ProcAt
    <2> QED BY <2>1, <2>2, <1>2 DEF UsersOf
  <1>10. ASSUME NEW r \in ShmSlot, r # s PROVE UsersOf(r)' \subseteq UsersOf(r)
    <2> SUFFICES ASSUME NEW q \in Proc, q \in UsersOf(r)' PROVE q \in UsersOf(r)
      BY DEF UsersOf
    <2>1. CASE q = p
      BY <2>1, <1>2, <1>10 DEF UsersOf
    <2>2. CASE q # p
      BY <2>2, <1>2, <1>10 DEF UsersOf
    <2> QED BY <2>1, <2>2
  <1>11. LinksCount'
    <2> SUFFICES ASSUME NEW r \in ShmSlot
                 PROVE  /\ shm'[r].links >= 0
                        /\ Holding(r)' => /\ IsFiniteSet(UsersOf(r)')
                                          /\ shm'[r].links >= Cardinality(UsersOf(r)')
      BY DEF LinksCount
    <2>0. shm'[r].links = shm[r].links /\ shm[r].links \in Int /\ shm[r].links >= 0
      BY DEF ShmGood, ShmType, Segments, LinksCount
    <2>1. CASE r = s
      <3>1. IsFiniteSet(UsersOf(r)') /\ Cardinality(UsersOf(r)') = 0
        BY <2>1, <1>9, FS_EmptySet
      <3> QED BY <3>1, <2>0
    <2>2. CASE r # s
      <3>1. ASSUME Holding(r)'
            PROVE  IsFiniteSet(UsersOf(r)') /\ shm[r].links >= Cardinality(UsersOf(r)')
        <4>1. /\ IsFiniteSet(UsersOf(r)) /\ shm[r].links >= Cardinality(UsersOf(r))
              /\ UsersOf(r)' \subseteq UsersOf(r)
          BY <3>1, <2>2, <1>5, <1>10 DEF ShmGood, LinksCount
        <4> QED BY ONLY <4>1, <2>0, FewerUsers
      <3> QED BY <3>1, <2>0
    <2> QED BY <2>1, <2>2
  <1> QED BY <1>3, <1>4, <1>6, <1>7, <1>8, <1>11 DEF ShmGood

\* There is no memory, or nothing at the address, and nobody has put memory
\* into the slot meanwhile.
LEMMA MapFailsShm ==
    ASSUME ShmGood, NEW p \in Proc, hpc[p] \in {"alloc", "share own"},
           shm[slot[p]].page = NoPage, shm' = [shm EXCEPT ![slot[p]].page = NoPage],
           free' = free, hpc' = [hpc EXCEPT ![p] = "user"],
           UNCHANGED <<live, view, attached, slot>>
    PROVE  ShmGood'
  <1> USE ShmConstants
  <1> DEFINE s == slot[p]
  <1>1. shm' = shm
    <2>1. s \in ShmSlot /\ shm \in [ShmSlot -> Segments] /\ shm[s] \in Segments
      BY DEF ShmGood, ShmType
    <2>2. [shm[s] EXCEPT !.page = NoPage] = shm[s]
      BY <2>1 DEF Segments
    <2>3. shm' = [shm EXCEPT ![s] = shm[s]]
      BY <2>2
    <2> QED BY <2>1, <2>3
  <1>2. ShmType'
    BY <1>1 DEF ShmGood, ShmType, ShmPlaces
  <1>3. hpc'[p] = "user" /\ \A q \in Proc : q # p => hpc'[q] = hpc[q]
    BY DEF ShmGood, ShmType
  <1>4. ProcAt(p)'
    BY <1>3 DEF ProcAt
  <1>5. \A r \in ShmSlot : Holding(r) /\ p \in UsersOf(r)' => p \in UsersOf(r)
    BY <1>1, <1>3 DEF UsersOf
  <1>6. view'[p] # NoPage => \E r \in ShmSlot : Holding(r) /\ shm[r].page = view'[p]
    BY DEF ShmGood, ViewsHeld
  <1>7. p \in live
    BY InsideLives
  <1> QED BY <1>1, <1>2, <1>3, <1>4, <1>5, <1>6, <1>7, QuietStep

\* alloc_pages.
LEMMA MapAllocShm ==
    ASSUME ShmGood, NEW p \in Proc, M!MapAlloc(p), ~ disturbed' PROVE ShmGood'
  <1> USE ShmConstants
  <1> DEFINE s == slot[p]
  <1>1. hpc[p] = "alloc" /\ UNCHANGED <<live, view, attached, slot>> /\ s \in ShmSlot
    BY DEF M!MapAlloc, ShmGood, ShmType
  <1>0. shm[s].page = NoPage
    BY DEF M!MapAlloc, M!Overwrites
  <1>4. free \subseteq Page /\ NoPage \notin Page
    BY DEF ShmGood, ShmType
  <1>2. CASE free = {}
    <2>1. /\ hpc' = [hpc EXCEPT ![p] = "user"] /\ shm' = [shm EXCEPT ![s].page = NoPage]
          /\ free' = free \ {NoPage}
      BY <1>2 DEF M!MapAlloc, M!Go
    <2> QED BY <2>1, <1>0, <1>1, <1>4, MapFailsShm
  <1>3. CASE free # {}
    <2>1. PICK block \in free :
             /\ shm' = [shm EXCEPT ![s].page = block]
             /\ free' = free \ {block}
             /\ hpc' = [hpc EXCEPT ![p] = "mmap"]
      BY <1>3, <1>4 DEF M!MapAlloc, M!Go
    <2>2. shm[s].page = NoPage
      BY <1>0
    <2>3. block \in Page /\ block \notin Proc
      BY DEF ShmGood, ShmType
    <2>4. /\ shm' \in [ShmSlot -> Segments]
          /\ shm'[s].name = shm[s].name /\ shm'[s].page = block
          /\ shm'[s].links = shm[s].links /\ shm'[s].private = shm[s].private
          /\ \A r \in ShmSlot : r # s => shm'[r] = shm[r]
      <3>1. shm \in [ShmSlot -> Segments] /\ block \in Blocks
        BY <2>3 DEF ShmGood, ShmType, Blocks
      <3>2. shm' = [shm EXCEPT ![s].page = block] /\ s \in ShmSlot
        BY <2>1, <1>1
      <3> QED BY ONLY <3>1, <3>2, MemoryOf
    <2>5. \A r \in ShmSlot : Holding(r) => shm[r].page # block
      BY DEF ShmGood, BlocksHeld
    <2>6. ~ shm[s].private
      BY <2>2, <1>1 DEF ShmGood, BlocksHeld, ProcsAt, ProcAt
    <2>7. /\ hpc' \in [Proc -> ShmPlaces] /\ hpc'[p] = "mmap"
          /\ \A q \in Proc : q # p => hpc'[q] = hpc[q]
      BY <2>1 DEF ShmGood, ShmType, ShmPlaces
    <2>8. /\ block \in Page \cup Proc /\ "mmap" \in {"mmap", "inc own"}
          /\ hpc[p] \in {"alloc", "share own"} /\ free' = free \ {block}
          /\ shm'[s].private <=> block \in Proc
          /\ UNCHANGED <<live, view, attached, slot>>
      BY <2>1, <2>3, <2>4, <2>6, <1>1
    <2>9. ShmGood /\ p \in Proc
      OBVIOUS
    <2> QED BY ONLY <2>2, <2>3, <2>4, <2>5, <2>7, <2>8, <2>9, FirstMemory
  <1> QED BY <1>2, <1>3

\* The page of a process becomes the memory of a slot, for the first time.
LEMMA MapShareOwnShm ==
    ASSUME ShmGood, NEW p \in Proc, M!MapShareOwn(p), ~ disturbed' PROVE ShmGood'
  <1> USE ShmConstants
  <1> DEFINE s == slot[p]
  <1>0. SUFFICES ASSUME hpc' # [hpc EXCEPT ![p] = "user"] PROVE ShmGood'
    <2>1. hpc[p] = "share own" /\ UNCHANGED <<free, live, view, attached, slot>>
      BY DEF M!MapShareOwn
    <2>2. CASE hpc' = [hpc EXCEPT ![p] = "user"]
      <3>1. "inc own" # "user" /\ hpc \in [Proc -> ShmPlaces]
        BY DEF ShmGood, ShmType
      <3>2. hpc' # [hpc EXCEPT ![p] = "inc own"]
        BY <2>2, <3>1
      <3>3. shm' = [shm EXCEPT ![s].page = NoPage] /\ shm[s].page = NoPage
        BY <3>2 DEF M!MapShareOwn, M!Go, M!Overwrites
      <3> QED BY <2>1, <2>2, <3>3, MapFailsShm
    <2> QED BY <2>2
  <1>1. /\ hpc[p] = "share own" /\ UNCHANGED <<free, live, view, attached, slot>> /\ s \in ShmSlot
        /\ shm' = [shm EXCEPT ![s].page = p, ![s].private = TRUE]
        /\ shm[s].page = NoPage /\ M!find_by_addr(p) = {}
        /\ hpc' = [hpc EXCEPT ![p] = "inc own"]
    BY <1>0 DEF M!MapShareOwn, M!Go, M!Overwrites, ShmGood, ShmType
  <1>2. /\ shm' \in [ShmSlot -> Segments]
        /\ shm'[s].name = shm[s].name /\ shm'[s].page = p
        /\ shm'[s].links = shm[s].links /\ shm'[s].private = TRUE
        /\ \A r \in ShmSlot : r # s => shm'[r] = shm[r]
    <2>1. shm \in [ShmSlot -> Segments] /\ p \in Blocks
      BY DEF ShmGood, ShmType, Blocks
    <2>2. PICK g : g = [shm EXCEPT ![s].page = p]
      OBVIOUS
    <2>3. shm' = [g EXCEPT ![s].private = TRUE] /\ s \in ShmSlot
      BY <1>1, <2>2
    <2>4. /\ g \in [ShmSlot -> Segments]
          /\ g[s].name = shm[s].name /\ g[s].page = p /\ g[s].links = shm[s].links
          /\ \A r \in ShmSlot : r # s => g[r] = shm[r]
      BY ONLY <2>1, <2>2, <2>3, MemoryOf
    <2>5. /\ shm' \in [ShmSlot -> Segments]
          /\ shm'[s].name = g[s].name /\ shm'[s].page = g[s].page
          /\ shm'[s].links = g[s].links /\ shm'[s].private = TRUE
          /\ \A r \in ShmSlot : r # s => shm'[r] = g[r]
      <3> DEFINE x == [g[s] EXCEPT !.private = TRUE]
      <3>1. g[s] \in Segments
        BY <2>3, <2>4
      <3>2. /\ x \in Segments /\ x.private = TRUE
            /\ x.name = g[s].name /\ x.links = g[s].links /\ x.page = g[s].page
        BY ONLY <3>1 DEF Segments
      <3>3. shm' = [g EXCEPT ![s] = x]
        BY <2>3
      <3> HIDE DEF x
      <3> QED BY ONLY <2>3, <2>4, <3>2, <3>3
    <2> QED BY ONLY <2>4, <2>5
  <1>3. \A r \in ShmSlot : Holding(r) => shm[r].page # p
    BY <1>1 DEF M!find_by_addr, M!Named, Holding
  <1>4. free' = free \ {p}
    BY <1>1 DEF ShmGood, ShmType
  <1>5. /\ hpc' \in [Proc -> ShmPlaces] /\ hpc'[p] = "inc own"
        /\ \A q \in Proc : q # p => hpc'[q] = hpc[q]
    BY <1>1 DEF ShmGood, ShmType, ShmPlaces
  <1>6. /\ p \in Page \cup Proc /\ p \in Proc
        /\ "inc own" \in {"mmap", "inc own"} /\ hpc[p] \in {"alloc", "share own"}
        /\ shm[slot[p]].page = NoPage /\ UNCHANGED <<live, view, attached, slot>>
        /\ shm'[s].private <=> p \in Proc
    BY <1>1, <1>2
  <1>7. ShmGood
    OBVIOUS
  <1> QED BY ONLY <1>7, <1>6, <1>2, <1>3, <1>4, <1>5, FirstMemory

\* links++ or links--: only the number of one slot changes.
LEMMA CountStep ==
    ASSUME ShmGood, NEW p \in Proc, NEW s \in ShmSlot, NEW k \in Int, p \in live,
           shm' = [shm EXCEPT ![s].links = k],
           hpc' = [hpc EXCEPT ![p] = "user"],
           attached' \subseteq attached \cup {p}, attached \subseteq attached',
           UNCHANGED <<free, live, view, slot>>
    PROVE  /\ ShmType' /\ DeadMapNothing' /\ BlocksHeld' /\ ProcsAt' /\ ViewsHeld'
           /\ shm'[s].links = k
           /\ \A r \in ShmSlot : /\ shm'[r].page = shm[r].page
                                 /\ r # s => shm'[r] = shm[r]
                                 /\ Holding(r)' <=> Holding(r)
           /\ hpc'[p] = "user" /\ \A q \in Proc : q # p => hpc'[q] = hpc[q]
  <1>1. /\ shm' \in [ShmSlot -> Segments] /\ shm'[s].links = k
        /\ \A r \in ShmSlot : /\ shm'[r].name = shm[r].name /\ shm'[r].page = shm[r].page
                              /\ shm'[r].private = shm[r].private
                              /\ r # s => shm'[r] = shm[r]
    BY DEF ShmGood, ShmType, Segments
  <1>2. hpc'[p] = "user" /\ \A q \in Proc : q # p => hpc'[q] = hpc[q]
    BY DEF ShmGood, ShmType
  <1>3. ShmType'
    <2>1. ShmType /\ attached' \subseteq Proc
      BY DEF ShmGood, ShmType
    <2>2. hpc' = [hpc EXCEPT ![p] = "user"] /\ UNCHANGED <<free, live, view, slot>>
      OBVIOUS
    <2> QED BY ONLY <1>1, <2>1, <2>2, p \in Proc DEF ShmType, ShmPlaces
  <1>4. DeadMapNothing'
    BY <1>2 DEF ShmGood, DeadMapNothing
  <1>5. \A r \in ShmSlot : Holding(r)' <=> Holding(r)
    BY <1>1 DEF Holding
  <1>6. BlocksHeld'
    BY <1>1, <1>5 DEF ShmGood, BlocksHeld
  <1>7. ProcsAt'
    <2>1. ASSUME NEW q \in Proc, q # p PROVE ProcAt(q)'
      <3>1. slot[q] \in ShmSlot /\ (q \in attached' <=> q \in attached)
        BY <2>1 DEF ShmGood, ShmType
      <3>2. ProcAt(q)
        BY DEF ShmGood, ProcsAt
      <3>3. UNCHANGED <<view, slot>>
        OBVIOUS
      <3> QED BY ONLY <3>1, <3>2, <3>3, <2>1, <1>1, <1>2 DEF ProcAt
    <2>2. ProcAt(p)'
      BY <1>2 DEF ProcAt
    <2> QED BY <2>1, <2>2 DEF ProcsAt
  <1>8. ViewsHeld'
    BY <1>1, <1>5 DEF ShmGood, ViewsHeld
  <1> QED BY <1>1, <1>2, <1>3, <1>4, <1>5, <1>6, <1>7, <1>8

\* The process is counted in the slot whose memory it has.
LEMMA MapIncShm ==
    ASSUME ShmGood, NEW p \in Proc, M!MapInc(p), ~ disturbed' PROVE ShmGood'
  <1> USE ShmConstants
  <1>0. PICK s \in ShmSlot : s = slot[p]
    BY DEF ShmGood, ShmType
  <1> DEFINE k == shm[s].links + 1
  <1>1. /\ hpc[p] \in {"inc", "inc own"} /\ hpc' = [hpc EXCEPT ![p] = "user"]
        /\ shm' = [shm EXCEPT ![s].links = k]
        /\ attached' = IF hpc[p] = "inc own" THEN attached \cup {p} ELSE attached
        /\ hpc[p] = "inc own" => shm[s].page = p
        /\ UNCHANGED <<free, live, view, slot>>
    BY <1>0 DEF M!MapInc, M!Go
  <1>2. s \in ShmSlot /\ Holding(s) /\ p \in live /\ (hpc[p] = "inc" => view[p] = shm[s].page)
    BY <1>0, <1>1, InsideLives DEF ShmGood, ShmType, ProcsAt, ProcAt, Holding
  <1>3. k \in Int /\ shm[s].links \in Int
    <2>1. shm[s] \in Segments
      BY DEF ShmGood, ShmType
    <2> QED BY <2>1 DEF Segments
  <1>4. /\ ShmType' /\ DeadMapNothing' /\ BlocksHeld' /\ ProcsAt' /\ ViewsHeld'
        /\ shm'[s].links = k
        /\ \A r \in ShmSlot : /\ shm'[r].page = shm[r].page
                              /\ r # s => shm'[r] = shm[r]
                              /\ Holding(r)' <=> Holding(r)
        /\ hpc'[p] = "user" /\ \A q \in Proc : q # p => hpc'[q] = hpc[q]
    <2> HIDE DEF k
    <2>1. attached' \subseteq attached \cup {p} /\ attached \subseteq attached'
      BY <1>1
    <2>2. /\ p \in live /\ shm' = [shm EXCEPT ![s].links = k]
          /\ hpc' = [hpc EXCEPT ![p] = "user"] /\ UNCHANGED <<free, live, view, slot>>
      BY <1>1, <1>2
    <2>3. ShmGood /\ p \in Proc
      OBVIOUS
    <2> QED BY ONLY <2>1, <2>2, <2>3, <1>3, CountStep
  <1> HIDE DEF k
  <1>5. ASSUME NEW r \in ShmSlot, NEW q \in Proc, q # p, q \in UsersOf(r)' PROVE q \in UsersOf(r)
    <2>1. /\ hpc'[q] = hpc[q] /\ shm'[r].page = shm[r].page /\ UNCHANGED <<view, slot>>
          /\ q \in attached' <=> q \in attached
      BY <1>1, <1>4, <1>5
    <2> QED BY ONLY <2>1, <1>5 DEF UsersOf
  <1>6. ASSUME NEW r \in ShmSlot, r # s, Holding(r), p \in UsersOf(r)' PROVE p \in UsersOf(r)
    <2>1. shm[r].page # shm[s].page
      BY <1>2, <1>6 DEF ShmGood, BlocksHeld
    <2>2. /\ hpc[p] \in {"inc", "inc own"} /\ hpc'[p] = "user"
          /\ p \in attached' => (p \in attached \/ hpc[p] = "inc own")
          /\ hpc[p] = "inc own" => shm[s].page = p
          /\ hpc[p] = "inc" => view[p] = shm[s].page
          /\ shm'[r].page = shm[r].page /\ UNCHANGED <<view, slot>> /\ p \in Proc
      BY <1>1, <1>2, <1>4
    <2> QED BY ONLY <2>1, <2>2, <1>6 DEF UsersOf
  <1>7. LinksCount'
    <2> SUFFICES ASSUME NEW r \in ShmSlot
                 PROVE  /\ shm'[r].links >= 0
                        /\ Holding(r)' => /\ IsFiniteSet(UsersOf(r)')
                                          /\ shm'[r].links >= Cardinality(UsersOf(r)')
      BY DEF LinksCount
    <2>0. shm[r].links \in Int /\ shm[r].links >= 0
      BY DEF ShmGood, ShmType, Segments, LinksCount
    <2>1. CASE r = s
      <3>1. /\ IsFiniteSet(UsersOf(s)) /\ shm[s].links >= Cardinality(UsersOf(s))
        BY <1>2 DEF ShmGood, LinksCount
      <3>2. UsersOf(s)' \subseteq UsersOf(s) \cup {p}
        <4> SUFFICES ASSUME NEW q \in UsersOf(s)', q # p PROVE q \in UsersOf(s)
          OBVIOUS
        <4>1. q \in Proc
          BY DEF UsersOf
        <4> QED BY <4>1, <1>2, <1>5
      <3>3. IsFiniteSet(UsersOf(s)') /\ shm[s].links + 1 >= Cardinality(UsersOf(s)')
        BY ONLY <3>1, <3>2, <1>3, OneMoreUser
      <3> QED BY <3>3, <2>0, <2>1, <1>4 DEF k
    <2>2. CASE r # s
      <3>1. ASSUME Holding(r)'
            PROVE  IsFiniteSet(UsersOf(r)') /\ shm[r].links >= Cardinality(UsersOf(r)')
        <4>1. Holding(r) /\ IsFiniteSet(UsersOf(r)) /\ shm[r].links >= Cardinality(UsersOf(r))
          BY <3>1, <1>4 DEF ShmGood, LinksCount
        <4>2. UsersOf(r)' \subseteq UsersOf(r)
          <5> SUFFICES ASSUME NEW q \in UsersOf(r)' PROVE q \in UsersOf(r)
            OBVIOUS
          <5>1. q \in Proc
            BY DEF UsersOf
          <5> QED BY <5>1, <4>1, <2>2, <1>5, <1>6
        <4> QED BY ONLY <4>1, <4>2, <2>0, FewerUsers
      <3> QED BY <3>1, <2>0, <2>2, <1>4
    <2> QED BY <2>1, <2>2
  <1> QED BY <1>4, <1>7 DEF ShmGood

\* The process is counted no more.
LEMMA UnmapDecShm ==
    ASSUME ShmGood, NEW p \in Proc, M!UnmapDec(p) PROVE ShmGood'
  <1>0. PICK s \in ShmSlot : s = slot[p]
    BY DEF ShmGood, ShmType
  <1> DEFINE k == shm[s].links - 1
  <1>1. /\ hpc[p] = "dec" /\ hpc' = [hpc EXCEPT ![p] = "user"]
        /\ shm' = [shm EXCEPT ![s].links = k]
        /\ UNCHANGED <<free, live, view, attached, slot>>
    BY <1>0 DEF M!UnmapDec, M!Go
  <1>2. /\ Holding(s) /\ p \in live /\ view[p] # shm[s].page
        /\ ~ (shm[s].page = p /\ p \in attached)
    BY <1>0, <1>1, InsideLives DEF ShmGood, ProcsAt, ProcAt, Holding
  <1>3. k \in Int /\ shm[s].links \in Int
    <2>1. shm[s] \in Segments
      BY DEF ShmGood, ShmType
    <2> QED BY <2>1 DEF Segments
  <1>4. /\ ShmType' /\ DeadMapNothing' /\ BlocksHeld' /\ ProcsAt' /\ ViewsHeld'
        /\ shm'[s].links = k
        /\ \A r \in ShmSlot : /\ shm'[r].page = shm[r].page
                              /\ r # s => shm'[r] = shm[r]
                              /\ Holding(r)' <=> Holding(r)
        /\ hpc'[p] = "user" /\ \A q \in Proc : q # p => hpc'[q] = hpc[q]
    <2> HIDE DEF k
    <2>1. attached' \subseteq attached \cup {p} /\ attached \subseteq attached'
      BY <1>1
    <2>2. /\ p \in live /\ shm' = [shm EXCEPT ![s].links = k]
          /\ hpc' = [hpc EXCEPT ![p] = "user"] /\ UNCHANGED <<free, live, view, slot>>
      BY <1>1, <1>2
    <2>3. ShmGood /\ p \in Proc
      OBVIOUS
    <2> QED BY ONLY <2>1, <2>2, <2>3, <1>3, CountStep
  <1> HIDE DEF k
  <1>5. ASSUME NEW r \in ShmSlot, NEW q \in Proc, q # p, q \in UsersOf(r)' PROVE q \in UsersOf(r)
    <2>1. hpc'[q] = hpc[q] /\ shm'[r].page = shm[r].page /\ UNCHANGED <<view, slot, attached>>
      BY <1>1, <1>4, <1>5
    <2> QED BY ONLY <2>1, <1>5 DEF UsersOf
  <1>6. ASSUME NEW r \in ShmSlot, p \in UsersOf(r)' PROVE p \in UsersOf(r) /\ r # s
    <2>1. /\ hpc[p] = "dec" /\ hpc'[p] = "user" /\ p \in Proc
          /\ view[p] # shm[s].page /\ ~ (shm[s].page = p /\ p \in attached)
          /\ shm'[r].page = shm[r].page /\ UNCHANGED <<view, slot, attached>>
      BY <1>1, <1>2, <1>4
    <2> QED BY ONLY <2>1, <1>6 DEF UsersOf
  <1>7. LinksCount'
    <2> SUFFICES ASSUME NEW r \in ShmSlot
                 PROVE  /\ shm'[r].links >= 0
                        /\ Holding(r)' => /\ IsFiniteSet(UsersOf(r)')
                                          /\ shm'[r].links >= Cardinality(UsersOf(r)')
      BY DEF LinksCount
    <2>0. shm[r].links \in Int /\ shm[r].links >= 0
      BY DEF ShmGood, ShmType, Segments, LinksCount
    <2>1. CASE r = s
      <3>1. IsFiniteSet(UsersOf(s)) /\ shm[s].links >= Cardinality(UsersOf(s))
        BY <1>2 DEF ShmGood, LinksCount
      <3>2. UsersOf(s)' \subseteq UsersOf(s) \ {p}
        <4> SUFFICES ASSUME NEW q \in UsersOf(s)' PROVE q \in UsersOf(s) /\ q # p
          OBVIOUS
        <4>1. q \in Proc
          BY DEF UsersOf
        <4> QED BY <4>1, <1>5, <1>6
      <3>3. p \in UsersOf(s)
        BY <1>0, <1>1 DEF UsersOf
      <3>4. /\ IsFiniteSet(UsersOf(s)') /\ shm[s].links - 1 >= Cardinality(UsersOf(s)')
            /\ shm[s].links - 1 >= 0
        BY ONLY <3>1, <3>2, <3>3, <1>3, OneUserLess
      <3> QED BY <3>4, <2>1, <1>4 DEF k
    <2>2. CASE r # s
      <3>1. ASSUME Holding(r)'
            PROVE  IsFiniteSet(UsersOf(r)') /\ shm[r].links >= Cardinality(UsersOf(r)')
        <4>1. Holding(r) /\ IsFiniteSet(UsersOf(r)) /\ shm[r].links >= Cardinality(UsersOf(r))
          BY <3>1, <1>4 DEF ShmGood, LinksCount
        <4>2. UsersOf(r)' \subseteq UsersOf(r)
          <5> SUFFICES ASSUME NEW q \in UsersOf(r)' PROVE q \in UsersOf(r)
            OBVIOUS
          <5>1. q \in Proc
            BY DEF UsersOf
          <5> QED BY <5>1, <1>5, <1>6
        <4> QED BY ONLY <4>1, <4>2, <2>0, FewerUsers
      <3> QED BY <3>1, <2>0, <2>2, <1>4
    <2> QED BY <2>1, <2>2
  <1> QED BY <1>4, <1>7 DEF ShmGood

\* One slot that nobody uses changes hands and has no memory afterwards.
LEMMA SlotAway ==
    ASSUME ShmGood, NEW s \in ShmSlot, shm' \in [ShmSlot -> Segments],
           shm'[s].links = shm[s].links, ~ Holding(s)',
           shm'[s].name # NoName => ~ shm'[s].private,
           \A r \in ShmSlot : r # s => shm'[r] = shm[r],
           free' \subseteq Page,
           \A r \in ShmSlot : r # s /\ Holding(r) => shm[r].page \notin free',
           \A q \in Proc : slot[q] = s => hpc[q] = "user",
           \A q \in Proc : view[q] # NoPage =>
                              \E r \in ShmSlot : r # s /\ Holding(r) /\ shm[r].page = view[q],
           UNCHANGED <<live, view, attached, hpc, slot>>
    PROVE  ShmGood'
  <1>1. ShmType'
    BY DEF ShmGood, ShmType
  <1>2. DeadMapNothing'
    BY DEF ShmGood, DeadMapNothing
  <1>3. \A r \in ShmSlot : r # s => (Holding(r)' <=> Holding(r))
    BY DEF Holding
  <1>4. BlocksHeld'
    <2>1. BlocksHeld
      BY DEF ShmGood
    <2>2. \A r \in ShmSlot : shm'[r].name # NoName /\ shm'[r].page = NoPage => ~ shm'[r].private
      BY <2>1 DEF BlocksHeld
    <2>3. \A r \in ShmSlot : Holding(r)' => r # s /\ Holding(r) /\ shm'[r] = shm[r]
      BY <1>3
    <2>4. \A r \in ShmSlot : Holding(r)' =>
             /\ shm'[r].page \notin free'
             /\ shm'[r].private <=> shm'[r].page \in Proc
             /\ shm'[r].page \in Proc => shm'[r].page \in live'
      BY <2>1, <2>3 DEF BlocksHeld
    <2>5. \A q, r \in ShmSlot : Holding(q)' /\ Holding(r)' /\ shm'[r].page = shm'[q].page => r = q
      BY ONLY <2>1, <2>3 DEF BlocksHeld
    <2> QED BY ONLY <2>2, <2>4, <2>5 DEF BlocksHeld
  <1>5. ProcsAt'
    <2> SUFFICES ASSUME NEW q \in Proc PROVE ProcAt(q)'
      BY DEF ProcsAt
    <2>1. CASE hpc[q] = "user"
      BY <2>1 DEF ProcAt
    <2>2. CASE hpc[q] # "user"
      <3>1. shm'[slot[q]] = shm[slot[q]] /\ UNCHANGED <<view, attached, hpc, slot>>
        BY <2>2 DEF ShmGood, ShmType
      <3>2. ProcAt(q)
        BY DEF ShmGood, ProcsAt
      <3> QED BY ONLY <3>1, <3>2 DEF ProcAt
    <2> QED BY <2>1, <2>2
  <1>6. ViewsHeld'
    BY <1>3 DEF ViewsHeld
  <1>7. LinksCount'
    <2> SUFFICES ASSUME NEW r \in ShmSlot
                 PROVE  /\ shm'[r].links >= 0
                        /\ Holding(r)' => /\ IsFiniteSet(UsersOf(r)')
                                          /\ shm'[r].links >= Cardinality(UsersOf(r)')
      BY DEF LinksCount
    <2>0. shm'[r].links = shm[r].links /\ shm[r].links \in Int /\ shm[r].links >= 0
      BY DEF ShmGood, ShmType, Segments, LinksCount
    <2>1. ASSUME Holding(r)'
          PROVE  IsFiniteSet(UsersOf(r)') /\ shm[r].links >= Cardinality(UsersOf(r)')
      <3>1. r # s /\ Holding(r) /\ shm'[r] = shm[r]
        BY <2>1, <1>3
      <3>2. IsFiniteSet(UsersOf(r)) /\ shm[r].links >= Cardinality(UsersOf(r))
        BY <3>1 DEF ShmGood, LinksCount
      <3>3. UsersOf(r)' \subseteq UsersOf(r)
        BY <3>1 DEF UsersOf
      <3> QED BY ONLY <3>2, <3>3, <2>0, FewerUsers
    <2> QED BY <2>0, <2>1
  <1> QED BY <1>1, <1>2, <1>4, <1>5, <1>6, <1>7 DEF ShmGood

\* share_mem_get takes a slot that has no name.
LEMMA GetShm ==
    ASSUME ShmGood, NEW p \in Proc, NEW n \in ShmName, M!share_mem_get(p, n) PROVE ShmGood'
  <1> DEFINE unused == M!find_by_name(NoName)
  <1>1. PICK s : s = M!Min(unused)
    OBVIOUS
  <1>2. /\ unused # {}
        /\ shm' = [shm EXCEPT ![s].name = n, ![s].page = NoPage, ![s].private = FALSE]
        /\ UNCHANGED <<free, live, view, attached, hpc, slot>>
    BY <1>1 DEF M!share_mem_get
  <1>3. unused \subseteq ShmSlot /\ unused \subseteq Nat
    BY ShmConstants DEF M!find_by_name
  <1>4. s \in unused
    <2> HIDE DEF unused
    <2> QED BY <1>1, <1>2, <1>3, LeastSlot
  <1>5. s \in ShmSlot /\ shm[s].name = NoName
    BY <1>4 DEF M!find_by_name
  <1> HIDE DEF unused
  <1>6. /\ shm' \in [ShmSlot -> Segments]
        /\ shm'[s].links = shm[s].links /\ shm'[s].page = NoPage /\ ~ shm'[s].private
        /\ \A r \in ShmSlot : r # s => shm'[r] = shm[r]
    <2> DEFINE x == [shm[s] EXCEPT !.name = n, !.page = NoPage, !.private = FALSE]
    <2>1. shm[s] \in Segments /\ shm \in [ShmSlot -> Segments]
      BY <1>5 DEF ShmGood, ShmType
    <2>2. x \in Segments /\ x.links = shm[s].links /\ x.page = NoPage /\ ~ x.private
      BY ONLY <2>1, n \in ShmName DEF Segments, Blocks
    <2>3. shm' = [shm EXCEPT ![s] = x]
      BY ONLY <1>2, <1>5, <2>1
    <2> HIDE DEF x
    <2> QED BY ONLY <2>1, <2>2, <2>3, <1>5
  <1>7. ~ Holding(s)' /\ ~ Holding(s)
    BY <1>5, <1>6 DEF Holding
  <1>8. \A q \in Proc : slot[q] = s => hpc[q] = "user"
    BY <1>5 DEF ShmGood, ProcsAt, ProcAt
  <1>9. \A q \in Proc : view[q] # NoPage =>
           \E r \in ShmSlot : r # s /\ Holding(r) /\ shm[r].page = view[q]
    BY <1>7 DEF ShmGood, ViewsHeld
  <1>10. /\ free' \subseteq Page
         /\ \A r \in ShmSlot : r # s /\ Holding(r) => shm[r].page \notin free'
    BY <1>2 DEF ShmGood, ShmType, BlocksHeld
  <1>11. ShmGood /\ UNCHANGED <<live, view, attached, hpc, slot>>
    BY <1>2
  <1> QED BY ONLY <1>5, <1>6, <1>7, <1>8, <1>9, <1>10, <1>11, SlotAway

\* share_mem_put takes the name away from a slot in which nobody is counted.
LEMMA PutShm ==
    ASSUME ShmGood, NEW p \in Proc, NEW s \in ShmSlot, M!share_mem_put(p, s), ~ disturbed'
    PROVE  ShmGood'
  <1>1. /\ shm[s].name # NoName /\ shm[s].links <= 0 /\ M!Mapping(s) = {}
        /\ free' = free \cup (IF shm[s].private THEN {} ELSE {shm[s].page} \ {NoPage})
        /\ shm' = [shm EXCEPT ![s].name = NoName]
        /\ UNCHANGED <<live, view, attached, hpc, slot>>
    BY DEF M!share_mem_put, M!Named, M!Freeable
  <1>2. /\ shm' \in [ShmSlot -> Segments] /\ shm[s] \in Segments
        /\ shm'[s].links = shm[s].links /\ shm'[s].name = NoName
        /\ \A r \in ShmSlot : r # s => shm'[r] = shm[r]
    <2> DEFINE x == [shm[s] EXCEPT !.name = NoName]
    <2>1. shm[s] \in Segments /\ shm \in [ShmSlot -> Segments]
      BY DEF ShmGood, ShmType
    <2>2. x \in Segments /\ x.links = shm[s].links /\ x.name = NoName
      BY ONLY <2>1 DEF Segments
    <2>3. shm' = [shm EXCEPT ![s] = x]
      BY <1>1
    <2> HIDE DEF x
    <2> QED BY ONLY <2>1, <2>2, <2>3, s \in ShmSlot
  <1>3. ~ Holding(s)'
    BY <1>2 DEF Holding
  <1>4. Holding(s) => UsersOf(s) = {}
    <2> SUFFICES ASSUME Holding(s) PROVE UsersOf(s) = {}
      OBVIOUS
    <2>1. /\ IsFiniteSet(UsersOf(s)) /\ shm[s].links >= Cardinality(UsersOf(s))
          /\ shm[s].links \in Int
      BY <1>2 DEF ShmGood, LinksCount, Segments
    <2>2. Cardinality(UsersOf(s)) \in Nat
      BY <2>1, FS_CardinalityType
    <2>3. Cardinality(UsersOf(s)) = 0
      BY ONLY <1>1, <2>1, <2>2
    <2> QED BY ONLY <2>1, <2>3, FS_EmptySet
  <1>5. ASSUME NEW q \in Proc, slot[q] = s PROVE hpc[q] = "user"
    <2>1. hpc[q] \in {"user", "unmap", "unmap own", "dec"}
      BY <1>1, <1>5 DEF M!Mapping
    <2>2. ASSUME hpc[q] # "user" PROVE FALSE
      <3>1. ProcAt(q)
        BY DEF ShmGood, ProcsAt
      <3>2. Holding(s)
        BY ONLY <2>1, <2>2, <3>1, <1>1, <1>5 DEF ProcAt, Holding
      <3>3. q \in UsersOf(s)
        BY ONLY <2>1, <2>2, <3>1, <1>5, q \in Proc DEF ProcAt, UsersOf
      <3> QED BY <3>2, <3>3, <1>4
    <2> QED BY <2>2
  <1>6. ASSUME NEW q \in Proc, view[q] # NoPage
        PROVE  \E r \in ShmSlot : r # s /\ Holding(r) /\ shm[r].page = view[q]
    <2>1. PICK r \in ShmSlot : Holding(r) /\ shm[r].page = view[q]
      BY <1>6 DEF ShmGood, ViewsHeld
    <2>2. ASSUME r = s PROVE FALSE
      <3>1. hpc[q] = "inc"
        BY <2>1, <2>2, <1>4 DEF UsersOf
      <3>2. ProcAt(q) /\ slot[q] \in ShmSlot
        BY DEF ShmGood, ProcsAt, ShmType
      <3>3. Holding(slot[q]) /\ shm[slot[q]].page = view[q]
        BY ONLY <3>1, <3>2 DEF ProcAt, Holding
      <3>4. BlocksHeld
        BY DEF ShmGood
      <3>5. slot[q] = s
        BY ONLY <3>2, <3>3, <3>4, <2>1, <2>2, s \in ShmSlot DEF BlocksHeld
      <3> QED BY <3>1, <3>5, <1>5
    <2> QED BY <2>1, <2>2
  <1>7. free' \subseteq Page
    <2>1. ASSUME ~ shm[s].private PROVE shm[s].page \in Page \cup {NoPage}
      <3>1. shm[s].page \in Blocks
        BY <1>2 DEF Segments
      <3>2. shm[s].page \in Proc => Holding(s)
        BY <1>1, ShmConstants DEF Holding
      <3> QED BY <2>1, <3>1, <3>2 DEF ShmGood, BlocksHeld, Blocks
    <2>2. free \subseteq Page
      BY DEF ShmGood, ShmType
    <2> QED BY ONLY <1>1, <2>1, <2>2
  <1>8. ASSUME NEW r \in ShmSlot, r # s, Holding(r) PROVE shm[r].page \notin free'
    <2>1. BlocksHeld
      BY DEF ShmGood
    <2>2. shm[r].page \notin free
      BY ONLY <1>8, <2>1 DEF BlocksHeld
    <2>3. shm[r].page # NoPage
      BY <1>8 DEF Holding
    <2>4. shm[r].page # shm[s].page
      BY ONLY <1>1, <1>8, <2>1, <2>3, s \in ShmSlot DEF BlocksHeld, Holding
    <2> QED BY ONLY <1>1, <2>2, <2>3, <2>4
  <1>9. ShmGood /\ UNCHANGED <<live, view, attached, hpc, slot>>
    BY <1>1
  <1> QED BY ONLY <1>1, <1>2, <1>3, <1>5, <1>6, <1>7, <1>8, <1>9, s \in ShmSlot, SlotAway

\* fork: the child maps what the parent maps and is counted in that slot.
LEMMA ForkShm ==
    ASSUME ShmGood, NEW p \in Proc, NEW c \in Proc, M!Fork(p, c) PROVE ShmGood'
  <1> DEFINE found == IF view[p] = NoPage THEN {} ELSE M!find_by_addr(view[p])
  <1>1. /\ p \in live /\ hpc[p] = "user" /\ c \notin live
        /\ live' = live \cup {c} /\ view' = [view EXCEPT ![c] = view[p]]
        /\ attached' = IF p \in attached THEN attached \cup {c} ELSE attached \ {c}
        /\ UNCHANGED <<free, hpc, slot>>
    BY DEF M!Fork, M!Calls
  <1>2. shm' = [s \in ShmSlot |-> IF found # {} /\ s = M!Min(found)
                                 THEN [shm[s] EXCEPT !.links = @ + 1] ELSE shm[s]]
    BY DEF M!Fork
  <1>3. shm \in [ShmSlot -> Segments] /\ \A s \in ShmSlot : shm[s] \in Segments
    BY DEF ShmGood, ShmType
  <1>4. \A r \in ShmSlot : r \in found <=> Holding(r) /\ shm[r].page = view[p]
    BY DEF M!find_by_addr, M!Named, Holding
  <1>5. ASSUME NEW r \in ShmSlot, Holding(r), shm[r].page = view[p] PROVE r = M!Min(found)
    <2>1. found \subseteq ShmSlot /\ found \subseteq Nat /\ r \in found
      BY <1>4, <1>5, ShmConstants DEF M!find_by_addr
    <2>2. M!Min(found) \in found
      <3> HIDE DEF found
      <3> QED BY <2>1, LeastSlot
    <2>3. Holding(M!Min(found)) /\ shm[M!Min(found)].page = view[p] /\ M!Min(found) \in ShmSlot
      <3> HIDE DEF found
      <3> QED BY <2>1, <2>2, <1>4
    <2>4. BlocksHeld
      BY DEF ShmGood
    <2> HIDE DEF found
    <2> QED BY ONLY <2>3, <2>4, <1>5 DEF BlocksHeld
  <1>6. \A r \in ShmSlot : Holding(r) /\ shm[r].page = view[p] => r = M!Min(found) /\ found # {}
    <2> HIDE DEF found
    <2> QED BY <1>4, <1>5
  <1> HIDE DEF found
  <1>7. ASSUME NEW r \in ShmSlot
        PROVE  /\ shm'[r] \in Segments /\ shm'[r].name = shm[r].name
               /\ shm'[r].page = shm[r].page /\ shm'[r].private = shm[r].private
               /\ shm'[r].links = shm[r].links \/ shm'[r].links = shm[r].links + 1
               /\ Holding(r) /\ shm[r].page = view[p] => shm'[r].links = shm[r].links + 1
    <2>1. shm[r] \in Segments
      BY <1>3
    <2>2. CASE found # {} /\ r = M!Min(found)
      <3>1. shm'[r] = [shm[r] EXCEPT !.links = @ + 1]
        BY ONLY <1>2, <2>2, r \in ShmSlot
      <3> QED BY ONLY <2>1, <3>1 DEF Segments
    <2>3. CASE ~ (found # {} /\ r = M!Min(found))
      <3>1. shm'[r] = shm[r]
        BY ONLY <1>2, <2>3, r \in ShmSlot
      <3> QED BY <2>1, <2>3, <3>1, <1>6
    <2> QED BY <2>2, <2>3
  <1>8. \A r \in ShmSlot : Holding(r)' <=> Holding(r)
    BY <1>7 DEF Holding
  <1>9. /\ c # p /\ hpc[c] = "user" /\ view[c] = NoPage /\ c \notin attached
        /\ view'[c] = view[p]
        /\ \A q \in Proc : q # c => view'[q] = view[q] /\ (q \in attached' <=> q \in attached)
        /\ UNCHANGED <<free, hpc, slot>> /\ live' = live \cup {c}
    BY <1>1 DEF ShmGood, DeadMapNothing, ShmType
  <1>10. ShmType'
    <2>1. shm' \in [ShmSlot -> Segments]
      BY <1>2, <1>7
    <2>2. view[p] \in Blocks /\ attached' \subseteq Proc /\ live' \subseteq Proc
      BY <1>1 DEF ShmGood, ShmType
    <2> QED BY <1>1, <2>1, <2>2 DEF ShmGood, ShmType
  <1>11. DeadMapNothing'
    <2>1. DeadMapNothing
      BY DEF ShmGood
    <2> QED BY ONLY <1>9, <2>1 DEF DeadMapNothing
  <1>12. BlocksHeld'
    <2>1. BlocksHeld
      BY DEF ShmGood
    <2> QED BY ONLY <1>7, <1>8, <1>9, <2>1 DEF BlocksHeld
  <1>13. ProcsAt'
    <2> SUFFICES ASSUME NEW q \in Proc PROVE ProcAt(q)'
      BY DEF ProcsAt
    <2>1. CASE q = c
      BY <2>1, <1>9 DEF ProcAt
    <2>2. CASE q # c
      <3>1. ProcAt(q) /\ slot[q] \in ShmSlot
        BY DEF ShmGood, ProcsAt, ShmType
      <3>2. shm'[slot[q]].name = shm[slot[q]].name /\ shm'[slot[q]].page = shm[slot[q]].page
        BY <3>1, <1>7
      <3> QED BY ONLY <3>1, <3>2, <2>2, <1>9, q \in Proc DEF ProcAt
    <2> QED BY <2>1, <2>2
  <1>14. ViewsHeld'
    <2>1. ViewsHeld
      BY DEF ShmGood
    <2>2. \A q \in Proc : view'[q] = IF q = c THEN view[p] ELSE view[q]
      BY <1>9
    <2> QED BY ONLY <1>7, <1>8, <2>1, <2>2, p \in Proc DEF ViewsHeld
  <1>15. ASSUME NEW r \in ShmSlot, NEW q \in Proc, q # c, q \in UsersOf(r)' PROVE q \in UsersOf(r)
    <2>1. /\ view'[q] = view[q] /\ (q \in attached' <=> q \in attached)
          /\ shm'[r].page = shm[r].page /\ UNCHANGED <<hpc, slot>>
      BY <1>7, <1>9, <1>15
    <2> QED BY ONLY <2>1, <1>15 DEF UsersOf
  <1>16. ASSUME NEW r \in ShmSlot, Holding(r), c \in UsersOf(r)' PROVE shm[r].page = view[p]
    <2>1. shm[r].page # c
      BY <1>1, <1>16 DEF ShmGood, BlocksHeld
    <2>2. /\ view'[c] = view[p] /\ hpc'[c] = "user" /\ shm'[r].page = shm[r].page
      BY <1>7, <1>9
    <2> QED BY ONLY <2>1, <2>2, <1>16 DEF UsersOf
  <1>17. LinksCount'
    <2> SUFFICES ASSUME NEW r \in ShmSlot
                 PROVE  /\ shm'[r].links >= 0
                        /\ Holding(r)' => /\ IsFiniteSet(UsersOf(r)')
                                          /\ shm'[r].links >= Cardinality(UsersOf(r)')
      BY DEF LinksCount
    <2>0. shm[r].links \in Int /\ shm[r].links >= 0
      BY <1>3 DEF ShmGood, Segments, LinksCount
    <2>1. shm'[r].links >= 0
      BY <2>0, <1>7
    <2>2. ASSUME Holding(r)'
          PROVE  IsFiniteSet(UsersOf(r)') /\ shm'[r].links >= Cardinality(UsersOf(r)')
      <3>1. Holding(r) /\ IsFiniteSet(UsersOf(r)) /\ shm[r].links >= Cardinality(UsersOf(r))
        BY <2>2, <1>8 DEF ShmGood, LinksCount
      <3>2. CASE shm[r].page = view[p]
        <4>1. UsersOf(r)' \subseteq UsersOf(r) \cup {c}
          <5> SUFFICES ASSUME NEW q \in UsersOf(r)', q # c PROVE q \in UsersOf(r)
            OBVIOUS
          <5>1. q \in Proc
            BY DEF UsersOf
          <5> QED BY <5>1, <1>15
        <4>2. IsFiniteSet(UsersOf(r)') /\ shm[r].links + 1 >= Cardinality(UsersOf(r)')
          BY ONLY <4>1, <3>1, <2>0, OneMoreUser
        <4>3. shm'[r].links = shm[r].links + 1
          BY <3>1, <3>2, <1>7
        <4> QED BY ONLY <4>2, <4>3
      <3>3. CASE shm[r].page # view[p]
        <4>1. UsersOf(r)' \subseteq UsersOf(r)
          <5> SUFFICES ASSUME NEW q \in UsersOf(r)' PROVE q \in UsersOf(r)
            OBVIOUS
          <5>1. q \in Proc
            BY DEF UsersOf
          <5>2. q # c
            BY <3>1, <3>3, <1>16
          <5> QED BY <5>1, <5>2, <1>15
        <4>2. IsFiniteSet(UsersOf(r)') /\ shm[r].links >= Cardinality(UsersOf(r)')
          BY ONLY <4>1, <3>1, <2>0, FewerUsers
        <4>3. shm'[r].links = shm[r].links \/ shm'[r].links = shm[r].links + 1
          BY <1>7
        <4>4. Cardinality(UsersOf(r)') \in Nat
          BY ONLY <4>2, FS_CardinalityType
        <4> QED BY ONLY <4>2, <4>3, <4>4, <2>0
      <3> QED BY <3>2, <3>3
    <2> QED BY <2>1, <2>2
  <1> QED BY <1>10, <1>11, <1>12, <1>13, <1>14, <1>17 DEF ShmGood

\* The end of a process whose own page is in no slot.
LEMMA ExitShm ==
    ASSUME ShmGood, NEW p \in Proc, M!Exit(p), ~ disturbed' PROVE ShmGood'
  <1>1. /\ p \in live /\ hpc[p] = "user" /\ live' = live \ {p}
        /\ view' = [view EXCEPT ![p] = NoPage] /\ attached' = attached \ {p}
        /\ M!find_by_addr(p) = {}
        /\ UNCHANGED <<shm, free, hpc, slot>>
    BY DEF M!Exit, M!Calls
  <1>2. /\ view'[p] = NoPage
        /\ \A q \in Proc : q # p => view'[q] = view[q] /\ (q \in attached' <=> q \in attached)
    BY <1>1 DEF ShmGood, ShmType
  <1>3. \A r \in ShmSlot : Holding(r) => shm[r].page # p
    BY <1>1 DEF M!find_by_addr, M!Named, Holding
  <1>4. ShmType'
    BY <1>1 DEF ShmGood, ShmType, Blocks
  <1>5. DeadMapNothing'
    BY <1>1, <1>2 DEF ShmGood, DeadMapNothing
  <1>6. BlocksHeld'
    BY <1>1, <1>3 DEF ShmGood, BlocksHeld, Holding
  <1>7. ProcsAt'
    BY <1>1, <1>2 DEF ShmGood, ProcsAt, ProcAt
  <1>8. ViewsHeld'
    BY <1>1, <1>2 DEF ShmGood, ViewsHeld, Holding
  <1>9. ASSUME NEW s \in ShmSlot, Holding(s) PROVE UsersOf(s)' \subseteq UsersOf(s)
    <2> SUFFICES ASSUME NEW q \in Proc, q \in UsersOf(s)' PROVE q \in UsersOf(s)
      BY DEF UsersOf
    <2>1. shm[s].page # NoPage /\ shm[s].page # p
      BY <1>3, <1>9 DEF Holding
    <2>2. CASE q = p
      BY <2>1, <2>2, <1>1, <1>2 DEF UsersOf
    <2>3. CASE q # p
      BY <2>3, <1>1, <1>2 DEF UsersOf
    <2> QED BY <2>2, <2>3
  <1>10. LinksCount'
    BY <1>1, <1>9, LinksKept DEF ShmGood
  <1> QED BY <1>4, <1>5, <1>6, <1>7, <1>8, <1>10 DEF ShmGood

\* Nothing is shared at the start.
LEMMA ShmInit == M!Init => ShmInv
  <1> SUFFICES ASSUME M!Init PROVE ShmInv
    OBVIOUS
  <1>1. M!Min(ShmSlot) \in ShmSlot
    BY ShmConstants, LeastSlot
  <1>2. /\ shm = [s \in ShmSlot |->
                    [name |-> NoName, page |-> NoPage, links |-> 0, private |-> FALSE]]
        /\ free = Page /\ live = {FirstProc} /\ view = [p \in Proc |-> NoPage] /\ attached = {}
        /\ hpc = [p \in Proc |-> "user"] /\ slot = [p \in Proc |-> M!Min(ShmSlot)]
        /\ disturbed = FALSE
    BY DEF M!Init
  <1>3. \A s \in ShmSlot : shm[s].name = NoName /\ shm[s].links = 0 /\ shm[s].page = NoPage
    BY <1>2
  <1>4. ShmType
    <2>1. shm \in [ShmSlot -> Segments]
      BY <1>2 DEF Segments, Blocks
    <2>2. live \subseteq Proc
      BY <1>2, ShmConstants
    <2> QED BY <1>1, <1>2, <2>1, <2>2 DEF ShmType, ShmPlaces, Blocks
  <1>5. \A s \in ShmSlot : ~ Holding(s)
    BY <1>3 DEF Holding
  <1>6. DeadMapNothing /\ ProcsAt /\ ViewsHeld
    BY <1>2 DEF DeadMapNothing, ProcsAt, ProcAt, ViewsHeld
  <1>7. BlocksHeld /\ LinksCount
    BY <1>3, <1>5 DEF BlocksHeld, LinksCount
  <1> QED BY <1>2, <1>4, <1>6, <1>7 DEF ShmInv, ShmGood

\* Every step keeps ShmInv.
LEMMA NextShm == ShmInv /\ [M!Next]_(M!vars) => ShmInv'
  <1> SUFFICES ASSUME ShmInv, [M!Next]_(M!vars) PROVE ShmInv'
    OBVIOUS
  <1>1. CASE UNCHANGED M!vars
    <2>1. UNCHANGED <<shm, free, live, view, attached, hpc, slot, disturbed>>
      BY <1>1 DEF M!vars
    <2>2. ASSUME ShmGood PROVE ShmGood'
      <3>1. ShmType' /\ DeadMapNothing'
        BY <2>1, <2>2 DEF ShmGood, ShmType, DeadMapNothing
      <3>2. BlocksHeld' /\ ProcsAt' /\ ViewsHeld'
        BY <2>1, <2>2 DEF ShmGood, BlocksHeld, ProcsAt, ProcAt, ViewsHeld, Holding
      <3>3. LinksCount'
        <4>1. \A s \in ShmSlot : Holding(s) => UsersOf(s)' \subseteq UsersOf(s)
          BY <2>1 DEF UsersOf
        <4> QED BY <4>1, <2>1, <2>2, LinksKept DEF ShmGood
      <3> QED BY <3>1, <3>2, <3>3 DEF ShmGood
    <2> QED BY <2>1, <2>2 DEF ShmInv
  <1>2. CASE M!Next
    <2>1. PICK p \in Proc :
             \/ \E n \in ShmName : M!share_mem_get(p, n)
             \/ \E s \in ShmSlot : M!MapFind(p, s) \/ M!share_mem_put(p, s)
             \/ M!MapTest(p) \/ M!MapAlloc(p) \/ M!MapMmap(p) \/ M!MapShareOwn(p) \/ M!MapInc(p)
             \/ \E block \in {view[p], p} : M!UnmapFind(p, block)
             \/ M!UnmapView(p) \/ M!UnmapOwn(p) \/ M!UnmapDec(p)
             \/ \E c \in Proc : M!Fork(p, c)
             \/ M!Exit(p)
      BY <1>2 DEF M!Next, M!Map
    <2>2. disturbed' \in BOOLEAN /\ (disturbed => disturbed')
      <3>0. disturbed \in BOOLEAN
        BY DEF ShmInv
      <3>1. CASE \E n \in ShmName : M!share_mem_get(p, n)
        BY <3>0, <3>1 DEF M!share_mem_get
      <3>2. CASE \E s \in ShmSlot : M!MapFind(p, s)
        <4>1. disturbed' = disturbed
          BY <3>2 DEF M!MapFind
        <4> QED BY <3>0, <4>1, Zenon
      <3>3. CASE \E s \in ShmSlot : M!share_mem_put(p, s)
        BY <3>0, <3>3 DEF M!share_mem_put
      <3>4. CASE M!MapTest(p) \/ M!MapMmap(p) \/ M!UnmapOwn(p) \/ M!UnmapDec(p)
        BY <3>0, <3>4 DEF M!MapTest, M!MapMmap, M!UnmapOwn, M!UnmapDec
      <3>5. CASE M!MapAlloc(p)
        BY <3>0, <3>5 DEF M!MapAlloc
      <3>6. CASE M!MapShareOwn(p)
        BY <3>0, <3>6 DEF M!MapShareOwn
      <3>7. CASE M!MapInc(p)
        BY <3>0, <3>7 DEF M!MapInc
      <3>8. CASE \E block \in {view[p], p} : M!UnmapFind(p, block)
        <4>1. disturbed' = disturbed
          BY <3>8 DEF M!UnmapFind
        <4> QED BY <3>0, <4>1, Zenon
      <3>9. CASE M!UnmapView(p)
        BY <3>0, <3>9 DEF M!UnmapView
      <3>10. CASE \E c \in Proc : M!Fork(p, c)
        BY <3>0, <3>10 DEF M!Fork
      <3>11. CASE M!Exit(p)
        BY <3>0, <3>11 DEF M!Exit
      <3> QED BY ONLY <2>1, <3>1, <3>2, <3>3, <3>4, <3>5, <3>6, <3>7, <3>8, <3>9, <3>10, <3>11
    <2>3. ASSUME ~ disturbed' PROVE ShmGood'
      <3>0. ShmGood
        BY <2>2, <2>3 DEF ShmInv
      <3>1. CASE \E n \in ShmName : M!share_mem_get(p, n)
        BY <3>0, <3>1, GetShm
      <3>2. CASE \E s \in ShmSlot : M!MapFind(p, s)
        BY <3>0, <3>2, MapFindShm
      <3>3. CASE \E s \in ShmSlot : M!share_mem_put(p, s)
        BY <3>0, <3>3, <2>3, PutShm
      <3>4. CASE M!MapTest(p)
        BY <3>0, <3>4, MapTestShm
      <3>5. CASE M!MapAlloc(p)
        BY <3>0, <3>5, <2>3, MapAllocShm
      <3>6. CASE M!MapMmap(p)
        BY <3>0, <3>6, MapMmapShm
      <3>7. CASE M!MapShareOwn(p)
        BY <3>0, <3>7, <2>3, MapShareOwnShm
      <3>8. CASE M!MapInc(p)
        BY <3>0, <3>8, <2>3, MapIncShm
      <3>9. CASE \E block \in {view[p], p} : M!UnmapFind(p, block)
        BY <3>0, <3>9, UnmapFindShm
      <3>10. CASE M!UnmapView(p)
        BY <3>0, <3>10, <2>3, UnmapViewShm
      <3>11. CASE M!UnmapOwn(p)
        BY <3>0, <3>11, UnmapOwnShm
      <3>12. CASE M!UnmapDec(p)
        BY <3>0, <3>12, UnmapDecShm
      <3>13. CASE \E c \in Proc : M!Fork(p, c)
        BY <3>0, <3>13, ForkShm
      <3>14. CASE M!Exit(p)
        BY <3>0, <3>14, <2>3, ExitShm
      <3> QED BY ONLY <2>1, <3>1, <3>2, <3>3, <3>4, <3>5, <3>6, <3>7, <3>8, <3>9, <3>10, <3>11,
                 <3>12, <3>13, <3>14
    <2> QED BY <2>2, <2>3 DEF ShmInv
  <1> QED BY <1>1, <1>2

\* share_mem_map, share_mem_unmap, share_mem_put, fork and exit: until one of
\* the steps that SharedPagesLive names, no page is in the allocator while it is
\* mapped, its slot can be found, and the links count everybody who maps it.
THEOREM SharedMemoryLive == M!Spec => []SharedPagesLive
  <1>1. ShmInv => SharedPagesLive
    <2> SUFFICES ASSUME ShmGood
                 PROVE  /\ \A p \in Proc : view[p] \notin free
                        /\ \A p \in Proc : view[p] \in Page => M!find_by_addr(view[p]) # {}
                        /\ \A s \in ShmSlot : M!Named(s) /\ shm[s].page \in Page =>
                              shm[s].links >= M!Cardinality(M!Counted(s))
      BY DEF ShmInv, SharedPagesLive, M!SharedPagesLive
    <2>1. ASSUME NEW p \in Proc PROVE view[p] \notin free
      <3>1. CASE view[p] = NoPage
        BY <3>1, ShmConstants DEF ShmGood, ShmType
      <3>2. CASE view[p] # NoPage
        <4>1. PICK s \in ShmSlot : Holding(s) /\ shm[s].page = view[p]
          BY <3>2 DEF ShmGood, ViewsHeld
        <4> QED BY <4>1 DEF ShmGood, BlocksHeld
      <3> QED BY <3>1, <3>2
    <2>2. ASSUME NEW p \in Proc, view[p] \in Page PROVE M!find_by_addr(view[p]) # {}
      <3>1. PICK s \in ShmSlot : Holding(s) /\ shm[s].page = view[p]
        BY <2>2, ShmConstants DEF ShmGood, ViewsHeld
      <3> QED BY <3>1 DEF Holding, M!find_by_addr, M!Named
    <2>3. ASSUME NEW s \in ShmSlot, M!Named(s), shm[s].page \in Page
          PROVE  shm[s].links >= M!Cardinality(M!Counted(s))
      <3>1. Holding(s)
        BY <2>3, ShmConstants DEF M!Named, Holding
      <3>2. IsFiniteSet(UsersOf(s)) /\ shm[s].links >= Cardinality(UsersOf(s))
        BY <3>1 DEF ShmGood, LinksCount
      <3>3. M!Counted(s) \subseteq UsersOf(s)
        BY DEF M!Counted, UsersOf
      <3>4. shm[s].links \in Int
        BY DEF ShmGood, ShmType, Segments
      <3>5. shm[s].links >= Cardinality(M!Counted(s))
        BY ONLY <3>2, <3>3, <3>4, FewerUsers
      <3>6. M!Cardinality(M!Counted(s)) = Cardinality(M!Counted(s))
        BY DEF M!Cardinality, Cardinality
      <3> QED BY <3>5, <3>6
    <2> QED BY <2>1, <2>2, <2>3
  <1> QED BY <1>1, ShmInit, NextShm, PTL DEF M!Spec
-----------------------------------------------------------------------------
(* Address ranges (VmSpace): numbers.                                      *)

LEMMA LeastIndex ==
    ASSUME NEW S, S \subseteq Nat, S # {}
    PROVE  V!Min(S) \in S /\ \A x \in S : V!Min(S) <= x
  <1>1. PICK x \in S : \A y \in S : ~ (<<y, x>> \in OpToRel(<, Nat))
    BY NatLessThanWellFounded, WFMin
  <1>2. \A y \in S : ~ (y < x)
    BY <1>1 DEF OpToRel
  <1>3. \A y \in S : x =< y
    BY <1>2
  <1> QED BY <1>3 DEF V!Min

LEMMA Multiples ==
    ASSUME NEW m \in Nat \ {0}, NEW x \in Int, NEW y \in Int, x < y
    PROVE  m * x + m <= m * y
  <1>1. PICK d \in Nat : y = x + 1 + d
    OBVIOUS
  <1>2. m * y = m * x + m + m * d
    BY <1>1
  <1>3. m * d >= 0
    OBVIOUS
  <1> QED BY <1>2, <1>3

\* PAGE_ALIGN rounds up to a page.
LEMMA Aligned ==
    /\ PAGE_SIZE \in Nat \ {0}
    /\ \A a \in Nat : V!PAGE_ALIGN(a) \in Nat /\ a <= V!PAGE_ALIGN(a)
    /\ \A a, b \in Nat : a <= b => V!PAGE_ALIGN(a) <= V!PAGE_ALIGN(b)
    /\ \A a, b \in Nat : a <= b /\ b % PAGE_SIZE = 0 => V!PAGE_ALIGN(a) <= b
  <1>1. PICK m \in Nat \ {0} : m = PAGE_SIZE
    BY IpcAssumption DEF V!VmSpaceConstants
  <1>2. ASSUME NEW a \in Nat
        PROVE  \E k \in Nat : V!PAGE_ALIGN(a) = m * k /\ m * k >= a /\ m * k < a + m
    <2>1. PICK k \in Int : k = (a + m - 1) \div m
      OBVIOUS
    <2>2. m * k <= a + m - 1 /\ a + m - 1 < m * k + m
      BY <2>1
    <2>3. k \in Nat
      <3>1. SUFFICES ASSUME k < 0 PROVE FALSE
        BY <2>1
      <3>2. m * k + m <= m * 0
        BY <3>1, Multiples
      <3> QED BY <2>2, <3>2
    <2>4. V!PAGE_ALIGN(a) = m * k
      BY <1>1, <2>1 DEF V!PAGE_ALIGN
    <2> QED BY <2>2, <2>3, <2>4
  <1>3. ASSUME NEW a \in Nat, NEW b \in Nat, a <= b PROVE V!PAGE_ALIGN(a) <= V!PAGE_ALIGN(b)
    <2>1. PICK k \in Nat : V!PAGE_ALIGN(a) = m * k /\ m * k < a + m
      BY <1>2
    <2>2. PICK l \in Nat : V!PAGE_ALIGN(b) = m * l /\ m * l >= b
      BY <1>2
    <2>3. k <= l
      <3>1. SUFFICES ASSUME l < k PROVE FALSE
        OBVIOUS
      <3>2. m * l + m <= m * k
        BY <3>1, Multiples
      <3> QED BY <3>2, <2>1, <2>2, <1>3
    <2>4. CASE k = l
      BY <2>4, <2>1, <2>2
    <2>5. CASE k < l
      <3>1. m * k + m <= m * l
        BY <2>5, Multiples
      <3> QED BY <3>1, <2>1, <2>2
    <2> QED BY <2>3, <2>4, <2>5
  <1>4. ASSUME NEW a \in Nat, NEW b \in Nat, a <= b, b % PAGE_SIZE = 0 PROVE V!PAGE_ALIGN(a) <= b
    <2>1. PICK k \in Nat : V!PAGE_ALIGN(a) = m * k /\ m * k < a + m
      BY <1>2
    <2>2. PICK l \in Int : l = b \div m
      OBVIOUS
    <2>3. b = m * l
      BY <2>2, <1>1, <1>4
    <2>4. k <= l
      <3>1. SUFFICES ASSUME l < k PROVE FALSE
        OBVIOUS
      <3>2. m * l + m <= m * k
        BY <3>1, Multiples
      <3> QED BY <3>2, <2>1, <2>3, <1>4
    <2>5. CASE k = l
      BY <2>5, <2>1, <2>3
    <2>6. CASE k < l
      <3>1. m * k + m <= m * l
        BY <2>6, Multiples
      <3> QED BY <3>1, <2>1, <2>3
    <2> QED BY <2>4, <2>5, <2>6
  <1>5. ASSUME NEW a \in Nat PROVE V!PAGE_ALIGN(a) \in Nat /\ a <= V!PAGE_ALIGN(a)
    <2>1. PICK k \in Nat : V!PAGE_ALIGN(a) = m * k /\ m * k >= a
      BY <1>2
    <2> QED BY <2>1
  <1> QED BY <1>1, <1>3, <1>4, <1>5

-----------------------------------------------------------------------------
(* Lists of spaces.                                                        *)

Kinds == Flags \cup {V!VMS_MAP_HEAP, "image", "stack"}

Ranges == [start : Nat, end : Nat, flags : Kinds]

\* What x holds ends before what y holds begins.
Below(x, y) == \A i \in 1 .. Len(x), j \in 1 .. Len(y) : x[i].end <= y[j].start

InOrder(x) ==
    /\ \A i \in 1 .. Len(x) : x[i].start < x[i].end
    /\ \A i, j \in 1 .. Len(x) : i < j => x[i].end <= x[j].start

In(x, a) == \E i \in 1 .. Len(x) : x[i].start <= a /\ a < x[i].end

\* z is x and behind it y.
Behind(z, x, y) ==
    /\ z \in Seq(Ranges) /\ Len(z) = Len(x) + Len(y)
    /\ \A i \in 1 .. Len(x) : z[i] = x[i]
    /\ \A i \in 1 .. Len(y) : z[Len(x) + i] = y[i]

\* What ends by c is below what begins from d on.
LEMMA BelowAcross ==
    ASSUME NEW x, NEW y, NEW c \in Nat, NEW d \in Nat, c <= d,
           \A i \in 1 .. Len(x) : x[i].end \in Nat, \A i \in 1 .. Len(x) : x[i].end <= c,
           \A j \in 1 .. Len(y) : y[j].start \in Nat, \A j \in 1 .. Len(y) : d <= y[j].start
    PROVE  Below(x, y)
  <1> SUFFICES ASSUME NEW i \in 1 .. Len(x), NEW j \in 1 .. Len(y)
               PROVE  x[i].end <= y[j].start
    BY DEF Below
  <1>1. /\ x[i].end \in Nat /\ x[i].end <= c
        /\ y[j].start \in Nat /\ d <= y[j].start
    OBVIOUS
  <1> QED BY <1>1

LEMMA Concatenated ==
    ASSUME NEW x \in Seq(Ranges), NEW y \in Seq(Ranges) PROVE Behind(x \o y, x, y)
  <1>1. PICK z \in Seq(Ranges) : z = x \o y
    BY ConcatProperties
  <1>2. /\ Len(z) = Len(x) + Len(y) /\ (\A i \in 1 .. Len(x) : z[i] = x[i])
        /\ \A i \in 1 .. Len(y) : z[Len(x) + i] = y[i]
    BY <1>1
  <1> QED BY <1>1, <1>2 DEF Behind

LEMMA Joined ==
    ASSUME NEW x \in Seq(Ranges), NEW y \in Seq(Ranges)
    PROVE  /\ x \o y \in Seq(Ranges)
           /\ InOrder(x) /\ InOrder(y) /\ Below(x, y) => InOrder(x \o y)
           /\ InOrder(x \o y) => InOrder(x) /\ InOrder(y) /\ Below(x, y)
           /\ \A a : In(x \o y, a) <=> (In(x, a) \/ In(y, a))
           /\ \A z \in Seq(Ranges) :
                 /\ Below(x \o y, z) <=> (Below(x, z) /\ Below(y, z))
                 /\ Below(z, x \o y) <=> (Below(z, x) /\ Below(z, y))
  <1>2. PICK m \in Nat, n \in Nat : m = Len(x) /\ n = Len(y)
    OBVIOUS
  <1>1. PICK z \in Seq(Ranges) : z = x \o y /\ Behind(z, x, y)
    BY Concatenated DEF Behind
  <1>3. /\ Len(z) = m + n
        /\ \A i \in 1 .. m : z[i] = x[i]
        /\ \A i \in 1 .. n : z[m + i] = y[i]
    BY <1>1, <1>2 DEF Behind
  <1>4. \A i \in 1 .. m + n : i \in 1 .. m \/ \E j \in 1 .. n : i = m + j
    <2>1. ASSUME NEW i \in 1 .. m + n, i \notin 1 .. m PROVE i - m \in 1 .. n /\ i = m + (i - m)
      BY <2>1
    <2> QED BY <2>1
  <1>5. \A j \in 1 .. n : m + j \in 1 .. m + n
    OBVIOUS
  <1>6. \A i \in 1 .. m : i \in 1 .. m + n
    OBVIOUS
  <1>7. ASSUME NEW a PROVE In(z, a) <=> (In(x, a) \/ In(y, a))
    <2>1. ASSUME In(z, a) PROVE In(x, a) \/ In(y, a)
      <3>1. PICK i \in 1 .. m + n : z[i].start <= a /\ a < z[i].end
        BY <2>1, <1>3 DEF In
      <3>2. CASE i \in 1 .. m
        BY <3>1, <3>2, <1>2, <1>3 DEF In
      <3>3. CASE i \notin 1 .. m
        <4>1. PICK j \in 1 .. n : i = m + j
          BY <3>3, <1>4
        <4> QED BY <4>1, <3>1, <1>2, <1>3 DEF In
      <3> QED BY <3>2, <3>3
    <2>2. ASSUME In(x, a) PROVE In(z, a)
      <3>1. PICK i \in 1 .. m : x[i].start <= a /\ a < x[i].end
        BY <2>2, <1>2 DEF In
      <3>2. i \in 1 .. Len(z) /\ z[i] = x[i]
        BY <1>3, <1>6
      <3> QED BY <3>1, <3>2 DEF In
    <2>3. ASSUME In(y, a) PROVE In(z, a)
      <3>1. PICK i \in 1 .. n : y[i].start <= a /\ a < y[i].end
        BY <2>3, <1>2 DEF In
      <3>2. m + i \in 1 .. Len(z) /\ z[m + i] = y[i]
        BY <1>3, <1>5
      <3> QED BY <3>1, <3>2 DEF In
    <2> QED BY <2>1, <2>2, <2>3
  <1>8. ASSUME InOrder(x), InOrder(y), Below(x, y) PROVE InOrder(z)
    <2>1. \A i \in 1 .. m + n : z[i].start < z[i].end
      BY <1>2, <1>3, <1>4, <1>8 DEF InOrder
    <2>2. ASSUME NEW i \in 1 .. m + n, NEW j \in 1 .. m + n, i < j PROVE z[i].end <= z[j].start
      <3>1. CASE j \in 1 .. m
        BY <3>1, <2>2, <1>2, <1>3, <1>8 DEF InOrder
      <3>2. CASE i \notin 1 .. m
        <4>1. PICK k \in 1 .. n, l \in 1 .. n : i = m + k /\ j = m + l
          BY <3>2, <2>2, <1>4
        <4> QED BY <4>1, <2>2, <1>2, <1>3, <1>8 DEF InOrder
      <3>3. CASE i \in 1 .. m /\ j \notin 1 .. m
        <4>1. PICK l \in 1 .. n : j = m + l
          BY <3>3, <1>4
        <4> QED BY <4>1, <3>3, <1>2, <1>3, <1>8 DEF Below
      <3> QED BY <3>1, <3>2, <3>3
    <2> QED BY <2>1, <2>2, <1>3 DEF InOrder
  <1>9. ASSUME InOrder(z) PROVE InOrder(x) /\ InOrder(y) /\ Below(x, y)
    <2>1. InOrder(x)
      BY <1>2, <1>3, <1>6, <1>9 DEF InOrder
    <2>2. InOrder(y)
      <3>1. ASSUME NEW i \in 1 .. n PROVE y[i].start < y[i].end
        BY <1>3, <1>5, <1>9 DEF InOrder
      <3>2. ASSUME NEW i \in 1 .. n, NEW j \in 1 .. n, i < j PROVE y[i].end <= y[j].start
        <4>1. m + i < m + j /\ m + i \in 1 .. Len(z) /\ m + j \in 1 .. Len(z)
          BY <3>2, <1>3
        <4>2. z[m + i].end <= z[m + j].start
          BY <4>1, <1>9 DEF InOrder
        <4> QED BY <4>2, <1>3
      <3> QED BY <3>1, <3>2, <1>2 DEF InOrder
    <2>3. Below(x, y)
      <3>1. \A i \in 1 .. m, j \in 1 .. n : i < m + j
        OBVIOUS
      <3> QED BY <3>1, <1>2, <1>3, <1>5, <1>6, <1>9 DEF InOrder, Below
    <2> QED BY <2>1, <2>2, <2>3
  <1>10. ASSUME NEW u \in Seq(Ranges)
         PROVE  /\ Below(z, u) <=> (Below(x, u) /\ Below(y, u))
                /\ Below(u, z) <=> (Below(u, x) /\ Below(u, y))
    <2>0. /\ \A i \in 1 .. m : i \in 1 .. Len(z) /\ z[i] = x[i]
          /\ \A i \in 1 .. n : m + i \in 1 .. Len(z) /\ z[m + i] = y[i]
          /\ \A i \in 1 .. Len(z) : (i \in 1 .. m /\ z[i] = x[i]) \/ \E j \in 1 .. n : z[i] = y[j]
      <3>1. /\ \A i \in 1 .. m : i \in 1 .. Len(z) /\ z[i] = x[i]
            /\ \A i \in 1 .. n : m + i \in 1 .. Len(z) /\ z[m + i] = y[i]
        BY <1>3, <1>5, <1>6
      <3>2. ASSUME NEW i \in 1 .. Len(z) PROVE (i \in 1 .. m /\ z[i] = x[i]) \/ \E j \in 1 .. n : z[i] = y[j]
        <4>1. i \in 1 .. m + n
          BY <1>3
        <4>2. CASE i \in 1 .. m
          BY <4>2, <1>3
        <4>3. CASE i \notin 1 .. m
          <5>1. PICK j \in 1 .. n : i = m + j
            BY <4>1, <4>3, <1>4
          <5> QED BY <5>1, <1>3
        <4> QED BY <4>2, <4>3
      <3> QED BY <3>1, <3>2
    <2>1. Below(z, u) <=> (Below(x, u) /\ Below(y, u))
      <3>1. Below(z, u) => Below(x, u)
        BY <2>0, <1>2 DEF Below
      <3>2. ASSUME Below(z, u), NEW i \in 1 .. n, NEW j \in 1 .. Len(u) PROVE y[i].end <= u[j].start
        <4>1. m + i \in 1 .. Len(z) /\ z[m + i] = y[i]
          BY <2>0
        <4> QED BY <4>1, <3>2 DEF Below
      <3>3. ASSUME Below(x, u), Below(y, u), NEW i \in 1 .. Len(z), NEW j \in 1 .. Len(u)
            PROVE  z[i].end <= u[j].start
        BY <2>0, <3>3, <1>2 DEF Below
      <3> QED BY <3>1, <3>2, <3>3, <1>2 DEF Below
    <2>2. Below(u, z) <=> (Below(u, x) /\ Below(u, y))
      <3>1. Below(u, z) => Below(u, x)
        BY <2>0, <1>2 DEF Below
      <3>2. ASSUME Below(u, z), NEW i \in 1 .. n, NEW j \in 1 .. Len(u) PROVE u[j].end <= y[i].start
        <4>1. m + i \in 1 .. Len(z) /\ z[m + i] = y[i]
          BY <2>0
        <4> QED BY <4>1, <3>2 DEF Below
      <3>3. ASSUME Below(u, x), Below(u, y), NEW i \in 1 .. Len(z), NEW j \in 1 .. Len(u)
            PROVE  u[j].end <= z[i].start
        BY <2>0, <3>3, <1>2 DEF Below
      <3> QED BY <3>1, <3>2, <3>3, <1>2 DEF Below
    <2> QED BY <2>1, <2>2
  <1> QED BY <1>1, <1>7, <1>8, <1>9, <1>10

LEMMA OneRange ==
    ASSUME NEW r \in Ranges
    PROVE  /\ <<r>> \in Seq(Ranges) /\ Len(<<r>>) = 1 /\ <<r>>[1] = r
           /\ r.start < r.end => InOrder(<<r>>)
           /\ \A a : In(<<r>>, a) <=> (r.start <= a /\ a < r.end)
           /\ \A z \in Seq(Ranges) :
                 /\ Below(<<r>>, z) <=> \A i \in 1 .. Len(z) : r.end <= z[i].start
                 /\ Below(z, <<r>>) <=> \A i \in 1 .. Len(z) : z[i].end <= r.start
  <1>1. <<r>> \in Seq(Ranges) /\ Len(<<r>>) = 1 /\ <<r>>[1] = r
    OBVIOUS
  <1>2. \A i \in 1 .. 1 : i = 1
    OBVIOUS
  <1>3. 1 \in 1 .. 1
    OBVIOUS
  <1>4. r.start < r.end => InOrder(<<r>>)
    BY <1>1, <1>2 DEF InOrder
  <1>5. \A a : In(<<r>>, a) <=> (r.start <= a /\ a < r.end)
    BY <1>1, <1>2, <1>3 DEF In
  <1>6. ASSUME NEW z \in Seq(Ranges)
        PROVE  /\ Below(<<r>>, z) <=> \A i \in 1 .. Len(z) : r.end <= z[i].start
               /\ Below(z, <<r>>) <=> \A i \in 1 .. Len(z) : z[i].end <= r.start
    BY <1>1, <1>2, <1>3 DEF Below
  <1> QED BY <1>1, <1>4, <1>5, <1>6

LEMMA NoRange ==
    /\ << >> \in Seq(Ranges) /\ InOrder(<< >>) /\ \A a : ~ In(<< >>, a)
    /\ \A z : Below(<< >>, z) /\ Below(z, << >>)
  BY DEF InOrder, In, Below

\* The ranges of a list up to its k-th one, and from there on.
Pieces(u, v, x, k) ==
    /\ u \in Seq(Ranges) /\ Len(u) = k - 1 /\ \A i \in 1 .. k - 1 : u[i] = x[i]
    /\ v \in Seq(Ranges) /\ Len(v) = Len(x) - k + 1 /\ \A i \in 1 .. Len(x) - k + 1 : v[i] = x[k + i - 1]

LEMMA CutAt ==
    ASSUME NEW x \in Seq(Ranges), NEW n \in Nat, n = Len(x), NEW k \in 1 .. n + 1
    PROVE  Pieces(SubSeq(x, 1, k - 1), SubSeq(x, k, n), x, k)
  <1>1. /\ SubSeq(x, 1, k - 1) \in Seq(Ranges) /\ Len(SubSeq(x, 1, k - 1)) = k - 1
        /\ \A i \in 1 .. k - 1 : SubSeq(x, 1, k - 1)[i] = x[i]
    <2>1. \A i \in 1 .. k - 1 : x[i] \in Ranges
      OBVIOUS
    <2>2. /\ SubSeq(x, 1, k - 1) \in Seq(Ranges)
          /\ Len(SubSeq(x, 1, k - 1)) = IF 1 <= k - 1 THEN (k - 1) - 1 + 1 ELSE 0
          /\ \A i \in 1 .. (k - 1) - 1 + 1 : SubSeq(x, 1, k - 1)[i] = x[1 + i - 1]
      BY <2>1, SubSeqProperties
    <2>3. (IF 1 <= k - 1 THEN (k - 1) - 1 + 1 ELSE 0) = k - 1 /\ (k - 1) - 1 + 1 = k - 1
      OBVIOUS
    <2>4. \A i \in 1 .. k - 1 : 1 + i - 1 = i
      OBVIOUS
    <2> QED BY <2>2, <2>3, <2>4
  <1>2. /\ SubSeq(x, k, n) \in Seq(Ranges) /\ Len(SubSeq(x, k, n)) = n - k + 1
        /\ \A i \in 1 .. n - k + 1 : SubSeq(x, k, n)[i] = x[k + i - 1]
    <2>1. \A i \in k .. n : x[i] \in Ranges
      OBVIOUS
    <2>2. /\ SubSeq(x, k, n) \in Seq(Ranges) /\ Len(SubSeq(x, k, n)) = IF k <= n THEN n - k + 1 ELSE 0
          /\ \A i \in 1 .. n - k + 1 : SubSeq(x, k, n)[i] = x[k + i - 1]
      BY <2>1, SubSeqProperties
    <2>3. (IF k <= n THEN n - k + 1 ELSE 0) = n - k + 1
      OBVIOUS
    <2> QED BY <2>2, <2>3
  <1> QED BY <1>1, <1>2 DEF Pieces

LEMMA Split ==
    ASSUME NEW x \in Seq(Ranges), InOrder(x), NEW k \in 1 .. Len(x) + 1, NEW u, NEW v, Pieces(u, v, x, k)
    PROVE  /\ InOrder(u) /\ InOrder(v) /\ Below(u, v)
           /\ \A a : In(x, a) <=> (In(u, a) \/ In(v, a))
  <1>1. PICK n \in Nat : n = Len(x)
    OBVIOUS
  <1>2. /\ u \in Seq(Ranges) /\ Len(u) = k - 1 /\ \A i \in 1 .. k - 1 : u[i] = x[i]
        /\ v \in Seq(Ranges) /\ Len(v) = n - k + 1 /\ \A i \in 1 .. n - k + 1 : v[i] = x[k + i - 1]
        /\ k \in 1 .. n + 1
    BY <1>1 DEF Pieces
  <1>3. PICK z \in Seq(Ranges) : z = u \o v /\ Behind(z, u, v)
    BY <1>2, Concatenated DEF Behind
  <1>4. /\ Len(z) = n /\ \A i \in 1 .. k - 1 : z[i] = u[i]
        /\ \A i \in 1 .. n - k + 1 : z[(k - 1) + i] = v[i]
    <2>1. (k - 1) + (n - k + 1) = n
      BY <1>2
    <2> QED BY <1>2, <1>3, <2>1 DEF Behind
  <1>5. ASSUME NEW i \in 1 .. n PROVE z[i] = x[i]
    <2>1. CASE i <= k - 1
      BY <1>2, <1>4, <2>1
    <2>2. CASE ~ (i <= k - 1)
      <3>1. PICK j \in 1 .. n - k + 1 : k + j - 1 = i /\ (k - 1) + j = i
        <4>1. i - (k - 1) \in 1 .. n - k + 1 /\ k + (i - (k - 1)) - 1 = i /\ (k - 1) + (i - (k - 1)) = i
          BY <1>2, <2>2
        <4> QED BY <4>1
      <3>2. v[j] = x[i]
        BY <3>1, <1>2
      <3>3. z[i] = v[j]
        BY <3>1, <1>4
      <3> QED BY <3>2, <3>3
    <2> QED BY <2>1, <2>2
  <1>6. x = u \o v
    BY <1>1, <1>3, <1>4, <1>5, SeqEqual
  <1> QED BY <1>2, <1>6, Joined

\* r is an end of the list x, and y the rest of x.
RestOf(y, r, x) ==
    /\ y \in Seq(Ranges) /\ InOrder(y) /\ r \in Ranges /\ r.start < r.end
    /\ \E i \in 1 .. Len(x) : r = x[i]
    /\ \A i \in 1 .. Len(y) : \E j \in 1 .. Len(x) : y[i] = x[j]
    /\ \A a : In(x, a) <=> (In(y, a) \/ (r.start <= a /\ a < r.end))

LEMMA Ends ==
    ASSUME NEW x \in Seq(Ranges), x # << >>, InOrder(x)
    PROVE  /\ RestOf(V!Front(x), V!Last(x), x) /\ Below(V!Front(x), <<V!Last(x)>>)
           /\ RestOf(Tail(x), Head(x), x) /\ Below(<<Head(x)>>, Tail(x))
  <1>1. PICK n \in Nat \ {0} : n = Len(x)
    BY EmptySeq
  <1>2. 1 \in 1 .. n /\ n \in 1 .. n /\ n \in 1 .. n + 1
    OBVIOUS
  <1>3. PICK l \in Ranges : l = x[n]
    BY <1>1, <1>2
  <1>4. PICK f : f = SubSeq(x, 1, n - 1)
    OBVIOUS
  <1>5. PICK r : r = SubSeq(x, n, n)
    OBVIOUS
  <1>6. /\ f \in Seq(Ranges) /\ Len(f) = n - 1 /\ \A i \in 1 .. n - 1 : f[i] = x[i]
        /\ r \in Seq(Ranges) /\ Len(r) = n - n + 1 /\ \A i \in 1 .. n - n + 1 : r[i] = x[n + i - 1]
        /\ InOrder(f) /\ Below(f, r) /\ \A a : In(x, a) <=> (In(f, a) \/ In(r, a))
    <2>0. Pieces(f, r, x, n)
      BY <1>1, <1>2, <1>4, <1>5, CutAt
    <2>1. /\ f \in Seq(Ranges) /\ Len(f) = n - 1 /\ \A i \in 1 .. n - 1 : f[i] = x[i]
          /\ r \in Seq(Ranges) /\ Len(r) = n - n + 1 /\ \A i \in 1 .. n - n + 1 : r[i] = x[n + i - 1]
      BY <2>0, <1>1 DEF Pieces
    <2>2. InOrder(f) /\ Below(f, r) /\ \A a : In(x, a) <=> (In(f, a) \/ In(r, a))
      BY <1>1, <1>2, <2>0, Split
    <2> QED BY <2>1, <2>2
  <1>7. r = <<l>>
    <2>1. Len(r) = 1 /\ r[1] = l
      BY <1>3, <1>6
    <2> QED BY <2>1, <1>6
  <1>8. V!Front(x) = f /\ V!Last(x) = l
    BY <1>1, <1>3, <1>4 DEF V!Front, V!Last
  <1>9. \A a : In(x, a) <=> (In(f, a) \/ (l.start <= a /\ a < l.end))
    BY <1>6, <1>7, OneRange
  <1>10. \A i \in 1 .. Len(f) : \E j \in 1 .. Len(x) : f[i] = x[j]
    <2>1. \A i \in 1 .. n - 1 : i \in 1 .. n
      OBVIOUS
    <2> QED BY <2>1, <1>1, <1>6
  <1>11. PICK h \in Ranges : h = x[1]
    BY <1>1, <1>2
  <1>12. PICK t : t = Tail(x)
    OBVIOUS
  <1>13. t \in Seq(Ranges) /\ Len(t) = n - 1 /\ \A i \in 1 .. n - 1 : t[i] = x[i + 1]
    BY <1>1, <1>12
  <1>14. Head(x) = h
    BY <1>11
  <1>15. x = <<h>> \o t
    <2>1. <<h>> \o t \in Seq(Ranges) /\ Len(<<h>> \o t) = n
      BY <1>13
    <2>2. ASSUME NEW i \in 1 .. n PROVE (<<h>> \o t)[i] = x[i]
      <3>1. CASE i = 1
        BY <3>1, <1>11, <1>13
      <3>2. CASE i # 1
        <4>1. i - 1 \in 1 .. n - 1 /\ (i - 1) + 1 = i
          BY <3>2
        <4>2. (<<h>> \o t)[i] = t[i - 1]
          BY <3>2, <1>13
        <4> QED BY <4>1, <4>2, <1>13
      <3> QED BY <3>1, <3>2
    <2> QED BY <2>1, <2>2, <1>1, SeqEqual
  <1>16. /\ InOrder(t) /\ Below(<<h>>, t)
         /\ \A a : In(x, a) <=> (In(t, a) \/ (h.start <= a /\ a < h.end))
    <2>1. <<h>> \in Seq(Ranges) /\ \A a : In(<<h>>, a) <=> (h.start <= a /\ a < h.end)
      BY OneRange
    <2> QED BY <2>1, <1>13, <1>15, Joined
  <1>17. \A i \in 1 .. Len(t) : \E j \in 1 .. Len(x) : t[i] = x[j]
    <2>1. \A i \in 1 .. n - 1 : i + 1 \in 1 .. n
      OBVIOUS
    <2> QED BY <2>1, <1>1, <1>13
  <1>18. (\E i \in 1 .. Len(x) : l = x[i] /\ x[i].start < x[i].end)
         /\ \E i \in 1 .. Len(x) : h = x[i] /\ x[i].start < x[i].end
    BY <1>1, <1>2, <1>3, <1>11 DEF InOrder
  <1>19. Below(f, <<l>>)
    BY <1>6, <1>7
  <1>20. RestOf(f, l, x)
    BY <1>6, <1>9, <1>10, <1>18 DEF RestOf
  <1>21. RestOf(t, h, x)
    BY <1>13, <1>16, <1>17, <1>18 DEF RestOf
  <1> QED BY <1>8, <1>12, <1>14, <1>16, <1>19, <1>20, <1>21

\* vmspace_insert takes the range before the new one into it, if the two touch
\* and are of one kind: u is what is left of the ranges b before it.
MergesBefore(u, first, prev, b, s) ==
    /\ prev \in BOOLEAN /\ prev => b # << >> /\ V!Last(b).end = s.start
    /\ u = (IF prev THEN V!Front(b) ELSE b)
    /\ first = (IF prev THEN V!Last(b).start ELSE s.start)

LEMMA MergeBefore ==
    ASSUME NEW b \in Seq(Ranges), InOrder(b), NEW s \in Ranges, s.start < s.end,
           \A i \in 1 .. Len(b) : b[i].end <= s.start,
           NEW prev, NEW u, NEW first, MergesBefore(u, first, prev, b, s)
    PROVE  /\ u \in Seq(Ranges) /\ InOrder(u) /\ first \in Nat /\ first <= s.start
           /\ \A i \in 1 .. Len(u) : u[i].end <= first
           /\ \A i \in 1 .. Len(u) : \E j \in 1 .. Len(b) : u[i] = b[j]
           /\ \A a \in Nat : (In(b, a) \/ (s.start <= a /\ a < s.end)) <=> (In(u, a) \/ (first <= a /\ a < s.end))
  <1>1. CASE ~ prev
    BY <1>1 DEF Ranges, MergesBefore
  <1>2. CASE prev
    <2>1. PICK l \in Ranges : l = V!Last(b) /\ l.end = s.start /\ RestOf(u, l, b) /\ Below(u, <<l>>) /\ first = l.start
      <3>1. /\ RestOf(V!Front(b), V!Last(b), b) /\ Below(V!Front(b), <<V!Last(b)>>)
            /\ u = V!Front(b) /\ first = V!Last(b).start /\ V!Last(b).end = s.start
        BY <1>2, Ends DEF MergesBefore
      <3>2. V!Last(b) \in Ranges
        BY <3>1 DEF RestOf
      <3> QED BY <3>1, <3>2
    <2>2. /\ u \in Seq(Ranges) /\ InOrder(u) /\ l.start < l.end
          /\ \A i \in 1 .. Len(u) : \E j \in 1 .. Len(b) : u[i] = b[j]
          /\ \A a : In(b, a) <=> (In(u, a) \/ (l.start <= a /\ a < l.end))
      BY <2>1 DEF RestOf
    <2>3. first \in Nat /\ first <= s.start /\ s.start \in Nat /\ s.end \in Nat
      BY <2>1, <2>2 DEF Ranges
    <2>4. \A i \in 1 .. Len(u) : u[i].end <= first
      BY <2>1, <2>2, OneRange
    <2>5. ASSUME NEW a \in Nat
          PROVE  (In(b, a) \/ (s.start <= a /\ a < s.end)) <=> (In(u, a) \/ (first <= a /\ a < s.end))
      BY <2>1, <2>2, <2>3
    <2> QED BY <2>2, <2>3, <2>4, <2>5
  <1> QED BY <1>1, <1>2 DEF MergesBefore

\* And the range after it, whose memory it frees.
MergesAfter(u, last, next, b, s) ==
    /\ next \in BOOLEAN /\ next => b # << >> /\ s.end = Head(b).start
    /\ u = (IF next THEN Tail(b) ELSE b)
    /\ last = (IF next THEN Head(b).end ELSE s.end)

LEMMA MergeAfter ==
    ASSUME NEW b \in Seq(Ranges), InOrder(b), NEW s \in Ranges, s.start < s.end,
           \A i \in 1 .. Len(b) : s.end <= b[i].start,
           NEW next, NEW u, NEW last, MergesAfter(u, last, next, b, s)
    PROVE  /\ u \in Seq(Ranges) /\ InOrder(u) /\ last \in Nat /\ s.end <= last
           /\ \A i \in 1 .. Len(u) : last <= u[i].start
           /\ \A i \in 1 .. Len(u) : \E j \in 1 .. Len(b) : u[i] = b[j]
           /\ \A a \in Nat : (In(b, a) \/ (s.start <= a /\ a < s.end)) <=> (In(u, a) \/ (s.start <= a /\ a < last))
  <1>1. CASE ~ next
    BY <1>1 DEF Ranges, MergesAfter
  <1>2. CASE next
    <2>1. PICK h \in Ranges : h = Head(b) /\ h.start = s.end /\ RestOf(u, h, b) /\ Below(<<h>>, u) /\ last = h.end
      <3>1. /\ RestOf(Tail(b), Head(b), b) /\ Below(<<Head(b)>>, Tail(b))
            /\ u = Tail(b) /\ last = Head(b).end /\ Head(b).start = s.end
        BY <1>2, Ends DEF MergesAfter
      <3>2. Head(b) \in Ranges
        BY <3>1 DEF RestOf
      <3> QED BY <3>1, <3>2
    <2>2. /\ u \in Seq(Ranges) /\ InOrder(u) /\ h.start < h.end
          /\ \A i \in 1 .. Len(u) : \E j \in 1 .. Len(b) : u[i] = b[j]
          /\ \A a : In(b, a) <=> (In(u, a) \/ (h.start <= a /\ a < h.end))
      BY <2>1 DEF RestOf
    <2>3. last \in Nat /\ s.end <= last /\ s.start \in Nat /\ s.end \in Nat
      BY <2>1, <2>2 DEF Ranges
    <2>4. \A i \in 1 .. Len(u) : last <= u[i].start
      BY <2>1, <2>2, OneRange
    <2>5. ASSUME NEW a \in Nat
          PROVE  (In(b, a) \/ (s.start <= a /\ a < s.end)) <=> (In(u, a) \/ (s.start <= a /\ a < last))
      BY <2>1, <2>2, <2>3
    <2> QED BY <2>2, <2>3, <2>4, <2>5
  <1> QED BY <1>1, <1>2 DEF MergesAfter

\* vmspace_insert of a range that no other meets.
LEMMA InsertRange ==
    ASSUME NEW x \in Seq(Ranges), InOrder(x), NEW s \in Ranges, s.start < s.end,
           \A i \in 1 .. Len(x) : x[i].end <= s.start \/ s.end <= x[i].start,
           V!vmspace_insert(x, s)
    PROVE  /\ spaces' \in Seq(Ranges) /\ InOrder(spaces') /\ dangling' \in BOOLEAN
           /\ \A a \in Nat : In(spaces', a) <=> (In(x, a) \/ (s.start <= a /\ a < s.end))
           /\ ~ dangling' => \A i \in 1 .. Len(x) :
                 s.end <= x[i].start => \E j \in 1 .. Len(spaces') : spaces'[j] = x[i]
  <1>1. PICK n \in Nat : n = Len(x)
    OBVIOUS
  <1>2. PICK at \in 1 .. n + 1 :
           /\ at = V!Min({i \in 1 .. Len(x) : s.end <= x[i].start} \cup {Len(x) + 1})
           /\ at <= n => s.end <= x[at].start
           /\ \A i \in 1 .. at - 1 : ~ (s.end <= x[i].start)
    <2> DEFINE S == {i \in 1 .. n : s.end <= x[i].start} \cup {n + 1}
    <2>1. S \subseteq 1 .. n + 1 /\ S \subseteq Nat /\ n + 1 \in S
      OBVIOUS
    <2>2. V!Min(S) \in S /\ \A y \in S : V!Min(S) <= y
      <3> HIDE DEF S
      <3> QED BY <2>1, LeastIndex
    <2>3. V!Min(S) \in 1 .. n + 1 /\ (V!Min(S) <= n => s.end <= x[V!Min(S)].start)
      BY <2>1, <2>2
    <2>4. \A i \in 1 .. V!Min(S) - 1 : ~ (s.end <= x[i].start)
      <3>1. SUFFICES ASSUME NEW i \in 1 .. V!Min(S) - 1, s.end <= x[i].start PROVE FALSE
        OBVIOUS
      <3>2. i \in 1 .. n /\ i < V!Min(S)
        BY <2>3
      <3>3. i \in S
        BY <3>1, <3>2
      <3> QED BY <3>2, <3>3, <2>2, <2>3
    <2> QED BY <2>3, <2>4, <1>1
  <1>3. PICK b, c : b = SubSeq(x, 1, at - 1) /\ c = SubSeq(x, at, n) /\ Pieces(b, c, x, at)
    BY <1>1, CutAt
  <1>4. /\ b \in Seq(Ranges) /\ c \in Seq(Ranges) /\ InOrder(b) /\ InOrder(c) /\ Below(b, c)
        /\ \A a : In(x, a) <=> (In(b, a) \/ In(c, a))
    <2>1. at \in 1 .. Len(x) + 1
      BY <1>1
    <2>2. b \in Seq(Ranges) /\ c \in Seq(Ranges)
      BY <1>3 DEF Pieces
    <2>3. Pieces(b, c, x, at)
      BY <1>3
    <2>4. /\ InOrder(b) /\ InOrder(c) /\ Below(b, c)
          /\ \A a : In(x, a) <=> (In(b, a) \/ In(c, a))
      BY <2>1, <2>3, Split
    <2> QED BY <2>2, <2>4
  <1>5. \A i \in 1 .. Len(b) : b[i].end <= s.start
    <2>1. ASSUME NEW i \in 1 .. at - 1 PROVE x[i].end <= s.start
      <3>1. i \in 1 .. n /\ ~ (s.end <= x[i].start)
        BY <1>2
      <3> QED BY <3>1, <1>1
    <2> QED BY <2>1, <1>3 DEF Pieces
  <1>6. \A i \in 1 .. Len(c) : s.end <= c[i].start
    <2>1. ASSUME NEW i \in 1 .. n - at + 1 PROVE s.end <= x[at + i - 1].start
      <3>1. at <= n /\ at + i - 1 \in 1 .. n /\ at \in 1 .. n
        OBVIOUS
      <3>2. s.end <= x[at].start /\ x[at] \in Ranges /\ x[at + i - 1] \in Ranges
        BY <3>1, <1>1, <1>2
      <3>3. CASE i = 1
        BY <3>2, <3>3
      <3>4. CASE i # 1
        <4>1. at < at + i - 1
          BY <3>4
        <4>2. x[at].start < x[at].end /\ x[at].end <= x[at + i - 1].start
          BY <4>1, <3>1, <1>1 DEF InOrder
        <4>3. s.end \in Nat /\ x[at].start \in Nat /\ x[at].end \in Nat
              /\ x[at + i - 1].start \in Nat
          BY <3>2 DEF Ranges
        <4> QED BY <4>2, <4>3, <3>2
      <3> QED BY <3>3, <3>4
    <2> QED BY <2>1, <1>1, <1>3 DEF Pieces
  <1>7. PICK prev \in BOOLEAN, next \in BOOLEAN :
           /\ prev <=> (b # << >> /\ V!Last(b).end = s.start /\ V!Last(b).flags = s.flags)
           /\ next <=> (c # << >> /\ s.end = Head(c).start /\ s.flags = Head(c).flags)
    OBVIOUS
  <1>8. PICK u, v, first, last :
           /\ u = (IF prev THEN V!Front(b) ELSE b)
           /\ v = (IF next THEN Tail(c) ELSE c)
           /\ first = (IF prev THEN V!Last(b).start ELSE s.start)
           /\ last = (IF next THEN Head(c).end ELSE s.end)
    OBVIOUS
  <1>9. spaces' = u \o <<V!Space(first, last, s.flags)>> \o v /\ dangling' = next
    BY <1>1, <1>2, <1>3, <1>7, <1>8 DEF V!vmspace_insert
  <1>10. /\ u \in Seq(Ranges) /\ InOrder(u) /\ first \in Nat /\ first <= s.start
         /\ \A i \in 1 .. Len(u) : u[i].end <= first
         /\ \A i \in 1 .. Len(u) : \E j \in 1 .. Len(b) : u[i] = b[j]
         /\ \A a \in Nat : (In(b, a) \/ (s.start <= a /\ a < s.end)) <=> (In(u, a) \/ (first <= a /\ a < s.end))
    <2>1. MergesBefore(u, first, prev, b, s)
      BY <1>7, <1>8 DEF MergesBefore
    <2> QED BY <2>1, <1>4, <1>5, MergeBefore
  <1>11. /\ v \in Seq(Ranges) /\ InOrder(v) /\ last \in Nat /\ s.end <= last
         /\ \A i \in 1 .. Len(v) : last <= v[i].start
         /\ \A i \in 1 .. Len(v) : \E j \in 1 .. Len(c) : v[i] = c[j]
         /\ \A a \in Nat : (In(c, a) \/ (s.start <= a /\ a < s.end)) <=> (In(v, a) \/ (s.start <= a /\ a < last))
    <2>1. MergesAfter(v, last, next, c, s)
      BY <1>7, <1>8 DEF MergesAfter
    <2> QED BY <2>1, <1>4, <1>6, MergeAfter
  <1>12. PICK m \in Ranges : m = V!Space(first, last, s.flags) /\ m.start = first /\ m.end = last /\ m.start < m.end
    <2>1. first \in Nat /\ last \in Nat /\ first <= s.start /\ s.end <= last
      BY <1>10, <1>11
    <2>2. s.start \in Nat /\ s.end \in Nat /\ s.flags \in Kinds
      BY DEF Ranges
    <2>3. PICK m : m = [start |-> first, end |-> last, flags |-> s.flags]
      OBVIOUS
    <2>4. m \in Ranges /\ m.start = first /\ m.end = last
      BY <2>1, <2>2, <2>3 DEF Ranges
    <2>5. first < last
      BY <2>1, <2>2
    <2> QED BY <2>3, <2>4, <2>5 DEF V!Space
  <1>13. /\ <<m>> \in Seq(Ranges) /\ InOrder(<<m>>) /\ Below(u, <<m>>) /\ Below(<<m>>, v)
         /\ \A a : In(<<m>>, a) <=> (first <= a /\ a < last)
    <2>1. <<m>> \in Seq(Ranges) /\ InOrder(<<m>>) /\ \A a : In(<<m>>, a) <=> (first <= a /\ a < last)
      BY <1>12, OneRange
    <2>2. u \in Seq(Ranges) /\ \A i \in 1 .. Len(u) : u[i].end <= m.start
      BY <1>10, <1>12
    <2>3. v \in Seq(Ranges) /\ \A i \in 1 .. Len(v) : m.end <= v[i].start
      BY <1>11, <1>12
    <2>4. Below(u, <<m>>)
      BY <2>2, OneRange
    <2>5. Below(<<m>>, v)
      BY <2>3, OneRange
    <2> QED BY <2>1, <2>4, <2>5
  <1>14. Below(u, v)
    <2>1. \A i \in 1 .. Len(u), j \in 1 .. Len(v) : \E k \in 1 .. Len(b), l \in 1 .. Len(c) : u[i] = b[k] /\ v[j] = c[l]
      BY <1>10, <1>11
    <2> QED BY <2>1, <1>4 DEF Below
  <1>15. PICK w \in Seq(Ranges) : /\ w = u \o <<m>> /\ InOrder(w) /\ Below(w, v)
                                  /\ \A a : In(w, a) <=> (In(u, a) \/ In(<<m>>, a))
    <2>1. u \in Seq(Ranges) /\ v \in Seq(Ranges) /\ <<m>> \in Seq(Ranges) /\ InOrder(u)
      BY <1>10, <1>11, <1>13
    <2>2. u \o <<m>> \in Seq(Ranges) /\ InOrder(u \o <<m>>)
      BY <2>1, <1>13, Joined
    <2>3. \A a : In(u \o <<m>>, a) <=> (In(u, a) \/ In(<<m>>, a))
      BY <2>1, Joined
    <2>4. Below(u \o <<m>>, v)
      BY <2>1, <1>13, <1>14, Joined
    <2> QED BY <2>2, <2>3, <2>4
  <1>16. /\ spaces' = w \o v /\ spaces' \in Seq(Ranges) /\ InOrder(spaces')
         /\ \A a : In(spaces', a) <=> (In(w, a) \/ In(v, a))
    BY <1>9, <1>11, <1>12, <1>15, Joined
  <1>17. ASSUME NEW a \in Nat PROVE In(spaces', a) <=> (In(x, a) \/ (s.start <= a /\ a < s.end))
    <2>1. In(spaces', a) <=> (In(u, a) \/ In(v, a) \/ (first <= a /\ a < last))
      BY <1>13, <1>15, <1>16
    <2>2. s.start \in Nat /\ s.end \in Nat /\ first <= s.start
      BY <1>10 DEF Ranges
    <2>3. (first <= a /\ a < last) <=> ((first <= a /\ a < s.end) \/ (s.start <= a /\ a < last))
      BY <2>2, <1>10, <1>11
    <2> QED BY <2>1, <2>3, <1>4, <1>10, <1>11
  <1>18. ASSUME ~ dangling', NEW i \in 1 .. Len(x), s.end <= x[i].start
         PROVE  \E j \in 1 .. Len(spaces') : spaces'[j] = x[i]
    <2>1. v = c
      BY <1>8, <1>9, <1>18
    <2>2. i >= at
      BY <1>1, <1>2, <1>18
    <2>3. i - at + 1 \in 1 .. Len(c) /\ c[i - at + 1] = x[i]
      <3>1. i - at + 1 \in 1 .. n - at + 1 /\ at + (i - at + 1) - 1 = i
        BY <2>2, <1>1
      <3> QED BY <3>1, <1>1, <1>3 DEF Pieces
    <2>4. Behind(spaces', w, c)
      BY <2>1, <1>4, <1>15, <1>16, Concatenated
    <2>5. Len(w) \in Nat /\ Len(c) \in Nat /\ Len(spaces') = Len(w) + Len(c)
      BY <2>4, <1>4, <1>15 DEF Behind
    <2>6. Len(w) + (i - at + 1) \in 1 .. Len(spaces') /\ spaces'[Len(w) + (i - at + 1)] = x[i]
      BY <2>3, <2>4, <2>5 DEF Behind
    <2> QED BY <2>6
  <1> QED BY <1>9, <1>16, <1>17, <1>18

\* l and r are what lies before and behind the i-th range of x.
Around(l, r, x, i) ==
    /\ l \in Seq(Ranges) /\ InOrder(l) /\ r \in Seq(Ranges) /\ InOrder(r) /\ Below(l, r)
    /\ \A j \in 1 .. Len(l) : l[j].end <= x[i].start
    /\ \A j \in 1 .. Len(r) : x[i].end <= r[j].start
    /\ \A a : In(x, a) <=> (In(l, a) \/ (x[i].start <= a /\ a < x[i].end) \/ In(r, a))

Has(x, r) == \E i \in 1 .. Len(x) : x[i] = r

LEMMA HasEither ==
    ASSUME NEW x \in Seq(Ranges), NEW y \in Seq(Ranges), NEW r, Has(x, r) \/ Has(y, r)
    PROVE  Has(x \o y, r)
  <1>1. PICK z \in Seq(Ranges) : z = x \o y /\ Behind(z, x, y)
    BY Concatenated DEF Behind
  <1>2. PICK m \in Nat, n \in Nat : m = Len(x) /\ n = Len(y)
    OBVIOUS
  <1>3. CASE Has(x, r)
    <2>1. PICK i \in 1 .. m : x[i] = r
      BY <1>2, <1>3 DEF Has
    <2>2. i \in 1 .. m + n
      OBVIOUS
    <2> QED BY <2>1, <2>2, <1>1, <1>2 DEF Has, Behind
  <1>4. CASE Has(y, r)
    <2>1. PICK i \in 1 .. n : y[i] = r
      BY <1>2, <1>4 DEF Has
    <2>2. m + i \in 1 .. m + n
      OBVIOUS
    <2> QED BY <2>1, <2>2, <1>1, <1>2 DEF Has, Behind
  <1> QED BY <1>3, <1>4

LEMMA CutAround ==
    ASSUME NEW x \in Seq(Ranges), InOrder(x), NEW i \in 1 .. Len(x)
    PROVE  /\ Around(SubSeq(x, 1, i - 1), SubSeq(x, i + 1, Len(x)), x, i)
           /\ \A j \in 1 .. Len(x) : j # i => Has(SubSeq(x, 1, i - 1), x[j]) \/ Has(SubSeq(x, i + 1, Len(x)), x[j])
  <1>1. PICK n \in Nat : n = Len(x) /\ i \in 1 .. n
    OBVIOUS
  <1>2. PICK l, r : l = SubSeq(x, 1, i - 1) /\ r = SubSeq(x, i + 1, n)
    OBVIOUS
  <1>3. Pieces(l, SubSeq(x, i, n), x, i) /\ Pieces(SubSeq(x, 1, i + 1 - 1), r, x, i + 1)
    <2>1. i \in 1 .. n + 1 /\ i + 1 \in 1 .. n + 1
      BY <1>1
    <2> QED BY <2>1, <1>1, <1>2, CutAt
  <1>4. /\ l \in Seq(Ranges) /\ Len(l) = i - 1 /\ (\A j \in 1 .. i - 1 : l[j] = x[j])
        /\ r \in Seq(Ranges) /\ Len(r) = n - i /\ (\A j \in 1 .. n - i : r[j] = x[i + j])
    <2>1. /\ l \in Seq(Ranges) /\ Len(l) = i - 1 /\ (\A j \in 1 .. i - 1 : l[j] = x[j])
          /\ r \in Seq(Ranges) /\ Len(r) = n - (i + 1) + 1
          /\ \A j \in 1 .. n - (i + 1) + 1 : r[j] = x[i + 1 + j - 1]
      BY <1>1, <1>3 DEF Pieces
    <2>2. n - (i + 1) + 1 = n - i /\ \A j \in 1 .. n - i : i + 1 + j - 1 = i + j
      BY <1>1
    <2> QED BY <2>1, <2>2
  <1>5. InOrder(l) /\ InOrder(r)
    <2>1. i \in 1 .. Len(x) + 1 /\ i + 1 \in 1 .. Len(x) + 1
      BY <1>1
    <2> QED BY <2>1, <1>3, Split
  <1>6. /\ \A j \in 1 .. i - 1 : j \in 1 .. n /\ j < i
        /\ \A j \in 1 .. n - i : i + j \in 1 .. n /\ i < i + j
        /\ \A j \in 1 .. n : j = i \/ j \in 1 .. i - 1 \/ (j - i \in 1 .. n - i /\ i + (j - i) = j)
        /\ \A j \in 1 .. i - 1, m \in 1 .. n - i : j < i + m
    BY <1>1
  <1>7. \A j \in 1 .. Len(l) : l[j].end <= x[i].start
    BY <1>1, <1>4, <1>6 DEF InOrder
  <1>8. \A j \in 1 .. Len(r) : x[i].end <= r[j].start
    BY <1>1, <1>4, <1>6 DEF InOrder
  <1>9. Below(l, r)
    <2>1. ASSUME NEW j \in 1 .. i - 1, NEW m \in 1 .. n - i PROVE l[j].end <= r[m].start
      <3>1. j \in 1 .. n /\ i + m \in 1 .. n /\ j < i + m
        BY <1>6
      <3>2. x[j].end <= x[i + m].start
        BY <3>1, <1>1 DEF InOrder
      <3> QED BY <3>2, <1>4
    <2> QED BY <2>1, <1>4 DEF Below
  <1>10. ASSUME NEW a PROVE In(x, a) <=> (In(l, a) \/ (x[i].start <= a /\ a < x[i].end) \/ In(r, a))
    <2>1. ASSUME In(x, a) PROVE In(l, a) \/ (x[i].start <= a /\ a < x[i].end) \/ In(r, a)
      <3>1. PICK j \in 1 .. n : x[j].start <= a /\ a < x[j].end
        BY <2>1, <1>1 DEF In
      <3>2. CASE j = i
        BY <3>1, <3>2
      <3>3. CASE j \in 1 .. i - 1
        BY <3>1, <3>3, <1>4 DEF In
      <3>4. CASE j - i \in 1 .. n - i /\ i + (j - i) = j
        <4>1. r[j - i] = x[j]
          BY <3>4, <1>4
        <4> QED BY <3>1, <3>4, <4>1, <1>4 DEF In
      <3> QED BY <3>2, <3>3, <3>4, <1>6
    <2>2. ASSUME In(l, a) PROVE In(x, a)
      BY <2>2, <1>1, <1>4, <1>6 DEF In
    <2>3. ASSUME In(r, a) PROVE In(x, a)
      <3>1. PICK j \in 1 .. n - i : r[j].start <= a /\ a < r[j].end
        BY <2>3, <1>4 DEF In
      <3>2. i + j \in 1 .. n /\ r[j] = x[i + j]
        BY <1>4, <1>6
      <3> QED BY <3>1, <3>2, <1>1 DEF In
    <2>4. ASSUME x[i].start <= a /\ a < x[i].end PROVE In(x, a)
      BY <2>4 DEF In
    <2> QED BY <2>1, <2>2, <2>3, <2>4
  <1>11. ASSUME NEW j \in 1 .. n, j # i PROVE Has(l, x[j]) \/ Has(r, x[j])
    <2>1. CASE j \in 1 .. i - 1
      BY <2>1, <1>4 DEF Has
    <2>2. CASE j - i \in 1 .. n - i /\ i + (j - i) = j
      <3>1. r[j - i] = x[j]
        BY <2>2, <1>4
      <3> QED BY <3>1, <2>2, <1>4 DEF Has
    <2> QED BY <2>1, <2>2, <1>6, <1>11
  <1>12. Around(l, r, x, i)
    BY <1>4, <1>5, <1>7, <1>8, <1>9, <1>10 DEF Around
  <1> QED BY <1>1, <1>2, <1>11, <1>12

\* What do_vmspace_unmap leaves of a range, on one side of the hole.
Within(p, from, to) ==
    /\ p \in Seq(Ranges) /\ InOrder(p)
    /\ \A i \in 1 .. Len(p) : from <= p[i].start /\ p[i].end <= to
    /\ \A a \in Nat : In(p, a) <=> (from <= a /\ a < to)

LEMMA Remainder ==
    ASSUME NEW from \in Nat, NEW to \in Nat, from <= to, NEW f \in Kinds
    PROVE  Within(IF from = to THEN << >> ELSE <<V!Space(from, to, f)>>, from, to)
  <1>1. CASE from = to
    <2>1. \A i \in 1 .. Len(<< >>) : FALSE
      OBVIOUS
    <2>2. \A a \in Nat : ~ (from <= a /\ a < to)
      BY <1>1
    <2> QED BY <1>1, <2>1, <2>2, NoRange DEF Within
  <1>2. CASE from # to
    <2>1. PICK r \in Ranges : r = V!Space(from, to, f) /\ r.start = from /\ r.end = to
      <3>1. PICK r : r = [start |-> from, end |-> to, flags |-> f]
        OBVIOUS
      <3>2. r \in Ranges /\ r.start = from /\ r.end = to
        BY <3>1 DEF Ranges
      <3> QED BY <3>1, <3>2 DEF V!Space
    <2>2. /\ <<r>> \in Seq(Ranges) /\ InOrder(<<r>>) /\ Len(<<r>>) = 1 /\ <<r>>[1] = r
          /\ \A a : In(<<r>>, a) <=> (r.start <= a /\ a < r.end)
      BY <1>2, <2>1, OneRange
    <2>3. \A i \in 1 .. Len(<<r>>) : from <= (<<r>>[i]).start /\ (<<r>>[i]).end <= to
      BY <2>1, <2>2
    <2>4. Within(<<r>>, from, to)
      BY <2>1, <2>2, <2>3 DEF Within
    <2> QED BY <1>2, <2>1, <2>4
  <1> QED BY <1>1, <1>2

\* z is x and behind it y, where x is below y.
Chain(z, x, y) ==
    /\ z \in Seq(Ranges) /\ InOrder(z)
    /\ \A a : In(z, a) <=> (In(x, a) \/ In(y, a))
    /\ \A u \in Seq(Ranges) : Below(z, u) <=> (Below(x, u) /\ Below(y, u))
    /\ \A r : Has(x, r) \/ Has(y, r) => Has(z, r)

LEMMA Chained ==
    ASSUME NEW x, x \in Seq(Ranges), NEW y, y \in Seq(Ranges), InOrder(x), InOrder(y), Below(x, y)
    PROVE  Chain(x \o y, x, y)
  <1>1. /\ x \o y \in Seq(Ranges) /\ InOrder(x \o y)
        /\ \A a : In(x \o y, a) <=> (In(x, a) \/ In(y, a))
        /\ \A u \in Seq(Ranges) : Below(x \o y, u) <=> (Below(x, u) /\ Below(y, u))
    BY Joined
  <1>2. \A r : Has(x, r) \/ Has(y, r) => Has(x \o y, r)
    BY HasEither
  <1> QED BY <1>1, <1>2 DEF Chain

\* The list with a hole: Cut of a range that holds addr and ends at end or later.
LEMMA CutRange ==
    ASSUME spaces \in Seq(Ranges), InOrder(spaces), NEW i \in 1 .. Len(spaces),
           NEW addr \in Nat, NEW end \in Nat, addr < end,
           spaces[i].start <= addr, end <= spaces[i].end, NEW garbage \in Kinds
    PROVE  /\ V!Cut(i, addr, end, garbage) \in Seq(Ranges) /\ InOrder(V!Cut(i, addr, end, garbage))
           /\ \A a \in Nat : In(V!Cut(i, addr, end, garbage), a) <=> (In(spaces, a) /\ ~ (addr <= a /\ a < end))
           /\ \A j \in 1 .. Len(spaces) : j # i => Has(V!Cut(i, addr, end, garbage), spaces[j])
  <1>1. PICK s \in Ranges : s = spaces[i]
    OBVIOUS
  <1>2. s.start \in Nat /\ s.end \in Nat /\ s.flags \in Kinds /\ s.start <= addr /\ end <= s.end
    BY <1>1 DEF Ranges
  <1>3. PICK l, r : /\ l = SubSeq(spaces, 1, i - 1) /\ r = SubSeq(spaces, i + 1, Len(spaces))
                    /\ Around(l, r, spaces, i)
                    /\ \A j \in 1 .. Len(spaces) : j # i => Has(l, spaces[j]) \/ Has(r, spaces[j])
    <2>1. PICK x \in Seq(Ranges) : x = spaces /\ InOrder(x) /\ i \in 1 .. Len(x)
      OBVIOUS
    <2>2. /\ Around(SubSeq(x, 1, i - 1), SubSeq(x, i + 1, Len(x)), x, i)
          /\ \A j \in 1 .. Len(x) : j # i => Has(SubSeq(x, 1, i - 1), x[j]) \/ Has(SubSeq(x, i + 1, Len(x)), x[j])
      BY <2>1, CutAround
    <2>3. PICK l, r : l = SubSeq(x, 1, i - 1) /\ r = SubSeq(x, i + 1, Len(x))
      OBVIOUS
    <2> QED BY <2>1, <2>2, <2>3
  <1>4. PICK p : /\ p = (IF s.start = addr THEN << >> ELSE <<V!Space(s.start, addr, s.flags)>>)
                 /\ Within(p, s.start, addr)
    BY <1>2, Remainder
  <1>5. PICK q : /\ q = (IF end = s.end THEN << >> ELSE <<V!Space(end, s.end, garbage)>>)
                 /\ Within(q, end, s.end)
    BY <1>2, Remainder
  <1>6. /\ l \in Seq(Ranges) /\ InOrder(l) /\ r \in Seq(Ranges) /\ InOrder(r) /\ Below(l, r)
        /\ \A j \in 1 .. Len(l) : l[j].end <= s.start
        /\ \A j \in 1 .. Len(r) : s.end <= r[j].start
        /\ \A a : In(spaces, a) <=> (In(l, a) \/ (s.start <= a /\ a < s.end) \/ In(r, a))
    BY <1>1, <1>3 DEF Around
  <1>7. /\ p \in Seq(Ranges) /\ InOrder(p)
        /\ \A j \in 1 .. Len(p) : s.start <= p[j].start /\ p[j].end <= addr
        /\ \A a \in Nat : In(p, a) <=> (s.start <= a /\ a < addr)
    BY <1>4 DEF Within
  <1>8. /\ q \in Seq(Ranges) /\ InOrder(q)
        /\ \A j \in 1 .. Len(q) : end <= q[j].start /\ q[j].end <= s.end
        /\ \A a \in Nat : In(q, a) <=> (end <= a /\ a < s.end)
    BY <1>5 DEF Within
  <1>9. /\ \A j \in 1 .. Len(l) : l[j].start \in Nat /\ l[j].end \in Nat
        /\ \A j \in 1 .. Len(p) : p[j].start \in Nat /\ p[j].end \in Nat
        /\ \A j \in 1 .. Len(q) : q[j].start \in Nat /\ q[j].end \in Nat
        /\ \A j \in 1 .. Len(r) : r[j].start \in Nat /\ r[j].end \in Nat
    <2>1. ASSUME NEW x \in Seq(Ranges), NEW j \in 1 .. Len(x) PROVE x[j].start \in Nat /\ x[j].end \in Nat
      <3>1. x[j] \in Ranges
        OBVIOUS
      <3> QED BY <3>1 DEF Ranges
    <2> QED BY <2>1, <1>6, <1>7, <1>8
  <1>10. Below(l, p) /\ Below(l, q) /\ Below(p, q) /\ Below(p, r) /\ Below(q, r)
    <2>0. /\ s.start \in Nat /\ addr \in Nat /\ end \in Nat /\ s.end \in Nat
          /\ s.start <= s.start /\ s.start <= end /\ addr <= end /\ addr <= s.end
          /\ s.end <= s.end
      BY <1>2
    <2>1. Below(l, p)
      BY <1>6, <1>7, <1>9, <2>0, BelowAcross
    <2>2. Below(l, q)
      BY <1>6, <1>8, <1>9, <2>0, BelowAcross
    <2>3. Below(p, q)
      BY <1>7, <1>8, <1>9, <2>0, BelowAcross
    <2>4. Below(p, r)
      BY <1>6, <1>7, <1>9, <2>0, BelowAcross
    <2>5. Below(q, r)
      BY <1>6, <1>8, <1>9, <2>0, BelowAcross
    <2> QED BY <2>1, <2>2, <2>3, <2>4, <2>5
  <1>11. PICK u : u = l \o p /\ Chain(u, l, p)
    BY <1>6, <1>7, <1>10, Chained
  <1>12. u \in Seq(Ranges) /\ InOrder(u) /\ Below(u, q) /\ Below(u, r)
    BY <1>6, <1>8, <1>10, <1>11 DEF Chain
  <1>13. PICK v : v = u \o q /\ Chain(v, u, q)
    BY <1>8, <1>12, Chained
  <1>14. v \in Seq(Ranges) /\ InOrder(v) /\ Below(v, r)
    BY <1>6, <1>10, <1>12, <1>13 DEF Chain
  <1>15. PICK w : w = v \o r /\ Chain(w, v, r)
    BY <1>6, <1>14, Chained
  <1>16. w \in Seq(Ranges) /\ InOrder(w)
    BY <1>15 DEF Chain
  <1>17. V!Cut(i, addr, end, garbage) = w
    BY <1>1, <1>3, <1>4, <1>5, <1>11, <1>13, <1>15 DEF V!Cut
  <1>18. ASSUME NEW a \in Nat PROVE In(w, a) <=> (In(spaces, a) /\ ~ (addr <= a /\ a < end))
    <2>1. In(w, a) <=> (In(l, a) \/ (s.start <= a /\ a < addr) \/ (end <= a /\ a < s.end) \/ In(r, a))
      BY <1>7, <1>8, <1>11, <1>13, <1>15 DEF Chain
    <2>2. In(l, a) => a < s.start
      BY <1>6, <1>9, <1>2 DEF In
    <2>3. In(r, a) => s.end <= a
      BY <1>6, <1>9, <1>2 DEF In
    <2> QED BY <1>2, <1>6, <2>1, <2>2, <2>3
  <1>19. ASSUME NEW j \in 1 .. Len(spaces), j # i PROVE Has(w, spaces[j])
    <2>1. Has(l, spaces[j]) \/ Has(r, spaces[j])
      BY <1>3, <1>19
    <2> QED BY <2>1, <1>11, <1>13, <1>15 DEF Chain
  <1> QED BY <1>16, <1>17, <1>18, <1>19

-----------------------------------------------------------------------------
(* The list, the heap and the page tables.                                 *)

Bounded(x) == \A i \in 1 .. Len(x) : x[i].end <= USER_VMM_SIZE

\* The stack stays the last range, for all that map or unmap end before it.
StackKept(x) == \E i \in 1 .. Len(x) : x[i].start = MapEnd /\ x[i].end = USER_VMM_SIZE

OnPage(a) == a % PAGE_SIZE = 0

PagesCovered ==
    /\ pages \subseteq Nat
    /\ \A a \in pages : OnPage(a) /\ In(spaces, a)
    /\ \A a \in MapStart .. MapEnd - 1 : OnPage(a) /\ In(spaces, a) => a \in pages

HeapCovered ==
    /\ heap_end \in Nat /\ HeapStart <= heap_end /\ V!PAGE_ALIGN(heap_end) <= MapStart
    /\ \A a \in HeapStart .. MapStart - 1 :
          OnPage(a) => (In(spaces, a) <=> a < V!PAGE_ALIGN(heap_end))

ListInv ==
    /\ spaces \in Seq(Ranges) /\ InOrder(spaces) /\ Bounded(spaces)
    /\ dangling \in BOOLEAN /\ (~ dangling => StackKept(spaces))

SpaceInv == ListInv /\ PagesCovered /\ HeapCovered

LEMMA SpaceConstants ==
    /\ HeapStart \in Nat /\ MapStart \in Nat /\ MapEnd \in Nat /\ USER_VMM_SIZE \in Nat
    /\ MAX_VMS_HEAP_SIZE \in Nat
    /\ 0 < HeapStart /\ HeapStart < MapStart /\ MapStart < MapEnd /\ MapEnd < USER_VMM_SIZE
    /\ OnPage(HeapStart) /\ OnPage(MapStart) /\ OnPage(MapEnd) /\ OnPage(USER_VMM_SIZE)
    /\ Fixed \subseteq Nat /\ Length \subseteq Nat /\ V!VMS_MAP_HEAP \notin Flags
  BY IpcAssumption DEF V!VmSpaceConstants, OnPage

LEMMA Bounds ==
    ASSUME NEW x, x \in Seq(Ranges)
    PROVE  \A i \in 1 .. Len(x) : x[i].start \in Nat /\ x[i].end \in Nat /\ x[i].flags \in Kinds
  <1>1. \A i \in 1 .. Len(x) : x[i] \in Ranges
    OBVIOUS
  <1> QED BY <1>1 DEF Ranges

\* i is what vmspace_find(addr) returns.
FindsAt(x, i, addr) ==
    /\ i \in 1 .. Len(x) + 1
    /\ \A j \in 1 .. Len(x) : j < i => x[j].end <= addr
    /\ i <= Len(x) => addr < x[i].end

LEMMA FindRange ==
    ASSUME spaces \in Seq(Ranges), NEW addr \in Nat PROVE FindsAt(spaces, V!vmspace_find(addr), addr)
  <1>1. PICK n \in Nat : n = Len(spaces)
    OBVIOUS
  <1> DEFINE S == {i \in 1 .. n : addr < spaces[i].end} \cup {n + 1}
  <1>2. S \subseteq 1 .. n + 1 /\ S \subseteq Nat /\ n + 1 \in S
    OBVIOUS
  <1>3. V!Min(S) \in S /\ \A y \in S : V!Min(S) <= y
    <2> HIDE DEF S
    <2> QED BY <1>2, LeastIndex
  <1>4. PICK i : i = V!Min(S)
    OBVIOUS
  <1>5. i \in 1 .. n + 1 /\ (i <= n => addr < spaces[i].end)
    BY <1>2, <1>3, <1>4
  <1>6. ASSUME NEW j \in 1 .. n, j < i PROVE spaces[j].end <= addr
    <2>1. j \notin S
      <3> HIDE DEF S
      <3> QED BY <1>3, <1>4, <1>5, <1>6
    <2>2. spaces[j].end \in Nat
      BY <1>1, Bounds
    <2> QED BY <2>1, <2>2
  <1>7. i = V!vmspace_find(addr)
    BY <1>1, <1>4 DEF V!vmspace_find
  <1> QED BY <1>1, <1>5, <1>6, <1>7 DEF FindsAt

\* No range of x meets [start, end).
Apart(x, start, end) == \A j \in 1 .. Len(x) : x[j].end <= start \/ end <= x[j].start

LEMMA NoIntersection ==
    ASSUME spaces \in Seq(Ranges), InOrder(spaces), NEW start \in Nat, NEW end \in Nat, start < end,
           ~ V!vmspace_find_intersection(start, end)
    PROVE  Apart(spaces, start, end)
  <1>1. PICK i : i = V!vmspace_find(start) /\ FindsAt(spaces, i, start)
    BY FindRange
  <1>2. i <= Len(spaces) => ~ (spaces[i].start < end)
    BY <1>1 DEF V!vmspace_find_intersection, V!Found
  <1>3. ASSUME NEW j \in 1 .. Len(spaces) PROVE spaces[j].end <= start \/ end <= spaces[j].start
    <2>1. CASE j < i
      BY <1>1, <2>1 DEF FindsAt
    <2>2. CASE ~ (j < i)
      <3>1. i \in 1 .. Len(spaces) /\ i <= j
        BY <1>1, <2>2 DEF FindsAt
      <3>2. /\ spaces[i].start \in Nat /\ spaces[i].end \in Nat
            /\ spaces[j].start \in Nat
        BY <3>1, Bounds
      <3>3. end <= spaces[i].start
        BY <1>2, <3>1, <3>2
      <3>4. CASE i = j
        BY <3>3, <3>4
      <3>5. CASE i < j
        <4>1. spaces[i].start < spaces[i].end /\ spaces[i].end <= spaces[j].start
          BY <3>1, <3>5 DEF InOrder
        <4> QED BY <4>1, <3>2, <3>3
      <3> QED BY <3>1, <3>4, <3>5
    <2> QED BY <2>1, <2>2
  <1> QED BY <1>3 DEF Apart

\* A gap that vmspace_get_unmaped finds.
LEMMA GetUnmapped ==
    ASSUME spaces \in Seq(Ranges), InOrder(spaces), Bounded(spaces), StackKept(spaces),
           NEW n \in Nat, n > 0, V!vmspace_get_unmaped(n) # -1
    PROVE  LET a == V!vmspace_get_unmaped(n)
           IN  a \in Nat /\ MapStart <= a /\ a + n < MapEnd /\ Apart(spaces, a, a + n)
  <1>1. PICK m \in Nat : m = Len(spaces)
    OBVIOUS
  <1>2. PICK first : first = V!vmspace_find(MapStart) /\ FindsAt(spaces, first, MapStart)
    BY FindRange, SpaceConstants
  <1>3. PICK k \in 1 .. m : spaces[k].start = MapEnd /\ spaces[k].end = USER_VMM_SIZE
    BY <1>1 DEF StackKept
  <1>4. first \in 1 .. m /\ first <= k /\ MapStart < spaces[first].end
    BY <1>1, <1>2, <1>3, SpaceConstants DEF FindsAt
  <1> DEFINE addr(i) == V!AddrBefore(i, first)
             Past(i) == USER_VMM_SIZE - n < addr(i) \/ addr(i) + n >= MapEnd
             Stop(i) == ~ V!Found(i) \/ Past(i) \/ addr(i) + n <= spaces[i].start
             S == {i \in first .. m + 1 : Stop(i)}
  <1>5. V!vmspace_get_unmaped(n) = (IF V!Found(V!Min(S)) /\ Past(V!Min(S)) THEN -1 ELSE addr(V!Min(S)))
    BY <1>1, <1>2 DEF V!vmspace_get_unmaped
  <1>6. \A i \in first .. m + 1 :
           /\ addr(i) \in Nat /\ MapStart <= addr(i)
           /\ \A j \in 1 .. m : j < i => spaces[j].end <= addr(i)
    <2> SUFFICES ASSUME NEW i \in first .. m + 1
                 PROVE  /\ addr(i) \in Nat /\ MapStart <= addr(i)
                        /\ \A j \in 1 .. m : j < i => spaces[j].end <= addr(i)
      OBVIOUS
    <2>1. CASE i = first
      <3>1. addr(i) = MapStart
        BY <2>1 DEF V!AddrBefore
      <3> QED BY <3>1, <2>1, <1>1, <1>2, SpaceConstants DEF FindsAt
    <2>2. CASE i # first
      <3>1. i - 1 \in 1 .. m /\ first <= i - 1
        BY <2>2, <1>4
      <3>2. addr(i) = spaces[i - 1].end
        BY <2>2 DEF V!AddrBefore
      <3>3. spaces[i - 1].end \in Nat /\ spaces[first].end \in Nat /\ spaces[i - 1].start \in Nat
        BY <3>1, <1>1, <1>4, Bounds
      <3>4. \A j \in 1 .. m : j < i => spaces[j].end <= spaces[i - 1].end
        <4> SUFFICES ASSUME NEW j \in 1 .. m, j < i, j # i - 1 PROVE spaces[j].end <= spaces[i - 1].end
          BY <3>3
        <4>1. j < i - 1
          BY <3>1
        <4>2. spaces[j].end <= spaces[i - 1].start /\ spaces[i - 1].start < spaces[i - 1].end
          BY <4>1, <3>1, <1>1 DEF InOrder
        <4>3. spaces[j].end \in Nat
          BY <1>1, Bounds
        <4> QED BY <4>2, <4>3, <3>3
      <3>5. spaces[first].end <= spaces[i - 1].end
        BY <3>1, <3>4, <1>4
      <3> QED BY <3>2, <3>3, <3>4, <3>5, <1>4, SpaceConstants
    <2> QED BY <2>1, <2>2
  <1>7. k \in S
    <2>1. k \in first .. m + 1 /\ addr(k) \in Nat
      BY <1>4, <1>6
    <2>2. addr(k) + n >= MapEnd \/ addr(k) + n <= spaces[k].start
      BY <2>1, <1>3, SpaceConstants
    <2> QED BY <2>1, <2>2
  <1>8. V!Min(S) \in S /\ V!Min(S) <= k
    <2>1. S \subseteq Nat
      BY <1>4
    <2> HIDE DEF S
    <2> QED BY <2>1, <1>7, LeastIndex
  <1>9. PICK i \in first .. m : i = V!Min(S) /\ Stop(i)
    <2>1. V!Min(S) \in first .. m + 1 /\ Stop(V!Min(S))
      BY <1>8
    <2>2. V!Min(S) \in first .. m
      BY <2>1, <1>8, <1>4
    <2> QED BY <2>1, <2>2
  <1>10. V!Found(i)
    BY <1>1, <1>4, <1>9 DEF V!Found
  <1>11. ~ Past(i) /\ V!vmspace_get_unmaped(n) = addr(i)
    BY <1>5, <1>9, <1>10
  <1>12. /\ addr(i) \in Nat /\ MapStart <= addr(i)
         /\ \A j \in 1 .. m : j < i => spaces[j].end <= addr(i)
    <2>1. i \in first .. m + 1
      BY <1>4
    <2> HIDE DEF addr
    <2> QED BY <1>6, <2>1
  <1>13. addr(i) + n < MapEnd /\ addr(i) + n <= spaces[i].start
    <2>1. addr(i) + n <= spaces[i].start
      BY <1>9, <1>10, <1>11
    <2>2. ~ (addr(i) + n >= MapEnd)
      BY <1>11
    <2> QED BY <2>1, <2>2, <1>12, SpaceConstants
  <1>14. Apart(spaces, addr(i), addr(i) + n)
    <2> SUFFICES ASSUME NEW j \in 1 .. m, ~ (j < i) PROVE addr(i) + n <= spaces[j].start
      BY <1>1, <1>12 DEF Apart
    <2>1. i \in 1 .. m /\ i <= j
      BY <1>4, <1>9
    <2>2. spaces[i].start \in Nat /\ spaces[i].end \in Nat /\ spaces[j].start \in Nat
      BY <2>1, <1>1, Bounds
    <2>3. CASE i = j
      BY <2>3, <1>13
    <2>4. CASE i < j
      <3>1. spaces[i].start < spaces[i].end /\ spaces[i].end <= spaces[j].start
        BY <2>1, <2>4, <1>1 DEF InOrder
      <3> QED BY <3>1, <2>2, <1>12, <1>13
    <2> QED BY <2>1, <2>3, <2>4
  <1> QED BY <1>11, <1>12, <1>13, <1>14

LEMMA BoundedIn ==
    ASSUME NEW x, x \in Seq(Ranges), InOrder(x)
    PROVE  Bounded(x) <=> \A a \in Nat : In(x, a) => a < USER_VMM_SIZE
  <1>1. ASSUME Bounded(x), NEW a \in Nat, In(x, a) PROVE a < USER_VMM_SIZE
    <2>1. PICK i \in 1 .. Len(x) : a < x[i].end
      BY <1>1 DEF In
    <2>2. x[i].end \in Nat /\ x[i].end <= USER_VMM_SIZE
      BY <1>1, Bounds DEF Bounded
    <2> QED BY <2>1, <2>2, SpaceConstants
  <1>2. ASSUME \A a \in Nat : In(x, a) => a < USER_VMM_SIZE, NEW i \in 1 .. Len(x)
        PROVE  x[i].end <= USER_VMM_SIZE
    <2>1. x[i].start \in Nat /\ x[i].end \in Nat /\ x[i].start < x[i].end
      BY Bounds DEF InOrder
    <2>2. PICK a \in Nat : a + 1 = x[i].end
      <3>1. x[i].end - 1 \in Nat /\ (x[i].end - 1) + 1 = x[i].end
        BY <2>1
      <3> QED BY <3>1
    <2>3. In(x, a)
      BY <2>1, <2>2 DEF In
    <2> QED BY <1>2, <2>2, <2>3, SpaceConstants
  <1> QED BY <1>1, <1>2 DEF Bounded

\* The list after a step that adds [start, end) to it.
Added(start, end) ==
    /\ ListInv'
    /\ \A a \in Nat : In(spaces', a) <=> (In(spaces, a) \/ (start <= a /\ a < end))

LEMMA Inserted ==
    ASSUME ListInv, ~ dangling, NEW start \in Nat, NEW end \in Nat, start < end, end <= USER_VMM_SIZE,
           Apart(spaces, start, end), NEW f \in Kinds, V!vmspace_insert(spaces, V!Space(start, end, f))
    PROVE  Added(start, end)
  <1>1. PICK s : s = V!Space(start, end, f) /\ s \in Ranges /\ s.start = start /\ s.end = end
    <2>1. PICK s : s = [start |-> start, end |-> end, flags |-> f]
      OBVIOUS
    <2>2. s \in Ranges /\ s.start = start /\ s.end = end
      BY <2>1 DEF Ranges
    <2> QED BY <2>1, <2>2 DEF V!Space
  <1>2. PICK x : x = spaces /\ x \in Seq(Ranges) /\ InOrder(x) /\ Bounded(x) /\ StackKept(x)
    BY DEF ListInv
  <1>3. \A i \in 1 .. Len(x) : x[i].end <= s.start \/ s.end <= x[i].start
    BY <1>1, <1>2 DEF Apart
  <1>4. V!vmspace_insert(x, s) /\ s.start < s.end
    BY <1>1, <1>2
  <1>5. /\ spaces' \in Seq(Ranges) /\ InOrder(spaces') /\ dangling' \in BOOLEAN
        /\ \A a \in Nat : In(spaces', a) <=> (In(x, a) \/ (s.start <= a /\ a < s.end))
        /\ ~ dangling' => \A i \in 1 .. Len(x) :
              s.end <= x[i].start => \E j \in 1 .. Len(spaces') : spaces'[j] = x[i]
    BY <1>1, <1>2, <1>3, <1>4, InsertRange
  <1>6. \A a \in Nat : In(spaces', a) => a < USER_VMM_SIZE
    BY <1>1, <1>2, <1>5, BoundedIn, SpaceConstants
  <1>7. Bounded(spaces')
    BY <1>5, <1>6, BoundedIn
  <1>8. ASSUME ~ dangling' PROVE StackKept(spaces')
    <2>1. PICK k \in 1 .. Len(x) : x[k].start = MapEnd /\ x[k].end = USER_VMM_SIZE
      BY <1>2 DEF StackKept
    <2>2. s.end <= x[k].start
      BY <1>1, <1>3, <2>1, SpaceConstants
    <2>3. PICK j \in 1 .. Len(spaces') : spaces'[j] = x[k]
      BY <1>5, <1>8, <2>2
    <2> QED BY <2>1, <2>3 DEF StackKept
  <1> QED BY <1>1, <1>2, <1>5, <1>7, <1>8 DEF Added, ListInv

\* And after a step that takes [start, end) out.
Removed(start, end) ==
    /\ ListInv'
    /\ \A a \in Nat : In(spaces', a) <=> (In(spaces, a) /\ ~ (start <= a /\ a < end))
    /\ pages' = pages \ V!Pages(start, end)

LEMMA Emptied ==
    ASSUME ListInv, ~ dangling, NEW start \in Nat, NEW n \in Nat, start + n <= MapEnd,
           V!UnmapResult(start, n) = 0, V!Unmap(start, n), dangling' = dangling
    PROVE  Removed(start, start + n)
  <1>1. PICK x : x = spaces /\ x \in Seq(Ranges) /\ InOrder(x) /\ Bounded(x) /\ StackKept(x)
    BY DEF ListInv
  <1>2. PICK i : i = V!vmspace_find(start) /\ FindsAt(spaces, i, start)
    BY <1>1, FindRange
  <1>3. n # 0 /\ i <= Len(spaces) /\ ~ (start < spaces[i].start) /\ ~ (start + n > spaces[i].end)
    BY <1>2 DEF V!UnmapResult, V!Found
  <1>4. i \in 1 .. Len(x) /\ x[i].start \in Nat /\ x[i].end \in Nat
    <2>1. i \in 1 .. Len(x)
      BY <1>1, <1>2, <1>3 DEF FindsAt
    <2> QED BY <2>1, <1>1, Bounds
  <1>5. PICK end \in Nat : end = start + n /\ start < end /\ x[i].start <= start /\ end <= x[i].end
    BY <1>1, <1>3, <1>4
  <1>6. PICK garbage \in Kinds : spaces' = V!Cut(i, start, end, garbage)
    BY <1>2, <1>5 DEF V!Unmap, Kinds
  <1>7. /\ spaces' \in Seq(Ranges) /\ InOrder(spaces')
        /\ \A a \in Nat : In(spaces', a) <=> (In(spaces, a) /\ ~ (start <= a /\ a < end))
        /\ \A j \in 1 .. Len(spaces) : j # i => Has(spaces', spaces[j])
    <2>1. i \in 1 .. Len(spaces) /\ spaces[i].start <= start /\ end <= spaces[i].end
          /\ spaces \in Seq(Ranges) /\ InOrder(spaces)
      BY <1>1, <1>4, <1>5
    <2>2. /\ V!Cut(i, start, end, garbage) \in Seq(Ranges) /\ InOrder(V!Cut(i, start, end, garbage))
          /\ \A a \in Nat : In(V!Cut(i, start, end, garbage), a) <=> (In(spaces, a) /\ ~ (start <= a /\ a < end))
          /\ \A j \in 1 .. Len(spaces) : j # i => Has(V!Cut(i, start, end, garbage), spaces[j])
      BY <2>1, <1>5, CutRange
    <2> QED BY <2>2, <1>6
  <1>8. Bounded(spaces')
    BY <1>1, <1>7, BoundedIn
  <1>9. StackKept(spaces')
    <2>1. PICK k \in 1 .. Len(x) : x[k].start = MapEnd /\ x[k].end = USER_VMM_SIZE
      BY <1>1 DEF StackKept
    <2>2. k # i
      BY <2>1, <1>4, <1>5, SpaceConstants
    <2>3. Has(spaces', x[k])
      BY <1>1, <1>7, <2>2
    <2> QED BY <2>1, <2>3 DEF StackKept, Has
  <1>10. pages' = pages \ V!Pages(start, end)
    BY <1>5 DEF V!Unmap
  <1>11. ListInv'
    BY <1>7, <1>8, <1>9 DEF ListInv
  <1> QED BY <1>5, <1>7, <1>10, <1>11 DEF Removed

\* Where the heap may grow to, and where mappings begin, in the address space
\* of a process.
ZonesApart ==
    /\ HeapStart + MAX_VMS_HEAP_SIZE <= MapStart
    /\ \A a \in Fixed : MapStart <= a

LEMMA PagesOf ==
    \A start, end \in Nat : \A a :
       a \in V!Pages(start, end) <=> (a \in Nat /\ start <= a /\ a < end /\ OnPage(a))
  <1>1. \A start, end \in Nat : \A a : a \in start .. end - 1 <=> (a \in Nat /\ start <= a /\ a < end)
    OBVIOUS
  <1> QED BY <1>1 DEF V!Pages, OnPage

LEMMA MapSpace ==
    ASSUME ZonesApart, SpaceInv, ~ dangling,
           NEW a \in Fixed \cup {-1}, NEW n \in Length, NEW f \in Flags, V!do_vmspace_map(a, n, f)
    PROVE  SpaceInv'
  <1>1. PICK bytes \in Nat : bytes = V!PAGE_ALIGN(n)
    BY Aligned, SpaceConstants
  <1>2. PICK addr : addr = (IF a = -1 THEN V!vmspace_get_unmaped(bytes) ELSE a)
    OBVIOUS
  <1>3. /\ bytes > 0
        /\ a # -1 => a <= USER_VMM_SIZE - bytes
        /\ a # -1 => ~ V!vmspace_find_intersection(a, a + bytes)
        /\ addr # -1
        /\ V!vmspace_insert(spaces, V!Space(addr, addr + bytes, f))
        /\ pages' = pages \cup V!Pages(addr, addr + bytes)
        /\ heap_end' = heap_end
    BY <1>1, <1>2 DEF V!do_vmspace_map
  <1>4. spaces \in Seq(Ranges) /\ InOrder(spaces) /\ Bounded(spaces) /\ StackKept(spaces)
    BY DEF SpaceInv, ListInv
  <1>5. /\ addr \in Nat /\ MapStart <= addr /\ addr + bytes <= USER_VMM_SIZE
        /\ Apart(spaces, addr, addr + bytes)
    <2>1. CASE a = -1
      <3>1. addr = V!vmspace_get_unmaped(bytes)
        BY <2>1, <1>2
      <3>2. addr \in Nat /\ MapStart <= addr /\ addr + bytes < MapEnd /\ Apart(spaces, addr, addr + bytes)
        BY <3>1, <1>3, <1>4, GetUnmapped
      <3> QED BY <3>2, SpaceConstants
    <2>2. CASE a # -1
      <3>1. a \in Fixed /\ a \in Nat /\ MapStart <= a /\ addr = a
        BY <2>2, <1>2, SpaceConstants DEF ZonesApart
      <3>2. a + bytes <= USER_VMM_SIZE /\ ~ V!vmspace_find_intersection(a, a + bytes)
        BY <3>1, <2>2, <1>3, SpaceConstants
      <3>3. Apart(spaces, a, a + bytes)
        BY <3>1, <3>2, <1>3, <1>4, NoIntersection
      <3> QED BY <3>1, <3>2, <3>3
    <2> QED BY <2>1, <2>2
  <1>6. PICK end \in Nat : end = addr + bytes /\ addr < end /\ end <= USER_VMM_SIZE
    BY <1>3, <1>5
  <1>7. Added(addr, end)
    <2>1. ListInv /\ f \in Kinds /\ Apart(spaces, addr, end)
          /\ V!vmspace_insert(spaces, V!Space(addr, end, f))
      BY <1>3, <1>5, <1>6 DEF SpaceInv, Kinds
    <2> QED BY <2>1, <1>5, <1>6, Inserted
  <1>8. /\ ListInv'
        /\ \A b \in Nat : In(spaces', b) <=> (In(spaces, b) \/ (addr <= b /\ b < end))
    BY <1>7 DEF Added
  <1>9. \A b : b \in pages' <=> (b \in pages \/ (b \in Nat /\ addr <= b /\ b < end /\ OnPage(b)))
    BY <1>3, <1>5, <1>6, PagesOf
  <1>10. PagesCovered'
    <2>1. pages' \subseteq Nat /\ \A b \in pages' : OnPage(b) /\ In(spaces', b)
      BY <1>8, <1>9 DEF SpaceInv, PagesCovered
    <2>2. ASSUME NEW b \in MapStart .. MapEnd - 1, OnPage(b), In(spaces', b) PROVE b \in pages'
      <3>1. b \in Nat
        BY SpaceConstants
      <3> QED BY <3>1, <2>2, <1>8, <1>9 DEF SpaceInv, PagesCovered
    <2> QED BY <2>1, <2>2 DEF PagesCovered, OnPage
  <1>11. HeapCovered'
    <2>1. ASSUME NEW b \in HeapStart .. MapStart - 1 PROVE In(spaces', b) <=> In(spaces, b)
      <3>1. b \in Nat /\ ~ (addr <= b)
        BY <1>5, SpaceConstants
      <3> QED BY <3>1, <1>8
    <2>2. V!PAGE_ALIGN(heap_end)' = V!PAGE_ALIGN(heap_end)
      BY <1>3 DEF V!PAGE_ALIGN
    <2> QED BY <2>1, <2>2, <1>3 DEF SpaceInv, HeapCovered, OnPage
  <1> QED BY <1>8, <1>10, <1>11 DEF SpaceInv

\* After a hole is made, a page that is mapped is still covered.
LEMMA PagesAfter ==
    ASSUME PagesCovered, NEW start \in Nat, NEW end \in Nat, Removed(start, end)
    PROVE  PagesCovered'
  <1>1. \A b : b \in pages' <=> (b \in pages /\ ~ (b \in Nat /\ start <= b /\ b < end /\ OnPage(b)))
    BY PagesOf DEF Removed
  <1>2. \A b \in Nat : In(spaces', b) <=> (In(spaces, b) /\ ~ (start <= b /\ b < end))
    BY DEF Removed
  <1>3. pages' \subseteq Nat /\ \A b \in pages' : OnPage(b) /\ In(spaces', b)
    BY <1>1, <1>2 DEF PagesCovered
  <1>4. ASSUME NEW b \in MapStart .. MapEnd - 1, OnPage(b), In(spaces', b) PROVE b \in pages'
    <2>1. b \in Nat
      BY SpaceConstants
    <2> QED BY <2>1, <1>1, <1>2, <1>4 DEF PagesCovered
  <1> QED BY <1>3, <1>4 DEF PagesCovered, OnPage

LEMMA UnmapSpace ==
    ASSUME SpaceInv, ~ dangling, NEW a \in 0 .. USER_VMM_SIZE, NEW n \in Length, V!do_vmspace_unmap(a, n)
    PROVE  SpaceInv'
  <1>1. PICK bytes \in Nat : bytes = V!PAGE_ALIGN(n)
    BY Aligned, SpaceConstants
  <1>2. /\ a >= MapStart /\ a + bytes <= MapEnd
        /\ V!UnmapResult(a, bytes) = 0 /\ V!Unmap(a, bytes)
        /\ heap_end' = heap_end /\ dangling' = dangling
    BY <1>1 DEF V!do_vmspace_unmap
  <1>3. a \in Nat /\ a + bytes \in Nat
    BY SpaceConstants
  <1>4. Removed(a, a + bytes)
    BY <1>2, <1>3, Emptied DEF SpaceInv
  <1>5. PagesCovered'
    BY <1>3, <1>4, PagesAfter DEF SpaceInv
  <1>6. HeapCovered'
    <2>1. ASSUME NEW b \in HeapStart .. MapStart - 1 PROVE In(spaces', b) <=> In(spaces, b)
      <3>1. b \in Nat /\ ~ (a <= b)
        BY <1>2, <1>3, SpaceConstants
      <3> QED BY <3>1, <1>4 DEF Removed
    <2>2. V!PAGE_ALIGN(heap_end)' = V!PAGE_ALIGN(heap_end)
      BY <1>2 DEF V!PAGE_ALIGN
    <2> QED BY <2>1, <2>2, <1>2 DEF SpaceInv, HeapCovered, OnPage
  <1> QED BY <1>4, <1>5, <1>6 DEF SpaceInv, Removed

LEMMA SameHeap ==
    ASSUME SpaceInv, NEW h \in 0 .. USER_VMM_SIZE, V!HeapSame(h) PROVE SpaceInv'
  <1>1. /\ h >= HeapStart /\ V!PAGE_ALIGN(h) = V!PAGE_ALIGN(heap_end) /\ heap_end' = h
        /\ spaces' = spaces /\ pages' = pages /\ dangling' = dangling
    BY DEF V!HeapSame
  <1>2. V!PAGE_ALIGN(heap_end)' = V!PAGE_ALIGN(h)
    BY <1>1 DEF V!PAGE_ALIGN
  <1>3. h \in Nat
    BY SpaceConstants
  <1>4. HeapCovered'
    BY <1>1, <1>2, <1>3 DEF SpaceInv, HeapCovered, OnPage
  <1>5. ListInv' /\ PagesCovered'
    BY <1>1 DEF SpaceInv, ListInv, PagesCovered, OnPage
  <1> QED BY <1>4, <1>5 DEF SpaceInv

LEMMA ShrinkHeap ==
    ASSUME SpaceInv, ~ dangling, NEW h \in 0 .. USER_VMM_SIZE, V!HeapShrink(h) PROVE SpaceInv'
  <1>1. h \in Nat /\ heap_end \in Nat /\ HeapStart <= heap_end
    BY SpaceConstants DEF SpaceInv, HeapCovered
  <1>2. PICK new \in Nat, old \in Nat : new = V!PAGE_ALIGN(h) /\ old = V!PAGE_ALIGN(heap_end)
    BY <1>1, Aligned
  <1>3. /\ h >= HeapStart /\ h <= heap_end /\ new # old
        /\ V!UnmapResult(new, old - new) = 0 /\ V!Unmap(new, old - new)
        /\ heap_end' = h /\ dangling' = dangling
    BY <1>2 DEF V!HeapShrink
  <1>4. new < old /\ old <= MapStart /\ HeapStart <= new
    <2>1. new <= old /\ h <= new
      BY <1>1, <1>2, <1>3, Aligned
    <2>2. old <= MapStart
      BY <1>2 DEF SpaceInv, HeapCovered
    <2> QED BY <2>1, <2>2, <1>1, <1>3, SpaceConstants
  <1>5. Removed(new, old)
    <2>1. PICK n \in Nat : n = old - new /\ new + n = old /\ new + n <= MapEnd
      <3>1. old - new \in Nat /\ new + (old - new) = old /\ old <= MapEnd
        BY <1>4, SpaceConstants
      <3> QED BY <3>1
    <2>2. Removed(new, new + n)
      BY <2>1, <1>3, Emptied DEF SpaceInv
    <2> QED BY <2>1, <2>2
  <1>6. PagesCovered'
    BY <1>5, PagesAfter DEF SpaceInv
  <1>7. HeapCovered'
    <2>1. V!PAGE_ALIGN(heap_end)' = new
      BY <1>2, <1>3 DEF V!PAGE_ALIGN
    <2>2. ASSUME NEW b \in HeapStart .. MapStart - 1, OnPage(b) PROVE In(spaces', b) <=> b < new
      <3>1. b \in Nat /\ (In(spaces, b) <=> b < old)
        BY <1>2, <2>2, SpaceConstants DEF SpaceInv, HeapCovered
      <3>2. In(spaces', b) <=> (In(spaces, b) /\ ~ (new <= b /\ b < old))
        BY <3>1, <1>5 DEF Removed
      <3> QED BY <3>1, <3>2, <1>4
    <2> QED BY <2>1, <2>2, <1>1, <1>3, <1>4, SpaceConstants DEF HeapCovered, OnPage
  <1> QED BY <1>5, <1>6, <1>7 DEF SpaceInv, Removed

LEMMA FaultHeap ==
    ASSUME SpaceInv, NEW a \in 0 .. USER_VMM_SIZE, V!HeapFault(a) PROVE SpaceInv'
  <1>1. /\ a >= HeapStart /\ a < V!PAGE_ALIGN(heap_end) /\ OnPage(a) /\ pages' = pages \cup {a}
        /\ spaces' = spaces /\ heap_end' = heap_end /\ dangling' = dangling
    BY DEF V!HeapFault, OnPage
  <1>2. a \in Nat /\ a \in HeapStart .. MapStart - 1 /\ In(spaces, a)
    <2>1. heap_end \in Nat /\ V!PAGE_ALIGN(heap_end) \in Nat /\ V!PAGE_ALIGN(heap_end) <= MapStart
      BY Aligned DEF SpaceInv, HeapCovered
    <2>2. a \in Nat /\ a \in HeapStart .. MapStart - 1
      BY <1>1, <2>1, SpaceConstants
    <2> QED BY <2>2, <1>1 DEF SpaceInv, HeapCovered
  <1>3. PagesCovered'
    BY <1>1, <1>2 DEF SpaceInv, PagesCovered, OnPage
  <1>4. V!PAGE_ALIGN(heap_end)' = V!PAGE_ALIGN(heap_end)
    BY <1>1 DEF V!PAGE_ALIGN
  <1>5. HeapCovered' /\ ListInv'
    BY <1>1, <1>4 DEF SpaceInv, HeapCovered, ListInv, OnPage
  <1> QED BY <1>3, <1>5 DEF SpaceInv

\* do_vmspace_heap extends the range of the heap.
LEMMA Extended ==
    ASSUME ListInv, ~ dangling, NEW i \in 1 .. Len(spaces), NEW old \in Nat, NEW new \in Nat,
           spaces[i].end = old, old < new, new <= MapEnd, Apart(spaces, old, new),
           spaces' = [spaces EXCEPT ![i].end = new], dangling' = dangling
    PROVE  Added(old, new)
  <1>0. PICK x : x = spaces
    OBVIOUS
  <1>1. PICK n \in Nat : /\ x = spaces /\ n = Len(x) /\ x \in Seq(Ranges) /\ i \in 1 .. n
                         /\ InOrder(x) /\ Bounded(x) /\ StackKept(x)
    <2>1. Len(x) \in Nat /\ x \in Seq(Ranges) /\ InOrder(x) /\ Bounded(x) /\ StackKept(x)
      BY <1>0 DEF ListInv
    <2> QED BY <2>1, <1>0
  <1>2. \A j \in 1 .. n : x[j].start \in Nat /\ x[j].end \in Nat /\ x[j].flags \in Kinds /\ x[j] \in Ranges
    BY <1>1, Bounds
  <1>3. PICK r : r = [x[i] EXCEPT !.end = new]
    OBVIOUS
  <1>4. r \in Ranges /\ r.start = x[i].start /\ r.end = new
    BY <1>1, <1>2, <1>3 DEF Ranges
  <1>5. PICK y : y = spaces' /\ y = [x EXCEPT ![i] = r]
    BY <1>1, <1>3
  <1>6. /\ y \in Seq(Ranges) /\ Len(y) = n /\ y[i] = r
        /\ \A j \in 1 .. n : j # i => y[j] = x[j]
    BY <1>1, <1>4, <1>5
  <1>7. \A j \in 1 .. n : i < j => new <= x[j].start
    <2> SUFFICES ASSUME NEW j \in 1 .. n, i < j PROVE new <= x[j].start
      OBVIOUS
    <2>1. x[i].end = old /\ x[i].end <= x[j].start /\ x[j].start < x[j].end
      BY <1>1 DEF InOrder
    <2>2. x[j].end <= old \/ new <= x[j].start
      BY <1>1 DEF Apart
    <2> QED BY <2>1, <2>2, <1>2
  <1>8. x[i].start < old /\ x[i].end = old
    BY <1>1 DEF InOrder
  <1>9. InOrder(y)
    <2>1. ASSUME NEW j \in 1 .. n PROVE y[j].start < y[j].end
      <3>1. CASE j = i
        BY <3>1, <1>2, <1>4, <1>6, <1>8
      <3>2. CASE j # i
        BY <3>2, <1>1, <1>6 DEF InOrder
      <3> QED BY <3>1, <3>2
    <2>2. ASSUME NEW j \in 1 .. n, NEW k \in 1 .. n, j < k PROVE y[j].end <= y[k].start
      <3>1. x[j].end <= x[k].start
        BY <2>2, <1>1 DEF InOrder
      <3>2. CASE j = i
        BY <2>2, <3>2, <1>4, <1>6, <1>7
      <3>3. CASE k = i
        BY <2>2, <3>1, <3>3, <1>4, <1>6
      <3>4. CASE j # i /\ k # i
        BY <3>1, <3>4, <1>6
      <3> QED BY <3>2, <3>3, <3>4
    <2> QED BY <2>1, <2>2, <1>6 DEF InOrder
  <1>10. ASSUME NEW a \in Nat PROVE In(y, a) <=> (In(x, a) \/ (old <= a /\ a < new))
    <2>1. ASSUME In(y, a) PROVE In(x, a) \/ (old <= a /\ a < new)
      <3>1. PICK j \in 1 .. n : y[j].start <= a /\ a < y[j].end
        BY <2>1, <1>6 DEF In
      <3>2. CASE j = i
        <4>1. x[i].start <= a /\ a < new
          BY <3>1, <3>2, <1>4, <1>6
        <4>2. a < old => In(x, a)
          BY <4>1, <1>1, <1>8 DEF In
        <4> QED BY <4>1, <4>2
      <3>3. CASE j # i
        BY <3>1, <3>3, <1>1, <1>6 DEF In
      <3> QED BY <3>2, <3>3
    <2>2. ASSUME In(x, a) PROVE In(y, a)
      <3>1. PICK j \in 1 .. n : x[j].start <= a /\ a < x[j].end
        BY <2>2, <1>1 DEF In
      <3>2. CASE j = i
        <4>1. y[i].start <= a /\ a < y[i].end
          BY <3>1, <3>2, <1>4, <1>6, <1>8
        <4> QED BY <4>1, <1>1, <1>6 DEF In
      <3>3. CASE j # i
        BY <3>1, <3>3, <1>6 DEF In
      <3> QED BY <3>2, <3>3
    <2>3. ASSUME old <= a, a < new PROVE In(y, a)
      <3>1. y[i].start <= a /\ a < y[i].end
        BY <2>3, <1>1, <1>2, <1>4, <1>6, <1>8
      <3> QED BY <3>1, <1>1, <1>6 DEF In
    <2> QED BY <2>1, <2>2, <2>3
  <1>11. Bounded(y)
    <2>1. ASSUME NEW j \in 1 .. n PROVE y[j].end <= USER_VMM_SIZE
      <3>1. CASE j = i
        BY <3>1, <1>4, <1>6, SpaceConstants
      <3>2. CASE j # i
        BY <3>2, <1>1, <1>6 DEF Bounded
      <3> QED BY <3>1, <3>2
    <2> QED BY <2>1, <1>6 DEF Bounded
  <1>12. StackKept(y)
    <2>1. PICK k \in 1 .. n : x[k].start = MapEnd /\ x[k].end = USER_VMM_SIZE
      BY <1>1 DEF StackKept
    <2>2. k # i
      BY <2>1, <1>8, SpaceConstants
    <2> QED BY <2>1, <2>2, <1>6 DEF StackKept
  <1> QED BY <1>1, <1>5, <1>6, <1>9, <1>10, <1>11, <1>12 DEF Added, ListInv

LEMMA GrowHeap ==
    ASSUME ZonesApart, SpaceInv, ~ dangling, NEW h \in 0 .. USER_VMM_SIZE, V!HeapGrow(h) PROVE SpaceInv'
  <1>1. h \in Nat /\ heap_end \in Nat /\ HeapStart <= heap_end
    BY SpaceConstants DEF SpaceInv, HeapCovered
  <1>2. PICK new \in Nat, old \in Nat : new = V!PAGE_ALIGN(h) /\ old = V!PAGE_ALIGN(heap_end)
    BY <1>1, Aligned
  <1>3. /\ h > heap_end /\ new # old /\ h <= HeapStart + MAX_VMS_HEAP_SIZE
        /\ ~ V!vmspace_find_intersection(old, new + PAGE_SIZE)
        /\ heap_end' = h /\ pages' = pages
    BY <1>2 DEF V!HeapGrow, V!CanGrow
  <1>4. PICK i : i = V!vmspace_find(old - 1)
    OBVIOUS
  <1>5. \/ V!Found(i) /\ spaces[i].end = old /\ spaces' = [spaces EXCEPT ![i].end = new] /\ dangling' = dangling
        \/ V!vmspace_insert(spaces, V!Space(old, new, V!VMS_MAP_HEAP))
    BY <1>2, <1>4 DEF V!HeapGrow
  <1>6. old < new /\ new <= MapStart /\ HeapStart <= old /\ h <= new
    <2>1. old <= new /\ heap_end <= old /\ h <= new
      BY <1>1, <1>2, <1>3, Aligned
    <2>2. h <= MapStart
      BY <1>1, <1>3, SpaceConstants DEF ZonesApart
    <2>3. new <= MapStart
      BY <2>2, <1>1, <1>2, Aligned, SpaceConstants DEF OnPage
    <2> QED BY <2>1, <2>3, <1>1, <1>3, SpaceConstants
  <1>7. ListInv /\ spaces \in Seq(Ranges) /\ InOrder(spaces)
    BY DEF SpaceInv, ListInv
  <1>8. Apart(spaces, old, new)
    <2>1. PICK end \in Nat : end = new + PAGE_SIZE /\ new < end
      <3>1. new + PAGE_SIZE \in Nat /\ new < new + PAGE_SIZE
        BY Aligned
      <3> QED BY <3>1
    <2>2. Apart(spaces, old, end)
      BY <2>1, <1>3, <1>6, <1>7, NoIntersection
    <2>3. \A j \in 1 .. Len(spaces) : spaces[j].start \in Nat
      BY <1>7, Bounds
    <2> QED BY <2>1, <2>2, <2>3 DEF Apart
  <1>9. Added(old, new)
    <2>1. CASE V!vmspace_insert(spaces, V!Space(old, new, V!VMS_MAP_HEAP))
      <3>1. V!VMS_MAP_HEAP \in Kinds /\ new <= USER_VMM_SIZE
        BY <1>6, SpaceConstants DEF Kinds
      <3> QED BY <2>1, <3>1, <1>6, <1>7, <1>8, Inserted
    <2>2. CASE V!Found(i) /\ spaces[i].end = old /\ spaces' = [spaces EXCEPT ![i].end = new] /\ dangling' = dangling
      <3>1. old - 1 \in Nat
        BY <1>6, SpaceConstants
      <3>2. i \in 1 .. Len(spaces)
        <4>1. FindsAt(spaces, i, old - 1)
          BY <3>1, <1>4, <1>7, FindRange
        <4> QED BY <4>1, <2>2 DEF FindsAt, V!Found
      <3>3. new <= MapEnd
        BY <1>6, SpaceConstants
      <3> QED BY <2>2, <3>2, <3>3, <1>6, <1>7, <1>8, Extended
    <2> QED BY <2>1, <2>2, <1>5
  <1>10. \A a \in Nat : In(spaces', a) <=> (In(spaces, a) \/ (old <= a /\ a < new))
    BY <1>9 DEF Added
  <1>11. PagesCovered'
    <2>1. pages' \subseteq Nat /\ \A b \in pages' : OnPage(b) /\ In(spaces', b)
      BY <1>3, <1>10 DEF SpaceInv, PagesCovered
    <2>2. ASSUME NEW b \in MapStart .. MapEnd - 1, OnPage(b), In(spaces', b) PROVE b \in pages'
      <3>1. b \in Nat /\ ~ (b < new)
        BY <1>6, SpaceConstants
      <3> QED BY <3>1, <2>2, <1>3, <1>10 DEF SpaceInv, PagesCovered
    <2> QED BY <2>1, <2>2 DEF PagesCovered, OnPage
  <1>12. HeapCovered'
    <2>1. V!PAGE_ALIGN(heap_end)' = new
      BY <1>2, <1>3 DEF V!PAGE_ALIGN
    <2>2. ASSUME NEW b \in HeapStart .. MapStart - 1, OnPage(b) PROVE In(spaces', b) <=> b < new
      <3>1. b \in Nat /\ (In(spaces, b) <=> b < old)
        BY <1>2, <2>2, SpaceConstants DEF SpaceInv, HeapCovered
      <3> QED BY <3>1, <1>6, <1>10
    <2> QED BY <2>1, <2>2, <1>1, <1>3, <1>6, SpaceConstants DEF HeapCovered, OnPage
  <1> QED BY <1>9, <1>11, <1>12 DEF SpaceInv, Added

LEMMA SpaceInit == V!Init => SpaceInv
  <1> SUFFICES ASSUME V!Init PROVE SpaceInv
    OBVIOUS
  <1>1. PICK image : image = [start |-> 0, end |-> HeapStart, flags |-> "image"]
    OBVIOUS
  <1>2. PICK stack : stack = [start |-> MapEnd, end |-> USER_VMM_SIZE, flags |-> "stack"]
    OBVIOUS
  <1>3. /\ image \in Ranges /\ image.start = 0 /\ image.end = HeapStart
        /\ stack \in Ranges /\ stack.start = MapEnd /\ stack.end = USER_VMM_SIZE
    BY <1>1, <1>2, SpaceConstants DEF Ranges, Kinds
  <1>4. /\ spaces = <<image, stack>> /\ heap_end = HeapStart /\ dangling = FALSE
        /\ pages = V!Pages(0, HeapStart) \cup V!Pages(MapEnd, USER_VMM_SIZE)
    BY <1>1, <1>2 DEF V!Init, V!Space
  <1>5. /\ spaces \in Seq(Ranges) /\ Len(spaces) = 2 /\ spaces[1] = image /\ spaces[2] = stack
        /\ \A i : i \in 1 .. Len(spaces) <=> (i = 1 \/ i = 2)
    BY <1>3, <1>4
  <1>6. ListInv
    <2>1. InOrder(spaces)
      BY <1>3, <1>5, SpaceConstants DEF InOrder
    <2>2. Bounded(spaces)
      BY <1>3, <1>5, SpaceConstants DEF Bounded
    <2>3. StackKept(spaces)
      BY <1>3, <1>5 DEF StackKept
    <2> QED BY <2>1, <2>2, <2>3, <1>4, <1>5 DEF ListInv
  <1>7. \A a \in Nat : In(spaces, a) <=> (a < HeapStart \/ (MapEnd <= a /\ a < USER_VMM_SIZE))
    BY <1>3, <1>5 DEF In
  <1>8. \A b : b \in pages <=> (b \in Nat /\ OnPage(b) /\ (b < HeapStart \/ (MapEnd <= b /\ b < USER_VMM_SIZE)))
    <2>1. \A b : b \in V!Pages(0, HeapStart) <=> (b \in Nat /\ 0 <= b /\ b < HeapStart /\ OnPage(b))
      BY PagesOf, SpaceConstants
    <2>2. \A b : b \in V!Pages(MapEnd, USER_VMM_SIZE) <=> (b \in Nat /\ MapEnd <= b /\ b < USER_VMM_SIZE /\ OnPage(b))
      BY PagesOf, SpaceConstants
    <2> QED BY <2>1, <2>2, <1>4
  <1>9. PagesCovered
    <2>1. \A b \in MapStart .. MapEnd - 1 : b \in Nat /\ ~ (b < HeapStart) /\ ~ (MapEnd <= b)
      BY SpaceConstants
    <2> QED BY <2>1, <1>7, <1>8 DEF PagesCovered
  <1>10. HeapCovered
    <2>1. V!PAGE_ALIGN(HeapStart) = HeapStart
      <3>1. V!PAGE_ALIGN(HeapStart) \in Nat /\ HeapStart <= V!PAGE_ALIGN(HeapStart) /\ V!PAGE_ALIGN(HeapStart) <= HeapStart
        BY Aligned, SpaceConstants DEF OnPage
      <3> QED BY <3>1, SpaceConstants
    <2>2. \A b \in HeapStart .. MapStart - 1 : b \in Nat /\ ~ (b < HeapStart) /\ ~ (MapEnd <= b)
      BY SpaceConstants
    <2> QED BY <2>1, <2>2, <1>4, <1>7, SpaceConstants DEF HeapCovered
  <1> QED BY <1>6, <1>9, <1>10 DEF SpaceInv

LEMMA SpaceNext == ASSUME ZonesApart PROVE SpaceInv /\ [V!Next]_(V!vars) => SpaceInv'
  <1> SUFFICES ASSUME SpaceInv, [V!Next]_(V!vars) PROVE SpaceInv'
    OBVIOUS
  <1>1. CASE V!Next
    <2>1. ~ dangling
      BY <1>1 DEF V!Next
    <2>2. \/ \E a \in Fixed \cup {-1}, n \in Length, f \in Flags : V!do_vmspace_map(a, n, f)
          \/ \E a \in 0 .. USER_VMM_SIZE, n \in Length : V!do_vmspace_unmap(a, n)
          \/ \E h \in 0 .. USER_VMM_SIZE : V!HeapSame(h) \/ V!HeapShrink(h) \/ V!HeapGrow(h)
          \/ \E a \in 0 .. USER_VMM_SIZE : V!HeapFault(a)
      BY <1>1 DEF V!Next
    <2> QED BY <2>1, <2>2, MapSpace, UnmapSpace, SameHeap, ShrinkHeap, GrowHeap, FaultHeap
  <1>2. CASE UNCHANGED V!vars
    <2>1. spaces' = spaces /\ heap_end' = heap_end /\ pages' = pages /\ dangling' = dangling
      BY <1>2 DEF V!vars
    <2>2. V!PAGE_ALIGN(heap_end)' = V!PAGE_ALIGN(heap_end)
      BY <2>1 DEF V!PAGE_ALIGN
    <2> QED BY <2>1, <2>2 DEF SpaceInv, ListInv, PagesCovered, HeapCovered, OnPage
  <1> QED BY <1>1, <1>2

\* The list and the page tables agree, and the heap is what lies in spaces from
\* its start to its end (vmspace_insert, do_vmspace_map, do_vmspace_unmap,
\* do_vmspace_heap), whatever is mapped, unmapped in part and grown, in an
\* address space where the heap cannot reach the mappings.
THEOREM SpacesKept == ASSUME ZonesApart PROVE V!Spec => []SpacesExact
  <1>1. SpaceInv => SpacesExact
    <2> SUFFICES ASSUME SpaceInv PROVE SpacesExact
      OBVIOUS
    <2>1. PICK n \in Nat : n = Len(spaces) /\ spaces \in Seq(Ranges) /\ InOrder(spaces) /\ DOMAIN spaces = 1 .. n
      BY DEF SpaceInv, ListInv
    <2>2. \A i \in DOMAIN spaces : spaces[i].start < spaces[i].end
      BY <2>1 DEF InOrder
    <2>3. \A i \in 1 .. Len(spaces) - 1 : spaces[i].end <= spaces[i + 1].start
      <3>1. \A i \in 1 .. n - 1 : i \in 1 .. n /\ i + 1 \in 1 .. n /\ i < i + 1
        OBVIOUS
      <3> QED BY <3>1, <2>1 DEF InOrder
    <2>4. \A a : a \in V!Covered <=> (a \in Nat /\ OnPage(a) /\ In(spaces, a))
      <3>1. \A a : a \in V!Covered <=> \E i \in 1 .. n : a \in V!Pages(spaces[i].start, spaces[i].end)
        BY <2>1 DEF V!Covered
      <3>2. \A i \in 1 .. n : spaces[i].start \in Nat /\ spaces[i].end \in Nat
        BY <2>1, Bounds
      <3>3. \A i \in 1 .. n : \A a : a \in V!Pages(spaces[i].start, spaces[i].end) <=>
               (a \in Nat /\ spaces[i].start <= a /\ a < spaces[i].end /\ OnPage(a))
        BY <3>2, PagesOf
      <3> QED BY <3>1, <3>3, <2>1 DEF In
    <2>5. pages \subseteq V!Covered
      BY <2>4 DEF SpaceInv, PagesCovered
    <2>6. V!Covered \cap V!Pages(MapStart, MapEnd) \subseteq pages
      <3> SUFFICES ASSUME NEW a, a \in V!Covered, a \in V!Pages(MapStart, MapEnd) PROVE a \in pages
        OBVIOUS
      <3>1. a \in Nat /\ MapStart <= a /\ a < MapEnd /\ OnPage(a)
        BY PagesOf, SpaceConstants
      <3>2. a \in MapStart .. MapEnd - 1
        BY <3>1, SpaceConstants
      <3>3. In(spaces, a)
        BY <2>4
      <3> QED BY <3>1, <3>2, <3>3 DEF SpaceInv, PagesCovered
    <2>7. V!Covered \cap V!Pages(HeapStart, MapStart) = V!Pages(HeapStart, V!PAGE_ALIGN(heap_end))
      <3>1. PICK e \in Nat : e = V!PAGE_ALIGN(heap_end) /\ e <= MapStart
        <4>1. heap_end \in Nat /\ V!PAGE_ALIGN(heap_end) <= MapStart
          BY DEF SpaceInv, HeapCovered
        <4>2. V!PAGE_ALIGN(heap_end) \in Nat
          BY <4>1, Aligned
        <4> QED BY <4>1, <4>2
      <3>2. \A a : a \in V!Pages(HeapStart, MapStart) <=> (a \in Nat /\ HeapStart <= a /\ a < MapStart /\ OnPage(a))
        BY PagesOf, SpaceConstants
      <3>3. \A a : a \in V!Pages(HeapStart, e) <=> (a \in Nat /\ HeapStart <= a /\ a < e /\ OnPage(a))
        BY PagesOf, SpaceConstants
      <3>4. ASSUME NEW a, a \in Nat, HeapStart <= a, a < MapStart, OnPage(a) PROVE In(spaces, a) <=> a < e
        <4>1. a \in HeapStart .. MapStart - 1
          BY <3>4, SpaceConstants
        <4> QED BY <4>1, <3>1, <3>4 DEF SpaceInv, HeapCovered
      <3>5. \A a \in Nat : a < e => a < MapStart
        BY <3>1, SpaceConstants
      <3>6. \A a : a \in V!Covered \cap V!Pages(HeapStart, MapStart) <=> a \in V!Pages(HeapStart, e)
        BY <2>4, <3>2, <3>3, <3>4, <3>5
      <3> QED BY <3>1, <3>6
    <2> QED BY <2>2, <2>3, <2>5, <2>6, <2>7 DEF SpacesExact, V!SpacesExact
  <1> QED BY <1>1, SpaceInit, SpaceNext, PTL DEF V!Spec

-----------------------------------------------------------------------------
(* Named pipes: two tasks, in the ready queue, in the list of the mutex or *)
(* asleep for room or for bytes.                                           *)

TwoTasks == {rd, wr}
Places ==
    {"out", "registered", "lock", "put", "grow", "set", "up", "sync", "synced",
     "write", "read", "take", "wake", "unlock", "wakeup", "block", "blocked"}
LockedPlaces == {"put", "grow", "set", "write", "read", "take", "wake"}

Linked(m, h, S) ==
    \/ S = {} /\ m.next[h] = h /\ m.prev[h] = h
    \/ \E t \in TwoTasks : /\ S = {t} /\ m.next[h] = t /\ m.next[t] = h
                        /\ m.prev[h] = t /\ m.prev[t] = h
    \/ \E t, u \in TwoTasks : /\ t # u /\ S = TwoTasks
                           /\ m.next[h] = t /\ m.next[t] = u /\ m.next[u] = h
                           /\ m.prev[h] = u /\ m.prev[u] = t /\ m.prev[t] = h

Memory ==
    [next : [TwoTasks \cup {RQ, WQ} -> TwoTasks \cup {RQ, WQ, NULL}],
     prev : [TwoTasks \cup {RQ, WQ} -> TwoTasks \cup {RQ, WQ, NULL}],
     len : Nat, state : [TwoTasks -> {"READY", "RUNNING", "BLOCKED"}],
     bad : {"no", "fault", "assert", "hang"}]

InState(m, s) == {t \in TwoTasks : m.state[t] = s}

\* The ready queue and the wait queue W of m, with task c on the CPU.
Kept(m, W, c) ==
    /\ m \in Memory /\ m.bad = "no"
    /\ Linked(m, RQ, InState(m, "READY")) /\ m.len = Cardinality(InState(m, "READY"))
    /\ Linked(m, WQ, W) /\ W \cap InState(m, "READY") = {}
    /\ InState(m, "RUNNING") = {c} \ {Idle} /\ c \in TwoTasks \cup {Idle}

\* Who is in the list of the mutex.
InMutex ==
    {t \in TwoTasks : mem.state[t] = "BLOCKED" /\ npc[t] = "lock" /\ \A u \in TwoTasks : wakes[u] # t}

HasMutex(t) == npc[t] \in LockedPlaces \cup {"unlock"}

NamedType ==
    /\ ends \in SUBSET TwoTasks /\ busy \in SUBSET TwoTasks /\ passed \in SUBSET TwoTasks
    /\ named = (ends # {})
    /\ len \in 0 .. FIFO_SIZE /\ rest \in [TwoTasks -> Nat]
    /\ npc \in [TwoTasks -> Places] /\ then \in [TwoTasks -> Places]
    /\ wakes \in [TwoTasks -> TwoTasks \cup {NULL}]

\* The places of a task and where it goes on.
PlacesKept ==
    /\ npc[rd] \notin {"sync", "synced", "write"} /\ npc[wr] \notin {"registered", "read", "take", "wake"}
    /\ \A t \in TwoTasks :
          /\ npc[t] \in {"lock", "synced", "blocked"} =>
                then[t] \in {"put", "grow", "set"} \cup (IF t = rd THEN {"read", "take"} ELSE {"write"})
          /\ npc[t] \in {"unlock", "wakeup"} => then[t] \in {"out", "up", "block"}
          /\ mem.state[t] = "BLOCKED" => npc[t] \in {"lock", "synced", "blocked"}

\* A call that has set its flag.
Calls(t) ==
    \/ npc[t] \in {"sync", "synced", "write", "block", "blocked", "read", "take", "wake"}
    \/ npc[t] = "lock" /\ then[t] \in {"read", "write", "take"}
    \/ npc[t] \in {"unlock", "wakeup"} /\ then[t] = "block"

MutexKept ==
    /\ locked = (\E t \in TwoTasks : HasMutex(t))
    /\ \A t, u \in TwoTasks : HasMutex(t) /\ HasMutex(u) => t = u
    /\ waiters = Cardinality(InMutex)
    /\ \A t \in TwoTasks :
          IF npc[t] = "wakeup"
          THEN wakes[t] \in TwoTasks /\ mem.state[wakes[t]] = "BLOCKED" /\ npc[wakes[t]] = "lock"
          ELSE wakes[t] = NULL

\* Asleep, or before task_block.
Sleeper(t) ==
    \/ npc[t] = "block" \/ (npc[t] \in {"unlock", "wakeup"} /\ then[t] = "block")
    \/ npc[t] = "blocked" /\ mem.state[t] = "BLOCKED"

Reasons ==
    /\ Sleeper(wr) /\ wr \notin passed => len = FIFO_SIZE \/ npc[rd] = "wake"
    /\ Sleeper(rd) /\ rd \notin passed => len = 0
    /\ (npc[wr] = "sync" \/ (npc[wr] = "synced" /\ mem.state[wr] = "BLOCKED")) /\ wr \notin passed
          => rd \notin ends \/ npc[rd] = "registered"

NamedKept ==
    /\ NamedType /\ Kept(mem, InMutex, cur) /\ PlacesKept /\ MutexKept
    /\ \A t \in TwoTasks : Calls(t) => t \in ends /\ t \in busy
    /\ Reasons

NamedInv == ~ torn => NamedKept

LEMMA NamedHeads ==
    /\ rd # wr /\ FIFO_SIZE \in Nat \ {0} /\ Requests \subseteq Nat \ {0}
    /\ RQ # WQ /\ RQ # NULL /\ WQ # NULL /\ Idle \notin {RQ, WQ, NULL}
    /\ RQ \notin TwoTasks /\ WQ \notin TwoTasks /\ NULL \notin TwoTasks /\ Idle \notin TwoTasks
    /\ F!Node = {rd, wr, RQ, WQ} /\ F!Node = TwoTasks \cup {RQ, WQ}
  <1>1. /\ rd # wr /\ FIFO_SIZE \in Nat \ {0} /\ Requests \subseteq Nat \ {0}
        /\ F!Cardinality({RQ, WQ, NULL, Idle}) = 4 /\ {RQ, WQ, NULL, Idle} \cap {rd, wr} = {}
    BY IpcAssumption DEF F!NamedPipeConstants
  <1>2. Cardinality({RQ, WQ, NULL, Idle}) = 4
    BY <1>1 DEF F!Cardinality, Cardinality
  <1>3. \A a, b, c : Cardinality({a, b, c}) # 4
    <2> TAKE a, b, c
    <2>1. IsFiniteSet({a}) /\ Cardinality({a}) = 1
      BY FS_Singleton
    <2>2. /\ IsFiniteSet({a} \cup {b})
          /\ Cardinality({a} \cup {b}) = (IF b \in {a} THEN 1 ELSE 2)
      BY <2>1, FS_AddElement
    <2>3. Cardinality(({a} \cup {b}) \cup {c}) \in {1, 2, 3}
      BY <2>2, FS_AddElement
    <2>4. ({a} \cup {b}) \cup {c} = {a, b, c}
      OBVIOUS
    <2> QED BY <2>3, <2>4
  <1>4. RQ # WQ /\ RQ # NULL /\ WQ # NULL /\ Idle # RQ /\ Idle # WQ /\ Idle # NULL
    <2>1. RQ = WQ => {RQ, WQ, NULL, Idle} = {RQ, NULL, Idle}
      OBVIOUS
    <2>2. RQ = NULL => {RQ, WQ, NULL, Idle} = {RQ, WQ, Idle}
      OBVIOUS
    <2>3. WQ = NULL => {RQ, WQ, NULL, Idle} = {RQ, WQ, Idle}
      OBVIOUS
    <2>4. Idle = RQ \/ Idle = WQ \/ Idle = NULL => {RQ, WQ, NULL, Idle} = {RQ, WQ, NULL}
      OBVIOUS
    <2> QED BY <1>2, <1>3, <2>1, <2>2, <2>3, <2>4
  <1> QED BY <1>1, <1>4 DEF TwoTasks, F!Node

LEMMA CountOfTwo ==
    /\ Cardinality({}) = 0 /\ \A t : Cardinality({t}) = 1
    /\ Cardinality(TwoTasks) = 2 /\ F!Cardinality(F!Node) = 4
  <1>1. IsFiniteSet({}) /\ Cardinality({}) = 0
    BY FS_EmptySet
  <1>2. \A t : IsFiniteSet({t}) /\ Cardinality({t}) = 1
    BY FS_Singleton
  <1>3. IsFiniteSet({rd} \cup {wr}) /\ Cardinality({rd} \cup {wr}) = 2
    <2>1. IsFiniteSet({rd}) /\ Cardinality({rd}) = 1 /\ wr \notin {rd}
      BY <1>2, NamedHeads
    <2> QED BY <2>1, FS_AddElement
  <1>4. /\ IsFiniteSet(({rd} \cup {wr}) \cup {RQ})
        /\ Cardinality(({rd} \cup {wr}) \cup {RQ}) = 3
    <2>1. RQ \notin {rd} \cup {wr}
      BY NamedHeads DEF TwoTasks
    <2> QED BY <1>3, <2>1, FS_AddElement
  <1>5. Cardinality((({rd} \cup {wr}) \cup {RQ}) \cup {WQ}) = 4
    <2>1. WQ \notin ({rd} \cup {wr}) \cup {RQ}
      BY NamedHeads DEF TwoTasks
    <2> QED BY <1>4, <2>1, FS_AddElement
  <1>6. TwoTasks = {rd} \cup {wr} /\ F!Node = (({rd} \cup {wr}) \cup {RQ}) \cup {WQ}
    BY NamedHeads DEF TwoTasks
  <1>7. Cardinality(F!Node) = 4
    BY <1>5, <1>6
  <1>8. F!Cardinality(F!Node) = Cardinality(F!Node)
    BY DEF F!Cardinality, Cardinality
  <1> QED BY <1>1, <1>2, <1>3, <1>6, <1>7, <1>8

\* list_find and the other walks, step by step.
LEMMA NamedWalk ==
    ASSUME NEW m, NEW h
    PROVE  LET W == F!Walk(m, h)
               on(x) == IF x \in {h, NULL} THEN x ELSE m.next[x]
           IN  /\ W[0] = m.next[h] /\ W[1] = on(W[0]) /\ W[2] = on(W[1])
               /\ W[3] = on(W[2]) /\ W[4] = on(W[3]) /\ DOMAIN W = 0 .. 4
  <1> DEFINE on(x) == IF x \in {h, NULL} THEN x ELSE m.next[x]
             W == F!Walk(m, h)
             IsWalk(f) == f = [k \in 0 .. 4 |-> IF k = 0 THEN m.next[h] ELSE on(f[k - 1])]
             a == m.next[h]
             g == [k \in 0 .. 4 |-> IF k = 0 THEN a
                                    ELSE IF k = 1 THEN on(a)
                                    ELSE IF k = 2 THEN on(on(a))
                                    ELSE IF k = 3 THEN on(on(on(a)))
                                    ELSE on(on(on(on(a))))]
  <1>1. W = CHOOSE f : IsWalk(f)
    BY CountOfTwo DEF F!Walk
  <1>2. IsWalk(g)
    <2> HIDE DEF on, a
    <2>1. \A k \in 0 .. 4 : g[k] = (IF k = 0 THEN a ELSE on(g[k - 1]))
      OBVIOUS
    <2>2. DOMAIN g = 0 .. 4 /\ g = [k \in 0 .. 4 |-> g[k]]
      OBVIOUS
    <2> HIDE DEF g
    <2>3. g = [k \in 0 .. 4 |-> IF k = 0 THEN a ELSE on(g[k - 1])]
      BY <2>1, <2>2
    <2> QED BY <2>3 DEF a
  <1>3. IsWalk(W)
    <2> HIDE DEF W, g, IsWalk
    <2> QED BY <1>1, <1>2
  <1> HIDE DEF W, g, on
  <1>4. \A k \in 0 .. 4 : W[k] = (IF k = 0 THEN m.next[h] ELSE on(W[k - 1]))
    BY <1>3
  <1>5. DOMAIN W = 0 .. 4
    BY <1>3
  <1> QED BY <1>4, <1>5 DEF W, on

LEMMA LinkedSet ==
    ASSUME NEW m, NEW h \in {RQ, WQ}, NEW S, Linked(m, h, S)
    PROVE  /\ S \subseteq TwoTasks /\ F!Ends(m, h) /\ F!Members(m, h) = S
           /\ \A n \in TwoTasks : F!list_find(m, n, h) <=> n \in S
           /\ \A x \in S \cup {h} : m.prev[m.next[x]] = x
           /\ IF S = {} THEN m.next[h] = h ELSE m.next[h] \in S
  <1> DEFINE W == F!Walk(m, h)
             on(x) == IF x \in {h, NULL} THEN x ELSE m.next[x]
  <1>1. /\ W[0] = m.next[h] /\ W[1] = on(W[0]) /\ W[2] = on(W[1])
        /\ W[3] = on(W[2]) /\ W[4] = on(W[3]) /\ DOMAIN W = 0 .. 4
    BY NamedWalk
  <1>2. /\ F!Ends(m, h) <=> W[4] = h
        /\ F!Members(m, h) = {W[k] : k \in 0 .. 4} \ {h, NULL}
        /\ \A n : F!list_find(m, n, h) <=> \E k \in 0 .. 4 : W[k] = n
    BY <1>1, CountOfTwo DEF F!Ends, F!Members, F!list_find
  <1> HIDE DEF W
  <1>3. {W[k] : k \in 0 .. 4} = {W[0], W[1], W[2], W[3], W[4]}
    <2>1. 0 .. 4 = {0, 1, 2, 3, 4}
      OBVIOUS
    <2> QED BY <2>1
  <1>4. \A n : (\E k \in 0 .. 4 : W[k] = n) <=> n \in {W[0], W[1], W[2], W[3], W[4]}
    BY <1>3
  <1>5. h \notin TwoTasks /\ NULL \notin TwoTasks /\ h # NULL
    BY NamedHeads
  <1>6. CASE S = {} /\ m.next[h] = h /\ m.prev[h] = h
    <2>1. W[0] = h /\ W[1] = h /\ W[2] = h /\ W[3] = h /\ W[4] = h
      BY <1>1, <1>6
    <2> QED BY <1>2, <1>3, <1>4, <1>5, <1>6, <2>1
  <1>7. CASE \E t \in TwoTasks : /\ S = {t} /\ m.next[h] = t /\ m.next[t] = h
                              /\ m.prev[h] = t /\ m.prev[t] = h
    <2>1. PICK t \in TwoTasks : /\ S = {t} /\ m.next[h] = t /\ m.next[t] = h
                             /\ m.prev[h] = t /\ m.prev[t] = h
      BY <1>7
    <2>2. W[0] = t /\ W[1] = h /\ W[2] = h /\ W[3] = h /\ W[4] = h
      BY <1>1, <1>5, <2>1
    <2> QED BY <1>2, <1>3, <1>4, <1>5, <2>1, <2>2
  <1>8. CASE \E t, u \in TwoTasks :
                /\ t # u /\ S = TwoTasks
                /\ m.next[h] = t /\ m.next[t] = u /\ m.next[u] = h
                /\ m.prev[h] = u /\ m.prev[u] = t /\ m.prev[t] = h
    <2>1. PICK t \in TwoTasks, u \in TwoTasks :
                /\ t # u /\ S = TwoTasks
                /\ m.next[h] = t /\ m.next[t] = u /\ m.next[u] = h
                /\ m.prev[h] = u /\ m.prev[u] = t /\ m.prev[t] = h
      BY <1>8
    <2>2. W[0] = t /\ W[1] = u /\ W[2] = h /\ W[3] = h /\ W[4] = h
      BY <1>1, <1>5, <2>1
    <2>3. TwoTasks = {t, u}
      BY <2>1 DEF TwoTasks
    <2> QED BY <1>2, <1>3, <1>4, <1>5, <2>1, <2>2, <2>3
  <1> QED BY <1>6, <1>7, <1>8 DEF Linked

\* list_add_tail to h; the other list stays.
LEMMA NamedAdded ==
    ASSUME NEW m \in Memory, NEW h \in {RQ, WQ}, NEW g \in {RQ, WQ}, g # h,
           NEW S, NEW R, Linked(m, h, S), Linked(m, g, R), S \cap R = {},
           NEW t \in TwoTasks, t \notin S \cup R
    PROVE  LET a == F!list_add_tail(m, t, h)
           IN  /\ a \in Memory /\ a.len = m.len /\ a.state = m.state /\ a.bad = m.bad
               /\ Linked(a, h, S \cup {t}) /\ Linked(a, g, R)
  <1> DEFINE a == F!list_add_tail(m, t, h)
             p == m.prev[h]
  <1>1. h \notin TwoTasks /\ g \notin TwoTasks /\ NULL \notin TwoTasks /\ h # NULL /\ g # NULL
        /\ rd # wr
    BY NamedHeads
  <1>2. S = {} \/ \E u \in TwoTasks : u # t /\ S = {u} /\ TwoTasks = {t, u}
    <2>1. S = TwoTasks \/ S = {} \/ \E u \in TwoTasks : S = {u}
      BY DEF Linked
    <2> QED BY <2>1 DEF TwoTasks
  <1>3. p \in TwoTasks \cup {h} /\ p \in S \cup {h}
    BY DEF Linked
  <1>4. a = [m EXCEPT !.prev = [@ EXCEPT ![h] = t, ![t] = p], !.next = [@ EXCEPT ![t] = h, ![p] = t]]
    BY <1>1, <1>3 DEF F!list_add_tail
  <1>5. /\ a.prev = [m.prev EXCEPT ![h] = t, ![t] = p]
        /\ a.next = [m.next EXCEPT ![t] = h, ![p] = t]
        /\ a.len = m.len /\ a.state = m.state /\ a.bad = m.bad /\ a \in Memory
    <2>1. p \in TwoTasks \cup {RQ, WQ}
      BY <1>3
    <2> HIDE DEF p, a
    <2> QED BY <1>4, <2>1 DEF Memory
  <1>6. /\ a.prev[h] = t /\ a.prev[t] = p /\ a.next[t] = h /\ a.next[p] = t
        /\ \A x \in TwoTasks \cup {RQ, WQ} : x \notin {h, t} => a.prev[x] = m.prev[x]
        /\ \A x \in TwoTasks \cup {RQ, WQ} : x \notin {p, t} => a.next[x] = m.next[x]
    <2>1. t # h /\ t # p
      BY <1>1, <1>3
    <2>2. /\ m.prev \in [TwoTasks \cup {RQ, WQ} -> TwoTasks \cup {RQ, WQ, NULL}]
          /\ m.next \in [TwoTasks \cup {RQ, WQ} -> TwoTasks \cup {RQ, WQ, NULL}]
      BY DEF Memory
    <2> HIDE DEF p, a
    <2> QED BY <1>3, <1>5, <2>1, <2>2
  <1> HIDE DEF a
  <1>7. Linked(a, h, S \cup {t})
    <2>1. CASE S = {}
      <3>1. p = h
        BY <1>3, <2>1
      <3> QED BY <1>6, <2>1, <3>1 DEF Linked
    <2>2. CASE \E u \in TwoTasks : u # t /\ S = {u} /\ TwoTasks = {t, u}
      <3>1. PICK u \in TwoTasks : u # t /\ S = {u} /\ TwoTasks = {t, u}
        BY <2>2
      <3>2. m.next[h] = u /\ m.next[u] = h /\ p = u /\ m.prev[u] = h
        BY <3>1 DEF Linked
      <3>3. a.next[h] = u /\ a.prev[u] = h
        BY <1>1, <1>6, <3>1, <3>2
      <3> QED BY <1>6, <3>1, <3>2, <3>3 DEF Linked
    <2> QED BY <1>2, <2>1, <2>2
  <1>8. Linked(a, g, R)
    <2>1. \A x \in R \cup {g} : a.next[x] = m.next[x] /\ a.prev[x] = m.prev[x]
      <3>1. R \subseteq TwoTasks
        BY DEF Linked
      <3>2. \A x \in R \cup {g} : x \notin {h, t, p}
        BY <1>1, <1>3, <3>1
      <3> QED BY <1>6, <3>1, <3>2
    <2> HIDE DEF p
    <2> QED BY <2>1 DEF Linked
  <1> QED BY <1>5, <1>7, <1>8 DEF a

\* Unlinking the head of h; the other list stays.
LEMMA NamedUnlinked ==
    ASSUME NEW m \in Memory, NEW h \in {RQ, WQ}, NEW g \in {RQ, WQ}, g # h,
           NEW S, NEW R, Linked(m, h, S), Linked(m, g, R), S \cap R = {}, S # {}
    PROVE  LET x == m.next[h]
               a == F!list_del_init(m, x)
           IN  /\ x \in S /\ x \in TwoTasks
               /\ a \in Memory /\ a.len = m.len /\ a.state = m.state /\ a.bad = m.bad
               /\ Linked(a, h, S \ {x}) /\ Linked(a, g, R)
  <1> DEFINE x == m.next[h]
             a == F!list_del_init(m, x)
             p == m.prev[x]
             n == m.next[x]
  <1>1. h \notin TwoTasks /\ g \notin TwoTasks /\ NULL \notin TwoTasks /\ h # NULL /\ g # NULL
        /\ rd # wr
    BY NamedHeads
  <1>2. x \in S /\ x \in TwoTasks /\ p = h /\ n \in (S \ {x}) \cup {h} /\ S \subseteq TwoTasks
    <2>1. CASE \E t \in TwoTasks : /\ S = {t} /\ m.next[h] = t /\ m.next[t] = h
                                /\ m.prev[h] = t /\ m.prev[t] = h
      BY <2>1
    <2>2. CASE \E t, u \in TwoTasks :
                  /\ t # u /\ S = TwoTasks
                  /\ m.next[h] = t /\ m.next[t] = u /\ m.next[u] = h
                  /\ m.prev[h] = u /\ m.prev[u] = t /\ m.prev[t] = h
      BY <2>2
    <2> QED BY <2>1, <2>2 DEF Linked
  <1> HIDE DEF x, p, n
  <1>3. a = [m EXCEPT !.prev = [@ EXCEPT ![n] = p, ![x] = x], !.next = [@ EXCEPT ![p] = n, ![x] = x]]
    BY <1>1, <1>2 DEF F!list_del_init, F!Unlink, p, n
  <1>4. /\ a.prev = [m.prev EXCEPT ![n] = p, ![x] = x]
        /\ a.next = [m.next EXCEPT ![p] = n, ![x] = x]
        /\ a.len = m.len /\ a.state = m.state /\ a.bad = m.bad /\ a \in Memory
    <2>1. n \in TwoTasks \cup {RQ, WQ} /\ p \in TwoTasks \cup {RQ, WQ}
      BY <1>2
    <2> HIDE DEF a
    <2> QED BY <1>2, <1>3, <2>1 DEF Memory
  <1>5. /\ a.prev[n] = h /\ a.next[h] = n
        /\ \A y \in TwoTasks \cup {RQ, WQ} : y \notin {n, x} => a.prev[y] = m.prev[y]
        /\ \A y \in TwoTasks \cup {RQ, WQ} : y \notin {h, x} => a.next[y] = m.next[y]
    <2>1. x # h /\ x # n
      BY <1>1, <1>2
    <2>2. /\ m.prev \in [TwoTasks \cup {RQ, WQ} -> TwoTasks \cup {RQ, WQ, NULL}]
          /\ m.next \in [TwoTasks \cup {RQ, WQ} -> TwoTasks \cup {RQ, WQ, NULL}]
      BY DEF Memory
    <2> HIDE DEF a
    <2> QED BY <1>2, <1>4, <2>1, <2>2
  <1> HIDE DEF a
  <1>6. Linked(a, h, S \ {x})
    <2>1. CASE S = {x}
      <3>1. n = h
        BY <1>2, <2>1
      <3> QED BY <1>5, <2>1, <3>1 DEF Linked
    <2>2. CASE S # {x}
      <3>1. PICK u \in TwoTasks : /\ u # x /\ S = TwoTasks /\ n = u /\ m.next[u] = h /\ m.prev[h] = u
        BY <1>2, <2>2 DEF Linked, x, n
      <3>2. a.next[u] = h /\ a.prev[h] = u
        BY <1>1, <1>2, <1>5, <3>1
      <3>3. S \ {x} = {u}
        BY <1>2, <3>1 DEF TwoTasks
      <3> QED BY <1>5, <3>1, <3>2, <3>3 DEF Linked
    <2> QED BY <2>1, <2>2
  <1>7. Linked(a, g, R)
    <2>1. \A y \in R \cup {g} : a.next[y] = m.next[y] /\ a.prev[y] = m.prev[y]
      <3>1. R \subseteq TwoTasks
        BY DEF Linked
      <3>2. \A y \in R \cup {g} : y \notin {h, x, n}
        BY <1>1, <1>2, <3>1
      <3> QED BY <1>5, <3>1, <3>2
    <2> QED BY <2>1 DEF Linked
  <1> QED BY <1>2, <1>4, <1>6, <1>7 DEF a, x

LEMMA KeptFacts ==
    ASSUME NEW m, NEW W, NEW c, Kept(m, W, c)
    PROVE  /\ W \subseteq TwoTasks /\ m.state \in [TwoTasks -> {"READY", "RUNNING", "BLOCKED"}]
           /\ F!Ends(m, RQ) /\ F!Ends(m, WQ) /\ F!Members(m, RQ) = InState(m, "READY")
           /\ F!Members(m, WQ) = W
           /\ \A t \in TwoTasks : F!list_find(m, t, RQ) <=> m.state[t] = "READY"
           /\ \A t \in TwoTasks : F!list_find(m, t, WQ) <=> t \in W
           /\ \A t \in TwoTasks : m.state[t] = "RUNNING" <=> t = c
           /\ \A x \in InState(m, "READY") \cup {RQ} : m.prev[m.next[x]] = x
           /\ \A x \in W \cup {WQ} : m.prev[m.next[x]] = x
           /\ m.len = 0 <=> InState(m, "READY") = {}
           /\ m.len = 0 => \A t \in TwoTasks : m.state[t] # "READY"
  <1>1. /\ m.state \in [TwoTasks -> {"READY", "RUNNING", "BLOCKED"}]
        /\ \A t \in TwoTasks : t \in InState(m, "READY") <=> m.state[t] = "READY"
        /\ \A t \in TwoTasks : m.state[t] = "RUNNING" <=> t \in {c} \ {Idle}
    BY DEF Kept, Memory, InState
  <1>2. InState(m, "READY") \subseteq TwoTasks /\ IsFiniteSet(InState(m, "READY"))
    <2>1. IsFiniteSet({rd} \cup {wr})
      BY FS_Singleton, FS_AddElement
    <2>2. TwoTasks = {rd} \cup {wr} /\ InState(m, "READY") \subseteq TwoTasks
      BY DEF TwoTasks, InState
    <2> QED BY <2>1, <2>2, FS_Subset
  <1>3. m.len = 0 <=> InState(m, "READY") = {}
    BY <1>2, FS_EmptySet DEF Kept
  <1>4. \A t \in TwoTasks : t # Idle
    BY NamedHeads
  <1>5. /\ Linked(m, RQ, InState(m, "READY")) /\ Linked(m, WQ, W)
    BY DEF Kept
  <1>6. /\ F!Ends(m, RQ) /\ F!Members(m, RQ) = InState(m, "READY")
        /\ \A t \in TwoTasks : F!list_find(m, t, RQ) <=> t \in InState(m, "READY")
        /\ \A x \in InState(m, "READY") \cup {RQ} : m.prev[m.next[x]] = x
    BY <1>5, LinkedSet
  <1>7. /\ F!Ends(m, WQ) /\ F!Members(m, WQ) = W /\ W \subseteq TwoTasks
        /\ \A t \in TwoTasks : F!list_find(m, t, WQ) <=> t \in W
        /\ \A x \in W \cup {WQ} : m.prev[m.next[x]] = x
    BY <1>5, LinkedSet
  <1> QED BY <1>1, <1>3, <1>4, <1>6, <1>7

\* The number of ready tasks before and after one of them comes or goes.
LEMMA ReadyCount ==
    ASSUME NEW S, NEW t, S \subseteq TwoTasks, t \in TwoTasks
    PROVE  /\ t \notin S => Cardinality(S \cup {t}) = Cardinality(S) + 1
           /\ t \in S => Cardinality(S \ {t}) = Cardinality(S) - 1
           /\ Cardinality(S) \in Nat
  <1>1. IsFiniteSet({rd} \cup {wr})
    BY FS_Singleton, FS_AddElement
  <1>2. TwoTasks = {rd} \cup {wr}
    BY DEF TwoTasks
  <1>3. IsFiniteSet(S)
    BY <1>1, <1>2, FS_Subset
  <1> QED BY <1>3, FS_AddElement, FS_RemoveElement, FS_CardinalityType

\* schedule, and with it task_block, the clock and the idle task.
LEMMA SwitchKept ==
    ASSUME NEW m, NEW W, Kept(m, W, Idle)
    PROVE  LET a == F!fetch_first(m)
               d == F!NextTask(m)
           IN  /\ Kept(a, W, d)
               /\ \A t \in TwoTasks : a.state[t] = IF t = d THEN "RUNNING" ELSE m.state[t]
               /\ \A t \in TwoTasks : a.state[t] = "BLOCKED" <=> m.state[t] = "BLOCKED"
  <1> DEFINE a == F!fetch_first(m)
             d == F!NextTask(m)
             R == InState(m, "READY")
  <1>1. /\ m \in Memory /\ m.bad = "no" /\ Linked(m, RQ, R) /\ m.len = Cardinality(R)
        /\ Linked(m, WQ, W) /\ W \cap R = {} /\ R \subseteq TwoTasks
        /\ m.state \in [TwoTasks -> {"READY", "RUNNING", "BLOCKED"}]
        /\ \A t \in TwoTasks : m.state[t] # "RUNNING"
        /\ m.len = 0 <=> R = {}
    BY KeptFacts, NamedHeads DEF Kept, InState
  <1>2. CASE R = {}
    <2>1. a = m /\ d = Idle
      BY <1>1, <1>2 DEF F!fetch_first, F!NextTask
    <2> QED BY <1>1, <2>1, NamedHeads
  <1>3. CASE R # {}
    <2> DEFINE l == F!list_del_init(m, d)
    <2>1. d = m.next[RQ] /\ m.len # 0
      BY <1>1, <1>3 DEF F!NextTask
    <2>2. /\ d \in R /\ d \in TwoTasks /\ l \in Memory /\ l.len = m.len /\ l.state = m.state
          /\ l.bad = m.bad /\ Linked(l, RQ, R \ {d}) /\ Linked(l, WQ, W)
      <3> HIDE DEF d, l, R
      <3>0. RQ # WQ /\ R \cap W = {} /\ RQ \in {RQ, WQ} /\ WQ \in {RQ, WQ}
        BY <1>1, NamedHeads
      <3>1. LET x == m.next[RQ]
                b == F!list_del_init(m, x)
            IN  /\ x \in R /\ x \in TwoTasks
                /\ b \in Memory /\ b.len = m.len /\ b.state = m.state /\ b.bad = m.bad
                /\ Linked(b, RQ, R \ {x}) /\ Linked(b, WQ, W)
        BY <1>1, <1>3, <3>0, NamedUnlinked
      <3> QED BY <2>1, <3>1 DEF l
    <2>3. a = [l EXCEPT !.len = @ - 1, !.state[d] = "RUNNING"]
      <3>1. d \in {rd, wr}
        BY <2>2 DEF TwoTasks
      <3> QED BY <2>1, <3>1 DEF F!fetch_first
    <2> HIDE DEF l, d, R, a
    <2>4. m.len \in Nat /\ m.len - 1 = Cardinality(R \ {d}) /\ Cardinality(R \ {d}) \in Nat
      <3>1. Cardinality(R \ {d}) = Cardinality(R) - 1 /\ Cardinality(R) \in Nat
        BY <1>1, <2>2, ReadyCount
      <3>2. R \ {d} \subseteq TwoTasks
        BY <1>1
      <3>3. Cardinality(R \ {d}) \in Nat
        BY <2>2, <3>2, ReadyCount
      <3> QED BY <1>1, <3>1, <3>3
    <2>5. /\ a \in Memory /\ a.bad = "no" /\ a.len = Cardinality(R \ {d})
          /\ a.state = [m.state EXCEPT ![d] = "RUNNING"]
          /\ a.next = l.next /\ a.prev = l.prev
      <3>1. /\ l.next \in [TwoTasks \cup {RQ, WQ} -> TwoTasks \cup {RQ, WQ, NULL}]
            /\ l.prev \in [TwoTasks \cup {RQ, WQ} -> TwoTasks \cup {RQ, WQ, NULL}]
            /\ m.state \in [TwoTasks -> {"READY", "RUNNING", "BLOCKED"}]
            /\ l = [next |-> l.next, prev |-> l.prev, len |-> m.len, state |-> m.state,
                    bad |-> m.bad]
        BY <2>2 DEF Memory
      <3>2. m.bad = "no"
        BY <1>1
      <3>3. a = [next |-> l.next, prev |-> l.prev, len |-> Cardinality(R \ {d}),
                 state |-> [m.state EXCEPT ![d] = "RUNNING"], bad |-> "no"]
        <4>1. PICK n, p, k, e : n = l.next /\ p = l.prev /\ k = m.len /\ e = m.state
          OBVIOUS
        <4>2. l = [next |-> n, prev |-> p, len |-> k, state |-> e, bad |-> "no"]
          BY <3>1, <3>2, <4>1
        <4>3. a = [next |-> n, prev |-> p, len |-> k - 1, state |-> [e EXCEPT ![d] = "RUNNING"],
                   bad |-> "no"]
          BY <2>3, <4>2
        <4> QED BY <2>4, <4>1, <4>3
      <3>4. [m.state EXCEPT ![d] = "RUNNING"] \in [TwoTasks -> {"READY", "RUNNING", "BLOCKED"}]
        BY <3>1
      <3> QED BY <2>4, <3>1, <3>3, <3>4 DEF Memory
    <2>6. \A t \in TwoTasks : a.state[t] = IF t = d THEN "RUNNING" ELSE m.state[t]
      BY <1>1, <2>2, <2>5
    <2>7. InState(a, "READY") = R \ {d} /\ InState(a, "RUNNING") = {d}
      BY <1>1, <2>2, <2>6 DEF InState, R
    <2>8. Linked(a, RQ, R \ {d}) /\ Linked(a, WQ, W)
      BY <2>2, <2>5 DEF Linked
    <2>9. Kept(a, W, d)
      BY <1>1, <2>2, <2>5, <2>7, <2>8, NamedHeads DEF Kept
    <2>10. m.state[d] = "READY"
      BY <2>2 DEF R, InState
    <2> QED BY <2>6, <2>9, <2>10 DEF a, d
  <1> QED BY <1>2, <1>3

\* add_ready of a task that is in neither list.
LEMMA ReadyKept ==
    ASSUME NEW m, NEW W, NEW c, NEW d, Kept(m, W, c), NEW t \in TwoTasks,
           t \notin W, m.state[t] # "READY", d = IF t = c THEN Idle ELSE c
    PROVE  LET a == F!add_ready(m, t)
           IN  Kept(a, W, d) /\ a.state = [m.state EXCEPT ![t] = "READY"]
  <1> DEFINE a == F!add_ready(m, t)
             l == F!list_add_tail(m, t, RQ)
             R == InState(m, "READY")
  <1>1. /\ m \in Memory /\ m.bad = "no" /\ Linked(m, RQ, R) /\ m.len = Cardinality(R)
        /\ Linked(m, WQ, W) /\ W \cap R = {} /\ R \subseteq TwoTasks /\ t \notin R
        /\ m.state \in [TwoTasks -> {"READY", "RUNNING", "BLOCKED"}]
        /\ \A u \in TwoTasks : m.state[u] = "RUNNING" <=> u = c
        /\ c \in TwoTasks \cup {Idle}
    BY KeptFacts DEF Kept, InState
  <1>2. /\ l \in Memory /\ l.len = m.len /\ l.state = m.state /\ l.bad = m.bad
        /\ Linked(l, RQ, R \cup {t}) /\ Linked(l, WQ, W)
    <2>1. RQ # WQ /\ t \notin R \cup W /\ R \cap W = {}
      BY <1>1, NamedHeads
    <2> HIDE DEF R, l
    <2>2. LET b == F!list_add_tail(m, t, RQ)
          IN  /\ b \in Memory /\ b.len = m.len /\ b.state = m.state /\ b.bad = m.bad
              /\ Linked(b, RQ, R \cup {t}) /\ Linked(b, WQ, W)
      BY <1>1, <2>1, NamedAdded
    <2> QED BY <2>2 DEF l
  <1>3. a = [l EXCEPT !.state[t] = "READY", !.len = @ + 1]
    BY DEF F!add_ready
  <1>4. /\ Cardinality(R \cup {t}) = m.len + 1 /\ m.len \in Nat
    BY <1>1, ReadyCount
  <1> HIDE DEF l, a, R
  <1>5. /\ a \in Memory /\ a.bad = "no" /\ a.len = Cardinality(R \cup {t})
        /\ a.state = [m.state EXCEPT ![t] = "READY"]
        /\ a.next = l.next /\ a.prev = l.prev
    <2>1. l.state \in [TwoTasks -> {"READY", "RUNNING", "BLOCKED"}]
          /\ [l.state EXCEPT ![t] = "READY"] \in [TwoTasks -> {"READY", "RUNNING", "BLOCKED"}]
      BY <1>1, <1>2
    <2>2. l.len + 1 \in Nat
      BY <1>2, <1>4
    <2>3. DOMAIN l = {"next", "prev", "len", "state", "bad"}
      BY <1>2 DEF Memory
    <2>4. /\ a.bad = l.bad /\ a.len = l.len + 1 /\ a.state = [l.state EXCEPT ![t] = "READY"]
          /\ a.next = l.next /\ a.prev = l.prev
      BY <1>3, <2>3
    <2>5. a = [next |-> l.next, prev |-> l.prev, len |-> l.len + 1,
               state |-> [l.state EXCEPT ![t] = "READY"], bad |-> l.bad]
      BY <1>2, <1>3 DEF Memory
    <2>6. a \in Memory
      BY <1>2, <2>1, <2>2, <2>5 DEF Memory
    <2> QED BY <1>1, <1>2, <1>4, <2>4, <2>6
  <1>6. \A u \in TwoTasks : a.state[u] = IF u = t THEN "READY" ELSE m.state[u]
    BY <1>1, <1>5
  <1>7. InState(a, "READY") = R \cup {t} /\ InState(a, "RUNNING") = {d} \ {Idle}
    BY <1>1, <1>6, NamedHeads DEF InState, R
  <1>8. Linked(a, RQ, R \cup {t}) /\ Linked(a, WQ, W)
    BY <1>2, <1>5 DEF Linked
  <1>9. Kept(a, W, d)
    BY <1>1, <1>5, <1>7, <1>8 DEF Kept
  <1> QED BY <1>5, <1>9 DEF a

\* A running task that blocks, outside the list of the mutex
LEMMA SleepKept ==
    ASSUME NEW m, NEW W, NEW c \in TwoTasks, Kept(m, W, c)
    PROVE  LET a == [m EXCEPT !.state[c] = "BLOCKED"]
           IN  Kept(a, W, Idle) /\ a.state = [m.state EXCEPT ![c] = "BLOCKED"]
  <1> DEFINE a == [m EXCEPT !.state[c] = "BLOCKED"]
  <1>1. /\ m \in Memory /\ m.bad = "no"
        /\ m.state \in [TwoTasks -> {"READY", "RUNNING", "BLOCKED"}]
        /\ \A u \in TwoTasks : m.state[u] = "RUNNING" <=> u = c
    BY KeptFacts DEF Kept
  <1>2. /\ a \in Memory /\ a.bad = "no" /\ a.len = m.len /\ a.next = m.next /\ a.prev = m.prev
        /\ a.state = [m.state EXCEPT ![c] = "BLOCKED"]
    BY <1>1 DEF Memory
  <1> HIDE DEF a
  <1>3. \A u \in TwoTasks : a.state[u] = IF u = c THEN "BLOCKED" ELSE m.state[u]
    BY <1>1, <1>2
  <1>4. /\ InState(a, "READY") = InState(m, "READY") /\ InState(a, "RUNNING") = {}
    BY <1>1, <1>3 DEF InState
  <1>5. Linked(a, RQ, InState(m, "READY")) /\ Linked(a, WQ, W)
    BY <1>2 DEF Linked, Kept
  <1> QED BY <1>2, <1>4, <1>5 DEF Kept, a

\* and in it.
LEMMA WaitKept ==
    ASSUME NEW m, NEW W, NEW c \in TwoTasks, Kept(m, W, c), c \notin W
    PROVE  LET a == [F!list_add_tail(m, c, WQ) EXCEPT !.state[c] = "BLOCKED"]
           IN  Kept(a, W \cup {c}, Idle) /\ a.state = [m.state EXCEPT ![c] = "BLOCKED"]
  <1> DEFINE l == F!list_add_tail(m, c, WQ)
             R == InState(m, "READY")
  <1>1. /\ m \in Memory /\ m.bad = "no" /\ Linked(m, RQ, R) /\ m.len = Cardinality(R)
        /\ Linked(m, WQ, W) /\ W \cap R = {} /\ c \notin R
        /\ InState(m, "RUNNING") = {c} \ {Idle}
    BY KeptFacts DEF Kept, InState
  <1>2. /\ l \in Memory /\ l.len = m.len /\ l.state = m.state /\ l.bad = m.bad
        /\ Linked(l, WQ, W \cup {c}) /\ Linked(l, RQ, R)
    <2>1. RQ # WQ /\ c \notin W \cup R
      BY <1>1, NamedHeads
    <2> HIDE DEF R, l
    <2>2. LET b == F!list_add_tail(m, c, WQ)
          IN  /\ b \in Memory /\ b.len = m.len /\ b.state = m.state /\ b.bad = m.bad
              /\ Linked(b, WQ, W \cup {c}) /\ Linked(b, RQ, R)
      BY <1>1, <2>1, NamedAdded
    <2> QED BY <2>2 DEF l
  <1> HIDE DEF l
  <1>3. Kept(l, W \cup {c}, c)
    <2>1. InState(l, "READY") = R /\ InState(l, "RUNNING") = {c} \ {Idle}
      BY <1>1, <1>2 DEF InState
    <2>2. (W \cup {c}) \cap R = {}
      BY <1>1
    <2> QED BY <1>1, <1>2, <2>1, <2>2 DEF Kept
  <1>4. LET a == [l EXCEPT !.state[c] = "BLOCKED"]
        IN  Kept(a, W \cup {c}, Idle) /\ a.state = [l.state EXCEPT ![c] = "BLOCKED"]
    BY <1>3, SleepKept
  <1> QED BY <1>2, <1>4 DEF l

\* The first of the list of the mutex is taken off.
LEMMA TakeKept ==
    ASSUME NEW m, NEW W, NEW c, Kept(m, W, c), W # {}
    PROVE  LET x == m.next[WQ]
               a == F!list_del_init(m, x)
           IN  x \in W /\ x \in TwoTasks /\ Kept(a, W \ {x}, c) /\ a.state = m.state
  <1> DEFINE x == m.next[WQ]
             a == F!list_del_init(m, x)
             R == InState(m, "READY")
  <1>1. /\ m \in Memory /\ m.bad = "no" /\ Linked(m, RQ, R) /\ m.len = Cardinality(R)
        /\ Linked(m, WQ, W) /\ W \cap R = {} /\ R \cap W = {}
        /\ InState(m, "RUNNING") = {c} \ {Idle} /\ c \in TwoTasks \cup {Idle} /\ RQ # WQ
    BY NamedHeads DEF Kept
  <1> HIDE DEF R
  <1>2. /\ x \in W /\ x \in TwoTasks
        /\ a \in Memory /\ a.len = m.len /\ a.state = m.state /\ a.bad = m.bad
        /\ Linked(a, WQ, W \ {x}) /\ Linked(a, RQ, R)
    BY <1>1, NamedUnlinked
  <1> HIDE DEF x, a
  <1>3. InState(a, "READY") = R /\ InState(a, "RUNNING") = {c} \ {Idle}
    BY <1>1, <1>2 DEF InState, R
  <1> QED BY <1>1, <1>2, <1>3 DEF Kept, a, x

\* task_wakeup of a task that is not in the list of the mutex.
LEMMA WakeKept ==
    ASSUME NEW m, NEW W, NEW c, Kept(m, W, c), NEW t \in TwoTasks, t \notin W
    PROVE  LET a == F!task_wakeup(m, t)
           IN  /\ Kept(a, W, c)
               /\ \A u \in TwoTasks : a.state[u] = IF u = t /\ m.state[t] = "BLOCKED" THEN "READY"
                                                ELSE m.state[u]
  <1> DEFINE a == F!task_wakeup(m, t)
  <1>1. CASE m.state[t] # "BLOCKED"
    BY <1>1 DEF F!task_wakeup
  <1>2. CASE m.state[t] = "BLOCKED"
    <2>1. a = F!add_ready(m, t)
      BY <1>2, KeptFacts DEF F!task_wakeup
    <2>2. t # c /\ m.state[t] # "READY"
      BY <1>2, KeptFacts
    <2>3. LET b == F!add_ready(m, t)
          IN  Kept(b, W, c) /\ b.state = [m.state EXCEPT ![t] = "READY"]
      BY <2>2, ReadyKept
    <2> QED BY <1>2, <2>1, <2>3, KeptFacts
  <1> QED BY <1>1, <1>2

LEMMA NamedInit == F!Init => NamedInv
  <1> SUFFICES ASSUME F!Init PROVE NamedKept
    BY DEF NamedInv
  <1> DEFINE n == F!Cardinality({rd, wr})
             IsOrder(f) == /\ f[1] = wr
                           /\ \A i, j \in DOMAIN f : f[i] = f[j] => i = j
             order == CHOOSE f \in [1 .. n -> {rd, wr}] : IsOrder(f)
             at(i) == IF i \in 1 .. n THEN order[i] ELSE RQ
             pos(t) == CHOOSE i \in 1 .. n : order[i] = t
  <1>1. /\ mem = F!BootMemory(wr) /\ cur = Idle /\ named = FALSE /\ ends = {} /\ busy = {}
        /\ len = 0 /\ rest = [t \in TwoTasks |-> 0] /\ locked = FALSE /\ waiters = 0
        /\ npc = [t \in TwoTasks |-> "out"] /\ then = [t \in TwoTasks |-> "out"]
        /\ wakes = [t \in TwoTasks |-> NULL] /\ passed = {}
    BY DEF F!Init, TwoTasks
  <1>2. n = 2
    BY CountOfTwo DEF TwoTasks, F!Cardinality, Cardinality
  <1>5. mem = [next  |-> [x \in F!Node |-> CASE x = WQ -> WQ
                                     [] x = RQ -> at(1)
                                     [] OTHER -> at(pos(x) + 1)],
               prev  |-> [x \in F!Node |-> CASE x = WQ -> WQ
                                     [] x = RQ -> at(n)
                                     [] OTHER -> at(pos(x) - 1)],
               len   |-> n, state |-> [t \in {rd, wr} |-> "READY"], bad |-> "no"]
    BY <1>1 DEF F!BootMemory
  <1> HIDE DEF n
  <1>3. order \in [1 .. 2 -> {rd, wr}] /\ order[1] = wr /\ order[2] = rd
    <2> DEFINE g == [i \in 1 .. 2 |-> IF i = 1 THEN wr ELSE rd]
    <2>1. g \in [1 .. 2 -> {rd, wr}] /\ IsOrder(g)
      BY NamedHeads
    <2>2. order \in [1 .. 2 -> {rd, wr}] /\ IsOrder(order)
      <3> HIDE DEF IsOrder, g
      <3> QED BY <1>2, <2>1
    <2>3. DOMAIN order = 1 .. 2 /\ order[1] = wr /\ (order[1] = order[2] => 1 = 2)
      BY <2>2
    <2> HIDE DEF order
    <2>4. order[2] \in {rd, wr}
      BY <2>2
    <2> QED BY <2>2, <2>3, <2>4
  <1>4. F!Node = {rd, wr, RQ, WQ} /\ rd # wr /\ RQ \notin {rd, wr} /\ WQ \notin {rd, wr} /\ RQ # WQ
    BY NamedHeads DEF TwoTasks
  <1> HIDE DEF order
  <1>6. pos(wr) = 1 /\ pos(rd) = 2
    <2>1. \A i \in 1 .. 2 : (order[i] = wr <=> i = 1) /\ (order[i] = rd <=> i = 2)
      BY <1>3, <1>4
    <2>2. n = 2 /\ (\E i \in 1 .. 2 : order[i] = wr) /\ (\E i \in 1 .. 2 : order[i] = rd)
      BY <1>2, <1>3
    <2>3. pos(wr) \in 1 .. 2 /\ order[pos(wr)] = wr
      BY <2>2
    <2>4. pos(rd) \in 1 .. 2 /\ order[pos(rd)] = rd
      BY <2>2
    <2> HIDE DEF pos
    <2> QED BY <2>1, <2>3, <2>4
  <1>7. at(1) = wr /\ at(2) = rd /\ at(pos(wr) + 1) = rd /\ at(pos(rd) + 1) = RQ
        /\ at(pos(wr) - 1) = RQ /\ at(pos(rd) - 1) = wr
    <2> HIDE DEF pos
    <2> QED BY <1>2, <1>3, <1>6
  <1> HIDE DEF at, pos
  <1>8. /\ mem.next = [x \in F!Node |-> CASE x = WQ -> WQ
                                     [] x = RQ -> at(1)
                                     [] OTHER -> at(pos(x) + 1)]
        /\ mem.prev = [x \in F!Node |-> CASE x = WQ -> WQ
                                     [] x = RQ -> at(n)
                                     [] OTHER -> at(pos(x) - 1)]
        /\ mem.len = 2 /\ mem.state = [t \in {rd, wr} |-> "READY"] /\ mem.bad = "no"
    BY <1>2, <1>5
  <1>9. /\ mem.next[WQ] = WQ /\ mem.next[RQ] = wr /\ mem.next[wr] = rd /\ mem.next[rd] = RQ
        /\ mem.prev[WQ] = WQ /\ mem.prev[RQ] = rd /\ mem.prev[wr] = RQ /\ mem.prev[rd] = wr
    BY <1>2, <1>4, <1>7, <1>8
  <1>10. mem \in Memory
    <2>1. F!Node = TwoTasks \cup {RQ, WQ} /\ TwoTasks = {rd, wr}
      BY <1>4 DEF TwoTasks
    <2>2. mem.next \in [TwoTasks \cup {RQ, WQ} -> TwoTasks \cup {RQ, WQ, NULL}]
      <3>1. /\ mem.next = [x \in F!Node |-> mem.next[x]]
            /\ \A x \in F!Node : mem.next[x] \in TwoTasks \cup {RQ, WQ, NULL}
        BY <1>4, <1>8, <1>9, <2>1
      <3> QED BY <2>1, <3>1
    <2>3. mem.prev \in [TwoTasks \cup {RQ, WQ} -> TwoTasks \cup {RQ, WQ, NULL}]
      <3>1. /\ mem.prev = [x \in F!Node |-> mem.prev[x]]
            /\ \A x \in F!Node : mem.prev[x] \in TwoTasks \cup {RQ, WQ, NULL}
        BY <1>4, <1>8, <1>9, <2>1
      <3> QED BY <2>1, <3>1
    <2>4. mem.state \in [TwoTasks -> {"READY", "RUNNING", "BLOCKED"}]
      BY <1>8, <2>1
    <2>5. mem = [next |-> mem.next, prev |-> mem.prev, len |-> mem.len, state |-> mem.state,
                 bad |-> mem.bad]
      BY <1>5
    <2>6. mem.len \in Nat /\ mem.bad \in {"no", "fault", "assert", "hang"}
      BY <1>8
    <2> QED BY <2>2, <2>3, <2>4, <2>5, <2>6 DEF Memory
  <1>11. InState(mem, "READY") = TwoTasks /\ InState(mem, "RUNNING") = {} /\ InMutex = {}
    BY <1>8 DEF InState, InMutex, TwoTasks
  <1>12. Linked(mem, RQ, TwoTasks) /\ Linked(mem, WQ, {})
    BY <1>4, <1>9 DEF Linked, TwoTasks
  <1>13. Kept(mem, InMutex, cur)
    BY <1>1, <1>8, <1>10, <1>11, <1>12, CountOfTwo DEF Kept
  <1>14. NamedType
    <2>1. npc \in [TwoTasks -> Places] /\ then \in [TwoTasks -> Places]
      BY <1>1 DEF Places
    <2>2. rest \in [TwoTasks -> Nat] /\ wakes \in [TwoTasks -> TwoTasks \cup {NULL}] /\ len \in 0 .. FIFO_SIZE
      BY <1>1, NamedHeads
    <2>3. named = (ends # {})
      BY <1>1
    <2> QED BY <1>1, <2>1, <2>2, <2>3 DEF NamedType
  <1>15. PlacesKept /\ \A t \in TwoTasks : ~ Calls(t) /\ ~ HasMutex(t)
    BY <1>1, <1>8 DEF PlacesKept, Calls, HasMutex, LockedPlaces, TwoTasks
  <1>16. MutexKept
    BY <1>1, <1>11, <1>15, CountOfTwo DEF MutexKept
  <1>17. Reasons
    BY <1>1 DEF Reasons, Sleeper, TwoTasks
  <1> QED BY <1>13, <1>14, <1>15, <1>16, <1>17 DEF NamedKept

\* A task that runs is in no list, and a step that leaves the memory and the
\* tasks to be woken alone leaves the lists alone.
LEMMA RunsFree ==
    ASSUME NamedKept, NEW t \in TwoTasks, cur = t
    PROVE  /\ mem.state[t] = "RUNNING" /\ t \notin InMutex
           /\ \A u \in TwoTasks : u # t => mem.state[u] # "RUNNING"
           /\ \A u \in TwoTasks : mem.state[u] \in {"READY", "RUNNING", "BLOCKED"}
           /\ \A u, v \in TwoTasks : wakes[u] = v => npc[u] = "wakeup" /\ mem.state[v] = "BLOCKED"
  <1>1. Kept(mem, InMutex, cur)
    BY DEF NamedKept
  <1>2. /\ \A u \in TwoTasks : mem.state[u] = "RUNNING" <=> u = cur
        /\ mem.state \in [TwoTasks -> {"READY", "RUNNING", "BLOCKED"}]
    BY <1>1, KeptFacts
  <1>3. \A u, v \in TwoTasks : wakes[u] = v => npc[u] = "wakeup" /\ mem.state[v] = "BLOCKED"
    <2>1. \A u \in TwoTasks :
             IF npc[u] = "wakeup"
             THEN wakes[u] \in TwoTasks /\ mem.state[wakes[u]] = "BLOCKED" /\ npc[wakes[u]] = "lock"
             ELSE wakes[u] = NULL
      BY DEF NamedKept, MutexKept
    <2> QED BY <2>1, NamedHeads
  <1> QED BY <1>2, <1>3 DEF InMutex

LEMMA QuietNamed ==
    ASSUME NamedKept, NEW t \in TwoTasks, cur = t, NEW p,
           npc' = [npc EXCEPT ![t] = p], UNCHANGED <<mem, cur, wakes>>
    PROVE  InMutex' = InMutex /\ Kept(mem', InMutex', cur')
  <1>1. mem.state[t] = "RUNNING" /\ npc \in [TwoTasks -> Places]
    BY RunsFree DEF NamedKept, NamedType
  <1>2. \A u \in TwoTasks : u # t => npc'[u] = npc[u]
    BY <1>1
  <1>3. \A u \in TwoTasks : u \in InMutex' <=> u \in InMutex
    BY <1>1, <1>2 DEF InMutex
  <1>4. InMutex' = InMutex
    BY <1>3 DEF InMutex
  <1>5. Kept(mem, InMutex, cur)
    BY DEF NamedKept
  <1> QED BY <1>4, <1>5

\* A step of a running task t to p, that does not leave or enter the mutex
\* and does not touch whom it wakes.
LEMMA QuietMutex ==
    ASSUME NamedKept, NEW t \in TwoTasks, cur = t, NEW p, npc' = [npc EXCEPT ![t] = p],
           UNCHANGED <<mem, cur, wakes, locked, waiters>>,
           npc[t] # "wakeup", p # "wakeup",
           npc[t] \in LockedPlaces \cup {"unlock"} <=> p \in LockedPlaces \cup {"unlock"}
    PROVE  MutexKept'
  <1>1. npc \in [TwoTasks -> Places] /\ MutexKept /\ wakes \in [TwoTasks -> TwoTasks \cup {NULL}]
    BY DEF NamedKept, NamedType
  <1>2. \A u \in TwoTasks : npc'[u] = IF u = t THEN p ELSE npc[u]
    BY <1>1
  <1>3. \A u \in TwoTasks : HasMutex(u)' <=> HasMutex(u)
    BY <1>2 DEF HasMutex
  <1>4. InMutex' = InMutex
    BY QuietNamed
  <1>5. mem.state[t] = "RUNNING"
    BY RunsFree
  <1>6. \A u \in TwoTasks :
           IF npc'[u] = "wakeup"
           THEN wakes'[u] \in TwoTasks /\ mem'.state[wakes'[u]] = "BLOCKED" /\ npc'[wakes'[u]] = "lock"
           ELSE wakes'[u] = NULL
    BY <1>1, <1>2, <1>5 DEF MutexKept
  <1> QED BY <1>1, <1>3, <1>4, <1>6 DEF MutexKept

LEMMA OpenNamed ==
    ASSUME NamedKept, NEW t \in TwoTasks, NEW flag \in BOOLEAN, F!fifo_get(t, flag)
    PROVE  NamedKept'
  <1>1. /\ cur = t /\ npc[t] = "out" /\ (named => t \in ends \/ t = wr)
        /\ named' = TRUE /\ ends' = ends \cup {t} /\ len' = IF named THEN len ELSE 0
        /\ UNCHANGED <<mem, cur, busy, rest, npc, then, passed, locked, waiters, wakes>>
    BY DEF F!fifo_get, F!At, F!mutex
  <1>2. NamedType /\ PlacesKept /\ MutexKept /\ Reasons /\ Kept(mem, InMutex, cur)
        /\ \A u \in TwoTasks : Calls(u) => u \in ends /\ u \in busy
    BY DEF NamedKept
  <1>3. NamedType'
    <2>1. ends' # {} /\ ends' \in SUBSET TwoTasks /\ len' \in 0 .. FIFO_SIZE
      BY <1>1, <1>2, NamedHeads DEF NamedType
    <2>2. named' = (ends' # {})
      BY <1>1, <2>1
    <2> QED BY <1>1, <1>2, <2>1, <2>2 DEF NamedType
  <1>4. \A u \in TwoTasks : Calls(u)' => u \in ends' /\ u \in busy'
    BY <1>1, <1>2 DEF Calls
  <1>5. PlacesKept' /\ MutexKept' /\ Kept(mem', InMutex', cur')
    BY <1>1, <1>2 DEF PlacesKept, MutexKept, InMutex, HasMutex
  <1>6. Reasons'
    <2>1. \A u \in TwoTasks : Sleeper(u) => Calls(u)
      BY DEF Sleeper, Calls
    <2>2. named = (ends # {}) /\ (~ named => ends = {})
      BY <1>2 DEF NamedType
    <2>3. ~ named => ~ Calls(rd) /\ ~ Calls(wr)
      BY <1>2, <2>2 DEF TwoTasks
    <2>4. npc[wr] \in {"sync", "synced"} => Calls(wr)
      BY DEF Calls
    <2>5. \A u \in TwoTasks : Sleeper(u)' <=> Sleeper(u)
      BY <1>1 DEF Sleeper
    <2> QED BY <1>1, <1>2, <2>1, <2>2, <2>3, <2>4, <2>5 DEF Reasons, TwoTasks
  <1> QED BY <1>3, <1>4, <1>5, <1>6 DEF NamedKept

LEMMA GetReaderNamed == ASSUME NamedKept, F!GetReader PROVE NamedKept'
  <1>1. /\ cur = rd /\ npc[rd] = "out" /\ ends' = ends \cup {rd} /\ named
        /\ npc' = [npc EXCEPT ![rd] = "registered"]
        /\ UNCHANGED <<mem, cur, named, busy, len, rest, then, passed, locked, waiters, wakes>>
    BY DEF F!GetReader, F!At, F!Go, F!mutex
  <1>2. NamedType /\ PlacesKept /\ MutexKept /\ Reasons /\ rd \in TwoTasks /\ wr \in TwoTasks /\ rd # wr
        /\ \A u \in TwoTasks : Calls(u) => u \in ends /\ u \in busy
    BY NamedHeads DEF NamedKept, TwoTasks
  <1>3. npc'[rd] = "registered" /\ npc'[wr] = npc[wr]
    BY <1>1, <1>2 DEF NamedType
  <1>4. InMutex' = InMutex /\ Kept(mem', InMutex', cur')
    BY <1>1, <1>2, QuietNamed
  <1>5. MutexKept'
    BY <1>1, <1>2, QuietMutex DEF LockedPlaces
  <1>6. NamedType'
    <2>1. ends' # {} /\ ends' \in SUBSET TwoTasks /\ named = (ends # {})
      BY <1>1, <1>2 DEF NamedType
    <2>2. named' = (ends' # {})
      BY <1>1, <2>1
    <2>3. npc' \in [TwoTasks -> Places]
      BY <1>1, <1>2 DEF NamedType, Places
    <2> QED BY <1>1, <1>2, <2>1, <2>2, <2>3 DEF NamedType
  <1>7. PlacesKept'
    BY <1>1, <1>2, <1>3, RunsFree DEF PlacesKept, TwoTasks
  <1>8. \A u \in TwoTasks : Calls(u)' => u \in ends' /\ u \in busy'
    BY <1>1, <1>2, <1>3 DEF Calls, TwoTasks
  <1>9. Reasons'
    BY <1>1, <1>2, <1>3 DEF Reasons, Sleeper
  <1> QED BY <1>4, <1>5, <1>6, <1>7, <1>8, <1>9 DEF NamedKept

\* The places a task may be at, and where it goes on.
PlaceKept(t, p, q) ==
    /\ p \in Places /\ q \in Places
    /\ p \in {"sync", "synced", "write"} => t = wr
    /\ p \in {"registered", "read", "take", "wake"} => t = rd
    /\ p \in {"lock", "synced", "blocked"} =>
          q \in {"put", "grow", "set"} \cup (IF t = rd THEN {"read", "take"} ELSE {"write"})
    /\ p \in {"unlock", "wakeup"} => q \in {"out", "up", "block"}

LEMMA PlacesMean ==
    /\ NamedKept => \A t \in TwoTasks : PlaceKept(t, npc[t], then[t])
    /\ NamedKept => \A t \in TwoTasks : mem.state[t] = "BLOCKED" => npc[t] \in {"lock", "synced", "blocked"}
    /\ (\A t \in TwoTasks :
          /\ PlaceKept(t, npc'[t], then'[t])
          /\ mem'.state[t] = "BLOCKED" => npc'[t] \in {"lock", "synced", "blocked"}) => PlacesKept'
  <1>1. rd # wr /\ rd \in TwoTasks /\ wr \in TwoTasks
    BY NamedHeads DEF TwoTasks
  <1>2. NamedKept => \A t \in TwoTasks : PlaceKept(t, npc[t], then[t])
    BY <1>1 DEF NamedKept, NamedType, PlacesKept, PlaceKept, TwoTasks
  <1>3. NamedKept => \A t \in TwoTasks : mem.state[t] = "BLOCKED" => npc[t] \in {"lock", "synced", "blocked"}
    BY DEF NamedKept, PlacesKept
  <1>4. ASSUME \A t \in TwoTasks :
                  /\ PlaceKept(t, npc'[t], then'[t])
                  /\ mem'.state[t] = "BLOCKED" => npc'[t] \in {"lock", "synced", "blocked"}
        PROVE  PlacesKept'
    <2>1. /\ npc'[rd] \notin {"sync", "synced", "write"}
          /\ npc'[wr] \notin {"registered", "read", "take", "wake"}
      BY <1>1, <1>4 DEF PlaceKept
    <2>2. ASSUME NEW t \in TwoTasks
          PROVE  /\ npc'[t] \in {"lock", "synced", "blocked"} =>
                       then'[t] \in {"put", "grow", "set"}
                                      \cup (IF t = rd THEN {"read", "take"} ELSE {"write"})
                 /\ npc'[t] \in {"unlock", "wakeup"} => then'[t] \in {"out", "up", "block"}
                 /\ mem'.state[t] = "BLOCKED" => npc'[t] \in {"lock", "synced", "blocked"}
      BY <1>4 DEF PlaceKept
    <2> QED BY <2>1, <2>2 DEF PlacesKept
  <1> QED BY <1>2, <1>3, <1>4

\* What a step of a running task does, but for the reasons of the sleepers, when
\* it leaves the memory and the mutex alone.
LEMMA NamedQuietStep ==
    ASSUME NamedKept, NEW t \in TwoTasks, cur = t, NEW p, NEW q, PlaceKept(t, p, q),
           npc' = [npc EXCEPT ![t] = p], then' = [then EXCEPT ![t] = q],
           UNCHANGED <<mem, cur, wakes, locked, waiters>>,
           npc[t] # "wakeup", p # "wakeup",
           npc[t] \in LockedPlaces \cup {"unlock"} <=> p \in LockedPlaces \cup {"unlock"}
    PROVE  /\ Kept(mem', InMutex', cur') /\ MutexKept' /\ PlacesKept'
           /\ npc' \in [TwoTasks -> Places] /\ then' \in [TwoTasks -> Places]
           /\ wakes' \in [TwoTasks -> TwoTasks \cup {NULL}]
           /\ npc'[t] = p /\ then'[t] = q
           /\ \A u \in TwoTasks : u # t => npc'[u] = npc[u] /\ then'[u] = then[u]
           /\ mem'.state[t] = "RUNNING"
  <1>1. npc \in [TwoTasks -> Places] /\ then \in [TwoTasks -> Places]
        /\ wakes \in [TwoTasks -> TwoTasks \cup {NULL}] /\ p \in Places /\ q \in Places
    BY DEF NamedKept, NamedType, PlaceKept
  <1>2. npc'[t] = p /\ then'[t] = q
        /\ \A u \in TwoTasks : u # t => npc'[u] = npc[u] /\ then'[u] = then[u]
    BY <1>1
  <1>3. mem.state[t] = "RUNNING"
    BY RunsFree
  <1>4. PlacesKept'
    BY <1>2, <1>3, PlacesMean
  <1>5. MutexKept' /\ Kept(mem', InMutex', cur')
    BY QuietMutex, QuietNamed
  <1> QED BY <1>1, <1>2, <1>3, <1>4, <1>5

\* fifo_put, fifo_grow, fifo_ctl.
LEMMA TableNamed ==
    ASSUME NamedKept, NEW t \in TwoTasks, F!WithTable(t)
    PROVE  NamedKept'
  <1>0. /\ NamedType /\ Reasons /\ rd \in TwoTasks /\ wr \in TwoTasks /\ rd # wr
        /\ npc \in [TwoTasks -> Places] /\ then \in [TwoTasks -> Places]
        /\ \A u \in TwoTasks : Calls(u) => u \in ends /\ u \in busy
    BY NamedHeads DEF NamedKept, NamedType, TwoTasks
  <1>1. \E p \in {"lock", "unlock", "out"}, q \in Places :
           /\ cur = t /\ PlaceKept(t, p, q)
           /\ p = "unlock" => q = "up"
           /\ p = "lock" => q \in {"put", "grow", "set"}
           /\ npc' = [npc EXCEPT ![t] = p] /\ then' = [then EXCEPT ![t] = q]
           /\ UNCHANGED <<mem, cur, wakes, locked, waiters, passed, busy, len, rest>>
           /\ npc[t] \in {"out", "put", "grow", "set", "up"}
           /\ npc[t] \in {"put", "grow", "set"} <=> p = "unlock"
           /\ \/ ends' = ends /\ named' = named
              \/ npc[t] = "put" /\ ends' = ends \ {t} /\ named' = (ends' # {})
    <2>1. CASE \E x \in {"put", "grow", "set"} : F!TakeTable(t, x)
      <3>1. PICK x \in {"put", "grow", "set"} : F!TakeTable(t, x)
        BY <2>1
      <3>2. PlaceKept(t, "lock", x)
        BY DEF PlaceKept, Places
      <3> QED BY <3>1, <3>2 DEF F!TakeTable, F!At, F!Go, F!LockThen, F!mutex, Places
    <2>2. CASE F!fifo_put(t)
      <3>1. PlaceKept(t, "unlock", "up")
        BY DEF PlaceKept, Places
      <3>2. /\ cur = t /\ npc[t] = "put" /\ npc' = [npc EXCEPT ![t] = "unlock"]
            /\ then' = [then EXCEPT ![t] = "up"]
            /\ UNCHANGED <<mem, cur, wakes, locked, waiters, passed, busy, len, rest>>
            /\ ends' = (IF ref[t] = 1 THEN ends \ {t} ELSE ends) /\ named' = (ends' # {})
        BY <2>2 DEF F!fifo_put, F!At, F!Go, F!UnlockThen, F!mutex
      <3>3. ends' = ends => named' = named
        BY <1>0, <3>2 DEF NamedType
      <3> QED BY <3>1, <3>2, <3>3 DEF Places
    <2>3. CASE F!fifo_grow(t)
      <3>1. PlaceKept(t, "unlock", "up")
        BY DEF PlaceKept, Places
      <3> QED BY <2>3, <3>1 DEF F!fifo_grow, F!At, F!Go, F!UnlockThen, F!mutex, Places
    <2>4. CASE F!fifo_set_flags(t)
      <3>1. PlaceKept(t, "unlock", "up")
        BY DEF PlaceKept, Places
      <3> QED BY <2>4, <3>1 DEF F!fifo_set_flags, F!At, F!Go, F!UnlockThen, F!mutex, Places
    <2>5. CASE F!ReleaseTable(t)
      <3>1. PlaceKept(t, "out", then[t]) /\ then = [then EXCEPT ![t] = then[t]] /\ then[t] \in Places
        BY <1>0 DEF PlaceKept, Places
      <3> QED BY <2>5, <3>1 DEF F!ReleaseTable, F!At, F!Go, F!mutex
    <2> QED BY <2>1, <2>2, <2>3, <2>4, <2>5 DEF F!WithTable
  <1>2. PICK p \in {"lock", "unlock", "out"}, q \in Places :
           /\ cur = t /\ PlaceKept(t, p, q)
           /\ p = "unlock" => q = "up"
           /\ p = "lock" => q \in {"put", "grow", "set"}
           /\ npc' = [npc EXCEPT ![t] = p] /\ then' = [then EXCEPT ![t] = q]
           /\ UNCHANGED <<mem, cur, wakes, locked, waiters, passed, busy, len, rest>>
           /\ npc[t] \in {"out", "put", "grow", "set", "up"}
           /\ npc[t] \in {"put", "grow", "set"} <=> p = "unlock"
           /\ \/ ends' = ends /\ named' = named
              \/ npc[t] = "put" /\ ends' = ends \ {t} /\ named' = (ends' # {})
    BY <1>1
  <1>3. /\ npc[t] # "wakeup" /\ p # "wakeup"
        /\ npc[t] \in LockedPlaces \cup {"unlock"} <=> p \in LockedPlaces \cup {"unlock"}
    BY <1>2 DEF LockedPlaces
  <1>4. /\ Kept(mem', InMutex', cur') /\ MutexKept' /\ PlacesKept'
        /\ npc' \in [TwoTasks -> Places] /\ then' \in [TwoTasks -> Places]
        /\ wakes' \in [TwoTasks -> TwoTasks \cup {NULL}]
        /\ npc'[t] = p /\ then'[t] = q
        /\ \A u \in TwoTasks : u # t => npc'[u] = npc[u] /\ then'[u] = then[u]
        /\ mem'.state[t] = "RUNNING"
    BY <1>2, <1>3, NamedQuietStep
  <1>5. ends' \subseteq ends /\ \A u \in ends : u # t => u \in ends'
    BY <1>2
  <1>6. NamedType'
    BY <1>0, <1>2, <1>4, <1>5 DEF NamedType
  <1>7. \A u \in TwoTasks : Calls(u)' => u \in ends' /\ u \in busy'
    <2>1. ~ Calls(t)'
      BY <1>2, <1>4 DEF Calls
    <2>2. \A u \in TwoTasks : u # t => (Calls(u)' => Calls(u))
      BY <1>4 DEF Calls
    <2> QED BY <1>0, <1>2, <1>5, <2>1, <2>2
  <1>8. Reasons'
    <2>1. ~ Sleeper(t)' /\ \A u \in TwoTasks : u # t => (Sleeper(u)' <=> Sleeper(u))
      BY <1>2, <1>4 DEF Sleeper
    <2>2. npc'[t] \notin {"sync", "synced"} /\ npc[t] \notin {"wake", "registered"}
      BY <1>2, <1>4
    <2>3. t = rd => npc'[wr] = npc[wr]
      BY <1>0, <1>4
    <2>4. t = wr => npc'[rd] = npc[rd]
      BY <1>0, <1>4
    <2>5. t = rd \/ t = wr
      BY DEF TwoTasks
    <2> QED BY <1>0, <1>2, <1>5, <2>1, <2>2, <2>3, <2>4, <2>5 DEF Reasons
  <1> QED BY <1>4, <1>6, <1>7, <1>8 DEF NamedKept

LEMMA WriteBeginNamed == ASSUME NamedKept, NEW n \in Requests, F!WriteBegin(n) PROVE NamedKept'
  <1>0. /\ NamedType /\ Reasons /\ rd \in TwoTasks /\ wr \in TwoTasks /\ rd # wr /\ n \in Nat
        /\ \A u \in TwoTasks : Calls(u) => u \in ends /\ u \in busy
    BY NamedHeads DEF NamedKept, TwoTasks
  <1> DEFINE p == IF rd \in ends \/ wr \in nosync THEN "lock" ELSE "sync"
  <1>1. /\ cur = wr /\ npc[wr] = "out" /\ wr \in ends /\ busy' = busy \cup {wr}
        /\ rest' = [rest EXCEPT ![wr] = n] /\ npc' = [npc EXCEPT ![wr] = p]
        /\ then' = [then EXCEPT ![wr] = "write"]
        /\ UNCHANGED <<mem, cur, named, ends, len, passed, locked, waiters, wakes>>
    BY DEF F!WriteBegin, F!At, F!Go, F!slot, F!mutex
  <1>2. /\ p \in {"lock", "sync"} /\ (p = "sync" => rd \notin ends)
        /\ p \notin LockedPlaces \cup {"unlock"} /\ npc[wr] \notin LockedPlaces \cup {"unlock"}
        /\ npc[wr] # "wakeup" /\ p # "wakeup"
    BY <1>1 DEF LockedPlaces
  <1> HIDE DEF p
  <1>3. PlaceKept(wr, p, "write")
    BY <1>0, <1>2 DEF PlaceKept, Places
  <1>4. /\ Kept(mem', InMutex', cur') /\ MutexKept' /\ PlacesKept'
        /\ npc' \in [TwoTasks -> Places] /\ then' \in [TwoTasks -> Places]
        /\ wakes' \in [TwoTasks -> TwoTasks \cup {NULL}]
        /\ npc'[wr] = p /\ then'[wr] = "write"
        /\ \A u \in TwoTasks : u # wr => npc'[u] = npc[u] /\ then'[u] = then[u]
        /\ mem'.state[wr] = "RUNNING"
    <2>1. UNCHANGED <<mem, cur, wakes, locked, waiters>>
      BY <1>1
    <2> QED BY <1>0, <1>1, <1>2, <1>3, <2>1, NamedQuietStep
  <1>5. NamedType'
    BY <1>0, <1>1, <1>4 DEF NamedType
  <1>6. \A u \in TwoTasks : Calls(u)' => u \in ends' /\ u \in busy'
    <2>1. \A u \in TwoTasks : u # wr => (Calls(u)' => Calls(u))
      BY <1>4 DEF Calls
    <2> QED BY <1>0, <1>1, <2>1
  <1>7. Reasons'
    <2>1. ~ Sleeper(wr)' /\ (Sleeper(rd)' <=> Sleeper(rd)) /\ npc'[rd] = npc[rd]
      BY <1>0, <1>1, <1>2, <1>4 DEF Sleeper
    <2> QED BY <1>0, <1>1, <1>2, <1>4, <2>1 DEF Reasons
  <1> QED BY <1>4, <1>5, <1>6, <1>7 DEF NamedKept

LEMMA ReadBeginNamed == ASSUME NamedKept, NEW n \in Requests, F!ReadBegin(n) PROVE NamedKept'
  <1>0. /\ NamedType /\ Reasons /\ rd \in TwoTasks /\ wr \in TwoTasks /\ rd # wr /\ n \in Nat
        /\ \A u \in TwoTasks : Calls(u) => u \in ends /\ u \in busy
    BY NamedHeads DEF NamedKept, TwoTasks
  <1>1. \E p \in {"out", "lock"}, q \in Places :
           /\ p = "lock" => q = "read"
           /\ cur = rd /\ npc[rd] = "out" /\ rd \in ends /\ busy' = busy \cup {rd}
           /\ rest' \in [TwoTasks -> Nat] /\ npc' = [npc EXCEPT ![rd] = p]
           /\ then' = [then EXCEPT ![rd] = q]
           /\ UNCHANGED <<mem, cur, named, ends, len, passed, locked, waiters, wakes>>
    <2>1. CASE wr \notin ends /\ rd \in nosync
      <3>1. /\ cur = rd /\ npc[rd] = "out" /\ rd \in ends /\ busy' = busy \cup {rd}
            /\ UNCHANGED <<mem, cur, named, ends, len, passed, locked, waiters, wakes>>
            /\ rest' = rest /\ npc' = npc /\ then' = then
        BY <2>1 DEF F!ReadBegin, F!At, F!slot, F!mutex
      <3>2. /\ npc = [npc EXCEPT ![rd] = "out"] /\ then = [then EXCEPT ![rd] = then[rd]]
            /\ then[rd] \in Places
        BY <1>0, <3>1 DEF NamedType
      <3> QED BY <1>0, <3>1, <3>2 DEF NamedType
    <2>2. CASE ~ (wr \notin ends /\ rd \in nosync)
      <3>1. /\ cur = rd /\ npc[rd] = "out" /\ rd \in ends /\ busy' = busy \cup {rd}
            /\ UNCHANGED <<mem, cur, named, ends, len, passed, locked, waiters, wakes>>
            /\ rest' = [rest EXCEPT ![rd] = n] /\ npc' = [npc EXCEPT ![rd] = "lock"]
            /\ then' = [then EXCEPT ![rd] = "read"]
        BY <2>2 DEF F!ReadBegin, F!At, F!slot, F!mutex, F!LockThen, F!Go
      <3> QED BY <1>0, <3>1 DEF NamedType, Places
    <2> QED BY <2>1, <2>2
  <1>2. PICK p \in {"out", "lock"}, q \in Places :
           /\ p = "lock" => q = "read"
           /\ cur = rd /\ npc[rd] = "out" /\ rd \in ends /\ busy' = busy \cup {rd}
           /\ rest' \in [TwoTasks -> Nat] /\ npc' = [npc EXCEPT ![rd] = p]
           /\ then' = [then EXCEPT ![rd] = q]
           /\ UNCHANGED <<mem, cur, named, ends, len, passed, locked, waiters, wakes>>
    BY <1>1
  <1>3. /\ PlaceKept(rd, p, q) /\ npc[rd] # "wakeup" /\ p # "wakeup"
        /\ p \notin LockedPlaces \cup {"unlock"} /\ npc[rd] \notin LockedPlaces \cup {"unlock"}
    BY <1>2 DEF PlaceKept, Places, LockedPlaces
  <1>4. /\ Kept(mem', InMutex', cur') /\ MutexKept' /\ PlacesKept'
        /\ npc' \in [TwoTasks -> Places] /\ then' \in [TwoTasks -> Places]
        /\ wakes' \in [TwoTasks -> TwoTasks \cup {NULL}]
        /\ npc'[rd] = p /\ then'[rd] = q
        /\ \A u \in TwoTasks : u # rd => npc'[u] = npc[u] /\ then'[u] = then[u]
        /\ mem'.state[rd] = "RUNNING"
    <2>1. UNCHANGED <<mem, cur, wakes, locked, waiters>>
      BY <1>2
    <2> QED BY <1>0, <1>2, <1>3, <2>1, NamedQuietStep
  <1>5. NamedType'
    BY <1>0, <1>2, <1>4 DEF NamedType
  <1>6. \A u \in TwoTasks : Calls(u)' => u \in ends' /\ u \in busy'
    <2>1. \A u \in TwoTasks : u # rd => (Calls(u)' => Calls(u))
      BY <1>4 DEF Calls
    <2> QED BY <1>0, <1>2, <2>1
  <1>7. Reasons'
    <2>1. ~ Sleeper(rd)' /\ (Sleeper(wr)' <=> Sleeper(wr)) /\ npc'[wr] = npc[wr]
      BY <1>0, <1>2, <1>4 DEF Sleeper
    <2> QED BY <1>0, <1>2, <1>4, <2>1 DEF Reasons
  <1> QED BY <1>4, <1>5, <1>6, <1>7 DEF NamedKept

LEMMA ReadLookNamed == ASSUME NamedKept, F!ReadLook PROVE NamedKept'
  <1>0. /\ NamedType /\ Reasons /\ rd \in TwoTasks /\ wr \in TwoTasks /\ rd # wr
        /\ \A u \in TwoTasks : Calls(u) => u \in ends /\ u \in busy
    BY NamedHeads DEF NamedKept, TwoTasks
  <1>1. \E p \in {"take", "unlock"}, q \in Places :
           /\ p = "unlock" => q \in {"out", "block"}
           /\ p = "unlock" /\ q = "block" => len = 0
           /\ cur = rd /\ npc[rd] = "read" /\ npc' = [npc EXCEPT ![rd] = p]
           /\ then' = [then EXCEPT ![rd] = q]
           /\ busy' = (IF p = "unlock" /\ q = "out" THEN busy \ {rd} ELSE busy)
           /\ UNCHANGED <<mem, cur, named, ends, len, rest, passed, locked, waiters, wakes>>
    <2>0. /\ cur = rd /\ npc[rd] = "read"
          /\ UNCHANGED <<mem, cur, named, ends, len, rest, passed, locked, waiters, wakes>>
      BY DEF F!ReadLook, F!At, F!slot, F!mutex
    <2>1. CASE npc' = [npc EXCEPT ![rd] = "take"] /\ UNCHANGED <<busy, then>>
      <3>1. then = [then EXCEPT ![rd] = then[rd]] /\ then[rd] \in Places
        BY <1>0 DEF NamedType
      <3> QED BY <2>0, <2>1, <3>1
    <2>2. CASE /\ npc' = [npc EXCEPT ![rd] = "unlock"] /\ then' = [then EXCEPT ![rd] = "out"]
               /\ busy' = busy \ {rd}
      BY <2>0, <2>2 DEF Places
    <2>3. CASE /\ npc' = [npc EXCEPT ![rd] = "unlock"] /\ then' = [then EXCEPT ![rd] = "block"]
               /\ busy' = busy /\ len = 0
      BY <2>0, <2>3 DEF Places
    <2> QED BY <2>1, <2>2, <2>3 DEF F!ReadLook, F!Go, F!UnlockThen
  <1>2. PICK p \in {"take", "unlock"}, q \in Places :
           /\ p = "unlock" => q \in {"out", "block"}
           /\ p = "unlock" /\ q = "block" => len = 0
           /\ cur = rd /\ npc[rd] = "read" /\ npc' = [npc EXCEPT ![rd] = p]
           /\ then' = [then EXCEPT ![rd] = q]
           /\ busy' = (IF p = "unlock" /\ q = "out" THEN busy \ {rd} ELSE busy)
           /\ UNCHANGED <<mem, cur, named, ends, len, rest, passed, locked, waiters, wakes>>
    BY <1>1
  <1>3. /\ PlaceKept(rd, p, q) /\ npc[rd] # "wakeup" /\ p # "wakeup"
        /\ p \in LockedPlaces \cup {"unlock"} /\ npc[rd] \in LockedPlaces \cup {"unlock"}
    BY <1>2 DEF PlaceKept, Places, LockedPlaces
  <1>4. /\ Kept(mem', InMutex', cur') /\ MutexKept' /\ PlacesKept'
        /\ npc' \in [TwoTasks -> Places] /\ then' \in [TwoTasks -> Places]
        /\ wakes' \in [TwoTasks -> TwoTasks \cup {NULL}]
        /\ npc'[rd] = p /\ then'[rd] = q
        /\ \A u \in TwoTasks : u # rd => npc'[u] = npc[u] /\ then'[u] = then[u]
        /\ mem'.state[rd] = "RUNNING"
    <2>1. UNCHANGED <<mem, cur, wakes, locked, waiters>>
      BY <1>2
    <2> QED BY <1>0, <1>2, <1>3, <2>1, NamedQuietStep
  <1>5. NamedType'
    BY <1>0, <1>2, <1>4 DEF NamedType
  <1>6. \A u \in TwoTasks : Calls(u)' => u \in ends' /\ u \in busy'
    <2>1. \A u \in TwoTasks : u # rd => (Calls(u)' => Calls(u))
      BY <1>4 DEF Calls
    <2>2. Calls(rd) /\ (Calls(rd)' => busy' = busy)
      BY <1>2, <1>4 DEF Calls
    <2>3. \A u \in busy : u # rd => u \in busy'
      BY <1>2
    <2> QED BY <1>0, <1>2, <2>1, <2>2, <2>3
  <1>7. Reasons'
    <2>1. (Sleeper(wr)' <=> Sleeper(wr)) /\ npc'[wr] = npc[wr] /\ npc'[rd] \notin {"wake", "registered"}
      BY <1>0, <1>2, <1>4 DEF Sleeper
    <2>2. Sleeper(rd)' => len' = 0
      BY <1>2, <1>4 DEF Sleeper
    <2> QED BY <1>0, <1>2, <1>4, <2>1, <2>2 DEF Reasons
  <1> QED BY <1>4, <1>5, <1>6, <1>7 DEF NamedKept

LEMMA ReadTakeNamed == ASSUME NamedKept, F!ReadTake PROVE NamedKept'
  <1>0. /\ NamedType /\ Reasons /\ rd \in TwoTasks /\ wr \in TwoTasks /\ rd # wr
        /\ \A u \in TwoTasks : Calls(u) => u \in ends /\ u \in busy
        /\ then = [then EXCEPT ![rd] = then[rd]] /\ then[rd] \in Places
    BY NamedHeads DEF NamedKept, NamedType, TwoTasks
  <1>1. /\ cur = rd /\ npc[rd] = "take" /\ npc' = [npc EXCEPT ![rd] = "wake"] /\ then' = then
        /\ len' = len - F!Least(rest[rd], len) /\ rest' = [rest EXCEPT ![rd] = 0]
        /\ UNCHANGED <<mem, cur, named, ends, busy, passed, locked, waiters, wakes>>
    BY DEF F!ReadTake, F!At, F!Go, F!slot, F!mutex
  <1>2. len' \in 0 .. FIFO_SIZE /\ len' <= len
    <2>1. len \in 0 .. FIFO_SIZE /\ rest[rd] \in Nat /\ FIFO_SIZE \in Nat
      BY <1>0, NamedHeads DEF NamedType
    <2> QED BY <1>1, <2>1 DEF F!Least
  <1>3. /\ PlaceKept(rd, "wake", then[rd]) /\ npc[rd] # "wakeup"
        /\ "wake" \in LockedPlaces \cup {"unlock"} /\ npc[rd] \in LockedPlaces \cup {"unlock"}
    BY <1>0, <1>1 DEF PlaceKept, Places, LockedPlaces
  <1>4. /\ Kept(mem', InMutex', cur') /\ MutexKept' /\ PlacesKept'
        /\ npc' \in [TwoTasks -> Places] /\ then' \in [TwoTasks -> Places]
        /\ wakes' \in [TwoTasks -> TwoTasks \cup {NULL}]
        /\ npc'[rd] = "wake"
        /\ \A u \in TwoTasks : u # rd => npc'[u] = npc[u] /\ then'[u] = then[u]
        /\ mem'.state[rd] = "RUNNING"
    <2>1. /\ UNCHANGED <<mem, cur, wakes, locked, waiters>>
          /\ then' = [then EXCEPT ![rd] = then[rd]] /\ "wake" # "wakeup"
      BY <1>0, <1>1
    <2> QED BY <1>0, <1>1, <1>3, <2>1, NamedQuietStep
  <1>5. NamedType'
    <2>1. rest' \in [TwoTasks -> Nat]
      BY <1>0, <1>1 DEF NamedType
    <2> QED BY <1>0, <1>1, <1>2, <1>4, <2>1 DEF NamedType
  <1>6. \A u \in TwoTasks : Calls(u)' => u \in ends' /\ u \in busy'
    <2>1. \A u \in TwoTasks : u # rd => (Calls(u)' => Calls(u))
      BY <1>4 DEF Calls
    <2>2. Calls(rd)
      BY <1>1 DEF Calls
    <2> QED BY <1>0, <1>1, <2>1, <2>2
  <1>7. Reasons'
    <2>1. ~ Sleeper(rd)' /\ npc'[wr] = npc[wr] /\ npc[rd] # "registered"
      BY <1>0, <1>1, <1>4 DEF Sleeper
    <2> QED BY <1>0, <1>1, <1>4, <2>1 DEF Reasons
  <1> QED BY <1>4, <1>5, <1>6, <1>7 DEF NamedKept

\* The clock: nobody falls asleep or is woken.
LEMMA ClockNamed == ASSUME NamedKept, F!Preempt \/ F!LeaveIdle PROVE NamedKept'
  <1>1. Kept(mem, InMutex, cur)
    BY DEF NamedKept
  <1>2. /\ Kept(mem', InMutex, cur')
        /\ \A u \in TwoTasks : mem'.state[u] = "BLOCKED" <=> mem.state[u] = "BLOCKED"
        /\ UNCHANGED <<named, ends, busy, len, rest, locked, waiters, wakes, npc, then, passed>>
    <2>1. CASE F!Preempt
      <3> DEFINE l == F!add_ready(mem, cur)
      <3>1. /\ cur \in TwoTasks /\ mem' = F!fetch_first(l)
            /\ cur' = (IF mem'.bad = "no" THEN F!NextTask(l) ELSE cur)
            /\ UNCHANGED <<named, ends, busy, len, rest, locked, waiters, wakes, npc, then, passed>>
        BY <1>1, <2>1 DEF F!Preempt, F!Switch, F!slot, F!mutex, Kept
      <3>2. cur \notin InMutex /\ mem.state[cur] = "RUNNING"
        BY <3>1, RunsFree
      <3>3. Kept(l, InMutex, Idle) /\ l.state = [mem.state EXCEPT ![cur] = "READY"]
        BY <1>1, <3>1, <3>2, ReadyKept
      <3> HIDE DEF l
      <3>4. /\ Kept(mem', InMutex, F!NextTask(l))
            /\ \A t \in TwoTasks : mem'.state[t] = "BLOCKED" <=> l.state[t] = "BLOCKED"
        <4>1. LET a == F!fetch_first(l)
                  d == F!NextTask(l)
              IN  /\ Kept(a, InMutex, d)
                  /\ \A t \in TwoTasks : a.state[t] = IF t = d THEN "RUNNING" ELSE l.state[t]
                  /\ \A t \in TwoTasks : a.state[t] = "BLOCKED" <=> l.state[t] = "BLOCKED"
          BY <3>3, SwitchKept
        <4> QED BY <3>1, <4>1
      <3>5. cur' = F!NextTask(l)
        BY <3>1, <3>4 DEF Kept
      <3>6. mem.state \in [TwoTasks -> {"READY", "RUNNING", "BLOCKED"}]
        BY <1>1, KeptFacts
      <3>7. \A t \in TwoTasks : l.state[t] = "BLOCKED" <=> mem.state[t] = "BLOCKED"
        BY <3>1, <3>2, <3>3, <3>6
      <3> QED BY <3>1, <3>4, <3>5, <3>7
    <2>2. CASE F!LeaveIdle
      <3>1. /\ cur = Idle /\ mem' = F!fetch_first(mem)
            /\ cur' = (IF mem'.bad = "no" THEN F!NextTask(mem) ELSE cur)
            /\ UNCHANGED <<named, ends, busy, len, rest, locked, waiters, wakes, npc, then, passed>>
        BY <2>2 DEF F!LeaveIdle, F!Switch, F!slot, F!mutex
      <3>2. /\ Kept(mem', InMutex, F!NextTask(mem))
            /\ \A t \in TwoTasks : mem'.state[t] = "BLOCKED" <=> mem.state[t] = "BLOCKED"
        BY <1>1, <3>1, SwitchKept
      <3>3. cur' = F!NextTask(mem)
        BY <3>1, <3>2 DEF Kept
      <3> QED BY <3>1, <3>2, <3>3
    <2> QED BY <2>1, <2>2
  <1>3. InMutex' = InMutex
    BY <1>2 DEF InMutex
  <1>4. NamedType'
    BY <1>2 DEF NamedKept, NamedType
  <1>5. PlacesKept' /\ MutexKept'
    <2>1. PlacesKept'
      BY <1>2 DEF NamedKept, PlacesKept
    <2>2. \A u \in TwoTasks :
             IF npc'[u] = "wakeup"
             THEN wakes'[u] \in TwoTasks /\ mem'.state[wakes'[u]] = "BLOCKED" /\ npc'[wakes'[u]] = "lock"
             ELSE wakes'[u] = NULL
      BY <1>2 DEF NamedKept, MutexKept
    <2>3. \A u \in TwoTasks : HasMutex(u)' <=> HasMutex(u)
      BY <1>2 DEF HasMutex
    <2> QED BY <1>2, <1>3, <2>1, <2>2, <2>3 DEF NamedKept, MutexKept
  <1>6. /\ \A u \in TwoTasks : Calls(u)' => u \in ends' /\ u \in busy'
        /\ \A u \in TwoTasks : Sleeper(u)' <=> Sleeper(u)
    BY <1>2 DEF NamedKept, Calls, Sleeper
  <1>7. Reasons'
    <2>1. rd \in TwoTasks /\ wr \in TwoTasks
      BY DEF TwoTasks
    <2> QED BY <1>2, <1>6, <2>1 DEF NamedKept, Reasons
  <1> QED BY <1>2, <1>3, <1>4, <1>5, <1>6, <1>7 DEF NamedKept

\* task_block of a task that runs, in the list of the mutex or not.
LEMMA BlockNamed == ASSUME NamedKept, NEW t \in TwoTasks, F!Block(t) PROVE NamedKept'
  <1> DEFINE l == [mem EXCEPT !.state[t] = "BLOCKED"]
             p == IF npc[t] = "sync" THEN "synced" ELSE "blocked"
             q == IF t = wr THEN "write" ELSE "take"
  <1>0. /\ NamedType /\ Reasons /\ MutexKept /\ rd \in TwoTasks /\ wr \in TwoTasks /\ rd # wr
        /\ Kept(mem, InMutex, cur)
        /\ \A u \in TwoTasks : Calls(u) => u \in ends /\ u \in busy
        /\ npc \in [TwoTasks -> Places] /\ then \in [TwoTasks -> Places]
    BY NamedHeads DEF NamedKept, NamedType, TwoTasks
  <1>1. /\ cur = t /\ npc[t] \in {"sync", "block"}
        /\ mem' = F!fetch_first(l) /\ cur' = (IF mem'.bad = "no" THEN F!NextTask(l) ELSE cur)
        /\ npc' = [npc EXCEPT ![t] = p] /\ then' = [then EXCEPT ![t] = q]
        /\ UNCHANGED <<named, ends, busy, len, rest, locked, waiters, wakes, passed>>
    BY DEF F!Block, F!Switch, F!Go, F!slot, F!mutex
  <1>2. /\ mem.state[t] = "RUNNING" /\ t \notin InMutex
        /\ \A u \in TwoTasks : mem.state[u] \in {"READY", "RUNNING", "BLOCKED"}
        /\ \A u \in TwoTasks : wakes[u] # t
    BY <1>1, RunsFree
  <1>3. Kept(l, InMutex, Idle) /\ l.state = [mem.state EXCEPT ![t] = "BLOCKED"]
    BY <1>0, <1>1, SleepKept
  <1>4. mem.state \in [TwoTasks -> {"READY", "RUNNING", "BLOCKED"}]
    BY <1>0, KeptFacts
  <1>5. \A u \in TwoTasks : l.state[u] = IF u = t THEN "BLOCKED" ELSE mem.state[u]
    BY <1>3, <1>4
  <1> HIDE DEF l
  <1>6. /\ Kept(mem', InMutex, F!NextTask(l))
        /\ \A u \in TwoTasks : mem'.state[u] = "BLOCKED" <=> l.state[u] = "BLOCKED"
    <2>1. Kept(l, InMutex, Idle) /\ mem' = F!fetch_first(l)
      BY <1>1, <1>3
    <2> QED BY <2>1, SwitchKept
  <1>7. cur' = F!NextTask(l)
    BY <1>1, <1>6 DEF Kept
  <1>8. \A u \in TwoTasks : mem'.state[u] = "BLOCKED" <=> (u = t \/ mem.state[u] = "BLOCKED")
    BY <1>5, <1>6
  <1>9. /\ PlaceKept(t, p, q) /\ p \in {"synced", "blocked"} /\ p \in Places /\ q \in Places
        /\ q \in {"write", "take"}
        /\ (p = "synced" <=> npc[t] = "sync") /\ (p = "blocked" <=> npc[t] = "block")
    <2>1. npc[t] = "sync" => t = wr
      BY PlacesMean DEF PlaceKept
    <2>2. t = rd \/ t = wr
      BY DEF TwoTasks
    <2> QED BY <1>0, <1>1, <2>1, <2>2 DEF PlaceKept, Places
  <1> HIDE DEF p, q
  <1>10. /\ npc'[t] = p /\ then'[t] = q /\ npc' \in [TwoTasks -> Places] /\ then' \in [TwoTasks -> Places]
         /\ \A u \in TwoTasks : u # t => npc'[u] = npc[u] /\ then'[u] = then[u]
    BY <1>0, <1>1, <1>9
  <1>11. InMutex' = InMutex
    <2>1. \A u \in TwoTasks : u \in InMutex' <=> u \in InMutex
      BY <1>1, <1>2, <1>8, <1>9, <1>10 DEF InMutex
    <2> QED BY <2>1 DEF InMutex
  <1>12. NamedType'
    BY <1>0, <1>1, <1>10 DEF NamedType
  <1>13. PlacesKept'
    BY <1>8, <1>9, <1>10, PlacesMean
  <1>14. MutexKept'
    <2>1. \A u \in TwoTasks : HasMutex(u)' <=> HasMutex(u)
      BY <1>1, <1>9, <1>10 DEF HasMutex, LockedPlaces
    <2>2. \A u \in TwoTasks :
             IF npc'[u] = "wakeup"
             THEN wakes'[u] \in TwoTasks /\ mem'.state[wakes'[u]] = "BLOCKED" /\ npc'[wakes'[u]] = "lock"
             ELSE wakes'[u] = NULL
      BY <1>0, <1>1, <1>2, <1>8, <1>9, <1>10 DEF MutexKept
    <2> QED BY <1>0, <1>1, <1>11, <2>1, <2>2 DEF MutexKept
  <1>15. \A u \in TwoTasks : Calls(u)' => u \in ends' /\ u \in busy'
    <2>1. Calls(t) /\ \A u \in TwoTasks : u # t => (Calls(u)' => Calls(u))
      BY <1>1, <1>10 DEF Calls
    <2> QED BY <1>0, <1>1, <2>1
  <1>16. Reasons'
    <2>1. Sleeper(t)' <=> Sleeper(t)
      BY <1>1, <1>8, <1>9, <1>10 DEF Sleeper
    <2>2. \A u \in TwoTasks : u # t => (Sleeper(u)' <=> Sleeper(u))
      BY <1>8, <1>10 DEF Sleeper
    <2>3. /\ npc'[rd] = "wake" <=> npc[rd] = "wake"
          /\ npc'[rd] = "registered" <=> npc[rd] = "registered"
      BY <1>0, <1>1, <1>9, <1>10
    <2>4. npc'[wr] = "sync" \/ (npc'[wr] = "synced" /\ mem'.state[wr] = "BLOCKED") =>
             npc[wr] = "sync" \/ (npc[wr] = "synced" /\ mem.state[wr] = "BLOCKED")
      BY <1>0, <1>8, <1>9, <1>10
    <2> QED BY <1>0, <1>1, <2>1, <2>2, <2>3, <2>4 DEF Reasons
  <1> QED BY <1>6, <1>7, <1>11, <1>12, <1>13, <1>14, <1>15, <1>16 DEF NamedKept

\* mutex_lock of a free mutex
LEMMA EnterNamed ==
    ASSUME NamedKept, NEW t \in TwoTasks, F!mutex_lock(t), ~ locked
    PROVE  NamedKept'
  <1>0. /\ NamedType /\ Reasons /\ MutexKept /\ rd \in TwoTasks /\ wr \in TwoTasks /\ rd # wr
        /\ \A u \in TwoTasks : Calls(u) => u \in ends /\ u \in busy
        /\ npc \in [TwoTasks -> Places] /\ then \in [TwoTasks -> Places]
    BY NamedHeads DEF NamedKept, NamedType, TwoTasks
  <1>1. /\ cur = t /\ npc[t] \in {"lock", "synced", "blocked"} /\ passed' = passed \ {t}
        /\ locked' = TRUE /\ npc' = [npc EXCEPT ![t] = then[t]]
        /\ UNCHANGED <<mem, cur, named, ends, busy, len, rest, waiters, wakes, then>>
    BY DEF F!mutex_lock, F!Go, F!slot
  <1>2. PlaceKept(t, npc[t], then[t]) /\ (t = rd \/ t = wr)
    BY PlacesMean DEF TwoTasks
  <1>3. /\ then[t] \in {"put", "grow", "set", "read", "take", "write"}
        /\ then[t] = "write" => t = wr
        /\ then[t] \in {"read", "take"} => t = rd
    BY <1>0, <1>1, <1>2 DEF PlaceKept
  <1>4. /\ npc'[t] = then[t] /\ npc' \in [TwoTasks -> Places]
        /\ \A u \in TwoTasks : u # t => npc'[u] = npc[u]
    BY <1>0, <1>1
  <1>5. mem.state[t] = "RUNNING"
    BY <1>1, RunsFree
  <1>6. InMutex' = InMutex /\ Kept(mem', InMutex', cur')
    BY <1>1, QuietNamed
  <1>7. NamedType'
    BY <1>0, <1>1, <1>4 DEF NamedType
  <1>8. PlacesKept'
    <2>1. PlaceKept(t, npc'[t], then'[t])
      BY <1>1, <1>2, <1>3, <1>4 DEF PlaceKept, Places
    <2> QED BY <1>1, <1>4, <1>5, <2>1, PlacesMean
  <1>9. MutexKept'
    <2>1. \A u \in TwoTasks : ~ HasMutex(u)
      BY <1>0 DEF MutexKept
    <2>2. \A u \in TwoTasks : HasMutex(u)' <=> u = t
      BY <1>3, <1>4, <2>1 DEF HasMutex, LockedPlaces
    <2>3. \A u \in TwoTasks :
             IF npc'[u] = "wakeup"
             THEN wakes'[u] \in TwoTasks /\ mem'.state[wakes'[u]] = "BLOCKED" /\ npc'[wakes'[u]] = "lock"
             ELSE wakes'[u] = NULL
      BY <1>0, <1>1, <1>3, <1>4, <1>5 DEF MutexKept
    <2> QED BY <1>0, <1>1, <1>6, <2>2, <2>3 DEF MutexKept
  <1>10. \A u \in TwoTasks : Calls(u)' => u \in ends' /\ u \in busy'
    <2>1. Calls(t)' => Calls(t)
      BY <1>1, <1>3, <1>4 DEF Calls
    <2>2. \A u \in TwoTasks : u # t => (Calls(u)' => Calls(u))
      BY <1>1, <1>4 DEF Calls
    <2> QED BY <1>0, <1>1, <2>1, <2>2
  <1>11. Reasons'
    <2>1. ~ Sleeper(t)' /\ \A u \in TwoTasks : u # t => (Sleeper(u)' <=> Sleeper(u))
      BY <1>1, <1>3, <1>4 DEF Sleeper
    <2>2. \A u \in TwoTasks : u # t => (u \in passed' <=> u \in passed)
      BY <1>1
    <2>3. npc'[t] \notin {"sync", "synced"} /\ npc[t] \notin {"wake", "registered"}
      BY <1>1, <1>3, <1>4
    <2>4. CASE t = rd
      BY <1>0, <1>1, <1>4, <2>1, <2>2, <2>3, <2>4 DEF Reasons
    <2>5. CASE t = wr
      BY <1>0, <1>1, <1>4, <2>1, <2>2, <2>3, <2>5 DEF Reasons
    <2> QED BY <1>2, <2>4, <2>5
  <1> QED BY <1>6, <1>7, <1>8, <1>9, <1>10, <1>11 DEF NamedKept

\* and of one that the other task has.
LEMMA WaitNamed ==
    ASSUME NamedKept, NEW t \in TwoTasks, F!mutex_lock(t), locked
    PROVE  NamedKept'
  <1> DEFINE l == [F!list_add_tail(mem, t, WQ) EXCEPT !.state[t] = "BLOCKED"]
  <1>0. /\ NamedType /\ Reasons /\ MutexKept /\ rd \in TwoTasks /\ wr \in TwoTasks /\ rd # wr
        /\ Kept(mem, InMutex, cur)
        /\ \A u \in TwoTasks : Calls(u) => u \in ends /\ u \in busy
        /\ npc \in [TwoTasks -> Places] /\ then \in [TwoTasks -> Places]
    BY NamedHeads DEF NamedKept, NamedType, TwoTasks
  <1>1. /\ cur = t /\ npc[t] \in {"lock", "synced", "blocked"} /\ passed' = passed \ {t}
        /\ waiters' = waiters + 1
        /\ mem' = F!fetch_first(l) /\ cur' = (IF mem'.bad = "no" THEN F!NextTask(l) ELSE cur)
        /\ npc' = [npc EXCEPT ![t] = "lock"]
        /\ UNCHANGED <<named, ends, busy, len, rest, locked, wakes, then>>
    BY DEF F!mutex_lock, F!Go, F!Switch, F!slot
  <1>2. /\ mem.state[t] = "RUNNING" /\ t \notin InMutex /\ \A u \in TwoTasks : wakes[u] # t
        /\ \A u \in TwoTasks : mem.state[u] \in {"READY", "RUNNING", "BLOCKED"}
    BY <1>1, RunsFree
  <1>3. Kept(l, InMutex \cup {t}, Idle) /\ l.state = [mem.state EXCEPT ![t] = "BLOCKED"]
    BY <1>0, <1>1, <1>2, WaitKept
  <1>4. mem.state \in [TwoTasks -> {"READY", "RUNNING", "BLOCKED"}] /\ InMutex \subseteq TwoTasks
    BY <1>0, KeptFacts
  <1>5. \A u \in TwoTasks : l.state[u] = IF u = t THEN "BLOCKED" ELSE mem.state[u]
    BY <1>3, <1>4
  <1> HIDE DEF l
  <1>6. /\ Kept(mem', InMutex \cup {t}, F!NextTask(l))
        /\ \A u \in TwoTasks : mem'.state[u] = "BLOCKED" <=> l.state[u] = "BLOCKED"
    <2>1. Kept(l, InMutex \cup {t}, Idle) /\ mem' = F!fetch_first(l)
      BY <1>1, <1>3
    <2> QED BY <2>1, SwitchKept
  <1>7. cur' = F!NextTask(l)
    BY <1>1, <1>6 DEF Kept
  <1>8. \A u \in TwoTasks : mem'.state[u] = "BLOCKED" <=> (u = t \/ mem.state[u] = "BLOCKED")
    BY <1>5, <1>6
  <1>9. /\ npc'[t] = "lock" /\ npc' \in [TwoTasks -> Places]
        /\ \A u \in TwoTasks : u # t => npc'[u] = npc[u]
    BY <1>0, <1>1 DEF Places
  <1>10. InMutex' = InMutex \cup {t}
    <2>1. \A u \in TwoTasks : u \in InMutex' <=> (u \in InMutex \/ u = t)
      BY <1>1, <1>2, <1>8, <1>9 DEF InMutex
    <2>2. InMutex' \subseteq TwoTasks
      BY DEF InMutex
    <2> QED BY <1>4, <2>1, <2>2
  <1>11. NamedType'
    BY <1>0, <1>1, <1>9 DEF NamedType
  <1>12. PlacesKept'
    <2>1. PlaceKept(t, npc[t], then[t])
      BY PlacesMean
    <2>2. PlaceKept(t, npc'[t], then'[t])
      BY <1>1, <1>9, <2>1 DEF PlaceKept, Places
    <2> QED BY <1>1, <1>8, <1>9, <2>2, PlacesMean
  <1>13. MutexKept'
    <2>1. \A u \in TwoTasks : HasMutex(u)' <=> HasMutex(u)
      BY <1>1, <1>9 DEF HasMutex, LockedPlaces
    <2>2. \A u \in TwoTasks :
             IF npc'[u] = "wakeup"
             THEN wakes'[u] \in TwoTasks /\ mem'.state[wakes'[u]] = "BLOCKED" /\ npc'[wakes'[u]] = "lock"
             ELSE wakes'[u] = NULL
      BY <1>0, <1>1, <1>2, <1>8, <1>9 DEF MutexKept
    <2>3. waiters' = Cardinality(InMutex')
      BY <1>0, <1>1, <1>2, <1>4, <1>10, ReadyCount DEF MutexKept
    <2> QED BY <1>0, <1>1, <2>1, <2>2, <2>3 DEF MutexKept
  <1>14. \A u \in TwoTasks : Calls(u)' => u \in ends' /\ u \in busy'
    <2>1. Calls(t)' => Calls(t)
      BY <1>1, <1>9 DEF Calls
    <2>2. \A u \in TwoTasks : u # t => (Calls(u)' => Calls(u))
      BY <1>1, <1>9 DEF Calls
    <2> QED BY <1>0, <1>1, <2>1, <2>2
  <1>15. Reasons'
    <2>1. ~ Sleeper(t)' /\ \A u \in TwoTasks : u # t => (Sleeper(u)' <=> Sleeper(u))
      BY <1>1, <1>8, <1>9 DEF Sleeper
    <2>2. \A u \in TwoTasks : u # t => (u \in passed' <=> u \in passed)
      BY <1>1
    <2>3. npc'[t] \notin {"sync", "synced"} /\ npc[t] \notin {"wake", "registered"}
      BY <1>1, <1>9
    <2>4. CASE t = rd
      BY <1>0, <1>1, <1>8, <1>9, <2>1, <2>2, <2>3, <2>4 DEF Reasons
    <2>5. CASE t = wr
      BY <1>0, <1>1, <1>9, <2>1, <2>2, <2>3, <2>5 DEF Reasons
    <2>6. t = rd \/ t = wr
      BY DEF TwoTasks
    <2> QED BY <2>4, <2>5, <2>6
  <1> QED BY <1>6, <1>7, <1>10, <1>11, <1>12, <1>13, <1>14, <1>15 DEF NamedKept

LEMMA LeaveNamed ==
    ASSUME NamedKept, NEW t \in TwoTasks, F!mutex_unlock(t), waiters = 0
    PROVE  NamedKept'
  <1>0. /\ NamedType /\ Reasons /\ MutexKept /\ rd \in TwoTasks /\ wr \in TwoTasks /\ rd # wr
        /\ \A u \in TwoTasks : Calls(u) => u \in ends /\ u \in busy
        /\ npc \in [TwoTasks -> Places] /\ then \in [TwoTasks -> Places]
    BY NamedHeads DEF NamedKept, NamedType, TwoTasks
  <1>1. /\ cur = t /\ npc[t] = "unlock" /\ locked' = FALSE /\ npc' = [npc EXCEPT ![t] = then[t]]
        /\ UNCHANGED <<mem, cur, named, ends, busy, len, rest, waiters, wakes, then, passed>>
    BY DEF F!mutex_unlock, F!At, F!Go, F!slot
  <1>2. PlaceKept(t, npc[t], then[t]) /\ then[t] \in {"out", "up", "block"}
    BY <1>1, PlacesMean DEF PlaceKept
  <1>3. /\ npc'[t] = then[t] /\ npc' \in [TwoTasks -> Places]
        /\ \A u \in TwoTasks : u # t => npc'[u] = npc[u]
    BY <1>0, <1>1
  <1>4. mem.state[t] = "RUNNING"
    BY <1>1, RunsFree
  <1>5. InMutex' = InMutex /\ Kept(mem', InMutex', cur')
    BY <1>1, QuietNamed
  <1>6. NamedType'
    BY <1>0, <1>1, <1>3 DEF NamedType
  <1>7. PlacesKept'
    <2>1. PlaceKept(t, npc'[t], then'[t])
      BY <1>1, <1>2, <1>3 DEF PlaceKept, Places
    <2> QED BY <1>1, <1>3, <1>4, <2>1, PlacesMean
  <1>8. MutexKept'
    <2>1. \A u \in TwoTasks : ~ HasMutex(u)'
      BY <1>0, <1>1, <1>2, <1>3 DEF MutexKept, HasMutex, LockedPlaces
    <2>2. \A u \in TwoTasks :
             IF npc'[u] = "wakeup"
             THEN wakes'[u] \in TwoTasks /\ mem'.state[wakes'[u]] = "BLOCKED" /\ npc'[wakes'[u]] = "lock"
             ELSE wakes'[u] = NULL
      BY <1>0, <1>1, <1>2, <1>3, <1>4 DEF MutexKept
    <2> QED BY <1>0, <1>1, <1>5, <2>1, <2>2 DEF MutexKept
  <1>9. \A u \in TwoTasks : Calls(u)' => u \in ends' /\ u \in busy'
    <2>1. Calls(t)' => Calls(t)
      BY <1>1, <1>2, <1>3 DEF Calls
    <2>2. \A u \in TwoTasks : u # t => (Calls(u)' => Calls(u))
      BY <1>1, <1>3 DEF Calls
    <2> QED BY <1>0, <1>1, <2>1, <2>2
  <1>10. Reasons'
    <2>1. Sleeper(t)' <=> Sleeper(t)
      BY <1>1, <1>2, <1>3, <1>4 DEF Sleeper
    <2>2. \A u \in TwoTasks : u # t => (Sleeper(u)' <=> Sleeper(u))
      BY <1>1, <1>3 DEF Sleeper
    <2>3. /\ npc'[t] \notin {"sync", "synced", "wake", "registered"}
          /\ npc[t] \notin {"sync", "synced", "wake", "registered"}
      BY <1>1, <1>2, <1>3
    <2>4. /\ npc'[rd] = "wake" <=> npc[rd] = "wake"
          /\ npc'[rd] = "registered" <=> npc[rd] = "registered"
          /\ npc'[wr] = "sync" <=> npc[wr] = "sync"
          /\ npc'[wr] = "synced" <=> npc[wr] = "synced"
      BY <1>0, <1>3, <2>3
    <2> QED BY <1>0, <1>1, <2>1, <2>2, <2>4 DEF Reasons
  <1> QED BY <1>5, <1>6, <1>7, <1>8, <1>9, <1>10 DEF NamedKept

LEMMA TakeOffNamed ==
    ASSUME NamedKept, NEW t \in TwoTasks, F!mutex_unlock(t), waiters # 0
    PROVE  NamedKept'
  <1> DEFINE x == mem.next[WQ]
             a == F!list_del_init(mem, x)
  <1>0. /\ NamedType /\ Reasons /\ MutexKept /\ rd \in TwoTasks /\ wr \in TwoTasks /\ rd # wr
        /\ Kept(mem, InMutex, cur)
        /\ \A u \in TwoTasks : Calls(u) => u \in ends /\ u \in busy
        /\ npc \in [TwoTasks -> Places] /\ then \in [TwoTasks -> Places]
        /\ wakes \in [TwoTasks -> TwoTasks \cup {NULL}]
    BY NamedHeads DEF NamedKept, NamedType, TwoTasks
  <1>1. /\ cur = t /\ npc[t] = "unlock" /\ locked' = FALSE /\ waiters' = waiters - 1
        /\ mem' = (IF x \in {rd, wr} THEN a ELSE [mem EXCEPT !.bad = "fault"])
        /\ wakes' = [wakes EXCEPT ![t] = x] /\ npc' = [npc EXCEPT ![t] = "wakeup"]
        /\ UNCHANGED <<cur, named, ends, busy, len, rest, then, passed>>
    BY DEF F!mutex_unlock, F!At, F!Go, F!slot
  <1>2. InMutex # {} /\ InMutex \subseteq TwoTasks /\ waiters = Cardinality(InMutex)
    BY <1>0, CountOfTwo DEF MutexKept, InMutex
  <1>3. x \in InMutex /\ x \in TwoTasks /\ Kept(a, InMutex \ {x}, cur) /\ a.state = mem.state
    BY <1>0, <1>2, TakeKept
  <1>4. mem' = a /\ mem'.state = mem.state
    BY <1>1, <1>3 DEF TwoTasks
  <1> HIDE DEF x, a
  <1>5. /\ mem.state[t] = "RUNNING" /\ t \notin InMutex /\ x # t
        /\ mem.state[x] = "BLOCKED" /\ npc[x] = "lock" /\ \A u \in TwoTasks : wakes[u] # x
        /\ \A u \in TwoTasks : wakes[u] # t
    BY <1>1, <1>3, RunsFree DEF InMutex
  <1>6. /\ npc'[t] = "wakeup" /\ npc' \in [TwoTasks -> Places] /\ wakes'[t] = x
        /\ wakes' \in [TwoTasks -> TwoTasks \cup {NULL}]
        /\ \A u \in TwoTasks : u # t => npc'[u] = npc[u] /\ wakes'[u] = wakes[u]
    BY <1>0, <1>1, <1>3 DEF Places
  <1>7. InMutex' = InMutex \ {x}
    <2>1. wakes[t] = NULL
      BY <1>0, <1>1 DEF MutexKept
    <2>2. \A u \in TwoTasks : u \in InMutex' <=> (u \in InMutex /\ u # x)
      <3> TAKE u \in TwoTasks
      <3>1. (\A v \in TwoTasks : wakes'[v] # u) <=> (\A v \in TwoTasks : wakes[v] # u) /\ u # x
        BY <1>5, <1>6, <2>1, NamedHeads
      <3>2. u # t => npc'[u] = npc[u]
        BY <1>6
      <3>3. u = t => u \notin InMutex' /\ u \notin InMutex
        BY <1>4, <1>5 DEF InMutex
      <3> QED BY <1>4, <3>1, <3>2, <3>3 DEF InMutex
    <2>3. InMutex' \subseteq TwoTasks
      BY DEF InMutex
    <2> QED BY <1>2, <2>2, <2>3
  <1>8. Kept(mem', InMutex', cur')
    BY <1>1, <1>3, <1>4, <1>7
  <1>9. NamedType'
    BY <1>0, <1>1, <1>6 DEF NamedType
  <1>10. PlacesKept'
    <2>1. PlaceKept(t, npc[t], then[t]) /\ then[t] \in {"out", "up", "block"}
      BY <1>1, PlacesMean DEF PlaceKept
    <2>2. PlaceKept(t, npc'[t], then'[t])
      BY <1>1, <1>6, <2>1 DEF PlaceKept, Places
    <2> QED BY <1>1, <1>4, <1>5, <1>6, <2>2, PlacesMean
  <1>11. MutexKept'
    <2>1. \A u \in TwoTasks : ~ HasMutex(u)'
      BY <1>0, <1>1, <1>6 DEF MutexKept, HasMutex, LockedPlaces
    <2>2. ASSUME NEW u \in TwoTasks
          PROVE  IF npc'[u] = "wakeup"
                 THEN /\ wakes'[u] \in TwoTasks /\ mem'.state[wakes'[u]] = "BLOCKED"
                      /\ npc'[wakes'[u]] = "lock"
                 ELSE wakes'[u] = NULL
      <3>1. CASE u = t
        BY <1>3, <1>4, <1>5, <1>6, <3>1
      <3>2. CASE u # t
        BY <1>0, <1>4, <1>5, <1>6, <3>2 DEF MutexKept
      <3> QED BY <3>1, <3>2
    <2>3. waiters' = Cardinality(InMutex')
      BY <1>1, <1>2, <1>3, <1>7, ReadyCount
    <2> QED BY <1>1, <2>1, <2>2, <2>3 DEF MutexKept
  <1>12. \A u \in TwoTasks : Calls(u)' => u \in ends' /\ u \in busy'
    <2>1. Calls(t)' => Calls(t)
      BY <1>1, <1>6 DEF Calls
    <2>2. \A u \in TwoTasks : u # t => (Calls(u)' => Calls(u))
      BY <1>1, <1>6 DEF Calls
    <2> QED BY <1>0, <1>1, <2>1, <2>2
  <1>13. Reasons'
    <2>1. Sleeper(t)' <=> Sleeper(t)
      BY <1>1, <1>6 DEF Sleeper
    <2>2. \A u \in TwoTasks : u # t => (Sleeper(u)' <=> Sleeper(u))
      BY <1>1, <1>4, <1>6 DEF Sleeper
    <2>3. /\ npc'[rd] = "wake" <=> npc[rd] = "wake"
          /\ npc'[rd] = "registered" <=> npc[rd] = "registered"
          /\ npc'[wr] = "sync" <=> npc[wr] = "sync"
          /\ npc'[wr] = "synced" <=> npc[wr] = "synced"
      BY <1>0, <1>1, <1>6
    <2> QED BY <1>0, <1>1, <1>4, <2>1, <2>2, <2>3 DEF Reasons
  <1> QED BY <1>8, <1>9, <1>10, <1>11, <1>12, <1>13 DEF NamedKept

LEMMA WakeNamed == ASSUME NamedKept, NEW t \in TwoTasks, F!UnlockWakeup(t) PROVE NamedKept'
  <1> PICK x : x = wakes[t]
    OBVIOUS
  <1>0. /\ NamedType /\ Reasons /\ MutexKept /\ rd \in TwoTasks /\ wr \in TwoTasks /\ rd # wr
        /\ Kept(mem, InMutex, cur)
        /\ \A u \in TwoTasks : Calls(u) => u \in ends /\ u \in busy
        /\ npc \in [TwoTasks -> Places] /\ then \in [TwoTasks -> Places]
        /\ wakes \in [TwoTasks -> TwoTasks \cup {NULL}]
    BY NamedHeads DEF NamedKept, NamedType, TwoTasks
  <1>1. /\ cur = t /\ npc[t] = "wakeup" /\ mem' = F!task_wakeup(mem, x)
        /\ wakes' = [wakes EXCEPT ![t] = NULL] /\ npc' = [npc EXCEPT ![t] = then[t]]
        /\ UNCHANGED <<cur, named, ends, busy, len, rest, locked, waiters, then, passed>>
    BY DEF F!UnlockWakeup, F!At, F!Go, F!slot
  <1>2. /\ x \in TwoTasks /\ mem.state[x] = "BLOCKED" /\ npc[x] = "lock" /\ x \notin InMutex
        /\ mem.state[t] = "RUNNING" /\ x # t /\ TwoTasks = {t, x}
    <2>1. x \in TwoTasks /\ mem.state[x] = "BLOCKED" /\ npc[x] = "lock" /\ x \notin InMutex
      BY <1>0, <1>1 DEF MutexKept, InMutex
    <2>2. mem.state[t] = "RUNNING"
      BY <1>1, RunsFree
    <2> QED BY <2>1, <2>2 DEF TwoTasks
  <1>3. /\ Kept(mem', InMutex, cur)
        /\ \A u \in TwoTasks : mem'.state[u] = IF u = x THEN "READY" ELSE mem.state[u]
    <2>1. LET b == F!task_wakeup(mem, x)
          IN  /\ Kept(b, InMutex, cur)
              /\ \A u \in TwoTasks : b.state[u] = IF u = x /\ mem.state[x] = "BLOCKED" THEN "READY"
                                               ELSE mem.state[u]
      BY <1>0, <1>2, WakeKept
    <2> QED BY <1>1, <1>2, <2>1
  <1>4. PlaceKept(t, npc[t], then[t]) /\ then[t] \in {"out", "up", "block"}
    BY <1>1, PlacesMean DEF PlaceKept
  <1>5. /\ npc'[t] = then[t] /\ npc' \in [TwoTasks -> Places] /\ npc'[x] = npc[x]
        /\ wakes'[t] = NULL /\ wakes'[x] = wakes[x] /\ wakes[x] = NULL
        /\ wakes' \in [TwoTasks -> TwoTasks \cup {NULL}]
    BY <1>0, <1>1, <1>2 DEF MutexKept
  <1>6. InMutex' = {} /\ InMutex = {}
    <2>1. InMutex' \subseteq {t, x} /\ InMutex \subseteq {t, x}
      BY <1>2 DEF InMutex
    <2>2. x \notin InMutex' /\ t \notin InMutex' /\ t \notin InMutex
      BY <1>2, <1>3 DEF InMutex
    <2> QED BY <1>2, <2>1, <2>2
  <1>7. NamedType'
    BY <1>0, <1>1, <1>5 DEF NamedType
  <1>8. PlacesKept'
    <2>1. PlaceKept(t, npc'[t], then'[t])
      BY <1>1, <1>4, <1>5 DEF PlaceKept, Places
    <2>2. PlaceKept(x, npc'[x], then'[x])
      BY <1>1, <1>2, <1>5, PlacesMean
    <2> QED BY <1>2, <1>3, <2>1, <2>2, PlacesMean
  <1>9. MutexKept'
    <2>1. \A u \in TwoTasks : HasMutex(u)' <=> HasMutex(u)
      BY <1>1, <1>2, <1>4, <1>5 DEF HasMutex, LockedPlaces
    <2>2. \A u \in TwoTasks : npc'[u] # "wakeup" /\ wakes'[u] = NULL
      BY <1>2, <1>4, <1>5
    <2> QED BY <1>0, <1>1, <1>6, <2>1, <2>2 DEF MutexKept
  <1>10. \A u \in TwoTasks : Calls(u)' => u \in ends' /\ u \in busy'
    <2>1. Calls(t)' => Calls(t)
      BY <1>1, <1>4, <1>5 DEF Calls
    <2>2. Calls(x)' => Calls(x)
      BY <1>1, <1>5 DEF Calls
    <2> QED BY <1>0, <1>1, <1>2, <2>1, <2>2
  <1>11. Reasons'
    <2>1. /\ Sleeper(t)' <=> Sleeper(t)
          /\ Sleeper(x)' <=> Sleeper(x)
      BY <1>1, <1>2, <1>3, <1>4, <1>5 DEF Sleeper
    <2>2. /\ npc'[t] \notin {"sync", "synced", "wake", "registered"}
          /\ npc'[x] \notin {"sync", "synced", "wake", "registered"}
          /\ npc[t] \notin {"sync", "synced", "wake", "registered"}
      BY <1>1, <1>2, <1>4, <1>5
    <2>3. (rd = t /\ wr = x) \/ (rd = x /\ wr = t)
      BY <1>0, <1>2
    <2> QED BY <1>0, <1>1, <1>2, <2>1, <2>2, <2>3 DEF Reasons
  <1> QED BY <1>1, <1>3, <1>6, <1>7, <1>8, <1>9, <1>10, <1>11 DEF NamedKept

\* What fifo_get, fifo_read and fifo_write do to the other task t, which is not
\* in the list of the mutex.
LEMMA Unblocked ==
    ASSUME NamedKept, NEW u \in TwoTasks, NEW t \in TwoTasks, t # u, cur = u, npc[u] # "wakeup",
           F!UnblockIfAsleep(t), ~ torn'
    PROVE  /\ Kept(mem', InMutex, cur) /\ TwoTasks = {t, u}
           /\ mem.state[u] = "RUNNING" /\ mem'.state[u] = "RUNNING"
           /\ mem'.state[t] = "BLOCKED" => mem.state[t] = "BLOCKED" /\ npc[t] = "lock"
           /\ npc[t] = "lock" => (t \in InMutex <=> mem'.state[t] = "BLOCKED")
           /\ npc[t] # "wakeup" /\ wakes[t] = NULL /\ wakes[u] = NULL
           /\ u \in passed' <=> u \in passed
           /\ npc[t] \in {"sync", "block"} => t \in passed'
           /\ t \in passed /\ t \notin passed' => npc[t] \in {"lock", "synced", "blocked"}
           /\ passed' \in SUBSET TwoTasks
  <1>0. /\ NamedType /\ MutexKept /\ Kept(mem, InMutex, cur)
        /\ \A v \in TwoTasks : Calls(v) => v \in ends /\ v \in busy
    BY DEF NamedKept
  <1>1. /\ mem.state[u] = "RUNNING" /\ TwoTasks = {t, u} /\ rd # wr
        /\ mem.state[t] \in {"READY", "BLOCKED"} /\ t # NULL
    BY RunsFree, NamedHeads DEF TwoTasks
  <1>2. npc[t] # "wakeup" /\ wakes[t] = NULL /\ wakes[u] = NULL
    BY <1>0, <1>1 DEF MutexKept
  <1>3. /\ mem' = (IF F!Sleeps(t) THEN F!task_wakeup(mem, t) ELSE mem)
        /\ ~ (F!Sleeps(t) /\ F!list_find(mem, t, WQ))
        /\ passed' = (IF F!Sleeps(t) THEN passed \ {t}
                      ELSE IF F!AboutToBlock(t) THEN passed \cup {t} ELSE passed)
        /\ F!Sleeps(t) <=> t \in ends /\ mem.state[t] = "BLOCKED" /\ t \in busy
        /\ npc[t] \in {"sync", "block"} => F!AboutToBlock(t)
    BY DEF F!UnblockIfAsleep, F!Sleeps, F!AboutToBlock
  <1>4. t \in InMutex <=> mem.state[t] = "BLOCKED" /\ npc[t] = "lock"
    BY <1>1, <1>2 DEF InMutex
  <1>5. F!list_find(mem, t, WQ) <=> t \in InMutex
    BY <1>0, KeptFacts
  <1>6. npc[t] \in {"lock", "synced", "blocked"} \/ mem.state[t] # "BLOCKED"
    BY PlacesMean
  <1>7. npc[t] \in {"synced", "blocked"} => Calls(t)
    BY DEF Calls
  <1>8. CASE F!Sleeps(t)
    <2>1. t \notin InMutex /\ mem' = F!task_wakeup(mem, t) /\ mem.state[t] = "BLOCKED"
      BY <1>3, <1>5, <1>8
    <2>2. /\ Kept(mem', InMutex, cur)
          /\ \A v \in TwoTasks : mem'.state[v] = IF v = t THEN "READY" ELSE mem.state[v]
      <3>1. LET b == F!task_wakeup(mem, t)
            IN  /\ Kept(b, InMutex, cur)
                /\ \A v \in TwoTasks : b.state[v] = IF v = t /\ mem.state[t] = "BLOCKED" THEN "READY"
                                                 ELSE mem.state[v]
        BY <1>0, <2>1, WakeKept
      <3> QED BY <2>1, <3>1
    <2>3. passed' = passed \ {t} /\ npc[t] \in {"lock", "synced", "blocked"}
      BY <1>3, <1>6, <1>8, <2>1
    <2> QED BY <1>0, <1>1, <1>2, <2>1, <2>2, <2>3 DEF NamedType
  <1>9. CASE ~ F!Sleeps(t)
    <2>1. mem' = mem /\ passed \subseteq passed' /\ passed' \subseteq passed \cup {t}
      BY <1>3, <1>9
    <2>2. mem.state[t] = "BLOCKED" => npc[t] = "lock"
      BY <1>0, <1>3, <1>6, <1>7, <1>9
    <2>3. npc[t] \in {"sync", "block"} => t \in passed'
      BY <1>3, <1>9
    <2> QED BY <1>0, <1>1, <1>2, <1>4, <2>1, <2>2, <2>3 DEF NamedType
  <1> QED BY <1>8, <1>9

\* The list of the mutex after that, with the task u at another place.
LEMMA UnblockedMutex ==
    ASSUME NamedKept, NEW u \in TwoTasks, NEW t \in TwoTasks, t # u, cur = u, npc[u] # "wakeup",
           F!UnblockIfAsleep(t), ~ torn', NEW p, p # "wakeup", npc' = [npc EXCEPT ![u] = p],
           npc[u] \in LockedPlaces \cup {"unlock"} <=> p \in LockedPlaces \cup {"unlock"},
           UNCHANGED <<cur, wakes, locked, waiters>>
    PROVE  /\ Kept(mem', InMutex', cur') /\ MutexKept'
           /\ npc'[u] = p /\ npc'[t] = npc[t]
  <1>0. /\ npc \in [TwoTasks -> Places] /\ MutexKept /\ InMutex \subseteq TwoTasks
    BY DEF NamedKept, NamedType, InMutex
  <1>1. /\ Kept(mem', InMutex, cur) /\ TwoTasks = {t, u}
        /\ mem.state[u] = "RUNNING" /\ mem'.state[u] = "RUNNING"
        /\ mem'.state[t] = "BLOCKED" => mem.state[t] = "BLOCKED" /\ npc[t] = "lock"
        /\ npc[t] = "lock" => (t \in InMutex <=> mem'.state[t] = "BLOCKED")
        /\ npc[t] # "wakeup" /\ wakes[t] = NULL /\ wakes[u] = NULL
    BY Unblocked
  <1>2. npc'[u] = p /\ npc'[t] = npc[t]
    BY <1>0
  <1>3. InMutex' = InMutex
    <2>1. u \notin InMutex' /\ u \notin InMutex
      BY <1>1 DEF InMutex
    <2>2. t \in InMutex' <=> t \in InMutex
      BY <1>1, <1>2 DEF InMutex
    <2>3. InMutex' \subseteq TwoTasks
      BY DEF InMutex
    <2> QED BY <1>0, <1>1, <2>1, <2>2, <2>3
  <1>4. MutexKept'
    <2>1. \A v \in TwoTasks : HasMutex(v)' <=> HasMutex(v)
      BY <1>1, <1>2 DEF HasMutex
    <2>2. \A v \in TwoTasks : npc'[v] # "wakeup" /\ wakes'[v] = NULL
      BY <1>1, <1>2
    <2> QED BY <1>0, <1>3, <2>1, <2>2 DEF MutexKept
  <1> QED BY <1>1, <1>2, <1>3, <1>4

LEMMA GetReaderWakesNamed ==
    ASSUME NamedKept, NEW flag \in BOOLEAN, F!GetReaderWakes(flag), ~ torn'
    PROVE  NamedKept'
  <1>0. /\ NamedType /\ Reasons /\ rd \in TwoTasks /\ wr \in TwoTasks /\ rd # wr
        /\ \A u \in TwoTasks : Calls(u) => u \in ends /\ u \in busy
        /\ npc \in [TwoTasks -> Places] /\ then \in [TwoTasks -> Places]
    BY NamedHeads DEF NamedKept, NamedType, TwoTasks
  <1>1. /\ cur = rd /\ npc[rd] = "registered" /\ F!UnblockIfAsleep(wr)
        /\ npc' = [npc EXCEPT ![rd] = "out"]
        /\ UNCHANGED <<cur, named, ends, busy, len, rest, locked, waiters, wakes, then>>
    BY DEF F!GetReaderWakes, F!At, F!Go, F!mutex
  <1>2. /\ Kept(mem', InMutex', cur') /\ MutexKept'
        /\ npc'[rd] = "out" /\ npc'[wr] = npc[wr]
    <2>1. /\ npc[rd] # "wakeup" /\ "out" # "wakeup" /\ UNCHANGED <<cur, wakes, locked, waiters>>
          /\ npc[rd] \in LockedPlaces \cup {"unlock"} <=> "out" \in LockedPlaces \cup {"unlock"}
      BY <1>1 DEF LockedPlaces
    <2> QED BY <1>0, <1>1, <2>1, UnblockedMutex
  <1>3. /\ mem'.state[rd] = "RUNNING" /\ TwoTasks = {wr, rd}
        /\ mem'.state[wr] = "BLOCKED" => mem.state[wr] = "BLOCKED" /\ npc[wr] = "lock"
        /\ npc[wr] # "wakeup"
        /\ rd \in passed' <=> rd \in passed
        /\ npc[wr] \in {"sync", "block"} => wr \in passed'
        /\ wr \in passed /\ wr \notin passed' => npc[wr] \in {"lock", "synced", "blocked"}
        /\ passed' \in SUBSET TwoTasks /\ mem.state[rd] = "RUNNING"
    <2>1. npc[rd] # "wakeup"
      BY <1>1
    <2> QED BY <1>0, <1>1, <2>1, Unblocked
  <1>4. NamedType'
    <2>1. npc' \in [TwoTasks -> Places]
      BY <1>0, <1>1 DEF Places
    <2> QED BY <1>0, <1>1, <1>3, <2>1 DEF NamedType
  <1>5. PlacesKept'
    <2>1. PlaceKept(rd, npc'[rd], then'[rd])
      BY <1>0, <1>1, <1>2 DEF PlaceKept, Places
    <2>2. PlaceKept(wr, npc'[wr], then'[wr])
      BY <1>0, <1>1, <1>2, PlacesMean
    <2> QED BY <1>2, <1>3, <2>1, <2>2, PlacesMean
  <1>6. \A u \in TwoTasks : Calls(u)' => u \in ends' /\ u \in busy'
    <2>1. ~ Calls(rd)' /\ (Calls(wr)' => Calls(wr))
      BY <1>1, <1>2 DEF Calls
    <2> QED BY <1>0, <1>1, <1>3, <2>1
  <1>7. Reasons'
    <2>1. ~ Sleeper(rd)'
      BY <1>2 DEF Sleeper
    <2>2. Sleeper(wr)' /\ wr \notin passed' => Sleeper(wr) /\ wr \notin passed
      BY <1>1, <1>2, <1>3 DEF Sleeper
    <2>3. ~ ((npc'[wr] = "sync" \/ (npc'[wr] = "synced" /\ mem'.state[wr] = "BLOCKED"))
             /\ wr \notin passed')
      BY <1>2, <1>3
    <2>4. npc[rd] # "wake"
      BY <1>1
    <2> QED BY <1>0, <1>1, <2>1, <2>2, <2>3, <2>4 DEF Reasons
  <1> QED BY <1>2, <1>4, <1>5, <1>6, <1>7 DEF NamedKept

LEMMA WriteTurnNamed == ASSUME NamedKept, F!WriteTurn, ~ torn' PROVE NamedKept'
  <1> DEFINE n == F!Least(rest[wr], FIFO_SIZE - len)
             done == rest[wr] = n \/ wr \in nonblock
             q == IF done THEN "out" ELSE "block"
  <1>0. /\ NamedType /\ Reasons /\ MutexKept /\ rd \in TwoTasks /\ wr \in TwoTasks /\ rd # wr
        /\ \A u \in TwoTasks : Calls(u) => u \in ends /\ u \in busy
        /\ npc \in [TwoTasks -> Places] /\ then \in [TwoTasks -> Places]
    BY NamedHeads DEF NamedKept, NamedType, TwoTasks
  <1>1. /\ cur = wr /\ npc[wr] = "write" /\ F!UnblockIfAsleep(rd) /\ len' = len + n
        /\ rest' = [rest EXCEPT ![wr] = IF done THEN 0 ELSE @ - n]
        /\ busy' = (IF done THEN busy \ {wr} ELSE busy)
        /\ npc' = [npc EXCEPT ![wr] = "unlock"] /\ then' = [then EXCEPT ![wr] = q]
        /\ UNCHANGED <<cur, named, ends, locked, waiters, wakes>>
    BY DEF F!WriteTurn, F!At, F!Go, F!UnlockThen, F!slot, F!mutex
  <1>2. /\ n \in Nat /\ len + n \in 0 .. FIFO_SIZE /\ rest[wr] \in Nat /\ n <= rest[wr]
        /\ (~ done => len + n = FIFO_SIZE)
    <2>1. len \in 0 .. FIFO_SIZE /\ rest[wr] \in Nat /\ FIFO_SIZE \in Nat
      BY <1>0, NamedHeads DEF NamedType
    <2> QED BY <2>1 DEF F!Least
  <1>3. /\ Kept(mem', InMutex', cur') /\ MutexKept'
        /\ npc'[wr] = "unlock" /\ npc'[rd] = npc[rd]
    <2>1. /\ npc[wr] # "wakeup" /\ "unlock" # "wakeup" /\ UNCHANGED <<cur, wakes, locked, waiters>>
          /\ npc[wr] \in LockedPlaces \cup {"unlock"} <=> "unlock" \in LockedPlaces \cup {"unlock"}
      BY <1>1 DEF LockedPlaces
    <2> QED BY <1>0, <1>1, <2>1, UnblockedMutex
  <1>4. /\ mem'.state[wr] = "RUNNING" /\ TwoTasks = {rd, wr}
        /\ mem'.state[rd] = "BLOCKED" => mem.state[rd] = "BLOCKED" /\ npc[rd] = "lock"
        /\ npc[rd] # "wakeup"
        /\ npc[rd] \in {"sync", "block"} => rd \in passed'
        /\ passed' \in SUBSET TwoTasks /\ mem.state[wr] = "RUNNING"
    <2>1. npc[wr] # "wakeup"
      BY <1>1
    <2> QED BY <1>0, <1>1, <2>1, Unblocked
  <1>5. /\ then'[wr] = q /\ q \in {"out", "block"} /\ q \in Places /\ (q = "block" => ~ done)
        /\ then'[rd] = then[rd] /\ then' \in [TwoTasks -> Places] /\ npc' \in [TwoTasks -> Places]
    BY <1>0, <1>1 DEF Places
  <1>6. rest' \in [TwoTasks -> Nat]
    <2>1. rest \in [TwoTasks -> Nat] /\ (IF done THEN 0 ELSE rest[wr] - n) \in Nat
      <3> HIDE DEF n, done
      <3> QED BY <1>0, <1>2 DEF NamedType
    <2> HIDE DEF n, done
    <2> QED BY <1>0, <1>1, <2>1
  <1> HIDE DEF n, done, q
  <1>7. NamedType'
    <2>1. busy' \in SUBSET TwoTasks
      BY <1>0, <1>1 DEF NamedType
    <2> QED BY <1>0, <1>1, <1>2, <1>4, <1>5, <1>6, <2>1 DEF NamedType
  <1>8. PlacesKept'
    <2>1. PlaceKept(wr, npc'[wr], then'[wr])
      BY <1>0, <1>3, <1>5 DEF PlaceKept, Places
    <2>2. PlaceKept(rd, npc'[rd], then'[rd])
      BY <1>0, <1>3, <1>5, PlacesMean
    <2> QED BY <1>3, <1>4, <2>1, <2>2, PlacesMean
  <1>9. \A u \in TwoTasks : Calls(u)' => u \in ends' /\ u \in busy'
    <2>1. Calls(wr) /\ (Calls(wr)' => busy' = busy)
      BY <1>1, <1>3, <1>5 DEF Calls
    <2>2. Calls(rd)' => Calls(rd)
      BY <1>3, <1>5 DEF Calls
    <2>3. rd \in busy => rd \in busy'
      BY <1>0, <1>1
    <2> QED BY <1>0, <1>1, <1>4, <2>1, <2>2, <2>3
  <1>10. Reasons'
    <2>1. Sleeper(wr)' => len' = FIFO_SIZE
      BY <1>1, <1>2, <1>3, <1>5 DEF Sleeper
    <2>2. npc[rd] # "unlock"
      BY <1>0, <1>1 DEF MutexKept, HasMutex, LockedPlaces
    <2>3. Sleeper(rd)' => rd \in passed'
      BY <1>3, <1>4, <2>2 DEF Sleeper
    <2> QED BY <1>3, <2>1, <2>3 DEF Reasons
  <1> QED BY <1>3, <1>7, <1>8, <1>9, <1>10 DEF NamedKept

LEMMA ReadWakeNamed == ASSUME NamedKept, F!ReadWake, ~ torn' PROVE NamedKept'
  <1>0. /\ NamedType /\ Reasons /\ MutexKept /\ rd \in TwoTasks /\ wr \in TwoTasks /\ rd # wr
        /\ \A u \in TwoTasks : Calls(u) => u \in ends /\ u \in busy
        /\ npc \in [TwoTasks -> Places] /\ then \in [TwoTasks -> Places]
    BY NamedHeads DEF NamedKept, NamedType, TwoTasks
  <1>1. /\ cur = rd /\ npc[rd] = "wake" /\ F!UnblockIfAsleep(wr) /\ busy' = busy \ {rd}
        /\ npc' = [npc EXCEPT ![rd] = "unlock"] /\ then' = [then EXCEPT ![rd] = "out"]
        /\ UNCHANGED <<cur, named, ends, len, rest, locked, waiters, wakes>>
    BY DEF F!ReadWake, F!At, F!Go, F!UnlockThen, F!slot, F!mutex
  <1>2. /\ Kept(mem', InMutex', cur') /\ MutexKept'
        /\ npc'[rd] = "unlock" /\ npc'[wr] = npc[wr]
    <2>1. /\ npc[rd] # "wakeup" /\ "unlock" # "wakeup" /\ UNCHANGED <<cur, wakes, locked, waiters>>
          /\ npc[rd] \in LockedPlaces \cup {"unlock"} <=> "unlock" \in LockedPlaces \cup {"unlock"}
      BY <1>1 DEF LockedPlaces
    <2> QED BY <1>0, <1>1, <2>1, UnblockedMutex
  <1>3. /\ mem'.state[rd] = "RUNNING" /\ TwoTasks = {wr, rd}
        /\ mem'.state[wr] = "BLOCKED" => mem.state[wr] = "BLOCKED" /\ npc[wr] = "lock"
        /\ npc[wr] # "wakeup"
        /\ npc[wr] \in {"sync", "block"} => wr \in passed'
        /\ passed' \in SUBSET TwoTasks /\ mem.state[rd] = "RUNNING"
    <2>1. npc[rd] # "wakeup"
      BY <1>1
    <2> QED BY <1>0, <1>1, <2>1, Unblocked
  <1>4. /\ then'[rd] = "out" /\ then'[wr] = then[wr]
        /\ then' \in [TwoTasks -> Places] /\ npc' \in [TwoTasks -> Places]
    BY <1>0, <1>1 DEF Places
  <1>5. NamedType'
    <2>1. busy' \in SUBSET TwoTasks
      BY <1>0, <1>1 DEF NamedType
    <2> QED BY <1>0, <1>1, <1>3, <1>4, <2>1 DEF NamedType
  <1>6. PlacesKept'
    <2>1. PlaceKept(rd, npc'[rd], then'[rd])
      BY <1>0, <1>2, <1>4 DEF PlaceKept, Places
    <2>2. PlaceKept(wr, npc'[wr], then'[wr])
      BY <1>0, <1>2, <1>4, PlacesMean
    <2> QED BY <1>2, <1>3, <2>1, <2>2, PlacesMean
  <1>7. \A u \in TwoTasks : Calls(u)' => u \in ends' /\ u \in busy'
    <2>1. ~ Calls(rd)' /\ (Calls(wr)' => Calls(wr))
      BY <1>2, <1>4 DEF Calls
    <2>2. wr \in busy => wr \in busy'
      BY <1>0, <1>1
    <2> QED BY <1>0, <1>1, <1>3, <2>1, <2>2
  <1>8. Reasons'
    <2>1. ~ Sleeper(rd)'
      BY <1>2, <1>4 DEF Sleeper
    <2>2. npc[wr] # "unlock"
      BY <1>0, <1>1 DEF MutexKept, HasMutex, LockedPlaces
    <2>3. Sleeper(wr)' => wr \in passed'
      BY <1>2, <1>3, <2>2 DEF Sleeper
    <2>4. npc'[wr] = "synced" => mem'.state[wr] # "BLOCKED"
      BY <1>2, <1>3
    <2> QED BY <1>2, <1>3, <2>1, <2>3, <2>4 DEF Reasons
  <1> QED BY <1>2, <1>5, <1>6, <1>7, <1>8 DEF NamedKept

\* A pipe is not mended.
LEMMA NamedTorn == torn /\ F!Next => torn'
  BY DEF F!Next, F!Preempt, F!LeaveIdle, F!Open, F!fifo_get, F!GetReader, F!GetReaderWakes,
         F!UnblockIfAsleep, F!Block, F!mutex_lock, F!mutex_unlock, F!UnlockWakeup, F!WithTable,
         F!TakeTable, F!fifo_put, F!fifo_grow, F!fifo_set_flags, F!ReleaseTable, F!WriteBegin,
         F!ReadBegin, F!WriteTurn, F!ReadLook, F!ReadTake, F!ReadWake

LEMMA NextNamed == NamedInv /\ [F!Next]_(F!vars) => NamedInv'
  <1> SUFFICES ASSUME NamedInv, [F!Next]_(F!vars) PROVE NamedInv'
    OBVIOUS
  <1>1. CASE UNCHANGED F!vars
    <2>1. UNCHANGED <<mem, cur, named, ends, busy, len, rest, locked, waiters, wakes, npc, then,
                      passed, torn>>
      BY <1>1 DEF F!vars, F!slot, F!mutex
    <2>2. InMutex' = InMutex
      BY <2>1 DEF InMutex
    <2> QED BY <2>1, <2>2
            DEF NamedInv, NamedKept, NamedType, PlacesKept, MutexKept, HasMutex, Calls, Reasons, Sleeper
  <1>2. CASE F!Next
    <2> SUFFICES ASSUME ~ torn' PROVE NamedKept'
      BY DEF NamedInv
    <2>1. NamedKept
      BY <1>2, NamedTorn DEF NamedInv
    <2>2. CASE F!Preempt \/ F!LeaveIdle
      BY <2>1, <2>2, ClockNamed
    <2>3. CASE F!Open
      <3>1. ASSUME NEW t \in {rd, wr}, NEW flag \in BOOLEAN, F!fifo_get(t, flag) PROVE NamedKept'
        BY <2>1, <3>1, OpenNamed DEF TwoTasks
      <3> QED BY <2>1, <2>3, <3>1, GetReaderNamed, GetReaderWakesNamed DEF F!Open
    <2>4. ASSUME NEW t \in {rd, wr},
                 \/ F!Block(t) \/ F!mutex_lock(t) \/ F!mutex_unlock(t) \/ F!UnlockWakeup(t)
                 \/ F!WithTable(t)
          PROVE  NamedKept'
      <3>1. t \in TwoTasks
        BY DEF TwoTasks
      <3> QED BY <2>1, <2>4, <3>1, BlockNamed, EnterNamed, WaitNamed, LeaveNamed, TakeOffNamed,
                 WakeNamed, TableNamed
    <2>5. ASSUME NEW n \in Requests, F!WriteBegin(n) \/ F!ReadBegin(n) PROVE NamedKept'
      BY <2>1, <2>5, WriteBeginNamed, ReadBeginNamed
    <2>6. CASE F!WriteTurn \/ F!ReadLook \/ F!ReadTake \/ F!ReadWake
      BY <2>1, <2>6, WriteTurnNamed, ReadLookNamed, ReadTakeNamed, ReadWakeNamed
    <2> QED BY <1>2, <2>2, <2>3, <2>4, <2>5, <2>6 DEF F!Next
  <1> QED BY <1>1, <1>2

LEMMA NamedSays == NamedInv => NamedPipeServed
  <1> SUFFICES ASSUME NamedInv, ~ torn PROVE F!ListsKept /\ F!SleepsForReason
    BY DEF NamedPipeServed, F!PipeServed
  <1>1. /\ Kept(mem, InMutex, cur) /\ PlacesKept /\ MutexKept /\ Reasons
    BY DEF NamedInv, NamedKept
  <1>2. /\ F!Ends(mem, RQ) /\ F!Ends(mem, WQ) /\ F!Members(mem, RQ) = InState(mem, "READY")
        /\ F!Members(mem, WQ) = InMutex
        /\ \A x \in InState(mem, "READY") \cup {RQ} : mem.prev[mem.next[x]] = x
        /\ \A x \in InMutex \cup {WQ} : mem.prev[mem.next[x]] = x
    BY <1>1, KeptFacts
  <1>3. F!ListsKept
    <2>1. F!Ring(RQ) /\ F!Ring(WQ)
      BY <1>2 DEF F!Ring
    <2>2. F!Members(mem, RQ) = {t \in {rd, wr} : mem.state[t] = "READY"}
      BY <1>2 DEF InState, TwoTasks
    <2>3. F!Members(mem, WQ) =
             {t \in {rd, wr} : /\ mem.state[t] = "BLOCKED" /\ npc[t] = "lock"
                               /\ \A u \in {rd, wr} : wakes[u] # t}
      BY <1>2 DEF InMutex, TwoTasks
    <2>4. \A S : F!Cardinality(S) = Cardinality(S)
      BY DEF F!Cardinality, Cardinality
    <2>5. mem.bad = "no" /\ mem.len = F!Cardinality(F!Members(mem, RQ))
          /\ waiters = F!Cardinality(F!Members(mem, WQ))
      BY <1>1, <1>2, <2>4 DEF Kept, MutexKept
    <2> QED BY <2>1, <2>2, <2>3, <2>5 DEF F!ListsKept
  <1>4. F!SleepsForReason
    BY <1>1 DEF F!SleepsForReason, F!Asleep, Reasons, Sleeper
  <1> QED BY <1>3, <1>4

\* fifo_get, fifo_read, fifo_write (src/ipc/fifo.c): as long as nobody is
\* unblocked who sleeps in the mutex of the pipe, reader and writer sleep for a
\* reason or were passed over, and the ready queue and the list of the mutex,
\* pointer by pointer, hold the tasks they should; for any size and requests.
THEOREM NamedPipesServed == F!Spec => []NamedPipeServed
  <1>1. NamedInv /\ [F!Next]_(F!vars) => NamedInv'
    BY NextNamed
  <1> QED BY NamedInit, <1>1, NamedSays, PTL DEF F!Spec

=============================================================================
