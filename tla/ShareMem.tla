------------------------------ MODULE ShareMem ------------------------------
(***************************************************************************)
(* Shared memory: src/ipc/sharemem.c, and what fork and the end of a       *)
(* process do to it.  A slot of the table is found under the semaphore of  *)
(* the table and used after it is released; a step is what runs between    *)
(* two points where another process can come in that matters to the slot.  *)
(*                                                                         *)
(* A block of physical pages is a member of Page, or a process: that       *)
(* stands for the page of its own memory that it shares.  A process has    *)
(* one mapping at a time (where mappings go is the subject of VmSpace).    *)
(***************************************************************************)
EXTENDS Integers, FiniteSets, FiniteSetsExt

CONSTANTS Proc, FirstProc, \* processes, and the one there is at the start
          Slot,            \* share_mem_table, searched from the lowest
          Name, NoName, Page, NoPage,
          MaxLinks         \* no more mappings are asked for at this number

ShareMemConstants ==
    /\ FirstProc \in Proc /\ NoName \notin Name
    /\ Slot \subseteq Nat /\ Slot # {} /\ MaxLinks \in Nat
    /\ NoPage \notin Page \cup Proc /\ Page \cap Proc = {}

VARIABLES shm,       \* records [name, page, links, private]
          free,      \* blocks that the page allocator has
          live,
          view,      \* the block that a process has mapped
          attached,  \* the process has shared a page of its own
          pc, slot,  \* where in a call a process is, and with which slot
          disturbed, \* see SharedPagesLive
          panicked

vars == <<shm, free, live, view, attached, pc, slot, disturbed, panicked>>

\* init_share_mem.
Init ==
    /\ shm = [s \in Slot |->
                 [name |-> NoName, page |-> NoPage, links |-> 0, private |-> FALSE]]
    /\ free = Page
    /\ live = {FirstProc}
    /\ view = [p \in Proc |-> NoPage]
    /\ attached = {}
    /\ pc = [p \in Proc |-> "user"]
    /\ slot = [p \in Proc |-> Min(Slot)]
    /\ disturbed = FALSE /\ panicked = FALSE

Calls(p) == p \in live /\ pc[p] = "user"
Named(s) == shm[s].name # NoName

\* share_mem_find_by_name, share_mem_find_by_addr: the first such slot.
find_by_name(n) == {s \in Slot : shm[s].name = n}
find_by_addr(block) == {s \in Slot : Named(s) /\ shm[s].page = block}

Go(p, step) == pc' = [pc EXCEPT ![p] = step]

\* share_mem_get, all of it under the semaphore: share_mem_alloc does not set links.
share_mem_get(p, n) ==
    LET unused == find_by_name(NoName)
    IN  /\ Calls(p) /\ find_by_name(n) = {} /\ unused # {}
        /\ shm' = [shm EXCEPT ![Min(unused)].name = n, ![Min(unused)].page = NoPage,
                              ![Min(unused)].private = FALSE]
        /\ UNCHANGED <<free, live, view, attached, pc, slot, disturbed, panicked>>

-----------------------------------------------------------------------------
(* share_mem_map.                                                          *)

\* The slot is found; an address is given or not.
MapFind(p, s) ==
    /\ Calls(p) /\ Named(s) /\ shm[s].links < MaxLinks
    /\ \/ view[p] = NoPage /\ Go(p, "test")
       \/ Go(p, "test own")
    /\ slot' = [slot EXCEPT ![p] = s]
    /\ UNCHANGED <<shm, free, live, view, attached, disturbed, panicked>>

\* Has the memory been allocated?
MapTest(p) ==
    /\ pc[p] \in {"test", "test own"}
    /\ Go(p, IF shm[slot[p]].page # NoPage
             THEN (IF pc[p] = "test" THEN "mmap" ELSE "inc own")
             ELSE (IF pc[p] = "test" THEN "alloc" ELSE "share own"))
    /\ UNCHANGED <<shm, free, live, view, attached, slot, disturbed, panicked>>

\* What the slot held is written over; somebody else has put it there since
\* MapTest.
Overwrites(p) == shm[slot[p]].page # NoPage

\* alloc_pages; if there are none the 0 is in the slot before it is looked at,
\* and the call fails.
MapAlloc(p) ==
    /\ pc[p] = "alloc"
    /\ \E block \in IF free = {} THEN {NoPage} ELSE free :
           /\ shm' = [shm EXCEPT ![slot[p]].page = block]
           /\ free' = free \ {block}
           /\ Go(p, IF block = NoPage THEN "user" ELSE "mmap")
    /\ disturbed' = (disturbed \/ Overwrites(p))
    /\ UNCHANGED <<live, view, attached, slot, panicked>>

\* vmspace_mmap of what page_addr is now.
MapMmap(p) ==
    /\ pc[p] = "mmap"
    /\ view' = [view EXCEPT ![p] = shm[slot[p]].page]
    /\ Go(p, "inc")
    /\ UNCHANGED <<shm, free, live, attached, slot, disturbed, panicked>>

\* The page at the address becomes the shared one; where nothing is mapped it
\* is the 0 of addr_v2p, and the call fails.
MapShareOwn(p) ==
    /\ pc[p] = "share own"
    /\ \/ /\ shm' = [shm EXCEPT ![slot[p]].page = p, ![slot[p]].private = TRUE]
          /\ disturbed' = (disturbed \/ Overwrites(p) \/ find_by_addr(p) # {})
          /\ Go(p, "inc own")
       \/ /\ shm' = [shm EXCEPT ![slot[p]].page = NoPage]
          /\ disturbed' = (disturbed \/ Overwrites(p))
          /\ Go(p, "user")
    /\ UNCHANGED <<free, live, view, attached, slot, panicked>>

\* The mapping is counted, also for an address where other memory is than that
\* of the slot.
MapInc(p) ==
    /\ pc[p] \in {"inc", "inc own"}
    /\ shm' = [shm EXCEPT ![slot[p]].links = @ + 1]
    /\ attached' = IF pc[p] = "inc own" THEN attached \cup {p} ELSE attached
    /\ disturbed' = (disturbed \/ (pc[p] = "inc own" /\ shm[slot[p]].page # p))
    /\ Go(p, "user")
    /\ UNCHANGED <<free, live, view, slot, panicked>>

-----------------------------------------------------------------------------
(* share_mem_unmap.                                                        *)

\* The slot is found by the physical address, and its flags are read without a
\* look whether there is one.
UnmapFind(p, block) ==
    /\ Calls(p)
    /\ block # NoPage /\ (block = view[p] \/ (block = p /\ p \in attached))
    /\ LET found == find_by_addr(block)
       IN  IF found = {} THEN panicked' = TRUE /\ UNCHANGED <<pc, slot>>
           ELSE /\ slot' = [slot EXCEPT ![p] = Min(found)]
                /\ Go(p, IF block = view[p] THEN "unmap" ELSE "unmap own")
                /\ UNCHANGED panicked
    /\ UNCHANGED <<shm, free, live, view, attached, disturbed>>

\* do_vmspace_unmap, unless the memory was a process's own.
UnmapView(p) ==
    /\ pc[p] = "unmap"
    /\ IF shm[slot[p]].private THEN disturbed' = TRUE /\ UNCHANGED view
       ELSE view' = [view EXCEPT ![p] = NoPage] /\ UNCHANGED disturbed
    /\ Go(p, "dec")
    /\ UNCHANGED <<shm, free, live, attached, slot, panicked>>

UnmapOwn(p) ==
    /\ pc[p] = "unmap own"
    /\ attached' = attached \ {p}
    /\ Go(p, "dec")
    /\ UNCHANGED <<shm, free, live, view, slot, disturbed, panicked>>

UnmapDec(p) ==
    /\ pc[p] = "dec"
    /\ shm' = [shm EXCEPT ![slot[p]].links = @ - 1]
    /\ Go(p, "user")
    /\ UNCHANGED <<free, live, view, attached, slot, disturbed, panicked>>

-----------------------------------------------------------------------------
\* A process between finding a slot and counting itself.
Mapping(s) ==
    {p \in Proc : slot[p] = s /\ pc[p] \notin {"user", "unmap", "unmap own", "dec"}}

\* Mutant: the links are not looked at.
FreeableAlways(s) == TRUE

\* atomic_get(&shm->links) <= 0.
Freeable(s) == shm[s].links <= 0

\* share_mem_put, under the semaphore, with share_mem_free.
share_mem_put(p, s) ==
    /\ Calls(p) /\ Named(s) /\ Freeable(s)
    /\ free' = free \cup (IF shm[s].private THEN {} ELSE {shm[s].page} \ {NoPage})
    /\ shm' = [shm EXCEPT ![s].name = NoName]
    /\ disturbed' = (disturbed \/ Mapping(s) # {})
    /\ UNCHANGED <<live, view, attached, pc, slot, panicked>>

\* copy_vm_vmspace of fork: share_mem_grow for a mapping that has a slot.
Fork(p, c) ==
    /\ Calls(p) /\ c \notin live
    /\ live' = live \cup {c}
    /\ view' = [view EXCEPT ![c] = view[p]]
    /\ attached' = IF p \in attached THEN attached \cup {c} ELSE attached \ {c}
    /\ LET found == IF view[p] = NoPage THEN {} ELSE find_by_addr(view[p])
       IN  /\ \A s \in found : shm[s].links < MaxLinks
           /\ shm' = [s \in Slot |->
                 IF found # {} /\ s = Min(found) THEN [shm[s] EXCEPT !.links = @ + 1]
                 ELSE shm[s]]
    /\ UNCHANGED <<free, pc, slot, disturbed, panicked>>

\* The end of a process: its mapping goes, its own page is freed, and the
\* links stay.
Exit(p) ==
    /\ Calls(p) /\ live # {p}
    /\ live' = live \ {p}
    /\ view' = [view EXCEPT ![p] = NoPage]
    /\ attached' = attached \ {p}
    /\ disturbed' = (disturbed \/ find_by_addr(p) # {})
    /\ UNCHANGED <<shm, free, pc, slot, panicked>>

Map(p) == MapTest(p) \/ MapAlloc(p) \/ MapMmap(p) \/ MapShareOwn(p) \/ MapInc(p)

Next ==
    /\ ~ panicked
    /\ \E p \in Proc :
          \/ \E n \in Name : share_mem_get(p, n)
          \/ \E s \in Slot : MapFind(p, s) \/ share_mem_put(p, s)
          \/ Map(p)
          \/ \E block \in {view[p], p} : UnmapFind(p, block)
          \/ UnmapView(p) \/ UnmapOwn(p) \/ UnmapDec(p)
          \/ \E c \in Proc : Fork(p, c)
          \/ Exit(p)

Spec == Init /\ [][Next]_vars

-----------------------------------------------------------------------------
(* Properties.                                                             *)

\* The allocator does not have what a process has mapped, the slot of a mapping
\* can be found by share_mem_unmap, and its links count every process that maps
\* it.  Until a slot is put away from a process that is mapping it, a process
\* writes to a slot what it got from alloc_pages or addr_v2p, memory or none,
\* after another one has put memory there, the memory that a process has shared
\* of its own is unmapped by another one or goes with the process, or a process
\* is counted in a slot that is not the one share_mem_unmap will find: it shares
\* its page under two names, or gives its address for a slot with other memory.
Counted(s) ==
    {p \in Proc : pc[p] # "inc" /\ (view[p] = shm[s].page \/ (pc[p] = "dec" /\ slot[p] = s))}

SharedPagesLive ==
    ~ disturbed =>
        /\ \A p \in Proc : view[p] \notin free
        /\ \A p \in Proc : view[p] \in Page => find_by_addr(view[p]) # {}
        /\ \A s \in Slot :
              Named(s) /\ shm[s].page \in Page => shm[s].links >= Cardinality(Counted(s))
=============================================================================
