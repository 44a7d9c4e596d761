------------------------------ MODULE VmSpace ------------------------------
(***************************************************************************)
(* The address ranges of a process: src/vmm/vmspace.c and                  *)
(* include/xbook/vmspace.h, a list of spaces in the order of their         *)
(* addresses, and the pages that are mapped.  The list is a sequence; one  *)
(* thread of the process calls at a time, for the code has no lock.        *)
(* kmalloc does not fail.                                                  *)
(*                                                                         *)
(* vmspace_insert gives back the memory of a space that stays linked when  *)
(* it merges the space with the next one: from then on (dangling) what the *)
(* list holds is up to the allocator, and the model stops.                 *)
(***************************************************************************)
EXTENDS Integers, Sequences, SequencesExt, FiniteSets, FiniteSetsExt

CONSTANTS PAGE_SIZE, USER_VMM_SIZE, MAX_VMS_HEAP_SIZE,
          HeapStart, MapStart, MapEnd, \* heap_start, map_start, map_end of the vmm
          Fixed,      \* addresses asked for with VMS_MAP_FIXED
          Length,     \* lengths asked for
          Flags       \* the kinds of mapping: VMS_MAP_SHARED and none

VMS_MAP_HEAP == "heap"

VmSpaceConstants ==
    /\ {PAGE_SIZE, USER_VMM_SIZE, MAX_VMS_HEAP_SIZE, HeapStart, MapStart, MapEnd} \subseteq Nat
    /\ Fixed \subseteq Nat /\ Length \subseteq Nat
    /\ PAGE_SIZE > 0 /\ 0 < HeapStart /\ HeapStart < MapStart /\ MapStart < MapEnd /\ MapEnd < USER_VMM_SIZE
    /\ \A a \in {USER_VMM_SIZE, HeapStart, MapStart, MapEnd} : a % PAGE_SIZE = 0
    /\ VMS_MAP_HEAP \notin Flags

VARIABLES spaces,     \* vmm->vmspace_head: records [start, end, flags]
          heap_end,
          pages,      \* the addresses of the pages that are mapped
          dangling    \* a freed space is linked

vars == <<spaces, heap_end, pages, dangling>>

Space(start, end, flags) == [start |-> start, end |-> end, flags |-> flags]

Pages(start, end) == {a \in start .. end - 1 : a % PAGE_SIZE = 0}

PAGE_ALIGN(a) == ((a + PAGE_SIZE - 1) \div PAGE_SIZE) * PAGE_SIZE

\* A process after exec: its image below the heap, its stack at the end.
\* proc_load_image sets the start of the heap behind the image.
Init ==
    LET image == Space(0, HeapStart, "image")
        stack == Space(MapEnd, USER_VMM_SIZE, "stack")
    IN  /\ spaces = <<image, stack>>
        /\ pages = Pages(0, HeapStart) \cup Pages(MapEnd, USER_VMM_SIZE)
        /\ heap_end = HeapStart
        /\ dangling = FALSE

-----------------------------------------------------------------------------
(* Searching.                                                              *)

\* The index of the first space that ends after addr; one more than there are
\* is NULL.
vmspace_find(addr) == Min({i \in 1 .. Len(spaces) : addr < spaces[i].end} \cup {Len(spaces) + 1})

Found(i) == i <= Len(spaces)

vmspace_find_intersection(start, end) ==
    LET i == vmspace_find(start) IN Found(i) /\ spaces[i].start < end

\* Where the search for len free bytes stands before the i-th space.
AddrBefore(i, first) == IF i = first THEN MapStart ELSE spaces[i - 1].end

\* vmspace_get_unmaped: the first gap that is large enough, -1 if none ends
\* before map_end.
vmspace_get_unmaped(len) ==
    LET first == vmspace_find(MapStart)
        addr(i) == AddrBefore(i, first)
        Stop(i) ==
            \/ ~ Found(i)
            \/ USER_VMM_SIZE - len < addr(i) \/ addr(i) + len >= MapEnd
            \/ addr(i) + len <= spaces[i].start
        i == Min({k \in first .. Len(spaces) + 1 : Stop(k)})
    IN  IF Found(i) /\ (USER_VMM_SIZE - len < addr(i) \/ addr(i) + len >= MapEnd)
        THEN -1 ELSE addr(i)

-----------------------------------------------------------------------------
\* vmspace_insert: before the first space that begins at or after its end;
\* neighbours of the same kind are merged.
vmspace_insert(list, s) ==
    LET at == Min({i \in 1 .. Len(list) : s.end <= list[i].start} \cup {Len(list) + 1})
        before == SubSeq(list, 1, at - 1)
        after == SubSeq(list, at, Len(list))
        prev == before # << >> /\ Last(before).end = s.start /\ Last(before).flags = s.flags
        next == after # << >> /\ s.end = Head(after).start /\ s.flags = Head(after).flags
        merged == Space(IF prev THEN Last(before).start ELSE s.start,
                        IF next THEN Head(after).end ELSE s.end, s.flags)
    IN  /\ spaces' = (IF prev THEN Front(before) ELSE before) \o <<merged>>
                        \o (IF next THEN Tail(after) ELSE after)
        /\ dangling' = next

\* do_vmspace_map with VMS_MAP_FIXED (addr) or without (addr = -1), its pages
\* mapped at the end.
do_vmspace_map(a, n, flags) ==
    LET len == PAGE_ALIGN(n)
        addr == IF a = -1 THEN vmspace_get_unmaped(len) ELSE a
    IN  /\ len > 0
        /\ a # -1 => a <= USER_VMM_SIZE - len /\ a % PAGE_SIZE = 0
        /\ a # -1 => ~ vmspace_find_intersection(a, a + len)
        /\ addr # -1
        /\ vmspace_insert(spaces, Space(addr, addr + len, flags))
        /\ pages' = pages \cup Pages(addr, addr + len)
        /\ UNCHANGED heap_end

\* Mutant: what is left behind the hole is forgotten.
UnmapTail(i, addr, end, garbage) ==
    LET s == spaces[i]
    IN  SubSeq(spaces, 1, i - 1)
            \o (IF s.start = addr THEN << >> ELSE <<Space(s.start, addr, s.flags)>>)
            \o SubSeq(spaces, i + 1, Len(spaces))

\* The space i is cut at addr and at end.  Nobody fills in the kind of the
\* second part.
Cut(i, addr, end, garbage) ==
    LET s == spaces[i]
    IN  SubSeq(spaces, 1, i - 1)
            \o (IF s.start = addr THEN << >> ELSE <<Space(s.start, addr, s.flags)>>)
            \o (IF end = s.end THEN << >> ELSE <<Space(end, s.end, garbage)>>)
            \o SubSeq(spaces, i + 1, Len(spaces))

\* do_vmspace_unmap.  Its result is -1 if nothing ends after addr, -2 if the
\* range is not part of one space, and 0.
UnmapResult(addr, len) ==
    LET i == vmspace_find(addr)
    IN  IF len = 0 \/ addr > USER_VMM_SIZE \/ len > USER_VMM_SIZE - addr \/ ~ Found(i) THEN -1
        ELSE IF addr < spaces[i].start \/ addr + len > spaces[i].end THEN -2 ELSE 0

Unmap(addr, len) ==
    /\ \E garbage \in Flags \cup {VMS_MAP_HEAP} :
          spaces' = Cut(vmspace_find(addr), addr, addr + len, garbage)
    /\ pages' = pages \ Pages(addr, addr + len)

\* sys_munmap by the program, on what it has mapped itself.
do_vmspace_unmap(addr, n) ==
    LET len == PAGE_ALIGN(n)
    IN  /\ addr % PAGE_SIZE = 0 /\ addr >= MapStart /\ addr + len <= MapEnd
        /\ UnmapResult(addr, len) = 0
        /\ Unmap(addr, len)
        /\ UNCHANGED <<heap_end, dangling>>

-----------------------------------------------------------------------------
(* sys_vmspace_heap.                                                       *)

\* Within a page.
HeapSame(heap) ==
    /\ heap >= HeapStart /\ PAGE_ALIGN(heap) = PAGE_ALIGN(heap_end)
    /\ heap_end' = heap
    /\ UNCHANGED <<spaces, pages, dangling>>

\* The heap shrinks.
HeapShrink(heap) ==
    LET new == PAGE_ALIGN(heap)
        old == PAGE_ALIGN(heap_end)
    IN  /\ heap >= HeapStart /\ heap <= heap_end /\ new # old
        /\ UnmapResult(new, old - new) = 0
        /\ Unmap(new, old - new)
        /\ heap_end' = heap
        /\ UNCHANGED dangling

CanGrow(heap) ==
    LET new == PAGE_ALIGN(heap)
        old == PAGE_ALIGN(heap_end)
    IN  /\ heap > heap_end /\ new # old
        /\ heap <= HeapStart + MAX_VMS_HEAP_SIZE
        /\ ~ vmspace_find_intersection(old, new + PAGE_SIZE)

\* It grows: do_vmspace_heap clears the range, fails if no space ends after it,
\* and extends the space of the heap if that ends here, whatever follows it.
HeapGrow(heap) ==
    LET new == PAGE_ALIGN(heap)
        old == PAGE_ALIGN(heap_end)
        i == vmspace_find(old - 1)
        mine == Found(i) /\ spaces[i].end = old /\ spaces[i].flags = VMS_MAP_HEAP
    IN  /\ CanGrow(heap)
        /\ UnmapResult(old, new - old) = -2
        /\ IF mine
           THEN spaces' = [spaces EXCEPT ![i].end = new] /\ UNCHANGED dangling
           ELSE vmspace_insert(spaces, Space(old, new, VMS_MAP_HEAP))
        /\ heap_end' = heap
        /\ UNCHANGED pages

\* A page of the heap is mapped when it is first used.
HeapFault(addr) ==
    /\ addr >= HeapStart /\ addr < PAGE_ALIGN(heap_end) /\ addr % PAGE_SIZE = 0
    /\ pages' = pages \cup {addr}
    /\ UNCHANGED <<spaces, heap_end, dangling>>

-----------------------------------------------------------------------------
Next ==
    /\ ~ dangling
    /\ \/ \E a \in Fixed \cup {-1}, n \in Length, f \in Flags : do_vmspace_map(a, n, f)
       \/ \E a \in 0 .. USER_VMM_SIZE, n \in Length : do_vmspace_unmap(a, n)
       \/ \E heap \in 0 .. USER_VMM_SIZE :
             HeapSame(heap) \/ HeapShrink(heap) \/ HeapGrow(heap)
       \/ \E a \in 0 .. USER_VMM_SIZE : HeapFault(a)

Spec == Init /\ [][Next]_vars

-----------------------------------------------------------------------------
(* Properties.                                                             *)

Covered == UNION {Pages(spaces[i].start, spaces[i].end) : i \in DOMAIN spaces}

\* The list and the page tables agree, whatever was mapped, unmapped in part,
\* merged and split before: the spaces are disjoint and in order, every mapped
\* page belongs to one, every page that a program has mapped is there, and the
\* heap is what lies in spaces from its start to its end.
SpacesExact ==
    /\ \A i \in DOMAIN spaces : spaces[i].start < spaces[i].end
    /\ \A i \in 1 .. Len(spaces) - 1 : spaces[i].end <= spaces[i + 1].start
    /\ pages \subseteq Covered
    /\ Covered \cap Pages(MapStart, MapEnd) \subseteq pages
    /\ Covered \cap Pages(HeapStart, MapStart) = Pages(HeapStart, PAGE_ALIGN(heap_end))
=============================================================================
