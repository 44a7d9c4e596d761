-------------------------------- MODULE Lock --------------------------------
(***************************************************************************)
(* What a family of mutual-exclusion locks promises: a lock has at most    *)
(* one owner, and passes from one owner to the next only by being free.    *)
(* The kernel's mutex (Mutex) and synchronisation lock (SyncLock) are      *)
(* shown to implement it.                                                  *)
(***************************************************************************)
CONSTANTS Task, Name, NoTask

VARIABLE owner

LockInit == owner = [l \in Name |-> NoTask]

Acquire(t, l) ==
    /\ owner[l] = NoTask
    /\ owner' = [owner EXCEPT ![l] = t]

Release(t, l) ==
    /\ owner[l] = t
    /\ owner' = [owner EXCEPT ![l] = NoTask]

LockNext == \E t \in Task, l \in Name : Acquire(t, l) \/ Release(t, l)

LockSpec == LockInit /\ [][LockNext]_owner
=============================================================================
