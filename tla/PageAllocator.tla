---------------------------- MODULE PageAllocator ----------------------------
(***************************************************************************)
(* The allocator of physical pages alone, used as its callers in           *)
(* software.rs use it: what is freed was handed out, and a roll-back       *)
(* follows the allocation it takes back at once.                           *)
(***************************************************************************)
EXTENDS PhysicalAllocator

Allocate(n) == CanAllocate(alloc, n) /\ alloc' = Taken(alloc, n)

FreePages(start, n) == Span(start, n) \subseteq alloc.held
                      /\ alloc' = Returned(alloc, start, n)

(* map_anonymous where the virtual range is taken.                         *)
FailedMap(n) ==
    /\ CanAllocate(alloc, n)
    /\ alloc' = RolledBack(Taken(alloc, n), Placed(alloc, n), n)

ReservePhysicalThrough(target) == alloc' = ReservedThrough(alloc, target)

AllocatorInit == alloc = NewAllocator

AllocatorNext ==
    \/ \E n \in 1 .. PageCount : Allocate(n) \/ FailedMap(n)
    \/ \E s \in 0 .. PageCount, n \in 1 .. PageCount : FreePages(s, n)
    \/ \E target \in 0 .. PageCount : ReservePhysicalThrough(target)

AllocatorSpec == AllocatorInit /\ [][AllocatorNext]_alloc

-----------------------------------------------------------------------------
(* No page is lost and none has two owners, whatever is split, joined and  *)
(* rolled back, and freed neighbours coalesce, so that they can serve a    *)
(* larger request again (allocator.rs allocate, free, rollback_last).      *)
PagesPartitioned == PoolPartition /\ PoolCoalesced

=============================================================================
