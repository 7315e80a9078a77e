----------------------------- MODULE MCMachine ------------------------------
(***************************************************************************)
(* The processor and the memory it runs from, for TLC.  A behaviour        *)
(* exercises one part: a component of the processor, guest memory with its *)
(* code caches, or the page allocator alone, on more pages than the rest   *)
(* of memory can afford.                                                   *)
(***************************************************************************)
EXTENDS MCInterpreter, MCCodeCaches

VARIABLE pages      \* the allocator alone

Alone == INSTANCE PageAllocator WITH alloc <- pages, PageCount <- 7

memoryVars == <<vars, caches, title>>

MCInit ==
    /\ part \in ProcessorParts \cup {"memory", "pages"}
    /\ MemoryInit
    /\ part # "memory" => title = "translated" /\ image = Stored
    /\ Alone!AllocatorInit
    /\ ProcessorInit

MCNext ==
    /\ \/ part \in ProcessorParts /\ ProcessorNext /\ UNCHANGED <<memoryVars, pages>>
       \/ part = "memory" /\ MemoryNext /\ UNCHANGED <<processorVars, pages>>
       \/ part = "pages" /\ Alone!AllocatorNext /\ UNCHANGED <<processorVars, memoryVars>>
    /\ UNCHANGED part

(* Only the exercised part tells states apart.                             *)
MCView ==
    CASE part = "memory" -> <<part, MemoryView>>
      [] part = "pages" -> <<part, pages>>
      [] OTHER -> ProcessorView

-----------------------------------------------------------------------------
(* PageAllocator's property, of the allocator exercised alone              *)
(* (allocator.rs allocate, free, rollback_last): no page is lost or owned  *)
(* twice, and freed neighbours coalesce.                                   *)
PagesPartitioned == Alone!PagesPartitioned

=============================================================================
