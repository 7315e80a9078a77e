----------------------------- MODULE GuestMemory -----------------------------
(***************************************************************************)
(* Guest memory: the page table and physical RAM of exbawks-memory         *)
(* (software.rs, page_table.rs, access.rs), the kernel services that place *)
(* memory (exbawks-kernel/src/runtime.rs, mm.rs, vm.rs), the loader, and   *)
(* the soft reboot of ADR 0015 (exbawks-core/src/emulator.rs).             *)
(*                                                                         *)
(* Addresses are page numbers.  Virtual page Window + p is the cached      *)
(* window's alias of physical page p (ADR 0010).  A page's bytes are one   *)
(* of Values, and `generation' is its u16 write count.                     *)
(***************************************************************************)
EXTENDS PhysicalAllocator, Sequences

CONSTANTS
    LowPages,        \* the kernel-owned low region load_xbe reserves
    BootPages,       \* kernel variables, boot stack and boot thread
    ImageBase,       \* the page the image is linked at
    UserBase,        \* USER_ALLOC_BASE
    UserEnd,         \* USER_ALLOC_END
    ReserveAlign,    \* RESERVE_ALIGN
    Window,          \* the page at 0x8000_0000
    Values,          \* bytes of a page; Zeros among them
    Zeros,
    Images,          \* the bytes of the titles' code page
    GenerationSize,  \* 2^16
    MaxRelaunches,   \* MAX_RELAUNCHES
    MaxSize          \* bound: pages the guest asks for at once

Page == 0 .. PageCount - 1
InWindow(v) == v \in Window .. Window + PageCount - 1
User == UserBase .. UserEnd - 1
VirtualPage == {ImageBase} \cup User \cup {Window + p : p \in Page}
RW == {"r", "w"}
RWX == {"r", "w", "x"}
NoPage == -1         \* an invalid descriptor
NoLaunch == -1       \* a null LaunchDataPage
Unmapped == [page |-> NoPage, perms |-> {}]

ASSUME GuestMemoryAssumption ==
    /\ {PageCount, LowPages, BootPages, ReserveAlign, GenerationSize, MaxSize} \subseteq Nat \ {0}
    /\ {ImageBase, UserBase, UserEnd, Window, MaxRelaunches} \subseteq Nat
    /\ GenerationSize > 1 /\ LowPages + 1 + BootPages <= PageCount
    /\ ImageBase < UserBase /\ UserBase <= UserEnd /\ UserEnd < Window
    /\ Zeros \in Values /\ Images \subseteq Values

VARIABLES
    table,       \* the page table: a descriptor for each virtual page
    bytes,       \* physical RAM
    generation,  \* of each physical page, bumped by every write to it
    pool,        \* pool_sizes: pages of each block, by physical page
    persisted,   \* the regions to survive a soft reboot, oldest first
    cursor,      \* user_cursor
    launch,      \* the LaunchDataPage cell
    image,       \* the loaded image's bytes
    last,        \* last_relaunch_data
    relaunches,  \* relaunches of this run
    stopped,     \* why the run ended, "" while it goes on
    dirty,       \* history: pages written while nobody held them
    restored     \* history: pages the last relaunch restored

memory == <<alloc, table, bytes, generation>>
services == <<pool, persisted, cursor, launch>>
session == <<image, last, relaunches, stopped>>
histories == <<dirty, restored>>
vars == <<memory, services, session, histories>>

(* The generations after one more write to each page of `pages'.           *)
Bumped(g, pages) ==
    [p \in Page |-> IF p \in pages THEN (g[p] + 1) % GenerationSize ELSE g[p]]

-----------------------------------------------------------------------------
(* SoftwareAddressSpace, as functions of its four fields.                  *)

Now == [alloc |-> alloc, table |-> table, bytes |-> bytes,
        generation |-> generation]

Becomes(m) == /\ alloc' = m.alloc /\ table' = m.table
              /\ bytes' = m.bytes /\ generation' = m.generation

Accessible(m, v, n, access) ==
    \A w \in Span(v, n) : w \in DOMAIN m.table /\ access \in m.table[w].perms

Backing(m, v, n) == {m.table[w].page : w \in Span(v, n)}

(* A checked write, of page w's bytes to x[w]; all of it or nothing.       *)
Written(m, v, n, x) ==
    [m EXCEPT
        !.bytes = [p \in Page |->
                      IF p \in Backing(m, v, n)
                      THEN x[CHOOSE w \in Span(v, n) : m.table[w].page = p]
                      ELSE @[p]],
        !.generation = Bumped(@, Backing(m, v, n))]

Free(m, v, n) == \A w \in Span(v, n) : w \in DOMAIN m.table /\ m.table[w] = Unmapped

Mapped(m, v, n, p, perms) ==
    [m EXCEPT !.table = [w \in VirtualPage |->
        IF w \in Span(v, n) THEN [page |-> p + (w - v), perms |-> perms] ELSE @[w]]]

(* map_anonymous: consecutive physical pages behind a free virtual range.  *)
(* When the range is taken, the allocation is rolled back.                 *)
CanMap(m, v, n) == CanAllocate(m.alloc, n) /\ Free(m, v, n)

MapAnonymous(m, v, n, perms) ==
    LET p == Placed(m.alloc, n)
        taken == [m EXCEPT !.alloc = Taken(@, n)]
    IN  IF ~CanAllocate(m.alloc, n) THEN m
        ELSE IF ~Free(m, v, n)
             THEN [taken EXCEPT !.alloc = RolledBack(@, p, n)]
             ELSE Mapped(taken, v, n, p, perms)

Protected(m, v, n, perms) ==
    [m EXCEPT !.table = [w \in VirtualPage |->
        IF w \in Span(v, n) THEN [@[w] EXCEPT !.perms = perms] ELSE @[w]]]

(* A mutation: the pages keep their old bytes.                             *)
FreeUnscrubbed(m, p, n) ==
    [m EXCEPT !.alloc = Returned(@, p, n),
              !.generation = Bumped(@, Span(p, n))]

(* free_physical: scrubbed, its cached translations dropped, and pooled.   *)
FreePhysical(m, p, n) ==
    [m EXCEPT !.alloc = Returned(@, p, n),
              !.bytes = [q \in Page |-> IF q \in Span(p, n) THEN Zeros ELSE @[q]],
              !.generation = Bumped(@, Span(p, n))]

(* allocate_kernel_block: a block addressed through the window, scrubbed   *)
(* because the guest can write through the window before it is allocated.  *)
KernelBlock(m, n) ==
    LET p == Placed(m.alloc, n) IN
    Written([m EXCEPT !.alloc = Taken(@, n)], Window + p, n,
            [w \in Span(Window + p, n) |-> Zeros])

-----------------------------------------------------------------------------
(* load_xbe.  The low region and the window come first, then the pages a   *)
(* soft reboot has to keep (`through': where they end), and only then the  *)
(* image and the kernel's blocks.                                          *)
Empty == [alloc      |-> NewAllocator,
          table      |-> [v \in VirtualPage |-> Unmapped],
          bytes      |-> [p \in Page |-> Zeros],
          generation |-> [p \in Page |-> 0]]

LowMemory ==
    Mapped([Empty EXCEPT !.alloc = Taken(@, LowPages)],
           Window, PageCount, 0, RW)

Reserved(m, through) ==
    [m EXCEPT !.alloc = ReservedThrough(
                            @, IF through > PageCount THEN PageCount ELSE through)]

(* map_xbe: mapped writable, filled, then given the section's permissions. *)
MapXbe(m, img) ==
    Protected(Written(MapAnonymous(m, ImageBase, 1, RW), ImageBase, 1,
                      [w \in {ImageBase} |-> img]),
              ImageBase, 1, RWX)

(* The kernel's own image closes the low region and ends read-execute.     *)
MapKernelImage(m) ==
    LET v == Window + LowPages - 1 IN
    Protected(Written(m, v, 1, [w \in {v} |-> Zeros]), v, 1, {"r", "x"})

Load(img, through) ==
    KernelBlock(MapKernelImage(MapXbe(Reserved(LowMemory, through), img)), BootPages)

CanLoad(through) ==
    LowPages + 1 + BootPages <= PageCount /\ through + 1 + BootPages <= PageCount

-----------------------------------------------------------------------------
(* Exports and guest instructions.                                         *)

Running == stopped = ""

(* The dirty pages are the ones written that no owner held.                *)
Dirties(written) == dirty' = (dirty \cup written) \ alloc'.held

(* A store, of one page's bytes or across a page boundary.                 *)
GuestWrite(v, n, x) ==
    /\ Running
    /\ Accessible(Now, v, n, "w")
    /\ Becomes(Written(Now, v, n, [w \in Span(v, n) |-> x]))
    /\ Dirties(Backing(Now, v, n))
    /\ UNCHANGED <<services, session, restored>>

(* MmAllocateContiguousMemory, ExAllocatePool and the like.                *)
AllocateContiguous(n) ==
    /\ Running
    /\ CanAllocate(alloc, n)
    /\ Becomes(KernelBlock(Now, n))
    /\ pool' = With(pool, Placed(alloc, n), n)
    /\ Dirties({})
    /\ UNCHANGED <<persisted, cursor, launch, session, restored>>

InPersisted(p) == \E i \in DOMAIN persisted :
    Window + p \in Span(persisted[i].base, persisted[i].n)

(* A mutation: the block's size is still on record after the free.         *)
FreeContiguousKeepsSize(p) ==
    /\ Running
    /\ p \in DOMAIN pool
    /\ Becomes(IF InPersisted(p) THEN Now ELSE FreePhysical(Now, p, pool[p]))
    /\ Dirties({})
    /\ UNCHANGED <<services, session, restored>>

(* MmFreeContiguousMemory of a block that was handed out; one the guest    *)
(* persisted is forgotten but keeps its pages.                             *)
FreeContiguous(p) ==
    /\ Running
    /\ p \in DOMAIN pool
    /\ Becomes(IF InPersisted(p) THEN Now ELSE FreePhysical(Now, p, pool[p]))
    /\ pool' = Without(pool, p)
    /\ Dirties({})
    /\ UNCHANGED <<persisted, cursor, launch, session, restored>>

(* The pages of a created thread: a guard page, its stack and its KPCR.    *)
(* The guard is best effort, and a later failure keeps what came before.   *)
Guarded(m) == IF CanAllocate(m.alloc, 1)
              THEN [m EXCEPT !.alloc = Taken(@, 1)] ELSE m

TryBlock(m) == IF CanAllocate(m.alloc, 1) THEN KernelBlock(m, 1) ELSE m

CreateThread ==
    /\ Running
    /\ Becomes(TryBlock(TryBlock(Guarded(Now))))
    /\ Dirties({})
    /\ UNCHANGED <<services, session, restored>>

(* One page of a commit: backed if it is fresh, and given the protection   *)
(* if an earlier commit backed it.  done.ok is the `?' of the loop.        *)
CommitPage(done, v, perms) ==
    LET tried == MapAnonymous(done.m, v, 1, perms) IN
    IF ~done.ok THEN done
    ELSE IF CanMap(done.m, v, 1) THEN [done EXCEPT !.m = tried]
    ELSE IF done.m.table[v] # Unmapped
         THEN [done EXCEPT !.m = Protected(tried, v, 1, perms)]
         ELSE [done EXCEPT !.ok = FALSE]

Committed(m, v, n, perms) ==
    LET done[i \in 0 .. n] == IF i = 0 THEN [m |-> m, ok |-> TRUE]
                              ELSE CommitPage(done[i - 1], v + i - 1, perms)
    IN  done[n].m

FreshStart ==
    ((cursor + ReserveAlign - 1) \div ReserveAlign) * ReserveAlign

(* NtAllocateVirtualMemory where the kernel chooses the base.  The cursor  *)
(* moves even when the commit then runs out of pages.                      *)
AllocateFresh(n, commit, perms) ==
    /\ Running
    /\ FreshStart + n <= UserEnd
    /\ cursor' = FreshStart + n
    /\ Becomes(IF commit THEN Committed(Now, FreshStart, n, perms) ELSE Now)
    /\ Dirties({})
    /\ UNCHANGED <<pool, persisted, launch, session, restored>>

(* NtAllocateVirtualMemory at the caller's base, to commit.                *)
AllocateAt(v, n, perms) ==
    /\ Running
    /\ Span(v, n) \subseteq User
    /\ Becomes(Committed(Now, v, n, perms))
    /\ Dirties({})
    /\ UNCHANGED <<services, session, restored>>

-----------------------------------------------------------------------------
(* Launch data and the soft reboot.                                        *)

(* persist_memory: one entry per base, grown to the largest request.       *)
PersistMemory(base, n) ==
    IF \E i \in DOMAIN persisted : persisted[i].base = base
    THEN [i \in DOMAIN persisted |->
             IF persisted[i].base = base /\ n > persisted[i].n
             THEN [persisted[i] EXCEPT !.n = n] ELSE persisted[i]]
    ELSE Append(persisted, [base |-> base, n |-> n])

(* What a title may persist: its contiguous blocks, what the last boot     *)
(* left it, and committed user pages.                                      *)
Persistable(base, n) ==
    \/ \E p \in DOMAIN pool : base = Window + p /\ n <= pool[p]
    \/ InWindow(base) /\ {v - Window : v \in Span(base, n)} \subseteq restored
    \/ Span(base, n) \subseteq User /\ Accessible(Now, base, n, "r")

MmPersistContiguousMemory(base, n) ==
    /\ Running
    /\ Persistable(base, n)
    /\ persisted' = PersistMemory(base, n)
    /\ UNCHANGED <<memory, pool, cursor, launch, session, histories>>

(* The guest stores the address of a persisted region in LaunchDataPage.   *)
SetLaunchDataPage ==
    /\ Running
    /\ \E i \in DOMAIN persisted : launch' = persisted[i].base
    /\ UNCHANGED <<memory, pool, persisted, cursor, session, histories>>

(* The persisted regions that can be read, and their bytes, before the     *)
(* reset.                                                                  *)
Readable ==
    LET pushed[i \in 0 .. Len(persisted)] ==
            IF i = 0 THEN << >>
            ELSE IF Accessible(Now, persisted[i].base, persisted[i].n, "r")
                 THEN Append(pushed[i - 1], persisted[i]) ELSE pushed[i - 1]
    IN  pushed[Len(persisted)]

Snapshots ==
    [i \in DOMAIN Readable |->
        [base |-> Readable[i].base, n |-> Readable[i].n,
         data |-> [w \in Span(Readable[i].base, Readable[i].n) |->
                      bytes[table[w].page]]]]

(* Content only: the lengths and bytes, not where they are.                *)
Fingerprint(snapshots) ==
    [i \in DOMAIN snapshots |->
        [j \in 1 .. snapshots[i].n |-> snapshots[i].data[snapshots[i].base + j - 1]]]

(* Where the physical pages of the window's regions end.                   *)
KeepThrough(snapshots) ==
    Highest({0} \cup {snapshots[i].base - Window + snapshots[i].n :
                      i \in {j \in DOMAIN snapshots : InWindow(snapshots[j].base)}})

(* A mutation: every region is mapped first, window or not.                *)
RestoreMapsAll(m, s) ==
    LET there == MapAnonymous(m, s.base, s.n, RW) IN
    IF CanMap(m, s.base, s.n) /\ Accessible(there, s.base, s.n, "w")
    THEN Written(there, s.base, s.n, s.data) ELSE there

(* A window region is written back in place; another one is mapped first,  *)
(* and skipped when it cannot be.                                          *)
Restore(m, s) ==
    LET there == IF InWindow(s.base) THEN m ELSE MapAnonymous(m, s.base, s.n, RW) IN
    IF (InWindow(s.base) \/ CanMap(m, s.base, s.n)) /\ Accessible(there, s.base, s.n, "w")
    THEN Written(there, s.base, s.n, s.data) ELSE there

Relaunched(snapshots) ==
    LET restore[i \in 0 .. Len(snapshots)] ==
            IF i = 0 THEN Load(image, KeepThrough(snapshots))
            ELSE Restore(restore[i - 1], snapshots[i])
    IN  restore[Len(snapshots)]

FreshServices == pool' = << >> /\ persisted' = << >> /\ cursor' = UserBase

(* HalReturnToFirmware without a target, with the same launch data as the  *)
(* relaunch before, or once too often, ends the run.                       *)
RebootEnds(snapshots) ==
    \/ launch = NoLaunch
    \/ relaunches = MaxRelaunches
    \/ snapshots # << >> /\ last = Fingerprint(snapshots)

EndRun ==
    /\ Running /\ RebootEnds(Snapshots)
    /\ stopped' = "reboot"
    /\ UNCHANGED <<memory, services, image, last, relaunches, histories>>

Relaunch ==
    /\ Running /\ ~RebootEnds(Snapshots)
    /\ CanLoad(KeepThrough(Snapshots))
    /\ Becomes(Relaunched(Snapshots))
    /\ FreshServices
    /\ last' = Fingerprint(Snapshots)
    /\ relaunches' = relaunches + 1
    /\ dirty' = {}
    /\ restored' = UNION {{v - Window : v \in Span(Snapshots[i].base, Snapshots[i].n)} :
                             i \in {j \in DOMAIN Snapshots : InWindow(Snapshots[j].base)}}
    /\ UNCHANGED <<launch, image, stopped>>

(* The reset has happened when load_xbe runs out of physical pages.        *)
RelaunchFails ==
    /\ Running /\ ~RebootEnds(Snapshots)
    /\ ~CanLoad(KeepThrough(Snapshots))
    /\ Becomes(Empty)
    /\ FreshServices /\ launch' = NoLaunch
    /\ last' = << >> /\ stopped' = "error"
    /\ dirty' = {} /\ restored' = {}
    /\ UNCHANGED <<image, relaunches>>

(* reset, then load_xbe of any title, and a new run.                       *)
HostLoads(img) ==
    /\ Becomes(Load(img, 0))
    /\ FreshServices /\ launch' = NoLaunch
    /\ image' = img /\ last' = << >> /\ stopped' = ""
    /\ relaunches' = 0
    /\ dirty' = {} /\ restored' = {}

-----------------------------------------------------------------------------
Init ==
    \E img \in Images :
        LET m == Load(img, 0) IN
        /\ alloc = m.alloc /\ table = m.table /\ bytes = m.bytes
        /\ generation = m.generation
        /\ pool = << >> /\ persisted = << >> /\ cursor = UserBase /\ launch = NoLaunch
        /\ image = img /\ last = << >> /\ relaunches = 0 /\ stopped = ""
        /\ dirty = {} /\ restored = {}

(* What the running guest does, and what builds a new machine.             *)
GuestNext ==
    \/ \E v \in VirtualPage, n \in 1 .. MaxSize, x \in Values : GuestWrite(v, n, x)
    \/ \E n \in 1 .. MaxSize : AllocateContiguous(n)
    \/ \E p \in Page : FreeContiguous(p)
    \/ CreateThread
    \/ \E n \in 1 .. MaxSize, commit \in BOOLEAN, perms \in {RW, RWX} :
           AllocateFresh(n, commit, perms)
    \/ \E v \in User, n \in 1 .. MaxSize, perms \in {RW, RWX} : AllocateAt(v, n, perms)
    \/ \E base \in VirtualPage, n \in 1 .. MaxSize : MmPersistContiguousMemory(base, n)
    \/ SetLaunchDataPage
    \/ EndRun

BootNext ==
    \/ Relaunch \/ RelaunchFails
    \/ \E img \in Images : HostLoads(img)

Next == GuestNext \/ BootNext

Spec == Init /\ [][Next]_vars

-----------------------------------------------------------------------------

(* Pages behind the image and user memory, and behind pool blocks.         *)
Mapping == {v \in VirtualPage : ~InWindow(v) /\ table[v] # Unmapped}
PoolPages == UNION {Span(p, pool[p]) : p \in DOMAIN pool}

(* A physical page has one owner: blocks of the pool, virtual pages outside*)
(* the window and the pages a relaunch restored never share one, and all   *)
(* of them, like the persisted regions, stay out of the free pages,        *)
(* through splits, frees, roll-backs and failed commits (free_contiguous,  *)
(* "Persisted regions (ADR 0015) stay out of the pool").                   *)
OneOwner ==
    /\ \A p, q \in DOMAIN pool : p # q => Span(p, pool[p]) \cap Span(q, pool[q]) = {}
    /\ \A v, w \in Mapping : v # w => table[v].page # table[w].page
    /\ LET mapped == {table[v].page : v \in Mapping} IN
       /\ mapped \cap PoolPages = {}
       /\ restored \cap (mapped \cup PoolPages) = {}
       /\ mapped \cup PoolPages \cup restored \subseteq alloc.held
    /\ \A i \in DOMAIN persisted :
          \A v \in Span(persisted[i].base, persisted[i].n) :
              InWindow(v) => v - Window \in alloc.held
    /\ PoolPartition

(* map_anonymous, "Maps zeroed contiguous physical pages": a page that can *)
(* be handed out holds zeros, however often it was used before, unless the *)
(* guest wrote to it through the window while nobody held it.              *)
PoolZeroed ==
    \A p \in Page \ (alloc.held \cup dirty) : bytes[p] = Zeros

(* A relaunch brings back every persisted byte of the window at its        *)
(* address, and the image it restarts is intact.                           *)
RelaunchIntact ==
    [][relaunches' > relaunches =>
        /\ bytes'[table'[ImageBase].page] = image
        /\ \A i \in DOMAIN persisted :
               \A v \in Span(persisted[i].base, persisted[i].n) :
                   InWindow(v) => bytes'[v - Window] = bytes[v - Window]]_vars
=============================================================================
