----------------------------- MODULE CodeCaches ------------------------------
(***************************************************************************)
(* The two caches of decoded guest code over GuestMemory: the              *)
(* interpreter's decoded instructions (exbawks-cpu/src/cache.rs, used by   *)
(* Emulator::assist_at_current_eip) and the translated blocks              *)
(* (exbawks-jit/src/cache.rs, used by Emulator::compiled_block_at).  Both  *)
(* are validated by the generations of the physical pages the code came    *)
(* from (ADR 0005).                                                        *)
(*                                                                         *)
(* An instruction at page v is the one that begins before the page's end:  *)
(* bytes in LongCode run into the next page, others do not.                *)
(***************************************************************************)
EXTENDS GuestMemory

CONSTANTS
    LongCode,       \* page bytes whose instruction straddles the boundary
    CacheEntries,   \* CACHE_ENTRIES: slots of the decoded cache
    MaxEpoch        \* bound on the epoch

ASSUME CodeCachesAssumption ==
    LongCode \subseteq Values /\ CacheEntries \in Nat \ {0} /\ MaxEpoch \in Nat

VARIABLES
    decoded,   \* InstructionCache: an entry, or NoEntry, for each slot
    blocks,    \* CodeCache: the entries, each with its key
    epoch      \* Emulator::address_space_epoch

caches == <<decoded, blocks, epoch>>

NoEntry == [eip |-> -1]
Slot(v) == v % CacheEntries

(* Bytes a page holds through a virtual address, and how many pages the    *)
(* instruction there takes.                                                *)
At(v) == IF v \in VirtualPage /\ table[v] # Unmapped THEN bytes[table[v].page]
                                                    ELSE NoPage
Length(v) == IF At(v) \in LongCode THEN 2 ELSE 1
Code(v) == [i \in 1 .. Length(v) |-> At(v + i - 1)]

(* decode_at: the second page is fetched only when the first one ends in   *)
(* the middle of the instruction.                                          *)
Fetchable(v) ==
    /\ Accessible(Now, v, 1, "x")
    /\ Accessible(Now, v, Length(v), "x")

(* The physical pages code at v occupies, each with its generation; how    *)
(* often it was written since is a history.                                *)
Dependencies(v) ==
    [i \in 1 .. Length(v) |->
        LET p == table[v + i - 1].page IN
        [page |-> p, generation |-> generation[p], since |-> 0]]

Unchanged(pages) ==
    \A i \in DOMAIN pages : pages[i].generation = generation[pages[i].page]

-----------------------------------------------------------------------------
(* InstructionCache::get: the slot is the address's, each of its virtual   *)
(* pages still maps the page it was decoded from, at the same generation.  *)
Hit(e, v) ==
    /\ e.eip = v
    /\ \A i \in DOMAIN e.pages : table[v + i - 1].page = e.pages[i].page
    /\ Unchanged(e.pages)

(* A mutation: only the first page is recorded.                            *)
DecodedFirstPage(v) ==
    [eip |-> v, pages |-> SubSeq(Dependencies(v), 1, 1), code |-> Code(v), machine |-> TRUE]

DecodedAt(v) ==
    [eip |-> v, pages |-> Dependencies(v), code |-> Code(v), machine |-> TRUE]

(* One step of the interpreter: on a miss the instruction is decoded and   *)
(* replaces whatever its slot held.  A hit, or a failing fetch, leaves the *)
(* caches alone.                                                           *)
Execute(v) ==
    /\ Running
    /\ v \in VirtualPage
    /\ ~Hit(decoded[Slot(v)], v)
    /\ Fetchable(v)
    /\ decoded' = [decoded EXCEPT ![Slot(v)] = DecodedAt(v)]
    /\ UNCHANGED <<vars, blocks, epoch>>

(* CodeCache::get, by address and epoch, every dependency's generation     *)
(* unchanged.                                                              *)
Served(b, v) ==
    /\ b.start = v /\ b.epoch = epoch
    /\ Unchanged(b.pages)

(* plan_entry_block: the block is compiled unless a valid one is cached.   *)
CompileBlock(v) ==
    /\ Running
    /\ v \in VirtualPage
    /\ Fetchable(v)
    /\ ~\E b \in blocks : Served(b, v)
    /\ blocks' = {b \in blocks : b.start # v \/ b.epoch # epoch}
                     \cup {[start |-> v, epoch |-> epoch,
                            pages |-> Dependencies(v), code |-> Code(v)]}
    /\ UNCHANGED <<vars, decoded, epoch>>

-----------------------------------------------------------------------------
(* The histories: a write since an entry was made, and a new machine.      *)
Aged(pages) ==
    [i \in DOMAIN pages |->
        IF generation'[pages[i].page] # generation[pages[i].page]
             /\ pages[i].since < GenerationSize
        THEN [pages[i] EXCEPT !.since = @ + 1] ELSE pages[i]]

Entries(d, Change(_)) ==
    [s \in DOMAIN d |-> IF d[s] = NoEntry THEN NoEntry ELSE Change(d[s])]

GuestAges ==
    /\ decoded' = Entries(decoded, LAMBDA e : [e EXCEPT !.pages = Aged(@)])
    /\ blocks' = {[b EXCEPT !.pages = Aged(@)] : b \in blocks}
    /\ UNCHANGED epoch

(* reset_inner and load_xbe: the blocks go and the epoch moves on at each; *)
(* the decoded instructions stay.                                          *)
NewMachine ==
    /\ epoch + 2 <= MaxEpoch
    /\ decoded' = Entries(decoded, LAMBDA e : [e EXCEPT !.machine = FALSE])
    /\ blocks' = {}
    /\ epoch' = epoch + 2

CachesInit ==
    /\ Init
    /\ decoded = [s \in 0 .. CacheEntries - 1 |-> NoEntry]
    /\ blocks = {}
    /\ epoch = 1

CachesNext ==
    \/ GuestNext /\ GuestAges
    \/ BootNext /\ NewMachine
    \/ \E v \in VirtualPage : Execute(v) \/ CompileBlock(v)

CachesSpec == CachesInit /\ [][CachesNext]_<<vars, caches>>

-----------------------------------------------------------------------------
(* The generation is 2^16 values wide: after that many bumps of a page an  *)
(* old stamp looks current again.                                          *)
Wrapped(pages) == \E i \in DOMAIN pages : pages[i].since = GenerationSize

(* What either cache would serve is what a decode would give now, whatever *)
(* alias the bytes were changed through: the decoded instructions within   *)
(* the machine they were decoded on, the blocks always, unless the         *)
(* generation has wrapped (cache.rs, Emulator's block cache).              *)
CachesCurrent ==
    /\ \A v \in VirtualPage :
          LET e == decoded[Slot(v)] IN
          Hit(e, v) /\ e.machine /\ ~Wrapped(e.pages) => e.code = Code(v)
    /\ \A b \in blocks :
          Served(b, b.start) /\ ~Wrapped(b.pages) => b.code = Code(b.start)

(* cache.rs: "Self-modifying code therefore redecodes exactly when it      *)
(* must": the decoded cache never serves an instruction the bytes at its   *)
(* address do not spell.                                                   *)
DecodedCurrent ==
    \A v \in VirtualPage :
        LET e == decoded[Slot(v)] IN
        Hit(e, v) /\ ~Wrapped(e.pages) => e.code = Code(v)
=============================================================================
