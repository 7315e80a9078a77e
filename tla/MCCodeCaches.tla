---------------------------- MODULE MCCodeCaches -----------------------------
(***************************************************************************)
(* Guest memory and its code caches for TLC.  Each behaviour is one title: *)
(* one that allocates, persists and reboots but executes nothing, so that  *)
(* neither the caches nor the generations of its pages matter (MemoryView), or *)
(* one that modifies code, interpreted or translated, but uses neither the *)
(* pool nor launch data.                                                   *)
(***************************************************************************)
EXTENDS CodeCaches

CONSTANTS
    Stored,     \* the bytes the allocating title stores,
    Stores,     \* and the pages it stores them to, through the window
    CodePages   \* the pages the executing title's code begins on

VARIABLE title

MemoryInit ==
    /\ CachesInit
    /\ title \in {"allocates", "interpreted", "translated"}
    /\ title = "allocates" => image # Stored

Allocates ==
    /\ title = "allocates"
    /\ \/ \E p \in Stores : GuestWrite(Window + p, 1, Stored)
       \/ \E n \in 1 .. MaxSize : AllocateContiguous(n)
       \/ \E p \in Page : FreeContiguous(p)
       \/ CreateThread
       \/ \E n \in 1 .. MaxSize, commit \in BOOLEAN : AllocateFresh(n, commit, RW)
       \/ \E v \in User, n \in 1 .. MaxSize : AllocateAt(v, n, RW)
       \/ \E base \in VirtualPage, n \in 1 .. MaxSize : MmPersistContiguousMemory(base, n)
       \/ SetLaunchDataPage
       \/ EndRun
       \/ Relaunch \/ RelaunchFails \/ HostLoads(image)
    /\ UNCHANGED caches

(* The executing title stores to the pages behind its code, through either *)
(* of their addresses.                                                     *)
Alias(v) == {v} \cup {Window + p : p \in Backing(Now, v, 1) \ {NoPage}}

Modifies ==
    \/ \E c \in CodePages : \E v \in Alias(c), x \in Images : GuestWrite(v, 1, x)
    \/ \E x \in Images : GuestWrite(ImageBase, 2, x)
    \/ AllocateFresh(1, TRUE, RWX)

Executes ==
    /\ title \in {"interpreted", "translated"}
    /\ \/ Modifies /\ GuestAges
       \/ \E img \in Images : HostLoads(img) /\ NewMachine
       \/ \E v \in CodePages :
              \/ title = "interpreted" /\ Execute(v)
              \/ title = "translated" /\ CompileBlock(v)

MemoryNext == (Allocates \/ Executes) /\ UNCHANGED title

MemorySpec == MemoryInit /\ [][MemoryNext]_<<vars, caches, title>>

MemoryView ==
    <<title, alloc, table, bytes, services, session, histories,
      IF title # "allocates" THEN <<generation, caches>> ELSE << >> >>
=============================================================================
