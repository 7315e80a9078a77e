--------------------------- MODULE CriticalSection ---------------------------
(***************************************************************************)
(* RTL_CRITICAL_SECTION (crates/exbawks-kernel/src/rtl.rs): the guest's    *)
(* LockCount, RecursionCount and OwningThread fields, and the park and the *)
(* handoff the thread table performs on the section's address.             *)
(*                                                                         *)
(* An export is atomic; the interleaving is which unparked thread calls    *)
(* next, which time slices make arbitrary.                                 *)
(***************************************************************************)
EXTENDS Integers, FiniteSets

CONSTANTS
    SectionThread,         \* the threads that use the section, by table index
    MaxEntries    \* bound on nested entries

NoThread == -1      \* OwningThread = 0
Unowned == -1       \* UNOWNED_LOCK_COUNT, 0xFFFF_FFFF read as signed

ASSUME ThreadAssumption == SectionThread \subseteq Nat /\ IsFiniteSet(SectionThread)
ASSUME RecursionAssumption == MaxEntries \in Nat \ {0}

VARIABLES
    lock_count,
    recursion_count,
    owning_thread,
    parked,         \* threads waiting on the section's address
    inside          \* history: entries completed minus leaves, per thread

sectionVars == <<lock_count, recursion_count, owning_thread, parked, inside>>

SectionTypeOK ==
    /\ lock_count \in Int
    /\ recursion_count \in Nat
    /\ owning_thread \in SectionThread \cup {NoThread}
    /\ parked \subseteq SectionThread
    /\ inside \in [SectionThread -> Nat]

RtlInitializeCriticalSection ==
    /\ lock_count = Unowned
    /\ recursion_count = 0
    /\ owning_thread = NoThread
    /\ parked = {}
    /\ inside = [t \in SectionThread |-> 0]

RtlEnterCriticalSection(t) ==
    /\ t \notin parked
    /\ inside[t] < MaxEntries
    /\ lock_count' = lock_count + 1
    /\ \/ /\ lock_count + 1 = 0
          /\ owning_thread' = t
          /\ recursion_count' = 1
          /\ inside' = [inside EXCEPT ![t] = @ + 1]
          /\ parked' = parked
       \/ /\ lock_count + 1 # 0
          /\ owning_thread = t
          /\ recursion_count' = recursion_count + 1
          /\ inside' = [inside EXCEPT ![t] = @ + 1]
          /\ UNCHANGED <<owning_thread, parked>>
       \/ /\ lock_count + 1 # 0
          /\ owning_thread # t
          /\ parked' = parked \cup {t}
          /\ UNCHANGED <<recursion_count, owning_thread, inside>>

(* Mutant: the wake leaves the new owner in the wait list.                 *)
TransferKeepsWaiter(w, left) ==
    /\ w \in parked
    /\ \A p \in parked : w <= p
    /\ owning_thread' = w
    /\ recursion_count' = 1
    /\ parked' = parked
    /\ inside' = [left EXCEPT ![w] = @ + 1]

(* transfer_section_wake: the first parked thread in table order, stamped  *)
(* as owner before it runs again.  Its interrupted Enter then returns.     *)
TransferSectionWake(w, left) ==
    /\ w \in parked
    /\ \A p \in parked : w <= p
    /\ owning_thread' = w
    /\ recursion_count' = 1
    /\ parked' = parked \ {w}
    /\ inside' = [left EXCEPT ![w] = @ + 1]

(* The export checks no owner; that only a thread inside leaves is what    *)
(* the guest guarantees.  With nobody parked, signalling the section's     *)
(* event finds no waiter and changes nothing.                              *)
RtlLeaveCriticalSection(t) ==
    LET recursion == IF recursion_count > 0 THEN recursion_count - 1 ELSE 0
        left == [inside EXCEPT ![t] = @ - 1]
    IN /\ t \notin parked
       /\ inside[t] > 0
       /\ lock_count' = lock_count - 1
       /\ \/ /\ recursion # 0
             /\ recursion_count' = recursion
             /\ inside' = left
             /\ UNCHANGED <<owning_thread, parked>>
          \/ /\ recursion = 0
             /\ lock_count - 1 # Unowned
             /\ \E w \in SectionThread : TransferSectionWake(w, left)
          \/ /\ recursion = 0
             /\ lock_count - 1 = Unowned \/ parked = {}
             /\ owning_thread' = NoThread
             /\ recursion_count' = 0
             /\ inside' = left
             /\ parked' = parked

SectionNext == \E t \in SectionThread : RtlEnterCriticalSection(t) \/ RtlLeaveCriticalSection(t)

SectionSpec == RtlInitializeCriticalSection /\ [][SectionNext]_sectionVars

-----------------------------------------------------------------------------
(* Two threads are never inside one section, whatever the interleaving of  *)
(* enters, parks and handoffs.                                             *)
MutualExclusion ==
    \A t, u \in SectionThread : inside[t] > 0 /\ inside[u] > 0 => t = u

(* LockCount tells the truth at every moment: minus one when free, else    *)
(* the owner's nested entries plus the threads parked, less one.           *)
LockCountAccounts ==
    /\ lock_count = recursion_count + Cardinality(parked) - 1
    /\ owning_thread = NoThread <=> recursion_count = 0
    /\ owning_thread # NoThread => inside[owning_thread] = recursion_count

(* The section never sits free while a thread is parked on it.             *)
NeverFreeWithWaiters == parked # {} => owning_thread # NoThread

(* The guest fields implement a lock that is handed over while anyone      *)
(* waits.                                                                  *)
Handoff == INSTANCE HandoffLock
    WITH Thread <- SectionThread, holder <- owning_thread,
         depth <- recursion_count, waiters <- parked
ImplementsHandoff == Handoff!Spec

=============================================================================
