--------------------------- MODULE KernelExports ---------------------------
(***************************************************************************)
(* Kernel calls: the gate an import slot leads to, the dispatch of a       *)
(* registered export against the guest's stdcall frame (core/emulator.rs,  *)
(* kernel/gate.rs, registry.rs, export.rs) and what each export does with  *)
(* its arguments, the guest words they point at and the answer of the      *)
(* services behind it (kernel/startup.rs, rtl.rs, ke.rs, ex.rs, mm.rs,     *)
(* xe.rs, irql.rs, av.rs, vm.rs, mutant.rs).                               *)
(*                                                                         *)
(* Guest memory is words at small addresses; an address that is not in its *)
(* domain is unmapped. The services themselves are other modules' matter:  *)
(* here they answer "ok" with a value or refuse.                           *)
(***************************************************************************)
EXTENDS Integers, Sequences, FiniteSets

CONSTANTS MaxPageCount,    \* u16::MAX, where a shared page's count saturates
          MaxSectionCount  \* u32::MAX, where a section's does
ASSUME CountWidths == MaxPageCount \in Nat /\ MaxSectionCount \in Nat /\ MaxPageCount <= MaxSectionCount

VARIABLES words,    \* guest memory: word address -> value
          gesp,     \* guest ESP, in words
          geip,     \* "guest" at the caller, "returned", or "stopped"
          geax,
          called,   \* the call made: [name, ordinal, path]
          reached   \* the ordinal of the export that ran, or NoValue

exportVars == <<words, gesp, geip, geax, called, reached>>

NoValue == -1
Unmapped == -2

-----------------------------------------------------------------------------
(* Registered exports: ordinal, parameters and the bytes the export pops.  *)

Export(name, ordinal, parameters, bytes) ==
    [name |-> name, ordinal |-> ordinal, parameters |-> parameters, bytes |-> bytes]

StartupExports ==
    {Export("HalReturnToFirmware", 49, 1, 4), Export("PsCreateSystemThreadEx", 255, 10, 40),
     Export("PsTerminateSystemThread", 258, 1, 4), Export("NtClose", 187, 1, 4),
     Export("NtCreateEvent", 189, 4, 16), Export("NtSetEvent", 225, 2, 8),
     Export("NtResumeThread", 224, 2, 8), Export("NtSuspendThread", 231, 2, 8),
     Export("NtYieldExecution", 238, 0, 0), Export("ObReferenceObjectByHandle", 246, 3, 12),
     Export("KeDelayExecutionThread", 99, 3, 12), Export("NtWaitForSingleObject", 233, 3, 12),
     Export("NtWaitForSingleObjectEx", 234, 4, 16), Export("NtWaitForMultipleObjectsEx", 235, 6, 24)}
\* ObfDereferenceObject and the IRQL pair are fastcall: arguments in
\* registers; DbgPrint is cdecl, so its caller pops.
RegisterExports ==
    {Export("DbgPrint", 8, 0, 0), Export("ObfDereferenceObject", 250, 0, 0), Export("KfRaiseIrql", 160, 0, 0),
     Export("KfLowerIrql", 161, 0, 0), Export("KeGetCurrentIrql", 103, 0, 0),
     Export("KeRaiseIrqlToDpcLevel", 129, 0, 0), Export("AvGetSavedDataAddress", 1, 0, 0)}
BENIGN_SUCCESS ==
    {Export("HalRegisterShutdownNotification", 47, 2, 8), Export("KeStallExecutionProcessor", 151, 1, 4),
     Export("MmLockUnlockBufferPages", 175, 3, 12)}
RtlExports ==
    {Export("RtlEqualString", 279, 3, 12), Export("RtlInitAnsiString", 289, 2, 8),
     Export("RtlNtStatusToDosError", 301, 1, 4)}
KeExports ==
    {Export("KeQuerySystemTime", 128, 1, 4), Export("KeInsertQueueDpc", 119, 3, 12),
     Export("KeInitializeDpc", 107, 3, 12), Export("KeInitializeTimerEx", 113, 2, 8),
     Export("KeCancelTimer", 97, 1, 4), Export("KeSetTimer", 149, 4, 16)}
ExExports ==
    {Export("ExQueryPoolBlockSize", 23, 1, 4), Export("ExAllocatePool", 14, 1, 4),
     Export("ExAllocatePoolWithTag", 15, 2, 8), Export("ExFreePool", 17, 1, 4),
     Export("ExQueryNonVolatileSetting", 24, 5, 20)}
VmExports == {Export("NtFreeVirtualMemory", 199, 3, 12), Export("NtAllocateVirtualMemory", 184, 5, 20)}
MmExports ==
    {Export("MmClaimGpuInstanceMemory", 168, 2, 8), Export("MmQueryAllocationSize", 180, 1, 4),
     Export("MmQueryStatistics", 181, 1, 4), Export("MmAllocateContiguousMemory", 165, 1, 4),
     Export("MmAllocateContiguousMemoryEx", 166, 5, 20), Export("MmFreeContiguousMemory", 171, 1, 4),
     Export("MmPersistContiguousMemory", 178, 3, 12), Export("MmGetPhysicalAddress", 173, 1, 4)}
XeExports == {Export("XeLoadSection", 327, 1, 4), Export("XeUnloadSection", 328, 1, 4)}
IrqlExports ==
    {Export("HalReadWritePCISpace", 46, 6, 24), Export("KeInitializeInterrupt", 109, 7, 28),
     Export("KeConnectInterrupt", 98, 1, 4), Export("KeDisconnectInterrupt", 100, 1, 4),
     Export("HalGetInterruptVector", 44, 2, 8)}
AvExports ==
    {Export("AvSendTVEncoderOption", 2, 4, 16), Export("AvSetDisplayMode", 3, 6, 24),
     Export("AvSetSavedDataAddress", 4, 1, 4)}
ObjectExports ==
    {Export("NtCreateMutant", 192, 3, 12), Export("NtReleaseMutant", 221, 2, 8),
     Export("KeWaitForSingleObject", 159, 5, 20), Export("KeSetEvent", 145, 3, 12)}
FileExports ==
    {Export("NtOpenFile", 202, 6, 24), Export("NtCreateFile", 190, 9, 36), Export("NtReadFile", 219, 8, 32),
     Export("NtWriteFile", 236, 8, 32), Export("NtSetInformationFile", 226, 5, 20),
     Export("NtQueryInformationFile", 211, 5, 20), Export("NtDeviceIoControlFile", 196, 10, 40),
     Export("NtQueryVolumeInformationFile", 218, 5, 20), Export("IoCreateSymbolicLink", 67, 2, 8),
     Export("IoDeleteSymbolicLink", 69, 1, 4), Export("NtOpenSymbolicLinkObject", 203, 2, 8),
     Export("NtQuerySymbolicLinkObject", 215, 3, 12)}

\* register_startup_exports: the registry refuses an ordinal it already has.
Registered ==
    UNION {StartupExports, RegisterExports, BENIGN_SUCCESS, RtlExports, KeExports, ExExports, VmExports,
           MmExports, XeExports, IrqlExports, AvExports, ObjectExports, FileExports}
Lookup(ordinal) == {e \in Registered : e.ordinal = ordinal}

-----------------------------------------------------------------------------
(* The gate: one address per ordinal, above every mapping.                 *)

GateBase == 100000
GateAddress(ordinal) == GateBase + 4 * ordinal
GateOrdinal(address) ==
    IF address < GateBase \/ address >= GateBase + 4 * 65536 \/ (address - GateBase) % 4 # 0 THEN NoValue
    ELSE (address - GateBase) \div 4

\* patch_kernel_thunks: a data export's slot points at its variable.
ThunkTarget(ordinal, variables) == IF ordinal \in DOMAIN variables THEN variables[ordinal] ELSE GateAddress(ordinal)

-----------------------------------------------------------------------------
(* What an export does: [status, words]. The services answer `r`.          *)

SUCCESS == 0
INVALID_PARAMETER == -1000
INVALID_HANDLE == -1001
INSUFFICIENT_RESOURCES == -1002
ACCESS_VIOLATION == -1003
BUFFER_TOO_SMALL == -1004
MUTANT_NOT_OWNED == -1005
Failures == -1999 .. -1000

Word(m, a) == IF a \in DOMAIN m THEN m[a] ELSE Unmapped
Put(m, a, v) == IF a \in DOMAIN m THEN [m EXCEPT ![a] = v] ELSE m
\* Several words from one base.
PutAll(m, base, f) == [a \in DOMAIN m |-> IF a - base \in DOMAIN f THEN f[a - base] ELSE m[a]]
PutIfGiven(m, a, v) == IF a = 0 THEN m ELSE Put(m, a, v)
Says(status, m) == [status |-> status, words |-> m]
Accepted(r) == r # NoValue

\* NtCreateEvent, NtCreateMutant
CreateHandleUnchecked(a, m, r) == Says(IF Accepted(r) THEN SUCCESS ELSE INSUFFICIENT_RESOURCES, Put(m, a[0], r))
CreateHandle(a, m, r) ==
    IF a[0] = 0 THEN Says(INVALID_PARAMETER, m)
    ELSE IF Accepted(r) THEN Says(SUCCESS, Put(m, a[0], r)) ELSE Says(INSUFFICIENT_RESOURCES, m)
\* NtSetEvent, NtResumeThread, NtSuspendThread, NtReleaseMutant
ReportPrevious(a, m, r, refusal) ==
    IF Accepted(r) THEN Says(SUCCESS, PutIfGiven(m, a[1], r)) ELSE Says(refusal, m)
\* PsCreateSystemThreadEx probes its out-parameters before it creates.
PsCreateSystemThreadEx(a, m, r) ==
    LET probed == PutIfGiven(Put(m, a[0], 0), a[4], 0)
    IN  IF a[0] \notin DOMAIN m THEN Says(INVALID_PARAMETER, m)
        ELSE IF a[4] # 0 /\ a[4] \notin DOMAIN m THEN Says(INVALID_PARAMETER, Put(m, a[0], 0))
        ELSE IF ~Accepted(r) THEN Says(INSUFFICIENT_RESOURCES, probed)
        ELSE Says(SUCCESS, PutIfGiven(Put(probed, a[0], r), a[4], r))
ObReferenceObjectByHandle(a, m, r) ==
    IF a[0] = 0 \/ ~Accepted(r) THEN Says(INVALID_HANDLE, m)
    ELSE IF a[2] # 0 /\ a[2] \notin DOMAIN m THEN Says(INVALID_PARAMETER, m)
    ELSE Says(SUCCESS, PutIfGiven(m, a[2], r))
KeDelayExecutionThread(a, m, r) ==
    IF a[2] = 0 \/ Unmapped \in {Word(m, a[2]), Word(m, a[2] + 1)} \/ ~Accepted(r) THEN Says(INVALID_PARAMETER, m)
    ELSE Says(SUCCESS, m)
\* The waits: the timeout pointer is optional, but must be readable.
WaitForSingle(a, m, r, timeout) ==
    IF a[timeout] # 0 /\ Unmapped \in {Word(m, a[timeout]), Word(m, a[timeout] + 1)} THEN Says(INVALID_PARAMETER, m)
    ELSE Says(IF Accepted(r) THEN SUCCESS ELSE INVALID_HANDLE, m)

KeQuerySystemTime(a, m, r) == IF a[0] = 0 THEN Says(INVALID_PARAMETER, m) ELSE Says(SUCCESS, PutAll(m, a[0], [k \in 0 .. 1 |-> r]))
\* Type, an empty list entry, routine and context.
KeInitializeDpc(a, m) ==
    IF a[0] = 0 THEN Says(INVALID_PARAMETER, m)
    ELSE Says(SUCCESS, PutAll(m, a[0], [k \in 0 .. 4 |-> CASE k = 0 -> 19 [] k \in 1 .. 2 -> 0 [] k = 3 -> a[1] [] k = 4 -> a[2]]))
\* A header of the timer's kind, an empty wait list and no due time or DPC.
KeInitializeTimerEx(a, m) ==
    IF a[0] = 0 THEN Says(INVALID_PARAMETER, m)
    ELSE Says(SUCCESS, PutAll(m, a[0], [k \in 0 .. 9 |-> CASE k = 0 -> 8 + (a[1] % 2) [] k \in 2 .. 3 -> a[0] + 2 [] OTHER -> 0]))
KeSetTimer(a, m, r) ==
    IF a[0] = 0 THEN Says(INVALID_PARAMETER, m)
    ELSE Says(IF r = 1 THEN 1 ELSE 0, PutAll(m, a[0], [k \in {4, 5, 8} |-> a[IF k = 8 THEN 3 ELSE k - 3]]))

RtlInitAnsiString(a, m, r) ==
    IF a[0] = 0 THEN Says(INVALID_PARAMETER, m)
    ELSE Says(SUCCESS, PutAll(m, a[0], [k \in 0 .. 1 |-> IF k = 1 THEN a[1] ELSE IF a[1] = 0 THEN 0 ELSE r]))

\* The type and the needed length are reported even to a short buffer.
ExQueryNonVolatileSetting(a, m, r) ==
    LET told == PutIfGiven(PutIfGiven(m, a[1], 4), a[4], 4)
    IN  IF a[3] < 4 THEN Says(BUFFER_TOO_SMALL, told) ELSE Says(SUCCESS, PutIfGiven(told, a[2], r))

\* The fields the caller's length has room for.
MmQueryStatistics(a, m) ==
    IF a[0] = 0 \/ a[0] \notin DOMAIN m THEN Says(INVALID_PARAMETER, m)
    ELSE Says(SUCCESS, PutAll(m, a[0], [k \in {n \in 1 .. 8 : 4 * n + 4 <= m[a[0]]} |-> 100 + k]))
MmClaimGpuInstanceMemory(a, m, r) == Says(IF Accepted(r) THEN r ELSE 0, PutIfGiven(m, a[1], 0))
AddressOrNull(m, r) == Says(IF Accepted(r) THEN r ELSE 0, m)

NtAllocateVirtualMemory(a, m, r) ==
    IF a[0] = 0 \/ a[2] = 0 THEN Says(INVALID_PARAMETER, m)
    ELSE IF Unmapped \in {Word(m, a[0]), Word(m, a[2])} THEN Says(ACCESS_VIOLATION, m)
    ELSE IF m[a[2]] = 0 THEN Says(INVALID_PARAMETER, m)
    ELSE IF ~Accepted(r) THEN Says(INSUFFICIENT_RESOURCES, m)
    ELSE Says(SUCCESS, Put(Put(m, a[0], r), a[2], r))
NtFreeVirtualMemory(a, m) == IF a[0] = 0 THEN Says(INVALID_PARAMETER, m) ELSE Says(SUCCESS, m)

\* Only a read with a buffer copies configuration bytes, at most 256.
HalReadWritePCISpace(a, m, r) ==
    IF a[5] # 0 \/ a[3] = 0 THEN Says(SUCCESS, m)
    ELSE Says(SUCCESS, PutAll(m, a[3], [k \in 0 .. ((IF a[4] < 256 THEN a[4] ELSE 256) \div 4) - 1 |-> r]))
HalGetInterruptVector(a, m) ==
    LET level == a[0] % 256
    IN  Says(48 + level, PutIfGiven(m, a[1], IF 26 - level > 3 THEN 26 - level ELSE 3))
AvSendTVEncoderOption(a, m) == Says(SUCCESS, PutIfGiven(m, a[3], IF a[1] = 6 THEN 4194560 ELSE 0))
KeSetEvent(a, m) ==
    IF a[0] = 0 \/ a[0] + 1 \notin DOMAIN m THEN Says(INVALID_PARAMETER, m)
    ELSE Says(m[a[0] + 1], Put(m, a[0] + 1, 1))

\* The level of the running thread, in its processor block.
IrqlCell == 800
ExchangeIrql(m, level) == Says(Word(m, IrqlCell) % 256, Put(m, IrqlCell, level))

\* A section header keeps its count at +6 and pointers to the counts of its
\* first and last pages, which it may share with its neighbours, at +7, +8.
Saturating(n, delta, limit) ==
    IF delta = 1 THEN IF n < limit THEN n + 1 ELSE n
    ELSE IF n > 0 THEN n - 1 ELSE n
SharedOnlyUp(m, pointer, delta) ==
    IF pointer = 0 \/ delta = -1 \/ pointer \notin DOMAIN m THEN m
    ELSE Put(m, pointer, Saturating(m[pointer], delta, MaxPageCount))
AdjustSharedCount(m, pointer, delta) ==
    IF pointer = 0 \/ pointer \notin DOMAIN m THEN m
    ELSE Put(m, pointer, Saturating(m[pointer], delta, MaxPageCount))
AdjustSection(section, m, delta) ==
    IF section = 0 \/ section + 6 \notin DOMAIN m THEN Says(INVALID_PARAMETER, m)
    ELSE LET counted == Put(m, section + 6, Saturating(m[section + 6], delta, MaxSectionCount))
             head    == AdjustSharedCount(counted, Word(m, section + 7), delta)
         IN  Says(SUCCESS, AdjustSharedCount(head, Word(head, section + 8), delta))

Effect(name, a, m, r) ==
    CASE name \in {"NtCreateEvent", "NtCreateMutant"} -> CreateHandle(a, m, r)
      [] name \in {"NtSetEvent", "NtResumeThread", "NtSuspendThread"} -> ReportPrevious(a, m, r, INVALID_HANDLE)
      [] name = "NtReleaseMutant" -> ReportPrevious(a, m, r, MUTANT_NOT_OWNED)
      [] name = "NtClose" -> Says(IF Accepted(r) THEN SUCCESS ELSE INVALID_HANDLE, m)
      [] name = "PsCreateSystemThreadEx" -> PsCreateSystemThreadEx(a, m, r)
      [] name = "ObReferenceObjectByHandle" -> ObReferenceObjectByHandle(a, m, r)
      [] name = "KeDelayExecutionThread" -> KeDelayExecutionThread(a, m, r)
      [] name = "NtWaitForSingleObject" -> WaitForSingle(a, m, r, 2)
      [] name = "NtWaitForSingleObjectEx" -> WaitForSingle(a, m, r, 3)
      [] name = "KeQuerySystemTime" -> KeQuerySystemTime(a, m, 5)
      [] name = "KeInitializeDpc" -> KeInitializeDpc(a, m)
      [] name = "KeInitializeTimerEx" -> KeInitializeTimerEx(a, m)
      [] name = "KeSetTimer" -> KeSetTimer(a, m, r)
      [] name = "KeCancelTimer" -> Says(IF a[0] # 0 /\ r = 1 THEN 1 ELSE 0, m)
      [] name = "RtlInitAnsiString" -> RtlInitAnsiString(a, m, 5)
      [] name = "ExQueryNonVolatileSetting" -> ExQueryNonVolatileSetting(a, m, 1)
      [] name = "MmQueryStatistics" -> MmQueryStatistics(a, m)
      [] name = "MmClaimGpuInstanceMemory" -> MmClaimGpuInstanceMemory(a, m, r)
      [] name \in {"MmAllocateContiguousMemory", "MmAllocateContiguousMemoryEx", "ExAllocatePool",
                   "ExAllocatePoolWithTag", "MmQueryAllocationSize", "ExQueryPoolBlockSize"} -> AddressOrNull(m, r)
      [] name = "NtAllocateVirtualMemory" -> NtAllocateVirtualMemory(a, m, r)
      [] name = "NtFreeVirtualMemory" -> NtFreeVirtualMemory(a, m)
      [] name = "HalReadWritePCISpace" -> HalReadWritePCISpace(a, m, 3)
      [] name = "HalGetInterruptVector" -> HalGetInterruptVector(a, m)
      [] name = "AvSendTVEncoderOption" -> AvSendTVEncoderOption(a, m)
      [] name = "KeSetEvent" -> KeSetEvent(a, m)
      [] name \in {"KfRaiseIrql", "KeRaiseIrqlToDpcLevel"} -> ExchangeIrql(m, 2)
      [] name = "KfLowerIrql" -> Says(SUCCESS, Put(m, IrqlCell, 0))
      [] name = "KeGetCurrentIrql" -> Says(Word(m, IrqlCell) % 256, m)
      [] name = "XeLoadSection" -> AdjustSection(a[0], m, 1)
      [] name = "XeUnloadSection" -> AdjustSection(a[0], m, -1)
      [] name \in {"KeConnectInterrupt", "KeDisconnectInterrupt"} -> Says(1, m)
      [] OTHER -> Says(SUCCESS, m)

-----------------------------------------------------------------------------
(* A call: the title pushes the arguments and transfers to the slot's      *)
(* target; the export runs against the frame and pops it.                  *)

\* dispatch_registered_export: the return address is on the stack already.
Dispatch(e, a, r, sp) ==
    LET done == Effect(e.name, a, words, r)
    IN  /\ words' = done.words
        /\ geax' = done.status
        /\ gesp' = sp + 1 + e.bytes \div 4
        /\ geip' = IF e.name = "HalReturnToFirmware" THEN "stopped" ELSE "returned"
        /\ reached' = e.ordinal

\* gate_call_with pushes the return address once the slot's target is known
\* to be an export; a register call or a jump through the slot arrives at
\* the gate with it pushed (dispatch_gate_by_eip).
PushReturnTwice(sp, path) == IF path = "slot" THEN sp - 1 ELSE sp - 2
PushReturn(sp, path) == sp - 1
GateCall(name, ordinal, variables, path, a, r) ==
    LET target == ThunkTarget(ordinal, variables)
        found  == Lookup(GateOrdinal(target))
        frame  == gesp - Cardinality(DOMAIN a)
    IN  /\ geip = "guest"
        /\ called' = [name |-> name, ordinal |-> ordinal, path |-> path]
        /\ IF GateOrdinal(target) = NoValue \/ found = {}
           THEN /\ geip' = "stopped"
                /\ gesp' = IF path = "slot" THEN frame ELSE frame - 1
                /\ UNCHANGED <<words, geax, reached>>
           ELSE \E e \in found : Dispatch(e, a, r, PushReturn(frame, path))

\* The title demand-loads its sections, and unloads what it loaded.
SectionCall(section, delta) ==
    /\ delta = -1 => words[section + 6] > 0
    /\ words' = AdjustSection(section, words, delta).words
    /\ called' = [name |-> IF delta = 1 THEN "XeLoadSection" ELSE "XeUnloadSection", ordinal |-> NoValue, path |-> "slot"]
    /\ UNCHANGED <<gesp, geip, geax, reached>>

\* Two sections with a page in common, as the linker lays them out: each
\* header points at the counts of two different pages, and no count is part
\* of a header.
SectionA == 400
SectionB == 420
Sections == {SectionA, SectionB}
HeadOf(section) == Word(words, section + 7)
TailOf(section) == Word(words, section + 8)
SectionHeaders == UNION {{s + 6, s + 7, s + 8} : s \in Sections}
SectionsLaidOut ==
    /\ SectionHeaders \subseteq DOMAIN words
    /\ \A s \in Sections :
          /\ {HeadOf(s), TailOf(s)} \subseteq DOMAIN words \ ({0} \cup SectionHeaders)
          /\ HeadOf(s) # TailOf(s)
SectionsInit ==
    /\ SectionsLaidOut
    /\ \A s \in Sections : words[s + 6] = 0 /\ words[HeadOf(s)] = 0 /\ words[TailOf(s)] = 0
\* Loads and unloads, no more loads at a time than a page's count can tell.
SectionsNext ==
    \E s \in Sections, delta \in {1, -1} :
        words[SectionA + 6] + words[SectionB + 6] + delta <= MaxPageCount /\ SectionCall(s, delta)
SectionsSpec == SectionsInit /\ [][SectionsNext]_exportVars

-----------------------------------------------------------------------------
(* Properties *)

\* Every call leaves ESP where it was before the caller pushed the
\* arguments, whichever way it entered the gate (the tail jump returns to
\* the caller's caller, over the same frame): what an export declares in
\* stack_bytes is what its parameters take.
StackBalanced == [][geip' = "returned" /\ geip = "guest" => gesp' = gesp]_exportVars

\* A call that fails hands the title nothing: no word changes, but for the
\* thread creation's probe, which clears the out-parameters it was given,
\* and the EEPROM query's type and length.
Probing == {"PsCreateSystemThreadEx", "ExQueryNonVolatileSetting"}
FailureLeavesMemory ==
    [][geip = "guest" /\ geax' \in Failures =>
         \A w \in DOMAIN words : words'[w] = words[w] \/ (called'.name \in Probing /\ words'[w] \in {0, 4})]_exportVars

\* A page two sections share counts the loads of both: it is free to be
\* discarded exactly when neither is loaded.
SharedCountsAgree ==
    \A p \in {HeadOf(SectionA), TailOf(SectionA), HeadOf(SectionB), TailOf(SectionB)} :
        words[p] = (IF p \in {HeadOf(SectionA), TailOf(SectionA)} THEN words[SectionA + 6] ELSE 0)
                 + (IF p \in {HeadOf(SectionB), TailOf(SectionB)} THEN words[SectionB + 6] ELSE 0)
=============================================================================
