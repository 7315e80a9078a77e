------------------------------ MODULE MCKernel ------------------------------
(***************************************************************************)
(* The kernel's services for TLC. `kpart` says which one a behaviour       *)
(* exercises; the others stay in their initial state.                      *)
(***************************************************************************)
EXTENDS KernelObjects, KernelExports, CriticalSection, TLC

VARIABLE kpart
kernelVars == <<fileVars, objectVars, exportVars, sectionVars, kpart>>

-----------------------------------------------------------------------------
(* Files *)

GuestPath(d, c) == [dev |-> d, comps |-> c]
MCPaths == {GuestPath("D", <<"a">>), GuestPath("T", <<"b", "..", "a">>), GuestPath("hdd", <<"b", "a">>),
            GuestPath("T", <<"..", "b">>), GuestPath("Z", <<".", "a">>)}
MCTargets == {GuestPath("hdd", <<>>), GuestPath("cdrom", <<>>), GuestPath("T", <<"b">>)}
MCDisc == (HostPath("disc", <<>>) :> Directory) @@ (HostPath("disc", <<"a">>) :> <<5>>)
MCHosts == {MCDisc, MCDisc @@ (HostPath("hdd", <<>>) :> Directory) @@ (HostPath("hdd", <<"a">>) :> <<4>>)}

-----------------------------------------------------------------------------
(* Handles: a title opens, creates and closes, with one file name. *)

MCOpened == {GuestPath("D", <<"a">>)}
MCLinked == {GuestPath("cdrom", <<>>)}

Block(k) == 16 * (k + 1)
MCWords ==
    [w \in 0 .. 191 \cup {IrqlCell} \cup (SectionA .. SectionA + 8) \cup (SectionB .. SectionB + 8) \cup 440 .. 442 |->
        CASE w = SectionA + 7 -> 440 [] w = SectionA + 8 -> 441
          [] w = SectionB + 7 -> 441 [] w = SectionB + 8 -> 442
          [] w \in {SectionA + 6, SectionB + 6, IrqlCell} \cup 440 .. 442 -> 0 [] OTHER -> 40]
ExportsInit ==
    /\ words = MCWords /\ gesp = 100 /\ geip = "guest" /\ geax = 0
    /\ called = [name |-> "none", ordinal |-> NoValue, path |-> "slot"] /\ reached = NoValue

\* A title that keeps one event and opens and closes a file over and over,
\* from the state its first 10,170 opens and closes leave.
EarlierOpens == 10170
FileLoopInit ==
    /\ host = MCDisc /\ files = <<>> /\ links = <<>> /\ linkObjects = <<>>
    /\ nextHandle = FileHandleBase + FileHandleStep * EarlierOpens
    /\ io = [call |-> "NtClose", status |-> "success", info |-> 0]
    /\ ObjectsInit
FileLoopNext ==
    \/ events = {} /\ CreateEvent
    \/ DOMAIN files = {} /\ NtOpenFile(GuestPath("D", <<"a">>), FALSE, FALSE) /\ UNCHANGED objectVars
    \/ \E h \in DOMAIN files : CloseHandle(h)
FileLoopSpec == FileLoopInit /\ ExportsInit /\ RtlInitializeCriticalSection /\ kpart = "objects"
    /\ [][FileLoopNext /\ UNCHANGED <<exportVars, sectionVars, kpart>>]_kernelVars

-----------------------------------------------------------------------------
(* Exports: one call, with each argument a pointer to its own words, and   *)
(* one of them null or unmapped.                                           *)

MCArguments(e) ==
    LET given == [k \in 0 .. e.parameters - 1 |-> Block(k)]
    IN  {given} \cup {[given EXCEPT ![k] = v] : k \in DOMAIN given, v \in {0, 999}}
\* One import of a kernel variable and one of an ordinal nobody registered.
MCVariables == [o \in {156} |-> 1600]

ExportsNext ==
    \/ \E e \in Registered : \E a \in MCArguments(e), r \in {NoValue, 1}, p \in {"slot", "eip"} :
          GateCall(e.name, e.ordinal, MCVariables, p, a, r)
    \/ \E o \in {156, 77}, p \in {"slot", "eip"} : GateCall("unknown", o, MCVariables, p, <<>>, NoValue)

-----------------------------------------------------------------------------
KernelInit ==
    /\ FileInit /\ ObjectsInit /\ ExportsInit /\ SectionsInit /\ RtlInitializeCriticalSection
    /\ kpart \in {"objects", "files", "exports", "sections", "lock"}
KernelNext ==
    /\ UNCHANGED kpart
    /\ \/ kpart = "files" /\ FileNext /\ UNCHANGED <<objectVars, exportVars, sectionVars>>
       \/ kpart = "objects" /\ ObjectsNext(MCOpened, MCLinked) /\ UNCHANGED <<exportVars, sectionVars>>
       \/ kpart = "exports" /\ ExportsNext /\ UNCHANGED <<objectVars, fileVars, sectionVars>>
       \/ kpart = "sections" /\ SectionsNext /\ UNCHANGED <<objectVars, fileVars, sectionVars>>
       \/ kpart = "lock" /\ SectionNext /\ UNCHANGED <<objectVars, fileVars, exportVars>>
KernelSpec == KernelInit /\ [][KernelNext]_kernelVars

\* Only the exercised part's state tells states apart, and the last file
\* call's answer is a label of its step.
KernelView ==
    IF kpart = "files" THEN <<kpart, host, files, links, linkObjects, nextHandle>>
    ELSE IF kpart = "objects" THEN <<kpart, files, links, linkObjects, nextHandle, objectVars>>
    ELSE IF kpart = "lock" THEN <<kpart, sectionVars>>
    ELSE <<kpart, words, gesp, geip, geax, called, reached>>
=============================================================================
