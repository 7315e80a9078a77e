--------------------------- MODULE KernelObjects ---------------------------
(***************************************************************************)
(* The handle namespace (kernel/runtime.rs): threads and mutants, files    *)
(* and link objects, and events each hand out handles from a cursor of     *)
(* their own, and NtClose looks a handle up in all of them.                *)
(***************************************************************************)
EXTENDS FileDevice

CONSTANTS EventHandleBase, MutantHandleBase, ThreadHandleBase, MaxObjects

VARIABLES handles,      \* open thread and mutant handles
          events,       \* open event handles
          mutants,      \* mutants, closed or not
          nextEvent, nextMutant, threads

objectVars == <<handles, events, mutants, nextEvent, nextMutant, threads>>

\* create_event by the size of the table
CreateEventBySize ==
    /\ events' = events \cup {EventHandleBase + 4 * Cardinality(events)}
    /\ nextEvent' = nextEvent + 4
    /\ UNCHANGED <<handles, mutants, nextMutant, threads, fileVars>>
CreateEvent ==
    /\ events' = events \cup {nextEvent}
    /\ nextEvent' = nextEvent + 4
    /\ UNCHANGED <<handles, mutants, nextMutant, threads, fileVars>>
CreateMutant ==
    /\ mutants' = mutants \cup {nextMutant}
    /\ handles' = handles \cup {nextMutant}
    /\ nextMutant' = nextMutant + 4
    /\ UNCHANGED <<events, nextEvent, threads, fileVars>>
CreateThread ==
    /\ handles' = handles \cup {ThreadHandleBase + 4 * threads}
    /\ threads' = threads + 1
    /\ UNCHANGED <<events, mutants, nextEvent, nextMutant, fileVars>>

\* close_handle: threads and mutants, then files and links, then events.
CloseHandle(h) ==
    IF h \in handles
    THEN handles' = handles \ {h} /\ UNCHANGED <<events, mutants, nextEvent, nextMutant, threads, fileVars>>
    ELSE IF h \in DOMAIN files \cup DOMAIN linkObjects
    THEN CloseFile(h) /\ UNCHANGED objectVars
    ELSE events' = events \ {h} /\ UNCHANGED <<handles, mutants, nextEvent, nextMutant, threads, fileVars>>

Live == handles \cup DOMAIN files \cup DOMAIN linkObjects \cup events

ObjectsInit ==
    /\ handles = {} /\ events = {} /\ mutants = {} /\ threads = 0
    /\ nextEvent = EventHandleBase /\ nextMutant = MutantHandleBase

\* A title opens from `paths`, links to `targets`, creates and closes.
ObjectsNext(paths, targets) ==
    \/ \E p \in paths : NtOpenFile(p, FALSE, FALSE) /\ UNCHANGED objectVars
    \/ \E n \in Letters : NtOpenSymbolicLinkObject(n) /\ UNCHANGED objectVars
    \/ \E n \in Letters, t \in targets : IoCreateSymbolicLink(n, t) /\ UNCHANGED objectVars
    \/ nextEvent < EventHandleBase + 4 * MaxObjects /\ CreateEvent
    \/ nextMutant < MutantHandleBase + 4 * MaxObjects /\ CreateMutant
    \/ threads < MaxObjects /\ CreateThread
    \/ \E h \in Live \cup {0} : CloseHandle(h)

ObjectsSpec == FileInit /\ ObjectsInit /\ [][ObjectsNext(Paths, LinkTargets)]_<<objectVars, fileVars>>

\* Every object a title creates is named by a handle that named none of its
\* open objects, however many it closed before, and closing one handle
\* closes that one object.
HandleNamesOne ==
    /\ nextEvent' # nextEvent \/ nextMutant' # nextMutant \/ threads' # threads \/ nextHandle' # nextHandle =>
          Live' \ Live # {} /\ Live \subseteq Live'
    /\ \A h \in Live \ Live' : Live' = Live \ {h} /\ (h \in events => h \notin events')
HandlesNameOne == [][HandleNamesOne]_<<objectVars, fileVars>>

\* What runtime.rs says of the handle ranges ("disjoint from file (0x100+)
\* and thread (0xE000+) handles"): no handle names an event and a file.
RangesDisjoint == events \cap (handles \cup DOMAIN files \cup DOMAIN linkObjects) = {}
=============================================================================
