---------------------------- MODULE ThreadManager ----------------------------
(***************************************************************************)
(* The guest thread table and its wait machinery                           *)
(* (crates/exbawks-kernel/src/runtime.rs, ADR 0011, 0017 and 0021), driven *)
(* by the kernel exports of startup.rs, mutant.rs and dispatcher.rs and by *)
(* the scheduling half of the run loops (exbawks-core/src/emulator.rs).    *)
(*                                                                         *)
(* One host thread runs every guest thread.  A kernel export is atomic; a  *)
(* wait it cannot satisfy is recorded as a pending action that the run     *)
(* loop applies when the export returns, so export plus pending action is  *)
(* one action here.  What interleaves is the guest: which thread calls     *)
(* what, where time slices fall, when deadlines pass, and when interrupt   *)
(* frames borrow the processor.                                            *)
(***************************************************************************)
EXTENDS Integers, Sequences, Functions

CONSTANTS
    MaxThreads,     \* bound on the thread table
    MaxEvents,      \* bound on the event handle cursor
    MaxMutants,     \* bound on the mutant handle cursor
    Object,         \* guest dispatcher events named by address
    MaxTime,        \* bound on the virtual clock, in milliseconds
    MaxRecursion,   \* bound on a mutant's recursion count
    Timeouts,       \* the Timeout arguments the guest passes
    NullPointer,    \* the Timeout argument that is no pointer at all
    MultiKeys,      \* the handle arrays the guest multi-waits on
    MutantMisuse,   \* the guest multi-waits on a mutant it already holds, or
                    \* acquires one from an interrupt routine
    Interpreter     \* TRUE on the interpreter tier, FALSE on the hypervisor

Thread == 0 .. MaxThreads - 1
Event == 0 .. MaxEvents - 1
Mutant == 0 .. MaxMutants - 1

Nobody == -1        \* a mutant without an owner
Frame == -1         \* the register context of an interrupt routine
Infinite == -1      \* a wait without a deadline

(* Wait keys: handles, and guest addresses of dispatcher headers.  A       *)
(* KTHREAD starts with a dispatcher header too.                            *)
EventKey(e) == <<"event", e>>
MutantKey(m) == <<"mutant", m>>
ThreadKey(t) == <<"thread", t>>
ObjectKey(o) == <<"object", o>>
KThreadKey(t) == <<"kthread", t>>

Handle == ({"event"} \X Event) \cup ({"mutant"} \X Mutant)
              \cup ({"thread"} \X Thread)
Address == ({"object"} \X Object) \cup ({"kthread"} \X Thread)
Key == Handle \cup Address

ASSUME BoundsAssumption ==
    /\ MaxThreads \in Nat \ {0}
    /\ MaxEvents \in Nat
    /\ MaxMutants \in Nat
    /\ Object \subseteq Nat
    /\ MaxTime \in Nat
    /\ MaxRecursion \in Nat \ {0}

ASSUME InputsAssumption ==
    /\ NullPointer \notin Int
    /\ Timeouts \subseteq Int \cup {NullPointer}
    /\ MultiKeys \subseteq Seq(Handle)
    /\ MutantMisuse \in BOOLEAN
    /\ Interpreter \in BOOLEAN

(* EAX is all that the scheduler itself writes into a saved context, and   *)
(* only to tell a wait's outcome.  The model's eax is the outcome of the   *)
(* thread's last wait: what other calls return in EAX is not tracked.      *)
STATUS_SUCCESS == 0
STATUS_TIMEOUT == 258

VARIABLES
    count,      \* threads.len()
    state,      \* threads[i].state, without the wait block
    block,      \* the block inside ThreadState::Waiting
    saved,      \* threads[i].cpu: whose context it is, and its EAX
    current,    \* the active thread's index
    cpu,        \* Emulator::cpu, the live registers
    frame,      \* Emulator::interrupted: displaced registers, or none
    handles,    \* open thread and mutant handles
    next_event,   \* the event handle cursor
    next_mutant,  \* the mutant handle cursor
    event,      \* events: live, manual-reset, signaled
    mutant,     \* mutants: holder and recursion count
    header,     \* guest dispatcher headers: auto-reset type, SignalState
    elapsed,    \* elapsed_ms
    holds       \* history: acquisitions granted minus releases accepted

tableVars == <<count, state, block, saved, current>>
processorVars == <<cpu, frame>>
objectVars == <<handles, next_event, next_mutant, event, mutant, header, holds>>
vars == <<tableVars, processorVars, objectVars, elapsed>>

-----------------------------------------------------------------------------
(* Types.                                                                  *)

States == {"Absent", "Ready", "Running", "Suspended", "Waiting", "Terminated"}

WaitBlock == [keys : Seq(Key), all : BOOLEAN,
              deadline : Nat \cup {Infinite}, timeout_status : Nat]

NoBlock == [keys |-> << >>, all |-> FALSE,
            deadline |-> Infinite, timeout_status |-> STATUS_SUCCESS]

CpuState == [owner : Thread \cup {Frame}, eax : Nat]

NoFrame == [owner |-> Frame, eax |-> STATUS_SUCCESS]

Interrupted == frame # NoFrame

TypeOK ==
    /\ count \in 1 .. MaxThreads
    /\ state \in [Thread -> States]
    /\ block \in [Thread -> WaitBlock]
    /\ saved \in [Thread -> CpuState]
    /\ current \in 0 .. count - 1
    /\ cpu \in CpuState
    /\ frame \in CpuState
    /\ handles \subseteq Handle
    /\ next_event \in 0 .. MaxEvents
    /\ next_mutant \in 0 .. MaxMutants
    /\ event \in [Event -> [live : BOOLEAN, manual : BOOLEAN, signaled : BOOLEAN]]
    /\ mutant \in [Mutant -> [holder : Thread \cup {Nobody}, recursion : Nat]]
    /\ header \in [Address -> [auto : BOOLEAN, signaled : BOOLEAN]]
    /\ elapsed \in Nat
    /\ holds \in [Mutant -> [Thread -> Nat]]

-----------------------------------------------------------------------------
(* The boot environment load_xbe leaves behind: thread 0 runs, and its own *)
(* handle is never entered in the handle table.                            *)
Init ==
    /\ count = 1
    /\ state = [t \in Thread |-> IF t = 0 THEN "Running" ELSE "Absent"]
    /\ block = [t \in Thread |-> NoBlock]
    /\ saved = [t \in Thread |-> [owner |-> t, eax |-> STATUS_SUCCESS]]
    /\ current = 0
    /\ cpu = [owner |-> 0, eax |-> STATUS_SUCCESS]
    /\ frame = NoFrame
    /\ handles = {}
    /\ next_event = 0
    /\ next_mutant = 0
    /\ event = [e \in Event |-> [live |-> FALSE, manual |-> FALSE, signaled |-> FALSE]]
    /\ mutant = [m \in Mutant |-> [holder |-> Nobody, recursion |-> 0]]
    /\ header \in [Address -> [auto : BOOLEAN, signaled : {FALSE}]]
    /\ \A t \in Thread : ~header[KThreadKey(t)].auto
    /\ elapsed = 0
    /\ holds = [m \in Mutant |-> [t \in Thread |-> 0]]

-----------------------------------------------------------------------------
(* Wait keys: key_signaled and consume_key.  The parameters ev, mu and st  *)
(* are the event, mutant and state tables at the moment of the test, which *)
(* inside a signalling call is not the state the call started from.        *)

KeySignaled(ev, mu, st, key, t) ==
    CASE key[1] = "event"   -> ev[key[2]].live /\ ev[key[2]].signaled
      [] key[1] = "mutant"  -> mu[key[2]].holder \in {Nobody, t}
      [] key[1] = "thread"  -> key \in handles /\ st[key[2]] = "Terminated"
      [] OTHER              -> header[key].signaled

(* Consuming the key leaves it unsignaled for every other thread.          *)
Exclusive(ev, mu, key) ==
    \/ key[1] = "event" /\ ~ev[key[2]].manual
    \/ key[1] = "mutant" /\ mu[key[2]].holder = Nobody

(* The handle is in one of the tables a wait looks it up in.               *)
Known(key) ==
    CASE key[1] = "event"  -> event[key[2]].live
      [] key[1] = "mutant" -> key[2] < next_mutant
      [] OTHER             -> key \in handles

(* consume_key for a set of keys, each on behalf of the thread taker[key]. *)
ConsumeEvents(ev, keys) ==
    [e \in Event |->
        IF EventKey(e) \in keys /\ ~ev[e].manual
        THEN [ev[e] EXCEPT !.signaled = FALSE] ELSE ev[e]]

(* Mutant: a taken mutant keeps no owner.                                  *)
ConsumeMutantsUnowned(mu, keys, taker) == mu

ConsumeMutants(mu, keys, taker) ==
    [m \in Mutant |->
        IF MutantKey(m) \in keys /\ mu[m].holder = Nobody
        THEN [holder |-> taker[MutantKey(m)], recursion |-> 1] ELSE mu[m]]

FirstIndex(keys, key) ==
    CHOOSE i \in DOMAIN keys :
        keys[i] = key /\ \A j \in 1 .. i - 1 : keys[j] # key

-----------------------------------------------------------------------------
(* The wake arbiter, wake_by_key.  Candidates are visited in index order;  *)
(* a wait-any candidate is satisfied outright, a wait-all candidate only   *)
(* when each of its keys is still signaled after what the earlier woken    *)
(* ones consumed.  W is the set of threads it wakes.                       *)

Candidates(key) ==
    {t \in Thread : state[t] = "Waiting" /\ key \in Range(block[t].keys)}

Consumed(key, t) == IF block[t].all THEN Range(block[t].keys) ELSE {key}

TakenBefore(W, key, t) == UNION {Consumed(key, w) : w \in {u \in W : u < t}}

Satisfied(ev, mu, st, W, key, t) ==
    block[t].all =>
        \A k \in Range(block[t].keys) :
            /\ KeySignaled(ev, mu, st, k, t)
            /\ ~(k \in TakenBefore(W, key, t) /\ Exclusive(ev, mu, k))

(* Mutants: one signal wakes one thread, or every thread, whatever the     *)
(* object is.                                                              *)
WokenOne(ev, mu, st, key, wake_all, W) ==
    /\ W \subseteq Candidates(key)
    /\ \A t \in Candidates(key) :
          t \in W <=> /\ Satisfied(ev, mu, st, W, key, t)
                      /\ \A w \in W : t <= w

WokenEvery(ev, mu, st, key, wake_all, W) ==
    /\ W \subseteq Candidates(key)
    /\ \A t \in Candidates(key) : t \in W <=> Satisfied(ev, mu, st, W, key, t)

Woken(ev, mu, st, key, wake_all, W) ==
    /\ W \subseteq Candidates(key)
    /\ \A t \in Candidates(key) :
          t \in W <=> /\ Satisfied(ev, mu, st, W, key, t)
                      /\ wake_all \/ \A w \in W : t <= w

(* Mutant: the wake status counts keys from one.                           *)
WakeStatusFromOne(key, t) ==
    IF block[t].all THEN STATUS_SUCCESS ELSE FirstIndex(block[t].keys, key)

WakeStatus(key, t) ==
    IF block[t].all THEN STATUS_SUCCESS ELSE FirstIndex(block[t].keys, key) - 1

(* ready_thread_with for every woken thread.                               *)
ReadyStates(st, W) == [t \in Thread |-> IF t \in W THEN "Ready" ELSE st[t]]
ReadyContexts(W, status) ==
    [t \in Thread |->
        IF t \in W THEN [saved[t] EXCEPT !.eax = status[t]] ELSE saved[t]]
ClearBlocks(W) == [t \in Thread |-> IF t \in W THEN NoBlock ELSE block[t]]

(* Which woken thread takes a key, and the history of mutants granted.     *)
Taker(W, key, k) == CHOOSE w \in W : k \in Consumed(key, w)
Granted(h, W, key) ==
    [m \in Mutant |-> [t \in Thread |->
        IF t \in W /\ MutantKey(m) \in Consumed(key, t)
        THEN h[m][t] + 1 ELSE h[m][t]]]

(* The whole call: wake W and let it consume, from tables ev and mu.       *)
WakeByKey(ev, mu, key, wake_all, W) ==
    LET taken == UNION {Consumed(key, w) : w \in W}
    IN /\ Woken(ev, mu, state, key, wake_all, W)
       /\ state' = ReadyStates(state, W)
       /\ saved' = ReadyContexts(W, [t \in W |-> WakeStatus(key, t)])
       /\ block' = ClearBlocks(W)
       /\ event' = ConsumeEvents(ev, taken)
       /\ mutant' = ConsumeMutants(mu, taken, [k \in taken |-> Taker(W, key, k)])

-----------------------------------------------------------------------------
(* The switch every park, exit and idle resume ends with: the first ready  *)
(* thread in creation order runs; without one the processor keeps what it  *)
(* holds and the run loop idles.                                           *)
SwitchToReady(st, sv, live) ==
    /\ saved' = sv
    /\ \/ /\ \A t \in Thread : st[t] # "Ready"
          /\ state' = st
          /\ cpu' = live
          /\ current' = current
       \/ \E next \in Thread :
             /\ st[next] = "Ready"
             /\ \A t \in Thread : st[t] = "Ready" => next <= t
             /\ state' = [st EXCEPT ![next] = "Running"]
             /\ cpu' = sv[next]
             /\ current' = next

(* A wait's status lands in EAX when its stub returns.  A call that fails  *)
(* changes nothing else.                                                   *)
Returns(status) == cpu' = [cpu EXCEPT !.eax = status]
Fails == UNCHANGED vars

(* Mutant: a wait at interrupt level parks the thread it borrowed.         *)
ParkAlways(keys, all, ms, timeout_status) ==
    LET deadline == IF ms = Infinite THEN Infinite
                    ELSE elapsed + (IF ms < 1 THEN 1 ELSE ms)
        returned == [cpu EXCEPT !.eax = STATUS_SUCCESS]
    IN /\ block' = [block EXCEPT ![current] =
                       [keys |-> keys, all |-> all, deadline |-> deadline,
                        timeout_status |-> timeout_status]]
       /\ SwitchToReady([state EXCEPT ![current] = "Waiting"],
                        [saved EXCEPT ![current] = returned], returned)
       /\ count' = count

(* A wait the export could not satisfy: park_pending, then park_active     *)
(* when the run loop applies it.  Inside an interrupt frame the wait is    *)
(* dropped, and the routine simply continues.                              *)
Park(keys, all, ms, timeout_status) ==
    LET deadline == IF ms = Infinite THEN Infinite
                    ELSE elapsed + (IF ms < 1 THEN 1 ELSE ms)
        returned == [cpu EXCEPT !.eax = STATUS_SUCCESS]
    IN IF Interrupted
       THEN cpu' = returned /\ UNCHANGED tableVars
       ELSE /\ block' = [block EXCEPT ![current] =
                            [keys |-> keys, all |-> all, deadline |-> deadline,
                             timeout_status |-> timeout_status]]
            /\ SwitchToReady([state EXCEPT ![current] = "Waiting"],
                             [saved EXCEPT ![current] = returned], returned)
            /\ count' = count

(* The Timeout argument, a pointer to hundred-nanosecond units: null and   *)
(* absolute times never expire, zero polls, an interval is at least 1 ms.  *)
Milliseconds(v) == IF (-v) \div 10000 < 1 THEN 1 ELSE (-v) \div 10000
ReadTimeoutMs(v) ==
    CASE v = NullPointer -> Infinite
      [] v # NullPointer /\ v = 0 -> 0
      [] v # NullPointer /\ v > 0 -> Infinite
      [] v # NullPointer /\ v < 0 -> Milliseconds(v)

-----------------------------------------------------------------------------
(* Kernel exports.  Guest code calls them: the active thread when it may   *)
(* run, or an interrupt routine on a borrowed frame, whose calls act in    *)
(* the name of the thread that happened to be current.                     *)
GuestRuns == Interrupted \/ state[current] = "Running"

PsCreateSystemThreadEx(suspended) ==
    /\ GuestRuns
    /\ \/ /\ count < MaxThreads
          /\ count' = count + 1
          /\ state' = [state EXCEPT ![count] =
                          IF suspended THEN "Suspended" ELSE "Ready"]
          /\ saved' = [saved EXCEPT ![count] =
                          [owner |-> count, eax |-> STATUS_SUCCESS]]
          /\ handles' = handles \cup {ThreadKey(count)}
          /\ UNCHANGED <<block, current, processorVars, next_event, next_mutant,
                         event, mutant, header, elapsed, holds>>
       \/ Fails     \* the arena has no room for the stack or thread pages

(* Mutant: an exit wakes only the joiners that hold the thread's handle.   *)
TerminateByHandleOnly ==
    LET dead == [state EXCEPT ![current] = "Terminated"]
        key == ThreadKey(current)
    IN /\ ~Interrupted
       /\ state[current] = "Running"
       /\ \E W \in SUBSET Candidates(key) :
            /\ Woken(event, mutant, dead, key, TRUE, W)
            /\ block' = ClearBlocks(W)
            /\ SwitchToReady(ReadyStates(dead, W),
                   ReadyContexts(W, [t \in W |-> WakeStatus(key, t)]), cpu)
       /\ header' = [header EXCEPT ![KThreadKey(current)].signaled = TRUE]
       /\ UNCHANGED <<count, frame, handles, next_event, next_mutant, event,
                      mutant, holds, elapsed>>

(* PsTerminateSystemThread, a return to the exit sentinel, and the boot    *)
(* thread's return to null all end here.  Interrupt routines return to     *)
(* their own sentinel; that they do not terminate the thread they borrowed *)
(* is assumed of the guest.                                                *)
PsTerminateSystemThread ==
    LET dead == [state EXCEPT ![current] = "Terminated"]
        key == ThreadKey(current)
        kthread == KThreadKey(current)
        joined == Candidates(kthread)
    IN /\ ~Interrupted
       /\ state[current] = "Running"
       /\ \E W \in SUBSET Candidates(key) :
            LET taken == UNION {Consumed(key, w) : w \in W}
            IN /\ Woken(event, mutant, dead, key, TRUE, W)
               /\ block' = ClearBlocks(W \cup joined)
               /\ event' = ConsumeEvents(event, taken)
               /\ mutant' = ConsumeMutants(mutant, taken,
                                           [k \in taken |-> Taker(W, key, k)])
               /\ holds' = Granted(holds, W, key)
               /\ SwitchToReady(
                     ReadyStates(dead, W \cup joined),
                     ReadyContexts(W \cup joined, [t \in W \cup joined |->
                        WakeStatus(IF t \in W THEN key ELSE kthread, t)]),
                     cpu)
       /\ header' = [header EXCEPT ![kthread].signaled = TRUE]
       /\ UNCHANGED <<count, frame, handles, next_event, next_mutant, elapsed>>

NtCreateEvent(manual, signaled) ==
    /\ GuestRuns
    /\ next_event < MaxEvents
    /\ next_event' = next_event + 1
    /\ event' = [event EXCEPT ![next_event] =
                    [live |-> TRUE, manual |-> manual, signaled |-> signaled]]
    /\ UNCHANGED <<tableVars, processorVars, handles, next_mutant, mutant, header,
                   elapsed, holds>>

(* set_event: an auto-reset signal one waiter took is consumed by the wake *)
(* itself, so the export's own reset afterwards changes nothing more.      *)
NtSetEvent(e) ==
    LET ev == [event EXCEPT ![e].signaled = TRUE]
        key == EventKey(e)
    IN /\ GuestRuns
       /\ \/ /\ event[e].live
             /\ \E W \in SUBSET Candidates(key) :
                   /\ WakeByKey(ev, mutant, key, event[e].manual, W)
                   /\ holds' = Granted(holds, W, key)
             /\ UNCHANGED <<count, current, processorVars, handles, next_event,
                            next_mutant, header, elapsed>>
          \/ ~event[e].live /\ Fails

(* close_handle: the thread and mutant handle set first, then events.  A   *)
(* closed mutant handle leaves the mutant itself in its table.             *)
NtClose(h) ==
    /\ GuestRuns
    /\ \/ /\ h \in handles
          /\ handles' = handles \ {h}
          /\ event' = event
          /\ UNCHANGED <<tableVars, processorVars, next_event, next_mutant, mutant,
                         header, elapsed, holds>>
       \/ /\ h \notin handles
          /\ h[1] = "event" /\ event[h[2]].live
          /\ event' = [event EXCEPT ![h[2]].live = FALSE]
          /\ UNCHANGED <<tableVars, processorVars, handles, next_event, next_mutant,
                         mutant, header, elapsed, holds>>
       \/ /\ h \notin handles
          /\ ~(h[1] = "event" /\ event[h[2]].live)
          /\ Fails

NtCreateMutant(owned) ==
    /\ GuestRuns
    /\ next_mutant < MaxMutants
    /\ next_mutant' = next_mutant + 1
    /\ mutant' = [mutant EXCEPT ![next_mutant] =
                     IF owned THEN [holder |-> current, recursion |-> 1]
                              ELSE [holder |-> Nobody, recursion |-> 0]]
    /\ holds' = [holds EXCEPT ![next_mutant][current] = IF owned THEN 1 ELSE 0]
    /\ handles' = handles \cup {MutantKey(next_mutant)}
    /\ UNCHANGED <<tableVars, processorVars, next_event, event, header, elapsed>>

NtReleaseMutant(m) ==
    LET key == MutantKey(m)
        left == mutant[m].recursion - 1
        dropped == [holds EXCEPT ![m][current] = IF @ > 0 THEN @ - 1 ELSE 0]
    IN /\ GuestRuns
       /\ \/ /\ m < next_mutant /\ mutant[m].holder = current /\ left > 0
             /\ mutant' = [mutant EXCEPT ![m].recursion = left]
             /\ holds' = dropped
             /\ UNCHANGED <<tableVars, processorVars, handles, next_event, next_mutant,
                            event, header, elapsed>>
          \/ /\ m < next_mutant /\ mutant[m].holder = current /\ left <= 0
             /\ \E W \in SUBSET Candidates(key) :
                   /\ WakeByKey(event, [mutant EXCEPT ![m] =
                                   [holder |-> Nobody, recursion |-> 0]],
                                key, FALSE, W)
                   /\ holds' = Granted(dropped, W, key)
             /\ UNCHANGED <<count, current, processorVars, handles, next_event,
                            next_mutant, header, elapsed>>
          \/ (m >= next_mutant \/ mutant[m].holder # current) /\ Fails

-----------------------------------------------------------------------------
(* The waits.  Taking a mutant from interrupt level, or naming one that is *)
(* already held in a multi-wait, is left out unless MutantMisuse allows it.*)
MutantsProper(keys, multi) ==
    MutantMisuse \/ \A m \in Mutant : MutantKey(m) \in Range(keys) =>
                        ~Interrupted /\ (multi => mutant[m].holder # current)

Acquired(keys) ==
    [m \in Mutant |-> [t \in Thread |->
        IF t = current /\ MutantKey(m) \in keys
        THEN holds[m][t] + 1 ELSE holds[m][t]]]

(* A wait satisfied on the spot consumes the keys and returns status.      *)
TakeNow(keys, status) ==
    /\ event' = ConsumeEvents(event, keys)
    /\ mutant' = ConsumeMutants(mutant, keys, [k \in keys |-> current])
    /\ holds' = Acquired(keys)
    /\ Returns(status)
    /\ UNCHANGED <<tableVars, frame, handles, next_event, next_mutant, header,
                   elapsed>>

(* An unsatisfied wait reports a timeout when it only polls, else parks.   *)
PollOrPark(keys, all, v) ==
    /\ \/ /\ ReadTimeoutMs(v) = 0
          /\ Returns(STATUS_TIMEOUT)
          /\ UNCHANGED tableVars
       \/ /\ ReadTimeoutMs(v) # 0
          /\ Park(keys, all, ReadTimeoutMs(v), STATUS_TIMEOUT)
    /\ UNCHANGED <<frame, objectVars, elapsed>>

SignaledNow(key) == KeySignaled(event, mutant, state, key, current)

NtWaitForSingleObject(h, v) ==
    /\ GuestRuns
    /\ MutantsProper(<<h>>, FALSE)
    /\ \/ /\ h[1] = "mutant" /\ h[2] < next_mutant
          /\ mutant[h[2]].holder = current
          /\ mutant[h[2]].recursion < MaxRecursion
          /\ mutant' = [mutant EXCEPT ![h[2]].recursion = @ + 1]
          /\ holds' = Acquired({h})
          /\ Returns(STATUS_SUCCESS)
          /\ UNCHANGED <<tableVars, frame, handles, next_event, next_mutant,
                         event, header, elapsed>>
       \/ /\ ~(h[1] = "mutant" /\ mutant[h[2]].holder = current)
          /\ Known(h)
          /\ \/ SignaledNow(h) /\ TakeNow({h}, STATUS_SUCCESS)
             \/ ~SignaledNow(h) /\ PollOrPark(<<h>>, FALSE, v)
       \/ ~Known(h) /\ Fails

NtWaitForMultipleObjectsEx(keys, all, v) ==
    /\ GuestRuns
    /\ MutantsProper(keys, TRUE)
    /\ \/ /\ keys # << >>
          /\ \A k \in Range(keys) : Known(k)
          /\ \/ /\ all /\ \A k \in Range(keys) : SignaledNow(k)
                /\ TakeNow(Range(keys), STATUS_SUCCESS)
             \/ /\ ~all
                /\ \E i \in DOMAIN keys :
                      /\ SignaledNow(keys[i])
                      /\ \A j \in 1 .. i - 1 : ~SignaledNow(keys[j])
                      /\ TakeNow({keys[i]}, i - 1)
             \/ /\ IF all THEN \E k \in Range(keys) : ~SignaledNow(k)
                          ELSE \A k \in Range(keys) : ~SignaledNow(k)
                /\ PollOrPark(keys, all, v)
       \/ (keys = << >> \/ \E k \in Range(keys) : ~Known(k)) /\ Fails

(* The object is named by address: a thread's control block, or an event   *)
(* in guest memory.                                                        *)
KeWaitForSingleObject(a, v) ==
    /\ GuestRuns
    /\ \/ /\ header[a].signaled
          /\ header' = [header EXCEPT ![a].signaled = ~header[a].auto]
          /\ Returns(STATUS_SUCCESS)
          /\ UNCHANGED <<tableVars, frame, handles, next_event, next_mutant,
                         event, mutant, elapsed, holds>>
       \/ ~header[a].signaled /\ PollOrPark(<<a>>, FALSE, v)

(* The wake wakes one waiter of an auto-reset event and consumes the       *)
(* signal; any other header stays signaled and wakes them all.             *)
KeSetEvent(o) ==
    LET a == ObjectKey(o)
    IN /\ GuestRuns
       /\ \E W \in SUBSET Candidates(a) :
             /\ WakeByKey(event, mutant, a, ~header[a].auto, W)
             /\ header' = [header EXCEPT ![a].signaled =
                              ~(header[a].auto /\ W # {})]
       /\ UNCHANGED <<count, current, processorVars, handles, next_event, next_mutant,
                      elapsed, holds>>

KeDelayExecutionThread(v) ==
    /\ GuestRuns
    /\ \/ v = NullPointer /\ Fails
       \/ /\ v # NullPointer /\ v >= 0
          /\ Returns(STATUS_SUCCESS)
          /\ UNCHANGED <<tableVars, frame, objectVars, elapsed>>
       \/ /\ v # NullPointer /\ v < 0
          /\ Park(<< >>, FALSE, Milliseconds(v), STATUS_SUCCESS)
          /\ UNCHANGED <<frame, objectVars, elapsed>>

NtResumeThread(t) ==
    /\ GuestRuns
    /\ \/ /\ ThreadKey(t) \in handles
          /\ state' = [state EXCEPT ![t] =
                          IF @ = "Suspended" THEN "Ready" ELSE @]
          /\ UNCHANGED <<count, block, saved, current, processorVars, objectVars, elapsed>>
       \/ ThreadKey(t) \notin handles /\ Fails

NtSuspendThread(t) ==
    /\ GuestRuns
    /\ \/ /\ ThreadKey(t) \in handles /\ t # current
          /\ state' = [state EXCEPT ![t] =
                          IF @ = "Ready" THEN "Suspended" ELSE @]
          /\ UNCHANGED <<count, block, saved, current, processorVars, objectVars, elapsed>>
       \/ (ThreadKey(t) \notin handles \/ t = current) /\ Fails

(* yield_thread only reports whether another thread is ready; the rotation *)
(* is left to the next slice boundary.                                     *)
NtYieldExecution == GuestRuns /\ UNCHANGED vars

-----------------------------------------------------------------------------
(* The run loop's side of scheduling.                                      *)

(* The pump's time slice.  The hypervisor loop reaches it only with a      *)
(* runnable active thread; the interpreter's tick comes before its idle    *)
(* check and reaches it with a parked one too.                             *)
RotateActive ==
    LET Distance(t) == (t - current + count) % count
        ready == {t \in Thread \ {current} : state[t] = "Ready"}
    IN /\ ~Interrupted
       /\ Interpreter \/ state[current] = "Running"
       /\ \E next \in ready :
             /\ \A t \in ready : Distance(next) <= Distance(t)
             /\ saved' = [saved EXCEPT ![current] = cpu]
             /\ state' = [state EXCEPT
                             ![current] = IF @ = "Running" THEN "Ready" ELSE @,
                             ![next] = "Running"]
             /\ cpu' = saved[next]
             /\ current' = next
       /\ UNCHANGED <<count, block, frame, objectVars, elapsed>>

(* The idle step's resume_any_ready, with the live registers stale.        *)
ResumeAnyReady ==
    /\ ~Interrupted
    /\ state[current] # "Running"
    /\ \E t \in Thread : state[t] = "Ready"
    /\ SwitchToReady(state, saved, cpu)
    /\ UNCHANGED <<count, block, frame, objectVars, elapsed>>

(* advance_timers, the thread half: expired deadlines wake with the        *)
(* block's own status.                                                     *)
Expired(now) ==
    {t \in Thread : /\ state[t] = "Waiting"
                    /\ block[t].deadline # Infinite
                    /\ block[t].deadline <= now}

AdvanceTimers(ms) ==
    LET now == elapsed + ms
        late == Expired(now)
    IN /\ now <= MaxTime
       /\ elapsed' = now
       /\ state' = ReadyStates(state, late)
       /\ saved' = ReadyContexts(late, [t \in late |-> block[t].timeout_status])
       /\ block' = ClearBlocks(late)
       /\ UNCHANGED <<count, current, cpu, frame, objectVars>>

(* deliver_interrupt and deliver_dpc displace the registers, whoever is    *)
(* current and whatever its state; finish_interrupt restores them.         *)
DeliverFrame ==
    /\ ~Interrupted
    /\ frame' = cpu
    /\ cpu' = [owner |-> Frame, eax |-> STATUS_SUCCESS]
    /\ UNCHANGED <<tableVars, objectVars, elapsed>>

FinishInterrupt ==
    /\ Interrupted
    /\ cpu' = frame
    /\ frame' = NoFrame
    /\ UNCHANGED <<tableVars, objectVars, elapsed>>

-----------------------------------------------------------------------------
ThreadCalls ==
    \/ \E b \in BOOLEAN : PsCreateSystemThreadEx(b)
    \/ PsTerminateSystemThread
    \/ \E t \in Thread : NtResumeThread(t) \/ NtSuspendThread(t)
    \/ NtYieldExecution
    \/ \E v \in Timeouts : KeDelayExecutionThread(v)

ObjectCalls ==
    \/ \E manual, signaled \in BOOLEAN : NtCreateEvent(manual, signaled)
    \/ \E e \in Event : NtSetEvent(e)
    \/ \E owned \in BOOLEAN : NtCreateMutant(owned)
    \/ \E m \in Mutant : NtReleaseMutant(m)
    \/ \E h \in Handle : NtClose(h)
    \/ \E o \in Object : KeSetEvent(o)

WaitCalls ==
    \E v \in Timeouts :
        \/ \E h \in Handle : NtWaitForSingleObject(h, v)
        \/ \E keys \in MultiKeys, all \in BOOLEAN :
              NtWaitForMultipleObjectsEx(keys, all, v)
        \/ \E a \in Address : KeWaitForSingleObject(a, v)

RunLoopSteps ==
    \/ RotateActive
    \/ ResumeAnyReady
    \/ \E ms \in 1 .. MaxTime : AdvanceTimers(ms)
    \/ DeliverFrame
    \/ FinishInterrupt

Next == ThreadCalls \/ ObjectCalls \/ WaitCalls \/ RunLoopSteps

Spec == Init /\ [][Next]_vars

-----------------------------------------------------------------------------
(* Correctness.                                                            *)

(* At most one thread is marked running, and it is the one whose registers *)
(* the processor holds (ADR 0011; rotate_active, park_active, exit_active, *)
(* resume_any_ready).                                                      *)
SingleRunning ==
    \A t \in Thread : state[t] = "Running" => t = current

(* No thread ever loses its register context to another: the running       *)
(* thread's registers are live (or displaced by an interrupt frame), and   *)
(* every thread that can still run has its own context saved.              *)
ContextIntegrity ==
    /\ state[current] = "Running" =>
          (IF Interrupted THEN frame ELSE cpu).owner = current
    /\ \A t \in Thread :
          state[t] \in {"Ready", "Suspended", "Waiting"} => saved[t].owner = t

(* No lost wakeup, whatever order signals, closes, exits and parks came    *)
(* in: a parked wait-any has no signaled key, a parked wait-all has at     *)
(* least one unsignaled key (wake_by_key is the only arbiter, so a signal  *)
(* it misses is never seen again).                                         *)
NoLostWakeup ==
    \A t \in Thread : state[t] = "Waiting" =>
        LET keys == Range(block[t].keys)
            on(k) == KeySignaled(event, mutant, state, k, t)
        IN IF block[t].all THEN \E k \in keys : ~on(k)
                           ELSE \A k \in keys : ~on(k)

(* A join is not lost even when the joined thread's handle was closed      *)
(* after the park: no wait-any names a terminated thread, by handle or by  *)
(* control block (exit_active wakes "whichever way they named").           *)
NoLostJoin ==
    \A t, u \in Thread :
        /\ state[t] = "Waiting" /\ ~block[t].all
        /\ {ThreadKey(u), KThreadKey(u)} \cap Range(block[t].keys) # {}
        => state[u] # "Terminated"

(* Mutual exclusion: a thread that was granted a mutant more often than it *)
(* released it is its one holder, and the recursion count says how often.  *)
MutantExclusion ==
    \A m \in Mutant, t \in Thread :
        holds[m][t] > 0 =>
            mutant[m].holder = t /\ mutant[m].recursion = holds[m][t]

(* A ready thread resumes with exactly the registers it was made ready     *)
(* with, the wake status in EAX included: nothing rewrites them while it   *)
(* waits for its turn, and the switch loads them whole.                    *)
ReadyContextKept ==
    [][\A t \in Thread :
          state[t] \in {"Ready", "Suspended"} =>
              /\ state'[t] \in {"Ready", "Suspended"} => saved'[t] = saved[t]
              /\ state'[t] = "Running" => cpu' = saved[t]]_vars

(* A parked thread wakes only with the truth in EAX: its deadline's status *)
(* when that deadline has passed, success when everything it waits for was *)
(* signaled, or the position of a key this very step signaled.             *)
WokenWithReason ==
    [][\A t \in Thread :
          (state[t] = "Waiting" /\ state'[t] # "Waiting") =>
              LET b == block[t]
                  eax == IF state'[t] = "Running" THEN cpu'.eax ELSE saved'[t].eax
              IN \/ /\ b.deadline # Infinite /\ b.deadline <= elapsed'
                    /\ eax = b.timeout_status
                 \/ b.all /\ eax = STATUS_SUCCESS
                 \/ /\ ~b.all /\ eax + 1 \in DOMAIN b.keys
                    /\ LET k == b.keys[eax + 1]
                       IN \/ k[1] = "mutant" /\ mutant'[k[2]].holder = t
                          \/ k[1] \in {"thread", "kthread"}
                                /\ state'[k[2]] = "Terminated"
                          \/ k[1] = "event" /\ event[k[2]].live
                          \/ k[1] = "object"]_vars

(* One signal, one waiter: when a single step wakes several threads it is  *)
(* the clock, an exit, or an object that stays signaled afterwards; an     *)
(* auto-reset signal and a released mutant are never handed out twice.     *)
OneSignalOneWaiter ==
    [][\A t, u \in Thread :
          /\ t # u
          /\ state[t] = "Waiting" /\ state'[t] # "Waiting"
          /\ state[u] = "Waiting" /\ state'[u] # "Waiting"
          /\ elapsed' = elapsed
          /\ state'[current] # "Terminated"
          => \E k \in Range(block[t].keys) \cap Range(block[u].keys) :
                \/ k[1] = "event" /\ event'[k[2]].manual /\ event'[k[2]].signaled
                \/ k[1] = "object" /\ header'[k].signaled]_vars

====
