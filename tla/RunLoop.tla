------------------------------- MODULE RunLoop -------------------------------
(***************************************************************************)
(* The run loops of exbawks-core/src/emulator.rs around the thread table:  *)
(* the device pump (interpreter: pump_tick_deterministic, once per virtual *)
(* millisecond; hypervisor: every cancellation exit), the idle state of    *)
(* ADR 0021, timers and deferred procedures, interrupt delivery on a       *)
(* borrowed frame, time slices (ADR 0017), and the reasons a run stops.    *)
(*                                                                         *)
(* ThreadManager models what a wait is for; here a parked thread only has  *)
(* a deadline, and guest code may signal any parked thread.  Times are     *)
(* kept relative to now: `left' is due_at - elapsed_ms.                    *)
(***************************************************************************)
EXTENDS Integers, Sequences

CONSTANTS
    MaxThreads,       \* bound on the thread table
    Timer,            \* guest KTIMER objects
    Dpc,              \* guest KDPC objects
    Vector,           \* interrupt vectors with a device: "gpu", "usb"
    Delays,           \* milliseconds the guest sleeps or arms timers for
    VblankInterval,   \* VBLANK_INTERVAL_MS
    SliceCancels,     \* cancellations per time slice
    MaxTicks,         \* milliseconds one cancellation may find elapsed
    Setups            \* the machines and titles to run: records with
                      \*   interpreter: run_blocks, else run_whp
                      \*   refusals: a frame may fail to be delivered
                      \*             (interrupt flag clear, bad stack)
                      \*   threads: how many the title creates
                      \*   uses: timers, deferred procedures
                      \*   vectors: the interrupts it connects

Thread == 0 .. MaxThreads - 1
NoDpc == 0            \* a null Dpc argument
Infinite == -1        \* a wait without a deadline
NoFrame == "none"     \* Emulator::interrupted is None
DpcFrame == "dpc"     \* inside a deferred procedure; an ISR's is its vector

ASSUME RunLoopAssumption ==
    /\ MaxThreads \in Nat \ {0}
    /\ NoDpc \notin Dpc
    /\ Vector \subseteq {"gpu", "usb"}
    /\ Delays \subseteq Nat
    /\ VblankInterval \in Nat \ {0}
    /\ SliceCancels \in Nat \ {0}
    /\ MaxTicks \in Nat
    /\ Setups \subseteq [interpreter : BOOLEAN, refusals : BOOLEAN,
                         threads : 1 .. MaxThreads, uses : SUBSET {"timers", "dpcs"},
                         vectors : SUBSET Vector]

VARIABLES
    setup,      \* the one of Setups that runs
    state,      \* threads[i].state
    left,       \* milliseconds to a parked thread's deadline
    current,    \* the active thread
    raised,     \* KPCR.Irql >= DISPATCH_LEVEL, one KPCR per thread
    frame,      \* what Emulator::interrupted is displaced by
    timers,     \* the armed timers, oldest first
    queue,      \* dpc_queue
    connected,  \* vectors whose interrupt object is connected
    asserted,   \* devices with an interrupt pending
    owed,       \* milliseconds owed to the next vertical blank
    cancels,    \* cancellations since the last slice, on the hypervisor
    pc,         \* "run", or inside the "pump" or the "idle" step
    stop        \* the StopReason

threadVars == <<state, left, current, raised>>
lineVars == <<connected, asserted, owed>>
vars == <<setup, threadVars, frame, timers, queue, lineVars, cancels, pc, stop>>

Init ==
    /\ setup \in Setups
    /\ state = [t \in Thread |-> IF t = 0 THEN "Running" ELSE "Absent"]
    /\ left = [t \in Thread |-> Infinite]
    /\ current = 0
    /\ raised = [t \in Thread |-> FALSE]
    /\ frame = NoFrame
    /\ timers = << >>
    /\ queue = << >>
    /\ connected = {}
    /\ asserted = {}
    /\ owed = 0
    /\ cancels = 0
    /\ pc = "run"
    /\ stop = "none"

Interpreter == setup.interpreter
Refusals == setup.refusals
Interrupted == frame # NoFrame
ActiveRunnable == state[current] = "Running"
Some(s) == \E t \in Thread : state[t] = s

-----------------------------------------------------------------------------
(* advance_timers and the device clock.  A timer is a one-shot: KeSetTimer *)
(* is set_timer's only caller and passes period 0.                         *)

Members(q) == {q[i] : i \in DOMAIN q}
QueueDpc(q, d) == IF d \in Members(q) THEN q ELSE Append(q, d)

Expired(ms) == {t \in Thread : state[t] = "Waiting" /\ left[t] \in 0 .. ms}

(* Mutant: without armed timers the wait deadlines are not swept.          *)
AdvanceOnlyWithTimers(ms) ==
    IF ms = 0 \/ timers = << >> THEN UNCHANGED <<state, left, timers, queue>>
    ELSE /\ state' = [t \in Thread |-> IF t \in Expired(ms) THEN "Ready" ELSE state[t]]
         /\ left' = [t \in Thread |-> IF t \in Expired(ms) THEN Infinite ELSE left[t]]
         /\ timers' = << >>
         /\ queue' = queue

AdvanceTimers(ms) ==
    LET late == Expired(ms)
        due == SelectSeq(timers, LAMBDA k : k.left <= ms /\ k.dpc # NoDpc)
        kept == SelectSeq(timers, LAMBDA k : k.left > ms)
        queued[i \in 0 .. Len(due)] == IF i = 0 THEN queue ELSE QueueDpc(queued[i - 1], due[i].dpc)
    IN IF ms = 0 THEN UNCHANGED <<state, left, timers, queue>>
       ELSE /\ state' = [t \in Thread |-> IF t \in late THEN "Ready" ELSE state[t]]
            /\ left' = [t \in Thread |->
                           IF t \in late \/ left[t] = Infinite THEN Infinite
                           ELSE left[t] - ms]
            /\ timers' = [i \in DOMAIN kept |-> [kept[i] EXCEPT !.left = @ - ms]]
            /\ queue' = queued[Len(due)]

(* A vertical blank once per interval, and USB frames: each may leave its  *)
(* device asking for attention, if the guest has enabled that.             *)
AdvanceDevices(ms) ==
    LET blank == owed + ms >= VblankInterval
        asking == setup.vectors \cap ((IF blank THEN {"gpu"} ELSE {})
                              \cup (IF ms > 0 THEN {"usb"} ELSE {}))
    IN /\ owed' = IF blank THEN 0 ELSE owed + ms
       /\ \E now \in SUBSET asking : asserted' = asserted \cup now

(* interrupt_requested: the display's blank comes first.                   *)
Requested ==
    LET able == asserted \cap connected
    IN IF "gpu" \in able THEN {"gpu"} ELSE able

-----------------------------------------------------------------------------
(* The switch park_active, exit_active and resume_any_ready share.         *)
SwitchToReady(st) ==
    \/ /\ \A t \in Thread : st[t] # "Ready"
       /\ state' = st
       /\ current' = current
    \/ \E next \in Thread :
          /\ st[next] = "Ready"
          /\ \A t \in Thread : st[t] = "Ready" => next <= t
          /\ state' = [st EXCEPT ![next] = "Running"]
          /\ current' = next

(* rotate_active: the next ready thread after the current one in the ring. *)
Distance(t) == (t - current + MaxThreads) % MaxThreads
(* Mutant: the first ready thread in table order, as a park would pick.    *)
RotateToFirst ==
    LET ready == {t \in Thread \ {current} : state[t] = "Ready"}
    IN \/ ready = {} /\ UNCHANGED <<state, current>>
       \/ \E next \in ready :
             /\ \A t \in ready : next <= t
             /\ state' = [state EXCEPT ![current] = "Ready", ![next] = "Running"]
             /\ current' = next

RotateActive ==
    LET ready == {t \in Thread \ {current} : state[t] = "Ready"}
    IN \/ ready = {} /\ UNCHANGED <<state, current>>
       \/ \E next \in ready :
             /\ \A t \in ready : Distance(next) <= Distance(t)
             /\ state' = [state EXCEPT
                             ![current] = IF @ = "Running" THEN "Ready" ELSE @,
                             ![next] = "Running"]
             /\ current' = next

(* The slice, with its guard: never at or above DISPATCH_LEVEL.            *)
Slice ==
    /\ IF raised[current] THEN UNCHANGED <<state, current>> ELSE RotateActive
    /\ UNCHANGED <<left, raised>>

-----------------------------------------------------------------------------
(* Guest code: the active thread, or the routine on a borrowed frame.      *)
GuestRuns ==
    /\ pc = "run" /\ stop = "none"
    /\ Interrupted \/ ActiveRunnable

CreateThread ==
    /\ GuestRuns
    /\ \E t \in Thread :
          /\ state[t] = "Absent" /\ t < setup.threads
          /\ \A u \in Thread : state[u] = "Absent" => t <= u
          /\ state' = [state EXCEPT ![t] = "Ready"]
    /\ UNCHANGED <<setup, left, current, raised, frame, timers, queue, lineVars,
                   cancels, pc, stop>>

(* Any call that signals what thread t waits for.                          *)
Signal(t) ==
    /\ GuestRuns
    /\ state[t] = "Waiting"
    /\ state' = [state EXCEPT ![t] = "Ready"]
    /\ left' = [left EXCEPT ![t] = Infinite]
    /\ UNCHANGED <<setup, current, raised, frame, timers, queue, lineVars,
                   cancels, pc, stop>>

(* A wait its export could not satisfy; apply_pending_scheduling drops it  *)
(* inside a frame.                                                         *)
Wait(ms) ==
    /\ GuestRuns
    /\ \/ Interrupted /\ UNCHANGED <<state, left, current>>
       \/ /\ ~Interrupted
          /\ left' = [left EXCEPT ![current] = ms]
          /\ SwitchToReady([state EXCEPT ![current] = "Waiting"])
    /\ UNCHANGED <<setup, raised, frame, timers, queue, lineVars, cancels, pc, stop>>

(* Mutant: an exit with nobody ready ends the run, parked threads or not.  *)
ExitForgetsParked(joiners) ==
    /\ GuestRuns /\ ~Interrupted
    /\ joiners = {}
    /\ SwitchToReady([state EXCEPT ![current] = "Terminated"])
    /\ stop' = IF \E t \in Thread : state'[t] = "Running" THEN "none" ELSE "GuestExit"
    /\ UNCHANGED <<setup, left, raised, frame, timers, queue, lineVars, cancels, pc>>

(* Thread exit wakes the joiners, some set of parked threads.  Routines on *)
(* a borrowed frame do not terminate the thread they run on.               *)
ExitThread(joiners) ==
    /\ GuestRuns /\ ~Interrupted
    /\ \A t \in joiners : state[t] = "Waiting"
    /\ left' = [t \in Thread |-> IF t \in joiners THEN Infinite ELSE left[t]]
    /\ SwitchToReady([t \in Thread |->
          IF t = current THEN "Terminated"
          ELSE IF t \in joiners THEN "Ready" ELSE state[t]])
    /\ stop' = IF \E t \in Thread : state'[t] \in {"Running", "Waiting"}
               THEN "none" ELSE "GuestExit"
    /\ UNCHANGED <<setup, raised, frame, timers, queue, lineVars, cancels, pc>>

(* KfRaiseIrql and KfLowerIrql write the current thread's KPCR.            *)
ExchangeIrql(high) ==
    /\ GuestRuns
    /\ raised' = [raised EXCEPT ![current] = high]
    /\ UNCHANGED <<setup, state, left, current, frame, timers, queue, lineVars,
                   cancels, pc, stop>>

KeSetTimer(object, ms, dpc) ==
    LET armed == [object |-> object, dpc |-> dpc, left |-> ms]
        known == {i \in DOMAIN timers : timers[i].object = object}
    IN /\ GuestRuns
       /\ timers' = IF known = {} THEN Append(timers, armed)
                    ELSE [i \in DOMAIN timers |->
                             IF i \in known THEN armed ELSE timers[i]]
       /\ UNCHANGED <<setup, threadVars, frame, queue, lineVars, cancels, pc, stop>>

KeCancelTimer(object) ==
    /\ GuestRuns
    /\ timers' = SelectSeq(timers, LAMBDA k : k.object # object)
    /\ UNCHANGED <<setup, threadVars, frame, queue, lineVars, cancels, pc, stop>>

KeInsertQueueDpc(d) ==
    /\ GuestRuns
    /\ queue' = QueueDpc(queue, d)
    /\ UNCHANGED <<setup, threadVars, frame, timers, lineVars, cancels, pc, stop>>

KeConnectInterrupt(v) ==
    /\ GuestRuns
    /\ connected' = connected \cup {v}
    /\ UNCHANGED <<setup, threadVars, frame, timers, queue, asserted, owed, cancels, pc, stop>>

(* The export reports success and leaves the routine connected.            *)
KeDisconnectInterrupt(v) == GuestRuns /\ UNCHANGED vars

(* Guest code clears a device's interrupt status.                          *)
Acknowledge(v) ==
    /\ GuestRuns
    /\ v \in asserted
    /\ asserted' = asserted \ {v}
    /\ UNCHANGED <<setup, threadVars, frame, timers, queue, connected, owed,
                   cancels, pc, stop>>

(* The routine returns to INTERRUPT_RETURN_SENTINEL.                       *)
FinishInterrupt ==
    /\ GuestRuns /\ Interrupted
    /\ frame' = NoFrame
    /\ UNCHANGED <<setup, threadVars, timers, queue, lineVars, cancels, pc, stop>>

-----------------------------------------------------------------------------
(* Borrowed frames.  Delivery may be refused: deliver_dpc has taken its    *)
(* DPC off the queue by then, while a refused interrupt stays asserted.    *)

DeliverDpc ==
    /\ queue # << >>
    /\ queue' = Tail(queue)
    /\ frame' = DpcFrame

DpcPassedOver ==
    /\ queue = << >> \/ Refusals
    /\ queue' = IF queue = << >> THEN queue ELSE Tail(queue)

DeliverInterrupt ==
    /\ frame' \in Requested

InterruptPassedOver ==
    /\ Requested = {} \/ Refusals
    /\ frame' = frame

-----------------------------------------------------------------------------
(* The pump.  Its clock half comes first, then one frame or one slice.     *)

Pump ==
    /\ pc = "run" /\ stop = "none"
    /\ Interpreter \/ Interrupted \/ ActiveRunnable
    /\ pc' = "pump"
    /\ \E ms \in IF Interpreter THEN {1} ELSE 0 .. MaxTicks :
          AdvanceTimers(ms) /\ AdvanceDevices(ms)
    /\ UNCHANGED <<setup, current, raised, frame, connected, cancels, stop>>

(* Mutant: the pump leaves deferred procedures to the idle state.          *)
PumpHypervisorSkipsDpc ==
    /\ pc = "pump" /\ ~Interpreter
    /\ pc' = "run"
    /\ IF Interrupted THEN UNCHANGED threadVars ELSE Slice
    /\ UNCHANGED <<setup, frame, queue, timers, lineVars, cancels, stop>>

(* The tail of pump_tick_deterministic: a refused frame costs the slice.   *)
PumpInterpreter ==
    /\ pc = "pump" /\ Interpreter
    /\ pc' = "run"
    /\ \/ Interrupted /\ UNCHANGED <<threadVars, frame, queue>>
       \/ /\ ~Interrupted /\ queue # << >>
          /\ DeliverDpc \/ (DpcPassedOver /\ frame' = frame)
          /\ UNCHANGED threadVars
       \/ /\ ~Interrupted /\ queue = << >> /\ Requested # {}
          /\ DeliverInterrupt \/ InterruptPassedOver
          /\ UNCHANGED <<threadVars, queue>>
       \/ /\ ~Interrupted /\ queue = << >> /\ Requested = {}
          /\ Slice
          /\ UNCHANGED <<frame, queue>>
    /\ UNCHANGED <<setup, timers, lineVars, cancels, stop>>

(* The tail of a cancellation exit: a delivered frame skips the count of   *)
(* cancellations, so slices come from the others.                          *)
PumpHypervisor ==
    /\ pc = "pump" /\ ~Interpreter
    /\ pc' = "run"
    /\ \/ /\ ~Interrupted
          /\ \/ DeliverDpc
             \/ DpcPassedOver /\ DeliverInterrupt
          /\ UNCHANGED <<threadVars, cancels>>
       \/ /\ \/ Interrupted /\ UNCHANGED <<frame, queue>>
             \/ ~Interrupted /\ DpcPassedOver /\ InterruptPassedOver
          /\ cancels' = (cancels + 1) % SliceCancels
          /\ IF cancels' = 0 /\ ~Interrupted THEN Slice ELSE UNCHANGED threadVars
    /\ UNCHANGED <<setup, timers, lineVars, stop>>

-----------------------------------------------------------------------------
(* The idle state: no frame, and the active thread cannot run.             *)
Idle == pc = "run" /\ stop = "none" /\ ~Interrupted /\ ~ActiveRunnable

(* wake_hint.                                                              *)
Deadlines ==
    {timers[i].left : i \in DOMAIN timers}
        \cup {left[t] : t \in {u \in Thread : state[u] = "Waiting" /\ left[u] # Infinite}}
NextDue == CHOOSE due \in Deadlines : \A other \in Deadlines : due <= other

(* idle_step_deterministic: virtual time jumps to the next wake.           *)
IdleInterpreter ==
    /\ Idle /\ Interpreter
    /\ \/ /\ ~Some("Waiting")
          /\ stop' = "GuestExit"
          /\ UNCHANGED <<state, left, timers, queue, pc>>
       \/ /\ Some("Waiting") /\ Deadlines = {}
          /\ stop' = "GuestDeadlock"
          /\ UNCHANGED <<state, left, timers, queue, pc>>
       \/ /\ Some("Waiting") /\ Deadlines # {}
          /\ AdvanceTimers(IF NextDue < 1 THEN 1 ELSE NextDue)
          /\ pc' = "idle"
          /\ stop' = stop
    /\ UNCHANGED <<setup, current, raised, frame, lineVars, cancels>>

WakeInterpreter ==
    /\ pc = "idle" /\ Interpreter
    /\ pc' = "run"
    /\ \/ /\ Some("Ready") /\ SwitchToReady(state)
          /\ UNCHANGED <<left, raised, frame, queue, stop>>
       \/ /\ ~Some("Ready") /\ DeliverDpc
          /\ UNCHANGED <<threadVars, stop>>
       \/ /\ ~Some("Ready") /\ DpcPassedOver
          /\ stop' = "GuestDeadlock"
          /\ UNCHANGED <<threadVars, frame>>
    /\ UNCHANGED <<setup, timers, lineVars, cancels>>

(* The idle half of run_whp: the clocks follow the host's.                 *)
IdleHypervisor ==
    /\ Idle /\ ~Interpreter
    /\ \E ms \in 0 .. MaxTicks : AdvanceTimers(ms) /\ AdvanceDevices(ms)
    /\ pc' = "idle"
    /\ UNCHANGED <<setup, current, raised, frame, connected, cancels, stop>>

(* Ten seconds without progress also stop the run ("Stalled").             *)
WakeHypervisor ==
    /\ pc = "idle" /\ ~Interpreter
    /\ pc' = "run"
    /\ \/ /\ Some("Ready") /\ SwitchToReady(state)
          /\ UNCHANGED <<left, raised, frame, queue, stop>>
       \/ /\ ~Some("Ready")
          /\ \/ DeliverDpc
             \/ DpcPassedOver /\ DeliverInterrupt
          /\ UNCHANGED <<threadVars, stop>>
       \/ /\ ~Some("Ready") /\ DpcPassedOver /\ InterruptPassedOver
          /\ \/ ~Some("Waiting") /\ stop' = "GuestExit"
             \/ /\ Some("Waiting") /\ Deadlines = {} /\ connected = {}
                /\ stop' = "GuestDeadlock"
             \/ /\ Some("Waiting") /\ (Deadlines # {} \/ connected # {})
                /\ stop' \in {"none", "Stalled"}
          /\ UNCHANGED threadVars
    /\ UNCHANGED <<setup, timers, lineVars, cancels>>

(* The window was closed, or the block or exit budget ran out.             *)
HostStops ==
    /\ pc = "run" /\ stop = "none"
    /\ stop' = "Host"
    /\ UNCHANGED <<setup, threadVars, frame, timers, queue, lineVars, cancels, pc>>

Stopped == stop # "none" /\ UNCHANGED vars

-----------------------------------------------------------------------------
ThreadSteps ==
    \/ CreateThread
    \/ \E t \in Thread : Signal(t)
    \/ \E ms \in Delays \cup {Infinite} : Wait(ms)
    \/ \E joiners \in SUBSET Thread : ExitThread(joiners)
    \/ \E high \in BOOLEAN : ExchangeIrql(high)

DeviceSteps ==
    \/ /\ "timers" \in setup.uses
       /\ \E k \in Timer, ms \in Delays, d \in Dpc \cup {NoDpc} : KeSetTimer(k, ms, d)
    \/ \E k \in Timer : KeCancelTimer(k)
    \/ "dpcs" \in setup.uses /\ \E d \in Dpc : KeInsertQueueDpc(d)
    \/ \E v \in setup.vectors : KeConnectInterrupt(v) \/ KeDisconnectInterrupt(v)
    \/ \E v \in setup.vectors : Acknowledge(v)
    \/ FinishInterrupt

LoopSteps ==
    \/ Pump
    \/ PumpInterpreter
    \/ PumpHypervisor
    \/ IdleInterpreter
    \/ WakeInterpreter
    \/ IdleHypervisor
    \/ WakeHypervisor

Next == ThreadSteps \/ DeviceSteps \/ LoopSteps \/ HostStops \/ Stopped

Spec == Init /\ [][Next]_vars

(* The pump comes round whatever the guest does: every BLOCKS_PER_TICK     *)
(* loop iterations, or when the host thread that cancels the virtual       *)
(* processor each millisecond has done so.  The loop's own steps follow    *)
(* one another, wall time passes, and a routine on a borrowed frame that   *)
(* keeps being run returns, as one at interrupt level must on the console. *)
ClockMoves == (Pump \/ IdleHypervisor) /\ owed' # owed

FairSpec ==
    /\ Spec
    /\ SF_vars(Pump)
    /\ WF_vars(PumpInterpreter \/ PumpHypervisor)
    /\ SF_vars(IdleInterpreter)
    /\ WF_vars(IdleHypervisor)
    /\ WF_vars(WakeInterpreter \/ WakeHypervisor)
    /\ SF_vars(ClockMoves)
    /\ SF_vars(FinishInterrupt)

-----------------------------------------------------------------------------
(* Correctness.                                                            *)

(* A run reports GuestExit only when nothing is left to run: no thread is  *)
(* ready (exit_current_thread: "Only a table with nothing left to wake is  *)
(* a guest exit").                                                         *)
ExitGenuine ==
    stop = "GuestExit" =>
        \A t \in Thread : state[t] \in {"Absent", "Terminated"}

(* A run reports GuestDeadlock only when no thread could still run: none   *)
(* is ready, none has a deadline, no timer is armed, no interrupt routine  *)
(* is connected (ADR 0021: "no deadline, no armed timer, no connected      *)
(* interrupt"), and no deferred procedure, which is guest code that may    *)
(* signal, is still queued.  The last holds only where no frame is         *)
(* refused: deliver_dpc tries one procedure, and when that one cannot be   *)
(* called the loop gives up with the others still in the queue.            *)
DeadlockGenuine ==
    stop = "GuestDeadlock" =>
        /\ ~Some("Ready") /\ Deadlines = {} /\ connected = {}
        /\ ~Refusals => queue = << >>

(* The hypervisor's loop tells the end of a run right: WakeHypervisor      *)
(* tries every source of a wake-up before it gives up.                     *)
HypervisorStops == ~Interpreter => ExitGenuine /\ DeadlockGenuine

(* A queued deferred procedure leaves the queue, unless the run stops.     *)
QueuedDpcRuns ==
    \A d \in Dpc :
        (d \in Members(queue) /\ ~Refusals) ~> (d \notin Members(queue) \/ stop # "none")

(* A wait with a deadline ends, unless the run stops.                      *)
DeadlineReached ==
    \A t \in Thread :
        (left[t] # Infinite) ~> (left[t] = Infinite \/ stop # "none")

(* From some point on the threads only compute, nobody is left at          *)
(* DISPATCH_LEVEL, and no deferred procedure or interrupt comes due: a     *)
(* pump step that delivers one, or on the interpreter is refused one, has  *)
(* no slice, so one that stays due for ever would take them all.           *)
OnlyCompute ==
    /\ <>[][LoopSteps]_vars
    /\ <>[](queue = << >> /\ Requested = {} /\ \A t \in Thread : ~raised[t])

(* Time slices reach everyone: while threads only compute, every ready     *)
(* thread gets the processor ("so a compute-only loop cannot starve the    *)
(* rest of the guest").                                                    *)
ComputeCannotStarve ==
    OnlyCompute =>
        \A t \in Thread :
            (state[t] = "Ready") ~> (state[t] # "Ready" \/ stop # "none")
====
