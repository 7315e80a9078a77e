---------------------------- MODULE DeviceProofs ----------------------------
(***************************************************************************)
(* Theorems about the machine around a title: the run loop stops for the   *)
(* reason it reports, loads and stores come to the device that claims      *)
(* them, and the USB host controller that polls the gamepads loses no      *)
(* completion, for any number of threads and transfers.                    *)
(***************************************************************************)
EXTENDS RunLoop, DeviceSpace, UsbController, FiniteSetTheorems, TLAPS

(* The prover of the steps that name none.                                 *)
USE ZenonT(20)

States == {"Absent", "Ready", "Running", "Waiting", "Terminated"}

(* Between its two halves the idle step owns the processor: no routine is  *)
(* on a borrowed frame and nobody runs.  A stopped loop is in neither half *)
(* of the pump nor of the idle step.                                       *)
LoopInv ==
    /\ state \in [Thread -> States]
    /\ current \in Thread
    /\ \A t \in Thread : state[t] = "Running" => t = current
    /\ stop # "none" => pc = "run"
    /\ pc = "idle" => ~Interrupted /\ \A t \in Thread : state[t] # "Running"

StopInv == LoopInv /\ HypervisorStops

(* A switch leaves at most the new current thread running, and nobody      *)
(* ready unless somebody runs.                                             *)
LEMMA SwitchRuns ==
    ASSUME current \in Thread, NEW st \in [Thread -> States],
           \A t \in Thread : st[t] # "Running", SwitchToReady(st)
    PROVE  /\ state' \in [Thread -> States]
           /\ current' \in Thread
           /\ \A t \in Thread : state'[t] = "Running" => t = current'
           /\ (\A t \in Thread : state'[t] # "Running") => \A t \in Thread : state'[t] # "Ready"
<1>1. CASE state' = st /\ current' = current /\ \A t \in Thread : st[t] # "Ready"
  BY <1>1
<1>2. ASSUME NEW next \in Thread, st[next] = "Ready", state' = [st EXCEPT ![next] = "Running"],
             current' = next
      PROVE  /\ state' \in [Thread -> States]
             /\ current' \in Thread
             /\ \A t \in Thread : state'[t] = "Running" => t = current'
             /\ \E t \in Thread : state'[t] = "Running"
  BY <1>2 DEF States
<1> QED
  BY <1>1, <1>2 DEF SwitchToReady

LEMMA RotateRuns ==
    ASSUME state \in [Thread -> States], current \in Thread,
           \A t \in Thread : state[t] = "Running" => t = current, RotateActive
    PROVE  /\ state' \in [Thread -> States]
           /\ current' \in Thread
           /\ \A t \in Thread : state'[t] = "Running" => t = current'
<1>1. CASE UNCHANGED <<state, current>>
  BY <1>1
<1>2. CASE ~UNCHANGED <<state, current>>
  <2>1. PICK next \in Thread \ {current} :
           /\ state' = [state EXCEPT ![current] = IF @ = "Running" THEN "Ready" ELSE @,
                                     ![next] = "Running"]
           /\ current' = next
    BY <1>2 DEF RotateActive
  <2> QED
    BY <2>1 DEF States
<1> QED
  BY <1>1, <1>2

(* The clock readies parked threads and runs nobody.                       *)
LEMMA ClockRuns ==
    ASSUME state \in [Thread -> States], NEW ms, AdvanceTimers(ms)
    PROVE  /\ state' \in [Thread -> States]
           /\ \A t \in Thread : state'[t] = "Running" => state[t] = "Running"
<1>1. CASE state' = state
  BY <1>1
<1>2. CASE state' # state
  <2>1. state' = [t \in Thread |-> IF t \in Expired(ms) THEN "Ready" ELSE state[t]]
    BY <1>2 DEF AdvanceTimers
  <2> QED
    BY <2>1 DEF States
<1> QED
  BY <1>1, <1>2

LEMMA ThreadLoop ==
    ASSUME LoopInv, ThreadSteps
    PROVE  LoopInv' /\ setup' = setup /\ (stop' = "none" \/ stop' = "GuestExit")
<1>0. GuestRuns /\ pc = "run" /\ stop = "none"
  BY DEF ThreadSteps, CreateThread, Signal, Wait, ExitThread, ExchangeIrql, GuestRuns
<1>1. CASE CreateThread
  BY <1>0, <1>1 DEF CreateThread, LoopInv, States
<1>2. ASSUME NEW t \in Thread, Signal(t) PROVE LoopInv' /\ setup' = setup /\ stop' = stop
  BY <1>0, <1>2 DEF Signal, LoopInv, States
<1>3. ASSUME NEW ms, Wait(ms) PROVE LoopInv' /\ setup' = setup /\ stop' = stop
  <2>0. pc' = pc /\ stop' = stop /\ setup' = setup
    BY <1>3 DEF Wait
  <2>1. CASE Interrupted
    BY <1>0, <1>3, <2>0, <2>1 DEF Wait, LoopInv
  <2>2. CASE ~Interrupted
    <3> DEFINE st == [state EXCEPT ![current] = "Waiting"]
    <3>1. SwitchToReady(st)
      BY <1>3, <2>2 DEF Wait
    <3>2. current \in Thread /\ st \in [Thread -> States] /\ \A t \in Thread : st[t] # "Running"
      BY DEF LoopInv, States
    <3> HIDE DEF st
    <3>3. /\ state' \in [Thread -> States]
          /\ current' \in Thread
          /\ \A t \in Thread : state'[t] = "Running" => t = current'
      BY <3>1, <3>2, SwitchRuns
    <3> QED
      BY <1>0, <2>0, <3>3 DEF LoopInv
  <2> QED
    BY <2>1, <2>2
<1>4. ASSUME NEW joiners, ExitThread(joiners)
      PROVE  LoopInv' /\ setup' = setup /\ (stop' = "none" \/ stop' = "GuestExit")
  <2> DEFINE st == [t \in Thread |->
                       IF t = current THEN "Terminated"
                       ELSE IF t \in joiners THEN "Ready" ELSE state[t]]
  <2>1. /\ SwitchToReady(st) /\ pc' = pc /\ setup' = setup
        /\ stop' = "none" \/ stop' = "GuestExit"
    BY <1>4 DEF ExitThread
  <2>2. current \in Thread /\ st \in [Thread -> States] /\ \A t \in Thread : st[t] # "Running"
    BY DEF LoopInv, States
  <2> HIDE DEF st
  <2>3. /\ state' \in [Thread -> States]
        /\ current' \in Thread
        /\ \A t \in Thread : state'[t] = "Running" => t = current'
    BY <2>1, <2>2, SwitchRuns
  <2> QED
    BY <1>0, <2>1, <2>3 DEF LoopInv
<1>5. ASSUME NEW high, ExchangeIrql(high) PROVE LoopInv' /\ setup' = setup /\ stop' = stop
  BY <1>0, <1>5 DEF ExchangeIrql, LoopInv
<1> QED
  BY <1>0, <1>1, <1>2, <1>3, <1>4, <1>5 DEF ThreadSteps, CreateThread

LEMMA DeviceLoop ==
    ASSUME LoopInv, DeviceSteps
    PROVE  LoopInv' /\ UNCHANGED <<setup, stop, threadVars>> /\ stop = "none"
<1>1. pc = "run" /\ stop = "none" /\ UNCHANGED <<setup, pc, stop, threadVars>>
  BY DEF DeviceSteps, KeSetTimer, KeCancelTimer, KeInsertQueueDpc, KeConnectInterrupt,
         KeDisconnectInterrupt, Acknowledge, FinishInterrupt, GuestRuns, vars
<1> QED
  BY <1>1 DEF LoopInv, threadVars

LEMMA PumpLoop ==
    ASSUME LoopInv, Pump \/ PumpInterpreter \/ PumpHypervisor
    PROVE  LoopInv' /\ UNCHANGED <<setup, stop>> /\ stop = "none"
<1>1. CASE Pump
  <2>1. \E ms : AdvanceTimers(ms)
    BY <1>1 DEF Pump
  <2>2. /\ state' \in [Thread -> States]
        /\ \A t \in Thread : state'[t] = "Running" => state[t] = "Running"
    BY <2>1, ClockRuns DEF LoopInv
  <2>3. pc' = "pump" /\ stop = "none" /\ UNCHANGED <<setup, current, stop>>
    BY <1>1 DEF Pump
  <2> QED
    BY <2>2, <2>3 DEF LoopInv
<1>2. CASE PumpInterpreter \/ PumpHypervisor
  <2>1. /\ pc = "pump" /\ pc' = "run" /\ UNCHANGED <<setup, stop>>
        /\ UNCHANGED threadVars \/ Slice
    BY <1>2 DEF PumpInterpreter, PumpHypervisor
  <2>2. UNCHANGED <<state, current>> \/ RotateActive
    BY <2>1 DEF Slice, threadVars
  <2>3. /\ state' \in [Thread -> States]
        /\ current' \in Thread
        /\ \A t \in Thread : state'[t] = "Running" => t = current'
    BY <2>2, RotateRuns DEF LoopInv
  <2> QED
    BY <2>1, <2>3 DEF LoopInv
<1> QED
  BY <1>1, <1>2

LEMMA IdleLoop ==
    ASSUME LoopInv, IdleInterpreter \/ IdleHypervisor
    PROVE  LoopInv' /\ setup' = setup /\ stop = "none" /\ (~Interpreter => stop' = stop)
<1>0. /\ Idle /\ UNCHANGED <<setup, current, frame>>
      /\ ~Interpreter => stop' = stop
  BY DEF IdleInterpreter, IdleHypervisor
<1>1. \A t \in Thread : state[t] # "Running"
  BY <1>0 DEF LoopInv, Idle, ActiveRunnable
<1>2. \/ state' = state /\ pc' = pc
      \/ pc' = "idle" /\ stop' = stop /\ \E ms : AdvanceTimers(ms)
  BY DEF IdleInterpreter, IdleHypervisor
<1>3. state' \in [Thread -> States] /\ \A t \in Thread : state'[t] # "Running"
  BY <1>1, <1>2, ClockRuns DEF LoopInv
<1> QED
  BY <1>0, <1>2, <1>3 DEF LoopInv, Idle, Interrupted

LEMMA WakeLoop ==
    ASSUME LoopInv, WakeInterpreter \/ WakeHypervisor
    PROVE  LoopInv' /\ setup' = setup /\ stop = "none"
<1>1. /\ pc = "idle" /\ pc' = "run" /\ setup' = setup
      /\ UNCHANGED threadVars \/ SwitchToReady(state)
  BY DEF WakeInterpreter, WakeHypervisor
<1>2. \A t \in Thread : state[t] # "Running"
  BY <1>1 DEF LoopInv
<1>3. /\ state' \in [Thread -> States]
      /\ current' \in Thread
      /\ \A t \in Thread : state'[t] = "Running" => t = current'
  BY <1>1, <1>2, SwitchRuns DEF LoopInv, threadVars
<1> QED
  BY <1>1, <1>3 DEF LoopInv

LEMMA LoopStep ==
    ASSUME LoopInv, [Next]_vars
    PROVE  LoopInv' /\ setup' = setup /\ (stop # "none" => UNCHANGED vars)
<1>1. CASE UNCHANGED vars
  BY <1>1 DEF vars, threadVars, LoopInv, Interrupted
<1>2. CASE HostStops
  BY <1>2 DEF HostStops, threadVars, LoopInv
<1>3. CASE ThreadSteps
  <2>1. stop = "none"
    BY <1>3 DEF ThreadSteps, CreateThread, Signal, Wait, ExitThread, ExchangeIrql, GuestRuns
  <2> QED
    BY <1>3, <2>1, ThreadLoop
<1> QED
  BY <1>1, <1>2, <1>3, DeviceLoop, PumpLoop, IdleLoop, WakeLoop DEF Next, LoopSteps, Stopped

(* The two actions of the hypervisor's loop that end a run.                *)
LEMMA ExitStops ==
    ASSUME LoopInv, NEW joiners, ExitThread(joiners)
    PROVE  HypervisorStops'
<1> DEFINE st == [t \in Thread |->
                     IF t = current THEN "Terminated"
                     ELSE IF t \in joiners THEN "Ready" ELSE state[t]]
<1>1. /\ SwitchToReady(st)
      /\ stop' = IF \E t \in Thread : state'[t] \in {"Running", "Waiting"}
                 THEN "none" ELSE "GuestExit"
  BY DEF ExitThread
<1>2. current \in Thread /\ st \in [Thread -> States] /\ \A t \in Thread : st[t] # "Running"
  BY DEF LoopInv, States
<1> HIDE DEF st
<1>3. /\ state' \in [Thread -> States]
      /\ (\A t \in Thread : state'[t] # "Running") => \A t \in Thread : state'[t] # "Ready"
  BY <1>1, <1>2, SwitchRuns
<1>4. stop' = "GuestExit" => \A t \in Thread : state'[t] \in {"Absent", "Terminated"}
  BY <1>1, <1>3 DEF States
<1> QED
  BY <1>1, <1>4 DEF HypervisorStops, ExitGenuine, DeadlockGenuine

LEMMA WakeStops ==
    ASSUME LoopInv, WakeHypervisor
    PROVE  HypervisorStops'
<1>0. /\ pc = "idle" /\ stop = "none" /\ state \in [Thread -> States]
      /\ \A t \in Thread : state[t] # "Running"
      /\ UNCHANGED <<setup, timers, connected>>
  BY DEF WakeHypervisor, LoopInv, lineVars
<1>1. CASE stop' \in {"none", "Stalled"}
  BY <1>1 DEF HypervisorStops, ExitGenuine, DeadlockGenuine
<1>2. CASE stop' \notin {"none", "Stalled"}
  <2>1. /\ ~Some("Ready") /\ DpcPassedOver /\ UNCHANGED threadVars
        /\ \/ ~Some("Waiting") /\ stop' = "GuestExit"
           \/ Deadlines = {} /\ connected = {} /\ stop' = "GuestDeadlock"
    BY <1>0, <1>2 DEF WakeHypervisor
  <2>2. state' = state /\ left' = left
    BY <2>1 DEF threadVars
  <2>3. ~Refusals => queue = << >> /\ queue' = << >>
    BY <2>1 DEF DpcPassedOver
  <2>4. CASE ~Some("Waiting") /\ stop' = "GuestExit"
    <3>1. \A t \in Thread : state'[t] \in {"Absent", "Terminated"}
      BY <1>0, <2>1, <2>2, <2>4 DEF Some, States
    <3> QED
      BY <2>4, <3>1 DEF HypervisorStops, ExitGenuine, DeadlockGenuine
  <2>5. CASE Deadlines = {} /\ connected = {} /\ stop' = "GuestDeadlock"
    <3>1. Deadlines' = {} /\ connected' = {} /\ ~Some("Ready")' /\ Refusals' = Refusals
      BY <1>0, <2>1, <2>2, <2>5 DEF Deadlines, Some, Refusals
    <3> QED
      BY <2>3, <2>5, <3>1 DEF HypervisorStops, ExitGenuine, DeadlockGenuine
  <2> QED
    BY <2>1, <2>4, <2>5
<1> QED
  BY <1>1, <1>2

LEMMA StopStep ==
    ASSUME LoopInv, HypervisorStops, [Next]_vars
    PROVE  HypervisorStops'
<1>1. LoopInv' /\ setup' = setup /\ (stop # "none" => UNCHANGED vars)
  BY LoopStep
<1>2. CASE UNCHANGED vars
  BY ZenonT(20), <1>2 DEF vars, threadVars, lineVars, HypervisorStops, ExitGenuine, DeadlockGenuine,
     Interpreter, Refusals, Deadlines, Some
<1>3. ASSUME stop' \notin {"GuestExit", "GuestDeadlock"} PROVE HypervisorStops'
  BY <1>3 DEF HypervisorStops, ExitGenuine, DeadlockGenuine
<1>4. ASSUME Interpreter PROVE HypervisorStops'
  BY <1>1, <1>4 DEF HypervisorStops, Interpreter
<1>5. CASE stop = "none" /\ ~Interpreter
  <2>1. CASE ThreadSteps
    <3>1. stop' = stop \/ \E joiners \in SUBSET Thread : ExitThread(joiners)
      BY <2>1 DEF ThreadSteps, CreateThread, Signal, Wait, ExchangeIrql
    <3> QED
      BY <1>3, <1>5, <3>1, ExitStops
  <2>2. CASE DeviceSteps
    BY <1>3, <1>5, <2>2, DeviceLoop
  <2>3. CASE LoopSteps
    <3>1. ~WakeInterpreter
      BY <1>5 DEF WakeInterpreter
    <3> QED
      BY <1>3, <1>5, <2>3, <3>1, PumpLoop, IdleLoop, WakeStops DEF LoopSteps
  <2>4. CASE HostStops
    BY <1>3, <2>4 DEF HostStops
  <2> QED
    BY <1>2, <2>1, <2>2, <2>3, <2>4 DEF Next, Stopped
<1> QED
  BY <1>1, <1>2, <1>4, <1>5

LEMMA InitLoop == Init => StopInv
  BY SMT, RunLoopAssumption DEF Init, StopInv, LoopInv, States, Thread, HypervisorStops, ExitGenuine,
     DeadlockGenuine

(* The hypervisor's loop (run_whp, exit_current_thread) reports GuestExit  *)
(* only when every thread has ended, and GuestDeadlock only when no thread *)
(* is ready, no deadline or timer is pending, no interrupt is connected    *)
(* and, where frames are not refused, no deferred procedure is queued:     *)
(* whatever the threads, timers, procedures and vectors.                   *)
THEOREM HypervisorStopsGenuine == Spec => []HypervisorStops
<1>1. StopInv /\ [Next]_vars => StopInv'
  BY LoopStep, StopStep DEF StopInv
<1>2. StopInv => HypervisorStops
  BY DEF StopInv
<1> QED
  BY <1>1, <1>2, InitLoop, PTL DEF Spec

-----------------------------------------------------------------------------
(* The devices *)

Instance == 0 .. InstanceCells - 1

DevShape(d) ==
    d = [vblank |-> d.vblank, registers |-> d.registers, mailboxes |-> d.mailboxes, head |-> d.head,
         pramin |-> d.pramin, submissions |-> d.submissions]
VblankShape(v) == v \in [pending : BOOLEAN, enable : {0, 1}, master : {0, 1}]
TitleShape(t) ==
    /\ t = [launches |-> t.launches, claim |-> t.claim, isr |-> t.isr, polls |-> t.polls, meant |-> t.meant]
    /\ t.launches \in Nat \ {0} /\ t.claim \in ClaimBases \cup {None} /\ t.isr \in {"idle", "asked"}
    /\ DOMAIN t.meant = Instance /\ t.meant = [i \in Instance |-> t.meant[i]]

(* The window shows the first title's claim, which no mailbox overlaps;    *)
(* the title is only called for a blank that stays pending until it        *)
(* acknowledges it; and what it polls is the last cell it wrote in one of  *)
(* its mailboxes.                                                          *)
DeviceInv ==
    /\ DevShape(dev) /\ VblankShape(dev.vblank) /\ TitleShape(title)
    /\ DOMAIN ram = Cells
    /\ dev.pramin \in ClaimBases \cup {None}
    /\ dev.mailboxes \subseteq {MailboxPage(c) : c \in CommBases}
    /\ title.launches = 1 => dev.pramin = title.claim
    /\ \A i \in Instance : title.meant[i] # None =>
          title.claim # None /\ (title.launches = 1 => ram[title.claim + i] = title.meant[i])
    /\ title.isr = "asked" => VblankInterruptPending(dev.vblank)
    /\ title.polls # None => InMailbox(dev, title.polls) /\ dev.head = title.polls

LEMMA ClaimsAreMemory ==
    ASSUME NEW b \in ClaimBases, NEW i \in Instance, DeviceInv
    PROVE  b + i \in Cells /\ ~InMailbox(dev, b + i) /\ b # None /\ b \in Nat
<1>1. b + i \in Cells /\ b \in Nat /\ \A c \in CommBases : (b + i) \div PageCells # MailboxPage(c)
  BY DeviceAssumption DEF Instance, MailboxPage
<1>2. ~InMailbox(dev, b + i)
  BY <1>1 DEF DeviceInv, InMailbox
<1> QED
  BY SMT, <1>1, <1>2 DEF None

LEMMA DeviceStart == DeviceInit => DeviceInv
<1> SUFFICES ASSUME DeviceInit PROVE DeviceInv
  OBVIOUS
<1>1. DevShape(dev) /\ VblankShape(dev.vblank) /\ dev.pramin = None /\ dev.mailboxes = {}
  BY DEF DeviceInit, NewDevices, DevShape, VblankShape, Vblank
<1>2. /\ TitleShape(title) /\ title.claim = None /\ title.isr = "idle" /\ title.polls = None
      /\ \A i \in Instance : title.meant[i] = None
  BY SMT DEF DeviceInit, NewTitle, TitleShape, Unset, Instance
<1> QED
  BY <1>1, <1>2 DEF DeviceInit, DeviceInv

LEMMA ClaimStep ==
    ASSUME DeviceInv, NEW base \in ClaimBases, ClaimGpuInstance(base)
    PROVE  DeviceInv'
<1>1. /\ title' = [title EXCEPT !.claim = base] /\ title.claim = None /\ Running /\ ram' = ram
      /\ dev' = Routed(dev, base)
  BY DEF ClaimGpuInstance
<1>2. \A i \in Instance : title.meant[i] = None
  BY <1>1 DEF DeviceInv
<1>3. /\ TitleShape(title') /\ title'.launches = title.launches /\ title'.claim = base
      /\ title'.isr = "idle" /\ title'.polls = None /\ title'.meant = title.meant
  BY <1>1 DEF DeviceInv, TitleShape, Running
<1>4. /\ DevShape(dev') /\ dev'.vblank = dev.vblank /\ dev'.mailboxes = dev.mailboxes
      /\ dev'.pramin = IF dev.pramin = None THEN base ELSE dev.pramin
  BY <1>1 DEF DeviceInv, DevShape, Routed
<1>5. title'.launches = 1 => dev'.pramin = title'.claim
  BY <1>1, <1>3, <1>4 DEF DeviceInv
<1> QED
  BY <1>1, <1>2, <1>3, <1>4, <1>5 DEF DeviceInv

(* A cell of the claim gets a value, through the window or as memory.      *)
LEMMA MeantStep ==
    ASSUME DeviceInv, Running, NEW b \in ClaimBases, NEW at \in Instance, NEW v, dev' = dev,
           ram' = [ram EXCEPT ![b + at] = v], title.launches = 1 => b = title.claim,
           title' = IF title.claim # None THEN [title EXCEPT !.meant[at] = v] ELSE title
    PROVE  DeviceInv'
<1>1. b + at \in Cells /\ b \in Nat /\ at \in Nat /\ DOMAIN ram = Cells
  BY SMT, ClaimsAreMemory DEF DeviceInv, Instance
<1>2. DOMAIN ram' = Cells /\ \A c \in Cells : ram'[c] = IF c = b + at THEN v ELSE ram[c]
  BY <1>1
<1>3. /\ TitleShape(title') /\ title'.launches = title.launches /\ title'.claim = title.claim
      /\ title'.isr = title.isr /\ title'.polls = title.polls
      /\ \A i \in Instance : title'.meant[i] = IF i = at /\ title.claim # None THEN v ELSE title.meant[i]
  <2>1. CASE title.claim = None
    BY <2>1 DEF DeviceInv
  <2>2. CASE title.claim # None
    BY <2>2 DEF DeviceInv, TitleShape
  <2> QED
    BY <2>1, <2>2
<1>4. ASSUME NEW i \in Instance, title'.meant[i] # None
      PROVE  title'.claim # None /\ (title'.launches = 1 => ram'[title'.claim + i] = title'.meant[i])
  <2>1. title.claim # None
    BY <1>3, <1>4 DEF DeviceInv
  <2>2. ASSUME title.launches = 1
        PROVE  ram'[title.claim + i] = title'.meant[i]
    <3>1. title.claim = b /\ b + i \in Cells
      BY <2>2, ClaimsAreMemory
    <3>2. CASE i = at
      BY <1>2, <1>3, <2>1, <3>1, <3>2
    <3>3. CASE i # at
      <4>1. b + i # b + at
        BY SMT, <1>1, <3>3 DEF Instance
      <4> QED
        BY <1>2, <1>3, <1>4, <2>2, <3>1, <3>3, <4>1 DEF DeviceInv
    <3> QED
      BY <3>2, <3>3
  <2> QED
    BY <1>3, <2>1, <2>2
<1> QED
  BY <1>2, <1>3, <1>4 DEF DeviceInv

(* Registers change and nothing else.                                      *)
LEMMA RegistersStep ==
    ASSUME DeviceInv, DevShape(dev'), UNCHANGED <<ram, title>>, dev'.vblank = dev.vblank,
           dev'.pramin = dev.pramin, dev'.head = dev.head, dev'.mailboxes = dev.mailboxes
    PROVE  DeviceInv'
  BY DEF DeviceInv, InMailbox

LEMMA LatchFacts ==
    ASSUME NEW d, DevShape(d), NEW r, NEW v
    PROVE  /\ DevShape(Latch(d, r, v)) /\ Latch(d, r, v).vblank = d.vblank
           /\ Latch(d, r, v).pramin = d.pramin /\ Latch(d, r, v).head = d.head
           /\ Latch(d, r, v).mailboxes = d.mailboxes
  BY SMT DEF DevShape, Latch

LEMMA WindowStep ==
    ASSUME DeviceInv, NEW at \in 0 .. WindowCells - 1, NEW v \in DeviceValues, WriteWindow(at, v)
    PROVE  DeviceInv'
<1> DEFINE a == [space |-> "window", at |-> at]
<1>1. /\ Running
      /\ dev' = ViewWrite(dev, ram, a, v).dev /\ ram' = ViewWrite(dev, ram, a, v).ram
      /\ title' = IF at < InstanceCells /\ title.claim # None THEN [title EXCEPT !.meant[at] = v] ELSE title
  BY DEF WriteWindow
<1>2. CASE InWindow(dev, a)
  <2>1. dev.pramin \in ClaimBases /\ at \in Instance /\ at < InstanceCells
    BY SMT, <1>2, DeviceAssumption DEF InWindow, DeviceInv, Instance
  <2>2. dev' = dev /\ ram' = [ram EXCEPT ![dev.pramin + at] = v]
    BY <1>1, <1>2 DEF ViewWrite
  <2> QED
    BY <1>1, <2>1, <2>2, MeantStep DEF DeviceInv
<1>3. CASE ~InWindow(dev, a)
  <2>1. dev' = Latch(dev, WindowRegister(a), v) /\ ram' = ram
    BY <1>1, <1>3 DEF ViewWrite
  <2>2. CASE title' = title
    BY SMT, <2>1, <2>2, LatchFacts, RegistersStep DEF DeviceInv
  <2>3. CASE title' # title
    <3>1. at < InstanceCells /\ title.claim # None /\ at \in Instance
      BY SMT, <1>1, <2>3, DeviceAssumption DEF Instance
    <3>2. dev.pramin = None
      BY <1>3, <3>1 DEF InWindow
    <3>3. title.launches # 1
      BY <3>1, <3>2 DEF DeviceInv
    <3>4. /\ TitleShape(title') /\ title'.launches = title.launches /\ title'.claim = title.claim
          /\ title'.isr = title.isr /\ title'.polls = title.polls
      BY <1>1, <3>1 DEF DeviceInv, TitleShape
    <3> HIDE DEF a
    <3> QED
      BY SMT, <2>1, <3>1, <3>3, <3>4, LatchFacts DEF DeviceInv, InMailbox
  <2> QED
    BY <2>2, <2>3
<1> QED
  BY <1>2, <1>3

LEMMA ClaimedStep ==
    ASSUME DeviceInv, NEW at \in Instance, NEW v \in DeviceValues, WriteClaimed(at, v)
    PROVE  DeviceInv'
<1> DEFINE a == [space |-> "memory", at |-> title.claim + at]
<1>1. /\ Running /\ title.claim # None
      /\ dev' = ViewWrite(dev, ram, a, v).dev /\ ram' = ViewWrite(dev, ram, a, v).ram
      /\ title' = [title EXCEPT !.meant[at] = v]
  BY DEF WriteClaimed
<1>2. title.claim \in ClaimBases
  BY <1>1 DEF DeviceInv, TitleShape
<1>3. ~InMailbox(dev, title.claim + at)
  BY <1>2, ClaimsAreMemory
<1>4. ViewWrite(dev, ram, a, v) = WriteMemory(dev, ram, title.claim + at, v)
  BY DEF ViewWrite, InWindow
<1>5. dev' = dev /\ ram' = [ram EXCEPT ![title.claim + at] = v]
  <2> HIDE DEF a
  <2> QED
    BY SMT, <1>1, <1>3, <1>4 DEF WriteMemory
<1> QED
  BY SMT, <1>1, <1>2, <1>5, MeantStep

LEMMA IdentifyStep ==
    ASSUME DeviceInv, NEW base \in CommBases, WriteRegisterCell("GP_COMM_BASE", base)
    PROVE  DeviceInv'
<1>1. /\ Running /\ UNCHANGED <<ram, title>>
      /\ dev' = DeviceWrite(dev, "GP_COMM_BASE", base)
  BY DEF WriteRegisterCell
<1>2. title.polls = None /\ title.isr = "idle"
  BY <1>1 DEF Running
<1>3. CASE base = 0
  <2>1. dev' = Latch(dev, "GP_COMM_BASE", base)
    BY <1>1, <1>3 DEF DeviceWrite, Interrupts
  <2> QED
    BY SMT, <1>1, <2>1, LatchFacts, RegistersStep DEF DeviceInv
<1>4. CASE base # 0
  <2> DEFINE d == Identify(dev, base)
  <2>1. dev' = Latch(d, "GP_COMM_BASE", base)
    BY <1>1, <1>4 DEF DeviceWrite, Interrupts
  <2>2. /\ DevShape(d) /\ d.vblank = dev.vblank /\ d.pramin = dev.pramin
        /\ d.mailboxes = dev.mailboxes \cup {MailboxPage(base)}
    BY SMT DEF DeviceInv, DevShape, Identify
  <2> HIDE DEF d
  <2>3. /\ DevShape(dev') /\ dev'.vblank = dev.vblank /\ dev'.pramin = dev.pramin
        /\ dev'.mailboxes = dev.mailboxes \cup {MailboxPage(base)}
    BY SMT, <2>1, <2>2, LatchFacts
  <2> QED
    BY <1>1, <1>2, <2>3 DEF DeviceInv
<1> QED
  BY <1>3, <1>4

LEMMA PostStep ==
    ASSUME DeviceInv, NEW cell \in Cells, NEW v \in DeviceValues, PostCommand(cell, v)
    PROVE  DeviceInv'
<1> DEFINE a == [space |-> "memory", at |-> cell]
<1>1. /\ Running /\ InMailbox(dev, cell)
      /\ dev' = ViewWrite(dev, ram, a, v).dev /\ ram' = ViewWrite(dev, ram, a, v).ram
      /\ title' = [title EXCEPT !.polls = cell]
  BY DEF PostCommand
<1>2. ViewWrite(dev, ram, a, v) = WriteMemory(dev, ram, cell, v)
  BY DEF ViewWrite, InWindow
<1> HIDE DEF a
<1>3. dev' = [dev EXCEPT !.head = cell] /\ ram' = [ram EXCEPT ![cell] = v]
  BY SMT, <1>1, <1>2 DEF WriteMemory
<1>4. /\ DevShape(dev') /\ dev'.vblank = dev.vblank /\ dev'.pramin = dev.pramin
      /\ dev'.mailboxes = dev.mailboxes /\ dev'.head = cell
  BY <1>3 DEF DeviceInv, DevShape
<1>5. /\ TitleShape(title') /\ title'.launches = title.launches /\ title'.claim = title.claim
      /\ title'.isr = "idle" /\ title'.polls = cell /\ title'.meant = title.meant
  BY <1>1 DEF DeviceInv, TitleShape, Running
<1>6. DOMAIN ram' = Cells /\ \A c \in Cells : c # cell => ram'[c] = ram[c]
  BY <1>3 DEF DeviceInv
<1>7. ASSUME NEW i \in Instance, title.meant[i] # None
      PROVE  title.claim # None /\ (title.launches = 1 => ram'[title.claim + i] = title.meant[i])
  <2>1. title.claim \in ClaimBases
    BY <1>7 DEF DeviceInv, TitleShape
  <2>2. title.claim + i \in Cells /\ title.claim + i # cell
    BY <1>1, <2>1, ClaimsAreMemory
  <2> QED
    BY <1>6, <1>7, <2>2 DEF DeviceInv
<1>8. InMailbox(dev', cell)
  BY <1>1, <1>4 DEF InMailbox
<1> QED
  BY <1>4, <1>5, <1>6, <1>7, <1>8 DEF DeviceInv

LEMMA PollStep ==
    ASSUME DeviceInv, PollCommand
    PROVE  DeviceInv'
<1>1. title' = [title EXCEPT !.polls = None] /\ UNCHANGED <<dev, ram>> /\ title.isr = "idle"
  BY DEF PollCommand
<1>2. /\ TitleShape(title') /\ title'.launches = title.launches /\ title'.claim = title.claim
      /\ title'.isr = "idle" /\ title'.polls = None /\ title'.meant = title.meant
  BY <1>1 DEF DeviceInv, TitleShape
<1> QED
  BY <1>1, <1>2 DEF DeviceInv

LEMMA RelaunchStep ==
    ASSUME DeviceInv, RelaunchTitle
    PROVE  DeviceInv'
<1>1. title' = NewTitle(title.launches + 1) /\ dev' = dev /\ ram' = [c \in Cells |-> 0]
  BY DEF RelaunchTitle
<1>2. title.launches \in Nat \ {0}
  BY DEF DeviceInv, TitleShape
<1>3. /\ TitleShape(title') /\ title'.launches # 1 /\ title'.isr = "idle" /\ title'.polls = None
      /\ \A i \in Instance : title'.meant[i] = None
  BY SMT, <1>1, <1>2 DEF NewTitle, TitleShape, Unset, Instance
<1> QED
  BY <1>1, <1>3 DEF DeviceInv

(* Only the display's interrupt changes, and nobody is asked meanwhile or  *)
(* the blank stays pending.                                                *)
LEMMA InterruptStep ==
    ASSUME DeviceInv, NEW v, VblankShape(v), dev' = [dev EXCEPT !.vblank = v], ram' = ram,
           \/ title' = title
           \/ title' = [title EXCEPT !.isr = "idle"],
           title'.isr = "asked" => VblankInterruptPending(v)
    PROVE  DeviceInv'
<1>1. /\ DevShape(dev') /\ dev'.vblank = v /\ dev'.pramin = dev.pramin
      /\ dev'.mailboxes = dev.mailboxes /\ dev'.head = dev.head
  BY DEF DeviceInv, DevShape
<1>2. /\ TitleShape(title') /\ title'.launches = title.launches /\ title'.claim = title.claim
      /\ title'.polls = title.polls /\ title'.meant = title.meant
  BY DEF DeviceInv, TitleShape
<1> QED
  BY <1>1, <1>2 DEF DeviceInv, InMailbox

LEMMA RegisterStep ==
    ASSUME DeviceInv, NEW r \in Interrupts \cup {"SELF_CLEAR", "PLAIN"}, NEW x \in {0, 1}, WriteRegisterCell(r, x)
    PROVE  DeviceInv'
<1>1. Running /\ UNCHANGED <<ram, title>> /\ dev' = DeviceWrite(dev, r, x)
  BY DEF WriteRegisterCell
<1>2. CASE r \in Interrupts
  <2>1. dev' = [dev EXCEPT !.vblank = WriteInterrupt(dev.vblank, r, x)]
    BY <1>1, <1>2 DEF DeviceWrite, Interrupts
  <2>2. VblankShape(WriteInterrupt(dev.vblank, r, x))
    BY <1>2 DEF WriteInterrupt, VblankShape, DeviceInv, Interrupts
  <2> QED
    BY <1>1, <2>1, <2>2, InterruptStep DEF Running
<1>3. CASE r \notin Interrupts
  <2>1. dev' = Latch(dev, r, x)
    BY <1>1, <1>3 DEF DeviceWrite, Interrupts
  <2> QED
    BY SMT, <1>1, <2>1, LatchFacts, RegistersStep DEF DeviceInv
<1> QED
  BY <1>2, <1>3

LEMMA DisplayStep ==
    ASSUME DeviceInv, DisplayNext
    PROVE  DeviceInv'
<1>1. CASE VerticalBlank
  <2> DEFINE v == RaiseVblank(dev.vblank)
  <2>1. VblankShape(v) /\ (VblankInterruptPending(dev.vblank) => VblankInterruptPending(v))
    BY DEF DeviceInv, VblankShape, RaiseVblank, VblankInterruptPending
  <2>2. dev' = [dev EXCEPT !.vblank = v] /\ ram' = ram /\ title' = title
    BY <1>1 DEF VerticalBlank
  <2> HIDE DEF v
  <2> QED
    BY <2>1, <2>2, InterruptStep DEF DeviceInv
<1>2. CASE DeliverVblank
  <2>1. /\ title' = [title EXCEPT !.isr = "asked"] /\ UNCHANGED <<dev, ram>> /\ title.isr = "idle"
        /\ VblankInterruptPending(dev.vblank)
    BY <1>2 DEF DeliverVblank
  <2>2. /\ TitleShape(title') /\ title'.launches = title.launches /\ title'.claim = title.claim
        /\ title'.polls = title.polls /\ title'.meant = title.meant
    BY <2>1 DEF DeviceInv, TitleShape
  <2> QED
    BY <2>1, <2>2 DEF DeviceInv
<1>3. CASE IsrReturns
  <2> DEFINE v == IF dev' = dev THEN dev.vblank ELSE WriteInterrupt(dev.vblank, "PCRTC_INTR", 1)
  <2>1. /\ title' = [title EXCEPT !.isr = "idle"] /\ ram' = ram
        /\ dev' = dev \/ dev' = DeviceWrite(dev, "PCRTC_INTR", 1)
    BY <1>3 DEF IsrReturns
  <2>2. VblankShape(v)
    BY DEF WriteInterrupt, VblankShape, DeviceInv
  <2>3. dev' = [dev EXCEPT !.vblank = v]
    BY <2>1 DEF DeviceWrite, Interrupts, DeviceInv, DevShape
  <2>4. title'.isr = "idle"
    BY <2>1 DEF DeviceInv, TitleShape
  <2> HIDE DEF v
  <2> QED
    BY <2>1, <2>2, <2>3, <2>4, InterruptStep
<1> QED
  BY <1>1, <1>2, <1>3, RegisterStep DEF DisplayNext

LEMMA DeviceAnswers == DeviceInv => DevicesAnswer
<1> SUFFICES ASSUME DeviceInv PROVE DevicesAnswer
  OBVIOUS
<1>1. InstanceMemoryCoherent
  <2> SUFFICES ASSUME title.launches = 1, NEW i \in Instance, title.meant[i] # None
               PROVE  /\ dev.pramin # None
                      /\ ram[dev.pramin + i] = title.meant[i]
                      /\ ViewRead(dev, ram, [space |-> "window", at |-> i]) = title.meant[i]
    BY DEF InstanceMemoryCoherent, Instance
  <2>1. dev.pramin = title.claim /\ title.claim # None /\ ram[title.claim + i] = title.meant[i]
    BY DEF DeviceInv
  <2>2. i < InstanceCells
    BY SMT, DeviceAssumption DEF Instance
  <2>3. ViewRead(dev, ram, [space |-> "window", at |-> i]) = ram[dev.pramin + i]
    BY <2>1, <2>2 DEF ViewRead, InWindow
  <2> QED
    BY <2>1, <2>3
<1>2. NoPhantomBlank
  BY DEF DeviceInv, NoPhantomBlank, DeviceRead, ReadInterrupt, Interrupts, MasterStatus, VblankInterruptPending
<1>3. PollEnds
  BY DEF DeviceInv, PollEnds, ViewRead, InWindow
<1> QED
  BY <1>1, <1>2, <1>3 DEF DevicesAnswer

(* However the title's code, its sound driver, its display interrupt and a *)
(* soft reboot follow each other: the window shows the first title what it *)
(* built, no interrupt is delivered that its routine finds nobody raising, *)
(* and a posted command is found consumed (mmio.rs, emulator.rs            *)
(* route_pramin_if_claimed).                                               *)
THEOREM DevicesAnswerTitles == DeviceSpec => []DevicesAnswer
<1>1. DeviceInv /\ [MappingNext \/ DisplayNext]_deviceVars => DeviceInv'
  <2> SUFFICES ASSUME DeviceInv, [MappingNext \/ DisplayNext]_deviceVars PROVE DeviceInv'
    OBVIOUS
  <2>1. CASE UNCHANGED deviceVars
    BY <2>1 DEF deviceVars, DeviceInv, InMailbox
  <2>2. CASE MappingNext
    BY <2>2, ClaimStep, WindowStep, ClaimedStep, IdentifyStep, PostStep, PollStep, RelaunchStep
       DEF MappingNext, Instance
  <2> QED
    BY <2>1, <2>2, DisplayStep
<1> QED
  BY <1>1, DeviceStart, DeviceAnswers, PTL DEF DeviceSpec

-----------------------------------------------------------------------------
(* The host controller *)

(* Induction over the natural numbers, with the property as a set.         *)
LEMMA UpTo ==
    ASSUME NEW n \in Nat, NEW S, 0 \in S, \A i \in 0 .. n - 1 : i \in S => i + 1 \in S
    PROVE  \A i \in 0 .. n : i \in S
<1> DEFINE R == OpToRel(<, Nat)
           Bad == {i \in 0 .. n : i \notin S}
<1>1. IsWellFoundedOn(R, Nat)
  BY NatLessThanWellFounded
<1>2. \A x, y \in Nat : y < x => <<y, x>> \in R
  BY DEF OpToRel
<1>3. SUFFICES ASSUME Bad # {} PROVE FALSE
  OBVIOUS
<1>4. Bad \in SUBSET Nat
  BY SMT
<1> HIDE DEF R
<1>5. PICK b \in Bad : \A i \in Bad : <<i, b>> \notin R
  <2> HIDE DEF Bad
  <2> QED
    BY <1>1, <1>3, <1>4, WFMin
<1>6. b \in 0 .. n /\ b \notin S /\ b # 0
  OBVIOUS
<1>7. b - 1 \in 0 .. n - 1 /\ b - 1 \in 0 .. n /\ (b - 1) + 1 = b /\ b - 1 < b /\ b \in Nat /\ b - 1 \in Nat
  BY SMT, <1>6
<1>8. <<b - 1, b>> \in R
  BY <1>2, <1>7
<1>9. b - 1 \in S
  BY <1>5, <1>7, <1>8
<1> QED
  BY <1>6, <1>7, <1>9

(* A queue of retired transfers, the last retired at its head: c numbers   *)
(* them in the order they were retired.                                    *)
Chain(T, head, S, n, c) ==
    /\ n \in Nat /\ c \in [1 .. n -> Transfers]
    /\ \A i, j \in 1 .. n : c[i] = c[j] => i = j
    /\ \A t : t \in S <=> \E i \in 1 .. n : c[i] = t
    /\ head = IF n = 0 THEN Null ELSE c[n]
    /\ \A i \in 1 .. n : T[c[i]].next = IF i = 1 THEN Null ELSE c[i - 1]
Queue(T, head, S) == \E n, c : Chain(T, head, S, n, c)

LEMMA QueueEmpty ==
    ASSUME NEW T
    PROVE  Queue(T, Null, {})
<1> DEFINE c == [i \in 1 .. 0 |-> Null]
<1>1. Chain(T, Null, {}, 0, c)
  BY SMT DEF Chain
<1> QED
  BY <1>1 DEF Queue

LEMMA QueueNull ==
    ASSUME NEW T, NEW S, Queue(T, Null, S)
    PROVE  S = {}
<1>1. PICK n, c : Chain(T, Null, S, n, c)
  BY DEF Queue
<1>2. n = 0
  BY SMT, <1>1, UsbAssumption DEF Chain
<1> QED
  BY SMT, <1>1, <1>2 DEF Chain

LEMMA QueueIn ==
    ASSUME NEW T, NEW head, NEW S, Queue(T, head, S)
    PROVE  S \subseteq Transfers
  BY SMT DEF Queue, Chain

LEMMA QueueKept ==
    ASSUME NEW T, NEW U, NEW head, NEW S, Queue(T, head, S), \A t \in S : U[t].next = T[t].next
    PROVE  Queue(U, head, S)
<1>1. PICK n, c : Chain(T, head, S, n, c)
  BY DEF Queue
<1>2. Chain(U, head, S, n, c)
  BY <1>1 DEF Chain
<1> QED
  BY <1>2 DEF Queue

LEMMA QueuePushed ==
    ASSUME NEW T, NEW U, NEW head, NEW S, Queue(T, head, S), NEW t \in Transfers, t \notin S,
           \A u \in S : U[u].next = T[u].next, U[t].next = head
    PROVE  Queue(U, t, S \cup {t})
<1>1. PICK n, c : Chain(T, head, S, n, c)
  BY DEF Queue
<1> DEFINE d == [i \in 1 .. n + 1 |-> IF i = n + 1 THEN t ELSE c[i]]
<1>2. /\ n \in Nat /\ n + 1 \in Nat /\ n + 1 # 0 /\ d \in [1 .. n + 1 -> Transfers] /\ d[n + 1] = t
      /\ \A i \in 1 .. n : d[i] = c[i] /\ c[i] \in S /\ i \in 1 .. n + 1 /\ i # n + 1
      /\ \A i \in 1 .. n + 1 : i = n + 1 \/ i \in 1 .. n
  BY SMT, <1>1 DEF Chain
<1> HIDE DEF d
<1>3. \A i, j \in 1 .. n + 1 : d[i] = d[j] => i = j
  BY SMT, <1>1, <1>2 DEF Chain
<1>4. \A u : u \in S \cup {t} <=> \E i \in 1 .. n + 1 : d[i] = u
  BY SMT, <1>1, <1>2 DEF Chain
<1>5. ASSUME NEW i \in 1 .. n + 1
      PROVE  U[d[i]].next = IF i = 1 THEN Null ELSE d[i - 1]
  <2>1. CASE i = n + 1
    <3>1. CASE n = 0
      BY SMT, <1>1, <1>2, <2>1, <3>1 DEF Chain
    <3>2. CASE n # 0
      <4>1. n \in 1 .. n /\ i - 1 = n /\ i # 1 /\ head = c[n]
        BY SMT, <1>1, <1>2, <2>1, <3>2 DEF Chain
      <4> QED
        BY <1>2, <2>1, <4>1
    <3> QED
      BY <3>1, <3>2
  <2>2. CASE i # n + 1
    <3>1. i \in 1 .. n /\ (i # 1 => i - 1 \in 1 .. n)
      BY SMT, <1>2, <2>2
    <3>2. U[d[i]].next = IF i = 1 THEN Null ELSE c[i - 1]
      BY SMT, <1>1, <1>2, <3>1 DEF Chain
    <3> QED
      BY <1>2, <3>1, <3>2
  <2> QED
    BY <2>1, <2>2
<1>6. Chain(U, t, S \cup {t}, n + 1, d)
  BY <1>2, <1>3, <1>4, <1>5 DEF Chain
<1> QED
  BY <1>6 DEF Queue

-----------------------------------------------------------------------------
(* The walk along a queue finds exactly its transfers.                     *)
LinkRun(f, head, n) == f = [i \in 0 .. n |-> IF i = 0 THEN [on |-> {}, end |-> head] ELSE LinkStep(f[i - 1])]

LEMMA LinkRuns ==
    ASSUME NEW head, NEW n \in Nat
    PROVE  \E f : LinkRun(f, head, n)
<1> DEFINE S == {k \in Nat : \E f : LinkRun(f, head, k)}
<1>1. 0 \in S
  <2> DEFINE f == [i \in 0 .. 0 |-> [on |-> {}, end |-> head]]
  <2>1. f = [i \in 0 .. 0 |-> IF i = 0 THEN [on |-> {}, end |-> head] ELSE LinkStep(f[i - 1])]
    BY SMT
  <2>2. LinkRun(f, head, 0)
    BY <2>1 DEF LinkRun
  <2> QED
    BY <2>2
<1>2. ASSUME NEW j \in 0 .. n - 1, j \in S PROVE j + 1 \in S
  <2> DEFINE k == j + 1
  <2>1. j \in Nat /\ k \in Nat /\ k # 0 /\ k - 1 = j
    BY SMT, <1>2
  <2>2. PICK g : LinkRun(g, head, j)
    BY <1>2
  <2> DEFINE h == [i \in 0 .. k |-> IF i < k THEN g[i] ELSE LinkStep(g[j])]
  <2> HIDE DEF k
  <2>3. ASSUME NEW i \in 0 .. k
        PROVE  h[i] = IF i = 0 THEN [on |-> {}, end |-> head] ELSE LinkStep(h[i - 1])
    <3>1. CASE i = 0
      <4>1. h[i] = g[0] /\ 0 \in 0 .. j
        BY SMT, <2>1, <3>1
      <4> QED
        BY <2>2, <3>1, <4>1 DEF LinkRun
    <3>2. CASE i # 0 /\ i < k
      <4>1. h[i] = g[i] /\ h[i - 1] = g[i - 1] /\ i \in 0 .. j
        BY SMT, <2>1, <3>2
      <4> QED
        BY <2>2, <3>2, <4>1 DEF LinkRun
    <3>3. CASE i = k
      <4>1. h[i] = LinkStep(g[j]) /\ h[i - 1] = g[j]
        BY SMT, <2>1, <3>3
      <4> QED
        BY <2>1, <3>3, <4>1
    <3> QED
      BY SMT, <2>1, <3>1, <3>2, <3>3
  <2>4. LinkRun(h, head, k)
    BY <2>3 DEF LinkRun
  <2> HIDE DEF h
  <2>5. \E f : LinkRun(f, head, k)
    BY <2>4
  <2> QED
    BY <2>1, <2>5 DEF k
<1> HIDE DEF S
<1>3. n \in S
  <2>1. \A i \in 0 .. n : i \in S
    BY <1>1, <1>2, UpTo
  <2> QED
    BY SMT, <2>1
<1> QED
  BY <1>3 DEF S

LEMMA QueueWalked ==
    ASSUME NEW head, NEW S, Queue(tds, head, S)
    PROVE  DoneQueue(head) = [on |-> S, end |-> Null]
<1> DEFINE N == Cardinality(Transfers)
           L == CHOOSE f : LinkRun(f, head, N)
<1>1. N \in Nat
  BY UsbAssumption, FS_CardinalityType
<1>2. LinkRun(L, head, N)
  BY <1>1, LinkRuns
<1>3. DoneQueue(head) = L[N]
  BY DEF DoneQueue, LinkRun
<1> HIDE DEF L
<1>4. PICK n, c : Chain(tds, head, S, n, c)
  BY DEF Queue
<1>5. n \in Nat /\ n <= N
  <2>1. n \in Nat /\ c \in Injection(1 .. n, Transfers)
    BY <1>4 DEF Chain, Injection, IsInjective
  <2>2. Cardinality(1 .. n) = n
    BY SMT, <2>1, FS_Interval
  <2> QED
    BY SMT, <2>1, <2>2, UsbAssumption, FS_Injection
<1> HIDE DEF N
<1>6. L[0] = [on |-> {}, end |-> head] /\ \A i \in 1 .. N : L[i] = LinkStep(L[i - 1])
  <2>1. L = [i \in 0 .. N |-> IF i = 0 THEN [on |-> {}, end |-> head] ELSE LinkStep(L[i - 1])]
    BY <1>2 DEF LinkRun
  <2>2. L[0] = [on |-> {}, end |-> head]
    BY SMT, <1>1, <2>1
  <2>3. ASSUME NEW i \in 1 .. N PROVE L[i] = LinkStep(L[i - 1])
    <3>1. i \in 0 .. N /\ i # 0
      BY SMT, <1>1, <2>3
    <3> QED
      BY <2>1, <3>1
  <2> QED
    BY <2>2, <2>3
<1> DEFINE To(k) == IF k < n THEN k ELSE n
           On(k) == {t \in Transfers : \E i \in 1 .. n : i > n - To(k) /\ c[i] = t}
           End(k) == IF k < n THEN c[n - k] ELSE Null
           P == {k \in Nat : L[k] = [on |-> On(k), end |-> End(k)]}
<1>7. 0 \in P
  <2>1. On(0) = {} /\ End(0) = head
    BY SMT, <1>4, <1>5 DEF Chain
  <2> QED
    BY <1>6, <2>1
<1>8. ASSUME NEW k \in 0 .. N - 1, k \in P PROVE k + 1 \in P
  <2>1. L[k + 1] = LinkStep(L[k]) /\ k \in Nat /\ k + 1 \in Nat
    <3>1. k + 1 \in 1 .. N /\ (k + 1) - 1 = k /\ k \in Nat /\ k + 1 \in Nat
      BY SMT, <1>1, <1>8
    <3> QED
      BY <1>6, <3>1
  <2>2. L[k] = [on |-> On(k), end |-> End(k)]
    BY <1>8
  <2>3. CASE k < n
    <3> DEFINE i == n - k
    <3>1. i \in 1 .. n /\ c[i] \in Transfers /\ End(k) = c[i] /\ End(k) \in Transfers
      <4>1. i \in 1 .. n /\ End(k) = c[i]
        BY SMT, <1>5, <2>1, <2>3
      <4>2. c \in [1 .. n -> Transfers]
        BY <1>4 DEF Chain
      <4> QED
        BY <4>1, <4>2
    <3>2. L[k + 1] = [on |-> On(k) \cup {c[i]}, end |-> tds[c[i]].next]
      <4>1. L[k].end = c[i] /\ L[k].on = On(k) /\ L[k].end \in Transfers
        BY SMT, <2>2, <3>1
      <4> HIDE DEF On, End, i
      <4> QED
        BY <2>1, <4>1 DEF LinkStep
    <3>3. On(k + 1) = On(k) \cup {c[i]}
      <4>1. To(k) = k /\ To(k + 1) = k + 1 /\ n - (k + 1) = i - 1 /\ n - k = i
        BY SMT, <1>5, <2>1, <2>3
      <4>2. \A j \in 1 .. n : j > i - 1 <=> j > i \/ j = i
        BY SMT, <1>5, <2>1, <3>1
      <4> QED
        BY <3>1, <4>1, <4>2
    <3>4. tds[c[i]].next = End(k + 1)
      <4>1. tds[c[i]].next = IF i = 1 THEN Null ELSE c[i - 1]
        BY <1>4, <3>1 DEF Chain
      <4>2. CASE i = 1
        <5>1. ~(k + 1 < n)
          BY SMT, <1>5, <2>1, <4>2
        <5> QED
          BY <4>1, <4>2, <5>1
      <4>3. CASE i # 1
        <5>1. k + 1 < n /\ n - (k + 1) = i - 1
          BY SMT, <1>5, <2>1, <3>1, <4>3
        <5> QED
          BY <4>1, <4>3, <5>1
      <4> QED
        BY <4>2, <4>3
    <3> QED
      BY <2>1, <3>2, <3>3, <3>4
  <2>4. CASE ~(k < n)
    <3>1. End(k) = Null /\ End(k + 1) = Null /\ On(k + 1) = On(k) /\ Null \notin Transfers
      BY SMT, <1>5, <2>1, <2>4, UsbAssumption
    <3> HIDE DEF On, End
    <3>2. L[k + 1] = L[k]
      BY SMT, <2>1, <2>2, <3>1 DEF LinkStep
    <3> QED
      BY <2>1, <2>2, <3>1, <3>2
  <2> QED
    BY <2>3, <2>4
<1>9. N \in P
  <2> HIDE DEF P
  <2>1. \A i \in 0 .. N : i \in P
    BY <1>1, <1>7, <1>8, UpTo
  <2> QED
    BY SMT, <1>1, <2>1
<1>10. On(N) = S /\ End(N) = Null
  <2>1. To(N) = n /\ ~(N < n)
    BY SMT, <1>1, <1>5
  <2>2. \A t : t \in On(N) <=> t \in S
    <3>1. \A i \in 1 .. n : i > n - To(N) /\ c[i] \in Transfers
      BY SMT, <1>4, <1>5, <2>1 DEF Chain
    <3> QED
      BY SMT, <1>4, <3>1 DEF Chain
  <2> QED
    BY <2>1, <2>2
<1> QED
  BY <1>3, <1>9, <1>10

-----------------------------------------------------------------------------
(* What a transfer descriptor is used for, `kind`, and for which endpoint, *)
(* `of`. An endpoint's transfers run from its head to its tail; a retired  *)
(* one is on the done queue or on the one handed over.                     *)
Kinds == {"done", "handed", "free", "tail", "queue", "none"}
OfKind(kind, k) == {t \in Transfers : kind[t] = k}
Placed(T, heads, tails, fr, kind, of) ==
    /\ kind \in [Transfers -> Kinds]
    /\ of \in [Transfers -> Endpoints]
    /\ \A t \in Transfers : T[t].condition = "noError" <=> kind[t] \in {"done", "handed"}
    /\ \A t \in fr : t \in Transfers /\ kind[t] = "free"
    /\ \A e \in Endpoints : tails[e] \in Transfers /\ kind[tails[e]] = "tail" /\ of[tails[e]] = e
    /\ \A e \in Endpoints : heads[e] = tails[e] \/ (heads[e] \in Transfers /\ kind[heads[e]] = "queue" /\ of[heads[e]] = e)
Ordered(T, heads, tails, kind, of) ==
    /\ \A t \in Transfers : kind[t] = "queue" =>
         /\ \/ T[t].next = tails[of[t]]
            \/ T[t].next \in Transfers /\ kind[T[t].next] = "queue" /\ of[T[t].next] = of[t]
         /\ T[t].next # heads[of[t]]
    /\ \A t, u \in Transfers : kind[t] = "queue" /\ kind[u] = "queue" /\ T[t].next = T[u].next => t = u
Linked(T, heads, tails, dh, hh, fr, kind, of) ==
    /\ Placed(T, heads, tails, fr, kind, of)
    /\ Ordered(T, heads, tails, kind, of)
    /\ Queue(T, dh, OfKind(kind, "done"))
    /\ Queue(T, hh, OfKind(kind, "handed"))

Linkable(T, heads, tails, dh, hh, fr) == \E kind, of : Linked(T, heads, tails, dh, hh, fr, kind, of)

LEMMA LinkedStart ==
    ASSUME NEW T, \A t \in Transfers : T[t].condition # "noError",
           NEW ends, \A e \in Endpoints : ends[e] = e
    PROVE  \E kind, of : Linked(T, ends, ends, Null, Null, Transfers \ Endpoints, kind, of)
<1> DEFINE kind == [t \in Transfers |-> IF t \in Endpoints THEN "tail" ELSE "free"]
           of == [t \in Transfers |-> IF t \in Endpoints THEN t ELSE 1]
<1>0. Endpoints \subseteq Transfers /\ 1 \in Endpoints
  BY UsbAssumption
<1>1. Placed(T, ends, ends, Transfers \ Endpoints, kind, of)
  BY <1>0 DEF Placed, Kinds
<1>2. Ordered(T, ends, ends, kind, of)
  BY DEF Ordered
<1>3. OfKind(kind, "done") = {} /\ OfKind(kind, "handed") = {}
  BY DEF OfKind
<1>4. Queue(T, Null, OfKind(kind, "done")) /\ Queue(T, Null, OfKind(kind, "handed"))
  BY <1>3, QueueEmpty
<1> QED
  BY <1>1, <1>2, <1>4 DEF Linked

(* A transfer at the head of its endpoint is retired onto the done queue.  *)
LEMMA LinkedRetired ==
    ASSUME NEW T, NEW U, NEW heads, NEW tails, NEW dh, NEW hh, NEW fr, NEW kind, NEW of,
           Linked(T, heads, tails, dh, hh, fr, kind, of), NEW e \in Endpoints, DOMAIN heads = Endpoints,
           NEW t \in Transfers, heads[e] = t, t # tails[e],
           \A u \in Transfers \ {t} : U[u] = T[u], U[t].next = dh, U[t].condition = "noError"
    PROVE  Linked(U, [heads EXCEPT ![e] = T[t].next], tails, t, hh, fr, [kind EXCEPT ![t] = "done"], of)
<1> DEFINE hs == [heads EXCEPT ![e] = T[t].next]
           kd == [kind EXCEPT ![t] = "done"]
<1>1. Placed(T, heads, tails, fr, kind, of) /\ Ordered(T, heads, tails, kind, of)
  BY DEF Linked
<1>2. kind[t] = "queue" /\ of[t] = e
  BY <1>1 DEF Placed
<1>3. kd \in [Transfers -> Kinds] /\ kd[t] = "done" /\ (\A u \in Transfers \ {t} : kd[u] = kind[u])
  BY SMT, <1>1 DEF Placed, Kinds
<1>4. hs[e] = T[t].next /\ (\A f \in Endpoints \ {e} : hs[f] = heads[f])
  OBVIOUS
<1>5. /\ T[t].next = tails[e] \/ (T[t].next \in Transfers /\ kind[T[t].next] = "queue" /\ of[T[t].next] = e)
      /\ T[t].next # t
  BY <1>1, <1>2 DEF Ordered
<1> HIDE DEF hs, kd
<1>6. Placed(U, hs, tails, fr, kd, of)
  BY SMT, <1>1, <1>2, <1>3, <1>4, <1>5 DEF Placed
<1>7. Ordered(U, hs, tails, kd, of)
  <2>1. ASSUME NEW u \in Transfers, kd[u] = "queue"
        PROVE  /\ u # t /\ U[u].next = T[u].next /\ kind[u] = "queue"
               /\ U[u].next = tails[of[u]] \/ (U[u].next \in Transfers /\ kd[U[u].next] = "queue" /\ of[U[u].next] = of[u])
               /\ U[u].next # hs[of[u]]
    <3>1. u # t /\ U[u].next = T[u].next /\ kind[u] = "queue" /\ of[u] \in Endpoints
      BY SMT, <1>1, <1>3, <2>1 DEF Placed
    <3>2. T[u].next # heads[of[u]] /\ T[u].next # T[t].next
      BY <1>1, <1>2, <3>1 DEF Ordered
    <3>3. T[u].next = tails[of[u]] \/ (T[u].next \in Transfers /\ kind[T[u].next] = "queue" /\ of[T[u].next] = of[u])
      BY <1>1, <3>1 DEF Ordered
    <3>4. T[u].next = t => of[u] = e \/ T[u].next = tails[of[u]]
      BY <1>2, <3>3
    <3>5. T[u].next # t
      <4>1. kind[tails[of[u]]] = "tail"
        BY <1>1, <3>1 DEF Placed
      <4> QED
        BY <1>2, <3>2, <3>4, <4>1
    <3> QED
      BY <1>3, <1>4, <3>1, <3>2, <3>3, <3>5
  <2>2. ASSUME NEW u \in Transfers, NEW v \in Transfers, kd[u] = "queue", kd[v] = "queue", U[u].next = U[v].next
        PROVE  u = v
    <3>1. T[u].next = T[v].next /\ kind[u] = "queue" /\ kind[v] = "queue"
      BY <2>1, <2>2
    <3> QED
      BY <1>1, <3>1 DEF Ordered
  <2> QED
    BY <2>1, <2>2 DEF Ordered
<1>8. /\ OfKind(kd, "done") = OfKind(kind, "done") \cup {t} /\ OfKind(kd, "handed") = OfKind(kind, "handed")
      /\ t \notin OfKind(kind, "done") /\ t \notin OfKind(kind, "handed")
      /\ OfKind(kind, "done") \subseteq Transfers /\ OfKind(kind, "handed") \subseteq Transfers
  BY <1>2, <1>3 DEF OfKind
<1>9. Queue(U, t, OfKind(kd, "done"))
  <2>1. Queue(T, dh, OfKind(kind, "done"))
    BY DEF Linked
  <2>2. \A u \in OfKind(kind, "done") : U[u].next = T[u].next
    BY <1>8
  <2> QED
    BY SMT, <1>8, <2>1, <2>2, QueuePushed
<1>10. Queue(U, hh, OfKind(kd, "handed"))
  <2>1. Queue(T, hh, OfKind(kind, "handed"))
    BY DEF Linked
  <2>2. \A u \in OfKind(kind, "handed") : U[u].next = T[u].next
    BY <1>8
  <2> QED
    BY <1>8, <2>1, <2>2, QueueKept
<1> QED
  BY <1>6, <1>7, <1>9, <1>10 DEF Linked, hs, kd

(* The done queue becomes the one handed over, which was empty.            *)
LEMMA LinkedHandedOver ==
    ASSUME NEW T, NEW heads, NEW tails, NEW dh, NEW fr, NEW kind, NEW of,
           Linked(T, heads, tails, dh, Null, fr, kind, of)
    PROVE  \E kd : Linked(T, heads, tails, Null, dh, fr, kd, of)
<1> DEFINE kd == [t \in Transfers |-> IF kind[t] = "done" THEN "handed" ELSE kind[t]]
<1>1. Placed(T, heads, tails, fr, kind, of) /\ Ordered(T, heads, tails, kind, of)
  BY DEF Linked
<1>2. OfKind(kind, "handed") = {}
  BY QueueNull DEF Linked
<1>3. kd \in [Transfers -> Kinds] /\ \A t \in Transfers : kd[t] = IF kind[t] = "done" THEN "handed" ELSE kind[t]
  BY <1>1 DEF Placed, Kinds
<1> HIDE DEF kd
<1>4. Placed(T, heads, tails, fr, kd, of)
  BY SMT, <1>1, <1>3 DEF Placed
<1>5. Ordered(T, heads, tails, kd, of)
  BY SMT, <1>1, <1>3 DEF Ordered
<1>6. OfKind(kd, "done") = {} /\ OfKind(kd, "handed") = OfKind(kind, "done")
  BY <1>2, <1>3 DEF OfKind
<1>7. Queue(T, Null, OfKind(kd, "done")) /\ Queue(T, dh, OfKind(kd, "handed"))
  BY <1>6, QueueEmpty DEF Linked
<1>8. Linked(T, heads, tails, Null, dh, fr, kd, of)
  BY <1>4, <1>5, <1>7 DEF Linked
<1> QED
  BY <1>8

(* The driver takes the queue handed over and blanks its transfers.        *)
LEMMA LinkedTaken ==
    ASSUME NEW T, NEW U, NEW heads, NEW tails, NEW dh, NEW hh, NEW fr, NEW kind, NEW of,
           Linked(T, heads, tails, dh, hh, fr, kind, of),
           \A t \in Transfers : IF kind[t] = "handed" THEN U[t].condition # "noError" ELSE U[t] = T[t]
    PROVE  \E kd : Linked(U, heads, tails, dh, Null, fr \cup OfKind(kind, "handed"), kd, of)
<1> DEFINE kd == [t \in Transfers |-> IF kind[t] = "handed" THEN "free" ELSE kind[t]]
           more == fr \cup OfKind(kind, "handed")
<1>1. Placed(T, heads, tails, fr, kind, of) /\ Ordered(T, heads, tails, kind, of)
  BY DEF Linked
<1>2. kd \in [Transfers -> Kinds] /\ \A t \in Transfers : kd[t] = IF kind[t] = "handed" THEN "free" ELSE kind[t]
  BY <1>1 DEF Placed, Kinds
<1>3. \A t \in more : t \in Transfers /\ kd[t] = "free"
  BY <1>1, <1>2 DEF Placed, OfKind
<1> HIDE DEF kd, more
<1>4. Placed(U, heads, tails, more, kd, of)
  <2>1. \A t \in Transfers : U[t].condition = "noError" <=> kd[t] \in {"done", "handed"}
    BY SMT, <1>1, <1>2 DEF Placed
  <2>2. \A e \in Endpoints : tails[e] \in Transfers /\ kd[tails[e]] = "tail" /\ of[tails[e]] = e
    BY <1>1, <1>2 DEF Placed
  <2>3. \A e \in Endpoints : heads[e] = tails[e] \/ (heads[e] \in Transfers /\ kd[heads[e]] = "queue" /\ of[heads[e]] = e)
    BY SMT, <1>1, <1>2 DEF Placed
  <2> QED
    BY <1>1, <1>2, <1>3, <2>1, <2>2, <2>3 DEF Placed
<1>5. Ordered(U, heads, tails, kd, of)
  <2>1. \A t \in Transfers : kd[t] = "queue" => kind[t] = "queue" /\ U[t].next = T[t].next
    BY <1>2
  <2>2. \A t \in Transfers : kind[t] = "queue" => kd[t] = "queue"
    BY <1>2
  <2> QED
    BY SMT, <1>1, <2>1, <2>2 DEF Ordered
<1>6. /\ OfKind(kd, "handed") = {} /\ OfKind(kd, "done") = OfKind(kind, "done")
      /\ \A t \in OfKind(kind, "done") : U[t].next = T[t].next
  BY <1>2 DEF OfKind
<1>7. Queue(U, Null, OfKind(kd, "handed"))
  BY <1>6, QueueEmpty
<1>8. Queue(U, dh, OfKind(kd, "done"))
  BY <1>6, QueueKept DEF Linked
<1>9. Linked(U, heads, tails, dh, Null, more, kd, of)
  BY <1>4, <1>5, <1>7, <1>8 DEF Linked
<1> QED
  BY <1>9 DEF more

(* The driver fills the transfer at an endpoint's tail and leaves a free   *)
(* one behind it.                                                          *)
Refilled(T, U, tails, ts, fr, less, e, empty) ==
    /\ e \in Endpoints /\ DOMAIN tails = Endpoints /\ empty \in fr
    /\ \A t \in Transfers \ {tails[e]} : U[t] = T[t]
    /\ U[tails[e]].next = empty /\ U[tails[e]].condition # "noError"
    /\ ts = [tails EXCEPT ![e] = empty] /\ less = fr \ {empty}

LEMMA LinkedQueued ==
    ASSUME NEW T, NEW U, NEW heads, NEW tails, NEW ts, NEW dh, NEW hh, NEW fr, NEW less, NEW kind, NEW of, NEW e, NEW empty,
           Linked(T, heads, tails, dh, hh, fr, kind, of), Refilled(T, U, tails, ts, fr, less, e, empty)
    PROVE  Linkable(U, heads, ts, dh, hh, less)
<1>0. /\ e \in Endpoints /\ DOMAIN tails = Endpoints /\ empty \in fr
      /\ \A t \in Transfers \ {tails[e]} : U[t] = T[t]
      /\ U[tails[e]].next = empty /\ U[tails[e]].condition # "noError"
      /\ ts = [tails EXCEPT ![e] = empty] /\ less = fr \ {empty}
  BY DEF Refilled
<1> DEFINE tail == tails[e]
           kd == [t \in Transfers |-> IF t = tail THEN "queue" ELSE IF t = empty THEN "tail" ELSE kind[t]]
           ow == [t \in Transfers |-> IF t = empty THEN e ELSE of[t]]
<1>1. Placed(T, heads, tails, fr, kind, of) /\ Ordered(T, heads, tails, kind, of)
  BY DEF Linked
<1>2. /\ tail \in Transfers /\ kind[tail] = "tail" /\ of[tail] = e
      /\ empty \in Transfers /\ kind[empty] = "free" /\ tail # empty
  BY <1>0, <1>1 DEF Placed
<1>3. /\ kd \in [Transfers -> Kinds] /\ ow \in [Transfers -> Endpoints]
      /\ kd[tail] = "queue" /\ kd[empty] = "tail" /\ ow[empty] = e /\ ow[tail] = e
      /\ \A t \in Transfers : t # tail /\ t # empty => kd[t] = kind[t] /\ ow[t] = of[t]
      /\ \A t \in Transfers : t # empty => ow[t] = of[t]
  BY SMT, <1>0, <1>1, <1>2 DEF Placed, Kinds
<1>4. ts[e] = empty /\ \A f \in Endpoints \ {e} : ts[f] = tails[f] /\ tails[f] # tail /\ tails[f] # empty
  BY SMT, <1>0, <1>1, <1>2 DEF Placed
<1>5. U[tail].next = empty /\ U[tail].condition # "noError" /\ \A t \in Transfers \ {tail} : U[t] = T[t]
  BY <1>0
<1> HIDE DEF kd, ow, tail
<1>6. \A f \in Endpoints : /\ ts[f] \in Transfers /\ kd[ts[f]] = "tail" /\ ow[ts[f]] = f
                           /\ heads[f] # empty
                           /\ heads[f] = ts[f] \/ (heads[f] \in Transfers /\ kd[heads[f]] = "queue" /\ ow[heads[f]] = f)
  <2> TAKE f \in Endpoints
  <2>1. ts[f] \in Transfers /\ kd[ts[f]] = "tail" /\ ow[ts[f]] = f
    BY SMT, <1>1, <1>2, <1>3, <1>4 DEF Placed
  <2>2. CASE heads[f] = tails[f]
    <3>1. CASE f = e
      BY <1>2, <1>3, <2>1, <2>2, <3>1 DEF tail
    <3>2. CASE f # e
      BY <1>4, <2>1, <2>2, <3>2
    <3> QED
      BY <3>1, <3>2
  <2>3. CASE heads[f] # tails[f]
    BY SMT, <1>1, <1>2, <1>3, <1>4, <2>1, <2>3 DEF Placed
  <2> QED
    BY <2>1, <2>2, <2>3
<1>7. Placed(U, heads, ts, less, kd, ow)
  <2>1. \A t \in Transfers : U[t].condition = "noError" <=> kd[t] \in {"done", "handed"}
    BY SMT, <1>1, <1>2, <1>3, <1>5 DEF Placed
  <2>2. \A t \in less : t \in Transfers /\ kd[t] = "free"
    BY SMT, <1>0, <1>1, <1>2, <1>3 DEF Placed
  <2> QED
    BY <1>3, <1>6, <2>1, <2>2 DEF Placed
<1>8. Ordered(U, heads, ts, kd, ow)
  <2>1. ASSUME NEW t \in Transfers, kd[t] = "queue", t # tail
        PROVE  /\ kind[t] = "queue" /\ U[t].next = T[t].next /\ ow[t] = of[t] /\ of[t] \in Endpoints
               /\ T[t].next # empty /\ T[t].next # heads[of[t]]
               /\ T[t].next = ts[of[t]] \/ (T[t].next \in Transfers /\ kd[T[t].next] = "queue" /\ ow[T[t].next] = of[t])
    <3>1. kind[t] = "queue" /\ U[t].next = T[t].next /\ ow[t] = of[t] /\ t # empty
      BY <1>3, <1>5, <2>1
    <3>2. of[t] \in Endpoints
      BY <1>1 DEF Placed
    <3>3. /\ T[t].next = tails[of[t]] \/ (T[t].next \in Transfers /\ kind[T[t].next] = "queue" /\ of[T[t].next] = of[t])
          /\ T[t].next # heads[of[t]]
      BY <1>1, <3>1 DEF Ordered
    <3>4. CASE T[t].next = tails[of[t]]
      <4>1. CASE of[t] = e
        BY <1>0, <1>2, <1>3, <3>1, <3>2, <3>3, <3>4, <4>1 DEF tail
      <4>2. CASE of[t] # e
        BY <1>4, <3>1, <3>2, <3>3, <3>4, <4>2
      <4> QED
        BY <4>1, <4>2
    <3>5. CASE T[t].next # tails[of[t]]
      BY <1>2, <1>3, <3>1, <3>2, <3>3, <3>5
    <3> QED
      BY <3>4, <3>5
  <2>2. U[tail].next = ts[ow[tail]] /\ U[tail].next # heads[ow[tail]]
    BY SMT, <1>0, <1>3, <1>4, <1>5, <1>6
  <2>3. ASSUME NEW t \in Transfers, NEW u \in Transfers, kd[t] = "queue", kd[u] = "queue", U[t].next = U[u].next
        PROVE  t = u
    <3>1. CASE t # tail /\ u # tail
      <4>1. kind[t] = "queue" /\ kind[u] = "queue" /\ T[t].next = T[u].next
        BY <2>1, <2>3, <3>1
      <4> QED
        BY <1>1, <4>1 DEF Ordered
    <3>2. CASE t = tail \/ u = tail
      BY SMT, <1>5, <2>1, <2>3, <3>2
    <3> QED
      BY <3>1, <3>2
  <2>4. ASSUME NEW t \in Transfers, kd[t] = "queue"
        PROVE  /\ \/ U[t].next = ts[ow[t]]
                  \/ U[t].next \in Transfers /\ kd[U[t].next] = "queue" /\ ow[U[t].next] = ow[t]
               /\ U[t].next # heads[ow[t]]
    <3>1. CASE t = tail
      BY <2>2, <3>1
    <3>2. CASE t # tail
      BY SMT, <2>1, <2>4, <3>2
    <3> QED
      BY <3>1, <3>2
  <2> QED
    BY <2>3, <2>4 DEF Ordered
<1>9. /\ OfKind(kd, "done") = OfKind(kind, "done") /\ OfKind(kd, "handed") = OfKind(kind, "handed")
      /\ \A t \in OfKind(kind, "done") \cup OfKind(kind, "handed") : U[t].next = T[t].next
  BY <1>2, <1>3, <1>5 DEF OfKind
<1>10. Queue(U, dh, OfKind(kd, "done")) /\ Queue(U, hh, OfKind(kd, "handed"))
  <2>1. Queue(T, dh, OfKind(kind, "done")) /\ Queue(T, hh, OfKind(kind, "handed"))
    BY DEF Linked
  <2> QED
    BY <1>9, <2>1, QueueKept
<1>11. Linked(U, heads, ts, dh, hh, less, kd, ow)
  BY <1>7, <1>8, <1>10 DEF Linked
<1> QED
  BY <1>11 DEF Linkable

-----------------------------------------------------------------------------
(* One transfer, one endpoint, one list and one frame of the schedule.     *)
Heads(E) == [e \in Endpoints |-> E[e].head]
Tails(E) == [e \in Endpoints |-> E[e].tail]
HcShape(h) == {"control", "doneHead"} \subseteq DOMAIN h
StateShape(s) ==
    /\ DOMAIN s = {"hc", "eds", "tds"} /\ HcShape(s.hc)
    /\ DOMAIN s.eds = Endpoints /\ \A e \in Endpoints : {"head", "tail"} \subseteq DOMAIN s.eds[e]
    /\ DOMAIN s.tds = Transfers /\ \A t \in Transfers : {"next", "condition"} \subseteq DOMAIN s.tds[t]
Kept(s, heads, hh, fr) ==
    /\ StateShape(s)
    /\ Linkable(s.tds, heads, Tails(s.eds), s.hc.doneHead, hh, fr)

LEMMA MovedShape ==
    ASSUME NEW h, NEW td, NEW number, HcShape(h), {"next", "condition"} \subseteq DOMAIN td
    PROVE  LET m == Moved(h, td, number)
           IN  /\ m.ran \in BOOLEAN /\ HcShape(m.hc) /\ m.hc.control = h.control /\ m.hc.doneHead = h.doneHead
               /\ {"next", "condition"} \subseteq DOMAIN m.td
<1> DEFINE piece == Carried(h, number, td.length)
<1> HIDE DEF piece
<1>1. CASE td.pid = "setup"
  BY <1>1 DEF Moved, HcShape
<1>2. CASE td.pid # "setup" /\ td.pid = "in"
  BY <1>2 DEF Moved, HcShape, piece
<1>3. CASE td.pid # "setup" /\ td.pid # "in"
  BY <1>3 DEF Moved, HcShape
<1> QED
  BY <1>1, <1>2, <1>3

LEMMA RunTransferEffect ==
    ASSUME NEW s, NEW number, NEW t \in Transfers, StateShape(s)
    PROVE  LET r == RunTransfer(s, number, t)
           IN  /\ r.ran \in BOOLEAN
               /\ r.ran => /\ StateShape(r.s) /\ r.s.eds = s.eds /\ r.s.hc.control = s.hc.control
                           /\ r.s.hc.doneHead = t /\ r.following = s.tds[t].next
                           /\ \A u \in Transfers \ {t} : r.s.tds[u] = s.tds[u]
                           /\ r.s.tds[t].next = s.hc.doneHead /\ r.s.tds[t].condition = "noError"
<1> DEFINE m == Moved(s.hc, s.tds[t], number)
           r == RunTransfer(s, number, t)
           retired == [m.td EXCEPT !.condition = "noError", !.explicit = TRUE, !.toggle = 1 - @]
           h1 == [m.hc EXCEPT !.delay = Sooner(m.hc.delay, s.tds[t].delay)]
           s1 == [s EXCEPT !.tds[t] = retired, !.hc = h1]
           s2 == Complete(s1, t)
<1>1. /\ m.ran \in BOOLEAN /\ HcShape(m.hc) /\ m.hc.control = s.hc.control /\ m.hc.doneHead = s.hc.doneHead
      /\ {"next", "condition"} \subseteq DOMAIN m.td
  BY SMT, MovedShape DEF StateShape
<1>2. r = Retire(s, t, m)
  BY DEF RunTransfer
<1> HIDE DEF m
<1>3. r.ran \in BOOLEAN /\ (r.ran => r.s = s2 /\ r.following = s.tds[t].next)
  BY SMT, <1>1, <1>2 DEF Retire
<1>4. /\ {"next", "condition"} \subseteq DOMAIN retired /\ retired.condition = "noError"
      /\ HcShape(h1) /\ h1.control = s.hc.control /\ h1.doneHead = s.hc.doneHead
  BY <1>1 DEF HcShape
<1> HIDE DEF retired, h1
<1>5. /\ StateShape(s1) /\ s1.eds = s.eds /\ s1.hc = h1 /\ s1.tds[t] = retired
      /\ \A u \in Transfers \ {t} : s1.tds[u] = s.tds[u]
  BY <1>4 DEF StateShape
<1> HIDE DEF s1
<1>6. /\ StateShape(s2) /\ s2.eds = s1.eds /\ s2.hc.control = s1.hc.control /\ s2.hc.doneHead = t
      /\ \A u \in Transfers \ {t} : s2.tds[u] = s1.tds[u]
      /\ s2.tds[t].next = s1.hc.doneHead /\ s2.tds[t].condition = s1.tds[t].condition
  <2> DEFINE h2 == Raise([s1.hc EXCEPT !.doneHead = t], {"writebackDone"})
  <2>1. HcShape(h2) /\ h2.control = s1.hc.control /\ h2.doneHead = t
    BY <1>5 DEF StateShape, HcShape, Raise
  <2>2. s2 = [s1 EXCEPT !.tds[t].next = s1.hc.doneHead, !.hc = h2]
    BY DEF Complete
  <2> HIDE DEF h2, s2
  <2> QED
    BY <1>5, <2>1, <2>2 DEF StateShape
<1> HIDE DEF s2, r
<1>7. r.ran => /\ StateShape(r.s) /\ r.s.eds = s.eds /\ r.s.hc.control = s.hc.control
               /\ r.s.hc.doneHead = t /\ r.following = s.tds[t].next
               /\ \A u \in Transfers \ {t} : r.s.tds[u] = s.tds[u]
               /\ r.s.tds[t].next = s.hc.doneHead /\ r.s.tds[t].condition = "noError"
  BY <1>3, <1>4, <1>5, <1>6
<1> QED
  BY <1>3, <1>7 DEF r

QueueAt(q, s, e, hh, fr) ==
    /\ DOMAIN q = {"s", "head", "carry", "open"} /\ q.open \in BOOLEAN
    /\ q.s.eds = s.eds /\ q.s.hc.control = s.hc.control
    /\ Kept(q.s, [Heads(s.eds) EXCEPT ![e] = q.head], hh, fr)

LEMMA QueueStepKeeps ==
    ASSUME NEW s, NEW e \in Endpoints, NEW hh, NEW fr, NEW q, NEW number, QueueAt(q, s, e, hh, fr)
    PROVE  QueueAt(QueueStep(q, number, s.eds[e].tail), s, e, hh, fr)
<1> DEFINE tail == s.eds[e].tail
           p == QueueStep(q, number, tail)
           heads == [Heads(s.eds) EXCEPT ![e] = q.head]
           tails == Tails(s.eds)
           r == RunTransfer(q.s, number, q.head)
<1>1. CASE ~q.open \/ q.head \notin DOMAIN q.s.tds \/ q.head = tail
  <2>1. p = [q EXCEPT !.open = FALSE]
    BY <1>1 DEF QueueStep
  <2>2. DOMAIN p = {"s", "head", "carry", "open"} /\ p.open = FALSE /\ p.s = q.s /\ p.head = q.head
    BY <2>1 DEF QueueAt
  <2> HIDE DEF p
  <2> QED
    BY <2>2 DEF QueueAt, p
<1>2. CASE ~(~q.open \/ q.head \notin DOMAIN q.s.tds \/ q.head = tail)
  <2>1. p = PastTransfer(q, r)
    BY <1>2 DEF QueueStep
  <2>2. StateShape(q.s) /\ q.head \in Transfers
    BY <1>2 DEF QueueAt, Kept, StateShape
  <2>3. /\ r.ran \in BOOLEAN
        /\ r.ran => /\ StateShape(r.s) /\ r.s.eds = q.s.eds /\ r.s.hc.control = q.s.hc.control
                    /\ r.s.hc.doneHead = q.head /\ r.following = q.s.tds[q.head].next
                    /\ \A u \in Transfers \ {q.head} : r.s.tds[u] = q.s.tds[u]
                    /\ r.s.tds[q.head].next = q.s.hc.doneHead /\ r.s.tds[q.head].condition = "noError"
    BY <2>2, RunTransferEffect
  <2> HIDE DEF r, p
  <2>4. CASE ~r.ran
    <3>1. p = [q EXCEPT !.open = FALSE]
      BY <2>1, <2>4 DEF PastTransfer
    <3>2. DOMAIN p = {"s", "head", "carry", "open"} /\ p.open = FALSE /\ p.s = q.s /\ p.head = q.head
      BY <3>1 DEF QueueAt
    <3> QED
      BY <3>2 DEF QueueAt, p
  <2>5. CASE r.ran
    <3>1. /\ DOMAIN p = {"s", "head", "carry", "open"} /\ p.open \in BOOLEAN /\ p.s = r.s
          /\ p.head = q.s.tds[q.head].next
      BY <2>1, <2>3, <2>5 DEF PastTransfer, QueueAt
    <3>2. PICK kind, of : Linked(q.s.tds, heads, tails, q.s.hc.doneHead, hh, fr, kind, of)
      BY DEF QueueAt, Kept, Linkable
    <3>3. DOMAIN heads = Endpoints /\ heads[e] = q.head /\ q.head # tails[e]
      BY <1>2 DEF Heads, Tails
    <3>4. [Heads(s.eds) EXCEPT ![e] = p.head] = [heads EXCEPT ![e] = q.s.tds[q.head].next]
      BY <3>1 DEF Heads
    <3>5. Linked(r.s.tds, [heads EXCEPT ![e] = q.s.tds[q.head].next], tails, q.head, hh, fr, [kind EXCEPT ![q.head] = "done"], of)
      <4> HIDE DEF heads, tails
      <4>1. /\ \A u \in Transfers \ {q.head} : r.s.tds[u] = q.s.tds[u]
            /\ r.s.tds[q.head].next = q.s.hc.doneHead /\ r.s.tds[q.head].condition = "noError"
        BY <2>3, <2>5
      <4> QED
        BY <2>2, <3>2, <3>3, <4>1, LinkedRetired
    <3>6. Kept(p.s, [Heads(s.eds) EXCEPT ![e] = p.head], hh, fr)
      BY <2>3, <2>5, <3>1, <3>4, <3>5 DEF Kept, QueueAt, Linkable
    <3> QED
      BY <2>3, <2>5, <3>1, <3>6 DEF QueueAt, p
  <2> QED
    BY <2>3, <2>4, <2>5
<1> QED
  BY <1>1, <1>2

QueueRun(f, first, number, tail, n) == f = [i \in 0 .. n |-> IF i = 0 THEN first ELSE QueueStep(f[i - 1], number, tail)]

LEMMA QueueRuns ==
    ASSUME NEW first, NEW number, NEW tail, NEW n \in Nat
    PROVE  \E f : QueueRun(f, first, number, tail, n)
<1> DEFINE S == {k \in Nat : \E f : QueueRun(f, first, number, tail, k)}
<1>1. 0 \in S
  <2> DEFINE f == [i \in 0 .. 0 |-> first]
  <2>1. f = [i \in 0 .. 0 |-> IF i = 0 THEN first ELSE QueueStep(f[i - 1], number, tail)]
    BY SMT
  <2>2. QueueRun(f, first, number, tail, 0)
    BY <2>1 DEF QueueRun
  <2> QED
    BY <2>2
<1>2. ASSUME NEW j \in 0 .. n - 1, j \in S PROVE j + 1 \in S
  <2> DEFINE k == j + 1
  <2>1. j \in Nat /\ k \in Nat /\ k # 0 /\ k - 1 = j
    BY SMT, <1>2
  <2>2. PICK g : QueueRun(g, first, number, tail, j)
    BY <1>2
  <2> DEFINE h == [i \in 0 .. k |-> IF i < k THEN g[i] ELSE QueueStep(g[j], number, tail)]
  <2> HIDE DEF k
  <2>3. ASSUME NEW i \in 0 .. k
        PROVE  h[i] = IF i = 0 THEN first ELSE QueueStep(h[i - 1], number, tail)
    <3>1. CASE i = 0
      <4>1. h[i] = g[0] /\ 0 \in 0 .. j
        BY SMT, <2>1, <3>1
      <4> QED
        BY <2>2, <3>1, <4>1 DEF QueueRun
    <3>2. CASE i # 0 /\ i < k
      <4>1. h[i] = g[i] /\ h[i - 1] = g[i - 1] /\ i \in 0 .. j
        BY SMT, <2>1, <3>2
      <4> QED
        BY <2>2, <3>2, <4>1 DEF QueueRun
    <3>3. CASE i = k
      <4>1. h[i] = QueueStep(g[j], number, tail) /\ h[i - 1] = g[j]
        BY SMT, <2>1, <3>3
      <4> QED
        BY <2>1, <3>3, <4>1
    <3> QED
      BY SMT, <2>1, <3>1, <3>2, <3>3
  <2>4. QueueRun(h, first, number, tail, k)
    BY <2>3 DEF QueueRun
  <2> HIDE DEF h
  <2>5. \E f : QueueRun(f, first, number, tail, k)
    BY <2>4
  <2> QED
    BY <2>1, <2>5 DEF k
<1> HIDE DEF S
<1>3. n \in S
  <2>1. \A i \in 0 .. n : i \in S
    BY <1>1, <1>2, UpTo
  <2> QED
    BY SMT, <2>1
<1> QED
  BY <1>3 DEF S

LEMMA RunQueueKeeps ==
    ASSUME NEW s, NEW e \in Endpoints, NEW hh, NEW fr, Kept(s, Heads(s.eds), hh, fr)
    PROVE  LET r == RunQueue(s, e) IN Kept(r, Heads(r.eds), hh, fr) /\ r.hc.control = s.hc.control
<1> DEFINE N == MAX_TRANSFERS
           first == [s |-> s, head |-> s.eds[e].head, carry |-> s.eds[e].carry, open |-> TRUE]
           number == s.eds[e].number
           tail == s.eds[e].tail
           Q == CHOOSE f : QueueRun(f, first, number, tail, N)
           q == Q[N]
           r == RunQueue(s, e)
<1>1. N \in Nat
  BY UsbAssumption
<1>2. QueueRun(Q, first, number, tail, N)
  BY <1>1, QueueRuns
<1>3. r = HeadMoved(e, q)
  BY DEF RunQueue, QueueRun
<1>4. QueueAt(first, s, e, hh, fr)
  <2>1. [Heads(s.eds) EXCEPT ![e] = first.head] = Heads(s.eds)
    BY DEF Heads
  <2> QED
    BY <2>1 DEF QueueAt
<1> HIDE DEF Q, N, first, number, r
<1>5. Q[0] = first /\ \A i \in 1 .. N : Q[i] = QueueStep(Q[i - 1], number, tail)
  <2>1. Q = [i \in 0 .. N |-> IF i = 0 THEN first ELSE QueueStep(Q[i - 1], number, tail)]
    BY <1>2 DEF QueueRun
  <2>2. Q[0] = first
    BY SMT, <1>1, <2>1
  <2>3. ASSUME NEW i \in 1 .. N PROVE Q[i] = QueueStep(Q[i - 1], number, tail)
    <3>1. i \in 0 .. N /\ i # 0
      BY SMT, <1>1, <2>3
    <3> QED
      BY <2>1, <3>1
  <2> QED
    BY <2>2, <2>3
<1> DEFINE P == {k \in Nat : QueueAt(Q[k], s, e, hh, fr)}
<1>6. 0 \in P
  BY <1>4, <1>5
<1>7. ASSUME NEW k \in 0 .. N - 1, k \in P PROVE k + 1 \in P
  <2>1. k + 1 \in 1 .. N /\ (k + 1) - 1 = k /\ k + 1 \in Nat
    BY SMT, <1>1, <1>7
  <2>2. Q[k + 1] = QueueStep(Q[k], number, tail)
    BY <1>5, <2>1
  <2>3. QueueAt(Q[k], s, e, hh, fr)
    BY <1>7
  <2>4. QueueAt(QueueStep(Q[k], number, tail), s, e, hh, fr)
    BY <2>3, QueueStepKeeps
  <2> QED
    BY <2>1, <2>2, <2>4
<1>8. QueueAt(q, s, e, hh, fr)
  <2> HIDE DEF P
  <2>1. \A i \in 0 .. N : i \in P
    BY <1>1, <1>6, <1>7, UpTo
  <2>2. N \in P
    BY SMT, <1>1, <2>1
  <2> QED
    BY <2>2 DEF P
<1> HIDE DEF q
<1>9. StateShape(q.s) /\ q.s.eds = s.eds
  BY <1>8 DEF QueueAt, Kept
<1>10. /\ StateShape(r) /\ r.hc = q.s.hc /\ r.tds = q.s.tds
       /\ \A f \in Endpoints : r.eds[f].head = (IF f = e THEN q.head ELSE s.eds[f].head) /\ r.eds[f].tail = s.eds[f].tail
  BY <1>3, <1>9 DEF HeadMoved, StateShape
<1>11. Heads(r.eds) = [Heads(s.eds) EXCEPT ![e] = q.head] /\ Tails(r.eds) = Tails(s.eds)
  BY <1>10 DEF Heads, Tails
<1>12. Kept(r, Heads(r.eds), hh, fr)
  BY <1>8, <1>9, <1>10, <1>11 DEF Kept, QueueAt
<1> QED
  BY <1>8, <1>10, <1>12 DEF QueueAt, r

WalkAt(w, s, hh, fr) == Kept(w.s, Heads(w.s.eds), hh, fr) /\ w.s.hc.control = s.hc.control

LEMMA EndpointStepKeeps ==
    ASSUME NEW s, NEW hh, NEW fr, NEW w, WalkAt(w, s, hh, fr)
    PROVE  WalkAt(EndpointStep(w), s, hh, fr)
<1> DEFINE p == EndpointStep(w)
           r == RunQueue(w.s, w.at)
<1>1. CASE w.at \notin DOMAIN w.s.eds
  BY <1>1 DEF EndpointStep
<1>2. CASE w.at \in DOMAIN w.s.eds
  <2>1. w.at \in Endpoints
    BY <1>2 DEF WalkAt, Kept, StateShape
  <2>2. Kept(r, Heads(r.eds), hh, fr) /\ r.hc.control = w.s.hc.control
    BY <2>1, RunQueueKeeps DEF WalkAt
  <2>3. p.s = w.s \/ p.s = r
    BY <1>2 DEF EndpointStep
  <2> HIDE DEF p, r
  <2> QED
    BY <2>2, <2>3 DEF WalkAt, p
<1> QED
  BY <1>1, <1>2

WalkRun(f, first, n) == f = [i \in 0 .. n |-> IF i = 0 THEN first ELSE EndpointStep(f[i - 1])]

LEMMA WalkRuns ==
    ASSUME NEW first, NEW n \in Nat
    PROVE  \E f : WalkRun(f, first, n)
<1> DEFINE S == {k \in Nat : \E f : WalkRun(f, first, k)}
<1>1. 0 \in S
  <2> DEFINE f == [i \in 0 .. 0 |-> first]
  <2>1. f = [i \in 0 .. 0 |-> IF i = 0 THEN first ELSE EndpointStep(f[i - 1])]
    BY SMT
  <2>2. WalkRun(f, first, 0)
    BY <2>1 DEF WalkRun
  <2> QED
    BY <2>2
<1>2. ASSUME NEW j \in 0 .. n - 1, j \in S PROVE j + 1 \in S
  <2> DEFINE k == j + 1
  <2>1. j \in Nat /\ k \in Nat /\ k # 0 /\ k - 1 = j
    BY SMT, <1>2
  <2>2. PICK g : WalkRun(g, first, j)
    BY <1>2
  <2> DEFINE h == [i \in 0 .. k |-> IF i < k THEN g[i] ELSE EndpointStep(g[j])]
  <2> HIDE DEF k
  <2>3. ASSUME NEW i \in 0 .. k
        PROVE  h[i] = IF i = 0 THEN first ELSE EndpointStep(h[i - 1])
    <3>1. CASE i = 0
      <4>1. h[i] = g[0] /\ 0 \in 0 .. j
        BY SMT, <2>1, <3>1
      <4> QED
        BY <2>2, <3>1, <4>1 DEF WalkRun
    <3>2. CASE i # 0 /\ i < k
      <4>1. h[i] = g[i] /\ h[i - 1] = g[i - 1] /\ i \in 0 .. j
        BY SMT, <2>1, <3>2
      <4> QED
        BY <2>2, <3>2, <4>1 DEF WalkRun
    <3>3. CASE i = k
      <4>1. h[i] = EndpointStep(g[j]) /\ h[i - 1] = g[j]
        BY SMT, <2>1, <3>3
      <4> QED
        BY <2>1, <3>3, <4>1
    <3> QED
      BY SMT, <2>1, <3>1, <3>2, <3>3
  <2>4. WalkRun(h, first, k)
    BY <2>3 DEF WalkRun
  <2> HIDE DEF h
  <2>5. \E f : WalkRun(f, first, k)
    BY <2>4
  <2> QED
    BY <2>1, <2>5 DEF k
<1> HIDE DEF S
<1>3. n \in S
  <2>1. \A i \in 0 .. n : i \in S
    BY <1>1, <1>2, UpTo
  <2> QED
    BY SMT, <2>1
<1> QED
  BY <1>3 DEF S

LEMMA WalkEndpointsKeeps ==
    ASSUME NEW s, NEW head, NEW hh, NEW fr, Kept(s, Heads(s.eds), hh, fr)
    PROVE  LET r == WalkEndpoints(s, head) IN Kept(r, Heads(r.eds), hh, fr) /\ r.hc.control = s.hc.control
<1> DEFINE N == MAX_ENDPOINTS
           first == [s |-> s, at |-> head]
           W == CHOOSE f : WalkRun(f, first, N)
           r == WalkEndpoints(s, head)
<1>1. N \in Nat
  BY UsbAssumption
<1>2. WalkRun(W, first, N)
  BY <1>1, WalkRuns
<1>3. r = W[N].s
  BY DEF WalkEndpoints, WalkRun
<1>4. WalkAt(first, s, hh, fr)
  BY DEF WalkAt
<1> HIDE DEF W, N, first, r
<1>5. W[0] = first /\ \A i \in 1 .. N : W[i] = EndpointStep(W[i - 1])
  <2>1. W = [i \in 0 .. N |-> IF i = 0 THEN first ELSE EndpointStep(W[i - 1])]
    BY <1>2 DEF WalkRun
  <2>2. W[0] = first
    BY SMT, <1>1, <2>1
  <2>3. ASSUME NEW i \in 1 .. N PROVE W[i] = EndpointStep(W[i - 1])
    <3>1. i \in 0 .. N /\ i # 0
      BY SMT, <1>1, <2>3
    <3> QED
      BY <2>1, <3>1
  <2> QED
    BY <2>2, <2>3
<1> DEFINE P == {k \in Nat : WalkAt(W[k], s, hh, fr)}
<1>6. 0 \in P
  BY <1>4, <1>5
<1>7. ASSUME NEW k \in 0 .. N - 1, k \in P PROVE k + 1 \in P
  <2>1. k + 1 \in 1 .. N /\ (k + 1) - 1 = k /\ k + 1 \in Nat
    BY SMT, <1>1, <1>7
  <2>2. W[k + 1] = EndpointStep(W[k])
    BY <1>5, <2>1
  <2>3. WalkAt(W[k], s, hh, fr)
    BY <1>7
  <2>4. WalkAt(EndpointStep(W[k]), s, hh, fr)
    BY <2>3, EndpointStepKeeps
  <2> QED
    BY <2>1, <2>2, <2>4
<1>8. WalkAt(W[N], s, hh, fr)
  <2> HIDE DEF P
  <2>1. \A i \in 0 .. N : i \in P
    BY <1>1, <1>6, <1>7, UpTo
  <2>2. N \in P
    BY SMT, <1>1, <2>1
  <2> QED
    BY <2>2 DEF P
<1> QED
  BY <1>3, <1>8 DEF WalkAt, r

LEMMA ServiceListsKeeps ==
    ASSUME NEW s, NEW slots, NEW hh, NEW fr, Kept(s, Heads(s.eds), hh, fr)
    PROVE  LET r == ServiceLists(s, slots) IN Kept(r, Heads(r.eds), hh, fr) /\ r.hc.control = s.hc.control
<1>1. ASSUME NEW t, NEW list, NEW head, Kept(t, Heads(t.eds), hh, fr)
      PROVE  LET r == WalkList(t, list, head) IN Kept(r, Heads(r.eds), hh, fr) /\ r.hc.control = t.hc.control
  <2>1. CASE list \in t.hc.control
    <3>1. WalkList(t, list, head) = WalkEndpoints(t, head)
      BY <2>1 DEF WalkList
    <3> QED
      BY <1>1, <3>1, WalkEndpointsKeeps
  <2>2. CASE list \notin t.hc.control
    BY <1>1, <2>2 DEF WalkList
  <2> QED
    BY <2>1, <2>2
<1> DEFINE slot == IF s.hc.hcca THEN slots[s.hc.frame % PeriodicSlots] ELSE Null
           a == WalkList(s, "controlList", s.hc.controlHead)
           b == WalkList(a, "bulkList", s.hc.bulkHead)
           c == WalkList(b, "periodic", slot)
           r == ServiceLists(s, slots)
<1>2. r = s \/ r = c
  BY DEF ServiceLists
<1> HIDE DEF slot, r
<1>3. Kept(a, Heads(a.eds), hh, fr) /\ a.hc.control = s.hc.control
  BY <1>1
<1> HIDE DEF a
<1>4. Kept(b, Heads(b.eds), hh, fr) /\ b.hc.control = a.hc.control
  BY <1>1, <1>3
<1> HIDE DEF b
<1>5. Kept(c, Heads(c.eds), hh, fr) /\ c.hc.control = b.hc.control
  BY <1>1, <1>4
<1> HIDE DEF c
<1> QED
  BY <1>2, <1>3, <1>4, <1>5 DEF r

LEMMA LinkedPointwise ==
    ASSUME NEW T, NEW U, NEW heads, NEW tails, NEW dh, NEW hh, NEW fr, NEW kind, NEW of,
           Linked(T, heads, tails, dh, hh, fr, kind, of), \A t \in Transfers : U[t] = T[t]
    PROVE  Linked(U, heads, tails, dh, hh, fr, kind, of)
<1>1. Placed(U, heads, tails, fr, kind, of)
  BY SMT DEF Linked, Placed
<1>2. Ordered(U, heads, tails, kind, of)
  BY SMT DEF Linked, Ordered
<1>3. Queue(U, dh, OfKind(kind, "done")) /\ Queue(U, hh, OfKind(kind, "handed"))
  <2>1. \A t \in OfKind(kind, "done") \cup OfKind(kind, "handed") : U[t].next = T[t].next
    BY DEF OfKind
  <2> QED
    BY <2>1, QueueKept DEF Linked
<1> QED
  BY <1>1, <1>2, <1>3 DEF Linked

(* The registers the queues depend on.                                     *)
HcKept(h, g) == HcShape(g) /\ g.control = h.control /\ g.doneHead = h.doneHead

LEMMA KeptRegisters ==
    ASSUME NEW s, NEW g, NEW heads, NEW hh, NEW fr, Kept(s, heads, hh, fr), HcKept(s.hc, g)
    PROVE  LET r == [hc |-> g, eds |-> s.eds, tds |-> s.tds] IN Kept(r, heads, hh, fr)
  BY DEF Kept, HcKept, StateShape

LEMMA SetAttachedKeeps ==
    ASSUME NEW h, NEW a, HcShape(h)
    PROVE  HcKept(h, SetAttached(h, a))
  BY DEF HcKept, HcShape, SetAttached, Raise

LEMMA WritePortKeeps ==
    ASSUME NEW h, NEW i, NEW v, HcShape(h)
    PROVE  HcKept(h, WritePort(h, i, v))
<1> DEFINE occupied == h.attached /\ i = GamepadPort
           obeyed == [h EXCEPT !.port[i] = Obeyed(@, v, occupied)]
           forgot == IF occupied THEN [obeyed EXCEPT !.device = DefaultDevice, !.pending = NoAnswer] ELSE obeyed
<1>1. HcKept(h, obeyed)
  BY DEF HcKept, HcShape
<1>2. WritePort(h, i, v) = IF "setReset" \in v THEN Raise(forgot, {"rootHubChange"}) ELSE obeyed
  BY DEF WritePort
<1> HIDE DEF obeyed
<1>3. HcKept(h, forgot)
  BY <1>1 DEF HcKept, HcShape
<1> HIDE DEF forgot
<1>4. HcKept(h, Raise(forgot, {"rootHubChange"}))
  BY <1>3 DEF HcKept, HcShape, Raise
<1> QED
  BY <1>1, <1>2, <1>4

(* A frame.                                                                *)
LEMMA HandOverKeeps ==
    ASSUME NEW s, NEW area, NEW fr, Kept(s, Heads(s.eds), area.done, fr), "done" \in DOMAIN area
    PROVE  LET r == HandOver(s, area)
           IN  /\ Kept(r.s, Heads(r.s.eds), r.area.done, fr) /\ r.s.hc.control = s.hc.control
               /\ "done" \in DOMAIN r.area
<1> DEFINE r == HandOver(s, area)
           g == s.hc.delay = 0 /\ area.done = Null /\ s.hc.doneHead # Null /\ s.hc.hcca
           h == Raise([s.hc EXCEPT !.delay = NoDelay, !.doneHead = Null], {"writebackDone"})
           k == [s.hc EXCEPT !.delay = IF @ > 0 THEN @ - 1 ELSE @]
<1>1. StateShape(s) /\ HcShape(s.hc)
  BY DEF Kept, StateShape
<1>2. CASE g
  <2>1. HcShape(h) /\ h.control = s.hc.control /\ h.doneHead = Null
    BY <1>1 DEF HcShape, Raise
  <2>2. r = [s |-> [s EXCEPT !.hc = h], area |-> [area EXCEPT !.done = s.hc.doneHead]]
    BY <1>2 DEF HandOver
  <2> HIDE DEF h, r
  <2>3. /\ StateShape(r.s) /\ r.s.hc = h /\ r.s.eds = s.eds /\ r.s.tds = s.tds
        /\ r.area.done = s.hc.doneHead /\ "done" \in DOMAIN r.area
    BY <1>1, <2>1, <2>2 DEF StateShape
  <2>4. PICK kind, of : Linked(s.tds, Heads(s.eds), Tails(s.eds), s.hc.doneHead, Null, fr, kind, of)
    BY <1>2 DEF Kept, Linkable
  <2>5. \E kd : Linked(s.tds, Heads(s.eds), Tails(s.eds), Null, s.hc.doneHead, fr, kd, of)
    BY <2>4, LinkedHandedOver
  <2>6. Kept(r.s, Heads(r.s.eds), r.area.done, fr)
    BY <2>1, <2>3, <2>5 DEF Kept, Linkable
  <2> QED
    BY <2>1, <2>3, <2>6 DEF r
<1>3. CASE ~g
  <2>1. HcShape(k) /\ k.control = s.hc.control /\ k.doneHead = s.hc.doneHead
    BY <1>1 DEF HcShape
  <2>2. r = [s |-> [s EXCEPT !.hc.delay = IF @ > 0 THEN @ - 1 ELSE @], area |-> area]
    BY <1>3 DEF HandOver
  <2>3. r = [s |-> [s EXCEPT !.hc = k], area |-> area]
    BY <2>2
  <2> HIDE DEF k, r
  <2>4. /\ StateShape(r.s) /\ r.s.hc = k /\ r.s.eds = s.eds /\ r.s.tds = s.tds /\ r.area = area
    BY <1>1, <2>1, <2>3 DEF StateShape
  <2>5. Kept(r.s, Heads(r.s.eds), r.area.done, fr)
    BY <2>1, <2>4 DEF Kept
  <2> QED
    BY <2>1, <2>4, <2>5 DEF r
<1> QED
  BY <1>2, <1>3

LEMMA AdvanceFrameKeeps ==
    ASSUME NEW s, NEW area, NEW fr, Kept(s, Heads(s.eds), area.done, fr), "done" \in DOMAIN area, Operational(s.hc)
    PROVE  LET r == AdvanceFrame(s, area)
           IN  /\ Kept(r.s, Heads(r.s.eds), r.area.done, fr) /\ r.s.hc.control = s.hc.control
               /\ "done" \in DOMAIN r.area
<1> DEFINE h == Raise([s.hc EXCEPT !.frame = Folded(s.hc.frame + 1)], {"startOfFrame"})
           counted == [s EXCEPT !.hc = h]
           numbered == IF s.hc.hcca THEN [area EXCEPT !.frame = counted.hc.frame] ELSE area
           served == ServiceLists(counted, area.slots)
           r == AdvanceFrame(s, area)
<1>1. StateShape(s) /\ HcShape(s.hc)
  BY DEF Kept, StateShape
<1>2. r = HandOver(served, numbered)
  BY DEF AdvanceFrame
<1>3. HcShape(h) /\ h.control = s.hc.control /\ h.doneHead = s.hc.doneHead
  BY <1>1 DEF HcShape, Raise
<1>4. counted = [s EXCEPT !.hc = h]
  OBVIOUS
<1> HIDE DEF h, counted
<1>5. StateShape(counted) /\ counted.hc = h /\ counted.eds = s.eds /\ counted.tds = s.tds
  BY <1>1, <1>3, <1>4 DEF StateShape
<1>6. Kept(counted, Heads(counted.eds), area.done, fr)
  BY <1>3, <1>5 DEF Kept
<1>7. "done" \in DOMAIN numbered /\ numbered.done = area.done
  OBVIOUS
<1> HIDE DEF numbered
<1>8. Kept(served, Heads(served.eds), area.done, fr) /\ served.hc.control = counted.hc.control
  BY <1>6, ServiceListsKeeps
<1> HIDE DEF served, r
<1>9. /\ Kept(r.s, Heads(r.s.eds), r.area.done, fr) /\ r.s.hc.control = served.hc.control
      /\ "done" \in DOMAIN r.area
  BY <1>2, <1>7, <1>8, HandOverKeeps
<1> QED
  BY <1>3, <1>5, <1>8, <1>9 DEF r

-----------------------------------------------------------------------------
(* The inductive invariant.                                                *)
Bundle == [hc |-> hc, eds |-> eds, tds |-> tds]
UsbInv ==
    /\ HcShape(hc) /\ "done" \in DOMAIN hcca /\ "free" \in DOMAIN driver
    /\ ~Operational(hc) => hc.doneHead = Null
    /\ Operational(hc) => Kept(Bundle, Heads(eds), hcca.done, driver.free)

LEMMA UsbStart == UsbInit => UsbInv
<1> SUFFICES ASSUME UsbInit PROVE UsbInv
  OBVIOUS
<1>1. HcShape(hc) /\ hc.control = {} /\ hc.doneHead = Null
  BY DEF UsbInit, DefaultController, HcShape
<1>2. "done" \in DOMAIN hcca /\ "free" \in DOMAIN driver
  BY DEF UsbInit
<1> QED
  BY <1>1, <1>2 DEF UsbInv, Operational

LEMMA UsbAccounts ==
    ASSUME UsbInv, Operational(hc)
    PROVE  NoCompletionLost
<1>1. PICK kind, of : Linked(tds, Heads(eds), Tails(eds), hc.doneHead, hcca.done, driver.free, kind, of)
  BY DEF UsbInv, Kept, Bundle, Linkable
<1>2. DoneQueue(hc.doneHead) = [on |-> OfKind(kind, "done"), end |-> Null]
  BY <1>1, QueueWalked DEF Linked
<1>3. DoneQueue(hcca.done) = [on |-> OfKind(kind, "handed"), end |-> Null]
  BY <1>1, QueueWalked DEF Linked
<1>4. OfKind(kind, "done") \cup OfKind(kind, "handed") = Retired /\ OfKind(kind, "done") \cap OfKind(kind, "handed") = {}
  BY SMT, <1>1 DEF Linked, Placed, OfKind, Retired
<1> QED
  BY SMT, <1>2, <1>3, <1>4 DEF NoCompletionLost

(* An action that leaves the queues alone.                                 *)
LEMMA UsbQuiet ==
    ASSUME UsbInv, HcKept(hc, hc'), UNCHANGED <<tds, hcca>>, "free" \in DOMAIN driver',
           Operational(hc) => /\ driver'.free = driver.free
                              /\ DOMAIN eds' = Endpoints
                              /\ \A e \in Endpoints : {"head", "tail"} \subseteq DOMAIN eds'[e]
                              /\ Heads(eds') = Heads(eds) /\ Tails(eds') = Tails(eds)
    PROVE  UsbInv'
<1>1. HcShape(hc') /\ "done" \in DOMAIN hcca' /\ (Operational(hc') <=> Operational(hc)) /\ hc'.doneHead = hc.doneHead
  BY DEF UsbInv, HcKept, Operational
<1>2. ASSUME Operational(hc) PROVE Kept(Bundle', Heads(eds'), hcca'.done, driver'.free)
  BY <1>1, <1>2 DEF UsbInv, Kept, StateShape, Bundle
<1> QED
  BY <1>1, <1>2 DEF UsbInv

LEMMA UsbTick ==
    ASSUME UsbInv, Tick
    PROVE  UsbInv'
<1> DEFINE f == AdvanceFrame(Bundle, hcca)
           p == [plug EXCEPT !.ready = Refolded(@, hc.frame, f.s.hc.frame)]
           a == AttachWhenReady(f.s.hc, p, driver.connected)
<1>1. hc' = a.hc /\ eds' = f.s.eds /\ tds' = f.s.tds /\ hcca' = f.area /\ driver' = driver
  BY DEF Tick, Bundle
<1> HIDE DEF p
<1>2. ASSUME HcShape(f.s.hc) PROVE HcKept(f.s.hc, a.hc)
  <2>1. a.hc = f.s.hc \/ a.hc = SetAttached(f.s.hc, TRUE)
    <3> HIDE DEF f
    <3> QED
      BY DEF AttachWhenReady
  <2> QED
    <3>1. HcKept(f.s.hc, SetAttached(f.s.hc, TRUE))
      BY <1>2, SetAttachedKeeps
    <3>2. HcKept(f.s.hc, f.s.hc)
      BY <1>2 DEF HcKept
    <3> HIDE DEF f, a
    <3> QED
      BY <2>1, <3>1, <3>2
<1> HIDE DEF a
<1>3. CASE Operational(hc)
  <2>1. Bundle.hc = hc /\ Bundle.eds = eds
    BY DEF Bundle
  <2>2. Kept(Bundle, Heads(Bundle.eds), hcca.done, driver.free) /\ Operational(Bundle.hc) /\ "done" \in DOMAIN hcca
    BY <1>3, <2>1 DEF UsbInv
  <2>3. /\ Kept(f.s, Heads(f.s.eds), f.area.done, driver.free) /\ f.s.hc.control = Bundle.hc.control
        /\ "done" \in DOMAIN f.area
    BY <2>2, AdvanceFrameKeeps
  <2> HIDE DEF f
  <2>4. HcKept(f.s.hc, a.hc)
    BY <1>2, <2>3 DEF Kept, StateShape
  <2>5. Operational(hc') /\ HcShape(hc') /\ Bundle' = [hc |-> a.hc, eds |-> f.s.eds, tds |-> f.s.tds]
    BY <1>1, <1>3, <2>1, <2>3, <2>4 DEF Operational, HcKept, Bundle
  <2>6. Kept(Bundle', Heads(eds'), hcca'.done, driver'.free)
    BY <1>1, <2>3, <2>4, <2>5, KeptRegisters
  <2> QED
    BY <1>1, <2>3, <2>5, <2>6 DEF UsbInv
<1>4. CASE ~Operational(hc)
  <2>1. f = [s |-> Bundle, area |-> hcca]
    BY <1>4 DEF AdvanceFrame, Bundle
  <2>2. f.s.hc = hc /\ f.area = hcca
    BY SMT, <2>1 DEF Bundle
  <2> HIDE DEF f
  <2> QED
    BY <1>1, <1>2, <1>4, <2>2 DEF UsbInv, HcKept, Operational
<1> QED
  BY <1>3, <1>4

LEMMA UsbDriverInit ==
    ASSUME UsbInv, NEW circle, DriverInit(circle)
    PROVE  UsbInv'
<1> DEFINE h1 == Write(hc, "HcHCCA", 0, {"area"})
           h2 == Write(h1, "HcControlHeadED", 1, {})
           h3 == Write(h2, "HcInterruptEnable", 0, {"writebackDone", "rootHubChange"})
<1>1. HcShape(hc) /\ hc.doneHead = Null
  BY DEF DriverInit, UsbInv
<1>2. HcShape(h1) /\ h1.doneHead = Null
  BY <1>1 DEF HcShape, Write
<1>3. hc' = Write(h3, "HcControl", 0, {"operational", "controlList", "periodic"})
  BY DEF DriverInit
<1> HIDE DEF h1
<1>4. HcShape(h2) /\ h2.doneHead = Null
  BY <1>2 DEF HcShape, Write
<1> HIDE DEF h2
<1>5. HcShape(h3) /\ h3.doneHead = Null
  BY <1>4 DEF HcShape, Write
<1> HIDE DEF h3
<1>6. HcShape(hc') /\ hc'.doneHead = Null /\ Operational(hc')
  BY <1>3, <1>5 DEF HcShape, Write, Operational
<1>7. /\ "done" \in DOMAIN hcca' /\ hcca'.done = Null
      /\ "free" \in DOMAIN driver' /\ driver'.free = Transfers \ Endpoints
  BY DEF DriverInit, UsbInv
<1>8. /\ DOMAIN tds' = Transfers
      /\ \A t \in Transfers : {"next", "condition"} \subseteq DOMAIN tds'[t] /\ tds'[t].condition # "noError"
  BY DEF DriverInit, BlankTransfer
<1>9. /\ DOMAIN eds' = Endpoints
      /\ \A e \in Endpoints : {"head", "tail"} \subseteq DOMAIN eds'[e] /\ eds'[e].head = e /\ eds'[e].tail = e
  BY DEF DriverInit, Endpoint
<1>10. StateShape(Bundle') /\ Bundle'.tds = tds' /\ Bundle'.eds = eds' /\ Bundle'.hc = hc'
  BY <1>6, <1>8, <1>9 DEF StateShape, Bundle
<1>11. Heads(eds') = Tails(eds') /\ \A e \in Endpoints : Heads(eds')[e] = e
  BY <1>9 DEF Heads, Tails
<1>12. \E kind, of : Linked(tds', Heads(eds'), Heads(eds'), Null, Null, Transfers \ Endpoints, kind, of)
  <2> DEFINE T == tds'
             ends == Heads(eds')
  <2>1. (\A t \in Transfers : T[t].condition # "noError") /\ \A e \in Endpoints : ends[e] = e
    BY <1>8, <1>11
  <2> HIDE DEF T, ends
  <2>2. \E kind, of : Linked(T, ends, ends, Null, Null, Transfers \ Endpoints, kind, of)
    BY <2>1, LinkedStart
  <2> QED
    BY <2>2 DEF T, ends
<1>13. Kept(Bundle', Heads(eds'), hcca'.done, driver'.free)
  BY <1>6, <1>7, <1>10, <1>11, <1>12 DEF Kept, Linkable
<1> QED
  BY <1>6, <1>7, <1>13 DEF UsbInv

LEMMA UsbDriverQueue ==
    ASSUME UsbInv, NEW r \in Requests, DriverQueue(r)
    PROVE  UsbInv'
<1> DEFINE e == r.endpoint
           tail == eds[e].tail
           empty == CHOOSE t \in driver.free : TRUE
           heads == Heads(eds)
           tails == Tails(eds)
           filled == [BlankTransfer EXCEPT
                        !.pid = r.pid, !.request = r.request, !.length = r.length, !.buffer = r.buffer,
                        !.delay = r.delay, !.toggle = r.toggle, !.explicit = r.explicit, !.next = empty]
<1>1. /\ Operational(hc) /\ driver.free # {} /\ tds' = [tds EXCEPT ![tail] = filled]
      /\ eds' = [eds EXCEPT ![e].tail = empty] /\ UNCHANGED <<hc, hcca>>
      /\ driver' = [driver EXCEPT !.free = @ \ {empty}, !.queued = @ + 1]
  BY DEF DriverQueue
<1>2. e \in Endpoints /\ empty \in driver.free
  BY <1>1, UsbAssumption
<1>3. {"next", "condition"} \subseteq DOMAIN filled /\ filled.next = empty /\ filled.condition # "noError"
  BY DEF BlankTransfer
<1> HIDE DEF filled, empty, e
<1>4. Kept(Bundle, heads, hcca.done, driver.free) /\ HcShape(hc) /\ "free" \in DOMAIN driver /\ "done" \in DOMAIN hcca
  BY <1>1 DEF UsbInv
<1>5. /\ DOMAIN eds = Endpoints /\ \A f \in Endpoints : {"head", "tail"} \subseteq DOMAIN eds[f]
      /\ DOMAIN tds = Transfers /\ \A t \in Transfers : {"next", "condition"} \subseteq DOMAIN tds[t]
  BY <1>4 DEF Kept, StateShape, Bundle
<1>6. PICK kind, of : Linked(tds, heads, tails, hc.doneHead, hcca.done, driver.free, kind, of)
  BY <1>4 DEF Kept, Bundle, Linkable
<1>7. tails[e] = tail /\ DOMAIN tails = Endpoints /\ tail \in Transfers
  BY <1>2, <1>6 DEF Linked, Placed, Tails
<1>8. /\ DOMAIN tds' = Transfers /\ tds'[tail] = filled /\ \A t \in Transfers \ {tail} : tds'[t] = tds[t]
  BY <1>1, <1>5, <1>7
<1>9. /\ DOMAIN eds' = Endpoints /\ \A f \in Endpoints : {"head", "tail"} \subseteq DOMAIN eds'[f]
      /\ Heads(eds') = heads /\ Tails(eds') = [tails EXCEPT ![e] = empty]
  BY <1>1, <1>2, <1>5 DEF Heads, Tails
<1>10. "free" \in DOMAIN driver' /\ driver'.free = driver.free \ {empty}
  BY <1>1, <1>4
<1>11. StateShape(Bundle') /\ Bundle'.tds = tds' /\ Bundle'.eds = eds' /\ Bundle'.hc = hc
  BY <1>1, <1>3, <1>4, <1>5, <1>8, <1>9 DEF StateShape, Bundle
<1>12. Linkable(tds', heads, [tails EXCEPT ![e] = empty], hc.doneHead, hcca.done, driver.free \ {empty})
  <2> DEFINE U == tds'
  <2>0. DOMAIN tails = Endpoints
    BY <1>7
  <2>1. (\A t \in Transfers \ {tails[e]} : U[t] = tds[t]) /\ U[tails[e]].next = empty /\ U[tails[e]].condition # "noError"
    BY <1>3, <1>7, <1>8
  <2> DEFINE ts == [tails EXCEPT ![e] = empty]
             less == driver.free \ {empty}
  <2>2. ts = [tails EXCEPT ![e] = empty] /\ less = driver.free \ {empty}
    OBVIOUS
  <2> HIDE DEF U, heads, tails, ts, less
  <2>3. Refilled(tds, U, tails, ts, driver.free, less, e, empty)
    BY <1>2, <2>0, <2>1, <2>2 DEF Refilled
  <2>4. Linkable(U, heads, ts, hc.doneHead, hcca.done, less)
    BY <1>6, <2>3, LinkedQueued
  <2> QED
    BY <2>4 DEF U, ts, less
<1>13. Kept(Bundle', Heads(eds'), hcca'.done, driver'.free)
  BY <1>1, <1>9, <1>10, <1>11, <1>12 DEF Kept
<1> QED
  BY <1>1, <1>4, <1>10, <1>13 DEF UsbInv

LEMMA UsbDriverIsr ==
    ASSUME UsbInv, DriverIsr
    PROVE  UsbInv'
<1> DEFINE bits == Read(hc, "HcInterruptStatus", 0)
           port == Read(hc, "HcRhPortStatus", GamepadPort)
           acked == Write(hc, "HcInterruptStatus", 0, bits)
           taken == IF "writebackDone" \in bits THEN DoneQueue(hcca.done).on ELSE {}
           found == "connected" \in port
           answer == (port \cap Changes) \cup (IF found /\ "enabled" \notin port THEN {"setReset"} ELSE {})
<1>1. /\ hc' = IF "rootHubChange" \in bits THEN Write(acked, "HcRhPortStatus", GamepadPort, answer) ELSE acked
      /\ tds' = [t \in Transfers |-> IF t \in taken THEN BlankTransfer ELSE tds[t]]
      /\ hcca' = IF "writebackDone" \in bits THEN [hcca EXCEPT !.done = Null] ELSE hcca
      /\ driver' = [driver EXCEPT !.free = @ \cup taken, !.heard = IF "rootHubChange" \in bits THEN found ELSE @]
      /\ eds' = eds
  BY DEF DriverIsr
<1>2. HcShape(hc) /\ "free" \in DOMAIN driver /\ "done" \in DOMAIN hcca
  BY DEF UsbInv
<1> HIDE DEF bits, port, taken, found, answer
<1>3. HcKept(hc, acked)
  BY <1>2 DEF HcKept, HcShape, Write
<1> HIDE DEF acked
<1>4. HcKept(acked, Write(acked, "HcRhPortStatus", GamepadPort, answer))
  <2>1. Write(acked, "HcRhPortStatus", GamepadPort, answer) = WritePort(acked, GamepadPort, answer)
    BY DEF Write
  <2> QED
    BY SMT, <1>3, <2>1, WritePortKeeps DEF HcKept
<1>5. HcKept(hc, hc')
  BY <1>1, <1>3, <1>4 DEF HcKept
<1>6. /\ "free" \in DOMAIN driver' /\ driver'.free = driver.free \cup taken
      /\ "done" \in DOMAIN hcca' /\ hcca'.done = IF "writebackDone" \in bits THEN Null ELSE hcca.done
  BY <1>1, <1>2
<1>7. CASE ~Operational(hc)
  BY <1>5, <1>6, <1>7 DEF UsbInv, HcKept, Operational
<1>8. CASE Operational(hc)
  <2>1. Kept(Bundle, Heads(eds), hcca.done, driver.free)
    BY <1>8 DEF UsbInv
  <2>2. PICK kind, of : Linked(tds, Heads(eds), Tails(eds), hc.doneHead, hcca.done, driver.free, kind, of)
    BY <2>1 DEF Kept, Bundle, Linkable
  <2>3. StateShape(Bundle) /\ Bundle.tds = tds /\ Bundle.eds = eds
    BY <2>1 DEF Kept, Bundle
  <2>4. {"next", "condition"} \subseteq DOMAIN BlankTransfer /\ BlankTransfer.condition # "noError"
    BY DEF BlankTransfer
  <2>5. StateShape(Bundle') /\ Bundle'.tds = tds' /\ Bundle'.eds = eds /\ Bundle'.hc = hc'
    <3>1. HcShape(hc')
      BY <1>5 DEF HcKept
    <3>2. DOMAIN tds' = Transfers /\ \A t \in Transfers : {"next", "condition"} \subseteq DOMAIN tds'[t]
      BY <1>1, <2>3, <2>4 DEF StateShape
    <3> QED
      BY <1>1, <2>3, <3>1, <3>2 DEF StateShape, Bundle
  <2>6. \E kd : Linked(tds', Heads(eds), Tails(eds), hc.doneHead, hcca'.done, driver'.free, kd, of)
    <3> DEFINE U == tds'
    <3>1. CASE "writebackDone" \in bits
      <4>1. DoneQueue(hcca.done) = [on |-> OfKind(kind, "handed"), end |-> Null]
        BY <2>2, QueueWalked DEF Linked
      <4>2. taken = OfKind(kind, "handed")
        BY SMT, <3>1, <4>1 DEF taken
      <4>3. \A t \in Transfers : IF kind[t] = "handed" THEN U[t].condition # "noError" ELSE U[t] = tds[t]
        BY <1>1, <2>4, <4>2 DEF OfKind
      <4> HIDE DEF U
      <4>4. \E kd : Linked(U, Heads(eds), Tails(eds), hc.doneHead, Null, driver.free \cup OfKind(kind, "handed"), kd, of)
        BY <2>2, <4>3, LinkedTaken
      <4> QED
        BY <1>6, <3>1, <4>2, <4>4 DEF U
    <3>2. CASE "writebackDone" \notin bits
      <4>1. taken = {} /\ hcca'.done = hcca.done /\ driver'.free = driver.free
        BY <1>6, <3>2 DEF taken
      <4>2. \A t \in Transfers : U[t] = tds[t]
        BY <1>1, <4>1
      <4> HIDE DEF U
      <4>3. Linked(U, Heads(eds), Tails(eds), hc.doneHead, hcca.done, driver.free, kind, of)
        BY <2>2, <4>2, LinkedPointwise
      <4> QED
        BY <4>1, <4>3 DEF U
    <3> QED
      BY <3>1, <3>2
  <2>7. Kept(Bundle', Heads(eds'), hcca'.done, driver'.free)
    BY <1>1, <1>5, <2>5, <2>6 DEF Kept, HcKept, Linkable
  <2> QED
    BY <1>5, <1>6, <1>8, <2>7 DEF UsbInv, HcKept, Operational
<1> QED
  BY <1>7, <1>8

LEMMA UsbOthers ==
    ASSUME UsbInv,
           \/ \E a \in BOOLEAN : AttachGamepad(a)
           \/ DriverConnect \/ DriverReset \/ DriverSkip
           \/ \E v \in {{"clearEnable"}, {"setEnable"}, {"setReset"}} : DriverPort(1, v)
           \/ UNCHANGED usbVars
    PROVE  UsbInv'
<1>1. HcShape(hc) /\ "free" \in DOMAIN driver /\ HcKept(hc, hc)
  BY DEF UsbInv, HcKept
<1>2. ASSUME Operational(hc)
      PROVE  DOMAIN eds = Endpoints /\ \A e \in Endpoints : {"head", "tail"} \subseteq DOMAIN eds[e]
  BY <1>2 DEF UsbInv, Kept, StateShape, Bundle
<1>3. CASE \E a \in BOOLEAN : AttachGamepad(a)
  <2>1. PICK a \in BOOLEAN : AttachGamepad(a)
    BY <1>3
  <2>2. HcKept(hc, hc')
    BY <1>1, <2>1, SetAttachedKeeps DEF AttachGamepad
  <2>3. "free" \in DOMAIN driver' /\ driver'.free = driver.free /\ UNCHANGED <<eds, tds, hcca>>
    BY <1>1, <2>1 DEF AttachGamepad
  <2> QED
    BY <1>2, <2>2, <2>3, UsbQuiet
<1>4. CASE DriverConnect
  <2>1. "free" \in DOMAIN driver' /\ driver'.free = driver.free /\ UNCHANGED <<hc, eds, tds, hcca>>
    BY <1>1, <1>4 DEF DriverConnect
  <2> QED
    BY <1>1, <1>2, <2>1, UsbQuiet
<1>5. CASE DriverReset
  <2>1. hc' = Reset(hc)
    BY <1>5 DEF DriverReset, Write
  <2>2. HcShape(hc') /\ hc'.control = {} /\ hc'.doneHead = Null
    BY <2>1 DEF Reset, DefaultController, HcShape, Raise
  <2>3. "free" \in DOMAIN driver' /\ "done" \in DOMAIN hcca'
    BY <1>1, <1>5 DEF DriverReset, UsbInv
  <2> QED
    BY <2>2, <2>3 DEF UsbInv, Operational
<1>6. CASE DriverSkip
  <2>1. "free" \in DOMAIN driver' /\ driver'.free = driver.free /\ UNCHANGED <<hc, tds, hcca>> /\ Operational(hc)
    BY <1>1, <1>6 DEF DriverSkip
  <2>2. eds' = [eds EXCEPT ![1].skip = ~@]
    BY <1>6 DEF DriverSkip
  <2>3. /\ DOMAIN eds' = Endpoints /\ \A e \in Endpoints : {"head", "tail"} \subseteq DOMAIN eds'[e]
        /\ Heads(eds') = Heads(eds) /\ Tails(eds') = Tails(eds)
    BY <1>2, <2>1, <2>2 DEF Heads, Tails
  <2> QED
    BY <1>1, <2>1, <2>3, UsbQuiet
<1>7. CASE \E v \in {{"clearEnable"}, {"setEnable"}, {"setReset"}} : DriverPort(1, v)
  <2>1. PICK v \in {{"clearEnable"}, {"setEnable"}, {"setReset"}} : DriverPort(1, v)
    BY <1>7
  <2>2. hc' = WritePort(hc, 1, v)
    BY <2>1 DEF DriverPort, Write
  <2>3. "free" \in DOMAIN driver' /\ driver'.free = driver.free /\ UNCHANGED <<eds, tds, hcca>>
    BY <1>1, <2>1 DEF DriverPort
  <2>4. HcKept(hc, hc')
    BY <1>1, <2>2, WritePortKeeps
  <2> QED
    BY <1>2, <2>3, <2>4, UsbQuiet
<1>8. CASE UNCHANGED usbVars
  <2>1. UNCHANGED <<hc, eds, tds, hcca, driver>>
    BY <1>8 DEF usbVars
  <2> QED
    BY <1>1, <1>2, <2>1, UsbQuiet
<1> QED
  BY <1>3, <1>4, <1>5, <1>6, <1>7, <1>8

(* No completion is lost (complete and advance_frame of ohci.rs): whatever *)
(* the driver queues and however its interrupts, resets and plugs fall     *)
(* between the frames, a retired transfer it has not taken is on exactly   *)
(* one of the two done queues, and both can be walked to their end.        *)
THEOREM CompletionsKept == UsbSpec => []NoCompletionLost
<1>1. UsbInit => UsbInv
  BY UsbStart
<1>2. UsbInv /\ [UsbNext]_usbVars => UsbInv'
  <2> SUFFICES ASSUME UsbInv, [UsbNext]_usbVars PROVE UsbInv'
    OBVIOUS
  <2>1. CASE Tick
    BY <2>1, UsbTick
  <2>2. CASE \E c \in {Null, 2} : DriverInit(c)
    BY <2>2, UsbDriverInit
  <2>3. CASE \E r \in Requests : DriverQueue(r)
    BY <2>3, UsbDriverQueue
  <2>4. CASE DriverIsr
    BY <2>4, UsbDriverIsr
  <2>5. CASE \/ \E a \in BOOLEAN : AttachGamepad(a)
             \/ DriverConnect \/ DriverReset \/ DriverSkip
             \/ \E v \in {{"clearEnable"}, {"setEnable"}, {"setReset"}} : DriverPort(1, v)
             \/ UNCHANGED usbVars
    BY <2>5, UsbOthers
  <2> QED
    BY <2>1, <2>2, <2>3, <2>4, <2>5 DEF UsbNext
<1>3. UsbInv => NoCompletionLost
  <2> SUFFICES ASSUME UsbInv PROVE NoCompletionLost
    OBVIOUS
  <2>1. CASE Operational(hc)
    BY <2>1, UsbAccounts
  <2>2. CASE ~Operational(hc)
    BY <2>2 DEF NoCompletionLost
  <2> QED
    BY <2>1, <2>2
<1> QED
  BY <1>1, <1>2, <1>3, PTL DEF UsbSpec
=============================================================================
