---------------------------- MODULE DeviceSpace ----------------------------
(***************************************************************************)
(* The device registers and the view that lays them over guest memory      *)
(* (exbawks-core mmio.rs), the emulator's routing of the instance-memory   *)
(* window (emulator.rs), and a title on the other side: a display          *)
(* interrupt routine and a sound driver polling its mailbox.               *)
(*                                                                         *)
(* An access is one dword. Memory is a row of cells, PageCells to a page.  *)
(* A register stands for all that behave as it does.                       *)
(***************************************************************************)
EXTENDS Integers, Sequences

CONSTANTS
    Cells,           \* cells of guest memory, from 0
    PageCells,       \* cells in a page
    InstanceCells,   \* cells of the region a title claims, and of the window routed
    WindowCells,     \* cells of the whole window
    ClaimBases,      \* where the allocator may place a claim
    CommBases,       \* communication regions the sound driver programs
    DeviceValues,    \* values written
    MaxLaunches      \* bound: titles run one after another

\* A claim lies in memory, and a communication region is other memory of the
\* title's: no page it is answered through holds part of a claim.
ASSUME DeviceAssumption ==
  /\ PageCells \in Nat \ {0} /\ InstanceCells \in Nat
  /\ Cells \subseteq Nat /\ ClaimBases \subseteq Nat /\ CommBases \subseteq Nat
  /\ \A b \in ClaimBases, i \in 0 .. InstanceCells - 1 :
        b + i \in Cells /\ \A c \in CommBases : (b + i) \div PageCells # c \div PageCells + 1

VARIABLES
    dev,      \* DeviceSpace
    ram,      \* guest memory
    title     \* the title: its claim, its interrupt routine, what it polls, what it meant the window to hold

deviceVars == <<dev, ram, title>>

None == -1
Ready == 255        \* every bit
Drained == 16       \* the idle-hardware value of the queue registers

-----------------------------------------------------------------------------
(* Registers. *)

Vblank == [pending |-> FALSE, enable |-> 0, master |-> 0]
Interrupts == {"PMC_INTR", "PMC_INTR_ENABLE", "PCRTC_INTR", "PCRTC_INTR_ENABLE"}

NewDevices == [vblank |-> Vblank, registers |-> <<>>, mailboxes |-> {}, head |-> None, pramin |-> None, submissions |-> <<>>]

Latched(d, r, otherwise) == IF r \in DOMAIN d.registers THEN d.registers[r] ELSE otherwise

MasterStatus(v) == v.pending /\ v.enable = 1

ReadInterrupt(v, r) ==
  CASE r = "PCRTC_INTR" -> IF v.pending THEN 1 ELSE 0
    [] r = "PCRTC_INTR_ENABLE" -> v.enable
    [] r = "PMC_INTR_ENABLE" -> v.master
    [] r = "PMC_INTR" -> IF MasterStatus(v) THEN 1 ELSE 0

DeviceRead(d, r) ==
  CASE r \in Interrupts -> ReadInterrupt(d.vblank, r)
    [] r = "READY" -> Ready
    [] r = "DRAINED" -> Drained
    [] r = "SELF_CLEAR" -> 0
    [] OTHER -> Latched(d, r, 0)

WriteInterrupt(v, r, value) ==
  CASE r = "PCRTC_INTR" -> [v EXCEPT !.pending = @ /\ value = 0]
    [] r = "PCRTC_INTR_ENABLE" -> [v EXCEPT !.enable = value]
    [] r = "PMC_INTR_ENABLE" -> [v EXCEPT !.master = value]
    [] r = "PMC_INTR" -> v

\* A write of DMA_PUT: GET catches up at once, and the range between is left for the engine.
Kick(d, put) ==
  [d EXCEPT !.submissions = Append(@, [get |-> Latched(d, "DMA_GET", put), put |-> put]),
            !.registers = [r \in DOMAIN @ \cup {"DMA_GET"} |-> IF r = "DMA_GET" THEN put ELSE @[r]]]

MailboxPage(base) == base \div PageCells + 1
Identify(d, base) == [d EXCEPT !.mailboxes = @ \cup {MailboxPage(base)}]

Latch(d, r, value) == [d EXCEPT !.registers = [q \in DOMAIN @ \cup {r} |-> IF q = r THEN value ELSE @[q]]]

DeviceWrite(d, r, value) ==
  CASE r \in Interrupts -> [d EXCEPT !.vblank = WriteInterrupt(@, r, value)]
    [] r = "DMA_PUT" -> Latch(Kick(d, value), r, value)
    [] r = "GP_COMM_BASE" /\ value # 0 -> Latch(Identify(d, value), r, value)
    [] OTHER -> Latch(d, r, value)

RaiseVblank(v) == [v EXCEPT !.pending = @ \/ v.enable = 1]
VblankInterruptPending(v) == v.pending /\ v.enable = 1 /\ v.master = 1

-----------------------------------------------------------------------------
(* The view. An address is of memory, of the window or of a register; the  *)
(* window's cells are registers until instance memory is routed there, and *)
(* stay so past its end.                                                   *)

InWindow(d, a) == a.space = "window" /\ d.pramin # None /\ a.at < InstanceCells
WindowRegister(a) == <<"INSTANCE_0", "INSTANCE_1", "INSTANCE_2">>[a.at + 1]
InMailbox(d, cell) == cell \div PageCells \in d.mailboxes

ViewRead(d, m, a) ==
  CASE InWindow(d, a) -> m[d.pramin + a.at]
    [] a.space = "window" /\ ~InWindow(d, a) -> Latched(d, WindowRegister(a), 0)
    [] a.space = "memory" -> IF InMailbox(d, a.at) /\ d.head = a.at THEN 0 ELSE m[a.at]

WriteMemory(d, m, cell, value) ==
  [dev |-> IF InMailbox(d, cell) THEN [d EXCEPT !.head = cell] ELSE d, ram |-> [m EXCEPT ![cell] = value]]

ViewWrite(d, m, a, value) ==
  CASE InWindow(d, a) -> [dev |-> d, ram |-> [m EXCEPT ![d.pramin + a.at] = value]]
    [] a.space = "window" /\ ~InWindow(d, a) -> [dev |-> Latch(d, WindowRegister(a), value), ram |-> m]
    [] a.space = "memory" -> WriteMemory(d, m, a.at, value)

-----------------------------------------------------------------------------
(* The title. Its main code, its sound driver and its interrupt routine    *)
(* share one processor: the routine runs to its end.                       *)

Unset == [i \in 0 .. InstanceCells - 1 |-> None]
NewTitle(n) == [launches |-> n, claim |-> None, isr |-> "idle", polls |-> None, meant |-> Unset]

DeviceInit ==
  /\ dev = NewDevices
  /\ ram = [c \in Cells |-> 0]
  /\ title = NewTitle(1)

Running == title.isr = "idle" /\ title.polls = None

\* Mutant: the window is left to a later tick.
RoutedLater(d, base) == d
\* The window is routed once, by the first claim.
Routed(d, base) == IF d.pramin = None THEN [d EXCEPT !.pramin = base] ELSE d

\* A kernel call that claims instance memory; routed before the title runs again.
ClaimGpuInstance(base) ==
  /\ Running
  /\ title.claim = None
  /\ title' = [title EXCEPT !.claim = base]
  /\ dev' = Routed(dev, base)
  /\ UNCHANGED ram

\* The title builds its objects through the window.
WriteWindow(at, value) ==
  /\ Running
  /\ LET w == ViewWrite(dev, ram, [space |-> "window", at |-> at], value)
     IN  dev' = w.dev /\ ram' = w.ram
  /\ title' = IF at < InstanceCells /\ title.claim # None THEN [title EXCEPT !.meant[at] = value] ELSE title

\* The region is the title's own memory too.
WriteClaimed(at, value) ==
  /\ Running
  /\ title.claim # None
  /\ LET w == ViewWrite(dev, ram, [space |-> "memory", at |-> title.claim + at], value)
     IN  dev' = w.dev /\ ram' = w.ram
  /\ title' = [title EXCEPT !.meant[at] = value]

WriteRegisterCell(r, value) ==
  /\ Running
  /\ dev' = DeviceWrite(dev, r, value)
  /\ UNCHANGED <<ram, title>>

\* The sound driver posts a command and polls it until the processor took it.
PostCommand(cell, value) ==
  /\ Running
  /\ InMailbox(dev, cell)
  /\ LET w == ViewWrite(dev, ram, [space |-> "memory", at |-> cell], value)
     IN  dev' = w.dev /\ ram' = w.ram
  /\ title' = [title EXCEPT !.polls = cell]

PollCommand ==
  /\ title.isr = "idle" /\ title.polls # None
  /\ ViewRead(dev, ram, [space |-> "memory", at |-> title.polls]) = 0
  /\ title' = [title EXCEPT !.polls = None]
  /\ UNCHANGED <<dev, ram>>

\* The display's clock, and the interrupt it asks for.
VerticalBlank ==
  /\ dev' = [dev EXCEPT !.vblank = RaiseVblank(@)]
  /\ UNCHANGED <<ram, title>>

DeliverVblank ==
  /\ title.isr = "idle"
  /\ VblankInterruptPending(dev.vblank)
  /\ title' = [title EXCEPT !.isr = "asked"]
  /\ UNCHANGED <<dev, ram>>

\* The routine acknowledges the blank if the master status names the display, and returns.
IsrReturns ==
  /\ title.isr = "asked"
  /\ dev' = IF DeviceRead(dev, "PMC_INTR") = 1 THEN DeviceWrite(dev, "PCRTC_INTR", 1) ELSE dev
  /\ title' = [title EXCEPT !.isr = "idle"]
  /\ UNCHANGED ram

\* A soft reboot: memory and the kernel are new, the devices are not.
RelaunchTitle ==
  /\ Running
  /\ title.launches < MaxLaunches
  /\ ram' = [c \in Cells |-> 0]
  /\ title' = NewTitle(title.launches + 1)
  /\ UNCHANGED dev

\* Routing and mailboxes; and the display, which shares no state with them.
MappingNext ==
  \/ \E base \in ClaimBases : ClaimGpuInstance(base)
  \/ \E at \in 0 .. WindowCells - 1, v \in DeviceValues : WriteWindow(at, v)
  \/ \E at \in 0 .. InstanceCells - 1, v \in DeviceValues : WriteClaimed(at, v)
  \/ \E base \in CommBases : WriteRegisterCell("GP_COMM_BASE", base)
  \/ \E c \in Cells, v \in DeviceValues : PostCommand(c, v)
  \/ PollCommand
  \/ RelaunchTitle
DisplayNext ==
  \/ \E r \in Interrupts \cup {"SELF_CLEAR", "PLAIN"}, v \in {0, 1} : WriteRegisterCell(r, v)
  \/ VerticalBlank
  \/ DeliverVblank
  \/ IsrReturns

DeviceSpec == DeviceInit /\ [][MappingNext \/ DisplayNext]_deviceVars

-----------------------------------------------------------------------------
(* Properties. *)

\* What the window shows is what the title last put there, through the window
\* or through its own memory, from the claim on: this is what the engine
\* resolves objects from (emulator.rs route_pramin_if_claimed, mmio.rs
\* pramin_target). For the first title: a second title's claim is not routed,
\* and the window keeps the region of the first.
InstanceMemoryCoherent ==
  title.launches = 1 =>
    \A i \in 0 .. InstanceCells - 1 :
      title.meant[i] # None =>
        /\ dev.pramin # None
        /\ ram[dev.pramin + i] = title.meant[i]
        /\ ViewRead(dev, ram, [space |-> "window", at |-> i]) = title.meant[i]

\* A title is never called for a blank its routine then finds nobody raising:
\* the master status the routine reads agrees with what delivered it, so every
\* delivery ends in an acknowledgement (mmio.rs vblank_interrupt_pending, read).
NoPhantomBlank ==
  title.isr = "asked" => DeviceRead(dev, "PMC_INTR") = 1 /\ DeviceRead(dev, "PCRTC_INTR") = 1

\* A driver polling the command it posted last finds it consumed, however many
\* mailboxes it has identified (mmio.rs consume_mailbox_write, MmioView::read).
PollEnds ==
  title.polls # None => ViewRead(dev, ram, [space |-> "memory", at |-> title.polls]) = 0


\* The devices answer a title as it left them: instance memory, the display's
\* interrupt and the sound mailbox (the clauses above).
DevicesAnswer == InstanceMemoryCoherent /\ NoPhantomBlank /\ PollEnds
=============================================================================
