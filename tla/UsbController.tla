--------------------------- MODULE UsbController ---------------------------
(***************************************************************************)
(* The OHCI host controller (exbawks-usb ohci.rs), the gamepad on its root *)
(* port (device.rs), the emulator's clock tick that drives it (emulator.rs)*)
(* and the title's driver on the other side of the registers.              *)
(*                                                                         *)
(* A register holds the set of its bits; a descriptor in guest memory is a *)
(* record; an address is the number of the descriptor it names, `Null` or  *)
(* one that cannot be read. An answer of the device is a range of the      *)
(* bytes it is called after.                                               *)
(***************************************************************************)
EXTENDS Integers, FiniteSets

CONSTANTS
    Endpoints,      \* endpoint descriptors: numbers above 0
    Transfers,      \* transfer descriptors: numbers above 0
    MAX_ENDPOINTS,  \* endpoints one pass follows
    MAX_TRANSFERS,  \* transfers one endpoint runs in a pass
    PeriodicSlots,  \* lists of the communication area, one per frame in turn
    SettleFrames,   \* GAMEPAD_SETTLE_FRAMES
    MaxFrames,      \* bound: frames the model tells apart
    Requests,       \* what the driver may queue
    MaxQueued,      \* bound: transfers the driver queues between resets
    MaxResets,      \* bound: controller resets, endpoints skipped and empty ports written
    MaxPlugs        \* bound: times the frontend changes its mind

Null == 0

ASSUME UsbAssumption ==
    /\ MAX_ENDPOINTS \in Nat /\ MAX_TRANSFERS \in Nat
    /\ IsFiniteSet(Transfers) /\ Null \notin Transfers
    /\ {1, 2} \subseteq Endpoints /\ Endpoints \subseteq Transfers     \* each endpoint's first empty transfer
    /\ \A r \in Requests : r.endpoint \in Endpoints

VARIABLES
    hc,     \* OhciController
    eds,    \* endpoint descriptors in guest memory
    tds,    \* transfer descriptors in guest memory
    hcca,   \* the communication area: slots, frame number, done head
    plug,   \* the emulator's gamepad_wanted, gamepad_ready_frame
    driver  \* the title: its interrupt routine, its free descriptors, the bounds' counts

usbVars == <<hc, eds, tds, hcca, plug, driver>>

NoDelay == -1
NotReady == -1000
Whole == -1         \* a retired transfer's pointer when all of its buffer moved
ReportBytes == 20
DelayNever == 7
GamepadPort == 0
Ports == 0 .. 1     \* the occupied port and one of the three empty ones
Changes == {"connectChange", "enableChange", "resetChange"}
Least(a, b) == IF a < b THEN a ELSE b

-----------------------------------------------------------------------------
(* The device. *)

DefaultDevice == [address |-> 0, configuration |-> 0]
NoAnswer == [what |-> "nothing", from |-> 0, to |-> 0]

DescriptorBytes == [device |-> 18, configuration |-> 32, xid |-> 16]

\* The bytes a request is answered with, cut to what the driver has room for;
\* an unrecognised one is answered by nothing, as if it had been.
Answered(q) ==
    LET bytes == CASE q.name = "GET_DESCRIPTOR" -> IF q.value \in DOMAIN DescriptorBytes THEN DescriptorBytes[q.value] ELSE 0
                   [] q.name = "GET_CONFIGURATION" -> 1
                   [] q.name = "GET_STATUS" -> 2
                   [] q.name \in {"GET_REPORT", "GET_CAPABILITIES"} -> ReportBytes
                   [] OTHER -> 0
    IN  [what |-> q.name, from |-> 0, to |-> Least(bytes, q.length)]

Control(device, q) ==
    CASE q.name = "SET_ADDRESS" -> [device EXCEPT !.address = q.value % 128]
      [] q.name = "SET_CONFIGURATION" -> [device EXCEPT !.configuration = q.value % 256]
      [] OTHER -> device

-----------------------------------------------------------------------------
(* The register file. *)

DefaultController ==
    [control |-> {}, hcca |-> FALSE, controlHead |-> Null, bulkHead |-> Null, doneHead |-> Null,
     status |-> {}, enable |-> {}, ports |-> Cardinality(Ports),
     port |-> [i \in Ports |-> {"powered"}], attached |-> FALSE, frame |-> 0,
     device |-> DefaultDevice, pending |-> NoAnswer, delay |-> NoDelay]

Operational(h) == "operational" \in h.control
Raise(h, bits) == [h EXCEPT !.status = @ \cup bits]
InterruptPending(h) == h.status \cap h.enable # {}

SetAttached(h, a) ==
    IF h.attached = a THEN h
    ELSE LET kept == IF a THEN h.port[GamepadPort] \cup {"connected"} ELSE h.port[GamepadPort] \ {"connected", "enabled"}
         IN  Raise([h EXCEPT !.attached = a, !.port[GamepadPort] = kept \cup {"connectChange"}], {"rootHubChange"})

\* Mutant: a device that stays attached is not announced again.
ResetAnnouncingNothing(h) ==
    [DefaultController EXCEPT !.attached = h.attached,
                              !.port[GamepadPort] = IF h.attached THEN @ \cup {"connected", "connectChange"} ELSE @]
Reset(h) ==
    LET fresh == [DefaultController EXCEPT !.attached = h.attached,
                    !.port[GamepadPort] = IF h.attached THEN @ \cup {"connected", "connectChange"} ELSE @]
    IN  IF h.attached THEN Raise(fresh, {"rootHubChange"}) ELSE fresh

\* The commands of one port write, in the order the code obeys them.
Obeyed(s, v, occupied) ==
    LET Bit(command, bit) == IF command \in v THEN {bit} ELSE {}
        enable == IF occupied THEN Bit("setEnable", "enabled") ELSE {}
        enabled == ((s \ (v \cap Changes)) \ Bit("clearEnable", "enabled")) \cup enable
        suspended == (enabled \cup Bit("setSuspend", "suspended")) \ Bit("clearSuspend", "suspended")
        powered == (suspended \cup Bit("setPower", "powered")) \ Bit("clearPower", "powered")
        reset == Bit("setReset", "resetChange")
    IN  powered \cup reset \cup (IF occupied /\ reset # {} THEN {"enabled", "enableChange"} ELSE {})

WritePort(h, i, v) ==
    LET occupied == h.attached /\ i = GamepadPort
        obeyed == [h EXCEPT !.port[i] = Obeyed(@, v, occupied)]
        forgot == IF occupied THEN [obeyed EXCEPT !.device = DefaultDevice, !.pending = NoAnswer] ELSE obeyed
    IN  IF "setReset" \in v THEN Raise(forgot, {"rootHubChange"}) ELSE obeyed

\* One register write; `i` is the port a port register belongs to.
Write(h, register, i, v) ==
    CASE register = "HcRhPortStatus" -> WritePort(h, i, v)
      [] register = "HcInterruptStatus" -> [h EXCEPT !.status = @ \ v]
      [] register = "HcInterruptEnable" -> [h EXCEPT !.enable = @ \cup v]
      [] register = "HcInterruptDisable" -> [h EXCEPT !.enable = @ \ v]
      [] register = "HcCommandStatus" -> IF "reset" \in v THEN Reset(h) ELSE h
      [] register = "HcControl" -> [h EXCEPT !.control = v]
      [] register = "HcHCCA" -> [h EXCEPT !.hcca = v # {}]
      [] register = "HcControlHeadED" -> [h EXCEPT !.controlHead = i]
      [] register = "HcBulkHeadED" -> [h EXCEPT !.bulkHead = i]
      [] OTHER -> h     \* HcRhStatus, HcRevision, HcFm*, the port count of HcRhDescriptorA

\* What the driver reads.
Read(h, register, i) ==
    CASE register = "HcRhPortStatus" -> h.port[i]
      [] register = "HcInterruptStatus" -> h.status
      [] register \in {"HcInterruptEnable", "HcInterruptDisable"} -> h.enable
      [] register = "HcControl" -> h.control
      [] OTHER -> {}

-----------------------------------------------------------------------------
(* Transfers. `s` bundles the controller and the two kinds of descriptor. *)

\* Mutant: the transfer is not linked to those before it.
LinkLost(s, t) == [s EXCEPT !.hc = Raise([@ EXCEPT !.doneHead = t], {"writebackDone"})]
Complete(s, t) ==
    [s EXCEPT !.tds[t].next = s.hc.doneHead, !.hc = Raise([@ EXCEPT !.doneHead = t], {"writebackDone"})]

\* What an IN transfer of `length` bytes carries, from the control endpoint's
\* pending answer or as a report of a configured device.
Carried(h, number, length) ==
    IF number = 0 THEN [h.pending EXCEPT !.to = Least(h.pending.from + length, @)]
    ELSE IF h.device.configuration = 0 \/ length < ReportBytes THEN NoAnswer
    ELSE [what |-> "report", from |-> 0, to |-> ReportBytes]

Sent(piece) == piece.to - piece.from

Pointer(length, piece) == IF Sent(piece) < length THEN Sent(piece) ELSE Whole

\* The transfer's data stage: the controller and descriptor after it, and
\* whether the transfer ran at all.
Moved(h, td, number) ==
    LET none == [ran |-> FALSE, hc |-> h, td |-> td]
        piece == Carried(h, number, td.length)
    IN  IF td.pid = "setup"
        THEN IF ~td.buffer THEN none
             ELSE [ran |-> TRUE, td |-> [td EXCEPT !.left = Whole],
                   hc |-> [h EXCEPT !.device = Control(@, td.request), !.pending = Answered(td.request)]]
        ELSE IF td.pid = "in"
        THEN IF number # 0 /\ Sent(piece) = 0 THEN none
             ELSE [ran |-> TRUE,
                   td |-> [td EXCEPT !.left = Pointer(td.length, piece), !.data = IF td.buffer THEN piece ELSE NoAnswer],
                   hc |-> IF number = 0 THEN [h EXCEPT !.pending.from = piece.to] ELSE h]
        ELSE [ran |-> TRUE, td |-> [td EXCEPT !.left = Whole], hc |-> h]

Sooner(waiting, delay) ==
    IF delay = DelayNever THEN waiting ELSE IF waiting = NoDelay THEN delay ELSE Least(waiting, delay)

\* A transfer that ran is retired onto the done queue.
Retire(s, t, moved) ==
    LET retired == [moved.td EXCEPT !.condition = "noError", !.explicit = TRUE, !.toggle = 1 - @]
    IN  IF ~moved.ran THEN [ran |-> FALSE, s |-> s, following |-> Null, carry |-> 0]
        ELSE [ran |-> TRUE, following |-> s.tds[t].next, carry |-> retired.toggle,
              s |-> Complete([s EXCEPT !.tds[t] = retired, !.hc = [moved.hc EXCEPT !.delay = Sooner(moved.hc.delay, s.tds[t].delay)]], t)]
RunTransfer(s, number, t) == Retire(s, t, Moved(s.hc, s.tds[t], number))

\* An endpoint's queue, from its head up to its tail or the first transfer
\* that does not run.
PastTransfer(q, r) == IF r.ran THEN [q EXCEPT !.s = r.s, !.head = r.following, !.carry = r.carry] ELSE [q EXCEPT !.open = FALSE]
HeadMoved(e, q) == [q.s EXCEPT !.eds[e].head = q.head, !.eds[e].carry = q.carry]
QueueStep(q, number, tail) ==
    IF ~q.open \/ q.head \notin DOMAIN q.s.tds \/ q.head = tail THEN [q EXCEPT !.open = FALSE]
    ELSE PastTransfer(q, RunTransfer(q.s, number, q.head))
RunQueue(s, e) ==
    LET Q[n \in 0 .. MAX_TRANSFERS] ==
            IF n = 0 THEN [s |-> s, head |-> s.eds[e].head, carry |-> s.eds[e].carry, open |-> TRUE]
            ELSE QueueStep(Q[n - 1], s.eds[e].number, s.eds[e].tail)
    IN  HeadMoved(e, Q[MAX_TRANSFERS])

EndpointStep(w) ==
    IF w.at \notin DOMAIN w.s.eds THEN w
    ELSE LET e == w.s.eds[w.at]
         IN  [s |-> IF e.skip \/ e.halted THEN w.s ELSE RunQueue(w.s, w.at), at |-> e.next]
WalkEndpoints(s, head) ==
    LET W[n \in 0 .. MAX_ENDPOINTS] == IF n = 0 THEN [s |-> s, at |-> head] ELSE EndpointStep(W[n - 1])
    IN  W[MAX_ENDPOINTS].s

WalkList(s, list, head) == IF list \in s.hc.control THEN WalkEndpoints(s, head) ELSE s
ServiceLists(s, slots) ==
    LET slot == IF s.hc.hcca THEN slots[s.hc.frame % PeriodicSlots] ELSE Null
    IN  IF ~s.hc.attached THEN s
        ELSE WalkList(WalkList(WalkList(s, "controlList", s.hc.controlHead), "bulkList", s.hc.bulkHead), "periodic", slot)

\* Mutant: the handover raises nothing.
HandOverUnannounced(s, area) ==
    IF s.hc.delay = 0 /\ area.done = Null /\ s.hc.doneHead # Null /\ s.hc.hcca
    THEN [s |-> [s EXCEPT !.hc = [@ EXCEPT !.delay = NoDelay, !.doneHead = Null]], area |-> [area EXCEPT !.done = s.hc.doneHead]]
    ELSE [s |-> [s EXCEPT !.hc.delay = IF @ > 0 THEN @ - 1 ELSE @], area |-> area]
\* The done queue is handed over when its delay has run out and the driver
\* has taken the one before it.
HandOver(s, area) ==
    IF s.hc.delay = 0 /\ area.done = Null /\ s.hc.doneHead # Null /\ s.hc.hcca
    THEN [s |-> [s EXCEPT !.hc = Raise([@ EXCEPT !.delay = NoDelay, !.doneHead = Null], {"writebackDone"})],
          area |-> [area EXCEPT !.done = s.hc.doneHead]]
    ELSE [s |-> [s EXCEPT !.hc.delay = IF @ > 0 THEN @ - 1 ELSE @], area |-> area]

\* Frames past MaxFrames fold back by whole rounds of the schedule.
Folded(f) == IF f > MaxFrames THEN f - PeriodicSlots ELSE f

AdvanceFrame(s, area) ==
    IF ~Operational(s.hc) THEN [s |-> s, area |-> area]
    ELSE LET counted == [s EXCEPT !.hc = Raise([s.hc EXCEPT !.frame = Folded(s.hc.frame + 1)], {"startOfFrame"})]
             numbered == IF s.hc.hcca THEN [area EXCEPT !.frame = counted.hc.frame] ELSE area
         IN  HandOver(ServiceLists(counted, area.slots), numbered)

-----------------------------------------------------------------------------
(* The emulator: one clock tick, and the frontend's wish for a controller. *)

\* The recorded frame moves with the frames that fold, keeping their distance
\* up to the settling time.
Refolded(ready, before, now) ==
    IF ready = NotReady \/ now >= before THEN ready
    ELSE LET r == ready - PeriodicSlots IN IF now - r > SettleFrames THEN now - SettleFrames ELSE r

AttachWhenReady(h, p, connected) ==
    LET settled == IF p.ready = NotReady THEN h.frame ELSE p.ready
    IN  IF ~p.wanted \/ ~Operational(h) \/ ~connected THEN [hc |-> h, plug |-> p]
        ELSE IF h.frame - settled < SettleFrames THEN [hc |-> h, plug |-> [p EXCEPT !.ready = settled]]
        ELSE [hc |-> SetAttached(h, TRUE), plug |-> [p EXCEPT !.ready = settled, !.wanted = FALSE]]

Tick ==
    \E f \in {AdvanceFrame([hc |-> hc, eds |-> eds, tds |-> tds], hcca)} :
      LET a == AttachWhenReady(f.s.hc, [plug EXCEPT !.ready = Refolded(@, hc.frame, f.s.hc.frame)], driver.connected)
      IN  /\ hc' = a.hc /\ plug' = a.plug
          /\ eds' = f.s.eds /\ tds' = f.s.tds /\ hcca' = f.area
          /\ UNCHANGED driver

AttachGamepad(attached) ==
    /\ driver.plugs < MaxPlugs
    /\ plug' = [plug EXCEPT !.wanted = attached, !.asked = attached]
    /\ hc' = IF attached THEN hc ELSE SetAttached(hc, FALSE)
    /\ driver' = [driver EXCEPT !.plugs = @ + 1]
    /\ UNCHANGED <<eds, tds, hcca>>

-----------------------------------------------------------------------------
(* The title's driver, which is guest code. *)

BlankTransfer ==
    [pid |-> "out", request |-> [name |-> "none", value |-> 0, length |-> 0], length |-> 0, buffer |-> TRUE,
     delay |-> 0, toggle |-> 0, explicit |-> FALSE, next |-> Null, condition |-> "notAccessed", left |-> 0, data |-> NoAnswer]

\* Endpoint 1 is the control endpoint and 2 the interrupt endpoint, each with
\* an empty transfer at its tail; the periodic list may close on itself.
Endpoint(e, n, next) == [number |-> n, skip |-> FALSE, halted |-> FALSE, head |-> e, tail |-> e, carry |-> 0, next |-> next]

DriverInit(circle) ==
    /\ ~Operational(hc)
    /\ eds' = [e \in Endpoints |-> Endpoint(e, e - 1, IF e = 2 THEN circle ELSE Null)]
    /\ tds' = [t \in Transfers |-> BlankTransfer]
    /\ hcca' = [slots |-> [i \in 0 .. PeriodicSlots - 1 |-> IF i = 0 THEN 2 ELSE Null], frame |-> 0, done |-> Null]
    /\ hc' = LET h1 == Write(hc, "HcHCCA", 0, {"area"})
                 h2 == Write(h1, "HcControlHeadED", 1, {})
                 h3 == Write(h2, "HcInterruptEnable", 0, {"writebackDone", "rootHubChange"})
             IN  Write(h3, "HcControl", 0, {"operational", "controlList", "periodic"})
    /\ driver' = [driver EXCEPT !.free = Transfers \ Endpoints, !.queued = 0]
    /\ UNCHANGED plug

DriverConnect ==
    /\ ~driver.connected
    /\ driver' = [driver EXCEPT !.connected = TRUE]
    /\ UNCHANGED <<hc, eds, tds, hcca, plug>>

\* A request fills the transfer at the tail and leaves an empty one behind it.
DriverQueue(r) ==
    /\ Operational(hc) /\ driver.queued < MaxQueued /\ driver.free # {}
    /\ LET tail == eds[r.endpoint].tail
           empty == CHOOSE t \in driver.free : TRUE
       IN  /\ tds' = [tds EXCEPT ![tail] = [BlankTransfer EXCEPT
                        !.pid = r.pid, !.request = r.request, !.length = r.length, !.buffer = r.buffer,
                        !.delay = r.delay, !.toggle = r.toggle, !.explicit = r.explicit, !.next = empty]]
           /\ eds' = [eds EXCEPT ![r.endpoint].tail = empty]
           /\ driver' = [driver EXCEPT !.free = @ \ {empty}, !.queued = @ + 1]
    /\ UNCHANGED <<hc, hcca, plug>>

DriverSkip ==
    /\ Operational(hc) /\ driver.resets < MaxResets
    /\ eds' = [eds EXCEPT ![1].skip = ~@]
    /\ driver' = [driver EXCEPT !.resets = @ + 1]
    /\ UNCHANGED <<hc, tds, hcca, plug>>

DriverPort(i, v) ==
    /\ Operational(hc) /\ driver.resets < MaxResets
    /\ hc' = Write(hc, "HcRhPortStatus", i, v)
    /\ driver' = [driver EXCEPT !.resets = @ + 1]
    /\ UNCHANGED <<eds, tds, hcca, plug>>

\* The transfers on a done queue, in at most as many links as there are
\* transfers, and where the queue ends.
LinkStep(l) == IF l.end \in Transfers THEN [on |-> l.on \cup {l.end}, end |-> tds[l.end].next] ELSE l
DoneQueue(head) ==
    LET L[n \in 0 .. Cardinality(Transfers)] == IF n = 0 THEN [on |-> {}, end |-> head] ELSE LinkStep(L[n - 1])
    IN  L[Cardinality(Transfers)]

\* The interrupt routine acknowledges what it reads, takes the done queue and
\* answers a port change, resetting a device it has not enabled.
DriverIsr ==
    /\ driver.connected /\ InterruptPending(hc)
    /\ LET bits == Read(hc, "HcInterruptStatus", 0)
           port == Read(hc, "HcRhPortStatus", GamepadPort)
           acked == Write(hc, "HcInterruptStatus", 0, bits)
           taken == IF "writebackDone" \in bits THEN DoneQueue(hcca.done).on ELSE {}
           found == "connected" \in port
       IN  /\ hc' = IF "rootHubChange" \in bits
                    THEN Write(acked, "HcRhPortStatus", GamepadPort,
                               (port \cap Changes) \cup (IF found /\ "enabled" \notin port THEN {"setReset"} ELSE {}))
                    ELSE acked
           /\ tds' = [t \in Transfers |-> IF t \in taken THEN BlankTransfer ELSE tds[t]]
           /\ hcca' = IF "writebackDone" \in bits THEN [hcca EXCEPT !.done = Null] ELSE hcca
           /\ driver' = [driver EXCEPT !.free = @ \cup taken, !.heard = IF "rootHubChange" \in bits THEN found ELSE @]
    /\ UNCHANGED <<eds, plug>>

DriverReset ==
    /\ Operational(hc) /\ driver.resets < MaxResets
    /\ hc' = Write(hc, "HcCommandStatus", 0, {"reset"})
    /\ driver' = [driver EXCEPT !.resets = @ + 1, !.heard = FALSE]
    /\ UNCHANGED <<eds, tds, hcca, plug>>

UsbInit ==
    /\ hc = DefaultController
    /\ eds = [e \in Endpoints |-> Endpoint(e, e - 1, Null)]
    /\ tds = [t \in Transfers |-> BlankTransfer]
    /\ hcca = [slots |-> [i \in 0 .. PeriodicSlots - 1 |-> Null], frame |-> 0, done |-> Null]
    /\ plug = [wanted |-> FALSE, asked |-> FALSE, ready |-> NotReady]
    /\ driver = [connected |-> FALSE, heard |-> FALSE, free |-> {}, queued |-> 0, resets |-> 0, plugs |-> 0]

UsbNext ==
    \/ Tick
    \/ \E a \in BOOLEAN : AttachGamepad(a)
    \/ \E c \in {Null, 2} : DriverInit(c)
    \/ DriverConnect \/ DriverIsr \/ DriverReset \/ DriverSkip
    \/ \E r \in Requests : DriverQueue(r)
    \/ \E v \in {{"clearEnable"}, {"setEnable"}, {"setReset"}} : DriverPort(1, v)
UsbSpec == UsbInit /\ [][UsbNext]_usbVars

-----------------------------------------------------------------------------
(* Properties *)

Retired == {t \in Transfers : tds[t].condition = "noError"}

\* No completion is lost: while the controller runs, a retired transfer the
\* driver has not taken is on the done queue or on the one handed over, on
\* one of them only, and both can be walked to their end (complete and the
\* handover of advance_frame).
NoCompletionLost ==
    LET queue == DoneQueue(hc.doneHead)
        handed == DoneQueue(hcca.done)
    IN  Operational(hc) => /\ queue.end = Null /\ handed.end = Null
                           /\ queue.on \cup handed.on = Retired
                           /\ queue.on \cap handed.on = {}

\* A wanted gamepad is announced to the driver and a withdrawn one is too,
\* even when the driver resets its controller in between
\* (attach_gamepad_when_ready, set_attached, reset).
DriverLearns ==
    /\ plug.asked ~> (driver.heard \/ ~plug.asked)
    /\ ~plug.asked ~> (~driver.heard \/ plug.asked)

\* Every completion is reported: a done queue with a transfer that did not
\* ask never to be reported is in the end handed over, and the driver hears
\* of it and takes it (advance_frame and the interrupts it raises).
CompletionReported ==
    /\ (\E t \in DoneQueue(hc.doneHead).on : tds[t].delay # DelayNever) ~> (hc.doneHead = Null)
    /\ (hcca.done # Null) ~> (hcca.done = Null)

====
