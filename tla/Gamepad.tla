------------------------------ MODULE Gamepad ------------------------------
(***************************************************************************)
(* Where the gamepad's state comes from: a controller of the host read on  *)
(* a thread of its own (hid.rs, LiveGamepad of emulator.rs) and translated *)
(* (dualsense.rs), or a script of presses (gamepad.rs); and the report the *)
(* guest reads it as.                                                      *)
(*                                                                         *)
(* Digital buttons are the set of those pressed. A host report is its      *)
(* identifier, whether it is long enough, and the fields the translation   *)
(* reads; a host interface is whether it opens and describes itself, and   *)
(* which controller it is.                                                 *)
(***************************************************************************)
EXTENDS Integers, Sequences, FiniteSets, FiniteSetsExt, SequencesExt

CONSTANTS
    Scripts,        \* presses a run may be given: records of presses and hold
    HostReports,    \* reports the host's controller sends
    HostDevices,    \* what a device enumeration may list: sequences of interfaces
    MaxOpens,       \* bound: times a run asks for a live controller
    MaxClock        \* bound: frames a run samples

VARIABLES
    script,     \* the scripted input, or NoScript
    pads,       \* the live gamepads ever opened, newest last
    shown,      \* the state the device reports to the guest
    clock       \* the controller's frame

gamepadVars == <<script, pads, shown, clock>>

Digital == <<"UP", "DOWN", "LEFT", "RIGHT", "START", "BACK", "LEFT_STICK", "RIGHT_STICK">>
Analogue == <<"A", "B", "X", "Y", "BLACK", "WHITE", "LEFT_TRIGGER", "RIGHT_TRIGGER">>
Rest == [buttons |-> {}, analogue |-> [a \in Range(Analogue) |-> 0], left |-> <<0, 0>>, right |-> <<0, 0>>]
NoScript == [presses |-> <<>>, hold |-> 0]

-----------------------------------------------------------------------------
(* The report. *)

ButtonBits(pressed) == MapThenSumSet(LAMBDA i : 2 ^ (i - 1), {i \in 1 .. 8 : Digital[i] \in pressed})
LowFirst(n) == LET u == n % 65536 IN <<u % 256, u \div 256>>

Report(p) ==
    <<0, 20>> \o LowFirst(ButtonBits(p.buttons)) \o [i \in 1 .. 8 |-> p.analogue[Analogue[i]]]
        \o LowFirst(p.left[1]) \o LowFirst(p.left[2]) \o LowFirst(p.right[1]) \o LowFirst(p.right[2])

-----------------------------------------------------------------------------
(* The translation of a host controller's report. *)

Clamp(n, lo, hi) == IF n < lo THEN lo ELSE IF n > hi THEN hi ELSE n
Axis(v) == Clamp((v - 128) * 258, -32768, 32767)
\* Mutant: the lowest value has no opposite.
NegateWrapping(n) == IF n = -32768 THEN n ELSE -n
SaturatingNeg(n) == IF n = -32768 THEN 32767 ELSE -n

Direction(position) ==
    CASE position = 0 -> {"UP"} [] position = 1 -> {"UP", "RIGHT"} [] position = 2 -> {"RIGHT"}
      [] position = 3 -> {"DOWN", "RIGHT"} [] position = 4 -> {"DOWN"} [] position = 5 -> {"DOWN", "LEFT"}
      [] position = 6 -> {"LEFT"} [] position = 7 -> {"UP", "LEFT"} [] OTHER -> {}

DigitalOf == [OPTIONS |-> "START", CREATE |-> "BACK", LEFT_STICK |-> "LEFT_STICK", RIGHT_STICK |-> "RIGHT_STICK"]
AnalogueOf == [CROSS |-> "A", CIRCLE |-> "B", SQUARE |-> "X", TRIANGLE |-> "Y", LEFT_SHOULDER |-> "WHITE", RIGHT_SHOULDER |-> "BLACK"]

Recognised(r) == r.id = 1 /\ r.long

Translate(r) ==
    [buttons |-> Direction(r.dpad) \cup {DigitalOf[b] : b \in r.held \cap DOMAIN DigitalOf},
     analogue |-> [a \in Range(Analogue) |->
                      CASE a = "LEFT_TRIGGER" -> r.triggers[1]
                        [] a = "RIGHT_TRIGGER" -> r.triggers[2]
                        [] OTHER -> IF \E b \in r.held \cap DOMAIN AnalogueOf : AnalogueOf[b] = a THEN 255 ELSE 0],
     left |-> <<Axis(r.left[1]), SaturatingNeg(Axis(r.left[2]))>>,
     right |-> <<Axis(r.right[1]), SaturatingNeg(Axis(r.right[2]))>>]

-----------------------------------------------------------------------------
(* The script. *)

\* Steps in the order they were given, stably sorted by frame.
Taps(presses, hold) ==
    FoldLeft(LAMBDA steps, p : steps \o <<p, [at |-> p.at + (IF hold = 0 THEN 1 ELSE hold), state |-> Rest]>>,
             <<[at |-> 0, state |-> Rest]>>, presses)

\* The last step, in sorted order, whose frame has been reached: of the steps
\* of the latest reached frame, the last one given.
Sample(steps, frame) ==
    LET reached == {i \in DOMAIN steps : steps[i].at <= frame}
        latest == Max({steps[i].at : i \in reached})
    IN  IF reached = {} THEN steps[1].state
        ELSE steps[Max({i \in reached : steps[i].at = latest})].state

-----------------------------------------------------------------------------
(* The live controller: the handle, and the thread that reads it. *)

Known == {"DualSense", "Edge", "DualShock4", "DualShock4v2"}

\* The interfaces are tried in turn: one that does not open is passed over,
\* one that is not wanted is closed again. The result is the interface whose
\* handle is kept, and the number of handles left open.
Enumerate(found) ==
    LET match == {i \in DOMAIN found : found[i].opens /\ found[i].described /\ found[i].name \in Known}
    IN  [at |-> IF match = {} THEN 0 ELSE Min(match), open |-> IF match = {} THEN 0 ELSE 1]

Current == pads[Len(pads)]
NoReport == [id |-> 0]    \* history: no report recognised yet
IsLive == pads # <<>> /\ Current.shared

UseLiveGamepad(found) ==
    /\ Len(pads) < MaxOpens
    /\ LET e == Enumerate(found)
           pad == [held |-> Rest, running |-> TRUE, shared |-> TRUE, open |-> e.open, reader |-> "reading", seen |-> {}, last |-> NoReport]
           released == [i \in DOMAIN pads |-> [pads[i] EXCEPT !.running = FALSE, !.shared = FALSE]]
       IN  pads' = IF e.at = 0 THEN pads ELSE Append(released, pad)
    /\ UNCHANGED <<script, shown, clock>>

\* Mutant: the reader does not look whether it should go on.
ReaderUnasked(i, r) ==
    /\ pads[i].reader = "reading"
    /\ LET state == IF Recognised(r) THEN Translate(r) ELSE pads[i].held
       IN  pads' = [pads EXCEPT ![i].held = state, ![i].last = IF Recognised(r) THEN r ELSE @, ![i].seen = @ \cup state.buttons]
    /\ UNCHANGED <<script, shown, clock>>
\* A report arrives at the blocked reader, which publishes what it recognises
\* and goes round: a gamepad that was let go ends the thread and its handle.
ReaderReads(i, r) ==
    /\ pads[i].reader = "reading"
    /\ LET state == IF Recognised(r) THEN Translate(r) ELSE pads[i].held
       IN  pads' = [pads EXCEPT ![i].held = state,
                                ![i].last = IF Recognised(r) THEN r ELSE @,
                                ![i].seen = IF Recognised(r) THEN @ \cup state.buttons ELSE @,
                                ![i].reader = IF pads[i].running THEN @ ELSE "gone",
                                ![i].open = IF pads[i].running THEN @ ELSE 0]
    /\ UNCHANGED <<script, shown, clock>>

ReaderFails(i) ==
    /\ pads[i].reader = "reading"
    /\ pads' = [pads EXCEPT ![i].reader = "gone", ![i].open = 0]
    /\ UNCHANGED <<script, shown, clock>>

SetScriptedInput(s) ==
    /\ script = NoScript /\ script' = s
    /\ UNCHANGED <<pads, shown, clock>>

\* A tick's sample: the live controller's state before the script's. Frames
\* past the bound, by which a script has ended, are not told apart.
SampleGamepad(frames) ==
    /\ clock' = IF clock < frames THEN clock + 1 ELSE clock
    /\ shown' = CASE IsLive -> Current.held
                  [] script # NoScript -> Sample(Taps(script.presses, script.hold), clock')
                  [] OTHER -> shown
    /\ UNCHANGED <<script, pads>>

ReplacedReaderReads == \E i \in DOMAIN pads, r \in HostReports : ~pads[i].shared /\ ReaderReads(i, r)

GamepadNext ==
    \/ \E found \in HostDevices : UseLiveGamepad(found)
    \/ \E i \in DOMAIN pads : (\E r \in HostReports : ReaderReads(i, r)) \/ ReaderFails(i)
    \/ \E s \in Scripts : SetScriptedInput(s)
    \/ SampleGamepad(MaxClock)

GamepadInit == script = NoScript /\ pads = <<>> /\ shown = Rest /\ clock = 0

-----------------------------------------------------------------------------
(* Properties *)

\* The report's own length and what the guest decodes from its twenty bytes
\* are the state it was made from, negative axes included (report).
ReportCarriesState ==
    LET b == Report(shown)
        Signed(at) == LET u == b[at] + 256 * b[at + 1] IN IF u >= 32768 THEN u - 65536 ELSE u
    IN  /\ Len(b) = 20 /\ b[2] = Len(b) /\ Range(b) \subseteq 0 .. 255
        /\ {Digital[i] : i \in {k \in 1 .. 8 : ((b[3] + 256 * b[4]) \div 2 ^ (k - 1)) % 2 = 1}} = shown.buttons
        /\ \A i \in 1 .. 8 : b[4 + i] = shown.analogue[Analogue[i]]
        /\ <<Signed(13), Signed(15)>> = shown.left /\ <<Signed(17), Signed(19)>> = shown.right

\* The state a live gamepad shows follows the last report it recognised: a
\* stick keeps its direction with the vertical axis turned over, at the ends
\* of its range too, a resting one reads exactly zero, and the pad never
\* points two opposite ways (LiveGamepad::open, translate, axis, direction).
TranslationFaithful ==
    \A i \in {k \in DOMAIN pads : pads[k].last # NoReport} :
        LET r == pads[i].last
            t == pads[i].held
            Turn(raw, x, way) == /\ raw = 128 <=> x = 0
                                 /\ raw > 128 => x * way > 0
                                 /\ raw < 128 => x * way < 0
        IN  /\ Turn(r.left[1], t.left[1], 1) /\ Turn(r.left[2], t.left[2], -1)
            /\ Turn(r.right[1], t.right[1], 1) /\ Turn(r.right[2], t.right[2], -1)
            /\ ~({"UP", "DOWN"} \subseteq t.buttons) /\ ~({"LEFT", "RIGHT"} \subseteq t.buttons)

\* A script of presses that do not overlap shows each press for its hold and
\* nothing in between, in whatever order the presses were given (taps,
\* sample).
TapsHeld ==
    LET hold == IF script.hold = 0 THEN 1 ELSE script.hold
        Down(p) == clock \in p.at .. p.at + hold - 1
        apart == \A i, j \in DOMAIN script.presses : i # j => script.presses[i].at \notin script.presses[j].at .. script.presses[j].at + hold
        now == Sample(Taps(script.presses, script.hold), clock)
    IN  script # NoScript /\ apart =>
            \/ \E p \in Range(script.presses) : Down(p) /\ now = p.state
            \/ (\A p \in Range(script.presses) : ~Down(p)) /\ now = Rest

\* A report the translation does not know leaves the last state alone, so
\* what a live gamepad publishes is the last one recognised; and every
\* button it ever showed is remembered (LiveGamepad::open).
PublishesLastRecognised ==
    \A i \in DOMAIN pads :
        /\ pads[i].held = IF pads[i].last = NoReport THEN Rest ELSE Translate(pads[i].last)
        /\ pads[i].held.buttons \subseteq pads[i].seen

\* A controller that was replaced is let go of, though its reader is blocked
\* in a read when it is asked to stop: its next report ends the thread (Drop,
\* LiveGamepad::open).
ReplacedReaderEnds ==
    \A i \in 1 .. MaxOpens : (i \in DOMAIN pads /\ ~pads[i].shared) ~> (i \in DOMAIN pads /\ pads[i].reader = "gone")


\* What the guest reads off the pad is what was pressed, from the host's
\* report or a script to the twenty bytes (the clauses above).
InputFaithful == ReportCarriesState /\ TranslationFaithful /\ TapsHeld /\ PublishesLastRecognised
====
