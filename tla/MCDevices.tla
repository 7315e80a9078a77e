----------------------------- MODULE MCDevices ------------------------------
(***************************************************************************)
(* The devices, one part per behaviour: the USB host controller with its   *)
(* gamepad and the title's driver, and where the gamepad's state comes     *)
(* from.                                                                   *)
(***************************************************************************)
EXTENDS UsbController, Gamepad

VARIABLE part
devicesVars == <<usbVars, gamepadVars, part>>

Request(endpoint, pid, request, length, buffer, delay, toggle) ==
    [endpoint |-> endpoint, pid |-> pid, request |-> request, length |-> length, buffer |-> buffer, delay |-> delay,
     toggle |-> toggle, explicit |-> toggle = 1]
NoRequest == [name |-> "none", value |-> 0, length |-> 0]
Describe == [name |-> "GET_DESCRIPTOR", value |-> "device", length |-> 18]
Configure == [name |-> "SET_CONFIGURATION", value |-> 1, length |-> 0]
MCRequests ==
    {Request(1, "setup", Describe, 8, TRUE, 7, 0), Request(1, "setup", Configure, 8, TRUE, 2, 0), Request(1, "in", NoRequest, 8, TRUE, 0, 1),
     Request(2, "in", NoRequest, 32, TRUE, 1, 0), Request(1, "setup", Describe, 8, FALSE, 0, 0)}

Pressed(b) == [Rest EXCEPT !.buttons = {b}]
Press(at, b) == [at |-> at, state |-> Pressed(b)]
\* Presses in order, out of order, touching, and held for less than a frame.
MCScripts ==
    {[presses |-> <<Press(1, "START"), Press(4, "UP")>>, hold |-> 2], [presses |-> <<Press(4, "UP"), Press(1, "START")>>, hold |-> 2],
     [presses |-> <<Press(0, "START"), Press(2, "UP")>>, hold |-> 2], [presses |-> <<Press(1, "START")>>, hold |-> 0]}

HostReport(id, long, dpad, held, left, right) ==
    [id |-> id, long |-> long, dpad |-> dpad, held |-> held, triggers |-> <<0, 255>>, left |-> left, right |-> right]
\* At rest, at both ends of the sticks' range, of another kind, and cut short.
MCHostReports ==
    {HostReport(1, TRUE, 8, {}, <<128, 128>>, <<128, 128>>),
     HostReport(1, TRUE, 1, {"CROSS", "OPTIONS"}, <<0, 0>>, <<255, 255>>),
     HostReport(49, TRUE, 4, {"CREATE"}, <<127, 129>>, <<1, 254>>),
     HostReport(1, FALSE, 7, {"CIRCLE"}, <<255, 0>>, <<0, 255>>)}

Interface(opens, described, name) == [opens |-> opens, described |-> described, name |-> name]
MCHostDevices ==
    {<<>>, <<Interface(TRUE, TRUE, "mouse")>>, <<Interface(FALSE, FALSE, "DualSense"), Interface(TRUE, TRUE, "mouse"), Interface(TRUE, TRUE, "DualSense")>>,
     <<Interface(TRUE, FALSE, "mouse"), Interface(TRUE, TRUE, "Edge"), Interface(TRUE, TRUE, "DualSense")>>}

DevicesInit == part \in {"usb", "pad"} /\ UsbInit /\ GamepadInit
DevicesNext ==
    /\ \/ part = "usb" /\ UsbNext /\ UNCHANGED gamepadVars
       \/ part = "pad" /\ GamepadNext /\ UNCHANGED usbVars
    /\ UNCHANGED part

\* Weak fairness of the clock and of taking interrupts, each told by when it
\* can be taken and by the change that it alone makes (a controller reset makes
\* both also, and is bounded); the driver goes on with its start-up; and a
\* controller of the host that was replaced goes on sending reports.
DevicesFair ==
    /\ []<>~(IF part = "usb" THEN Operational(hc) ELSE \E i \in DOMAIN pads : ~pads[i].shared /\ pads[i].reader = "reading")
       \/ []<><<IF part = "usb" THEN hc'.frame # hc.frame ELSE ReplacedReaderReads>>_devicesVars
    /\ []<>~(driver.connected /\ InterruptPending(hc)) \/ []<><<hc.status \ hc'.status # {}>>_devicesVars
    /\ []<>(part = "usb" => driver.connected)
    /\ []<>(part = "usb" => Operational(hc))

DevicesSpec == DevicesInit /\ [][DevicesNext]_devicesVars /\ DevicesFair
=============================================================================
