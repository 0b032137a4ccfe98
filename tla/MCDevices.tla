----------------------------- MODULE MCDevices -----------------------------
(***************************************************************************)
(* The devices on small instances: the xHCI driver, the USB hubs, one USB  *)
(* device, its reports, keyboards and pointers up to the window thread,    *)
(* and sound.  Each behaviour exercises one of them; the others rest in    *)
(* their initial state.                                                    *)
(***************************************************************************)
EXTENDS Xhci, UsbManager, HidReport, HidInput, Audio, TLC

CONSTANTS c1, c2        \* clients of the controller

VARIABLE unit           \* the component that is exercised

-----------------------------------------------------------------------------
(* Requests of the two clients of the controller *)

Cmd == [kind |-> "command"]
Nrm(r) == [kind |-> "normal", ring |-> r]
Ctl(r, data) == [kind |-> "control", ring |-> r, data |-> data]
Requests(p, q) == [c \in {c1, c2} |-> IF c = c1 THEN p ELSE q]
\* A control transfer where an earlier one was, one lap before: what is left of
\* that one is behind its stages, and when it fails is patched for its own.
OnceRound == <<Ctl("a", TRUE), Nrm("a"), Nrm("a"), Nrm("a"), Nrm("a"), Ctl("a", TRUE), Nrm("a")>>
RequestPlans ==
    {Requests(<<Cmd, Cmd>>, <<Cmd>>),
     Requests(<<Ctl("a", TRUE)>>, <<Nrm("b")>>),
     Requests(<<Ctl("a", TRUE), Ctl("a", FALSE)>>, <<>>),
     Requests(<<Ctl("a", FALSE)>>, <<Nrm("a")>>),
     Requests(OnceRound, <<>>)}

-----------------------------------------------------------------------------
(* The root hub is task 0, a hub is in slot 1 with a device in slot 2, and  *)
(* another device of the root hub in slot 3.                                *)

JobAt(k, p) == [kind |-> k, port |-> p]
ParentOf == 0 :> 0 @@ 1 :> 0 @@ 2 :> 1 @@ 3 :> 0
Reads == <<JobAt("transfer", 0)>>
Plug == JobAt("attach", 1)
Jobs(r, a, c, d) == 0 :> r @@ 1 :> a @@ 2 :> c @@ 3 :> d
HubPlans ==
    {Jobs(<<Plug, JobAt("disconnect", 1), Plug>>, <<>>, Reads, Reads),
     Jobs(<<JobAt("quick", 1)>>, <<Plug, JobAt("detach", 1), Plug>>, Reads, <<>>),
     Jobs(<<Plug>>, <<Plug>>, <<>>, <<>>),
     Jobs(<<Plug>>, <<JobAt("detach", 1)>>, <<>>, Reads),
     Jobs(<<JobAt("timeout", 1)>>, <<Plug>>, <<>>, <<>>)}

-----------------------------------------------------------------------------
(* Devices, by what they answer: composite ones with well-formed and odd    *)
(* configurations, hubs with and without an endpoint to listen to.          *)

Desc(t, n) == [type |-> t, no |-> n, broken |-> FALSE]
Broken == [type |-> "other", no |-> 0, broken |-> TRUE]
Dev(speed, packet, bos, class, hid, config, interval) ==
    [speed |-> speed, packet |-> packet, bos |-> bos, class |-> class, hid |-> hid,
     config |-> <<Desc("configuration", 1)>> \o config, interval |-> interval]
SomeDevices ==
    {Dev("FS", 64, FALSE, "composite", {0, 1},
         <<Desc("interface", 0), Desc("hid", 0), Desc("endpoint", 129), Desc("endpoint", 2),
           Desc("interface", 1), Desc("hid", 0), Desc("endpoint", 130)>>, 10),
     Dev("LS", 8, FALSE, "composite", {0, 2},
         <<Desc("interface", 0), Desc("endpoint", 1), Desc("interface", 1), Desc("interface", 1),
           Desc("endpoint", 131), Desc("other", 0), Desc("interface", 2), Desc("endpoint", 132),
           Broken, Desc("endpoint", 133)>>, 200),
     Dev("HS", 64, FALSE, "hub", {}, <<Desc("interface", 0), Desc("endpoint", 129)>>, 12),
     Dev("HS", 64, FALSE, "hub", {}, <<Desc("interface", 0)>>, 12),
     Dev("SS", 512, TRUE, "hub", {}, <<Desc("endpoint", 129), Desc("interface", 0)>>, 8),
     Dev("SS", 512, TRUE, "other", {}, <<Desc("interface", 0), Desc("endpoint", 0)>>, 1),
     Dev("FS", 8, FALSE, "composite", {0}, <<Desc("hid", 0), Desc("endpoint", 129)>>, 1),
     [Dev("LS", 8, FALSE, "composite", {0}, <<>>, 255)
        EXCEPT !.config = <<Desc("interface", 0), Desc("endpoint", 129)>>]}

-----------------------------------------------------------------------------
(* Report descriptors and reports: a boot keyboard, a mouse, a mouse and    *)
(* media keys told apart by their id with a saved global state, a tablet,   *)
(* fields whose usages do not share out evenly, a field across five bytes,  *)
(* and descriptors that end in each of the errors.                          *)

Descriptors == [
    keyboard |-> <<5,1,9,6,161,1,5,7,25,224,41,231,21,0,37,1,117,1,149,8,129,2,149,1,117,8,129,1,
                   149,5,117,1,5,8,25,1,41,5,145,2,149,1,117,3,145,1,149,6,117,8,21,0,37,101,5,7,
                   25,0,41,101,129,0,192>>,
    mouse |-> <<5,1,9,2,161,1,9,1,161,0,5,9,25,1,41,3,21,0,37,1,149,3,117,1,129,2,149,1,117,5,
                129,1,5,1,9,48,9,49,9,56,21,129,37,127,117,8,149,3,129,6,192,192>>,
    tagged |-> <<5,1,9,2,161,1,133,1,164,5,9,25,1,41,5,149,5,117,1,129,2,149,1,117,3,129,3,180,
                 5,1,38,255,7,117,12,149,2,9,48,9,49,129,6,117,8,149,1,9,56,129,6,192,5,12,9,1,
                 161,1,133,2,117,1,149,2,9,205,9,181,129,2,149,6,129,1,192>>,
    tablet |-> <<5,1,9,2,161,1,5,9,25,1,41,2,149,2,117,1,129,2,149,1,117,6,129,1,5,1,38,255,127,
                 117,16,149,1,9,48,129,2,9,49,129,2,192>>,
    uneven |-> <<5,1,9,2,161,1,5,9,9,1,9,2,117,1,149,3,129,2,117,5,149,1,129,1,254,2,112,0,0,
                 5,1,9,48,9,49,117,8,149,2,129,6,192>>,
    wide |-> <<5,1,9,2,161,1,117,4,149,1,129,1,5,1,9,48,117,30,149,1,129,6,192>>,
    popped |-> <<5,1,180>>, ended |-> <<5,1,192>>, short |-> <<5,1,38,1>>, long |-> <<254,9,4>>,
    unknown |-> <<5,1,112,1>>, delimiter |-> <<9,2,169,1>>, kind |-> <<161,9>>]
SomeReports == [
    keyboard |-> {<<0,0,0,0,0,0,0,0>>, <<130,0,4,5,6,7,8,231>>, <<1,0,4>>},
    mouse |-> {<<5,255,127,128>>, <<0,1,2,3>>, <<2,128,0>>},
    tagged |-> {<<1,21,255,247,127,254>>, <<1,0,1,128,255,1>>, <<2,1>>, <<2,2>>, <<3,0>>, <<0>>},
    tablet |-> {<<3,255,127,1,2>>, <<0,0,0,0,64>>},
    uneven |-> {<<7,1,2>>, <<0,255,3>>},
    wide |-> {<<16,0,0,0,0>>, <<0,0,0,0,1>>},
    popped |-> {}, ended |-> {}, short |-> {}, long |-> {}, unknown |-> {}, delimiter |-> {},
    kind |-> {}]

-----------------------------------------------------------------------------
(* Inputs of a USB device, of the PS/2 controller and calls of programs     *)

KeysIn(mods, keys) == [t |-> "keys", mods |-> mods, keys |-> keys]
RelativeIn(b, x) == [t |-> "relative", buttons |-> b, x |-> x, max |-> 0]
AbsoluteIn(b, x, max) == [t |-> "absolute", buttons |-> b, x |-> x, max |-> max]
KeyByte(b) == [t |-> "key", b |-> b]
Answer(b) == [t |-> "mouse", b |-> b]
Packet(b, n) == [t |-> "mouse", b |-> b, packet |-> n]
SetVisible(on) == [t |-> "visible", on |-> on]
Inputs(u, i, a) == [usb |-> u, irq |-> i, app |-> a]
InputPlans ==
    {Inputs(<<KeysIn({225}, <<4>>), KeysIn({225, 231}, <<1,1>>), KeysIn({}, <<5, 4>>), KeysIn({}, <<>>)>>,
            <<>>, <<>>),
     Inputs(<<KeysIn({225}, <<5>>), KeysIn({}, <<>>)>>,
            <<KeyByte(30), KeyByte(224), KeyByte(29), KeyByte(158)>>, <<>>),
     Inputs(<<KeysIn({224, 226}, <<76>>)>>, <<KeyByte(224), KeyByte(83)>>, <<>>),
     Inputs(<<RelativeIn({0}, 2), RelativeIn({1}, -5), RelativeIn({}, 9)>>, <<>>,
            <<[t |-> "temporarily"], SetVisible(TRUE)>>),
     Inputs(<<AbsoluteIn({0}, 5, 10), AbsoluteIn({}, 9, 0)>>, <<>>,
            <<[t |-> "enable", on |-> FALSE], [t |-> "enable", on |-> TRUE]>>),
     Inputs(<<>>, <<Answer(170), Answer(250), Answer(170), Answer(0), Answer(250), Answer(250),
                    Packet(9,1), Packet(3,2), Packet(250,3), Packet(24,1), Packet(254,2), Packet(9,3)>>,
            <<SetVisible(FALSE), SetVisible(TRUE)>>),
     Inputs(<<>>, <<Answer(250), Packet(72,1), Packet(8,2), Packet(1,3), Packet(8,1), Packet(0,2), Packet(0,3)>>,
            <<[t |-> "states", set |-> {"ENABLED"}], [t |-> "states", set |-> {"ENABLED", "VISIBLE"}]>>)}
ScanCodes == 0 :> 0 @@ 29 :> 224 @@ 30 :> 4 @@ 83 :> 99 @@ 157 :> 228 @@ 158 :> 0 @@ 211 :> 76

-----------------------------------------------------------------------------
(* Codecs: two jacks, and a mixer with a list of connections that takes two *)
(* answers; a jack that leads nowhere; jacks that nothing is plugged into;  *)
(* no output at all; and one that is too far from its converter.  Programs  *)
(* that beep.                                                               *)

PinAs(out, device, wired) == [out |-> out, device |-> device, seq |-> 0, wired |-> wired]
Widget(type, pin, conns) == [type |-> type, pin |-> pin, conns |-> conns, count |-> Len(conns)]
Dac == Widget("output", PinAs(FALSE, "", FALSE), <<>>)
Mixer(conns) == Widget("mixer", PinAs(FALSE, "", FALSE), conns)
Jack(device, wired, conns) == Widget("pin", PinAs(TRUE, device, wired), conns)
Microphone == Widget("pin", PinAs(FALSE, "MicIn", TRUE), <<>>)
Codec(widgets) == [groups |-> <<1>>, below |-> 1 :> [k \in 1..Len(widgets) |-> k + 1],
                   widgets |-> [n \in 2..(Len(widgets) + 1) |-> widgets[n - 1]]]
SomeCodecs ==
    {Codec(<<Dac, Mixer(<<2, 5, 6>>), Jack("Speaker", TRUE, <<3>>), Jack("HPOut", FALSE, <<2>>), Microphone>>),
     Codec(<<Jack("LineOut", FALSE, <<>>)>>),
     Codec(<<Dac, Jack("DigitalOtherOut", FALSE, <<2>>), Jack("Speaker", FALSE, <<2>>)>>),
     Codec(<<Dac, Microphone>>),
     Codec(<<Dac, Mixer(<<2>>), Mixer(<<3>>), Jack("Speaker", TRUE, <<4>>)>>)}
BeepPlans == {[plan |-> <<"beep", "beep", "drop">>, do |-> <<>>], [plan |-> <<"beep", "quiet">>, do |-> <<>>]}

-----------------------------------------------------------------------------
(* One component at a time *)

Rests(name, same) == unit = name \/ same
MCInit ==
    /\ unit \in {"xhci", "hubs", "device", "report", "input", "audio"}
    /\ XInit /\ Rests("xhci", xClient[c1].plan = <<Cmd, Cmd>>)
    /\ UInit /\ Rests("hubs", [t \in UTasks |-> uTask[t].jobs] = Jobs(<<Plug>>, <<Plug>>, <<>>, <<>>))
    /\ EInit /\ Rests("device", eDev.class = "other")
    /\ HInit /\ Rests("report", hDesc = "mouse")
    /\ KInit /\ Rests("input", kIn["irq"].all = <<KeyByte(224), KeyByte(83)>>)
    /\ AuInit /\ Rests("audio", DOMAIN auCodec.widgets = {2} /\ auImmediate /\ Len(auApp.plan) = 2)

MCNext ==
    \/ unit = "xhci" /\ XNext /\ UNCHANGED <<unit, uVars, eVars, hVars, kVars, auVars>>
    \/ unit = "hubs" /\ UNext /\ UNCHANGED <<unit, xVars, eVars, hVars, kVars, auVars>>
    \/ unit = "device" /\ ENext /\ UNCHANGED <<unit, xVars, uVars, hVars, kVars, auVars>>
    \/ unit = "report" /\ HNext /\ UNCHANGED <<unit, xVars, uVars, eVars, kVars, auVars>>
    \/ unit = "input" /\ KNext /\ UNCHANGED <<unit, xVars, uVars, eVars, hVars, auVars>>
    \/ unit = "audio" /\ AudioNext /\ UNCHANGED <<unit, xVars, uVars, eVars, hVars, kVars>>

\* The controller follows its rings and interrupts are taken; the executor
\* polls every task whose waker was called, a transfer ends with success or an
\* error, and every thread that can run is scheduled.  The audio thread looks
\* for room every millisecond, and the stream stays in a block for 23 of them.
MCFairness ==
    /\ \A c \in XClients : WF_xVars(unit = "xhci" /\ XClientStep(c))
    /\ \A r \in Rings : WF_xVars(unit = "xhci" /\ HcConsume(r))
    /\ WF_xVars(unit = "xhci" /\ MsiHandler) /\ WF_xVars(unit = "xhci" /\ EventThread)
    /\ WF_uVars(unit = "hubs" /\ TakeBatch) /\ WF_uVars(unit = "hubs" /\ SchedulerStep)
    /\ \A t \in UTasks : WF_uVars(unit = "hubs" /\ UTaskStep(t))
    /\ WF_eVars(unit = "device" /\ (Address \/ (\E ok \in BOOLEAN : EAnswer(ok)) \/ ParseDescriptor \/ StartTasks))
    /\ WF_kVars(unit = "input" /\ UsbReport) /\ WF_kVars(unit = "input" /\ Interrupt)
    /\ WF_kVars(unit = "input" /\ AppCalls) /\ WF_kVars(unit = "input" /\ WindowThread)
    /\ \A a \in KActors : WF_kVars(unit = "input" /\ KStep(a))
    /\ WF_auVars(unit = "audio" /\ AuCodecStep) /\ WF_auVars(unit = "audio" /\ AuThread)
    /\ WF_auVars(unit = "audio" /\ PlayNext) /\ WF_auVars(unit = "audio" /\ AuProgram)
    /\ SF_auVars(unit = "audio" /\ WriteBlock)

MCSpec == MCInit /\ [][MCNext]_<<unit, xVars, uVars, eVars, hVars, kVars, auVars>> /\ MCFairness

\* What the descriptors of a USB device are read as: the enumeration of the
\* device (see UsbManager), and its reports (see HidReport).
DescriptorsInv == UsbDeviceInv /\ HidReportInv

\* What devices and drivers get to, again and again: every request for the
\* controller is answered (execute_command, control_async), every doorbell that
\* was asked for has rung, the enumeration of a device is over, and the window
\* thread has the pointer's last position and buttons, and all blocks of sound
\* have been played.
DevicesProgress ==
    []<>(/\ unit = "xhci" => RequestsAnswered
         /\ unit = "hubs" => BellsRung
         /\ unit = "device" => Enumerated
         /\ unit = "input" => PointerFollowed
         /\ unit = "audio" => SoundHeard)
=============================================================================
