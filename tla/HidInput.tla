------------------------------ MODULE HidInput ------------------------------
(***************************************************************************)
(* From keyboards and mice to the window thread.  The USB HID task decodes *)
(* reports (KeyboardState, MouseState), the PS/2 interrupts decode bytes,  *)
(* an application shows and hides the pointer, and the window thread takes *)
(* the events: shared key_modifier, the queue system_event, the flags and  *)
(* the semaphore of the window manager, the pointer and its buttons.       *)
(*                                                                         *)
(* Every access to shared state is a step.  Of the two coordinates of the  *)
(* pointer one is modelled; which window is active is in module Windows.   *)
(***************************************************************************)
EXTENDS Integers, Sequences, FiniteSets, SequencesExt

CONSTANTS KPlans,       \* inputs of each actor, in order
          KEvents,      \* capacity of system_event
          KWidth,       \* width of the screen
          Ps2Scan       \* the part of PS2_TO_HID that the inputs use

KActors == {"usb", "irq", "app"}
MOD_MIN == 224
MOD_MAX == 231
DELETE == 76

VARIABLES kIn,          \* the inputs, and how many of them have been taken
          kOps,         \* what each actor has still to do for its last input
          kReport,      \* KeyboardState of the USB keyboard: modifiers and keys
          kE0,          \* Ps2KeyState
          kPhase,       \* mouse_phase, and the bytes kept
          kMouse,       \* MouseState of the mouse of each actor
          kMod,         \* key_modifier
          kQueue,       \* system_event
          kAttr,        \* WindowManagerAttributes
          kSem,         \* sem_event
          kPointer,     \* pointer_x, buttons, buttons_down, buttons_up
          kShown,       \* the pointer window is visible
          kPc,          \* the window thread
          kSeen         \* what the window thread was told

kVars == <<kIn, kOps, kReport, kE0, kPhase, kMouse, kMod, kQueue, kAttr, kSem, kPointer, kShown,
           kPc, kSeen>>

KInit ==
    /\ \E plan \in KPlans : kIn = [a \in KActors |-> [all |-> plan[a], at |-> 0]]
    /\ kOps = [a \in KActors |-> <<>>]
    /\ kReport = [mods |-> {}, keys |-> <<>>] /\ kE0 = FALSE
    /\ kPhase = [at |-> "Ack", lead |-> 0, x |-> 0]
    /\ kMouse = [a \in {"usb", "irq"} |-> [now |-> {}, prev |-> {}]]
    /\ kMod = {} /\ kQueue = <<>> /\ kAttr = {"ENABLED", "VISIBLE"} /\ kSem = 0
    /\ kPointer = [x |-> 0, buttons |-> {}, down |-> {}, up |-> {}]
    /\ kShown = TRUE /\ kPc = "wait"
    /\ kSeen = [held |-> {}, x |-> 0, buttons |-> {}, down |-> {}]

-----------------------------------------------------------------------------
(* Inputs become steps *)

IsMod(u) == u >= MOD_MIN /\ u <= MOD_MAX
Real(u) == u \notin {0, 1}              \* neither NONE nor ERR_ROLL_OVER
Key(u, brk) == <<[op |-> "mod", u |-> u, brk |-> brk], [op |-> "post", u |-> u, brk |-> brk]>>
Keys(us, brk) == FlattenSeq([n \in 1..Len(us) |-> Key(us[n], brk)])

\* KeyboardState::process_report: releases before presses, modifiers before
\* keys.  The loops over the modifiers end before MOD_MAX.
KeyOps(old, new) ==
    LET mods(set) == SelectSeq([n \in 1..7 |-> MOD_MIN + n - 1], LAMBDA u : u \in set)
        gone(a, b) == SelectSeq(a.keys, LAMBDA u : Real(u) /\ u \notin ToSet(b.keys))
    IN Keys(mods(old.mods \ new.mods), TRUE) \o Keys(mods(new.mods \ old.mods), FALSE)
       \o Keys(gone(old, new), TRUE) \o Keys(gone(new, old), FALSE)

\* process_relative_report, process_absolute_report and the posting of the
\* pointer; a step for each shared word.
MouseOps(kind, x, max) ==
    <<[op |-> "buttons"], [op |-> "down"], [op |-> "up"],
      [op |-> kind, x |-> x, max |-> max], [op |-> "moved"]>>

Put(a, ops) == kIn' = [kIn EXCEPT ![a].at = @ + 1] /\ kOps' = [kOps EXCEPT ![a] = ops]

Ready(a) == kPc # "stopped" /\ kOps[a] = <<>> /\ kIn[a].at < Len(kIn[a].all)
NextOf(a) == kIn[a].all[kIn[a].at + 1]

UsbKeys(i) ==
    /\ i.t = "keys"
    /\ Put("usb", KeyOps(kReport, [mods |-> i.mods, keys |-> i.keys]))
    /\ kReport' = [mods |-> i.mods, keys |-> i.keys]
    /\ UNCHANGED kMouse

UsbMouse(i) ==
    /\ i.t \in {"relative", "absolute"}
    /\ kMouse' = [kMouse EXCEPT !["usb"] = [now |-> i.buttons, prev |-> @.now]]
    /\ Put("usb", MouseOps(i.t, i.x, i.max))
    /\ UNCHANGED kReport

UsbReport ==
    /\ Ready("usb")
    /\ UsbKeys(NextOf("usb")) \/ UsbMouse(NextOf("usb"))
    /\ UNCHANGED <<kE0, kPhase, kMod, kQueue, kAttr, kSem, kPointer, kShown, kPc, kSeen>>

\* Mutant: the prefix is kept for the next key.
Ps2KeySticky(b) ==
    IF b = 224 THEN kE0' = TRUE /\ Put("irq", <<>>)
    ELSE LET scan == (b % 128) + (IF kE0 THEN 128 ELSE 0)
         IN kE0' = kE0 /\ Put("irq", Key(Ps2Scan[scan], b >= 128))

\* process_key_data: a prefix is kept, other bytes are a key up or down.
Ps2Key(b) ==
    IF b = 224 THEN kE0' = TRUE /\ Put("irq", <<>>)
    ELSE LET scan == (b % 128) + (IF kE0 THEN 128 ELSE 0)
         IN kE0' = FALSE /\ Put("irq", Key(Ps2Scan[scan], b >= 128))

Bit(b, n) == (b \div 2^n) % 2 = 1

\* A leading byte: ALWAYS_ONE and no overflow.
ValidLead(b) == Bit(b, 3) /\ ~Bit(b, 6) /\ ~Bit(b, 7)

Movement(b, sign) == IF sign THEN b - 256 ELSE b

\* process_mouse_data: an acknowledge, then packets of three bytes.
Ps2Mouse(b) ==
    \/ /\ kPhase.at = "Ack"
       /\ kPhase' = [kPhase EXCEPT !.at = IF b = 250 THEN "Leading" ELSE @]
       /\ Put("irq", <<>>) /\ UNCHANGED kMouse
    \/ /\ kPhase.at = "Leading"
       /\ kPhase' = IF ValidLead(b) THEN [kPhase EXCEPT !.at = "X", !.lead = b] ELSE kPhase
       /\ Put("irq", <<>>) /\ UNCHANGED kMouse
    \/ /\ kPhase.at = "X"
       /\ kPhase' = [kPhase EXCEPT !.at = "Y", !.x = b]
       /\ Put("irq", <<>>) /\ UNCHANGED kMouse
    \/ /\ kPhase.at = "Y"
       /\ kPhase' = [kPhase EXCEPT !.at = "Leading"]
       /\ kMouse' = [kMouse EXCEPT !["irq"] = [now |-> {n \in 0..2 : Bit(kPhase.lead, n)},
                                               prev |-> @.now]]
       /\ Put("irq", MouseOps("relative", Movement(kPhase.x, Bit(kPhase.lead, 4)), 0))

Interrupt ==
    /\ Ready("irq")
    /\ \/ NextOf("irq").t = "key" /\ Ps2Key(NextOf("irq").b) /\ UNCHANGED <<kPhase, kMouse>>
       \/ NextOf("irq").t = "mouse" /\ Ps2Mouse(NextOf("irq").b) /\ UNCHANGED kE0
    /\ UNCHANGED <<kReport, kMod, kQueue, kAttr, kSem, kPointer, kShown, kPc, kSeen>>

\* set_pointer_enabled, set_pointer_visible, hide_pointer_temporarily and
\* set_pointer_states: flags, then the hiding, then the event, which
\* hide_pointer_temporarily leaves out.  set_pointer_states posts the event
\* without the semaphore.
PointerOps(call) ==
    LET hide(on) == IF on THEN <<>> ELSE <<[op |-> "hide"]>>
        event == <<[op |-> "flag", set |-> {"SHOW"}, clear |-> {}], [op |-> "sem"]>>
        flag(name, on, also) == <<[op |-> "flag", set |-> IF on THEN {name} ELSE {},
                                   clear |-> (IF on THEN {} ELSE {name}) \cup also]>>
    IN CASE call.t = "enable" -> flag("ENABLED", call.on, {}) \o hide(call.on) \o event
         [] call.t = "visible" -> flag("VISIBLE", call.on, {"HIDE_TEMP"}) \o hide(call.on) \o event
         [] call.t = "temporarily" -> flag("HIDE_TEMP", TRUE, {}) \o hide(FALSE)
         [] call.t = "states" ->
              <<[op |-> "flag", set |-> call.set, clear |-> {"ENABLED", "VISIBLE", "HIDE_TEMP"} \ call.set]>>
              \o hide(call.set = {"ENABLED", "VISIBLE"}) \o <<Head(event)>>

AppCalls ==
    /\ Ready("app") /\ Put("app", PointerOps(NextOf("app")))
    /\ UNCHANGED <<kReport, kE0, kPhase, kMouse, kMod, kQueue, kAttr, kSem, kPointer, kShown, kPc, kSeen>>

-----------------------------------------------------------------------------
(* The steps *)

Op(a) == Head(kOps[a])
Doing(a, op) == kPc # "stopped" /\ kOps[a] # <<>> /\ Op(a).op = op
Done(a) == kOps' = [kOps EXCEPT ![a] = Tail(@)]
Then(a, ops) == kOps' = [kOps EXCEPT ![a] = ops \o Tail(@)]
Signal(flag) == <<[op |-> "flag", set |-> {flag}, clear |-> {}], [op |-> "sem"]>>

\* post_key_event of the HID manager sets the shared modifier,
SetModifier(a) ==
    /\ Doing(a, "mod")
    /\ kMod' = IF ~IsMod(Op(a).u) THEN kMod
               ELSE IF Op(a).brk THEN kMod \ {Op(a).u} ELSE kMod \cup {Op(a).u}
    /\ Done(a)
    /\ UNCHANGED <<kIn, kReport, kE0, kPhase, kMouse, kQueue, kAttr, kSem, kPointer, kShown, kPc, kSeen>>

Ctrl == {224, 228}
Alt == {226, 230}

\* ... and reads all of them into the event, which goes to the queue; a full
\* queue panics.  Ctrl-alt-del resets the machine.
PostKey(a) ==
    /\ Doing(a, "post")
    /\ IF Op(a).u = DELETE /\ kMod \cap Ctrl # {} /\ kMod \cap Alt # {}
       THEN kPc' = "stopped" /\ UNCHANGED <<kOps, kQueue>>
       ELSE IF Len(kQueue) < KEvents
       THEN /\ kQueue' = Append(kQueue, [u |-> Op(a).u, brk |-> Op(a).brk])
            /\ Then(a, Signal("EVENT")) /\ UNCHANGED kPc
       ELSE kPc' = "stopped" /\ UNCHANGED <<kOps, kQueue>>
    /\ UNCHANGED <<kIn, kReport, kE0, kPhase, kMouse, kMod, kAttr, kSem, kPointer, kShown, kSeen>>

\* _process_buttons: what changed since the last report of this mouse.
Changed(a) == (kMouse[a].now \ kMouse[a].prev) \cup (kMouse[a].prev \ kMouse[a].now)

StepButtons(a) ==
    /\ \E op \in {"buttons", "down", "up"} : Doing(a, op)
    /\ kPointer' = IF Changed(a) = {} THEN kPointer
                   ELSE CASE Op(a).op = "buttons" -> [kPointer EXCEPT !.buttons = kMouse[a].now]
                          [] Op(a).op = "down" -> [kPointer EXCEPT !.down = @ \cup (kMouse[a].now \ kMouse[a].prev)]
                          [] Op(a).op = "up" -> [kPointer EXCEPT !.up = @ \cup (kMouse[a].prev \ kMouse[a].now)]
    /\ Done(a)
    /\ UNCHANGED <<kIn, kReport, kE0, kPhase, kMouse, kMod, kQueue, kAttr, kSem, kShown, kPc, kSeen>>

Clamp(x) == IF x < 0 THEN 0 ELSE IF x > KWidth - 1 THEN KWidth - 1 ELSE x

\* _update_relative_coord, _update_absolute_coord; a range of zero panics.
StepMove(a) ==
    /\ \E op \in {"relative", "absolute"} : Doing(a, op)
    /\ IF Op(a).op = "absolute" /\ Op(a).max = 0
       THEN kPc' = "stopped" /\ UNCHANGED <<kPointer, kOps>>
       ELSE LET x == Clamp(IF Op(a).op = "relative" THEN kPointer.x + Op(a).x
                           ELSE (KWidth * Op(a).x) \div Op(a).max)
            IN /\ kPointer' = [kPointer EXCEPT !.x = x]
               /\ IF x # kPointer.x \/ Changed(a) # {} THEN Done(a)
                  ELSE kOps' = [kOps EXCEPT ![a] = SubSeq(@, 3, Len(@))]
               /\ UNCHANGED kPc
    /\ UNCHANGED <<kIn, kReport, kE0, kPhase, kMouse, kMod, kQueue, kAttr, kSem, kShown, kSeen>>

\* set_pointer_move: a pointer that was hidden for a while is shown again.
StepMoved(a) ==
    /\ Doing(a, "moved")
    /\ kAttr' = (kAttr \ {"HIDE_TEMP"}) \cup (IF "HIDE_TEMP" \in kAttr THEN {"SHOW"} ELSE {})
    /\ Then(a, Signal("MOVE"))
    /\ UNCHANGED <<kIn, kReport, kE0, kPhase, kMouse, kMod, kQueue, kSem, kPointer, kShown, kPc, kSeen>>

StepFlag(a) ==
    /\ Doing(a, "flag")
    /\ kAttr' = (kAttr \cup Op(a).set) \ Op(a).clear
    /\ Done(a)
    /\ UNCHANGED <<kIn, kReport, kE0, kPhase, kMouse, kMod, kQueue, kSem, kPointer, kShown, kPc, kSeen>>

StepSignal(a) ==
    /\ Doing(a, "sem") /\ Done(a)
    /\ kSem' = kSem + 1
    /\ UNCHANGED <<kIn, kReport, kE0, kPhase, kMouse, kMod, kQueue, kAttr, kPointer, kShown, kPc, kSeen>>

StepHide(a) ==
    /\ Doing(a, "hide") /\ Done(a)
    /\ kShown' = FALSE
    /\ UNCHANGED <<kIn, kReport, kE0, kPhase, kMouse, kMod, kQueue, kAttr, kSem, kPointer, kPc, kSeen>>

KStep(a) ==
    \/ SetModifier(a) \/ PostKey(a) \/ StepFlag(a) \/ StepSignal(a) \/ StepHide(a)
    \/ a # "app" /\ (StepButtons(a) \/ StepMove(a) \/ StepMoved(a))

-----------------------------------------------------------------------------
(* The window thread *)

WindowWaits ==
    /\ kPc = "wait" /\ kSem > 0
    /\ kSem' = kSem - 1
    /\ kPc' = IF "EVENT" \in kAttr THEN "keys" ELSE "show"
    /\ kAttr' = kAttr \ {"EVENT"}
    /\ UNCHANGED <<kIn, kOps, kReport, kE0, kPhase, kMouse, kMod, kQueue, kPointer, kShown, kSeen>>

\* Keys are posted to the window until the queue is empty.
WindowKeys ==
    /\ kPc = "keys"
    /\ IF kQueue = <<>> THEN kPc' = "show" /\ UNCHANGED <<kQueue, kSeen>>
       ELSE /\ kQueue' = Tail(kQueue) /\ UNCHANGED kPc
            /\ kSeen' = [kSeen EXCEPT !.held = IF Head(kQueue).brk THEN @ \ {Head(kQueue).u}
                                               ELSE @ \cup {Head(kQueue).u}]
    /\ UNCHANGED <<kIn, kOps, kReport, kE0, kPhase, kMouse, kMod, kAttr, kSem, kPointer, kShown>>

\* EVENT_MOUSE_SHOW: the flags decide, the pointer follows in a step of its own.
WindowShow ==
    /\ kPc = "show"
    /\ kPc' = IF "SHOW" \notin kAttr THEN "mouse"
              ELSE IF {"ENABLED", "VISIBLE"} \subseteq kAttr /\ "HIDE_TEMP" \notin kAttr
              THEN "on" ELSE "off"
    /\ kAttr' = kAttr \ {"SHOW"}
    /\ UNCHANGED <<kIn, kOps, kReport, kE0, kPhase, kMouse, kMod, kQueue, kSem, kPointer, kShown, kSeen>>

WindowShows ==
    /\ kPc \in {"on", "off"}
    /\ kShown' = (kPc = "on") /\ kPc' = "mouse"
    /\ UNCHANGED <<kIn, kOps, kReport, kE0, kPhase, kMouse, kMod, kQueue, kAttr, kSem, kPointer, kSeen>>

\* EVENT_MOUSE_MOVE: the position and the buttons, then the changes, which
\* are taken out in one swap each.
WindowMouse ==
    /\ kPc = "mouse"
    /\ kAttr' = kAttr \ {"MOVE"}
    /\ IF "MOVE" \in kAttr /\ "ENABLED" \in kAttr
       THEN /\ kSeen' = [kSeen EXCEPT !.x = kPointer.x, !.buttons = kPointer.buttons]
            /\ kPc' = "down"
       ELSE kPc' = "wait" /\ UNCHANGED kSeen
    /\ UNCHANGED <<kIn, kOps, kReport, kE0, kPhase, kMouse, kMod, kQueue, kSem, kPointer, kShown>>

WindowDown ==
    /\ kPc = "down" /\ kPc' = "up"
    /\ kPointer' = [kPointer EXCEPT !.down = {}]
    /\ kSeen' = [kSeen EXCEPT !.down = @ \cup kPointer.down]
    /\ UNCHANGED <<kIn, kOps, kReport, kE0, kPhase, kMouse, kMod, kQueue, kAttr, kSem, kShown>>

WindowUp ==
    /\ kPc = "up" /\ kPc' = "wait"
    /\ kPointer' = [kPointer EXCEPT !.up = {}]
    /\ UNCHANGED <<kIn, kOps, kReport, kE0, kPhase, kMouse, kMod, kQueue, kAttr, kSem, kShown, kSeen>>

WindowThread ==
    \/ WindowWaits \/ WindowKeys \/ WindowShow \/ WindowShows \/ WindowMouse \/ WindowDown \/ WindowUp

KNext ==
    \/ UsbReport \/ Interrupt \/ AppCalls
    \/ \E a \in KActors : KStep(a)
    \/ WindowThread

-----------------------------------------------------------------------------
(* Properties *)

KTypeOK ==
    /\ Len(kQueue) <= KEvents /\ kSem \in Nat
    /\ kPointer.x \in 0..(KWidth - 1)
    /\ kMod \subseteq MOD_MIN..MOD_MAX
    /\ kPhase.at \in {"Ack", "Leading", "X", "Y"}
    /\ kPc \in {"wait", "keys", "show", "on", "off", "mouse", "down", "up", "stopped"}

Quiet == /\ kPc = "wait" /\ kSem = 0
         /\ \A a \in KActors : kIn[a].at = Len(kIn[a].all) /\ kOps[a] = <<>>

UsbHeld == (kReport.mods \ {MOD_MAX}) \cup {u \in ToSet(kReport.keys) : Real(u)}

UsbEver == UNION {IF i.t = "keys" THEN i.mods \cup ToSet(i.keys) ELSE {} : i \in ToSet(kIn["usb"].all)}

\* The bytes of a device that were sent, and the key a prefix makes of one.
Sent(a) == SubSeq(kIn[a].all, 1, kIn[a].at)
Ps2Keys == {[n |-> n, u |-> Ps2Scan[(Sent("irq")[n].b % 128)
               + (IF n > 1 /\ Sent("irq")[n - 1] = [t |-> "key", b |-> 224] THEN 128 ELSE 0)],
             brk |-> Sent("irq")[n].b >= 128] :
              n \in {m \in 1..Len(Sent("irq")) : Sent("irq")[m].t = "key" /\ Sent("irq")[m].b # 224}}
Ps2Held == {k.u : k \in {k \in Ps2Keys : ~k.brk /\ ~\E l \in Ps2Keys : l.u = k.u /\ l.n > k.n}}

\* No key sticks: when all events have been taken, the window was told that
\* exactly the keys are held that a keyboard holds, as far as no two keyboards
\* have pressed the same one, and the modifiers are those as well.
HeldKeysAgree ==
    Quiet => LET both == {k.u : k \in Ps2Keys} \cap UsbEver
                 held == UsbHeld \cup Ps2Held
             IN /\ kSeen.held \ both = held \ both /\ kSeen.held \subseteq held
                /\ kMod \ both = {u \in held \ both : IsMod(u)} /\ kMod \subseteq held

\* The bytes of the PS/2 mouse from the packets on; a packet that announces an
\* overflow is not recognised, and its bytes may be taken for another one.
MouseBytes == SelectSeq(Sent("irq"), LAMBDA i : i.t = "mouse")
PacketBytes == SelectSeq(MouseBytes, LAMBDA i : "packet" \in DOMAIN i)
Overflow == \E n \in 1..Len(PacketBytes) : PacketBytes[n].packet = 1 /\ (Bit(PacketBytes[n].b, 6) \/ Bit(PacketBytes[n].b, 7))

\* The phase of the PS/2 mouse is the place in the packet of the device,
\* whatever it sent before its first packet.
Ps2InStep ==
    MouseBytes # <<>> /\ ~Overflow =>
        LET n == Len(PacketBytes) IN
        n > 0 => kPhase.at = <<"X", "Y", "Leading">>[PacketBytes[n].packet]

\* The machine stops for a queue that is full, the keys that reset it, or an
\* absolute mouse without a range.
StopsOnlyAsMeant ==
    kPc = "stopped" => \/ Len(kQueue) = KEvents
                       \/ DELETE \in {Op(a).u : a \in {a \in KActors : kOps[a] # <<>> /\ Op(a).op = "post"}}
                       \/ \E a \in KActors : kOps[a] # <<>> /\ Op(a).op = "absolute" /\ Op(a).max = 0

\* What the mice say has reached the window thread, if the pointer stays
\* enabled: it has the position and the buttons of now, and has been told of
\* every press, however many came between two rounds.
Pressed == UNION {IF "buttons" \in DOMAIN kIn["usb"].all[n] THEN kIn["usb"].all[n].buttons ELSE {} :
                    n \in 1..Len(kIn["usb"].all)}
KeptEnabled == \A n \in 1..Len(kIn["app"].all) : kIn["app"].all[n].t \in {"visible", "temporarily"}
PointerFollowed ==
    KeptEnabled => \/ kPc = "stopped"
                   \/ /\ Quiet /\ kSeen.x = kPointer.x /\ kSeen.buttons = kPointer.buttons
                      /\ Pressed \subseteq kSeen.down /\ kPointer.up = {}

\* Calls that post the event leave the pointer shown or hidden as the flags
\* say, wherever they fall between the steps of the window thread.
PointerShownAsSet ==
    Quiet /\ (\A n \in 1..Len(kIn["app"].all) : kIn["app"].all[n].t \in {"enable", "visible"}) =>
        kShown = ({"ENABLED", "VISIBLE"} \subseteq kAttr /\ "HIDE_TEMP" \notin kAttr)

\* All that keyboards and pointers keep: their types, HeldKeysAgree,
\* Ps2InStep, StopsOnlyAsMeant, PointerShownAsSet.
HidInputInv == KTypeOK /\ HeldKeysAgree /\ Ps2InStep /\ StopsOnlyAsMeant /\ PointerShownAsSet
=============================================================================
