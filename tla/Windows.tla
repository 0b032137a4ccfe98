------------------------------ MODULE Windows -------------------------------
(***************************************************************************)
(* The window manager: the pool of windows, their order on the screen, the *)
(* active and the captured window, messages, and what is on the screen.    *)
(* The window thread and one thread per application run at the same time;  *)
(* the locks of the pool and of the order are taken where the code does.   *)
(*                                                                         *)
(* The screen is a row of cells.  A window is a row of parts ("title",     *)
(* "close", "back", "content") at its origin; a picture is the name of the *)
(* window that is seen in a cell.  Each thread has a list of steps that it *)
(* has still to do, one for each critical section or shared word.          *)
(***************************************************************************)
EXTENDS Integers, Sequences, FiniteSets, SequencesExt, FiniteSetsExt

CONSTANTS WSpec,        \* windows: level, at, parts, pinch, suspended, floating and queue
          WPlans,       \* what the user and the applications do
          WCells,       \* width of the screen
          WInset,       \* insets of the screen at both ends
          WQueue,       \* size of a message queue
          WCenter,      \* the position that asks for the middle, isize::MIN
          WNone

WRoot == "root"
Wins == DOMAIN WSpec
Owners == {w \in Wins : WSpec[w].queue}
WActors == {"wm"} \cup Owners
NORMAL == 32
FLOATING == 64
Screen == 0..(WCells - 1)

VARIABLES wPool,        \* window_pool
          wOrders,      \* window_orders, the foremost last
          wOrigin,      \* origin of the frames
          wVisible,     \* windows with VISIBLE
          wActive, wCaptured,
          wHold,        \* MOVING, CLOSE_DOWN, BACK_DOWN
          wGrip,        \* captured_offset, and the part that was pressed
          wMail,        \* queue, NEEDS_REDRAW and semaphore of the windows
          wInput,       \* pointer, buttons, keys and events of the window manager
          wDirty,       \* update_coords
          wPhase,       \* where the window thread is
          wOps,         \* what each thread has still to do
          wReading,     \* how often each thread holds the pool for reading
          wLock,        \* who holds the order for writing
          wPlan,        \* what the user and the applications will do
          wScreen,      \* what is seen
          wStop,        \* why the kernel has stopped
          wRaced        \* races that happened
wVars == <<wPool, wOrders, wOrigin, wVisible, wActive, wCaptured, wHold, wGrip, wMail, wInput,
           wDirty, wPhase, wOps, wReading, wLock, wPlan, wScreen, wStop, wRaced>>
wDesk == <<wPool, wOrders, wOrigin, wVisible>>
wFocus == <<wActive, wCaptured, wHold, wGrip>>
wLocks == <<wReading, wLock>>
wView == <<wDirty, wScreen>>

Frame(w, at) == IF w = WRoot THEN Screen ELSE at..(at + Len(WSpec[w].parts) - 1)
CellsOf(w) == Frame(w, wOrigin[w])

\* The window that is seen in a cell; none while the desktop is put back.
Top(c) ==
    LET over == {n \in 1..Len(wOrders) : c \in CellsOf(wOrders[n])}
    IN IF over = {} THEN WNone ELSE wOrders[Max(over)]

\* build_inner: a floating window is above the normal ones.
Level(w) == IF WSpec[w].floating /\ WSpec[w].level <= NORMAL THEN FLOATING ELSE WSpec[w].level

\* Where a window is put: in the middle, counted from the end, or as asked.
PlaceOf(w) ==
    LET end == WCells - WInset
        middle == (end - Len(WSpec[w].parts)) \div 2
    IN CASE WSpec[w].at = WCenter -> IF WInset > middle THEN WInset ELSE middle
         [] WSpec[w].at # WCenter /\ WSpec[w].at < 0 -> WSpec[w].at + end
         [] OTHER -> WSpec[w].at

\* A new window has no messages.
Fresh == [q |-> <<>>, draw |-> FALSE, sem |-> 0, waits |-> FALSE]

\* The desktop and the pointer are there, and the windows that the plan has open.
WInit ==
    /\ wPlan \in WPlans
    /\ wPool = (Wins \ Owners) \cup ToSet(wPlan.open)
    /\ wOrders = <<WRoot>> \o wPlan.open \o <<"pointer">> /\ wVisible = ToSet(wOrders)
    /\ wOrigin = [w \in Wins |-> PlaceOf(w)]
    /\ wActive = (IF wPlan.open = <<>> THEN WNone ELSE Last(wPlan.open))
    /\ wCaptured = WNone /\ wHold = {} /\ wGrip = [offset |-> 0, part |-> "none"]
    /\ wMail = [w \in Wins |-> Fresh]
    /\ wInput = [x |-> 0, held |-> FALSE, down |-> FALSE, up |-> FALSE, moved |-> FALSE,
                 keys |-> <<>>]
    /\ wDirty = [cells |-> {}, event |-> FALSE] /\ wPhase = "keys"
    /\ wOps = [a \in WActors |-> <<>>] /\ wReading = [a \in WActors |-> 0] /\ wLock = WNone
    /\ wScreen = [c \in Screen |-> Top(c)] /\ wStop = "" /\ wRaced = {}

-----------------------------------------------------------------------------
(* Steps of the operations *)

\* WindowManager::update; n is how many steps an absent window leaves out.
Enter(w, n) == [op |-> "enter", w |-> w, n |-> n]
Must == 0
Leave == [op |-> "leave"]
WOp(name, w) == [op |-> name, w |-> w]

\* RawWindow::show: add_hierarchy takes the window out and puts it back.
Show(w) == <<Enter(w, Must), WOp("fade", w), WOp("unlink", w), WOp("link", w), WOp("paint", w), Leave>>

\* A part of a window is drawn again if the window is visible.
Refresh(w, n) == <<Enter(w, n), WOp("repaint", w), Leave>>

SetActive(w) == <<WOp("active", w)>>

\* Mutant: the place of a hidden window is not drawn.
HideQuietly(w) == <<WOp("next", w), WOp("uncapture", w), WOp("fade", w), WOp("unlink", w),
                    [op |-> "invalidate", cells |-> {}]>>

\* RawWindow::hide; "next" finds the window that is to be active then.
Hide(w) == <<WOp("next", w), WOp("uncapture", w), WOp("fade", w), WOp("unlink", w),
             [op |-> "invalidate", cells |-> CellsOf(w)]>>

\* WindowManager::remove.
Close(w) == <<WOp("ref", w)>> \o Hide(w) \o <<[op |-> "lock"], WOp("drop", w), [op |-> "unlock"]>>

\* make_mouse_events.
Events(w, i) ==
    LET post(m) == [op |-> "post", w |-> w, m |-> m]
    IN <<WOp("ref", w)>> \o
       (IF ~i.down /\ ~i.up THEN <<post("Move")>>
        ELSE (IF i.down THEN <<post("Down")>> ELSE <<>>) \o (IF i.up THEN <<post("Up")>> ELSE <<>>))

\* RawWindow::test_frame for a part of the title.
PartAt(w, x) ==
    IF w # WRoot /\ x \in CellsOf(w) THEN WSpec[w].parts[x - wOrigin[w] + 1] ELSE "none"

Running == wStop = ""
Head1(a) == Running /\ wOps[a] # <<>>
Does(a, name) == Head1(a) /\ Head(wOps[a]).op = name
Instead(a, ops) == wOps' = [wOps EXCEPT ![a] = ops \o Tail(@)]
Instead1(a) == Instead(a, <<>>)
Halt(why) == wStop' = why
OrdersFree == wLock = WNone
Ghosts == ToSet(wOrders) \ wPool

-----------------------------------------------------------------------------
(* Messages *)

\* Mutant: the reader is not told.
DeliverSilently(mail, w, m) ==
    IF m = "Draw" THEN [mail EXCEPT ![w].draw = TRUE, ![w].sem = @ + 1]
    ELSE [mail EXCEPT ![w].q = Append(@, m)]

Deliver(mail, w, m) ==
    IF m = "Draw" THEN [mail EXCEPT ![w].draw = TRUE, ![w].sem = @ + 1]
    ELSE [mail EXCEPT ![w].q = Append(@, m), ![w].sem = @ + 1]

\* WindowHandle::post; a window without a queue has no messages.
CanPost(w, m) == w \in wPool \cap Owners /\ (m = "Draw" \/ Len(wMail[w].q) < WQueue)

\* A key that cannot be posted stops the kernel, other messages are dropped.
WPost(a) ==
    /\ Does(a, "post")
    /\ LET o == Head(wOps[a])
       IN /\ wMail' = IF CanPost(o.w, o.m) THEN Deliver(wMail, o.w, o.m) ELSE wMail
          /\ wStop' = IF o.m = "Key" /\ ~CanPost(o.w, o.m) THEN "key" ELSE ""
    /\ Instead1(a)
    /\ UNCHANGED <<wDesk, wFocus, wInput, wPhase, wLocks, wPlan, wView, wRaced>>

-----------------------------------------------------------------------------
(* The pool and the order *)

\* as_ref unwraps.
WRef(a) ==
    /\ Does(a, "ref")
    /\ wStop' = IF Head(wOps[a]).w \in wPool THEN "" ELSE "gone"
    /\ Instead1(a)
    /\ UNCHANGED <<wDesk, wFocus, wMail, wInput, wPhase, wLocks, wPlan, wView, wRaced>>

\* update_opt goes on without the window, update unwraps.
WEnter(a) ==
    /\ Does(a, "enter")
    /\ LET o == Head(wOps[a])
       IN \/ /\ o.w \in wPool
             /\ wReading' = [wReading EXCEPT ![a] = @ + 1]
             /\ Instead1(a) /\ UNCHANGED wStop
          \/ /\ o.w \notin wPool /\ UNCHANGED wReading
             /\ wOps' = [wOps EXCEPT ![a] = SubSeq(@, o.n + 2, Len(@))]
             /\ wStop' = IF o.n = Must THEN "gone" ELSE ""
    /\ UNCHANGED <<wDesk, wFocus, wMail, wInput, wPhase, wLock, wPlan, wView, wRaced>>

WLeave(a) ==
    /\ Does(a, "leave") /\ Instead1(a)
    /\ wReading' = [wReading EXCEPT ![a] = @ - 1]
    /\ UNCHANGED <<wDesk, wFocus, wMail, wInput, wPhase, wLock, wPlan, wView, wStop, wRaced>>

\* remove_hierarchy: VISIBLE goes first.
WFade(a) ==
    /\ Does(a, "fade") /\ Instead1(a)
    /\ LET w == Head(wOps[a]).w
       IN /\ wVisible' = IF w \in wPool THEN wVisible \ {w} ELSE wVisible
          /\ wRaced' = IF \E b \in WActors \ {a} : /\ wOps[b] # <<>>
                                                  /\ Head(wOps[b]) \in {WOp("unlink", w), WOp("link", w)}
                       THEN wRaced \cup {"both"} ELSE wRaced
    /\ UNCHANGED <<wPool, wOrders, wOrigin, wFocus, wMail, wInput, wPhase, wLocks, wPlan, wView,
                   wStop>>

\* The first entry of the window is taken out.
WUnlink(a) ==
    /\ Does(a, "unlink") /\ OrdersFree /\ Instead1(a)
    /\ LET w == Head(wOps[a]).w
       IN wOrders' = IF w \in wPool THEN RemoveFirst(wOrders, w) ELSE wOrders
    /\ UNCHANGED <<wPool, wOrigin, wVisible, wFocus, wMail, wInput, wPhase, wLocks, wPlan, wView,
                   wStop, wRaced>>

\* Before the first window of a higher level.
Place(w) ==
    LET later == {n \in 1..Len(wOrders) : Level(wOrders[n]) > Level(w)}
    IN IF later = {} THEN Len(wOrders) + 1 ELSE Min(later)

\* add_hierarchy, after remove_hierarchy has let the order go.
WLink(a) ==
    /\ Does(a, "link") /\ OrdersFree /\ Instead1(a)
    /\ LET w == Head(wOps[a]).w
       IN \/ /\ Ghosts = {}
             /\ wOrders' = InsertAt(wOrders, Place(w), w)
             /\ wVisible' = wVisible \cup {w}
             /\ wRaced' = IF \E b \in WActors \ {a} : WOp("drop", w) \in ToSet(wOps[b])
                          THEN wRaced \cup {"late"} ELSE wRaced
             /\ UNCHANGED wStop
          \/ Ghosts # {} /\ Halt("ghost") /\ UNCHANGED <<wOrders, wVisible, wRaced>>
    /\ UNCHANGED <<wPool, wOrigin, wFocus, wMail, wInput, wPhase, wLocks, wPlan, wView>>

\* WindowManager::remove holds the order while it waits for the pool.
WLockOrders(a) ==
    /\ Does(a, "lock") /\ OrdersFree /\ Instead1(a)
    /\ wLock' = a
    /\ UNCHANGED <<wDesk, wFocus, wMail, wInput, wPhase, wReading, wPlan, wView, wStop, wRaced>>

PoolFree == \A b \in WActors : wReading[b] = 0

WDrop(a) ==
    /\ Does(a, "drop") /\ PoolFree /\ Instead1(a)
    /\ wPool' = wPool \ {Head(wOps[a]).w}
    /\ UNCHANGED <<wOrders, wOrigin, wVisible, wFocus, wMail, wInput, wPhase, wLocks, wPlan, wView,
                   wStop, wRaced>>

WUnlockOrders(a) ==
    /\ Does(a, "unlock") /\ Instead1(a)
    /\ wLock' = WNone
    /\ UNCHANGED <<wDesk, wFocus, wMail, wInput, wPhase, wReading, wPlan, wView, wStop, wRaced>>

-----------------------------------------------------------------------------
(* Focus *)

\* set_active: the old window is told before, the new one after the change.
WActivate(a) ==
    /\ Does(a, "active")
    /\ LET w == Head(wOps[a]).w
           become == <<WOp("become", w)>>
           old == wActive
       IN Instead(a, (IF old = WNone THEN become
                      ELSE <<[op |-> "post", w |-> old, m |-> "Deactivated"]>> \o become
                           \o Refresh(old, 2))
                     \o <<[op |-> "post", w |-> w, m |-> "Activated"]>> \o Show(w))
    /\ UNCHANGED <<wDesk, wFocus, wMail, wInput, wPhase, wLocks, wPlan, wView, wStop, wRaced>>

WBecome(a) ==
    /\ Does(a, "become") /\ Instead1(a)
    /\ wActive' = Head(wOps[a]).w
    /\ UNCHANGED <<wDesk, wCaptured, wHold, wGrip, wMail, wInput, wPhase, wLocks, wPlan, wView,
                   wStop, wRaced>>

\* Of an active window that is hidden, the one below it becomes active when
\* the place has been invalidated.
WNext(a) ==
    /\ Does(a, "next")
    /\ LET w == Head(wOps[a]).w
           at == {n \in 2..Len(wOrders) : wOrders[n] = w}
           found == wActive = w /\ at # {}
           rest == Tail(wOps[a])
       IN /\ wActive = w => OrdersFree
          /\ wOps' = [wOps EXCEPT ![a] =
                 IF found THEN SubSeq(rest, 1, 4) \o SetActive(wOrders[Min(at) - 1])
                               \o SubSeq(rest, 5, Len(rest))
                 ELSE rest]
    /\ UNCHANGED <<wDesk, wFocus, wMail, wInput, wPhase, wLocks, wPlan, wView, wStop, wRaced>>

\* captured is reset; the flags of the press stay.
WUncapture(a) ==
    /\ Does(a, "uncapture") /\ Instead1(a)
    /\ wCaptured' = IF wCaptured = Head(wOps[a]).w THEN WNone ELSE wCaptured
    /\ UNCHANGED <<wDesk, wActive, wHold, wGrip, wMail, wInput, wPhase, wLocks, wPlan, wView,
                   wStop, wRaced>>

-----------------------------------------------------------------------------
(* The screen *)

Hull(cells) == IF cells = {} THEN {} ELSE Min(cells)..Max(cells)

\* invalidate_screen.
WInvalidate(a) ==
    /\ Does(a, "invalidate") /\ Instead1(a)
    /\ wDirty' = [cells |-> Hull(wDirty.cells \cup Head(wOps[a]).cells), event |-> TRUE]
    /\ UNCHANGED <<wDesk, wFocus, wMail, wInput, wPhase, wLocks, wPlan, wScreen, wStop, wRaced>>

\* draw_into: the windows are put together while the order is held.
WPaint(a) ==
    /\ Does(a, "paint") \/ Does(a, "repaint") \/ Does(a, "redraw")
    /\ LET o == Head(wOps[a])
           cells == Screen \cap IF o.op = "redraw" THEN o.cells ELSE CellsOf(o.w)
       IN \/ /\ o.op = "repaint" /\ o.w \notin wVisible
             /\ Instead1(a) /\ UNCHANGED wStop
          \/ /\ o.op = "repaint" => o.w \in wVisible
             /\ OrdersFree
             /\ IF Ghosts = {}
                THEN /\ Instead(a, <<[op |-> "blt", picture |-> [c \in cells |-> Top(c)]]>>)
                     /\ UNCHANGED wStop
                ELSE Halt("ghost") /\ Instead1(a)
    /\ UNCHANGED <<wDesk, wFocus, wMail, wInput, wPhase, wLocks, wPlan, wView, wRaced>>

\* The picture is copied to the screen when the order has been let go.
WBlt(a) ==
    /\ Does(a, "blt") /\ Instead1(a)
    /\ LET p == Head(wOps[a]).picture
       IN /\ wScreen' = [c \in Screen |-> IF c \in DOMAIN p THEN p[c] ELSE wScreen[c]]
          /\ wRaced' = IF Ghosts = {} /\ \E c \in DOMAIN p : p[c] # Top(c) THEN wRaced \cup {"stale"} ELSE wRaced
    /\ UNCHANGED <<wDesk, wFocus, wMail, wInput, wPhase, wLocks, wPlan, wDirty, wStop>>

\* RawWindow::set_frame.
SetFrame(a) ==
    /\ Does(a, "frame")
    /\ LET o == Head(wOps[a])
           new == Frame(o.w, o.at)
       IN /\ wOrigin' = [wOrigin EXCEPT ![o.w] = o.at]
          /\ Instead(a, IF o.at # wOrigin[o.w] /\ o.w \in wVisible
                        THEN <<[op |-> "invalidate", cells |-> CellsOf(o.w) \cup new]>> ELSE <<>>)
    /\ UNCHANGED <<wPool, wOrders, wVisible, wFocus, wMail, wInput, wPhase, wLocks, wPlan, wView,
                   wStop, wRaced>>

-----------------------------------------------------------------------------
(* The window thread *)

WmPending == wInput.keys # <<>> \/ wInput.moved \/ wDirty.event
WmAt(phase, next) == Running /\ wOps["wm"] = <<>> /\ wPhase = phase /\ wPhase' = next
WmDoes(ops) == wOps' = [wOps EXCEPT !["wm"] = ops]

\* One round: keys, then the pointer, then the screen.
WmKeys ==
    /\ WmAt("keys", "mouse") /\ WmPending
    /\ WmDoes([n \in 1..Len(wInput.keys) |-> [op |-> "post", w |-> wInput.keys[n], m |-> "Key"]])
    /\ wInput' = [wInput EXCEPT !.keys = <<>>]
    /\ UNCHANGED <<wDesk, wFocus, wMail, wLocks, wPlan, wView, wStop, wRaced>>

\* A captured window is dealt with apart from the one under the pointer.
WmMouse ==
    /\ WmAt("mouse", "redraw")
    /\ IF wInput.moved
       THEN /\ WmDoes(<<[op |-> IF wCaptured = WNone THEN "aim" ELSE "drag", w |-> wCaptured,
                         i |-> wInput],
                        Enter("pointer", Must), Leave>>)
            /\ wInput' = [wInput EXCEPT !.moved = FALSE, !.down = FALSE, !.up = FALSE]
       ELSE UNCHANGED <<wOps, wInput>>
    /\ UNCHANGED <<wDesk, wFocus, wMail, wLocks, wPlan, wView, wStop, wRaced>>

WmRedraw ==
    /\ WmAt("redraw", "keys")
    /\ wDirty' = IF wDirty.event THEN [cells |-> {}, event |-> FALSE] ELSE wDirty
    /\ WmDoes(IF wDirty.event /\ wDirty.cells # {}
              THEN <<[op |-> "redraw", w |-> WRoot, cells |-> wDirty.cells]>> ELSE <<>>)
    /\ UNCHANGED <<wDesk, wFocus, wMail, wInput, wLocks, wPlan, wScreen, wStop, wRaced>>

\* Windows below FLOATING stay between the insets.
Clamped(w, x) ==
    LET low == IF Level(w) < FLOATING THEN WInset ELSE 0
        high == WCells - 1 - low
    IN IF x > low THEN (IF x < high THEN x ELSE high) ELSE IF low < high THEN low ELSE high

\* The button is held: the close or the back button follows the pointer, the
\* window moves, or it is told.
DragHeld(c, i) ==
    IF wHold \cap {"CLOSE_DOWN", "BACK_DOWN"} # {} THEN Refresh(c, 2)
    ELSE IF "MOVING" \in wHold
    THEN <<WOp("ref", c), Enter(c, Must),
           [op |-> "frame", w |-> c, at |-> Clamped(c, i.x - wGrip.offset)], Leave>>
    ELSE Events(c, i)

\* The button is released: over the button it was pressed on it is a request.
DragReleased(c, i) ==
    LET over(part, m) ==
            IF PartAt(c, i.x) = part
            THEN <<Enter(c, 3), WOp("repaint", c), [op |-> "post", w |-> c, m |-> m], Leave>>
            ELSE Refresh(c, 2)
    IN (IF "CLOSE_DOWN" \in wHold THEN over("close", "Close")
        ELSE IF "BACK_DOWN" \in wHold THEN over("back", "Back")
        ELSE Events(c, i)) \o <<WOp("release", c), [op |-> "look", i |-> i]>>

WmDrag ==
    /\ Does("wm", "drag")
    /\ LET o == Head(wOps["wm"])
       IN Instead("wm", IF o.i.held THEN DragHeld(o.w, o.i) ELSE DragReleased(o.w, o.i))
    /\ UNCHANGED <<wDesk, wFocus, wMail, wInput, wPhase, wLocks, wPlan, wView, wStop, wRaced>>

WmRelease ==
    /\ Does("wm", "release") /\ Instead1("wm")
    /\ wCaptured' = WNone /\ wHold' = {}
    /\ UNCHANGED <<wDesk, wActive, wGrip, wMail, wInput, wPhase, wLocks, wPlan, wView, wStop,
                   wRaced>>

\* window_at_point: the foremost entry of the order is taken to be the pointer.
AtPoint(x) ==
    LET hit == {n \in 1..(Len(wOrders) - 1) : wOrders[n] # WRoot /\ x \in CellsOf(wOrders[n])}
    IN IF hit = {} THEN WRoot ELSE wOrders[Max(hit)]

\* The window under the pointer; a press makes it active first.
WmAim ==
    /\ Does("wm", "aim") \/ Does("wm", "look")
    /\ OrdersFree
    /\ LET o == Head(wOps["wm"])
           target == AtPoint(o.i.x)
       IN IF Ghosts # {} THEN Halt("ghost") /\ Instead1("wm")
          ELSE /\ UNCHANGED wStop
               /\ Instead("wm", IF o.op = "look" THEN <<>>
                      ELSE IF ~o.i.down THEN Events(target, o.i)
                      ELSE (IF wActive = target THEN <<>> ELSE SetActive(target))
                           \o <<WOp("ref", target), [op |-> "grip", w |-> target, i |-> o.i],
                                WOp("capture", target)>>)
    /\ UNCHANGED <<wDesk, wFocus, wMail, wInput, wPhase, wLocks, wPlan, wView, wRaced>>

\* What is pressed.
WmGrip ==
    /\ Does("wm", "grip")
    /\ LET o == Head(wOps["wm"])
           part == PartAt(o.w, o.i.x)
           flag == IF part = "close" THEN {"CLOSE_DOWN"} ELSE IF part = "back" THEN {"BACK_DOWN"}
                   ELSE IF WSpec[o.w].pinch \/ part = "title" THEN {"MOVING"} ELSE {}
       IN /\ wHold' = wHold \cup flag
          /\ wGrip' = [offset |-> o.i.x - wOrigin[o.w],
                       part |-> IF WSpec[o.w].pinch THEN "title" ELSE part]
          /\ Instead("wm", IF flag = {} THEN Events(o.w, o.i)
                           ELSE IF flag = {"MOVING"} THEN <<>> ELSE Refresh(o.w, 2))
    /\ UNCHANGED <<wDesk, wActive, wCaptured, wMail, wInput, wPhase, wLocks, wPlan, wView, wStop,
                   wRaced>>

WmCapture ==
    /\ Does("wm", "capture") /\ Instead1("wm")
    /\ wCaptured' = Head(wOps["wm"]).w
    /\ UNCHANGED <<wDesk, wActive, wHold, wGrip, wMail, wInput, wPhase, wLocks, wPlan, wView, wStop,
                   wRaced>>

-----------------------------------------------------------------------------
(* The user and the applications *)

\* The pointer moves, its button changes, or a key goes to the active window.
UserInput ==
    /\ Running /\ wPlan.user # <<>>
    /\ wPlan' = [wPlan EXCEPT !.user = Tail(@)]
    /\ LET i == Head(wPlan.user)
       IN wInput' = IF i.t = "key"
                    THEN [wInput EXCEPT !.keys = IF wActive = WNone THEN @ ELSE Append(@, wActive)]
                    ELSE [wInput EXCEPT !.x = i.x, !.held = i.held, !.moved = TRUE,
                                        !.down = @ \/ (i.held /\ ~wInput.held),
                                        !.up = @ \/ (~i.held /\ wInput.held)]
    /\ UNCHANGED <<wDesk, wFocus, wMail, wPhase, wOps, wLocks, wView, wStop, wRaced>>

AppAt(a) == Running /\ wOps[a] = <<>> /\ wPlan[a] # <<>>
AppNext(a) == wPlan' = [wPlan EXCEPT ![a] = Tail(@)]

\* RawWindowBuilder::build.
AppBuilds(a) ==
    /\ AppAt(a) /\ Head(wPlan[a]) = "build" /\ AppNext(a)
    /\ PoolFree
    /\ wPool' = wPool \cup {a}
    /\ wOps' = [wOps EXCEPT ![a] = IF WSpec[a].suspended THEN <<>> ELSE SetActive(a)]
    /\ UNCHANGED <<wOrders, wOrigin, wVisible, wFocus, wMail, wInput, wPhase, wLocks, wView, wStop,
                   wRaced>>

CallOps(call, a) ==
    CASE call = "show" -> Show(a)
      [] call = "hide" -> <<Enter(a, Must)>> \o Hide(a) \o <<Leave>>
      [] call = "front" -> SetActive(a)
      [] call = "close" -> Close(a)
      [] call = "display" -> <<WOp("ref", a), [op |-> "post", w |-> a, m |-> "Draw"]>>

\* show, hide, make_active, close and set_needs_display.
AppCalls(a) ==
    /\ AppAt(a) /\ Head(wPlan[a]) \notin {"build", "loop"} /\ AppNext(a)
    /\ wOps' = [wOps EXCEPT ![a] = CallOps(Head(wPlan[a]), a)]
    /\ UNCHANGED <<wDesk, wFocus, wMail, wInput, wPhase, wLocks, wView, wStop, wRaced>>

\* read_message: the queue before NEEDS_REDRAW.
Take(m) == IF m.q # <<>> THEN Head(m.q) ELSE IF m.draw THEN "Draw" ELSE "none"

\* wait_message: what there is to read is read before the semaphore is waited for.
AppReads(a) ==
    /\ AppAt(a) /\ Head(wPlan[a]) = "loop" /\ ~wMail[a].waits
    /\ LET m == IF a \in wPool THEN Take(wMail[a]) ELSE "gone"
       IN /\ wMail' = [wMail EXCEPT ![a].q = IF m \in {"gone", "none", "Draw"} THEN @ ELSE Tail(@),
                                    ![a].draw = m # "Draw" /\ @, ![a].waits = m = "none"]
          /\ wOps' = [wOps EXCEPT ![a] =
                 CASE m = "Close" -> Close(a)
                   [] m = "Draw" -> Refresh(a, Must)
                   [] m = "Key" -> <<[op |-> "post", w |-> a, m |-> "Char"]>>
                   [] OTHER -> <<>>]
          /\ IF m \in {"Close", "gone"} THEN AppNext(a) ELSE UNCHANGED wPlan
    /\ UNCHANGED <<wDesk, wFocus, wInput, wPhase, wLocks, wView, wStop, wRaced>>

AppWakes(a) ==
    /\ Running /\ wMail[a].waits /\ wMail[a].sem > 0
    /\ wMail' = [wMail EXCEPT ![a].sem = @ - 1, ![a].waits = FALSE]
    /\ UNCHANGED <<wDesk, wFocus, wInput, wPhase, wOps, wLocks, wPlan, wView, wStop, wRaced>>

-----------------------------------------------------------------------------

WStep(a) ==
    \/ WPost(a) \/ WRef(a) \/ WEnter(a) \/ WLeave(a) \/ WFade(a) \/ WUnlink(a) \/ WLink(a)
    \/ WLockOrders(a) \/ WDrop(a) \/ WUnlockOrders(a) \/ WActivate(a) \/ WBecome(a) \/ WNext(a)
    \/ WUncapture(a) \/ WInvalidate(a) \/ WPaint(a) \/ WBlt(a) \/ SetFrame(a)
WmThread == WmKeys \/ WmMouse \/ WmRedraw \/ WmDrag \/ WmRelease \/ WmAim \/ WmGrip \/ WmCapture
WApp(a) == AppBuilds(a) \/ AppCalls(a) \/ AppReads(a) \/ AppWakes(a)

WindowsNext == (\E a \in WActors : WStep(a)) \/ WmThread \/ UserInput \/ (\E a \in Owners : WApp(a))

-----------------------------------------------------------------------------
(* Properties *)

WTypeOK ==
    /\ wPool \subseteq Wins /\ ToSet(wOrders) \subseteq Wins /\ wVisible \subseteq Wins
    /\ wActive \in Wins \cup {WNone} /\ wCaptured \in Wins \cup {WNone}
    /\ wLock \in WActors \cup {WNone} /\ wReading \in [WActors -> 0..3]
    /\ \A w \in Wins : Len(wMail[w].q) <= WQueue
    /\ wScreen \in [Screen -> Wins \cup {WNone}] /\ wStop \in {"", "key", "gone", "ghost"}

\* The order goes by levels, whoever shows windows when (add_hierarchy).
OrdersByLevel ==
    \A m, n \in 1..Len(wOrders) : m < n => Level(wOrders[m]) <= Level(wOrders[n])

InTransit(w) == \E a \in WActors, name \in {"fade", "unlink", "link", "drop"} : WOp(name, w) \in ToSet(wOps[a])

\* Outside operations a window is in the order once if it is visible and not
\* at all if it is not, and it exists; two threads that show one window at
\* the same time, or show one that is being closed, spoil this.
OrderAgrees ==
    (Running /\ wRaced \cap {"both", "late"} = {}) =>
    \A w \in Wins : ~InTransit(w) =>
        /\ Cardinality({n \in 1..Len(wOrders) : wOrders[n] = w}) = (IF w \in wVisible THEN 1 ELSE 0)
        /\ w \in wVisible => w \in wPool

Quiet == Running /\ ~wInput.moved /\ ~wDirty.event /\ \A a \in WActors : wOps[a] = <<>>

\* When nothing is going on the screen shows the windows in their order, unless
\* a picture was copied that had become old, or a window was moved while it
\* was hidden.
ScreenFollows == Quiet /\ wRaced = {} => \A c \in Screen : wScreen[c] = Top(c)

\* The kernel stops only for a key that finds no room or no window with a
\* queue, for a window that has been closed, and for entries of the order that
\* a race has left behind.
StopsExplained ==
    /\ wStop = "ghost" => wRaced \cap {"both", "late"} # {}
    /\ wStop = "gone" => \E a \in Owners : a \notin wPool /\ "build" \notin ToSet(wPlan[a])

\* The pool is wanted by who holds the order and the order by who holds the pool.
Crossed ==
    \E a, b \in WActors : /\ wLock = a /\ wOps[a] # <<>> /\ Head(wOps[a]).op = "drop"
                          /\ wReading[b] > 0 /\ wOps[b] # <<>>
                          /\ Head(wOps[b]).op \in {"unlink", "link", "paint", "repaint", "next"}

Blocked(a) ==
    LET name == Head(wOps[a]).op
    IN \/ name = "drop" /\ ~PoolFree
       \/ wLock \notin {WNone, a} /\ name \in {"unlink", "link", "lock", "paint", "redraw", "aim", "look"}
       \/ wLock \notin {WNone, a} /\ name = "repaint" /\ Head(wOps[a]).w \in wVisible
       \/ wLock \notin {WNone, a} /\ name = "next" /\ wActive = Head(wOps[a]).w

\* Of the threads that have something to do one can go on, unless a close and
\* an operation on another window wait for each other's lock.
StuckOnlyCrossed ==
    LET busy == {a \in WActors : wOps[a] # <<>>}
    IN Running /\ busy # {} => Crossed \/ \E a \in busy : ~Blocked(a)

\* Operations have ended, and no application that reads its messages has left a
\* request to close unread.
ClosesServed ==
    \/ ~Running \/ Crossed
    \/ \A a \in WActors : wOps[a] = <<>> /\ (a \in Owners =>
           ~("Close" \in ToSet(wMail[a].q) /\ "loop" \in ToSet(wPlan[a])))

\* All that the window manager keeps: its types, OrdersByLevel, OrderAgrees,
\* ScreenFollows, StopsExplained, StuckOnlyCrossed.
WindowsInv ==
    WTypeOK /\ OrdersByLevel /\ OrderAgrees /\ ScreenFollows /\ StopsExplained /\ StuckOnlyCrossed
=============================================================================
