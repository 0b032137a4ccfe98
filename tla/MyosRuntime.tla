---------------------------- MODULE MyosRuntime ----------------------------
(***************************************************************************)
(* The system calls of WebAssembly programs.                               *)
(*                                                                         *)
(* A program has windows and files, known to it by handles, a buffer of    *)
(* keys that its windows share, and memory that it gets from an allocator  *)
(* in the kernel.  Its window queues are filled by the window thread while *)
(* it runs.  The program is a plan of calls; what the user does is a plan  *)
(* of messages.                                                            *)
(***************************************************************************)
EXTENDS Integers, Sequences, FiniteSets, SequencesExt, FiniteSetsExt, Geometry

CONSTANTS MyPlans,      \* calls of the program and messages of the user
          MyContent,    \* size of the content of a window
          MyMaxFiles    \* MAX_FILES

MIN_ALLOC == 16         \* MIN_MASK + 1
WASM_PAGE == 65536
Void == [left |-> 9999, top |-> 9999, right |-> -9999, bottom |-> -9999]

\* What a call carries: an open names a file, which 0 is not, a close has the
\* number of a handle, a drawing the numbers of its rectangle, and memory a
\* size and an alignment.
IsCall(c) ==
    /\ c.t = "open" => c.file # 0
    /\ c.t = "close" => c.h \in Int
    /\ c.t = "draw" => /\ c.op \in {"text", "line", "fill"} /\ c.p.x \in Int /\ c.p.y \in Int
                       /\ c.op # "text" => c.q.x \in Int /\ c.q.y \in Int
    /\ c.t \in {"alloc", "free"} => c.size \in Nat /\ c.align \in Nat

ASSUME MyosAssumption ==
    /\ MyContent.w \in Nat /\ MyContent.h \in Nat
    /\ \A p \in MyPlans : p.calls \in Seq(Range(p.calls)) /\ \A n \in 1..Len(p.calls) : IsCall(p.calls[n])

VARIABLES myWindows,    \* windows: handle to native window and draw_region
          myNext,       \* next_handle
          myFiles,      \* files: what is open under each handle, 0 is none
          myKeys,       \* key_buffer
          myFree,       \* malloc: free pairs
          mySize,       \* size of the linear memory
          myExit,       \* has_to_exit
          myPool,       \* native windows that exist
          myQueue,      \* their messages
          myAt,         \* "run", or the native window that is waited on or read
          myLeft,       \* calls still to come
          myUser,       \* messages still to come
          myUsed,       \* blocks the program has
          myBefore,     \* whether a block was taken from in front of its pair
          myHeld,       \* what the program has opened and not closed: handle and file
          myTyped,      \* keys that were posted: window and key
          myRead,       \* keys the program has got
          myGone,       \* native windows that a request to close has closed
          myDirty,      \* cells drawn since begin_draw, by handle
          myStop        \* why the program or the system has stopped
winVars == <<myWindows, myNext, myPool, myGone, myDirty>>
keyVars == <<myKeys, myExit, myQueue, myRead>>
memVars == <<myFree, mySize, myUsed, myBefore>>
fileVars == <<myFiles, myHeld>>
myVars == <<winVars, keyVars, memVars, fileVars, myAt, myLeft, myUser, myTyped, myStop>>

NoWait == [t |-> "run", w |-> 0]
Leaving == [t |-> "exit", w |-> 0]

MyInit ==
    /\ \E p \in MyPlans : myLeft = p.calls /\ myUser = p.user
    /\ myWindows = <<>> /\ myNext = 1 /\ myFiles = <<>> /\ myKeys = <<>> /\ myFree = <<>> /\ mySize = WASM_PAGE
    /\ myExit = FALSE /\ myPool = {} /\ myQueue = <<>> /\ myAt = NoWait
    /\ myUsed = {} /\ myBefore = FALSE /\ myHeld = {} /\ myTyped = <<>> /\ myRead = <<>> /\ myGone = {} /\ myDirty = <<>>
    /\ myStop = "no"

-----------------------------------------------------------------------------
(* End of the program *)

Natives == {myWindows[h].native : h \in DOMAIN myWindows}

\* OsWindow::drop closes the native window, which must exist.
Closes(natives) == IF natives \subseteq myPool THEN myPool' = myPool \ natives /\ UNCHANGED myStop
                   ELSE myStop' = "no window" /\ UNCHANGED myPool

\* The runtime returns an error to start, which exits; on_exit clears windows.
MyEnds(why) ==
    /\ myWindows' = <<>> /\ myDirty' = <<>> /\ UNCHANGED <<myNext, myGone, keyVars, memVars, fileVars, myAt>>
    /\ IF Natives \subseteq myPool THEN myPool' = myPool \ Natives /\ myStop' = why
       ELSE myStop' = "no window" /\ UNCHANGED myPool

-----------------------------------------------------------------------------
(* Files *)

\* The entry alloc_file takes: the first free one, or 0 for a new one.
AllocFile == SelectInSeq(myFiles, LAMBDA f : f = 0)
MyOpen(c) ==
    /\ UNCHANGED <<winVars, keyVars, memVars, myAt, myStop>>
    /\ LET i == AllocFile
           at == IF i # 0 THEN i ELSE Len(myFiles) + 1
       IN IF ~c.exists \/ (i = 0 /\ Len(myFiles) >= MyMaxFiles) THEN UNCHANGED fileVars
          ELSE /\ myFiles' = [k \in 1..Greater(at, Len(myFiles)) |-> IF k = at THEN c.file ELSE myFiles[k]]
               /\ myHeld' = myHeld \cup {[h |-> at - 1, file |-> c.file]}
CloseFile(h) ==
    /\ UNCHANGED <<winVars, keyVars, memVars, myAt, myStop>>
    /\ myFiles' = [k \in 1..Len(myFiles) |-> IF k = h + 1 THEN 0 ELSE myFiles[k]]
    /\ myHeld' = {f \in myHeld : f.h # h}

\* Read, Write and LSeek reach a file or end the program.
GetFile(h) ==
    IF h + 1 \in 1..Len(myFiles) /\ myFiles[h + 1] # 0
    THEN UNCHANGED <<winVars, keyVars, memVars, fileVars, myAt, myStop>> ELSE MyEnds("error")

-----------------------------------------------------------------------------
(* Windows *)

NewWindow ==
    LET n == Len(myQueue) + 1
    IN /\ myWindows' = [h \in DOMAIN myWindows \cup {myNext} |->
                          IF h = myNext THEN [native |-> n, region |-> Void] ELSE myWindows[h]]
       /\ myDirty' = [h \in DOMAIN myDirty \cup {myNext} |-> IF h = myNext THEN {} ELSE myDirty[h]]
       /\ myNext' = myNext + 1 /\ myPool' = myPool \cup {n} /\ myQueue' = Append(myQueue, <<>>)
       /\ UNCHANGED <<myGone, myKeys, myExit, myRead, memVars, fileVars, myAt, myStop>>
CloseWindow(h) ==
    /\ UNCHANGED <<myNext, myGone, keyVars, memVars, fileVars, myAt>>
    /\ IF h \notin DOMAIN myWindows THEN UNCHANGED <<myWindows, myDirty, myPool, myStop>>
       ELSE /\ myWindows' = [k \in DOMAIN myWindows \ {h} |-> myWindows[k]]
            /\ myDirty' = [k \in DOMAIN myDirty \ {h} |-> myDirty[k]]
            /\ Closes({myWindows[h].native})

Drawn(r) == LET p == ContentPart(r, MyContent, 1)
            IN IF p.ok THEN (p.x..(p.x + p.w - 1)) \X (p.y..(p.y + p.h - 1)) ELSE {}
MyCells == (0..(MyContent.w - 1)) \X (0..(MyContent.h - 1))
RegionCells(c) == IF c.left <= c.right /\ c.top <= c.bottom
                  THEN (c.left..(c.right - 1)) \X (c.top..(c.bottom - 1)) ELSE {}

BeginDraw(h) ==
    /\ myWindows' = [myWindows EXCEPT ![h].region = Void] /\ myDirty' = [myDirty EXCEPT ![h] = {}]
    /\ UNCHANGED <<myNext, myPool, myGone, keyVars, memVars, fileVars, myAt, myStop>>
\* invalidate_rect reaches the native window; what was drawn is shown.
EndDraw(h) ==
    /\ LET w == myWindows[h]
           r == w.region
       IN IF r.left <= r.right /\ r.top <= r.bottom /\ w.native \notin myPool
          THEN myStop' = "no window" /\ UNCHANGED myDirty
          ELSE myDirty' = [myDirty EXCEPT ![h] = @ \ RegionCells(r)] /\ UNCHANGED myStop
    /\ UNCHANGED <<myWindows, myNext, myPool, myGone, keyVars, memVars, fileVars, myAt>>

\* The rectangle of a drawing call: a string fills the rest of the content.
RectOf(c) ==
    IF c.op = "text" THEN [x |-> c.p.x, y |-> c.p.y, w |-> MyContent.w - c.p.x, h |-> MyContent.h - c.p.y]
    ELSE IF c.op = "line" THEN LET d == FromCoords(FromDiagonal(c.p, c.q)) IN [d EXCEPT !.w = @ + 1, !.h = @ + 1]
    ELSE [x |-> c.p.x, y |-> c.p.y, w |-> c.q.x, h |-> c.q.y]
\* Mutant: only the last rectangle is remembered.
AddRegionLast(region, r) == Coords(r)
AddRegion(region, r) == Merged(region, Coords(r))

\* draw_in_rect: an empty rectangle is an error that the unwrap of add_region
\* does not survive.  A part that begins left of or above the content moves
\* into it, one right of or below it falls on the frame, and the region does
\* not follow: neither is counted as drawn.
DrawIn(h, r) ==
    /\ IF myWindows[h].native \notin myPool THEN myStop' = "no window" /\ UNCHANGED <<myWindows, myDirty>>
       ELSE IF ~HasCoords(r) THEN myStop' = "empty" /\ UNCHANGED <<myWindows, myDirty>>
       ELSE /\ myWindows' = [myWindows EXCEPT ![h].region = AddRegion(@, r)]
            /\ myDirty' = [myDirty EXCEPT ![h] = @ \cup IF r.x >= 0 /\ r.y >= 0 THEN Drawn(r) \cap MyCells ELSE {}]
            /\ UNCHANGED myStop
    /\ UNCHANGED <<myNext, myPool, myGone, keyVars, memVars, fileVars, myAt>>

OnWindow(c) ==
    IF c.h \notin DOMAIN myWindows THEN MyEnds("error")
    ELSE \/ c.t = "begin" /\ BeginDraw(c.h)
         \/ c.t = "end" /\ EndDraw(c.h)
         \/ c.t = "draw" /\ DrawIn(c.h, RectOf(c))
         \/ /\ c.t \in {"wait", "read"} /\ myAt' = [t |-> c.t, w |-> myWindows[c.h].native]
            /\ UNCHANGED <<winVars, keyVars, memVars, fileVars, myStop>>

-----------------------------------------------------------------------------
(* Memory *)

FreePair(base, size) == [base |-> base, size |-> size]
NextBase(p) == p.base + p.size
ALIGN(c) == Greater(c.align, MIN_ALLOC)
RoundUp(n, to) == ((n + to - 1) \div to) * to
MinAlloc(c) == RoundUp(Greater(ALIGN(c), c.size), MIN_ALLOC)
MaxAlloc(c) == (MinAlloc(c) + ALIGN(c) - 1) % ALIGN(c)

\* SimpleAllocator::merge.  Once it has merged two pairs do_retry stays set
\* and the loop does not end.
Adjacent(list) == \E i \in 1..(Len(list) - 1) : NextBase(list[i]) = list[i + 1].base
\* sort_by_key keeps pairs of the same base in their order.
ByBase(list) ==
    LET upTo(i) == {j \in 1..Len(list) : list[j].base < list[i].base \/ (list[j].base = list[i].base /\ j <= i)}
    IN [k \in 1..Len(list) |-> list[CHOOSE i \in 1..Len(list) : Cardinality(upTo(i)) = k]]

\* SimpleAllocator::alloc on the first pair it accepts: the address and the
\* pairs, or that the size of the pair wraps.  A pair that begins between two
\* multiples of the alignment is cut in front of its beginning.
Fits(c, p) == p.base % ALIGN(c) = 0 /\ p.size >= MinAlloc(c)
FirstFitOf(c, list) == SelectInSeq(list, LAMBDA p : Fits(c, p) \/ p.size >= MaxAlloc(c))
TakeFrom(c, list) ==
    LET i == FirstFitOf(c, list)
        p == list[i]
        redundant == IF Fits(c, p) THEN 0 ELSE p.base % ALIGN(c)
        q == FreePair(p.base - redundant + MinAlloc(c), p.size - redundant - MinAlloc(c))
        rest == [list EXCEPT ![i] = q]
        all == IF Fits(c, p) THEN rest ELSE ByBase(Append(rest, FreePair(p.base, redundant)))
    IN IF i = 0 THEN [t |-> "none"]
       ELSE IF q.size < 0 THEN [t |-> "wrapped"]
       ELSE IF ~Fits(c, p) /\ Adjacent(all) THEN [t |-> "hangs"]
       ELSE [t |-> "block", base |-> p.base - redundant, free |-> all, before |-> redundant > 0]

MyTake(c, list, size) ==
    LET r == TakeFrom(c, list)
    IN IF r.t = "block"
       THEN /\ myFree' = r.free /\ mySize' = size /\ myUsed' = myUsed \cup {FreePair(r.base, MinAlloc(c))}
            /\ myBefore' = (myBefore \/ r.before)
            /\ UNCHANGED <<winVars, keyVars, fileVars, myAt, myStop>>
       ELSE IF r.t = "none" THEN MyEnds("error")
       ELSE myStop' = r.t /\ UNCHANGED <<winVars, keyVars, memVars, fileVars, myAt>>
MyAlloc(c) ==
    LET pages == (c.size + WASM_PAGE - 1) \div WASM_PAGE
        grown == ByBase(Append(myFree, FreePair(mySize, pages * WASM_PAGE)))
    IN IF TakeFrom(c, myFree).t # "none" THEN MyTake(c, myFree, mySize)
       ELSE IF Adjacent(grown) THEN myStop' = "hangs" /\ UNCHANGED <<winVars, keyVars, memVars, fileVars, myAt>>
       ELSE MyTake(c, grown, mySize + (pages * WASM_PAGE))

\* SimpleAllocator::dealloc: the block joins the first pair next to it, and
\* that pair the one behind.
Joined(list, i) ==
    IF i < Len(list) /\ NextBase(list[i]) = list[i + 1].base
    THEN [RemoveAt(list, i + 1) EXCEPT ![i] = FreePair(list[i].base, list[i].size + list[i + 1].size)] ELSE list
Freed(list, new) ==
    LET i == SelectInSeq(list, LAMBDA p : NextBase(new) = p.base \/ NextBase(p) = new.base)
    IN IF i = 0 THEN ByBase(Append(list, new))
       ELSE Joined([list EXCEPT ![i] = FreePair(IF NextBase(new) = @.base THEN new.base ELSE @.base, @.size + new.size)], i)

\* Function::Dealloc overwrites the block first, which the last bytes of the
\* memory do not allow.
MyDealloc(c) ==
    \E b \in {u \in myUsed : u = FreePair(c.base, MinAlloc(c))} :
        LET list == Freed(myFree, b)
        IN IF c.base + c.size >= mySize THEN MyEnds("error")
           ELSE IF Len(list) > Len(myFree) /\ Adjacent(list)
           THEN myStop' = "hangs" /\ UNCHANGED <<winVars, keyVars, memVars, fileVars, myAt>>
           ELSE /\ myFree' = list /\ myUsed' = myUsed \ {b} /\ UNCHANGED <<mySize, myBefore>>
                /\ UNCHANGED <<winVars, keyVars, fileVars, myAt, myStop>>

-----------------------------------------------------------------------------
(* Calls *)

DispatchSyscall ==
    /\ myStop = "no" /\ myAt = NoWait /\ myLeft # <<>> /\ myLeft' = Tail(myLeft) /\ UNCHANGED <<myUser, myTyped>>
    /\ LET c == Head(myLeft)
       IN IF myExit \/ c.t = "exit" THEN MyEnds("exit")
          ELSE \/ c.t = "open" /\ MyOpen(c)
               \/ c.t = "close" /\ CloseFile(c.h)
               \/ c.t = "io" /\ GetFile(c.h)
               \/ c.t = "window" /\ NewWindow
               \/ c.t = "shut" /\ CloseWindow(c.h)
               \/ c.t \in {"begin", "end", "draw", "wait", "read"} /\ OnWindow(c)
               \/ c.t = "alloc" /\ MyAlloc(c)
               \/ c.t = "free" /\ MyDealloc(c)

\* start returns when the program does, or when wait_key has returned Exit.
Returns ==
    /\ myStop = "no" /\ (myAt = Leaving \/ (myAt = NoWait /\ myLeft = <<>>)) /\ UNCHANGED <<myLeft, myUser, myTyped>> /\ MyEnds("exit")

\* process_message for the first message of the window; m is the key that
\* the key buffer gets.
AfterMessage(w, m) ==
    IF m.t = "key" /\ m.press THEN Append(myKeys, [w |-> w, key |-> m.key]) ELSE myKeys
CloseAsked(w, m) ==
    IF m.t # "close" THEN UNCHANGED <<myPool, myGone, myExit>>
    ELSE IF Cardinality(DOMAIN myWindows) > 1
    THEN myPool' = myPool \ {w} /\ myGone' = myGone \cup {w} /\ UNCHANGED myExit
    ELSE myExit' = TRUE /\ UNCHANGED <<myPool, myGone>>

\* wait_key: one turn of its loop.
WaitKey ==
    /\ myStop = "no" /\ myAt.t = "wait" /\ UNCHANGED <<myLeft, myUser, myTyped, memVars, fileVars>>
    /\ LET w == myAt.w
           m == Head(myQueue[w])
           keys == AfterMessage(w, m)
       IN \/ w \notin myPool /\ MyEnds("error")
          \/ /\ w \in myPool /\ myQueue[w] # <<>> /\ myQueue' = [myQueue EXCEPT ![w] = Tail(@)]
             /\ CloseAsked(w, m) /\ UNCHANGED <<myWindows, myNext, myDirty, myStop>>
             /\ IF myExit' \/ keys = <<>> THEN myKeys' = keys /\ UNCHANGED myRead
                ELSE myKeys' = Tail(keys) /\ myRead' = Append(myRead, Head(keys))
             /\ myAt' = IF myExit' THEN Leaving ELSE IF keys # <<>> THEN NoWait ELSE myAt

\* read_key: one turn of its loop, and its end.
ReadKey ==
    /\ myStop = "no" /\ myAt.t = "read" /\ UNCHANGED <<myLeft, myUser, myTyped, memVars, fileVars, myWindows, myNext, myDirty, myStop>>
    /\ LET w == myAt.w
       IN IF w \in myPool /\ myQueue[w] # <<>>
          THEN /\ myQueue' = [myQueue EXCEPT ![w] = Tail(@)] /\ myKeys' = AfterMessage(w, Head(myQueue[w]))
               /\ CloseAsked(w, Head(myQueue[w])) /\ UNCHANGED <<myAt, myRead>>
          ELSE /\ myAt' = NoWait /\ UNCHANGED <<myPool, myGone, myExit, myQueue>>
               /\ myKeys' = IF myKeys = <<>> THEN <<>> ELSE Tail(myKeys)
               /\ myRead' = IF myKeys = <<>> THEN myRead ELSE Append(myRead, Head(myKeys))

\* The window thread posts what the user does to a window, if it still exists.
MyPost ==
    /\ myStop = "no" /\ myUser # <<>> /\ myUser' = Tail(myUser)
    /\ LET u == Head(myUser)
       IN /\ u.w \in 1..Len(myQueue)
          /\ myQueue' = IF u.w \in myPool THEN [myQueue EXCEPT ![u.w] = Append(@, u.m)] ELSE myQueue
          /\ myTyped' = IF u.w \in myPool /\ u.m.t = "key" /\ u.m.press THEN Append(myTyped, [w |-> u.w, key |-> u.m.key]) ELSE myTyped
    /\ UNCHANGED <<winVars, myKeys, myExit, myRead, memVars, fileVars, myAt, myLeft, myStop>>

MyNext == DispatchSyscall \/ Returns \/ WaitKey \/ ReadKey \/ MyPost

MySpec == MyInit /\ [][MyNext]_myVars

-----------------------------------------------------------------------------
(* Properties *)

\* A handle of a file means the file it was given for until it is closed
\* (MyosRuntime::alloc_file, close_file).
HandlesMeanFiles ==
    \A f \in myHeld : f.h + 1 \in 1..Len(myFiles) /\ myFiles[f.h + 1] = f.file

\* The windows that exist are those of the table, but for the ones closed at
\* the request of the user while there were others; the end leaves none behind
\* (MyosRuntime::on_exit, process_message).
WindowsAccounted ==
    /\ myStop = "no" => myPool = Natives \ myGone
    /\ myStop \in {"exit", "error"} => myPool = {}
    /\ myStop = "no window" => myGone # {}

\* Every cell drawn since begin_draw is in the region that end_draw
\* invalidates (OsWindow::add_region).
DrawnIsInvalidated ==
    \A h \in DOMAIN myDirty : myDirty[h] \subseteq RegionCells(myWindows[h].region)

\* Of a list of keys, those of one window.
KeysUpTo(s, w) ==
    LET upTo[n \in 0..Len(s)] ==
            IF n = 0 THEN <<>> ELSE IF s[n].w = w THEN Append(upTo[n - 1], s[n]) ELSE upTo[n - 1]
    IN upTo
OfWindow(s, w) == KeysUpTo(s, w)[Len(s)]

\* The keys that wait in the queue of a window; other messages are of none.
KeyOf(w, m) == IF m.t = "key" /\ m.press THEN [w |-> w, key |-> m.key] ELSE [w |-> 0]
QueuedKeys(w) == [i \in 1..Len(myQueue[w]) |-> KeyOf(w, myQueue[w][i])]

\* Keys of one window reach the program once and in the order they were
\* typed, whichever window they are asked of (MyosRuntime::wait_key, read_key).
KeysInOrder ==
    \A w \in 1..Len(myQueue) : OfWindow(myTyped, w) = OfWindow(myRead \o myKeys \o QueuedKeys(w), w)

\* Blocks of the program and free pairs are apart, aligned, and together are
\* the memory that has been added, each beginning where another ends, as long
\* as no block had to be cut in front of its pair (SimpleAllocator).
BlocksApart ==
    LET blocks == myUsed \cup {p \in Range(myFree) : p.size > 0}
    IN myBefore \/
       /\ \A p, q \in blocks : p # q => NextBase(p) <= q.base \/ NextBase(q) <= p.base
       /\ \A p \in blocks : p.base % MIN_ALLOC = 0 /\ p.base >= WASM_PAGE /\ NextBase(p) <= mySize
       /\ \A e \in {WASM_PAGE} \cup {NextBase(p) : p \in blocks} : e = mySize \/ \E p \in blocks : p.base = e

\* A program waits only on a window whose messages have all been served
\* (MyosRuntime::wait_key).
MyServed == myAt.t # "wait" \/ myStop # "no" \/ (myAt.w \in myPool /\ myQueue[myAt.w] = <<>>)

MyosInv == HandlesMeanFiles /\ WindowsAccounted /\ DrawnIsInvalidated /\ KeysInOrder /\ BlocksApart
=============================================================================
