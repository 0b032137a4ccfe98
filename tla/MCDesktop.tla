----------------------------- MODULE MCDesktop -----------------------------
(***************************************************************************)
(* The window system, the file systems, the graphics library, the archive  *)
(* of the initial file system and the system calls of programs on small    *)
(* instances.  Each behaviour exercises one of them; the others rest in    *)
(* their initial state.                                                    *)
(***************************************************************************)
EXTENDS Windows, FileSystem, Bitmaps, Archive, MyosRuntime, TLC

VARIABLE unit           \* the component that is exercised

-----------------------------------------------------------------------------
(* Three windows on a screen of five cells: one with a title and a close    *)
(* button, one in the middle with a back button, one that floats and can be *)
(* moved by its content.                                                    *)

Window(level, at, parts, queue) ==
    [level |-> level, at |-> at, parts |-> parts, pinch |-> FALSE, suspended |-> FALSE,
     floating |-> FALSE, queue |-> queue]
Center == -100
WindowSpec ==
    "root" :> Window(0, 0, <<>>, FALSE) @@ "pointer" :> Window(127, 0, <<>>, FALSE)
    @@ "a" :> Window(32, 0, <<"title", "content", "close">>, TRUE)
    @@ "b" :> Window(32, Center, <<"back", "content">>, TRUE)
    @@ "c" :> [Window(32, -3, <<"content", "content">>, TRUE)
                 EXCEPT !.pinch = TRUE, !.suspended = TRUE, !.floating = TRUE]
Mouse(x, held) == [t |-> "mouse", x |-> x, held |-> held]
KeyInput == [t |-> "key"]
Desk(open, user, a, b) == [open |-> open, user |-> user, a |-> a, b |-> b, c |-> <<>>]
Desks ==
    {[Desk(<<"b">>, <<Mouse(2, TRUE), Mouse(4, TRUE)>>, <<>>, <<>>) EXCEPT !.c = <<"build", "show">>],
     Desk(<<"a">>, <<Mouse(0, TRUE), Mouse(2, TRUE), Mouse(2, FALSE)>>, <<"loop">>, <<>>),
     Desk(<<"a">>, <<Mouse(2, TRUE), Mouse(3, TRUE), Mouse(2, FALSE), Mouse(4, FALSE)>>, <<"loop">>, <<>>),
     Desk(<<"b">>, <<Mouse(1, TRUE), Mouse(1, FALSE)>>, <<>>, <<"loop">>),
     Desk(<<"a">>, <<KeyInput>>, <<"display", "loop">>, <<"build">>),
     Desk(<<"a", "b">>, <<>>, <<"close", "loop">>, <<"show">>),
     Desk(<<"b">>, <<Mouse(2, TRUE), Mouse(2, FALSE)>>, <<>>, <<"front">>),
     Desk(<<"a", "b">>, <<Mouse(0, TRUE)>>, <<"hide">>, <<>>),
     Desk(<<"b", "a">>, <<Mouse(2, TRUE)>>, <<"close">>, <<>>)}

-----------------------------------------------------------------------------
(* Two processes, and a tree /a/f, /a/d, /b next to the devices             *)

OnPath(t, path) == [t |-> t, path |-> path, to |-> <<>>, mode |-> {"read", "write"}]
Rename(from, to) == [t |-> "rename", path |-> from, to |-> to]
EntryOf(name, node) == [name |-> name, node |-> node]
Tree ==
    2 :> FDir(<<EntryOf("a", 3), EntryOf("b", 4)>>) @@ 3 :> FDir(<<EntryOf("f", 5), EntryOf("d", 6)>>)
    @@ 4 :> FDir(<<>>) @@ 5 :> FFile(<<"x", "y">>) @@ 6 :> FDir(<<>>)
CLOSE == OnPath("close", <<>>)
Seek(by, whence) == [t |-> "seek", by |-> by, whence |-> whence]
ReadOne == [t |-> "read", len |-> 1]
WriteIt(data) == [t |-> "write", data |-> data]
CutTo(len) == [t |-> "truncate", len |-> len]
Calls2(p, q) == "p" :> p @@ "q" :> q
FilePlans ==
    {Calls2(<<OnPath("mkdir", <<"1">>), OnPath("mkdir", <<"2">>), OnPath("mkdir", <<"3">>),
              OnPath("mkdir", <<"4">>)>>, <<>>),
     Calls2(<<OnPath("mkdir", <<"b", "n">>), OnPath("creat", <<"b", "n", "g">>),
              OnPath("stat", <<"", "b", "n", "g">>), CLOSE>>, <<OnPath("unlink", <<"b">>)>>),
     Calls2(<<OnPath("chdir", <<"a">>), OnPath("creat", <<"..", "b", ".", "g">>), CLOSE>>,
            <<OnPath("unlink", <<"b", "g">>), OnPath("unlink", <<"b">>)>>),
     Calls2(<<OnPath("open", <<"a", "f">>), Seek(1, "set"), WriteIt(<<"z">>), Seek(1, "end"),
              WriteIt(<<"z">>), ReadOne, CLOSE>>, <<OnPath("unlink", <<"a", "f">>)>>),
     Calls2(<<OnPath("open", <<"a", "f">>), CutTo(3), CutTo(1), Seek(0, "end"), WriteIt(<<>>),
              Seek(-4, "cur"), WriteIt(<<"w">>), CLOSE>>, <<>>),
     Calls2(<<[OnPath("open", <<"a", "f">>) EXCEPT !.mode = {"write"}], ReadOne, WriteIt(<<"z">>),
              OnPath("stat", <<"a", "f">>), CLOSE>>, <<>>),
     Calls2(<<Rename(<<"a">>, <<"b">>)>>, <<Rename(<<"b">>, <<"a">>)>>),
     Calls2(<<Rename(<<"a", "f">>, <<"b">>)>>, <<Rename(<<"b">>, <<"a">>)>>),
     Calls2(<<Rename(<<"a", "f">>, <<"">>)>>, <<OnPath("list", <<"">>)>>),
     Calls2(<<Rename(<<"a", "f">>, <<"a", "g">>), Rename(<<"a">>, <<"a", "d">>),
              OnPath("mkdir", <<"a", "d", "d">>), Rename(<<"a", "d", "d">>, <<"a">>)>>, <<>>),
     Calls2(<<OnPath("creat", <<"b", "f">>), CLOSE, Rename(<<"a", "f">>, <<"b", "f">>),
              OnPath("mkdir", <<"n">>)>>, <<>>),
     Calls2(<<OnPath("open", <<"dev", "full">>), Seek(0, "end"), ReadOne, WriteIt(<<"w">>),
              OnPath("mkdir", <<"dev", "x">>), OnPath("stat", <<"dev", "x">>), OnPath("chdir", <<"dev">>),
              Rename(<<"null">>, <<"..", "b">>), OnPath("list", <<"", "a">>)>>, <<>>)}
DeviceNames == <<"null", "full">>

-----------------------------------------------------------------------------
(* Drawing calls, with arguments on both sides of every edge                *)

NoRect == Rect(0, 0, 0, 0)
Canvas(w, h, stride) == [w |-> w, h |-> h, stride |-> stride]
Wide == Canvas(4, 3, 5)
Tight == Canvas(4, 3, 4)
Big == Canvas(7, 7, 7)
Do(op, canvas) ==
    [op |-> op, cv |-> canvas, view |-> NoRect, p |-> Pt(0, 0), q |-> Pt(0, 0), r |-> NoRect, k |-> 0,
     src |-> Canvas(3, 3, 4), cl |-> TRANSPARENT, cr |-> TRANSPARENT]
SomeViews == {NoRect, Rect(1, 1, 2, 2), Rect(0, 1, 4, 2), Rect(2, 0, 3, 2), Rect(0, 1, 2, 3)}
Shades == {0, 25, 26, 128, 255}
DrawCalls ==
    UNION {
    {[Do("fill", c) EXCEPT !.view = v, !.r = Rect(x, y, w, h)] :
        c \in {Wide, Tight}, v \in SomeViews, x \in {-1, 0, 2, 4}, y \in {-2, 0, 2}, w \in {0, 1, 6}, h \in {0, 2, 3}},
    {[Do(op, Wide) EXCEPT !.view = v, !.p = Pt(x, y), !.k = n] :
        op \in {"hline", "vline"}, v \in {NoRect, Rect(1, 1, 2, 2)}, x \in {-1, 0, 2, 4}, y \in {-1, 0, 2, 3},
        n \in {-1, 0, 1, 2, 3, 5}},
    {[Do("rect", Big) EXCEPT !.r = Rect(x, y, w, h)] :
        x \in {-1, 1, 5}, y \in {-1, 0, 5}, w \in {0, 1, 2, 5}, h \in {0, 1, 2, 3, 6}},
    {[Do(op, Big) EXCEPT !.r = Rect(1, 1, w, h), !.k = n] :
        op \in {"roundfill", "round"}, w \in 1..6, h \in 0..6, n \in 0..4},
    {[Do(op, Big) EXCEPT !.p = Pt(x, 3), !.k = n] : op \in {"disc", "circle"}, x \in {0, 3, 6}, n \in 0..4},
    {[Do("line", Big) EXCEPT !.p = p, !.q = Pt(x, y)] :
        p \in {Pt(0, 0), Pt(3, 2), Pt(-1, 4)}, x \in {-1, 0, 3, 5, 6}, y \in {-2, 2, 3, 7}},
    {[Do(op, Wide) EXCEPT !.p = Pt(x, y), !.r = Rect(0, 0, 2, 3)] :
        op \in {"glyph", "glyphcw"}, x \in -1..4, y \in -1..3},
    {[Do("memset", Canvas(48, 1, 48)) EXCEPT !.p = Pt(x, 0), !.k = n] :
        x \in {0, 1, 8, 13}, n \in {0, 1, 15, 16, 17, 18, 33, 35}},
    {[Do(op, Tight) EXCEPT !.view = v, !.p = Pt(x, y), !.r = Rect(rx, ry, w, h), !.k = 11, !.src = s] :
        op \in {"blt", "key"}, v \in {NoRect, Rect(1, 1, 2, 2)}, x \in {-2, 0, 3}, y \in {-1, 0, 2},
        rx \in {-1, 0, 1}, ry \in {-1, 1}, w \in {0, 2, 4}, h \in {1, 4}, s \in {Canvas(3, 3, 4), Canvas(4, 4, 4)}},
    {[Do(op, Wide) EXCEPT !.p = Pt(x, y), !.r = Rect(rx, ry, w, h)] :
        op \in {"blend", "cw"}, x \in {-2, 0, 3}, y \in {-1, 0, 1, 3}, rx \in {-1, 0, 1},
        ry \in {-1, 0, 1}, w \in {0, 2, 4}, h \in {1, 4}},
    {[Do("copy", c) EXCEPT !.p = Pt(x, y), !.r = Rect(rx, ry, w, h)] :
        c \in {Wide, Tight}, x \in {0, 1}, y \in {0, 1}, rx \in {0, 1}, ry \in {0, 1, 2}, w \in {2, 4}, h \in {1, 2, 3}},
    {[Do("blur", Canvas(w, h, w)) EXCEPT !.k = n] : w \in 3..6, h \in 3..6, n \in {1, 2}},
    {Do("pixels", Canvas(w, h, w)) : w \in 1..3, h \in 1..3},
    {[Do("rects", Wide) EXCEPT !.r = Rect(x, y, w, h), !.view = Rect(1, 1, 2, n), !.p = Pt(l, 1), !.q = Pt(1, b)] :
        x \in -1..3, y \in {0, 2}, w \in -1..3, h \in {0, 1, 2}, n \in {0, 2}, l \in 0..1, b \in {0, 2}},
    {[Do("colors", Wide) EXCEPT !.cl = Argb(a, r, g, b), !.cr = Argb(d, g, b, r), !.k = 231 + (b % 25)] :
        a \in Shades, d \in Shades, r \in {25, 128, 255}, g \in {0, 77}, b \in {24, 179, 255}}}
GlyphDots == {Pt(0, 0), Pt(1, 1), Pt(0, 2), Pt(1, 2)}

-----------------------------------------------------------------------------
(* Words with a change at each bit, and archives whose blobs are on both    *)
(* sides of 127 bytes, of which some have lost bytes                        *)

Words ==
    UNION {{{k}, 0..k, k..63, Bit \ {k}} : k \in Bit} \cup {{}} \cup {{0, k} : k \in {6, 7, 13, 14, 30, 31, 62, 63}}
AFile(kind, name, size) == [tag |-> TAG_FILE, c |-> kind, name |-> name, size |-> size]
ADir(kind, name) == [tag |-> TAG_NAMESPACE, c |-> kind, name |-> name, size |-> 0]
Archived(entries, space, lost) == [entries |-> entries, space |-> space, lost |-> lost]
Archives ==
    {Archived(<<>>, 0, 0)} \cup
    {Archived(entries, space, lost) : space \in {0, 3}, lost \in {0, 1, 5}, entries \in
        {<<ADir(2, 1), AFile(3, 2, 0)>>, <<AFile(1, 3, 127), AFile(2, 4, 128)>>,
         <<AFile(7, 120, 4), AFile(7, 124, 1), ADir(5, 126)>>,
         <<ADir(5, 127), AFile(5, 5, 122), AFile(5, 5, 121)>>}}

-----------------------------------------------------------------------------
(* Programs that use up file handles, are asked to close a window while     *)
(* they wait for a key of another, draw across the edges of a window, and   *)
(* allocate and release memory in an order that leaves gaps                 *)

OnWin(t, h) == [t |-> t, h |-> h]
DrawOn(op, h, x, y, a, b) == [t |-> "draw", op |-> op, h |-> h, p |-> Pt(x, y), q |-> Pt(a, b)]
Mem(t, base, size, align) == [t |-> t, base |-> base, size |-> size, align |-> align]
Alloc(size) == Mem("alloc", 0, size, 8)
Press(k) == [t |-> "key", key |-> k, press |-> TRUE]
Release(k) == [t |-> "key", key |-> k, press |-> FALSE]
CloseIt == [t |-> "close"]
ToWin(w, m) == [w |-> w, m |-> m]
OpenIt(f, exists) == [t |-> "open", file |-> f, exists |-> exists]
MyPlan(calls, user) == [calls |-> calls, user |-> user]
NewWin == [t |-> "window"]
Programs ==
    {MyPlan(<<OpenIt(1, TRUE), OpenIt(2, TRUE), OpenIt(3, FALSE), OnWin("close", 0), OpenIt(4, TRUE), OpenIt(1, TRUE),
              OnWin("close", 7), OnWin("io", 1), OnWin("close", 1), OnWin("io", 1)>>, <<>>),
     MyPlan(<<NewWin, NewWin, OnWin("wait", 1), OnWin("read", 2), OnWin("wait", 2), OnWin("shut", 1), OnWin("wait", 2)>>,
            <<ToWin(1, Press("a")), ToWin(2, Press("b")), ToWin(1, CloseIt), ToWin(2, Press("c")), ToWin(2, Release("c")), ToWin(2, CloseIt)>>),
     MyPlan(<<NewWin, OnWin("read", 1), OnWin("wait", 1), OnWin("wait", 1), OnWin("shut", 1), [t |-> "exit"]>>,
            <<ToWin(1, Press("a")), ToWin(1, Press("b")), ToWin(1, [t |-> "draw"]), ToWin(1, CloseIt)>>),
     MyPlan(<<NewWin, OnWin("begin", 1), DrawOn("fill", 1, 0, 0, 2, 1), DrawOn("line", 1, 3, 2, 1, 1), DrawOn("fill", 1, -1, 1, 3, 1),
              OnWin("end", 1), OnWin("begin", 1), DrawOn("text", 1, 2, 1, 0, 0), DrawOn("fill", 1, 5, 5, 2, 2), OnWin("end", 1),
              OnWin("shut", 3), DrawOn("fill", 1, 1, 1, 0, 1)>>, <<ToWin(1, CloseIt)>>),
     MyPlan(<<NewWin, NewWin, OnWin("read", 1), DrawOn("fill", 1, 0, 0, 1, 1), OnWin("end", 1), OnWin("begin", 4)>>, <<ToWin(1, CloseIt)>>),
     MyPlan(<<Alloc(24), Alloc(16), Mem("alloc", 0, 100, 32), Mem("free", 65536, 24, 8), Alloc(20), Mem("free", 65568, 16, 8),
              Mem("free", 65536, 20, 8), Mem("free", 65600, 100, 32), Alloc(65536), Alloc(70000)>>, <<>>),
     MyPlan(<<Alloc(32768), Alloc(32768), Mem("free", 65536, 32768, 8), Alloc(16), Alloc(16), Alloc(40000)>>, <<>>),
     MyPlan(<<Alloc(32768), Alloc(32768), Alloc(16)>>, <<>>),
     MyPlan(<<Alloc(16), Alloc(16), Alloc(16), Mem("free", 65552, 16, 8), Mem("free", 65536, 16, 8), Alloc(32), Alloc(65472), Mem("free", 65600, 65472, 8)>>, <<>>)}
Size43 == Sz(4, 3)

-----------------------------------------------------------------------------
(* One component at a time *)

Rests(name, same) == unit = name \/ same
MCInit ==
    /\ unit \in {"windows", "files", "graphics", "archive", "myos"}
    /\ ArInit /\ Rests("archive", arPlan = Archived(<<ADir(2, 1), AFile(3, 2, 0)>>, 0, 0))
    /\ MyInit /\ Rests("myos", myLeft = <<Alloc(32768), Alloc(32768), Alloc(16)>>)
    /\ WInit /\ Rests("windows", wPlan.a = <<"hide">>)
    /\ FInit /\ Rests("files", fLeft = Calls2(<<Rename(<<"a">>, <<"b">>)>>, <<Rename(<<"b">>, <<"a">>)>>))
    /\ IF unit = "graphics" THEN GInit
       ELSE gCall = Do("pixels", Canvas(1, 1, 1)) /\ gWild = FALSE /\ gSays = <<>> /\ gDone = FALSE /\ gPix = <<>>

MCNext ==
    \/ unit = "windows" /\ WindowsNext /\ UNCHANGED <<unit, fVars, gVars, arVars, myVars>>
    \/ unit = "files" /\ FilesNext /\ UNCHANGED <<unit, wVars, gVars, arVars, myVars>>
    \/ unit = "graphics" /\ BitmapsNext /\ UNCHANGED <<unit, wVars, fVars, arVars, myVars>>
    \/ unit = "archive" /\ ArchiveNext /\ UNCHANGED <<unit, wVars, fVars, gVars, myVars>>
    \/ unit = "myos" /\ MyNext /\ UNCHANGED <<unit, wVars, fVars, gVars, arVars>>

\* Every thread is scheduled when it can go on.
MCFairness ==
    /\ WF_wVars(unit = "windows" /\ (WStep("wm") \/ WmThread)) /\ WF_wVars(unit = "windows" /\ UserInput)
    /\ \A a \in Owners : WF_wVars(unit = "windows" /\ (WStep(a) \/ WApp(a)))
    /\ \A p \in FProcs : WF_fVars(unit = "files" /\ FStep(p))
    /\ WF_myVars(unit = "myos" /\ (DispatchSyscall \/ Returns \/ WaitKey \/ ReadKey))

MCSpec == MCInit /\ [][MCNext]_<<unit, wVars, fVars, gVars, arVars, myVars>> /\ MCFairness

\* What the libraries promise whoever calls them: drawing stays within its
\* canvas and sets the cells of the shape (Bitmaps), and what was written into
\* an archive or as a number is what is read again (Archive).
LibrariesInv == GraphicsInv /\ ArchiveInv

\* What programs get to, again and again: operations on windows are over and
\* requests to close have been served, calls of the file system have ended,
\* and who waits for a key waits on a window without messages
\* (WindowManager, FileManager, MyosRuntime::wait_key).
DesktopProgress ==
    []<>((unit = "windows" => ClosesServed) /\ (unit = "files" => CallsEnded) /\ (unit = "myos" => MyServed))
=============================================================================
