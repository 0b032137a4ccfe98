------------------------------- MODULE Audio -------------------------------
(***************************************************************************)
(* High Definition Audio and the audio manager.  The driver reads the      *)
(* widgets of a codec command by command, through the ring buffers or the  *)
(* immediate registers, sets up the path from a pin to its converter and   *)
(* starts the stream.  The audio thread then renders the notes of programs *)
(* and writes blocks behind the one that is playing.                       *)
(*                                                                         *)
(* A response is the command it answers: what the driver learns is what    *)
(* the codec says to that command.                                         *)
(***************************************************************************)
EXTENDS Integers, Sequences, SequencesExt, FiniteSetsExt, TLC

CONSTANTS AuCodecs,     \* codecs: the nodes below a node, and the widgets
          AuPlans,      \* what a program does
          RingLen,      \* entries of the CORB and of the RIRB
          AuTtl,        \* depth that the search for a converter goes to
          AuBlocks,     \* NUM_OF_BUFFER
          MaxBlock      \* blocks that are rendered

\* A codec says how long the list of a widget is.  Node 0 is the root, and 0
\* is no widget.
ASSUME AudioAssumption ==
    /\ RingLen \in Nat /\ RingLen >= 2
    /\ AuBlocks \in Nat \ {0} /\ AuTtl \in Nat /\ MaxBlock \in Nat
    /\ \A c \in AuCodecs :
         /\ c.groups \in Seq(DOMAIN c.below) /\ DOMAIN c.below \subseteq Nat \ {0}
         /\ \A g \in DOMAIN c.below : c.below[g] \in Seq(DOMAIN c.widgets)
         /\ DOMAIN c.widgets \subseteq Nat \ {0}
         /\ \A n \in DOMAIN c.widgets :
              c.widgets[n].conns \in Seq(Nat) /\ c.widgets[n].count = Len(c.widgets[n].conns)
    /\ \A a \in AuPlans : a = [plan |-> a.plan, do |-> <<>>] /\ a.plan \in Seq({"beep", "quiet", "drop"})

VARIABLES auCodec, auImmediate,     \* the codec, and how commands reach it
          auCh,         \* registers and ring buffers of the command channel
          auRun,        \* the driver or audio thread: stage, step, commands left, the one issued, what is rendered
          auSeen,       \* widgets, as read
          auPath,       \* from the converter to the pin
          auSet,        \* verbs that the codec has carried out
          auFit,        \* every response so far answered its command
          auPlays,      \* the block that the stream plays; -1 before it runs
          auPos,        \* current_pos
          auBuf,        \* blocks: number, notes, and not yet played
          auSeq,        \* number of the block that was rendered last
          auHeard,      \* number of the last block that was played for the first time
          auTorn,       \* the stream has come to a block while it was copied
          auApp,        \* what the program has still to do
          auCtx, auHandles, auEmitters, auNote, auHandle,   \* its context, notes and NEXT_HANDLE
          auStop        \* "gone": no driver; "panic"
auVars == <<auCodec, auImmediate, auCh, auRun, auSeen, auPath, auSet, auFit, auPlays, auPos, auBuf,
            auSeq, auHeard, auTorn, auApp, auCtx, auHandles, auEmitters, auNote, auHandle, auStop>>
busVars == <<auCodec, auImmediate, auCh, auRun, auSeen, auPath, auSet, auFit>>
streamVars == <<auPlays, auPos, auBuf, auSeq, auHeard, auTorn>>
noteVars == <<auApp, auCtx, auHandles, auEmitters, auNote, auHandle>>

AuCmd(verb, nid, arg) == [verb |-> verb, nid |-> nid, arg |-> arg]
NoAuCmd == AuCmd("none", 0, 0)
Silent == [seq |-> 0, notes |-> {}, fresh |-> FALSE]

AuInit ==
    /\ auCodec \in AuCodecs /\ auImmediate \in BOOLEAN
    /\ auCh = [wp |-> 0, rp |-> 0, rwp |-> 0, rd |-> 0, busy |-> FALSE, valid |-> FALSE, hand |-> NoAuCmd,
               corb |-> [i \in 0..(RingLen - 1) |-> NoAuCmd], rirb |-> [i \in 0..(RingLen - 1) |-> NoAuCmd]]
    /\ auRun = [stage |-> "enumerate", pc |-> "issue", todo |-> <<AuCmd("nodes", 0, 0)>>, cmd |-> NoAuCmd,
               notes |-> {}]
    /\ auSeen = <<>> /\ auPath = <<>> /\ auSet = {} /\ auFit = TRUE
    /\ auPlays = -1 /\ auPos = 0 /\ auBuf = [i \in 0..(AuBlocks - 1) |-> Silent]
    /\ auSeq = 0 /\ auHeard = 0 /\ auTorn = FALSE
    /\ auApp \in AuPlans /\ auCtx = "none" /\ auHandles = <<>> /\ auEmitters = {} /\ auNote = 0 /\ auHandle = 1
    /\ auStop = "no"

-----------------------------------------------------------------------------
(* Commands *)

AuAt(pc) == auStop = "no" /\ auRun.pc = pc

\* Corb::can_write and Rirb::has_response, or the bits ICB and IRV.
CanWrite == IF auImmediate THEN ~auCh.busy ELSE auCh.wp = auCh.rp
HasResponse == IF auImmediate THEN auCh.valid ELSE auCh.rwp # auCh.rd
Following(i) == (i + 1) % RingLen

AuIssue ==
    /\ AuAt("issue") /\ auRun.todo # <<>> /\ CanWrite
    /\ LET c == Head(auRun.todo)
       IN /\ auRun' = [auRun EXCEPT !.pc = "await", !.todo = Tail(@), !.cmd = c]
          /\ auCh' = IF auImmediate THEN [auCh EXCEPT !.busy = TRUE, !.corb[0] = c]
                     ELSE [auCh EXCEPT !.corb[Following(auCh.wp)] = c, !.wp = Following(auCh.wp)]
    /\ UNCHANGED <<auCodec, auImmediate, auSeen, auPath, auSet, auFit, streamVars, noteVars, auStop>>

\* The controller takes a command, and has the answer of the codec later.
AuFetch ==
    /\ auCh.hand = NoAuCmd /\ (IF auImmediate THEN auCh.busy ELSE auCh.wp # auCh.rp)
    /\ auCh' = IF auImmediate THEN [auCh EXCEPT !.hand = auCh.corb[0]]
               ELSE [auCh EXCEPT !.rp = Following(auCh.rp), !.hand = auCh.corb[Following(auCh.rp)]]
    /\ UNCHANGED <<auCodec, auImmediate, auRun, auSeen, auPath, auSet, auFit, streamVars, noteVars, auStop>>
AuRespond ==
    /\ auCh.hand # NoAuCmd
    /\ auSet' = auSet \cup {<<auCh.hand.verb, auCh.hand.nid>>}
    /\ auCh' = IF auImmediate
               THEN [auCh EXCEPT !.hand = NoAuCmd, !.rirb[0] = auCh.hand, !.busy = FALSE, !.valid = TRUE]
               ELSE [auCh EXCEPT !.hand = NoAuCmd, !.rirb[Following(auCh.rwp)] = auCh.hand, !.rwp = Following(auCh.rwp)]
    /\ UNCHANGED <<auCodec, auImmediate, auRun, auSeen, auPath, auFit, streamVars, noteVars, auStop>>

WidgetReads(n) == <<AuCmd("caps", n, 0), AuCmd("config", n, 0), AuCmd("out_amp", n, 0), AuCmd("in_amp", n, 0),
                    AuCmd("length", n, 0)>>
EntriesFrom(n, at) == IF at < auCodec.widgets[n].count THEN <<AuCmd("entry", n, at)>> ELSE <<>>

\* An answer has two entries of the list here, and four in the code.
EntriesAt(c) == LET list == auCodec.widgets[c.nid].conns
                IN SubSeq(list, c.arg + 1, Min({c.arg + 2, Len(list)}))

\* The commands for one node after the other, size of them for each.
ForEach(nodes, size, Cmds(_)) ==
    [k \in 1..(size * Len(nodes)) |-> Cmds(nodes[((k - 1) \div size) + 1])[((k - 1) % size) + 1]]

\* What enumerate and Node::new ask for after an answer.
After(c) ==
    CASE c.verb = "nodes" /\ c.nid = 0 ->
           [k \in 1..Len(auCodec.groups) |-> AuCmd("nodes", auCodec.groups[k], 0)]
      [] c.verb = "nodes" /\ c.nid # 0 -> ForEach(auCodec.below[c.nid], 5, WidgetReads)
      [] c.verb = "length" -> EntriesFrom(c.nid, 0)
      [] c.verb = "entry" -> EntriesFrom(c.nid, Len(auSeen[c.nid].conns) + Len(EntriesAt(c)))
      [] OTHER -> <<>>

\* What they keep of it.
Learnt(c) ==
    CASE c.verb = "caps" ->
           [n \in DOMAIN auSeen \cup {c.nid} |->
              IF n = c.nid THEN [type |-> auCodec.widgets[n].type, pin |-> <<>>, conns |-> <<>>] ELSE auSeen[n]]
      [] c.verb = "config" -> [auSeen EXCEPT ![c.nid].pin = auCodec.widgets[c.nid].pin]
      [] c.verb = "entry" -> [auSeen EXCEPT ![c.nid].conns = @ \o EntriesAt(c)]
      [] OTHER -> auSeen

AuRead ==
    /\ AuAt("await") /\ HasResponse
    /\ LET c == auCh.rirb[IF auImmediate THEN 0 ELSE Following(auCh.rd)]
       IN /\ auFit' = (auFit /\ c = auRun.cmd)
          /\ auSeen' = Learnt(c)
          /\ auRun' = [auRun EXCEPT !.pc = "issue", !.todo = After(c) \o @]
          /\ auCh' = IF auImmediate THEN [auCh EXCEPT !.valid = FALSE]
                     ELSE [auCh EXCEPT !.rd = Following(auCh.rd)]
    /\ UNCHANGED <<auCodec, auImmediate, auPath, auSet, streamVars, noteVars, auStop>>

\* WAIT_DELAY_MS are over: without the widgets there is no driver, and every
\* command after them is unwrapped.
AuTimeout ==
    /\ AuAt("await") /\ ~HasResponse
    /\ auStop' = IF auRun.stage = "enumerate" THEN "gone" ELSE "panic"
    /\ UNCHANGED <<busVars, streamVars, noteVars>>

-----------------------------------------------------------------------------
(* The path of the sound *)

PinsOut == {n \in DOMAIN auSeen : auSeen[n].type = "pin" /\ auSeen[n].pin.out}

\* The first device of the list that a pin fits, and its first pin; 0 is none.
FirstPin(devices, Fits(_, _)) ==
    LET fitted == {d \in 1..Len(devices) : \E n \in PinsOut : Fits(n, devices[d])}
    IN IF fitted = {} THEN 0 ELSE Min({n \in PinsOut : Fits(n, devices[Min(fitted)])})
FitsDevice(n, x) == auSeen[n].pin.seq = 0 /\ auSeen[n].pin.device = x
FitsWired(n, x) == FitsDevice(n, x) /\ auSeen[n].pin.wired

FindBestOutputPin ==
    IF Cardinality(PinsOut) < 2 THEN (IF PinsOut = {} THEN 0 ELSE Min(PinsOut))
    ELSE LET wired == FirstPin(<<"HPOut", "LineOut", "Speaker">>, FitsWired)
         IN IF wired # 0 THEN wired ELSE FirstPin(<<"HPOut", "LineOut", "DigitalOtherOut">>, FitsDevice)

\* The way from a converter to a pin.  Only the first connection of a widget
\* is followed, so there is one at most.
LeadsTo(from) ==
    {p \in UNION {[1..n -> DOMAIN auSeen] : n \in 1..(AuTtl + 1)} :
        /\ p[Len(p)] = from /\ auSeen[p[1]].type = "output"
        /\ \A k \in 2..Len(p) : /\ auSeen[p[k]].type # "output" /\ auSeen[p[k]].conns # <<>>
                               /\ p[k - 1] = Head(auSeen[p[k]].conns)}
PathToDac(from) == IF LeadsTo(from) = {} THEN <<>> ELSE CHOOSE p \in LeadsTo(from) : TRUE

SetupCommands(pin, path) ==
    <<AuCmd("pin", pin, 0), AuCmd("eapd", pin, 0)>>
    \o ForEach(path, 2, LAMBDA n : <<AuCmd("amp", n, 0), AuCmd("power", n, 0)>>)
    \o <<AuCmd("format", path[1], 0), AuCmd("stream", path[1], 0)>>

\* All widgets are there.  A pin without a path to a converter is unwrapped.
ChoosePath ==
    /\ AuAt("issue") /\ auRun.todo = <<>> /\ auRun.stage = "enumerate"
    /\ LET pin == FindBestOutputPin
           path == PathToDac(pin)
       IN IF pin = 0 THEN auStop' = "gone" /\ UNCHANGED <<auRun, auPath>>
          ELSE IF path = <<>> THEN auStop' = "panic" /\ UNCHANGED <<auRun, auPath>>
          ELSE /\ auPath' = path
               /\ auRun' = [auRun EXCEPT !.stage = "setup", !.todo = SetupCommands(pin, path)]
               /\ UNCHANGED auStop
    /\ UNCHANGED <<auCodec, auImmediate, auCh, auSeen, auSet, auFit, streamVars, noteVars>>

\* The stream runs and the audio thread, which looks for a driver every
\* 100 ms, finds it and sets the volume.  step_size shifts to the wrong side
\* and is always 1: a gain of 10 dB is 40 steps, or muted if there are fewer.
StartStream ==
    /\ AuAt("issue") /\ auRun.todo = <<>> /\ auRun.stage = "setup"
    /\ auPlays' = 0
    /\ auRun' = [auRun EXCEPT !.stage = "play", !.todo = <<AuCmd("volume", auPath[1], 0)>>]
    /\ UNCHANGED <<auCodec, auImmediate, auCh, auSeen, auPath, auSet, auFit, auPos, auBuf, auSeq, auHeard,
                   auTorn, noteVars, auStop>>

-----------------------------------------------------------------------------
(* The stream *)

\* One block of the buffer; emitters are rendered under their lock.
Render ==
    /\ AuAt("issue") /\ auRun.todo = <<>> /\ auRun.stage = "play" /\ auSeq < MaxBlock
    /\ auSeq' = auSeq + 1
    /\ auRun' = [auRun EXCEPT !.pc = "write", !.notes = auEmitters]
    /\ UNCHANGED <<auCodec, auImmediate, auCh, auSeen, auPath, auSet, auFit, auPlays, auPos, auBuf, auHeard,
                   auTorn, noteVars, auStop>>

\* Mutant: the block after the one that plays is full.
HasRoomLate == auPos # (auPlays + 1) % AuBlocks

\* The block to write is not the one that plays.
HasRoom == auPlays # auPos

\* write_data: the position moves on, then the block is copied.  Without room
\* the thread tries again after 1 ms.
WriteBlock ==
    /\ AuAt("write") /\ HasRoom
    /\ auPos' = (auPos + 1) % AuBlocks
    /\ auRun' = [auRun EXCEPT !.pc = "copy"]
    /\ UNCHANGED <<auCodec, auImmediate, auCh, auSeen, auPath, auSet, auFit, auPlays, auBuf, auSeq, auHeard,
                   auTorn, noteVars, auStop>>
Written == (auPos - 1) % AuBlocks
CopyBlock ==
    /\ AuAt("copy")
    /\ auBuf' = [auBuf EXCEPT ![Written] = [seq |-> auSeq, notes |-> auRun.notes, fresh |-> TRUE]]
    /\ auRun' = [auRun EXCEPT !.pc = "issue", !.notes = {}]
    /\ UNCHANGED <<auCodec, auImmediate, auCh, auSeen, auPath, auSet, auFit, auPlays, auPos, auSeq, auHeard,
                   auTorn, noteVars, auStop>>

\* The controller goes on to the next block.
PlayNext ==
    /\ auStop = "no" /\ auPlays # -1
    /\ LET b == (auPlays + 1) % AuBlocks
       IN /\ auPlays' = b
          /\ auHeard' = IF auBuf[b].fresh THEN auBuf[b].seq ELSE auHeard
          /\ auBuf' = [auBuf EXCEPT ![b].fresh = FALSE]
          /\ auTorn' = (auTorn \/ (auRun.pc = "copy" /\ b = Written))
    /\ UNCHANGED <<busVars, auPos, auSeq, noteVars, auStop>>

-----------------------------------------------------------------------------
(* Notes of a program *)

\* Function 20 of the Haribote API: the note before is stopped, a new one is
\* entered into the context and then into the emitters.
BeepSteps == <<"stop", "push", "insert">>

\* NoteControl::stop, AudioContext::schedule and its drop, which removes the
\* emitters of its handles.  A frequency out of range is only a stop; a node
\* that does not end in a destination does not start.
AppCall ==
    /\ auStop = "no" /\ auApp.do = <<>> /\ auApp.plan # <<>>
    /\ LET c == Head(auApp.plan)
       IN auApp' = [plan |-> Tail(auApp.plan),
                    do |-> CASE c = "beep" -> BeepSteps
                             [] c = "quiet" -> <<"stop">>
                             [] c = "drop" -> [k \in 1..Len(auHandles) |-> "remove"]]
    /\ auCtx' = IF Head(auApp.plan) = "drop" THEN "dropped" ELSE "live"
    /\ UNCHANGED <<busVars, streamVars, auHandles, auEmitters, auNote, auHandle, auStop>>
AppStep ==
    /\ auStop = "no" /\ auApp.do # <<>> /\ auApp' = [auApp EXCEPT !.do = Tail(@)]
    /\ LET op == Head(auApp.do)
       IN \/ /\ op = "stop" /\ auEmitters' = auEmitters \ {auNote} /\ auNote' = 0
             /\ UNCHANGED <<auHandles, auHandle>>
          \/ /\ op = "push" /\ auHandles' = Append(auHandles, auHandle)
             /\ UNCHANGED <<auEmitters, auNote, auHandle>>
          \/ /\ op = "insert" /\ auEmitters' = auEmitters \cup {auHandle} /\ auNote' = auHandle
             /\ auHandle' = auHandle + 1 /\ UNCHANGED auHandles
          \/ /\ op = "remove" /\ auHandles' = Tail(auHandles) /\ auEmitters' = auEmitters \ {Head(auHandles)}
             /\ UNCHANGED <<auNote, auHandle>>
    /\ UNCHANGED <<busVars, streamVars, auCtx, auStop>>

AuCodecStep == AuFetch \/ AuRespond
AuThread == AuIssue \/ AuRead \/ AuTimeout \/ ChoosePath \/ StartStream \/ Render \/ WriteBlock \/ CopyBlock
AuProgram == AppCall \/ AppStep
AudioNext == AuCodecStep \/ AuThread \/ PlayNext \/ AuProgram

AuSpec == AuInit /\ [][AudioNext]_auVars

-----------------------------------------------------------------------------
(* Properties *)

\* A response is taken for the command that was issued, though the controller
\* answers late (CommandBuffer::run).
AnswersFit == auFit

\* When the stream runs the widgets were read as they are, with lists that
\* take several answers, and everything from the pin to the converter is
\* connected, powered and open.
PathPlays ==
    auPlays # -1 =>
        /\ \A n \in DOMAIN auSeen : auSeen[n].conns = auCodec.widgets[n].conns
        /\ \A k \in 1..(Len(auPath) - 1) : auPath[k] = Head(auCodec.widgets[auPath[k + 1]].conns)
        /\ auSeen[auPath[1]].type = "output" /\ auSeen[Last(auPath)].type = "pin"
        /\ {<<v, n>> : v \in {"amp", "power"}, n \in Range(auPath)} \subseteq auSet
        /\ <<"stream", auPath[1]>> \in auSet

Unplayed == {b \in DOMAIN auBuf : auBuf[b].fresh}

\* Every block is played once after it was written, in order and none is left
\* out, and none while it plays, though the two do not wait for each other -- unless
\* the stream, a whole round ahead, comes to a block while it is copied: its
\* position is read before.
HeardInOrder ==
    ~auTorn =>
        /\ {auBuf[b].seq : b \in Unplayed} = (auHeard + 1)..(IF auRun.pc \in {"write", "copy"} THEN auSeq - 1 ELSE auSeq)
        /\ auRun.pc = "copy" => Written # auPlays

\* A program has one note, and none once its context is gone.
NotesOwned ==
    /\ auEmitters \subseteq Range(auHandles) /\ Cardinality(auEmitters) <= 1
    /\ auCtx = "dropped" /\ auApp.do = <<>> => auEmitters = {}

AudioInv == AnswersFit /\ PathPlays /\ HeardInOrder /\ NotesOwned

\* All blocks have been played and the program is done.
SoundHeard == auStop # "no" \/ (auSeq = MaxBlock /\ AuAt("issue") /\ Unplayed = {} /\ auApp.plan = <<>> /\ auApp.do = <<>>)
=============================================================================
