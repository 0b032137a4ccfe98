----------------------------- MODULE WasmReference -----------------------------
(***************************************************************************)
(* The meaning of a function body, read instruction by instruction from    *)
(* the source: an operand stack that grows and shrinks, labels for the     *)
(* open blocks, no stack levels, no fusion and no shared slices.  It is    *)
(* what WasmCodeBlock and WasmInterpreter together have to reproduce.      *)
(*                                                                         *)
(* A source function is [params, results, locals, body, kind, ret].        *)
(***************************************************************************)
EXTENDS WasmInterpreter

\* Index of the end that closes the block opened at k.
RECURSIVE MatchEnd(_, _, _)
MatchEnd(body, k, open) ==
    IF body[k].f = "end" THEN IF open = 0 THEN k ELSE MatchEnd(body, k + 1, open - 1)
    ELSE MatchEnd(body, k + 1, IF body[k].f \in {"block", "loop", "if"} THEN open + 1 ELSE open)

RFrame(g, src, args) ==
    [fn |-> g, pc |-> 1, stack |-> <<>>, labels |-> <<>>,
     locals |-> args \o Zeros(Len(src[g].locals))]
RState(frs, mem, gl) == [frs |-> frs, mem |-> mem, gl |-> gl, out |-> Running]

Stop(s, o) == [s EXCEPT !.out = o, !.frs = <<>>]
Cur(s) == Last(s.frs)
Arg(s, n) == Cur(s).stack[Len(Cur(s).stack) - n]     \* n-th operand from the top
Frame(s, fr) == [s EXCEPT !.frs = Append(Front(@), fr)]
\* Drop n operands, push those in vals, go to the next instruction.
Result(s, n, vals) ==
    Frame(s, [Cur(s) EXCEPT !.stack = SubSeq(@, 1, Len(@) - n) \o vals, !.pc = @ + 1])

RBranch(s, n, src) ==
    LET fr == Cur(s)
        at == Len(fr.labels) - n
        label == fr.labels[at]
        body == src[fr.fn].body
    IN  Frame(s, [fr EXCEPT !.stack = SubSeq(@, 1, label.height),
                            !.labels = SubSeq(@, 1, IF label.kind = "loop" THEN at ELSE at - 1),
                            !.pc = IF label.kind = "loop" THEN label.at + 1
                                   ELSE MatchEnd(body, label.at + 1, 0) + 1])
RReturn(s, src) ==
    LET fr == Cur(s)
        vals == IF src[fr.fn].results = <<>> THEN <<>> ELSE <<Last(fr.stack)>>
    IN  IF Len(s.frs) = 1 THEN Stop(s, Ok(IF vals = <<>> THEN 0 ELSE vals[1]))
        ELSE LET caller == [s EXCEPT !.frs = Front(@)] IN Result(caller, 0, vals)
RCall(s, g, src) ==
    LET f == src[g]
        n == Len(f.params)
        st == Cur(s).stack
        args == SubSeq(st, Len(st) - n + 1, Len(st))
    IN  CASE f.kind = "code" ->
             [s EXCEPT !.frs = Append(Append(Front(@),
                                [Cur(s) EXCEPT !.stack = SubSeq(@, 1, Len(@) - n)]),
                                RFrame(g, src, args))]
          [] f.kind = "host" ->
             IF f.results # <<>> /\ f.ret # f.results[1] THEN Stop(s, Trap("TypeMismatch"))
             ELSE Result(s, n, IF f.results = <<>> THEN <<>>
                               ELSE <<Wrap(f.ret, FoldLeft(LAMBDA x, y : x + y, 1, args))>>)
          [] OTHER -> Stop(s, Trap("NoMethod"))

RControl(s, i, src) ==
    LET fr == Cur(s)
    IN  CASE i.f = "unreachable" -> Stop(s, Trap("Unreachable"))
          [] i.f = "nop" -> Result(s, 0, <<>>)
          [] i.f \in {"block", "loop"} ->
             Frame(s, [fr EXCEPT !.labels = Append(@, [kind |-> i.f, at |-> fr.pc,
                                                       height |-> Len(fr.stack)]),
                                 !.pc = @ + 1])
          [] i.f = "end" -> IF fr.labels = <<>> THEN RReturn(s, src)
                            ELSE Frame(s, [fr EXCEPT !.labels = Front(@), !.pc = @ + 1])
          [] i.f = "br" -> RBranch(s, i.a[1], src)
          [] i.f = "br_if" -> LET d == Result(s, 1, <<>>)
                              IN  IF Arg(s, 0) = 0 THEN d ELSE RBranch(d, i.a[1], src)
          [] i.f = "br_table" ->
             RBranch(Result(s, 1, <<>>), i.a[Min({Arg(s, 0) + 1, Len(i.a)})], src)
          [] i.f = "return" -> RReturn(s, src)
          [] i.f = "call" -> RCall(s, i.a[1] + 1, src)
          [] i.f = "call_indirect" ->
             LET slot == Arg(s, 0) + 1
             IN  IF slot \notin DOMAIN Table THEN Stop(s, Trap("NoMethod"))
                 ELSE IF TypeOf[Table[slot] + 1] # i.a[1] THEN Stop(s, Trap("TypeMismatch"))
                 ELSE RCall(Frame(s, [fr EXCEPT !.stack = Front(@)]), Table[slot] + 1, src)
          [] i.f = "drop" -> Result(s, 1, <<>>)
          [] i.f = "select" -> Result(s, 3, <<IF Arg(s, 0) # 0 THEN Arg(s, 2) ELSE Arg(s, 1)>>)
          [] i.f = "local.get" -> Result(s, 0, <<fr.locals[i.a[1] + 1]>>)
          [] i.f \in {"local.set", "local.tee"} ->
             LET d == Frame(s, [fr EXCEPT !.locals[i.a[1] + 1] = Arg(s, 0)])
             IN  Result(d, IF i.f = "local.set" THEN 1 ELSE 0, <<>>)
          [] i.f = "global.get" -> Result(s, 0, <<s.gl[i.a[1] + 1]>>)
          [] i.f = "global.set" -> Result([s EXCEPT !.gl[i.a[1] + 1] = Arg(s, 0)], 1, <<>>)
          [] i.f = "memory.size" -> Result(s, 0, <<Len(s.mem) \div PageSize>>)
          [] i.f = "memory.grow" ->
             LET d == Signed("i32", Arg(s, 0))
                 old == Len(s.mem) \div PageSize
             IN  IF d < 0 \/ old + d > MaxPages THEN Result(s, 1, <<Wrap("i32", -1)>>)
                 ELSE Result([s EXCEPT !.mem = @ \o Zeros(d * PageSize)], 1, <<old>>)
          [] i.f \in {"memory.copy", "memory.fill"} ->
             LET n == Arg(s, 0)  x == Arg(s, 1)  d == Arg(s, 2)
             IN  IF d + n > Len(s.mem) \/ (i.f = "memory.copy" /\ x + n > Len(s.mem))
                 THEN Stop(s, Trap("OutOfBounds"))
                 ELSE Result([s EXCEPT !.mem = IF i.f = "memory.copy" THEN BulkCopy(@, d, x, n)
                                               ELSE BulkFill(@, d, x, n)], 3, <<>>)

RNumeric(s, i) ==
    LET x == Arg(s, 0)
    IN  CASE i.f = "const" -> Result(s, 0, <<Wrap(i.t, i.a[1])>>)
          [] i.f = "eqz" -> Result(s, 1, <<Flag(x = 0)>>)
          [] i.f = "wrap" -> Result(s, 1, <<Wrap("i32", x)>>)
          [] i.f = "extend_i32_s" -> Result(s, 1, <<Wrap("i64", Signed("i32", x))>>)
          [] i.f = "extend_i32_u" -> Result(s, 1, <<x>>)
          [] i.f \in UnOps \cup {"extend32_s"} -> Result(s, 1, <<Unary(i.t, i.f, x)>>)
          [] i.f \in RelOps -> Result(s, 2, <<Flag(Holds(i.t, i.f, Arg(s, 1), x))>>)
          [] i.f \in BinOps -> IF i.f \in DivOps /\ x = 0 THEN Stop(s, Trap("DivideByZero"))
                               ELSE Result(s, 2, <<Binary(i.t, i.f, Arg(s, 1), x)>>)
          [] i.f \in Loads ->
             LET n == Bytes(i)  ea == i.a[1] + x
             IN  IF ea + n > Len(s.mem) THEN Stop(s, Trap("OutOfBounds"))
                 ELSE Result(s, 1, <<LoadedAs(i, n, ReadBytes(s.mem, ea, n))>>)
          [] i.f \in Stores ->
             LET n == Bytes(i)  ea == i.a[1] + Arg(s, 1)
             IN  IF ea + n > Len(s.mem) THEN Stop(s, Trap("OutOfBounds"))
                 ELSE Result([s EXCEPT !.mem = WriteBytes(@, ea, n, x)], 2, <<>>)
          [] OTHER -> Result(s, 0, <<>>)

RECURSIVE RRun(_, _, _)
RRun(s, src, fuel) ==
    IF s.frs = <<>> \/ fuel = 0 THEN s
    ELSE LET i == src[Cur(s).fn].body[Cur(s).pc]
         IN  RRun(IF i.t = "" THEN RControl(s, i, src) ELSE RNumeric(s, i), src, fuel - 1)

(***************************************************************************)
(* Which bodies the claims are about: the rules of WebAssembly that the    *)
(* pass leaves to the producer of the module.                              *)
(***************************************************************************)
\* An instruction the pass does not check, used as the standard requires.
WellFormed(c, i) ==
    LET has(types) == /\ Depth(c) >= Len(types)
                      /\ SubSeq(c.stack, Depth(c) - Len(types) + 1, Depth(c)) = types
        floor == IF c.open = <<>> THEN 0 ELSE c.blocks[Last(c.open) + 1].level
    IN  CASE i.f = "call" -> i.a[1] + 1 \in DOMAIN Signatures /\ has(Signatures[i.a[1] + 1].params)
          [] i.f = "call_indirect" -> i.a[1] + 1 \in DOMAIN FuncTypes
                                      /\ has(FuncTypes[i.a[1] + 1].params \o <<"i32">>)
          [] i.f = "return" -> has(c.results)
          [] i.f \in Stores -> has(<<"i32", i.t>>)
          [] i.f = "end" -> c.open = <<>> \/ Depth(c) = floor
          [] OTHER -> TRUE
\* Blocks own the operands above their level only.
AboveFloor(c) == \A k \in DOMAIN c.open : Depth(c) >= c.blocks[c.open[k] + 1].level
Supported(i) == i.f \notin {"if", "else"} /\ (i.f \in {"block", "loop"} => i.a[1] = 0)
==============================================================================
