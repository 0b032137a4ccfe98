----------------------------- MODULE WasmCodeBlock -----------------------------
(***************************************************************************)
(* WasmCodeBlock::generate: one pass over a function body that checks the  *)
(* types of the operands, gives every instruction the level of the value   *)
(* stack at which it works, and then fuses pairs of instructions, drops    *)
(* the ones without effect and resolves the targets of branches.           *)
(*                                                                         *)
(* An instruction is [t, f, a]: its type prefix, its name and its          *)
(* immediates; an intermediate code adds lv, its stack level, and whether  *)
(* it was fused with its predecessor.  The context of the pass is a record *)
(* and Gen* maps it and an instruction to the next context, one operator   *)
(* for each arm of the match.                                              *)
(***************************************************************************)
EXTENDS Integers, FiniteSets, SequencesExt

-----------------------------------------------------------------------------
(* The integer instructions as the interpreter evaluates them.  A value is *)
(* an unsigned number; i32 has four bytes and i64 eight.  A byte has       *)
(* ByteBits bits, 8 in the code: every width is scaled with it, so that    *)
(* small instances keep the proportions of the real types.  The float      *)
(* instructions are compiled out of the system (feature "float") and are   *)
(* left out.                                                               *)

CONSTANT ByteBits

ASSUME ByteBitsAssumption == ByteBits \in Nat \ {0}

RelOps == {"eq", "ne", "lt_s", "lt_u", "gt_s", "gt_u", "le_s", "le_u", "ge_s", "ge_u"}
DivOps == {"div_s", "div_u", "rem_s", "rem_u"}
BinOps == DivOps \cup {"add", "sub", "mul", "and", "or", "xor", "shl", "shr_s", "shr_u",
                       "rotl", "rotr"}
UnOps  == {"clz", "ctz", "popcnt", "extend8_s", "extend16_s"}
\* The operators that a preceding constant, or a following br_if, is fused with.
FusedBin32 == {"add", "sub", "and", "or", "xor", "shl", "shr_s", "shr_u"}
FusedBin64 == {"add", "sub"}

Bits(t) == IF t = "i32" THEN 4 * ByteBits ELSE 8 * ByteBits
Size(t) == 2 ^ Bits(t)
\* The two's complement reading of the low w bits of v, and back into type t.
SignedBits(w, v) == LET u == v % 2 ^ w IN IF u >= 2 ^ (w - 1) THEN u - 2 ^ w ELSE u
Signed(t, v) == SignedBits(Bits(t), v)
Wrap(t, v) == v % Size(t)

BitOf(v, i) == (v \div 2 ^ i) % 2
FromBits(t, B(_)) ==
    FoldFunction(LAMBDA x, y : x + y, 0, [i \in 0 .. Bits(t) - 1 |-> B(i) * 2 ^ i])

\* get_i32, get_bool and their kin: the part of a 64-bit cell that an operator reads.
Get(t, cell) == cell % Size(t)
Flag(b) == IF b THEN 1 ELSE 0

Holds(t, f, x, y) ==
    LET sx == Signed(t, x)  sy == Signed(t, y)
    IN  CASE f = "eq" -> x = y      [] f = "ne" -> x # y
          [] f = "lt_s" -> sx < sy  [] f = "lt_u" -> x < y
          [] f = "gt_s" -> sx > sy  [] f = "gt_u" -> x > y
          [] f = "le_s" -> sx <= sy [] f = "le_u" -> x <= y
          [] f = "ge_s" -> sx >= sy [] f = "ge_u" -> x >= y

Magnitude(n) == IF n < 0 THEN -n ELSE n
\* Rust divides towards zero; the remainder has the sign of the dividend.
TruncDiv(x, y) == LET q == Magnitude(x) \div Magnitude(y) IN IF (x < 0) # (y < 0) THEN -q ELSE q
TruncRem(x, y) == x - y * TruncDiv(x, y)

Divide(t, f, x, y) ==
    LET sx == Signed(t, x)  sy == Signed(t, y)
    IN  CASE f = "div_s" -> Wrap(t, TruncDiv(sx, sy)) [] f = "div_u" -> x \div y
          [] f = "rem_s" -> Wrap(t, TruncRem(sx, sy)) [] f = "rem_u" -> x % y

\* Shifts and rotations take their count modulo the width.
Shift(t, f, x, y) ==
    LET w == Bits(t)  n == y % w
    IN  CASE f = "shl" -> Wrap(t, x * 2 ^ n)
          [] f = "shr_u" -> x \div 2 ^ n
          [] f = "shr_s" -> Wrap(t, Signed(t, x) \div 2 ^ n)
          [] f = "rotl" -> Wrap(t, x * 2 ^ n) + x \div 2 ^ (w - n)
          [] f = "rotr" -> x \div 2 ^ n + Wrap(t, x * 2 ^ (w - n))

Bitwise2(t, f, x, y) ==
    LET a(i) == BitOf(x, i)  b(i) == BitOf(y, i)
        And(i) == a(i) * b(i)  Or(i) == Flag(a(i) + b(i) > 0)  Xor(i) == (a(i) + b(i)) % 2
    IN  CASE f = "and" -> FromBits(t, And) [] f = "or" -> FromBits(t, Or)
          [] f = "xor" -> FromBits(t, Xor)

Binary(t, f, x, y) ==
    CASE f = "add" -> Wrap(t, x + y)
      [] f = "sub" -> Wrap(t, x - y)
      [] f = "mul" -> Wrap(t, x * y)
      [] f \in DivOps -> Divide(t, f, x, y)
      [] f \in {"and", "or", "xor"} -> Bitwise2(t, f, x, y)
      [] OTHER -> Shift(t, f, x, y)

Unary(t, f, x) ==
    LET w == Bits(t)
        ones == {i \in 0 .. w - 1 : BitOf(x, i) = 1}
    IN  CASE f = "popcnt" -> Cardinality(ones)
          [] f = "clz" -> IF ones = {} THEN w ELSE w - 1 - Max(ones)
          [] f = "ctz" -> IF ones = {} THEN w ELSE Min(ones)
          [] f = "extend8_s" -> Wrap(t, SignedBits(ByteBits, x))
          [] f = "extend16_s" -> Wrap(t, SignedBits(2 * ByteBits, x))
          [] f = "extend32_s" -> Wrap(t, SignedBits(4 * ByteBits, x))

-----------------------------------------------------------------------------
(* The compiler *)

CONSTANTS
    Signatures,   \* the functions of the module by index + 1: [params, results]
    FuncTypes,    \* its types by index + 1, for call_indirect
    Globals       \* its globals by index + 1: [ty, mut]

Ctx0(params, results, locals, memories) ==
    [results |-> results, locals |-> params \o locals, nparams |-> Len(params),
     memories |-> memories, stack |-> <<>>, blocks |-> <<>>, open |-> <<>>,
     codes |-> <<>>, max |-> 0, err |-> "none", closed |-> FALSE]

Reject(c, e) == [c EXCEPT !.err = e]
Code(t, f, a, lv) == [t |-> t, f |-> f, a |-> a, lv |-> lv, fused |-> "no"]
Depth(c) == Len(c.stack)

\* Push one code; the n topmost operands are replaced by those in push.
Emit(c, n, code, push) ==
    [c EXCEPT !.codes = Append(@, code),
              !.stack = SubSeq(@, 1, Len(@) - n) \o push]

\* Check that the operands are args, emit the instruction below them, push the result.
Typed(c, i, args, push) ==
    LET n == Len(args)
    IN  IF Depth(c) < n THEN Reject(c, "OutOfStack")
        ELSE IF SubSeq(c.stack, Depth(c) - n + 1, Depth(c)) # args THEN Reject(c, "TypeMismatch")
        ELSE Emit(c, n, Code(i.t, i.f, i.a, Depth(c) - n), push)

BlockType(n) == CASE n = 0 -> <<>> [] n = 1 -> <<"i32">> [] n = 2 -> <<"i64">>

GenUnreachable(c, i) == Emit(c, 0, Code("", "unreachable", <<>>, Depth(c)), <<>>)

OpenBlock(c, kind, ty) ==
    [c EXCEPT !.open = Append(@, Len(c.blocks)),
              !.blocks = Append(@, [kind |-> kind, ty |-> ty, level |-> Depth(c)])]

\* Blocks with a result are accepted and left undefined; so are if and else.
GenBlock(c, i) ==
    Emit(OpenBlock(c, "block", i.a[1]), 0,
         IF i.a[1] = 0 THEN Code("", "block", <<Len(c.blocks)>>, Depth(c))
         ELSE Code("", "undefined", <<>>, Depth(c)), <<>>)
GenLoop(c, i) ==
    Emit(OpenBlock(c, "loop", i.a[1]), 0,
         IF i.a[1] = 0 THEN Code("", "block", <<Len(c.blocks)>>, Depth(c))
         ELSE Code("", "undefined", <<>>, Depth(c)), <<>>)
GenIf(c, i) ==
    LET d == Typed(c, [t |-> "", f |-> "undefined", a |-> <<>>], <<"i32">>, <<>>)
    IN  IF d.err # "none" THEN d ELSE OpenBlock(d, "if", i.a[1])
GenElse(c, i) ==
    IF c.open = <<>> \/ c.blocks[Last(c.open) + 1].kind # "if" THEN Reject(c, "ElseWithoutIf")
    ELSE LET level == c.blocks[Last(c.open) + 1].level
         IN  IF Depth(c) < level THEN Reject(c, "OutOfStack")
             ELSE Emit(c, Depth(c) - level, Code("", "undefined", <<>>, level), <<>>)

\* The end of a block drops what lies above its level without looking at it.  A block
\* whose operands were consumed below that level makes the subtraction wrap, and the
\* drops run out of operands.
EndOfBlock(c) ==
    LET b == Last(c.open)
        block == c.blocks[b + 1]
        push == BlockType(block.ty)
    IN  IF Depth(c) < block.level THEN Reject(c, "OutOfStack")
        ELSE [Emit(c, Depth(c) - block.level,
                   Code("", "end", <<b>>, block.level + Len(push)), push)
              EXCEPT !.open = Front(@)]
EndOfFunction(c) ==
    LET d == [Emit(c, 0, Code("", "return", <<>>, Depth(c) - 1), <<>>) EXCEPT !.closed = TRUE]
    IN  IF c.results # <<>>
        THEN IF Reverse(c.results) # c.stack THEN Reject(d, "TypeMismatch") ELSE d
        ELSE IF c.stack # <<>> THEN Reject(d, "InvalidStackLevel") ELSE d
GenEnd(c, i) == IF c.open # <<>> THEN EndOfBlock(c) ELSE EndOfFunction(c)

HasLabel(c, br) == br < Len(c.open)
Label(c, br) == c.open[Len(c.open) - br]
GenBr(c, i) ==
    IF ~HasLabel(c, i.a[1]) THEN Reject(c, "OutOfBranch")
    ELSE Emit(c, 0, Code("", "br", <<Label(c, i.a[1])>>, Depth(c)), <<>>)
GenBrIf(c, i) ==
    IF ~HasLabel(c, i.a[1]) THEN Reject(c, "OutOfBranch")
    ELSE Typed(c, [i EXCEPT !.a = <<Label(c, i.a[1])>>], <<"i32">>, <<>>)
GenBrTable(c, i) ==
    IF \E k \in DOMAIN i.a : ~HasLabel(c, i.a[k]) THEN Reject(c, "OutOfBranch")
    ELSE Typed(c, [i EXCEPT !.a = [k \in DOMAIN i.a |-> Label(c, i.a[k])]], <<"i32">>, <<>>)
GenReturn(c, i) == Emit(c, 0, Code("", "return", <<>>, Depth(c) - 1), <<>>)

\* A call pops as many operands as the callee has parameters, without a type check.
Apply(c, code, sig) == Emit(c, Min({Len(sig.params), Depth(c)}), code, sig.results)
GenCall(c, i) ==
    IF i.a[1] + 1 \notin DOMAIN Signatures THEN Reject(c, "InvalidParameter")
    ELSE Apply(c, Code("", "call", i.a, Depth(c)), Signatures[i.a[1] + 1])
GenCallIndirect(c, i) ==
    IF i.a[1] + 1 \notin DOMAIN FuncTypes THEN Reject(c, "InvalidParameter")
    ELSE IF c.stack = <<>> THEN Reject(c, "OutOfStack")
    ELSE IF Last(c.stack) # "i32" THEN Reject(c, "TypeMismatch")
    ELSE Apply([c EXCEPT !.stack = Front(@)],
               Code("", "call_indirect", i.a, Depth(c) - 1), FuncTypes[i.a[1] + 1])

GenDrop(c, i) ==
    IF c.stack = <<>> THEN Reject(c, "OutOfStack") ELSE [c EXCEPT !.stack = Front(@)]
GenSelect(c, i) ==
    IF Depth(c) < 3 THEN Reject(c, "OutOfStack")
    ELSE LET t == c.stack[Depth(c) - 2] IN Typed(c, i, <<t, t, "i32">>, <<t>>)

\* The name of the code tells 32-bit locals from 64-bit ones: only the latter are fused.
LocalOp(c, i) ==
    [i EXCEPT !.t = IF c.locals[i.a[1] + 1] \in {"i32", "f32"} THEN "i32" ELSE "i64"]
IsLocal(c, i) == i.a[1] + 1 \in DOMAIN c.locals
GenLocalGet(c, i) ==
    IF ~IsLocal(c, i) THEN Reject(c, "InvalidLocal")
    ELSE Typed(c, LocalOp(c, i), <<>>, <<c.locals[i.a[1] + 1]>>)
GenLocalSet(c, i) ==
    IF ~IsLocal(c, i) THEN Reject(c, "InvalidLocal")
    ELSE Typed(c, LocalOp(c, i), <<c.locals[i.a[1] + 1]>>, <<>>)
GenLocalTee(c, i) ==
    IF ~IsLocal(c, i) THEN Reject(c, "InvalidLocal")
    ELSE LET t == c.locals[i.a[1] + 1] IN Typed(c, LocalOp(c, i), <<t>>, <<t>>)
GenGlobalGet(c, i) ==
    IF i.a[1] + 1 \notin DOMAIN Globals THEN Reject(c, "InvalidGlobal")
    ELSE Typed(c, i, <<>>, <<Globals[i.a[1] + 1].ty>>)
GenGlobalSet(c, i) ==
    IF i.a[1] + 1 \notin DOMAIN Globals THEN Reject(c, "InvalidGlobal")
    ELSE IF ~Globals[i.a[1] + 1].mut THEN Reject(c, "InvalidGlobal")
    ELSE Typed(c, i, <<Globals[i.a[1] + 1].ty>>, <<>>)

WithMemory(c, d) == IF c.memories = 0 THEN Reject(c, "OutOfMemory") ELSE d
GenI32Load(c, i) == WithMemory(c, Typed(c, i, <<"i32">>, <<"i32">>))
GenI64Load(c, i) == WithMemory(c, Typed(c, i, <<"i32">>, <<"i64">>))
\* The checks of stores accept more than the type of the instruction allows.
StoreIf(c, i, Ok(_, _)) ==
    IF Depth(c) < 2 THEN Reject(c, "OutOfStack")
    ELSE LET x == c.stack[Depth(c) - 1]  d == c.stack[Depth(c)]
         IN  IF Ok(x, d) THEN Typed(c, i, <<x, d>>, <<>>) ELSE Reject(c, "TypeMismatch")
GenI32Store(c, i) == WithMemory(c, StoreIf(c, i, LAMBDA x, d : x = d \/ x = "i32"))
GenI64Store(c, i) == WithMemory(c, StoreIf(c, i, LAMBDA x, d : x = "i32" \/ d = "i64"))
GenMemorySize(c, i) == WithMemory(c, Typed(c, i, <<>>, <<"i32">>))
GenMemoryGrow(c, i) == WithMemory(c, Typed(c, i, <<"i32">>, <<"i32">>))
GenMemoryCopy(c, i) == WithMemory(c, Typed(c, i, <<"i32", "i32", "i32">>, <<>>))
GenMemoryFill(c, i) == WithMemory(c, Typed(c, i, <<"i32", "i32", "i32">>, <<>>))

GenI32Const(c, i) == Typed(c, i, <<>>, <<"i32">>)
GenI64Const(c, i) == Typed(c, i, <<>>, <<"i64">>)
GenI32Unary(c, i) == Typed(c, i, <<"i32">>, <<"i32">>)
GenI32Relational(c, i) == Typed(c, i, <<"i32", "i32">>, <<"i32">>)
GenI32Arith(c, i) == Typed(c, i, <<"i32", "i32">>, <<"i32">>)
GenI32Bits(c, i) == Typed(c, i, <<"i32", "i32">>, <<"i32">>)
GenI64Unary(c, i) == Typed(c, i, <<"i64">>, <<"i64">>)
GenI64Relational(c, i) == Typed(c, i, <<"i64", "i64">>, <<"i32">>)
GenI64Arith(c, i) == Typed(c, i, <<"i64", "i64">>, <<"i64">>)
GenI64Bits(c, i) == Typed(c, i, <<"i64", "i64">>, <<"i64">>)
GenTest64(c, i) == Typed(c, i, <<"i64">>, <<"i32">>)
GenExtend32(c, i) == Typed(c, i, <<"i32">>, <<"i64">>)
GenReinterpret(c, i) ==
    LET from == CASE i.f = "i32.reinterpret" -> "f32" [] i.f = "i64.reinterpret" -> "f64"
                  [] i.f = "f32.reinterpret" -> "i32" [] i.f = "f64.reinterpret" -> "i64"
    IN  Typed(c, i, <<from>>, <<i.t>>)

Loads == {"load", "load8_s", "load8_u", "load16_s", "load16_u", "load32_s", "load32_u"}
Stores == {"store", "store8", "store16", "store32"}
ArithOps == DivOps \cup {"add", "sub", "mul"}

GenControl(c, i) ==
    CASE i.f = "unreachable" -> GenUnreachable(c, i)
      [] i.f = "nop" -> c
      [] i.f = "block" -> GenBlock(c, i)      [] i.f = "loop" -> GenLoop(c, i)
      [] i.f = "if" -> GenIf(c, i)            [] i.f = "else" -> GenElse(c, i)
      [] i.f = "end" -> GenEnd(c, i)          [] i.f = "br" -> GenBr(c, i)
      [] i.f = "br_if" -> GenBrIf(c, i)       [] i.f = "br_table" -> GenBrTable(c, i)
      [] i.f = "return" -> GenReturn(c, i)    [] i.f = "call" -> GenCall(c, i)
      [] i.f = "call_indirect" -> GenCallIndirect(c, i)
      [] i.f = "drop" -> GenDrop(c, i)        [] i.f = "select" -> GenSelect(c, i)
      [] i.f = "local.get" -> GenLocalGet(c, i)
      [] i.f = "local.set" -> GenLocalSet(c, i)
      [] i.f = "local.tee" -> GenLocalTee(c, i)
      [] i.f = "global.get" -> GenGlobalGet(c, i)
      [] i.f = "global.set" -> GenGlobalSet(c, i)
      [] i.f = "memory.size" -> GenMemorySize(c, i)
      [] i.f = "memory.grow" -> GenMemoryGrow(c, i)
      [] i.f = "memory.copy" -> GenMemoryCopy(c, i)
      [] i.f = "memory.fill" -> GenMemoryFill(c, i)

GenNumeric(c, i) ==
    LET w32 == i.t = "i32"
    IN  CASE i.f = "const" -> IF w32 THEN GenI32Const(c, i) ELSE GenI64Const(c, i)
          [] i.f = "eqz" -> IF w32 THEN GenI32Unary(c, i) ELSE GenTest64(c, i)
          [] i.f = "wrap" -> GenTest64(c, i)
          [] i.f \in {"extend_i32_s", "extend_i32_u"} -> GenExtend32(c, i)
          [] i.f \in UnOps \cup {"extend32_s"} -> IF w32 THEN GenI32Unary(c, i) ELSE GenI64Unary(c, i)
          [] i.f \in RelOps -> IF w32 THEN GenI32Relational(c, i) ELSE GenI64Relational(c, i)
          [] i.f \in ArithOps -> IF w32 THEN GenI32Arith(c, i) ELSE GenI64Arith(c, i)
          [] i.f \in BinOps -> IF w32 THEN GenI32Bits(c, i) ELSE GenI64Bits(c, i)
          [] i.f \in Loads -> IF w32 THEN GenI32Load(c, i) ELSE GenI64Load(c, i)
          [] i.f \in Stores -> IF w32 THEN GenI32Store(c, i) ELSE GenI64Store(c, i)
          [] OTHER -> GenReinterpret(c, i)

\* One turn of the loop; max_stack is taken at the head of the next one.
Gen(c, i) ==
    LET d == IF i.t = "" THEN GenControl(c, i) ELSE GenNumeric(c, i)
    IN  [d EXCEPT !.max = Max({@, Depth(d)})]

(***************************************************************************)
(* The passes over the intermediate codes.                                 *)
(***************************************************************************)
FusesConst(x, y) ==
    /\ x.f = "const"
    /\ \/ y.f = "local.set" /\ y.t = "i64"
       \/ y.t = x.t /\ y.f \in (IF x.t = "i32" THEN FusedBin32 ELSE FusedBin64)
FusesBranch(x, y) ==
    /\ y.f = "br_if"
    /\ \/ x.t = "i32" /\ x.f \in RelOps \cup {"eqz"}
       \/ x.t = "i64" /\ x.f \in {"eqz", "eq", "ne"}
Fuses(x, y) == FusesConst(x, y) \/ FusesBranch(x, y)

FusedCode(x, y) ==
    IF FusesConst(x, y)
    THEN [y EXCEPT !.t = x.t, !.a = @ \o x.a, !.fused = "const"]
    ELSE [y EXCEPT !.t = x.t, !.f = x.f, !.fused = "branch"]
\* No second code of a pair is the first of another, so the pairs do not overlap.
Fuse(codes) ==
    IF Len(codes) <= 2 THEN codes
    ELSE [k \in DOMAIN codes |->
            IF k > 1 /\ Fuses(codes[k - 1], codes[k]) THEN FusedCode(codes[k - 1], codes[k])
            ELSE IF k < Len(codes) /\ Fuses(codes[k], codes[k + 1])
            THEN Code("", "nop", <<>>, codes[k].lv)
            ELSE codes[k]]

Kept(code) == code.f \notin {"nop", "block", "end"}
Compact(codes) == SelectSeq(codes, Kept)
\* Mutant: the position in the codes before the compaction.
PositionOfRaw(codes, f, b) ==
    LET at == {k \in DOMAIN codes : codes[k].t = "" /\ codes[k].f = f /\ codes[k].a = <<b>>}
    IN  IF at = {} THEN 0 ELSE Min(at) - 1
\* actual_len when the compaction meets the block or end code of block b.
PositionOf(codes, f, b) ==
    LET at == {k \in DOMAIN codes : codes[k].t = "" /\ codes[k].f = f /\ codes[k].a = <<b>>}
    IN  IF at = {} THEN 0 ELSE Cardinality({k \in 1 .. Min(at) - 1 : Kept(codes[k])})
\* Mutant: a branch to a loop leaves it.
PreferredTargetEnd(c, codes, b) == PositionOf(codes, "end", b)
PreferredTarget(c, codes, b) ==
    PositionOf(codes, IF c.blocks[b + 1].kind = "loop" THEN "block" ELSE "end", b)

AdjustBranchTarget(c, codes, code) ==
    IF code.f \notin {"br", "br_if", "br_table"} /\ code.fused # "branch" THEN code
    ELSE [code EXCEPT !.a = [k \in DOMAIN @ |-> PreferredTarget(c, codes, @[k])]]

\* What the interpreter gets for a body that was accepted.
Finish(c) ==
    LET fused == Fuse(c.codes)
    IN  [codes |-> LET kept == Compact(fused)
                   IN  [k \in DOMAIN kept |-> AdjustBranchTarget(c, fused, kept[k])],
         max |-> c.max, nlocals |-> Len(c.locals), nparams |-> c.nparams,
         results |-> c.results]
Compile(c, body) == Finish(FoldLeft(Gen, c, body))
==============================================================================
