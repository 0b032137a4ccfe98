---------------------------- MODULE WasmInterpreter ----------------------------
(***************************************************************************)
(* WasmInterpreter: runs the intermediate codes of WasmCodeBlock.  Value   *)
(* stacks and locals are slices of one heap of cells (StackHeap).  A code  *)
(* addresses its operands by the level the verifier gave it, with no check *)
(* at run time.  The locals of a callee are the caller's own operands when *)
(* the caller's slice is long enough, and a fresh slice otherwise.         *)
(***************************************************************************)
EXTENDS WasmCodeBlock

CONSTANTS
    Table,              \* elem_get: the function index of each table slot
    TypeOf,             \* the type index of each function
    InitialValueStack,  \* INITIAL_VALUE_STACK_SIZE, 512 in the code
    PageSize,           \* WasmMemory::PAGE_SIZE, 65536 in the code
    MaxPages,           \* try_reserve fails beyond this (bound of the model)
    MaxSteps            \* bound: codes interpreted before the model gives up

VARIABLES
    functions,  \* WasmModule::functions: compiled code, or a host function
    frames,     \* the nested calls of _interpret, innermost last
    cells,      \* StackHeap::vec in cells of 8 bytes
    memory,     \* the bytes of WasmMemory
    globals,    \* the values of the globals
    outcome,    \* what invoke returned, or "running"
    steps       \* codes interpreted so far

iVars == <<functions, frames, cells, memory, globals, outcome, steps>>

Running == [kind |-> "running", val |-> 0, err |-> "none"]
Ok(v)   == [kind |-> "ok", val |-> v, err |-> "none"]
Trap(e) == [kind |-> "trap", val |-> 0, err |-> e]

Top  == Last(frames)
Here == functions[Top.fn].codes[Top.pos + 1]
At(k) == Top.v + Here.lv + k
V(k)  == cells[At(k)]
Zeros(n) == [k \in 1 .. n |-> 0]

\* The heap is as long as the slices that are in use: alloc gives zeroed or stale cells,
\* and every slice is cleared or filled before it is read.
Grown(h, n) == h \o Zeros(n)

Move(pos, new) ==
    /\ frames' = [frames EXCEPT ![Len(frames)].pos = pos]
    /\ cells' = new
    /\ UNCHANGED <<functions, outcome>>
Advance(new) == Move(Top.pos + 1, new)
Put(k, v) == Advance([cells EXCEPT ![At(k)] = v])
Fault(e) == /\ outcome' = Trap(e) /\ frames' = <<>> /\ cells' = <<>>
            /\ UNCHANGED <<functions, memory, globals>>
Is(t, F) == Here.t = t /\ Here.f \in F /\ Here.fused = "no"
Pure == UNCHANGED <<memory, globals>>

ExecUnreachable ==
    /\ Is("", {"unreachable", "undefined", "nop", "block", "end"})
    /\ Fault("Unreachable")
ExecBr == Is("", {"br"}) /\ Move(Here.a[1], cells) /\ Pure
ExecBrIf ==
    /\ Is("", {"br_if"})
    /\ Move(IF Get("i32", V(0)) # 0 THEN Here.a[1] ELSE Top.pos + 1, cells)
    /\ Pure
ExecBrTable ==
    /\ Is("", {"br_table"})
    /\ Move(Here.a[1 + Min({Len(Here.a) - 1, Get("i32", V(0))})], cells)
    /\ Pure

\* Return hands the result to the caller's slot and gives the slices back.
ExecReturn ==
    LET f == functions[Top.fn]
        val == IF f.results = <<>> THEN 0 ELSE Get(f.results[1], V(0))
    IN  /\ Is("", {"return"})
        /\ IF Len(frames) = 1
           THEN /\ outcome' = Ok(val) /\ frames' = <<>> /\ cells' = <<>>
                /\ UNCHANGED functions
           ELSE /\ frames' = [Front(frames) EXCEPT ![Len(frames) - 1].pos = @ + 1]
                /\ cells' = LET kept == SubSeq(cells, 1, Top.base)
                            IN  IF f.results = <<>> THEN kept ELSE [kept EXCEPT ![Top.ret] = val]
                /\ UNCHANGED <<functions, outcome>>
        /\ Pure

\* call: where the locals of the callee live.  Both lengths below count the parameters
\* twice, because local_types holds them too.
LocalsInPlace(f, under) == Top.vl >= under + f.nparams + f.nlocals
\* Otherwise a fresh slice; the copy skips the cells below the operands in the new slice,
\* not in the value stack it copies from.
FreshLocals(f, under) ==
    LET size == Max({InitialValueStack, f.nparams + f.nlocals})
    IN  [k \in 1 .. size |-> IF k > under /\ k - under <= Top.vl
                             THEN cells[Top.v + (k - under) - 1] ELSE 0]
Enter(g, under) ==
    LET f == functions[g]
        inPlace == LocalsInPlace(f, under)
        base == IF inPlace THEN cells ELSE cells \o FreshLocals(f, under)
        l == IF inPlace THEN Top.v + under ELSE Len(cells) + 1
        zeroed == [k \in DOMAIN base |->
                     IF k \in l + f.nparams .. l + f.nparams + f.nlocals - 1 THEN 0 ELSE base[k]]
    IN  /\ frames' = Append(frames, [fn |-> g, pos |-> 0, v |-> Len(base) + 1, vl |-> f.max,
                                     l |-> l, ret |-> Top.v + under, base |-> Len(cells)])
        /\ cells' = Grown(zeroed, f.max)
        /\ UNCHANGED <<functions, outcome>>
        /\ Pure

\* A host function returns one more than the sum of its arguments.
HostCall(f, under) ==
    IF f.results # <<>> /\ f.ret # f.results[1] THEN Fault("TypeMismatch")
    ELSE /\ LET sum == FoldFunction(LAMBDA x, y : x + y, 1,
                                    [k \in 1 .. f.nparams |-> cells[Top.v + under + k - 1]])
            IN  Advance(IF f.results = <<>> THEN cells
                        ELSE [cells EXCEPT ![Top.v + under] = Wrap(f.ret, sum)])
         /\ Pure
CallFunction(g) ==
    LET f == functions[g]
        under == Here.lv - f.nparams
    IN  CASE f.kind = "code" -> Enter(g, under)
          [] f.kind = "host" -> HostCall(f, under)
          [] OTHER -> Fault("NoMethod")
ExecCall == Is("", {"call"}) /\ CallFunction(Here.a[1] + 1)
ExecCallIndirect ==
    /\ Is("", {"call_indirect"})
    /\ LET slot == Get("i32", V(0)) + 1
       IN  IF slot \notin DOMAIN Table THEN Fault("NoMethod")
           ELSE IF TypeOf[Table[slot] + 1] # Here.a[1] THEN Fault("TypeMismatch")
           ELSE CallFunction(Table[slot] + 1)

ExecSelect ==
    /\ Is("", {"select"})
    /\ IF Get("i32", V(2)) # 0 THEN Advance(cells) ELSE Put(0, V(1))
    /\ Pure
ExecLocal ==
    /\ Here.f \in {"local.get", "local.set", "local.tee"} /\ Here.fused = "no"
    /\ LET l == Top.l + Here.a[1]
       IN  IF Here.f = "local.get" THEN Put(0, cells[l])
           ELSE Advance([cells EXCEPT ![l] = V(0)])
    /\ Pure
ExecGlobal ==
    /\ Is("", {"global.get", "global.set"})
    /\ IF Here.f = "global.get" THEN Put(0, globals[Here.a[1] + 1]) /\ UNCHANGED globals
       ELSE Advance(cells) /\ globals' = [globals EXCEPT ![Here.a[1] + 1] = V(0)]
    /\ UNCHANGED memory

(***************************************************************************)
(* WasmMemory.  An access of n bytes is checked against the length less    *)
(* n - 1; the bulk operations want offset + count strictly below it.       *)
(***************************************************************************)
Width(f) ==
    CASE f \in {"load8_s", "load8_u", "store8"} -> 1
      [] f \in {"load16_s", "load16_u", "store16"} -> 2
      [] f \in {"load32_s", "load32_u", "store32"} -> 4
      [] OTHER -> 0
Bytes(code) == IF Width(code.f) # 0 THEN Width(code.f) ELSE Bits(code.t) \div ByteBits
EffectiveAddress(n) ==
    LET ea == Here.a[1] + Get("i32", V(0)) IN IF ea < Len(memory) - (n - 1) THEN ea ELSE -1
ReadBytes(m, ea, n) ==
    FoldFunction(LAMBDA x, y : x + y, 0, [k \in 0 .. n - 1 |-> m[ea + k + 1] * 2 ^ (ByteBits * k)])
WriteBytes(m, ea, n, v) ==
    [k \in DOMAIN m |-> IF k - 1 \in ea .. ea + n - 1
                        THEN (v \div 2 ^ (ByteBits * (k - 1 - ea))) % 2 ^ ByteBits ELSE m[k]]
LoadedAs(code, n, v) ==
    IF code.f \in {"load8_s", "load16_s", "load32_s"}
    THEN Wrap(code.t, SignedBits(ByteBits * n, v)) ELSE v

ExecLoad ==
    /\ Here.f \in Loads
    /\ LET n == Bytes(Here)  ea == EffectiveAddress(n)
       IN  IF ea < 0 THEN Fault("OutOfBounds")
           ELSE Put(0, LoadedAs(Here, n, ReadBytes(memory, ea, n))) /\ Pure
ExecStore ==
    /\ Here.f \in Stores
    /\ LET n == Bytes(Here)  ea == EffectiveAddress(n)
       IN  IF ea < 0 THEN Fault("OutOfBounds")
           ELSE /\ Advance(cells)
                /\ memory' = WriteBytes(memory, ea, n, V(1))
                /\ UNCHANGED globals

ExecMemorySize == Is("", {"memory.size"}) /\ Put(0, Len(memory) \div PageSize) /\ Pure
\* The maximum in the limits of the memory is not consulted.
ExecMemoryGrow ==
    /\ Is("", {"memory.grow"})
    /\ LET delta == Signed("i32", V(0))
           old == Len(memory) \div PageSize
           fails == delta < 0 \/ old + delta > MaxPages
       IN  /\ Put(0, IF fails THEN Wrap("i32", -1) ELSE old)
           /\ memory' = IF fails THEN memory ELSE memory \o Zeros(delta * PageSize)
           /\ UNCHANGED globals
InSlice(off, n) == off < Len(memory) /\ n < Len(memory) /\ off + n < Len(memory)
BulkCopy(m, d, s, n) == [k \in DOMAIN m |-> IF k - 1 \in d .. d + n - 1 THEN m[k - d + s] ELSE m[k]]
BulkFill(m, d, v, n) ==
    [k \in DOMAIN m |-> IF k - 1 \in d .. d + n - 1 THEN v % 2 ^ ByteBits ELSE m[k]]
ExecBulk ==
    /\ Is("", {"memory.copy", "memory.fill"})
    /\ LET d == Get("i32", V(0))  x == Get("i32", V(1))  n == Get("i32", V(2))
       IN  IF ~InSlice(d, n) \/ (Here.f = "memory.copy" /\ ~InSlice(x, n))
           THEN Fault("OutOfBounds")
           ELSE /\ Advance(cells)
                /\ memory' = IF Here.f = "memory.copy" THEN BulkCopy(memory, d, x, n)
                             ELSE BulkFill(memory, d, x, n)
                /\ UNCHANGED globals

(***************************************************************************)
(* The numeric codes.                                                      *)
(***************************************************************************)
ExecConst == Here.f = "const" /\ Put(0, Wrap(Here.t, Here.a[1])) /\ Pure
\* Nothing happens to the cell; the type of what it holds changes.
ExecReinterpret ==
    /\ Here.f \in {"i32.reinterpret", "i64.reinterpret", "f32.reinterpret", "f64.reinterpret"}
    /\ Advance(cells) /\ Pure
ExecConvert ==
    /\ Here.f \in {"wrap", "extend_i32_s", "extend_i32_u"}
    /\ Put(0, CASE Here.f = "wrap" -> Get("i32", V(0))
                [] Here.f = "extend_i32_s" -> Wrap("i64", Signed("i32", V(0)))
                [] Here.f = "extend_i32_u" -> Get("i32", V(0)))
    /\ Pure
Compare(t) == Holds(t, Here.f, Get(t, V(0)), Get(t, V(1)))
Relational(t) ==
    /\ Is(t, RelOps \cup {"eqz"})
    /\ Put(0, Flag(IF Here.f = "eqz" THEN Get(t, V(0)) = 0 ELSE Compare(t)))
    /\ Pure
ExecI32Relational == Relational("i32")
ExecI64Relational == Relational("i64")
UnaryOp(t) ==
    /\ Is(t, UnOps \cup {"extend32_s"})
    /\ Put(0, Unary(t, Here.f, Get(t, V(0))))
    /\ Pure
ExecI32Unary == UnaryOp("i32")
ExecI64Unary == UnaryOp("i64")
BinaryOp(t, y) ==
    IF Here.f \in DivOps /\ y = 0 THEN Fault("DivideByZero")
    ELSE Put(0, Binary(t, Here.f, Get(t, V(0)), y)) /\ Pure
ExecI32Binary == Is("i32", BinOps) /\ BinaryOp("i32", Get("i32", V(1)))
ExecI64Binary == Is("i64", BinOps) /\ BinaryOp("i64", Get("i64", V(1)))

\* The fused codes: the constant is the last immediate.
ExecFusedConst ==
    /\ Here.fused = "const"
    /\ IF Here.f = "local.set"
       THEN Advance([cells EXCEPT ![Top.l + Here.a[1]] = Wrap(Here.t, Here.a[2])]) /\ Pure
       ELSE BinaryOp(Here.t, Wrap(Here.t, Last(Here.a)))
FusedBranch(t) ==
    /\ Here.fused = "branch" /\ Here.t = t
    /\ LET taken == IF Here.f = "eqz" THEN Get(t, V(0)) = 0 ELSE Compare(t)
       IN  Move(IF taken THEN Here.a[1] ELSE Top.pos + 1, cells)
    /\ Pure
ExecFusedI32Branch == FusedBranch("i32")
ExecFusedI64Branch == FusedBranch("i64")

\* The loop of _interpret.
Interpret ==
    /\ frames # <<>> /\ steps < MaxSteps /\ steps' = steps + 1
    /\ \/ ExecUnreachable \/ ExecBr \/ ExecBrIf \/ ExecBrTable \/ ExecReturn
       \/ ExecCall \/ ExecCallIndirect \/ ExecSelect \/ ExecLocal \/ ExecGlobal
       \/ ExecLoad \/ ExecStore \/ ExecMemorySize \/ ExecMemoryGrow \/ ExecBulk
       \/ ExecConst \/ ExecReinterpret \/ ExecConvert
       \/ ExecI32Relational \/ ExecI64Relational \/ ExecI32Unary \/ ExecI64Unary
       \/ ExecI32Binary \/ ExecI64Binary
       \/ ExecFusedConst \/ ExecFusedI32Branch \/ ExecFusedI64Branch

\* WasmRunnable::invoke of function g + 1 with the given arguments.
Invoke(fs, g, args) ==
    LET f == fs[g]
        locals == Max({InitialValueStack, f.nparams + f.nlocals})
        start == [k \in 1 .. locals |-> IF k <= Len(args) THEN args[k] ELSE 0]
    IN  /\ functions' = fs
        /\ frames' = <<[fn |-> g, pos |-> 0, v |-> locals + 1, vl |-> f.max, l |-> 1,
                        ret |-> 0, base |-> 0]>>
        /\ cells' = Grown(start, f.max)
        /\ outcome' = Running
        /\ steps' = 0
==============================================================================
