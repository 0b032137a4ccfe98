------------------------------- MODULE MCWasm -------------------------------
(***************************************************************************)
(* Function bodies are built one instruction at a time and compiled as     *)
(* they grow; a body that the pass accepts is invoked and its outcome      *)
(* compared with WasmReference.  A profile bounds the instructions a body  *)
(* is made of, its length and its signature.                               *)
(***************************************************************************)
EXTENDS WasmReference, WasmLoader

CONSTANT Profiles      \* the names of the profiles to explore

VARIABLES
    profile,  \* which profile this behaviour uses
    body,     \* the instructions read from the stream so far
    ctx,      \* the local state of generate
    valid,    \* the body obeys the rules that generate leaves to the producer
    args,     \* the arguments of the invocation
    strayed   \* a call copied its arguments from the wrong cells (history)

wVars == <<profile, body, ctx, valid, args, strayed>>

I(t, f, a) == [t |-> t, f |-> f, a |-> a]
C(f, a) == I("", f, a)
End == C("end", <<>>)
Get0 == C("local.get", <<0>>)
Const(n) == I("i32", "const", <<n>>)

\* Function 0 is the one under test, 1 to 4 are the ones it can call.
Lib == <<
  [kind |-> "code", params |-> <<"i32">>, results |-> <<"i32">>, ret |-> "i32", locals |-> <<"i32">>,
   body |-> <<Get0, Const(1), I("i32", "add", <<>>), C("local.tee", <<1>>), Get0,
              I("i32", "sub", <<>>), Get0, I("i32", "add", <<>>), End>>],
  [kind |-> "code", params |-> <<"i32", "i32">>, results |-> <<"i32">>, ret |-> "i32",
   locals |-> <<>>,
   body |-> <<Get0, C("local.get", <<1>>), I("i32", "sub", <<>>), C("call", <<1>>), End>>],
  [kind |-> "host", params |-> <<"i32">>, results |-> <<"i32">>, ret |-> "i32", locals |-> <<>>,
   body |-> <<>>],
  [kind |-> "none", params |-> <<>>, results |-> <<>>, ret |-> "i32", locals |-> <<>>,
   body |-> <<>>] >>
MCSignatures ==
    <<[params |-> <<"i32">>, results |-> <<"i32">>]>>
    \o [k \in DOMAIN Lib |-> [params |-> Lib[k].params, results |-> Lib[k].results]]
MCFuncTypes == <<[params |-> <<"i32">>, results |-> <<"i32">>],
                 [params |-> <<"i32", "i32">>, results |-> <<"i32">>],
                 [params |-> <<>>, results |-> <<>>]>>
MCTypeOf == <<0, 0, 1, 0, 2>>
MCTable == <<2, 3>>
MCGlobals == <<[ty |-> "i32", mut |-> TRUE], [ty |-> "i32", mut |-> FALSE]>>

Shape(alphabet, len, params, locals, results, memories) ==
    [alphabet |-> alphabet \cup {End}, len |-> len, params |-> params, locals |-> locals,
     results |-> results, memories |-> memories]
Integer(t, consts) == {I(t, "const", <<n>>) : n \in consts} \cup
                  {I(t, f, <<>>) : f \in RelOps \cup BinOps \cup UnOps \cup {"eqz"}}
ProfileOf(p) ==
    CASE p = "i32" -> Shape(Integer("i32", {3, 14}) \cup {Get0, C("nop", <<>>)}, 4,
                            <<"i32">>, <<>>, <<"i32">>, 1)
      [] p = "i64" -> Shape(Integer("i64", {5, 200}) \cup
                            {I("i64", "extend32_s", <<>>), Get0, C("local.set", <<0>>)}, 4,
                            <<"i64">>, <<>>, <<"i64">>, 1)
      [] p = "convert" -> Shape({Get0, C("local.get", <<1>>), C("local.set", <<1>>),
                                 C("local.tee", <<2>>), C("local.get", <<2>>),
                                 I("i32", "wrap", <<>>), I("i64", "eqz", <<>>),
                                 I("i64", "lt_s", <<>>), I("i64", "const", <<7>>),
                                 I("i64", "extend_i32_s", <<>>), I("i64", "extend_i32_u", <<>>),
                                 I("i32", "i32.reinterpret", <<>>), I("f32", "f32.reinterpret", <<>>)},
                                5, <<"i32">>, <<"i64", "f32">>, <<"i32">>, 1)
      [] p = "branch" -> Shape({C("block", <<0>>), C("br_if", <<0>>), C("br_if", <<1>>),
                                C("br", <<0>>), C("br_table", <<1, 0>>), C("drop", <<>>), Get0,
                                I("i32", "eqz", <<>>), I("i32", "lt_u", <<>>)}, 7,
                               <<"i32">>, <<>>, <<>>, 1)
      [] p = "loop" -> Shape({C("loop", <<0>>), C("br_if", <<0>>), Get0, Const(1),
                              C("local.tee", <<0>>), I("i32", "sub", <<>>), I("i32", "gt_s", <<>>)},
                             8, <<"i32">>, <<>>, <<>>, 1)
      [] p = "loop64" -> Shape({C("block", <<0>>), C("loop", <<0>>), C("br_if", <<0>>), Get0,
                                I("i64", "const", <<1>>), C("local.set", <<0>>),
                                I("i64", "eqz", <<>>), I("i64", "ne", <<>>)}, 7,
                               <<"i64">>, <<>>, <<>>, 1)
      [] p = "call" -> Shape({C("call", <<n>>) : n \in 1 .. 4} \cup
                             {C("call_indirect", <<0>>), C("call_indirect", <<1>>), Get0, Const(1),
                              C("drop", <<>>), C("return", <<>>), I("i32", "add", <<>>),
                              C("local.set", <<1>>), C("call", <<9>>)}, 6,
                             <<"i32">>, <<"i32">>, <<"i32">>, 1)
      [] p = "memory" -> Shape({I("i32", f, <<n>>) : f \in {"load", "load8_s", "load16_u"}, n \in {0, 6}}
                               \cup {I("i32", f, <<1>>) : f \in {"load8_u", "load16_s", "store",
                                                                 "store8", "store16"}}
                               \cup {Get0, Const(5)}, 6, <<"i32">>, <<>>, <<"i32">>, 1)
      [] p = "bulk" -> Shape({C("memory.size", <<>>), C("memory.grow", <<>>), C("memory.copy", <<>>),
                              C("memory.fill", <<>>), I("i32", "store8", <<1>>),
                              I("i32", "load", <<0>>), Get0, Const(1), Const(5)}, 6,
                             <<"i32">>, <<>>, <<"i32">>, 1)
      [] p = "memory64" -> Shape({I("i64", f, <<0>>) : f \in (Loads \cup Stores)}
                                 \cup {Get0, I("i64", "const", <<171>>)}, 6,
                                 <<"i32">>, <<>>, <<"i64">>, 1)
      [] p = "nomemory" -> Shape({I("i32", "load", <<0>>), I("i32", "store", <<0>>),
                                  C("memory.size", <<>>), Get0}, 3, <<"i32">>, <<>>, <<"i32">>, 0)
      [] p = "loader" -> Shape({}, 0, <<>>, <<>>, <<>>, 0)
      [] p = "misc" -> Shape({C("select", <<>>), C("unreachable", <<>>), C("nop", <<>>),
                              C("global.get", <<0>>), C("global.get", <<1>>), C("global.set", <<0>>),
                              C("global.set", <<1>>), C("if", <<0>>), C("else", <<>>),
                              C("block", <<1>>), C("loop", <<1>>), Get0, Const(2),
                              C("local.get", <<9>>), I("i64", "const", <<2>>)}, 5,
                             <<"i32">>, <<>>, <<"i32">>, 1)
P == ProfileOf(profile)

WInit ==
    /\ profile \in Profiles
    /\ body = <<>>
    /\ ctx = Ctx0(P.params, P.results, P.locals, P.memories)
    /\ valid = TRUE
    /\ args = <<>>
    /\ strayed = FALSE
    /\ functions = <<>> /\ frames = <<>> /\ cells = <<>> /\ steps = 0
    /\ memory = Zeros(P.memories * PageSize) /\ globals = <<4, 9>>
    /\ outcome = [Running EXCEPT !.kind = "compiling"]
    /\ LInit

GenerateStep ==
    /\ ~ctx.closed /\ ctx.err = "none" /\ valid /\ Len(body) < P.len
    /\ \E i \in P.alphabet :
         /\ body' = Append(body, i)
         /\ ctx' = Gen(ctx, i)
         /\ valid' = (WellFormed(ctx, i) /\ AboveFloor(Gen(ctx, i)))
    /\ UNCHANGED <<profile, args, strayed, iVars, lVars>>

Source == <<[kind |-> "code", params |-> P.params, results |-> P.results, locals |-> P.locals,
             body |-> body, ret |-> ""]>> \o Lib
CompiledLib ==
    [k \in DOMAIN Lib |->
       LET base == [kind |-> Lib[k].kind, ret |-> Lib[k].ret]
           c == Ctx0(Lib[k].params, Lib[k].results, Lib[k].locals, 1)
       IN  IF Lib[k].kind = "code" THEN Compile(c, Lib[k].body) @@ base
           ELSE base @@ [nparams |-> Len(Lib[k].params), results |-> Lib[k].results]]
\* The arguments: values on both sides of zero and of the end of the memory.
Arguments(t) == IF t = "i32" THEN {0, 1, 6, 15} ELSE {0, 1, 171, 255}

InvokeStep ==
    /\ ctx.closed /\ ctx.err = "none" /\ valid /\ outcome.kind = "compiling"
    /\ \E a \in Arguments(P.params[1]) :
         /\ args' = <<a>>
         /\ Invoke(<<Finish(ctx) @@ [kind |-> "code", ret |-> ""]>> \o CompiledLib, 1, <<a>>)
    /\ UNCHANGED <<profile, body, ctx, valid, strayed, memory, globals, lVars>>
\* The copying branch of call takes the wrong cells when there are operands under the
\* arguments of the call.
CopiesAbove == /\ Len(frames') > Len(frames)
               /\ Last(frames').l > Last(frames').base /\ Last(frames').ret # Top.v
InterpretStep ==
    /\ Interpret
    /\ strayed' = (strayed \/ CopiesAbove)
    /\ UNCHANGED <<profile, body, ctx, valid, args, lVars>>

LoaderStep == profile = "loader" /\ LNext /\ UNCHANGED <<wVars, iVars>>

WNext == GenerateStep \/ InvokeStep \/ InterpretStep \/ LoaderStep
WSpec == WInit /\ [][WNext]_<<wVars, iVars, lVars>>

ReferenceRun ==
    RRun(RState(<<RFrame(1, Source, args)>>, Zeros(P.memories * PageSize), <<4, 9>>),
         Source, MaxSteps * (Len(body) + 2))

\* Drops leave no code behind: a constant or a comparison whose value is dropped is then
\* fused with the next instruction.  The claim below is about bodies without that pattern.
DropsFusable ==
    \E k \in 1 .. Len(body) - 1 :
       body[k + 1].f = "drop" /\ body[k].f \in RelOps \cup {"eqz", "const"}

WTypeOK ==
    /\ ctx.err # "none" => outcome.kind = "compiling"
    /\ outcome.kind \in {"compiling", "running", "ok", "trap"}
    /\ \A k \in DOMAIN cells : cells[k] \in 0 .. Size("i64") - 1
    /\ \A k \in DOMAIN memory : memory[k] \in 0 .. 2 ^ ByteBits - 1

\* How many operands a code reads or writes from its level upwards.
Reach(code) ==
    CASE code.f \in {"select", "memory.copy", "memory.fill"} -> 3
      [] code.f \in BinOps /\ code.fused = "const" -> 1
      [] code.f \in RelOps \cup BinOps \cup Stores -> 2
      [] code.f \in {"unreachable", "undefined", "br", "call"} -> 0
      [] code.f = "return" -> Len(P.results)
      [] code.fused = "const" -> 0
      [] OTHER -> 1
\* The interpreter indexes the value stack without a check and relies on the verifier
\* (the comment of ValueStack::get_unchecked): every cell a code can touch lies within
\* max_stack, in every accepted body that obeys the rules left to the producer.
StackLevelsVerified ==
    (ctx.closed /\ ctx.err = "none" /\ valid) =>
        LET f == Finish(ctx)
        IN  \A k \in DOMAIN f.codes :
               LET code == f.codes[k]
               IN  Reach(code) > 0 => code.lv \in 0 .. f.max - Reach(code)

\* Fusion, compaction and the resolution of branches never send a branch outside of the
\* code or into the middle of a fused pair: the code at a target is the first code that
\* the source instruction at the label produced.
TargetsInRange ==
    (ctx.closed /\ ctx.err = "none") =>
        LET f == Finish(ctx)
        IN  \A k \in DOMAIN f.codes :
               f.codes[k].f \in {"br", "br_if", "br_table"} \/ f.codes[k].fused = "branch" =>
                  \A j \in DOMAIN f.codes[k].a : f.codes[k].a[j] \in 0 .. Len(f.codes) - 1

CodeVerified == WTypeOK /\ StackLevelsVerified /\ TargetsInRange

\* A compiled function computes what its source says: the same result or the same trap,
\* the same memory and globals.  Bulk operations that touch the last byte of the memory
\* trap in the interpreter and are legal in the source.
RunsAsWritten ==
    (/\ outcome.kind \in {"ok", "trap"} /\ ~DropsFusable /\ ~strayed
     /\ \A k \in DOMAIN body : Supported(body[k])) =>
        LET r == ReferenceRun
        IN  \/ r.out = outcome /\ r.mem = memory /\ r.gl = globals
            \/ outcome = Trap("OutOfBounds")
               /\ \E k \in DOMAIN body : body[k].f \in {"memory.copy", "memory.fill"}
=============================================================================
