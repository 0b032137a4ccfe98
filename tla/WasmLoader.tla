------------------------------ MODULE WasmLoader ------------------------------
(***************************************************************************)
(* WasmLoader::load: the sections of a module are parsed in the order of   *)
(* the file, each by its own function, into the tables of WasmModule.      *)
(* Functions of imports come first in the index space of functions, then   *)
(* the defined ones; a memory can be imported too.                         *)
(***************************************************************************)
EXTENDS Integers, Sequences, FiniteSets, FiniteSetsExt, Functions

CONSTANTS
    MaxItems,     \* bound: items of a section
    MaxRef,       \* bound: types, functions and sizes that items refer to
    LoaderPage    \* bytes of a page of memory

ASSUME LoaderAssumption == MaxItems \in Nat /\ MaxRef \in Nat /\ LoaderPage \in Nat

VARIABLES
    lsection,     \* the last section read, 0 before the first
    ltypes,       \* types: how many
    limports,     \* imports: what each one is, "func" or "memory"
    lnExt,        \* n_ext_func
    lfuncs,       \* functions: [index, ty, origin, code, dlink]
    lmemories,    \* memories: the length of each
    ltables,      \* tables: the elements of each
    lglobals, lexports, lstart,
    lname,        \* a name section was read
    lresult       \* "loading", "ok", an error, or "panic"

lVars == <<lsection, ltypes, limports, lnExt, lfuncs, lmemories, ltables, lglobals, lexports,
           lstart, lname, lresult>>

\* The order of the sections in a module; the data count comes before the code.
Sections == <<"Type", "Import", "Function", "Table", "Memory", "Global", "Export", "Start",
              "Element", "DataCount", "Code", "Data">>
LItems == 0 .. MaxItems
LRefs == 0 .. MaxRef

LInit ==
    /\ lsection = 0 /\ ltypes = 0 /\ limports = <<>> /\ lnExt = 0 /\ lfuncs = <<>>
    /\ lmemories = <<>> /\ ltables = <<>> /\ lglobals = <<>> /\ lexports = <<>>
    /\ lstart = -1 /\ lname = FALSE /\ lresult = "loading"

\* The next section of the file has the given type; earlier ones cannot follow it.
Section(s) == lresult = "loading" /\ \E k \in DOMAIN Sections :
                  /\ Sections[k] = s /\ k > lsection /\ lsection' = k

ParseType ==
    /\ Section("Type")
    /\ \E n \in LItems : ltypes' = ltypes + n
    /\ UNCHANGED <<limports, lnExt, lfuncs, lmemories, ltables, lglobals, lexports, lstart, lname, lresult>>

\* The items of a section are read up to the first that is refused.
ReadBefore(n, refused) == IF refused = {} THEN n ELSE Min(refused) - 1

\* The k-th of a set of places.
Nth(places, k) == CHOOSE i \in places : Cardinality({j \in places : j < i}) = k - 1

\* Functions get their number among the imported functions; an import that cannot be
\* resolved ends the load.
ParseImport ==
    /\ Section("Import")
    /\ \E n \in LItems :
       \E items \in [1 .. n -> [kind : {"func", "memory"}, ref : LRefs, found : BOOLEAN]] :
         LET refused == {k \in 1 .. n : items[k].kind = "func" /\ (items[k].ref >= ltypes \/ ~items[k].found)}
             last == ReadBefore(n, refused)
             functions == {k \in 1 .. last : items[k].kind = "func"}
             memories == (1 .. last) \ functions
         IN  /\ lfuncs' = lfuncs \o [k \in 1 .. Cardinality(functions) |->
                             [index |-> lnExt + k - 1, ty |-> items[Nth(functions, k)].ref,
                              origin |-> "import", code |-> -1, dlink |-> TRUE]]
             /\ lnExt' = lnExt + Cardinality(functions)
             /\ lmemories' = lmemories \o [k \in 1 .. Cardinality(memories) |->
                                items[Nth(memories, k)].ref * LoaderPage]
             /\ limports' = limports \o [k \in 1 .. last |-> items[k].kind]
             /\ lresult' = IF refused = {} THEN lresult
                           ELSE IF items[last + 1].ref >= ltypes THEN "InvalidType" ELSE "NoMethod"
    /\ UNCHANGED <<ltypes, ltables, lglobals, lexports, lstart, lname>>

\* Mutant: the first defined function is taken to have index 0.
ParseFunctionFromZero ==
    /\ Section("Function")
    /\ \E n \in LItems : \E tys \in [1 .. n -> LRefs] :
         /\ lfuncs' = lfuncs \o [k \in 1 .. n |->
                         [index |-> k - 1, ty |-> tys[k], origin |-> "internal", code |-> -1,
                          dlink |-> FALSE]]
         /\ UNCHANGED lresult
    /\ UNCHANGED <<ltypes, limports, lnExt, lmemories, ltables, lglobals, lexports, lstart, lname>>
\* The index of a defined function counts all imports before it, memories included.
ParseFunction ==
    /\ Section("Function")
    /\ \E n \in LItems : \E tys \in [1 .. n -> LRefs] :
         LET refused == {k \in 1 .. n : tys[k] >= ltypes}
         IN  /\ lfuncs' = lfuncs \o [k \in 1 .. ReadBefore(n, refused) |->
                             [index |-> Len(limports) + k - 1, ty |-> tys[k], origin |-> "internal",
                              code |-> -1, dlink |-> FALSE]]
             /\ lresult' = IF refused = {} THEN lresult ELSE "InvalidType"
    /\ UNCHANGED <<ltypes, limports, lnExt, lmemories, ltables, lglobals, lexports, lstart, lname>>

ParseTable ==
    /\ Section("Table")
    /\ \E size \in LRefs : ltables' = Append(ltables, [k \in 1 .. size |-> 0])
    /\ UNCHANGED <<ltypes, limports, lnExt, lfuncs, lmemories, lglobals, lexports, lstart, lname, lresult>>
ParseMemory ==
    /\ Section("Memory")
    /\ \E pages \in LRefs : lmemories' = Append(lmemories, pages * LoaderPage)
    /\ UNCHANGED <<ltypes, limports, lnExt, lfuncs, ltables, lglobals, lexports, lstart, lname, lresult>>
\* The initialiser of a global has the type of the global.
ParseGlobal ==
    /\ Section("Global")
    /\ \E ty, val \in {"i32", "i64"} :
         IF ty # val THEN lresult' = "InvalidGlobal" /\ UNCHANGED lglobals
         ELSE lglobals' = Append(lglobals, ty) /\ UNCHANGED lresult
    /\ UNCHANGED <<ltypes, limports, lnExt, lfuncs, lmemories, ltables, lexports, lstart, lname>>
ParseExport ==
    /\ Section("Export")
    /\ \E k \in LRefs :
         /\ lexports' = Append(lexports, k)
         /\ lfuncs' = IF k + 1 \in DOMAIN lfuncs THEN [lfuncs EXCEPT ![k + 1].origin = "export"]
                      ELSE lfuncs
    /\ UNCHANGED <<ltypes, limports, lnExt, lmemories, ltables, lglobals, lstart, lname, lresult>>
ParseStart ==
    /\ Section("Start")
    /\ \E k \in LRefs : lstart' = k
    /\ UNCHANGED <<ltypes, limports, lnExt, lfuncs, lmemories, ltables, lglobals, lexports, lname, lresult>>
\* Elements beyond the table are dropped.
ParseElement ==
    /\ Section("Element")
    /\ \E off, f \in LRefs :
         IF ltables = <<>> THEN lresult' = "InvalidParameter" /\ UNCHANGED ltables
         ELSE /\ ltables' = [ltables EXCEPT ![1] = [k \in DOMAIN @ |-> IF k = off + 1 THEN f ELSE @[k]]]
              /\ UNCHANGED lresult
    /\ UNCHANGED <<ltypes, limports, lnExt, lfuncs, lmemories, lglobals, lexports, lstart, lname>>
ParseDataCount ==
    /\ Section("DataCount")
    /\ UNCHANGED <<ltypes, limports, lnExt, lfuncs, lmemories, ltables, lglobals, lexports, lstart, lname, lresult>>
\* Body i goes to function i + n_ext_func; generate is WasmCodeBlock's.
ParseCode ==
    /\ Section("Code")
    /\ \E n \in LItems :
         /\ lfuncs' = [k \in DOMAIN lfuncs |->
                         IF k - 1 \in lnExt .. lnExt + n - 1
                         THEN [lfuncs[k] EXCEPT !.code = k - 1 - lnExt] ELSE lfuncs[k]]
         /\ lresult' = IF lnExt + n > Len(lfuncs) THEN "InvalidParameter" ELSE lresult
    /\ UNCHANGED <<ltypes, limports, lnExt, lmemories, ltables, lglobals, lexports, lstart, lname>>
\* write_slice refuses a segment that reaches the end of the memory, and is unwrapped.
SegmentFits(off, n) == off < lmemories[1] /\ n < lmemories[1] /\ off + n < lmemories[1]
ParseData ==
    /\ Section("Data")
    /\ \E off, n \in 0 .. LoaderPage :
         lresult' = IF lmemories = <<>> THEN "InvalidParameter"
                    ELSE IF SegmentFits(off, n) THEN lresult ELSE "panic"
    /\ UNCHANGED <<ltypes, limports, lnExt, lfuncs, lmemories, ltables, lglobals, lexports, lstart, lname>>
\* Of the custom sections only the names are looked at; compilers write them last.
ParseCustom ==
    /\ lresult = "loading" /\ lsection = Len(Sections) /\ ~lname /\ lname' = TRUE
    /\ UNCHANGED <<lsection, ltypes, limports, lnExt, lfuncs, lmemories, ltables, lglobals,
                   lexports, lstart, lresult>>
EndOfModule ==
    /\ lresult = "loading" /\ lsection = Len(Sections) /\ lresult' = "ok"
    /\ UNCHANGED <<lsection, ltypes, limports, lnExt, lfuncs, lmemories, ltables, lglobals,
                   lexports, lstart, lname>>

LNext == \/ ParseType \/ ParseImport \/ ParseFunction \/ ParseTable \/ ParseMemory \/ ParseGlobal
         \/ ParseExport \/ ParseStart \/ ParseElement \/ ParseDataCount \/ ParseCode \/ ParseData
         \/ ParseCustom \/ EndOfModule

LoaderSpec == LInit /\ [][LNext]_lVars

\* elem_get and func_by_index hand out functions by position; the index that a function
\* carries, by which runtime errors find its code block and name, is that position --
\* unless a memory was imported, which the base of parse_sec_func counts as a function.
IndexIsPosition ==
    "memory" \notin Range(limports) => \A k \in DOMAIN lfuncs : lfuncs[k].index = k - 1

\* Bodies and imports never mix: an imported function has its link and no code, and the
\* body of a defined function is the one at the same place among the bodies, however
\* imports of memories and functions are interleaved.
BodiesMatchFunctions ==
    \A k \in DOMAIN lfuncs :
       /\ lfuncs[k].dlink <=> k <= lnExt
       /\ lfuncs[k].code # -1 => ~lfuncs[k].dlink /\ lfuncs[k].code = k - 1 - lnExt

\* Loading keeps functions, imports and bodies in step (WasmModule::load).
LoadsInOrder == IndexIsPosition /\ BodiesMatchFunctions
==============================================================================
