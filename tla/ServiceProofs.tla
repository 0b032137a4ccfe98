--------------------------- MODULE ServiceProofs ---------------------------
(***************************************************************************)
(* Proofs about what the rest of the system is built with: the loader of   *)
(* WebAssembly modules (WasmLoader), the tasks of the USB manager with the *)
(* doorbell scheduler (UsbManager), the ring buffer (ConcurrentFifo), and  *)
(* the audio driver with its thread (Audio).                               *)
(***************************************************************************)
EXTENDS ConcurrentFifo, WasmLoader, UsbManager, Audio, FiniteSetTheorems, FunctionTheorems, SequenceTheorems,
        NaturalsInduction, WellFoundedInduction, TLAPS

-----------------------------------------------------------------------------
\* Min is the least element of a set of numbers.
LEMMA LeastIn ==
    ASSUME NEW T \in SUBSET Nat, T # {}
    PROVE  Min(T) \in T
<1>1. PICK x \in T : \A y \in T : ~(<<y, x>> \in OpToRel(<, Nat))
  BY NatLessThanWellFounded, WFMin
<1>2. ASSUME NEW y \in T PROVE x <= y
  <2>1. <<y, x>> \in Nat \X Nat /\ <<y, x>>[1] = y /\ <<y, x>>[2] = x
    OBVIOUS
  <2>2. ~(y < x)
    BY <1>1, <2>1 DEF OpToRel
  <2> QED BY <2>2
<1> QED BY <1>2 DEF Min

\* Of n items, a number up to n is read.
LEMMA ReadsUpTo ==
    ASSUME NEW n \in Nat, NEW refused \in SUBSET (1 .. n)
    PROVE  ReadBefore(n, refused) \in 0 .. n
<1>1. CASE refused = {}
  BY <1>1 DEF ReadBefore
<1>2. CASE refused # {}
  <2>1. refused \in SUBSET Nat
    OBVIOUS
  <2>2. Min(refused) \in 1 .. n
    BY <1>2, <2>1, LeastIn
  <2> QED BY <1>2, <2>2 DEF ReadBefore
<1> QED BY <1>1, <1>2

-----------------------------------------------------------------------------
(* WasmLoader *)

IsFunction(f) == f = [index |-> f.index, ty |-> f.ty, origin |-> f.origin, code |-> f.code, dlink |-> f.dlink]

LoadTypes == /\ lsection \in 0 .. 12 /\ ltypes \in Nat /\ limports \in Seq({"func", "memory"})
             /\ lnExt \in Nat /\ (\E S : lfuncs \in Seq(S)) /\ \A k \in 1 .. Len(lfuncs) : IsFunction(lfuncs[k])

\* What the sections that have been read leave for those to come: until the
\* imports nothing, and until the functions only what was imported.
SectionsLeft == /\ lsection < 2 => limports = <<>> /\ lnExt = 0 /\ lfuncs = <<>>
                /\ lsection < 3 => Len(lfuncs) = lnExt

\* Without memories every import is a function.
ImportsCounted == "memory" \notin Range(limports) => Len(limports) = lnExt

LoadI == LoadTypes /\ SectionsLeft /\ ImportsCounted /\ LoadsInOrder

\* The sections that matter here, and their places.
LEMMA SectionPlaces ==
    ASSUME NEW s
    PROVE  /\ Section(s) => lresult = "loading" /\ lsection' \in 1 .. 12 /\ lsection' > lsection
           /\ Section("Import") => lsection < 2 /\ lsection' = 2
           /\ Section("Function") => lsection < 3 /\ lsection' = 3
<1>1. DOMAIN Sections = 1 .. 12
  BY DEF Sections
<1>2. \A k \in 1 .. 12 : (Sections[k] = "Import" => k = 2) /\ (Sections[k] = "Function" => k = 3)
  BY DEF Sections
<1> QED BY <1>1, <1>2 DEF Section

\* A section that leaves the functions and imports alone.
LEMMA OtherSection ==
    ASSUME LoadI, lsection' \in 0 .. 12, lsection' >= lsection, ltypes' \in Nat, UNCHANGED <<limports, lnExt, lfuncs>>
    PROVE  LoadI'
<1>1. LoadTypes' /\ SectionsLeft'
  BY DEF LoadI, LoadTypes, SectionsLeft
<1>2. ImportsCounted'
  BY DEF LoadI, ImportsCounted
<1>3. LoadsInOrder'
  BY DEF LoadI, LoadsInOrder, IndexIsPosition, BodiesMatchFunctions
<1> QED BY <1>1, <1>2, <1>3 DEF LoadI

\* A section that changes the functions, but not what the invariant says of
\* each, and no number of them.
LEMMA FunctionsKept ==
    ASSUME LoadI, Section("Export") \/ Section("Code"), UNCHANGED <<ltypes, limports, lnExt>>,
           NEW T, lfuncs' \in Seq(T), Len(lfuncs') = Len(lfuncs),
           \A k \in 1 .. Len(lfuncs) : /\ IsFunction(lfuncs'[k])
                                       /\ lfuncs'[k].index = lfuncs[k].index /\ lfuncs'[k].dlink = lfuncs[k].dlink
                                       /\ \/ lfuncs'[k].code = lfuncs[k].code
                                          \/ k > lnExt /\ lfuncs'[k].code = k - 1 - lnExt
    PROVE  LoadI'
<1>0. LoadTypes /\ SectionsLeft /\ ImportsCounted /\ IndexIsPosition /\ BodiesMatchFunctions
  BY DEF LoadI, LoadsInOrder
<1>1. lsection' \in 1 .. 12 /\ lsection' > lsection /\ lsection \in 0 .. 12
  BY <1>0, SectionPlaces DEF LoadTypes
<1>2. DOMAIN lfuncs = 1 .. Len(lfuncs) /\ DOMAIN lfuncs' = 1 .. Len(lfuncs) /\ Len(lfuncs) \in Nat
  <2>1. PICK S : lfuncs \in Seq(S)
    BY <1>0 DEF LoadTypes
  <2>2. DOMAIN lfuncs = 1 .. Len(lfuncs) /\ Len(lfuncs) \in Nat
    BY <2>1, LenProperties
  <2> QED BY <2>2, LenProperties
<1>3. LoadTypes'
  BY <1>0, <1>1 DEF LoadTypes
<1>4. SectionsLeft'
  <2>1. lsection' < 2 => lfuncs' = <<>>
    <3>1. lfuncs = <<>> => Len(lfuncs') = 0
      OBVIOUS
    <3>2. Len(lfuncs') = 0 => lfuncs' = <<>>
      BY EmptySeq
    <3> QED BY <1>0, <1>1, <3>1, <3>2 DEF SectionsLeft
  <2> QED BY <1>0, <1>1, <2>1 DEF SectionsLeft
<1>5. ImportsCounted'
  BY <1>0 DEF ImportsCounted
<1>6. IndexIsPosition'
  BY <1>0, <1>2 DEF IndexIsPosition
<1>7. BodiesMatchFunctions'
  <2> SUFFICES ASSUME NEW k \in 1 .. Len(lfuncs)
               PROVE  /\ lfuncs'[k].dlink <=> k <= lnExt
                      /\ lfuncs'[k].code # -1 => ~lfuncs'[k].dlink /\ lfuncs'[k].code = k - 1 - lnExt
    BY <1>2 DEF BodiesMatchFunctions
  <2>1. /\ lfuncs[k].dlink <=> k <= lnExt
        /\ lfuncs[k].code # -1 => ~lfuncs[k].dlink /\ lfuncs[k].code = k - 1 - lnExt
    BY <1>0, <1>2 DEF BodiesMatchFunctions
  <2>2. k \in Nat /\ lnExt \in Nat
    BY <1>0, <1>2 DEF LoadTypes
  <2> QED BY <2>1, <2>2
<1> QED BY <1>3, <1>4, <1>5, <1>6, <1>7 DEF LoadI, LoadsInOrder

\* A function of a list that has grown is an old one or one of the new.
LEMMA Grown ==
    ASSUME NEW S, NEW T, NEW old \in Seq(S), NEW n \in Nat, NEW more \in [1 .. n -> T]
    PROVE  /\ old \o more \in Seq(S \cup T) /\ Len(old \o more) = Len(old) + n /\ Len(old) \in Nat
           /\ DOMAIN (old \o more) = 1 .. (Len(old) + n)
           /\ \A k \in 1 .. Len(old) : (old \o more)[k] = old[k]
           /\ \A k \in 1 .. n : (old \o more)[Len(old) + k] = more[k]
<1>1. Len(old) \in Nat /\ DOMAIN old = 1 .. Len(old)
  BY LenProperties
<1>2. old \in Seq(S \cup T)
  <2>1. \A k \in 1 .. Len(old) : old[k] \in S
    BY ElementOfSeq
  <2>2. old \in [1 .. Len(old) -> S]
    BY LenProperties
  <2>3. old \in [1 .. Len(old) -> S \cup T]
    BY <2>1, <2>2
  <2> QED BY <1>1, <2>3, SeqDef
<1>3. more \in Seq(S \cup T) /\ Len(more) = n
  <2>1. more \in [1 .. n -> S \cup T]
    OBVIOUS
  <2>2. more \in Seq(S \cup T)
    BY <2>1, SeqDef
  <2>3. Len(more) \in Nat /\ DOMAIN more = 1 .. Len(more) /\ DOMAIN more = 1 .. n
    BY <2>2, LenProperties
  <2> QED BY <2>2, <2>3
<1>4. /\ old \o more \in Seq(S \cup T) /\ Len(old \o more) = Len(old) + n
      /\ \A k \in 1 .. (Len(old) + Len(more)) : (old \o more)[k] = IF k <= Len(old) THEN old[k] ELSE more[k - Len(old)]
  BY <1>2, <1>3, ConcatProperties
<1>5. DOMAIN (old \o more) = 1 .. (Len(old) + n)
  BY <1>4, LenProperties
<1>6. \A k \in 1 .. Len(old) : (old \o more)[k] = old[k]
  BY <1>1, <1>3, <1>4
<1>7. ASSUME NEW k \in 1 .. n PROVE (old \o more)[Len(old) + k] = more[k]
  <2>1. Len(old) + k \in 1 .. (Len(old) + Len(more)) /\ ~(Len(old) + k <= Len(old)) /\ Len(old) + k - Len(old) = k
    BY <1>1, <1>3
  <2> QED BY <1>4, <2>1
<1> QED BY <1>1, <1>4, <1>5, <1>6, <1>7

\* The section of functions, whose numbers start behind the imports.
LEMMA FunctionsAdded == ASSUME LoadI, ParseFunction PROVE LoadI'
<1>0. LoadTypes /\ SectionsLeft /\ ImportsCounted /\ IndexIsPosition /\ BodiesMatchFunctions
  BY DEF LoadI, LoadsInOrder
<1>1. lsection < 3 /\ lsection' = 3 /\ UNCHANGED <<ltypes, limports, lnExt>>
  BY SectionPlaces DEF ParseFunction
<1>2a. PICK n \in LItems : \E tys \in [1 .. n -> LRefs] :
         LET refused == {k \in 1 .. n : tys[k] >= ltypes}
         IN  lfuncs' = lfuncs \o [k \in 1 .. ReadBefore(n, refused) |->
                             [index |-> Len(limports) + k - 1, ty |-> tys[k], origin |-> "internal",
                              code |-> -1, dlink |-> FALSE]]
  BY DEF ParseFunction
<1>2. PICK tys \in [1 .. n -> LRefs] :
        lfuncs' = lfuncs \o [k \in 1 .. ReadBefore(n, {j \in 1 .. n : tys[j] >= ltypes}) |->
                             [index |-> Len(limports) + k - 1, ty |-> tys[k], origin |-> "internal",
                              code |-> -1, dlink |-> FALSE]]
  BY <1>2a
<1>3. n \in Nat /\ Len(limports) \in Nat /\ lnExt \in Nat /\ Len(lfuncs) = lnExt
  BY <1>0, <1>1, LoaderAssumption, LenProperties DEF LItems, LoadTypes, SectionsLeft
<1>4. PICK m \in 0 .. n : m = ReadBefore(n, {j \in 1 .. n : tys[j] >= ltypes})
  <2>1. PICK refused \in SUBSET (1 .. n) : refused = {j \in 1 .. n : tys[j] >= ltypes}
    OBVIOUS
  <2> QED BY <1>3, <2>1, ReadsUpTo
<1>5. PICK more : /\ more = [k \in 1 .. m |-> [index |-> Len(limports) + k - 1, ty |-> tys[k], origin |-> "internal",
                                               code |-> -1, dlink |-> FALSE]]
  OBVIOUS
<1>6. \A k \in 1 .. m : IsFunction(more[k]) /\ more[k].index = Len(limports) + k - 1 /\ more[k].code = -1 /\ ~more[k].dlink
  BY <1>5 DEF IsFunction
<1>7. PICK S, T : lfuncs \in Seq(S) /\ more \in [1 .. m -> T]
  <2>1. more \in [1 .. m -> {more[k] : k \in 1 .. m}]
    BY <1>5
  <2> QED BY <1>0, <2>1 DEF LoadTypes
<1>8. /\ lfuncs' \in Seq(S \cup T) /\ Len(lfuncs') = lnExt + m /\ DOMAIN lfuncs' = 1 .. (lnExt + m)
      /\ \A k \in 1 .. lnExt : lfuncs'[k] = lfuncs[k]
      /\ \A k \in 1 .. m : lfuncs'[lnExt + k] = more[k]
  <2>1. lfuncs' = lfuncs \o more
    BY <1>2, <1>4, <1>5
  <2>2. m \in Nat
    BY <1>3
  <2>3. /\ lfuncs \o more \in Seq(S \cup T) /\ Len(lfuncs \o more) = Len(lfuncs) + m
        /\ DOMAIN (lfuncs \o more) = 1 .. (Len(lfuncs) + m)
        /\ \A k \in 1 .. Len(lfuncs) : (lfuncs \o more)[k] = lfuncs[k]
        /\ \A k \in 1 .. m : (lfuncs \o more)[Len(lfuncs) + k] = more[k]
    BY <1>7, <2>2, Grown
  <2> QED BY <1>3, <2>1, <2>3
<1>9. ASSUME NEW k \in 1 .. (lnExt + m), k > lnExt
      PROVE  /\ lfuncs'[k].index = Len(limports) + (k - lnExt) - 1 /\ lfuncs'[k].code = -1 /\ ~lfuncs'[k].dlink
             /\ IsFunction(lfuncs'[k])
  <2>1. k - lnExt \in 1 .. m /\ lnExt + (k - lnExt) = k
    BY <1>3, <1>9
  <2>2. lfuncs'[k] = more[k - lnExt]
    BY <1>8, <2>1
  <2> QED BY <1>6, <2>1, <2>2
<1>10. DOMAIN lfuncs = 1 .. lnExt
  BY <1>3, <1>7, LenProperties
<1>11. LoadTypes' /\ SectionsLeft' /\ ImportsCounted'
  <2>0. \A k \in 1 .. (lnExt + m) : IsFunction(lfuncs'[k])
    <3>1. \A k \in 1 .. lnExt : IsFunction(lfuncs'[k])
      BY <1>0, <1>3, <1>8 DEF LoadTypes
    <3>2. \A k \in 1 .. (lnExt + m) : k > lnExt \/ k \in 1 .. lnExt
      BY <1>3
    <3> QED BY <1>9, <3>1, <3>2
  <2>1. LoadTypes'
    BY <1>0, <1>1, <1>8, <2>0 DEF LoadTypes
  <2> QED BY <1>0, <1>1, <2>1 DEF SectionsLeft, ImportsCounted
<1>12. IndexIsPosition'
  <2> SUFFICES ASSUME "memory" \notin Range(limports), NEW k \in 1 .. (lnExt + m) PROVE lfuncs'[k].index = k - 1
    BY <1>1, <1>8 DEF IndexIsPosition
  <2>1. CASE k <= lnExt
    <3>1. k \in 1 .. lnExt
      BY <1>3, <2>1
    <3> QED BY <1>0, <1>8, <1>10, <3>1 DEF IndexIsPosition
  <2>2. CASE k > lnExt
    <3>1. lfuncs'[k].index = Len(limports) + (k - lnExt) - 1
      BY <1>9, <2>2
    <3>2. Len(limports) = lnExt
      BY <1>0 DEF ImportsCounted
    <3> QED BY <1>3, <3>1, <3>2
  <2> QED BY <1>3, <2>1, <2>2
<1>13. BodiesMatchFunctions'
  <2> SUFFICES ASSUME NEW k \in 1 .. (lnExt + m)
               PROVE  /\ lfuncs'[k].dlink <=> k <= lnExt
                      /\ lfuncs'[k].code # -1 => ~lfuncs'[k].dlink /\ lfuncs'[k].code = k - 1 - lnExt
    BY <1>1, <1>8 DEF BodiesMatchFunctions
  <2>1. CASE k <= lnExt
    <3>1. k \in 1 .. lnExt
      BY <1>3, <2>1
    <3> QED BY <1>0, <1>8, <1>10, <3>1 DEF BodiesMatchFunctions
  <2>2. CASE k > lnExt
    <3>1. lfuncs'[k].code = -1 /\ ~lfuncs'[k].dlink
      BY <1>9, <2>2
    <3> QED BY <1>3, <2>2, <3>1
  <2> QED BY <1>3, <2>1, <2>2
<1> QED BY <1>11, <1>12, <1>13 DEF LoadI, LoadsInOrder

\* The section of imports, the first that makes functions.
LEMMA ImportsAdded == ASSUME LoadI, ParseImport PROVE LoadI'
<1>0. LoadTypes /\ SectionsLeft
  BY DEF LoadI
<1>1. lsection < 2 /\ lsection' = 2 /\ UNCHANGED ltypes
  BY SectionPlaces DEF ParseImport
<1>2. limports = <<>> /\ lnExt = 0 /\ lfuncs = <<>>
  BY <1>0, <1>1 DEF SectionsLeft
<1>3. PICK n \in LItems : \E items \in [1 .. n -> [kind : {"func", "memory"}, ref : LRefs, found : BOOLEAN]] :
         LET refused == {k \in 1 .. n : items[k].kind = "func" /\ (items[k].ref >= ltypes \/ ~items[k].found)}
             last == ReadBefore(n, refused)
             functions == {k \in 1 .. last : items[k].kind = "func"}
         IN  /\ lfuncs' = lfuncs \o [k \in 1 .. Cardinality(functions) |->
                             [index |-> lnExt + k - 1, ty |-> items[Nth(functions, k)].ref,
                              origin |-> "import", code |-> -1, dlink |-> TRUE]]
             /\ lnExt' = lnExt + Cardinality(functions)
             /\ limports' = limports \o [k \in 1 .. last |-> items[k].kind]
  BY DEF ParseImport
<1>3a. PICK items \in [1 .. n -> [kind : {"func", "memory"}, ref : LRefs, found : BOOLEAN]] :
         LET refused == {k \in 1 .. n : items[k].kind = "func" /\ (items[k].ref >= ltypes \/ ~items[k].found)}
             last == ReadBefore(n, refused)
             functions == {k \in 1 .. last : items[k].kind = "func"}
         IN  /\ lfuncs' = lfuncs \o [k \in 1 .. Cardinality(functions) |->
                             [index |-> lnExt + k - 1, ty |-> items[Nth(functions, k)].ref,
                              origin |-> "import", code |-> -1, dlink |-> TRUE]]
             /\ lnExt' = lnExt + Cardinality(functions)
             /\ limports' = limports \o [k \in 1 .. last |-> items[k].kind]
  BY <1>3
<1>3b. PICK refused \in SUBSET (1 .. n) :
          refused = {k \in 1 .. n : items[k].kind = "func" /\ (items[k].ref >= ltypes \/ ~items[k].found)}
  OBVIOUS
<1>4. n \in Nat
  BY LoaderAssumption DEF LItems
<1>5. PICK last \in 0 .. n : last = ReadBefore(n, refused)
  BY <1>4, ReadsUpTo
<1>6. PICK F \in SUBSET (1 .. last) : F = {j \in 1 .. last : items[j].kind = "func"}
  OBVIOUS
<1>7. PICK m \in Nat : m = Cardinality(F) /\ (F = 1 .. last => m = last)
  <2>1. last \in Nat
    BY <1>4
  <2>2. IsFiniteSet(1 .. last) /\ Cardinality(1 .. last) = last
    BY <2>1, FS_Interval
  <2>3. IsFiniteSet(F)
    BY <2>2, FS_Subset
  <2>4. Cardinality(F) \in Nat
    BY <2>3, FS_CardinalityType
  <2> QED BY <2>2, <2>4
<1>8. PICK more : more = [k \in 1 .. m |-> [index |-> lnExt + k - 1, ty |-> items[Nth(F, k)].ref,
                                           origin |-> "import", code |-> -1, dlink |-> TRUE]]
  OBVIOUS
<1>9. PICK kinds \in [1 .. last -> {"func", "memory"}] : kinds = [k \in 1 .. last |-> items[k].kind]
  <2>1. \A k \in 1 .. last : k \in 1 .. n
    BY <1>4
  <2> QED BY <2>1
<1>10. lfuncs' = lfuncs \o more /\ lnExt' = lnExt + m /\ limports' = limports \o kinds
  BY <1>3a, <1>3b, <1>5, <1>6, <1>7, <1>8, <1>9
<1>11. /\ \A k \in 1 .. m : IsFunction(more[k]) /\ more[k].index = k - 1 /\ more[k].code = -1 /\ more[k].dlink
       /\ more \in [1 .. m -> {more[k] : k \in 1 .. m}]
  <2>1. ASSUME NEW k \in 1 .. m
        PROVE  IsFunction(more[k]) /\ more[k].index = k - 1 /\ more[k].code = -1 /\ more[k].dlink
    <3>1. more[k] = [index |-> lnExt + k - 1, ty |-> items[Nth(F, k)].ref, origin |-> "import", code |-> -1, dlink |-> TRUE]
      BY <1>8
    <3>2. lnExt + k - 1 = k - 1
      BY <1>2
    <3> QED BY <3>1, <3>2 DEF IsFunction
  <2>2. more \in [1 .. m -> {more[k] : k \in 1 .. m}]
    BY <1>8
  <2> QED BY <2>1, <2>2
<1>12. PICK T : more \in [1 .. m -> T]
  BY <1>11
<1>13. /\ lfuncs' \in Seq(T) /\ Len(lfuncs') = m /\ DOMAIN lfuncs' = 1 .. m
       /\ \A k \in 1 .. m : lfuncs'[k] = more[k]
  <2>1. lfuncs \in Seq({})
    BY <1>2
  <2>2. /\ lfuncs \o more \in Seq({} \cup T) /\ Len(lfuncs \o more) = Len(lfuncs) + m
        /\ DOMAIN (lfuncs \o more) = 1 .. (Len(lfuncs) + m)
        /\ \A k \in 1 .. m : (lfuncs \o more)[Len(lfuncs) + k] = more[k]
    BY <1>12, <2>1, Grown
  <2>3. Len(lfuncs) = 0 /\ {} \cup T = T /\ 0 + m = m /\ \A k \in 1 .. m : 0 + k = k
    BY <1>2
  <2> QED BY <1>10, <2>2, <2>3
<1>14. /\ limports' \in Seq({"func", "memory"}) /\ Len(limports') = last /\ DOMAIN limports' = 1 .. last
       /\ \A k \in 1 .. last : limports'[k] = kinds[k]
  <2>1. limports \in Seq({}) /\ last \in Nat
    BY <1>2, <1>4
  <2>2. /\ limports \o kinds \in Seq({} \cup {"func", "memory"}) /\ Len(limports \o kinds) = Len(limports) + last
        /\ DOMAIN (limports \o kinds) = 1 .. (Len(limports) + last)
        /\ \A k \in 1 .. last : (limports \o kinds)[Len(limports) + k] = kinds[k]
    BY <2>1, Grown
  <2>3. Len(limports) = 0 /\ 0 + last = last /\ {} \cup {"func", "memory"} = {"func", "memory"} /\ \A k \in 1 .. last : 0 + k = k
    BY <1>2, <2>1
  <2> QED BY <1>10, <2>2, <2>3
<1>15. lnExt' = m
  BY <1>2, <1>10
<1>16. LoadTypes'
  BY <1>0, <1>1, <1>11, <1>13, <1>14, <1>15 DEF LoadTypes
<1>17. SectionsLeft'
  BY <1>1, <1>13, <1>15 DEF SectionsLeft
<1>18. ImportsCounted'
  <2> SUFFICES ASSUME "memory" \notin Range(limports') PROVE last = m
    BY <1>14, <1>15 DEF ImportsCounted
  <2>1. \A k \in 1 .. last : kinds[k] # "memory"
    BY <1>14 DEF Range
  <2>2. F = 1 .. last
    BY <1>6, <1>9, <2>1
  <2> QED BY <1>7, <2>2
<1>19. IndexIsPosition'
  BY <1>11, <1>13 DEF IndexIsPosition
<1>20. BodiesMatchFunctions'
  <2> SUFFICES ASSUME NEW k \in 1 .. m
               PROVE  (lfuncs'[k].dlink <=> k <= m) /\ lfuncs'[k].code = -1
    BY <1>13, <1>15 DEF BodiesMatchFunctions
  <2>1. lfuncs'[k].dlink /\ lfuncs'[k].code = -1
    BY <1>11, <1>13
  <2>2. k <= m
    OBVIOUS
  <2> QED BY <2>1, <2>2
<1> QED BY <1>16, <1>17, <1>18, <1>19, <1>20 DEF LoadI, LoadsInOrder

\* The section of exports marks functions.
LEMMA ExportsMarked == ASSUME LoadI, ParseExport PROVE LoadI'
<1>0. LoadTypes
  BY DEF LoadI
<1>1. Section("Export") /\ UNCHANGED <<ltypes, limports, lnExt>>
  BY DEF ParseExport
<1>2. PICK j \in LRefs : lfuncs' = IF j + 1 \in DOMAIN lfuncs THEN [lfuncs EXCEPT ![j + 1].origin = "export"] ELSE lfuncs
  BY DEF ParseExport
<1>3. PICK S : lfuncs \in Seq(S)
  BY <1>0 DEF LoadTypes
<1>4. Len(lfuncs) \in Nat /\ DOMAIN lfuncs = 1 .. Len(lfuncs)
  BY <1>3, LenProperties
<1>5. PICK f : f = lfuncs'
  OBVIOUS
<1>6. /\ DOMAIN f = 1 .. Len(lfuncs) /\ f = [k \in 1 .. Len(lfuncs) |-> f[k]]
      /\ \A k \in 1 .. Len(lfuncs) : /\ IsFunction(f[k]) /\ f[k].index = lfuncs[k].index
                                     /\ f[k].dlink = lfuncs[k].dlink /\ f[k].code = lfuncs[k].code
  <2>1. lfuncs = [k \in 1 .. Len(lfuncs) |-> lfuncs[k]]
    BY <1>3, <1>4
  <2>2. DOMAIN f = 1 .. Len(lfuncs) /\ f = [k \in 1 .. Len(lfuncs) |-> f[k]]
    BY <1>2, <1>4, <1>5, <2>1
  <2>3. ASSUME NEW k \in 1 .. Len(lfuncs)
        PROVE  /\ IsFunction(f[k]) /\ f[k].index = lfuncs[k].index
               /\ f[k].dlink = lfuncs[k].dlink /\ f[k].code = lfuncs[k].code
    <3>1. IsFunction(lfuncs[k])
      BY <1>0 DEF LoadTypes
    <3>2. f[k] = lfuncs[k] \/ f[k] = [lfuncs[k] EXCEPT !.origin = "export"]
      BY <1>2, <1>4, <1>5
    <3> QED BY <3>1, <3>2 DEF IsFunction
  <2> QED BY <2>2, <2>3
<1>7. f \in Seq({f[k] : k \in 1 .. Len(lfuncs)}) /\ Len(f) = Len(lfuncs)
  <2>1. f \in [1 .. Len(lfuncs) -> {f[k] : k \in 1 .. Len(lfuncs)}]
    BY <1>6
  <2>2. f \in Seq({f[k] : k \in 1 .. Len(lfuncs)})
    BY <1>4, <2>1, SeqDef
  <2>3. DOMAIN f = 1 .. Len(f) /\ Len(f) \in Nat
    BY <2>2, LenProperties
  <2> QED BY <1>4, <1>6, <2>2, <2>3
<1>8. PICK T : f \in Seq(T)
  BY <1>7
<1> QED BY <1>1, <1>5, <1>6, <1>7, <1>8, FunctionsKept

\* The section of code gives the defined functions their bodies.
LEMMA BodiesGiven == ASSUME LoadI, ParseCode PROVE LoadI'
<1>0. LoadTypes
  BY DEF LoadI
<1>1. Section("Code") /\ UNCHANGED <<ltypes, limports, lnExt>>
  BY DEF ParseCode
<1>2. PICK n \in LItems : lfuncs' = [k \in DOMAIN lfuncs |->
                         IF k - 1 \in lnExt .. lnExt + n - 1
                         THEN [lfuncs[k] EXCEPT !.code = k - 1 - lnExt] ELSE lfuncs[k]]
  BY DEF ParseCode
<1>3. PICK S : lfuncs \in Seq(S)
  BY <1>0 DEF LoadTypes
<1>4. Len(lfuncs) \in Nat /\ DOMAIN lfuncs = 1 .. Len(lfuncs) /\ lnExt \in Nat /\ n \in Nat
  BY <1>0, <1>3, LenProperties, LoaderAssumption DEF LoadTypes, LItems
<1>5. PICK f : f = lfuncs'
  OBVIOUS
<1>6. /\ DOMAIN f = 1 .. Len(lfuncs) /\ f = [k \in 1 .. Len(lfuncs) |-> f[k]]
      /\ \A k \in 1 .. Len(lfuncs) : /\ IsFunction(f[k]) /\ f[k].index = lfuncs[k].index
                                     /\ f[k].dlink = lfuncs[k].dlink
                                     /\ \/ f[k].code = lfuncs[k].code
                                        \/ k > lnExt /\ f[k].code = k - 1 - lnExt
  <2>2. DOMAIN f = 1 .. Len(lfuncs) /\ f = [k \in 1 .. Len(lfuncs) |-> f[k]]
    BY <1>2, <1>4, <1>5
  <2>3. ASSUME NEW k \in 1 .. Len(lfuncs)
        PROVE  /\ IsFunction(f[k]) /\ f[k].index = lfuncs[k].index
               /\ f[k].dlink = lfuncs[k].dlink
               /\ \/ f[k].code = lfuncs[k].code
                  \/ k > lnExt /\ f[k].code = k - 1 - lnExt
    <3>1. IsFunction(lfuncs[k])
      BY <1>0 DEF LoadTypes
    <3>2. f[k] = lfuncs[k] \/ (k > lnExt /\ f[k] = [lfuncs[k] EXCEPT !.code = k - 1 - lnExt])
      <4>1. CASE k - 1 \in lnExt .. lnExt + n - 1
        <5>1. k > lnExt
          BY <1>4, <4>1
        <5>2. f[k] = [lfuncs[k] EXCEPT !.code = k - 1 - lnExt]
          BY <1>2, <1>4, <1>5, <4>1
        <5> QED BY <5>1, <5>2
      <4>2. CASE ~(k - 1 \in lnExt .. lnExt + n - 1)
        BY <1>2, <1>4, <1>5, <4>2
      <4> QED BY <4>1, <4>2
    <3>3. CASE f[k] = lfuncs[k]
      BY <3>1, <3>3
    <3>4. CASE k > lnExt /\ f[k] = [lfuncs[k] EXCEPT !.code = k - 1 - lnExt]
      BY <3>1, <3>4 DEF IsFunction
    <3> QED BY <3>2, <3>3, <3>4
  <2> QED BY <2>2, <2>3
<1>7. f \in Seq({f[k] : k \in 1 .. Len(lfuncs)}) /\ Len(f) = Len(lfuncs)
  <2>1. f \in [1 .. Len(lfuncs) -> {f[k] : k \in 1 .. Len(lfuncs)}]
    BY <1>6
  <2>2. f \in Seq({f[k] : k \in 1 .. Len(lfuncs)})
    BY <1>4, <2>1, SeqDef
  <2>3. DOMAIN f = 1 .. Len(f) /\ Len(f) \in Nat
    BY <2>2, LenProperties
  <2> QED BY <1>4, <1>6, <2>2, <2>3
<1>8. PICK T : f \in Seq(T)
  BY <1>7
<1> QED BY <1>1, <1>5, <1>6, <1>7, <1>8, FunctionsKept

(* Functions, imports and bodies stay in step while a module is loaded:     *)
(* whatever sections it has, with any number of items, the number of a      *)
(* function is its place unless a memory was imported, an imported function *)
(* has its link and no body, and a defined one gets the body at its own     *)
(* place among the bodies (wasm.rs, `parse_sec_import`, `parse_sec_func`,   *)
(* `parse_sec_code`).                                                       *)
THEOREM ModulesLoadInOrder == LoaderSpec => []LoadsInOrder
<1>1. LInit => LoadI
  <2> SUFFICES ASSUME LInit PROVE LoadI
    OBVIOUS
  <2>1. LoadTypes
    <3>1. lfuncs = <<>> /\ lfuncs \in Seq({}) /\ Len(lfuncs) = 0 /\ limports \in Seq({"func", "memory"})
      BY DEF LInit
    <3> QED BY <3>1 DEF LInit, LoadTypes
  <2>2. SectionsLeft /\ ImportsCounted
    BY DEF LInit, SectionsLeft, ImportsCounted
  <2>3. LoadsInOrder
    <3>1. DOMAIN lfuncs = {}
      BY DEF LInit
    <3> QED BY <3>1 DEF LoadsInOrder, IndexIsPosition, BodiesMatchFunctions
  <2> QED BY <2>1, <2>2, <2>3 DEF LoadI
<1>2. LoadI /\ [LNext]_lVars => LoadI'
  <2> SUFFICES ASSUME LoadI, [LNext]_lVars PROVE LoadI'
    OBVIOUS
  <2>0. lsection \in 0 .. 12 /\ ltypes \in Nat /\ Len(Sections) = 12 /\ MaxItems \in Nat
    BY LoaderAssumption DEF LoadI, LoadTypes, Sections
  <2>1. CASE ParseType
    <3>1. ltypes' \in Nat
      BY <2>0, <2>1 DEF ParseType, LItems
    <3> QED BY <2>0, <2>1, <3>1, SectionPlaces, OtherSection DEF ParseType
  <2>2. CASE ParseImport
    BY <2>2, ImportsAdded
  <2>3. CASE ParseFunction
    BY <2>3, FunctionsAdded
  <2>4. CASE ParseTable
    BY <2>0, <2>4, SectionPlaces, OtherSection DEF ParseTable
  <2>5. CASE ParseMemory
    BY <2>0, <2>5, SectionPlaces, OtherSection DEF ParseMemory
  <2>6. CASE ParseGlobal
    BY <2>0, <2>6, SectionPlaces, OtherSection DEF ParseGlobal
  <2>7. CASE ParseExport
    BY <2>7, ExportsMarked
  <2>8. CASE ParseStart
    BY <2>0, <2>8, SectionPlaces, OtherSection DEF ParseStart
  <2>9. CASE ParseElement
    BY <2>0, <2>9, SectionPlaces, OtherSection DEF ParseElement
  <2>10. CASE ParseDataCount
    BY <2>0, <2>10, SectionPlaces, OtherSection DEF ParseDataCount
  <2>11. CASE ParseCode
    BY <2>11, BodiesGiven
  <2>12. CASE ParseData
    BY <2>0, <2>12, SectionPlaces, OtherSection DEF ParseData
  <2>13. CASE ParseCustom
    BY <2>0, <2>13, OtherSection DEF ParseCustom
  <2>14. CASE EndOfModule
    BY <2>0, <2>14, OtherSection DEF EndOfModule
  <2>15. CASE UNCHANGED lVars
    BY <2>0, <2>15, OtherSection DEF lVars
  <2> QED BY <2>1, <2>2, <2>3, <2>4, <2>5, <2>6, <2>7, <2>8, <2>9, <2>10, <2>11, <2>12, <2>13, <2>14, <2>15 DEF LNext
<1>3. LoadI => LoadsInOrder
  BY DEF LoadI
<1> QED BY <1>1, <1>2, <1>3, PTL DEF LoaderSpec

-----------------------------------------------------------------------------
(* Counting in sequences *)

\* How many elements of s are in X.
Count(s, X) == Cardinality({i \in 1 .. Len(s) : s[i] \in X})
One(p) == IF p THEN 1 ELSE 0

\* A count is a number, and 0 if nothing is there.
LEMMA CountNat ==
    ASSUME NEW S, NEW s \in Seq(S), NEW X
    PROVE  /\ IsFiniteSet({i \in 1 .. Len(s) : s[i] \in X}) /\ Count(s, X) \in Nat
           /\ Count(s, X) = 0 <=> \A i \in 1 .. Len(s) : s[i] \notin X
<1>1. PICK P : P = {i \in 1 .. Len(s) : s[i] \in X}
  OBVIOUS
<1>2. IsFiniteSet(1 .. Len(s))
  BY LenProperties, FS_Interval
<1>3. P \in SUBSET (1 .. Len(s))
  BY <1>1
<1>4. IsFiniteSet(P)
  BY <1>2, <1>3, FS_Subset
<1>5. Cardinality(P) \in Nat
  BY <1>4, FS_CardinalityType
<1>6. Cardinality(P) = 0 <=> P = {}
  BY <1>4, FS_EmptySet
<1> QED BY <1>1, <1>4, <1>5, <1>6 DEF Count

LEMMA CountEmpty == ASSUME NEW X PROVE Count(<<>>, X) = 0
<1>1. {i \in 1 .. Len(<<>>) : <<>>[i] \in X} = {}
  OBVIOUS
<1> QED BY <1>1, FS_EmptySet DEF Count

\* Two sequences one after the other.
LEMMA CountConcat ==
    ASSUME NEW S, NEW s \in Seq(S), NEW r \in Seq(S), NEW X
    PROVE  Count(s \o r, X) = Count(s, X) + Count(r, X)
<1>1. PICK n \in Nat, m \in Nat : n = Len(s) /\ m = Len(r)
  BY LenProperties
<1>2. /\ s \o r \in Seq(S) /\ Len(s \o r) = n + m
      /\ \A i \in 1 .. (n + m) : (s \o r)[i] = IF i <= n THEN s[i] ELSE r[i - n]
  BY <1>1, ConcatProperties
<1>3. PICK P, R, Q : /\ P = {i \in 1 .. n : s[i] \in X} /\ R = {i \in 1 .. m : r[i] \in X}
                     /\ Q = {i \in (n + 1) .. (n + m) : r[i - n] \in X}
  OBVIOUS
<1>4. {i \in 1 .. Len(s \o r) : (s \o r)[i] \in X} = P \cup Q
  <2>1. \A i \in 1 .. (n + m) : IF i <= n THEN i \in 1 .. n ELSE i \in (n + 1) .. (n + m)
    OBVIOUS
  <2>2. \A i \in 1 .. n : i \in 1 .. (n + m) /\ i <= n
    OBVIOUS
  <2>3. \A i \in (n + 1) .. (n + m) : i \in 1 .. (n + m) /\ ~(i <= n)
    OBVIOUS
  <2> QED BY <1>2, <1>3, <2>1, <2>2, <2>3
<1>5. P \cap Q = {}
  BY <1>3
<1>6. IsFiniteSet(P) /\ Cardinality(P) = Count(s, X) /\ IsFiniteSet(R) /\ Cardinality(R) = Count(r, X)
  BY <1>1, <1>3, CountNat DEF Count
<1>7. ExistsBijection(R, Q)
  <2> DEFINE f == [i \in R |-> i + n]
  <2>1. f \in [R -> Q]
    <3>1. ASSUME NEW i \in R PROVE i + n \in Q
      <4>1. i \in 1 .. m /\ r[i] \in X
        BY <1>3
      <4>2. i + n \in (n + 1) .. (n + m) /\ (i + n) - n = i
        BY <4>1
      <4> QED BY <1>3, <4>1, <4>2
    <3> QED BY <3>1
  <2>2. \A i, j \in R : f[i] = f[j] => i = j
    BY <1>3
  <2>3. \A j \in Q : \E i \in R : f[i] = j
    <3> SUFFICES ASSUME NEW j \in Q PROVE \E i \in R : f[i] = j
      OBVIOUS
    <3>1. j \in (n + 1) .. (n + m) /\ r[j - n] \in X
      BY <1>3
    <3>2. j - n \in 1 .. m /\ (j - n) + n = j
      BY <3>1
    <3>3. j - n \in R /\ f[j - n] = j
      BY <1>3, <3>1, <3>2
    <3> QED BY <3>3
  <2> HIDE DEF f
  <2>4. f \in Bijection(R, Q)
    BY <2>1, <2>2, <2>3 DEF Bijection, Injection, Surjection, IsInjective
  <2> QED BY <2>4 DEF ExistsBijection
<1>8. IsFiniteSet(Q) /\ Cardinality(Q) = Cardinality(R)
  BY <1>6, <1>7, FS_Bijection
<1>9. Cardinality(P \cup Q) = Cardinality(P) + Cardinality(Q) - Cardinality({})
  BY <1>5, <1>6, <1>8, FS_Union
<1>10. Cardinality(P) \in Nat /\ Cardinality(R) \in Nat
  BY <1>6, FS_CardinalityType
<1>11. Cardinality({}) = 0
  BY FS_EmptySet
<1>12. Cardinality(P \cup Q) = Cardinality(P) + Cardinality(R)
  BY <1>8, <1>9, <1>10, <1>11
<1>13. Count(s \o r, X) = Cardinality(P \cup Q)
  BY ONLY <1>4 DEF Count
<1> QED BY <1>6, <1>12, <1>13

LEMMA CountOne == ASSUME NEW y, NEW X PROVE Count(<<y>>, X) = One(y \in X)
<1>1. CASE y \in X
  <2>1. {i \in 1 .. Len(<<y>>) : <<y>>[i] \in X} = {1}
    BY <1>1
  <2> QED BY <1>1, <2>1, FS_Singleton DEF Count, One
<1>2. CASE y \notin X
  <2>1. {i \in 1 .. Len(<<y>>) : <<y>>[i] \in X} = {}
    BY <1>2
  <2> QED BY <1>2, <2>1, FS_EmptySet DEF Count, One
<1> QED BY <1>1, <1>2

\* One element more at the end, one less at the head.
LEMMA CountAppend ==
    ASSUME NEW S, NEW s \in Seq(S), NEW y \in S, NEW X
    PROVE  Append(s, y) \in Seq(S) /\ Count(Append(s, y), X) = Count(s, X) + One(y \in X)
<1>1. <<y>> \in Seq(S) /\ Append(s, y) = s \o <<y>> /\ Append(s, y) \in Seq(S)
  OBVIOUS
<1>2. Count(s \o <<y>>, X) = Count(s, X) + Count(<<y>>, X)
  BY <1>1, CountConcat
<1>3. Count(<<y>>, X) = One(y \in X)
  BY CountOne
<1> QED BY <1>1, <1>2, <1>3

LEMMA CountTail ==
    ASSUME NEW S, NEW s \in Seq(S), s # <<>>, NEW X
    PROVE  /\ Tail(s) \in Seq(S) /\ Head(s) \in S
           /\ Count(s, X) = Count(Tail(s), X) + One(Head(s) \in X) /\ Count(Tail(s), X) \in Nat
<1>1. PICK h, r : h = Head(s) /\ r = Tail(s)
  OBVIOUS
<1>2. h \in S /\ r \in Seq(S) /\ <<h>> \in Seq(S) /\ s = <<h>> \o r
  BY <1>1, HeadTailProperties
<1>3. Count(s, X) = Count(<<h>>, X) + Count(r, X)
  BY <1>2, CountConcat
<1>4. Count(<<h>>, X) = One(h \in X) /\ Count(r, X) \in Nat
  BY <1>2, CountOne, CountNat
<1> QED BY <1>1, <1>2, <1>3, <1>4 DEF One

-----------------------------------------------------------------------------
(* The doorbell scheduler *)

BellsOf(t) == {Doorbell(h, s, t) : h \in UTasks, s \in Nat}
UMsg == {Focus(h) : h \in UTasks} \cup {Unfocus(h) : h \in UTasks} \cup UNION {BellsOf(t) : t \in UTasks}

MsgTypes == uQueue \in Seq(UMsg) /\ uActive \in Seq(UMsg) /\ uRetired \in Seq(UMsg)

\* How many messages of X are on their way: queued, active or retired.
Posted(X) == Count(uQueue, X) + Count(uActive, X) + Count(uRetired, X)

LEMMA PostedNat ==
    ASSUME MsgTypes, NEW X
    PROVE  /\ Count(uQueue, X) \in Nat /\ Count(uActive, X) \in Nat /\ Count(uRetired, X) \in Nat
           /\ Posted(X) \in Nat
<1>1. Count(uQueue, X) \in Nat
  BY CountNat DEF MsgTypes
<1>2. Count(uActive, X) \in Nat
  BY CountNat DEF MsgTypes
<1>3. Count(uRetired, X) \in Nat
  BY CountNat DEF MsgTypes
<1> QED BY <1>1, <1>2, <1>3 DEF Posted

\* A message is posted.
LEMMA PostsOne ==
    ASSUME MsgTypes, NEW m \in UMsg, uQueue' = Append(uQueue, m), uActive' = uActive, uRetired' = uRetired
    PROVE  MsgTypes' /\ \A X : Posted(X)' = Posted(X) + One(m \in X)
<1>1. MsgTypes'
  BY CountAppend DEF MsgTypes
<1>2. ASSUME NEW X PROVE Posted(X)' = Posted(X) + One(m \in X)
  <2>1. Count(Append(uQueue, m), X) = Count(uQueue, X) + One(m \in X)
    BY CountAppend DEF MsgTypes
  <2>2. Posted(X)' = Count(Append(uQueue, m), X) + Count(uActive, X) + Count(uRetired, X)
    BY DEF Posted
  <2>3. Count(uQueue, X) \in Nat /\ Count(uActive, X) \in Nat /\ Count(uRetired, X) \in Nat
    BY PostedNat
  <2>4. One(m \in X) \in Nat
    BY DEF One
  <2> QED BY <2>1, <2>2, <2>3, <2>4 DEF Posted
<1> QED BY <1>1, <1>2

\* Nothing is posted and nothing looked at.
LEMMA PostsNone ==
    ASSUME MsgTypes, uQueue' = uQueue, uActive' = uActive, uRetired' = uRetired
    PROVE  MsgTypes' /\ \A X : Posted(X)' = Posted(X)
BY DEF MsgTypes, Posted

\* The focus and its end in one poll.
LEMMA PostsTwo ==
    ASSUME MsgTypes, NEW m \in UMsg, NEW n \in UMsg, uQueue' = uQueue \o <<m, n>>,
           uActive' = uActive, uRetired' = uRetired
    PROVE  MsgTypes' /\ \A X : Posted(X)' = Posted(X) + One(m \in X) + One(n \in X)
<1>1. <<m, n>> \in Seq(UMsg) /\ <<m, n>> = Append(<<m>>, n) /\ <<m>> \in Seq(UMsg)
  OBVIOUS
<1>2. MsgTypes'
  BY <1>1, ConcatProperties DEF MsgTypes
<1>3. ASSUME NEW X PROVE Posted(X)' = Posted(X) + One(m \in X) + One(n \in X)
  <2>1. Count(uQueue \o <<m, n>>, X) = Count(uQueue, X) + Count(<<m, n>>, X)
    BY <1>1, CountConcat DEF MsgTypes
  <2>2. Count(<<m, n>>, X) = Count(<<m>>, X) + One(n \in X)
    <3>1. Count(Append(<<m>>, n), X) = Count(<<m>>, X) + One(n \in X)
      BY <1>1, CountAppend
    <3> QED BY ONLY <1>1, <3>1
  <2>3. Count(<<m>>, X) = One(m \in X)
    BY CountOne
  <2>4. Posted(X)' = Count(uQueue \o <<m, n>>, X) + Count(uActive, X) + Count(uRetired, X)
    BY DEF Posted
  <2>5. Count(uQueue, X) \in Nat /\ Count(uActive, X) \in Nat /\ Count(uRetired, X) \in Nat
    BY PostedNat
  <2>6. One(m \in X) \in Nat /\ One(n \in X) \in Nat
    BY DEF One
  <2> QED BY <2>1, <2>2, <2>3, <2>4, <2>5, <2>6 DEF Posted
<1> QED BY <1>2, <1>3

\* The batch is what was queued.
LEMMA Batched ==
    ASSUME MsgTypes, TakeBatch
    PROVE  MsgTypes' /\ \A X : Posted(X)' = Posted(X)
<1>1. uActive = <<>> /\ uActive' = uQueue /\ uQueue' = <<>> /\ uRetired' = uRetired
  BY DEF TakeBatch, Resting
<1>2. MsgTypes'
  BY <1>1 DEF MsgTypes
<1>3. ASSUME NEW X PROVE Posted(X)' = Posted(X)
  <2>1. Posted(X)' = Count(<<>>, X) + Count(uQueue, X) + Count(uRetired, X)
    BY <1>1 DEF Posted
  <2>2. Posted(X) = Count(uQueue, X) + Count(<<>>, X) + Count(uRetired, X)
    BY <1>1 DEF Posted
  <2>3. Count(<<>>, X) = 0
    BY CountEmpty
  <2>4. Count(uQueue, X) \in Nat /\ Count(uRetired, X) \in Nat
    BY PostedNat
  <2> QED BY <2>1, <2>2, <2>3, <2>4
<1> QED BY <1>2, <1>3

\* The message looked at takes effect.
LEMMA Consumed ==
    ASSUME MsgTypes, uActive # <<>>, uActive' = Tail(uActive), uQueue' = uQueue, uRetired' = uRetired
    PROVE  MsgTypes' /\ \A X : Posted(X)' \in Nat /\ Posted(X) = Posted(X)' + One(Head(uActive) \in X)
<1>1. Tail(uActive) \in Seq(UMsg)
  BY CountTail DEF MsgTypes
<1>2. MsgTypes'
  BY <1>1 DEF MsgTypes
<1>3. ASSUME NEW X PROVE Posted(X)' \in Nat /\ Posted(X) = Posted(X)' + One(Head(uActive) \in X)
  <2>1. Posted(X)' = Count(uQueue, X) + Count(Tail(uActive), X) + Count(uRetired, X)
    BY DEF Posted
  <2>2. /\ Count(uActive, X) = Count(Tail(uActive), X) + One(Head(uActive) \in X)
        /\ Count(Tail(uActive), X) \in Nat
    BY CountTail DEF MsgTypes
  <2>3. Count(uQueue, X) \in Nat /\ Count(uRetired, X) \in Nat
    BY PostedNat
  <2>4. One(Head(uActive) \in X) \in Nat
    BY DEF One
  <2> QED BY <2>1, <2>2, <2>3, <2>4 DEF Posted
<1> QED BY <1>2, <1>3

\* The message looked at is retired.
LEMMA Retires ==
    ASSUME MsgTypes, uActive # <<>>, uActive' = Tail(uActive), uQueue' = uQueue,
           uRetired' = Append(uRetired, Head(uActive))
    PROVE  MsgTypes' /\ \A X : Posted(X) = Posted(X)'
<1>1. Tail(uActive) \in Seq(UMsg) /\ Head(uActive) \in UMsg
  BY CountTail DEF MsgTypes
<1>2. MsgTypes'
  BY <1>1, CountAppend DEF MsgTypes
<1>3. ASSUME NEW X PROVE Posted(X) = Posted(X)'
  <2>1. Posted(X)' = Count(uQueue, X) + Count(Tail(uActive), X) + Count(Append(uRetired, Head(uActive)), X)
    BY DEF Posted
  <2>2. /\ Count(uActive, X) = Count(Tail(uActive), X) + One(Head(uActive) \in X)
        /\ Count(Tail(uActive), X) \in Nat
    BY CountTail DEF MsgTypes
  <2>3. Count(Append(uRetired, Head(uActive)), X) = Count(uRetired, X) + One(Head(uActive) \in X)
    BY <1>1, CountAppend DEF MsgTypes
  <2>4. Count(uQueue, X) \in Nat /\ Count(uRetired, X) \in Nat
    BY PostedNat
  <2>5. One(Head(uActive) \in X) \in Nat
    BY DEF One
  <2> QED BY <2>1, <2>2, <2>3, <2>4, <2>5 DEF Posted
<1> QED BY <1>2, <1>3

\* It takes effect, and what was retired is looked at again.
LEMMA Restores ==
    ASSUME MsgTypes, uActive # <<>>, uActive' = Tail(uActive) \o uRetired, uQueue' = uQueue, uRetired' = <<>>
    PROVE  MsgTypes' /\ \A X : Posted(X)' \in Nat /\ Posted(X) = Posted(X)' + One(Head(uActive) \in X)
<1>1. Tail(uActive) \in Seq(UMsg)
  BY CountTail DEF MsgTypes
<1>2. MsgTypes'
  BY <1>1, ConcatProperties DEF MsgTypes
<1>3. ASSUME NEW X PROVE Posted(X)' \in Nat /\ Posted(X) = Posted(X)' + One(Head(uActive) \in X)
  <2>1. Posted(X)' = Count(uQueue, X) + Count(Tail(uActive) \o uRetired, X) + Count(<<>>, X)
    BY DEF Posted
  <2>2. /\ Count(uActive, X) = Count(Tail(uActive), X) + One(Head(uActive) \in X)
        /\ Count(Tail(uActive), X) \in Nat
    BY CountTail DEF MsgTypes
  <2>3. Count(Tail(uActive) \o uRetired, X) = Count(Tail(uActive), X) + Count(uRetired, X)
    BY <1>1, CountConcat DEF MsgTypes
  <2>4. Count(uQueue, X) \in Nat /\ Count(uRetired, X) \in Nat
    BY PostedNat
  <2>5. One(Head(uActive) \in X) \in Nat
    BY DEF One
  <2>6. Count(<<>>, X) = 0
    BY CountEmpty
  <2> QED BY <2>1, <2>2, <2>3, <2>4, <2>5, <2>6 DEF Posted
<1> QED BY <1>2, <1>3

-----------------------------------------------------------------------------
(* The tasks *)

UPc == {"idle", "ask", "enable", "wait", "rung", "unfocus", "timeout"}

\* What a task has done when it is at a step of its job.
Stage(r) ==
    /\ r.pc = "idle" => r.focused = FALSE
    /\ r.pc # "idle" => r.jobs # <<>>
    /\ r.pc \in {"ask", "enable", "unfocus", "timeout"} => r.focused = TRUE
    /\ r.pc = "enable" => Head(r.jobs).kind = "attach"
    /\ r.pc = "ask" => Head(r.jobs).kind \in {"attach", "detach"}
    /\ r.pc \in {"wait", "rung"} => (r.focused = TRUE <=> Head(r.jobs).kind # "transfer")
    /\ r.slot # 0 => r.pc \in {"wait", "rung"} /\ Head(r.jobs).kind = "attach"

TaskAt(t, r) ==
    /\ r.pc \in UPc /\ r.jobs \in Seq(UJobs(t)) /\ r.focused \in BOOLEAN /\ r.slot \in 0 .. MaxSlots
    /\ DOMAIN r = {"pc", "jobs", "focused", "slot"}
    /\ Stage(r)

Tasks == DOMAIN uTask = UTasks /\ \A t \in UTasks : TaskAt(t, uTask[t])

\* Every Focus that was posted and every Unfocus: what is on its way, the hub
\* in focus and the driver that believes itself in focus account for them.
Balance == \A h \in UTasks : Posted({Focus(h)}) + One(h \in uLocked)
                             = Posted({Unfocus(h)}) + One(uTask[h].focused = TRUE)

\* A doorbell is on its way for exactly the tasks that wait for one.
BellsOnce == \A t \in UTasks : Posted(BellsOf(t)) = One(uTask[t].pc = "wait")

\* The message to or from one task is no other's.
LEMMA Messages ==
    ASSUME NEW t \in UTasks, NEW h \in UTasks
    PROVE  /\ One(Focus(t) \in {Focus(h)}) = IF h = t THEN 1 ELSE 0
           /\ One(Focus(t) \in {Unfocus(h)}) = 0 /\ One(Focus(t) \in BellsOf(h)) = 0
           /\ One(Unfocus(t) \in {Unfocus(h)}) = IF h = t THEN 1 ELSE 0
           /\ One(Unfocus(t) \in {Focus(h)}) = 0 /\ One(Unfocus(t) \in BellsOf(h)) = 0
           /\ \A g \in UTasks, s \in Nat :
                /\ One(Doorbell(g, s, t) \in {Focus(h)}) = 0 /\ One(Doorbell(g, s, t) \in {Unfocus(h)}) = 0
                /\ One(Doorbell(g, s, t) \in BellsOf(h)) = IF h = t THEN 1 ELSE 0
<1>1. Focus(t).hub = t /\ Focus(h).hub = h /\ Focus(t).kind = "focus"
  BY DEF Focus
<1>2. Unfocus(t).hub = t /\ Unfocus(h).hub = h /\ Unfocus(h).kind = "unfocus" /\ Unfocus(t).kind = "unfocus"
  BY DEF Unfocus
<1>3. \A g, s, u : Doorbell(g, s, u).kind = "bell" /\ Doorbell(g, s, u).task = u
  BY DEF Doorbell
<1>4. \A m \in BellsOf(h) : m.kind = "bell" /\ m.task = h
  BY <1>3 DEF BellsOf
<1>5. Focus(h).kind = "focus"
  BY DEF Focus
<1>6. Focus(t) \notin BellsOf(h) /\ Unfocus(t) \notin BellsOf(h)
  BY <1>1, <1>2, <1>4
<1>7. (Focus(t) \in {Focus(h)} <=> h = t) /\ (Unfocus(t) \in {Unfocus(h)} <=> h = t)
  BY <1>1, <1>2
<1>8. Focus(t) \notin {Unfocus(h)} /\ Unfocus(t) \notin {Focus(h)}
  BY <1>1, <1>2, <1>5
<1>9. ASSUME NEW g \in UTasks, NEW s \in Nat
      PROVE  /\ Doorbell(g, s, t) \notin {Focus(h)} /\ Doorbell(g, s, t) \notin {Unfocus(h)}
             /\ Doorbell(g, s, t) \in BellsOf(h) <=> h = t
  <2>1. Doorbell(g, s, t) \in BellsOf(t)
    BY DEF BellsOf
  <2>2. Doorbell(g, s, t) \in BellsOf(h) => h = t
    BY <1>3, <1>4
  <2> QED BY <1>2, <1>3, <1>5, <2>1, <2>2
<1> QED BY <1>6, <1>7, <1>8, <1>9 DEF One

\* A step posts so many messages about task t.
PostsFor(t, df, du, db) ==
    \A h \in UTasks : /\ Posted({Focus(h)})' = Posted({Focus(h)}) + (IF h = t THEN df ELSE 0)
                      /\ Posted({Unfocus(h)})' = Posted({Unfocus(h)}) + (IF h = t THEN du ELSE 0)
                      /\ Posted(BellsOf(h))' = Posted(BellsOf(h)) + (IF h = t THEN db ELSE 0)

\* They agree with what the step makes of the task's record.
Agree(t, df, du, db) ==
    /\ df \in Nat /\ du \in Nat /\ db \in Nat
    /\ df + One(uTask[t].focused = TRUE) = du + One(uTask'[t].focused = TRUE)
    /\ db + One(uTask[t].pc = "wait") = One(uTask'[t].pc = "wait")

\* A task takes a step.
LEMMA TaskMoves ==
    ASSUME MsgTypes, Tasks, Balance, BellsOnce, NEW t \in UTasks, TaskAt(t, uTask'[t]),
           DOMAIN uTask' = UTasks, \A v \in UTasks \ {t} : uTask'[v] = uTask[v], uLocked' = uLocked,
           NEW df, NEW du, NEW db, PostsFor(t, df, du, db), Agree(t, df, du, db)
    PROVE  Tasks' /\ Balance' /\ BellsOnce'
<1>1. Tasks'
  <2>1. ASSUME NEW v \in UTasks PROVE TaskAt(v, uTask'[v])
    BY DEF Tasks
  <2> QED BY <2>1 DEF Tasks
<1>2. Balance'
  <2> SUFFICES ASSUME NEW h \in UTasks
               PROVE  Posted({Focus(h)})' + One(h \in uLocked)
                      = Posted({Unfocus(h)})' + One(uTask'[h].focused = TRUE)
    BY DEF Balance, Focus, Unfocus
  <2>1. Posted({Focus(h)}) \in Nat /\ Posted({Unfocus(h)}) \in Nat
    BY PostedNat
  <2>2. One(h \in uLocked) \in Nat /\ One(uTask[h].focused = TRUE) \in Nat /\ One(uTask'[h].focused = TRUE) \in Nat
    BY DEF One
  <2>3. Posted({Focus(h)}) + One(h \in uLocked) = Posted({Unfocus(h)}) + One(uTask[h].focused = TRUE)
    BY DEF Balance
  <2>4. CASE h = t
    <3>1. Posted({Focus(h)})' = Posted({Focus(h)}) + df /\ Posted({Unfocus(h)})' = Posted({Unfocus(h)}) + du
      BY <2>4 DEF PostsFor
    <3>2. df \in Nat /\ du \in Nat /\ df + One(uTask[h].focused = TRUE) = du + One(uTask'[h].focused = TRUE)
      BY <2>4 DEF Agree
    <3> QED BY <2>1, <2>2, <2>3, <3>1, <3>2
  <2>5. CASE h # t
    <3>1. Posted({Focus(h)})' = Posted({Focus(h)}) /\ Posted({Unfocus(h)})' = Posted({Unfocus(h)})
      BY <2>1, <2>5 DEF PostsFor
    <3> QED BY <2>3, <2>5, <3>1
  <2> QED BY <2>4, <2>5
<1>3. BellsOnce'
  <2> SUFFICES ASSUME NEW h \in UTasks PROVE Posted(BellsOf(h))' = One(uTask'[h].pc = "wait")
    BY DEF BellsOnce, BellsOf
  <2>1. Posted(BellsOf(h)) \in Nat
    BY PostedNat
  <2>2. Posted(BellsOf(h)) = One(uTask[h].pc = "wait")
    BY DEF BellsOnce
  <2>3. One(uTask[h].pc = "wait") \in Nat
    BY DEF One
  <2>4. Posted(BellsOf(h))' = Posted(BellsOf(h)) + (IF h = t THEN db ELSE 0)
    BY DEF PostsFor
  <2>5. CASE h = t
    <3>1. db + One(uTask[h].pc = "wait") = One(uTask'[h].pc = "wait") /\ db \in Nat
      BY <2>5 DEF Agree
    <3> QED BY <2>2, <2>3, <2>4, <2>5, <3>1
  <2>6. CASE h # t
    <3>1. uTask'[h] = uTask[h]
      BY <2>6
    <3> QED BY <2>2, <2>3, <2>4, <2>6, <3>1
  <2> QED BY <2>5, <2>6
<1> QED BY <1>1, <1>2, <1>3

\* The record of a task after a step, and nobody else's changes.
Becomes(t, at, focused, slot) ==
    /\ DOMAIN uTask' = UTasks /\ \A v \in UTasks \ {t} : uTask'[v] = uTask[v]
    /\ uTask'[t].pc = at /\ uTask'[t].focused = focused /\ uTask'[t].slot = slot
    /\ DOMAIN uTask'[t] = {"pc", "jobs", "focused", "slot"}

TasksKept == MsgTypes' /\ Tasks' /\ Balance' /\ BellsOnce'

\* A step that posts one message, about the task itself.
LEMMA Posts ==
    ASSUME MsgTypes, NEW t \in UTasks, NEW m \in UMsg,
           uQueue' = Append(uQueue, m), UNCHANGED <<uActive, uRetired>>,
           NEW df, NEW du, NEW db,
           \A h \in UTasks : /\ One(m \in {Focus(h)}) = IF h = t THEN df ELSE 0
                             /\ One(m \in {Unfocus(h)}) = IF h = t THEN du ELSE 0
                             /\ One(m \in BellsOf(h)) = IF h = t THEN db ELSE 0
    PROVE  MsgTypes' /\ PostsFor(t, df, du, db)
<1>1. MsgTypes' /\ \A X : Posted(X)' = Posted(X) + One(m \in X)
  BY PostsOne
<1>2. ASSUME NEW h \in UTasks
      PROVE  /\ Posted({Focus(h)})' = Posted({Focus(h)}) + One(m \in {Focus(h)})
             /\ Posted({Unfocus(h)})' = Posted({Unfocus(h)}) + One(m \in {Unfocus(h)})
             /\ Posted(BellsOf(h))' = Posted(BellsOf(h)) + One(m \in BellsOf(h))
  BY <1>1 DEF Focus, Unfocus, BellsOf
<1> QED BY <1>1, <1>2 DEF PostsFor

\* The messages of a task, one at a time, and those of a poll without any.
LEMMA PostsEach ==
    ASSUME MsgTypes, NEW t \in UTasks, UNCHANGED <<uActive, uRetired>>
    PROVE  /\ uQueue' = uQueue => MsgTypes' /\ PostsFor(t, 0, 0, 0)
           /\ uQueue' = Append(uQueue, Focus(t)) => MsgTypes' /\ PostsFor(t, 1, 0, 0)
           /\ uQueue' = Append(uQueue, Unfocus(t)) => MsgTypes' /\ PostsFor(t, 0, 1, 0)
           /\ \A g \in UTasks, s \in Nat :
                uQueue' = Append(uQueue, Doorbell(g, s, t)) => MsgTypes' /\ PostsFor(t, 0, 0, 1)
           /\ uQueue' = uQueue \o <<Focus(t), Unfocus(t)>> => MsgTypes' /\ PostsFor(t, 1, 1, 0)
<1>1. Focus(t) \in UMsg /\ Unfocus(t) \in UMsg
  BY DEF UMsg
<1>2. ASSUME uQueue' = uQueue PROVE MsgTypes' /\ PostsFor(t, 0, 0, 0)
  <2>1. MsgTypes' /\ \A X : Posted(X)' = Posted(X)
    BY <1>2, PostsNone
  <2>2. \A X : Posted(X)' = Posted(X) + 0
    BY <2>1, PostedNat
  <2> QED BY <2>1, <2>2 DEF PostsFor, Focus, Unfocus, BellsOf
<1>3. ASSUME uQueue' = Append(uQueue, Focus(t)) PROVE MsgTypes' /\ PostsFor(t, 1, 0, 0)
  <2>1. \A h \in UTasks : /\ One(Focus(t) \in {Focus(h)}) = IF h = t THEN 1 ELSE 0
                          /\ One(Focus(t) \in {Unfocus(h)}) = IF h = t THEN 0 ELSE 0
                          /\ One(Focus(t) \in BellsOf(h)) = IF h = t THEN 0 ELSE 0
    BY Messages
  <2> QED BY <1>1, <1>3, <2>1, Posts
<1>4. ASSUME uQueue' = Append(uQueue, Unfocus(t)) PROVE MsgTypes' /\ PostsFor(t, 0, 1, 0)
  <2>1. \A h \in UTasks : /\ One(Unfocus(t) \in {Focus(h)}) = IF h = t THEN 0 ELSE 0
                          /\ One(Unfocus(t) \in {Unfocus(h)}) = IF h = t THEN 1 ELSE 0
                          /\ One(Unfocus(t) \in BellsOf(h)) = IF h = t THEN 0 ELSE 0
    BY Messages
  <2> QED BY <1>1, <1>4, <2>1, Posts
<1>5. ASSUME NEW g \in UTasks, NEW s \in Nat, uQueue' = Append(uQueue, Doorbell(g, s, t))
      PROVE  MsgTypes' /\ PostsFor(t, 0, 0, 1)
  <2>1. Doorbell(g, s, t) \in UMsg
    BY DEF UMsg, BellsOf
  <2>2. \A h \in UTasks : /\ One(Doorbell(g, s, t) \in {Focus(h)}) = IF h = t THEN 0 ELSE 0
                          /\ One(Doorbell(g, s, t) \in {Unfocus(h)}) = IF h = t THEN 0 ELSE 0
                          /\ One(Doorbell(g, s, t) \in BellsOf(h)) = IF h = t THEN 1 ELSE 0
    BY Messages
  <2> QED BY <1>5, <2>1, <2>2, Posts
<1>6. ASSUME uQueue' = uQueue \o <<Focus(t), Unfocus(t)>> PROVE MsgTypes' /\ PostsFor(t, 1, 1, 0)
  <2>1. MsgTypes' /\ \A X : Posted(X)' = Posted(X) + One(Focus(t) \in X) + One(Unfocus(t) \in X)
    BY <1>1, <1>6, PostsTwo
  <2>2. ASSUME NEW h \in UTasks
        PROVE  /\ Posted({Focus(h)})' = Posted({Focus(h)}) + (IF h = t THEN 1 ELSE 0)
               /\ Posted({Unfocus(h)})' = Posted({Unfocus(h)}) + (IF h = t THEN 1 ELSE 0)
               /\ Posted(BellsOf(h))' = Posted(BellsOf(h)) + (IF h = t THEN 0 ELSE 0)
    <3>1. /\ Posted({Focus(h)})' = Posted({Focus(h)}) + One(Focus(t) \in {Focus(h)}) + One(Unfocus(t) \in {Focus(h)})
          /\ Posted({Unfocus(h)})' = Posted({Unfocus(h)}) + One(Focus(t) \in {Unfocus(h)}) + One(Unfocus(t) \in {Unfocus(h)})
          /\ Posted(BellsOf(h))' = Posted(BellsOf(h)) + One(Focus(t) \in BellsOf(h)) + One(Unfocus(t) \in BellsOf(h))
      BY <2>1 DEF Focus, Unfocus, BellsOf
    <3>2. Posted({Focus(h)}) \in Nat /\ Posted({Unfocus(h)}) \in Nat /\ Posted(BellsOf(h)) \in Nat
      BY PostedNat
    <3>3. /\ One(Focus(t) \in {Focus(h)}) = (IF h = t THEN 1 ELSE 0) /\ One(Unfocus(t) \in {Focus(h)}) = 0
          /\ One(Unfocus(t) \in {Unfocus(h)}) = (IF h = t THEN 1 ELSE 0) /\ One(Focus(t) \in {Unfocus(h)}) = 0
          /\ One(Focus(t) \in BellsOf(h)) = 0 /\ One(Unfocus(t) \in BellsOf(h)) = 0
      BY Messages
    <3> QED BY <3>1, <3>2, <3>3
  <2> QED BY <2>1, <2>2 DEF PostsFor
<1> QED BY <1>2, <1>3, <1>4, <1>5, <1>6

LEMMA ParentType == ASSUME NEW t \in UTasks PROVE UParent[t] \in UTasks /\ t \in Nat
BY UsbHubsAssumption

\* The steps of a task, action by action: each posts what it makes of the
\* task's record.
LEMMA QuickJobKeeps ==
    ASSUME MsgTypes, Tasks, Balance, BellsOnce, NEW t \in UTasks, QuickJob(t)
    PROVE  TasksKept
<1>1. uTask[t].pc = "idle" /\ uTask[t].focused = FALSE /\ uTask[t].jobs # <<>> /\ uTask[t].slot = 0
  BY DEF QuickJob, At, HasJob, Job, Tasks, TaskAt, Stage
<1>2. Becomes(t, "idle", FALSE, 0) /\ uTask'[t].jobs = Tail(uTask[t].jobs)
  BY <1>1 DEF QuickJob, JobDone, Becomes, Tasks, TaskAt
<1>3. TaskAt(t, uTask'[t])
  <2>1. Tail(uTask[t].jobs) \in Seq(UJobs(t))
    BY <1>1, CountTail DEF Tasks, TaskAt
  <2>2. 0 \in 0 .. MaxSlots
    BY UsbHubsAssumption
  <2> QED BY <1>2, <2>1, <2>2 DEF Becomes, TaskAt, Stage, UPc
<1>4. MsgTypes' /\ PostsFor(t, 1, 1, 0)
  BY PostsEach DEF QuickJob
<1>5. Agree(t, 1, 1, 0)
  BY <1>1, <1>2 DEF Agree, Becomes, One
<1>6. DOMAIN uTask' = UTasks /\ (\A v \in UTasks \ {t} : uTask'[v] = uTask[v]) /\ uLocked' = uLocked
  BY <1>2 DEF Becomes, QuickJob
<1> QED BY <1>3, <1>4, <1>5, <1>6, TaskMoves DEF TasksKept

LEMMA AskStatusKeeps ==
    ASSUME MsgTypes, Tasks, Balance, BellsOnce, NEW t \in UTasks, AskStatus(t)
    PROVE  TasksKept
<1>1. uTask[t].pc = "ask" /\ uTask[t].focused = TRUE /\ uTask[t].jobs # <<>> /\ uTask[t].slot = 0 /\ Job(t).kind \in {"attach", "detach"}
  BY DEF AskStatus, At, HasJob, Job, Tasks, TaskAt, Stage
<1>2. Becomes(t, "wait", TRUE, 0) /\ uTask'[t].jobs = uTask[t].jobs
  BY <1>1 DEF AskStatus, JobDone, Becomes, Tasks, TaskAt
<1>3. TaskAt(t, uTask'[t])
  BY <1>1, <1>2 DEF Becomes, Tasks, TaskAt, Stage, UPc, Job
<1>4. MsgTypes' /\ PostsFor(t, 0, 0, 1)
  BY ParentType, PostsEach DEF AskStatus
<1>5. Agree(t, 0, 0, 1)
  BY <1>1, <1>2 DEF Agree, Becomes, One
<1>6. DOMAIN uTask' = UTasks /\ (\A v \in UTasks \ {t} : uTask'[v] = uTask[v]) /\ uLocked' = uLocked
  BY <1>2 DEF Becomes, AskStatus
<1> QED BY <1>3, <1>4, <1>5, <1>6, TaskMoves DEF TasksKept

LEMMA RefuseKeeps ==
    ASSUME MsgTypes, Tasks, Balance, BellsOnce, NEW t \in UTasks, Refuse(t)
    PROVE  TasksKept
<1>1. uTask[t].pc = "rung" /\ uTask[t].focused = TRUE /\ uTask[t].jobs # <<>> /\ uTask[t].slot = 0
  BY DEF Refuse, At, HasJob, Job, Tasks, TaskAt, Stage
<1>2. Becomes(t, "unfocus", TRUE, 0) /\ uTask'[t].jobs = uTask[t].jobs
  BY <1>1 DEF Refuse, JobDone, Becomes, Tasks, TaskAt
<1>3. TaskAt(t, uTask'[t])
  BY <1>1, <1>2 DEF Becomes, Tasks, TaskAt, Stage, UPc, Job
<1>4. MsgTypes' /\ PostsFor(t, 0, 0, 0)
  BY PostsEach DEF Refuse
<1>5. Agree(t, 0, 0, 0)
  BY <1>1, <1>2 DEF Agree, Becomes, One
<1>6. DOMAIN uTask' = UTasks /\ (\A v \in UTasks \ {t} : uTask'[v] = uTask[v]) /\ uLocked' = uLocked
  BY <1>2 DEF Becomes, Refuse
<1> QED BY <1>3, <1>4, <1>5, <1>6, TaskMoves DEF TasksKept

LEMMA DetachKeeps ==
    ASSUME MsgTypes, Tasks, Balance, BellsOnce, NEW t \in UTasks, Detach(t)
    PROVE  TasksKept
<1>1. uTask[t].pc = "rung" /\ uTask[t].focused = TRUE /\ uTask[t].jobs # <<>> /\ uTask[t].slot = 0
  BY DEF Detach, At, HasJob, Job, Tasks, TaskAt, Stage
<1>2. Becomes(t, "unfocus", TRUE, 0) /\ uTask'[t].jobs = uTask[t].jobs
  BY <1>1 DEF Detach, JobDone, Becomes, Tasks, TaskAt
<1>3. TaskAt(t, uTask'[t])
  BY <1>1, <1>2 DEF Becomes, Tasks, TaskAt, Stage, UPc, Job
<1>4. MsgTypes' /\ PostsFor(t, 0, 0, 0)
  BY PostsEach DEF Detach
<1>5. Agree(t, 0, 0, 0)
  BY <1>1, <1>2 DEF Agree, Becomes, One
<1>6. DOMAIN uTask' = UTasks /\ (\A v \in UTasks \ {t} : uTask'[v] = uTask[v]) /\ uLocked' = uLocked
  BY <1>2 DEF Becomes, Detach
<1> QED BY <1>3, <1>4, <1>5, <1>6, TaskMoves DEF TasksKept

LEMMA EndJobKeeps ==
    ASSUME MsgTypes, Tasks, Balance, BellsOnce, NEW t \in UTasks, EndJob(t)
    PROVE  TasksKept
<1>1. uTask[t].pc \in {"unfocus", "timeout"} /\ uTask[t].focused = TRUE /\ uTask[t].jobs # <<>> /\ uTask[t].slot = 0
  BY DEF EndJob, At, HasJob, Job, Tasks, TaskAt, Stage
<1>2. Becomes(t, "idle", FALSE, 0) /\ uTask'[t].jobs = Tail(uTask[t].jobs)
  BY <1>1 DEF EndJob, JobDone, Becomes, Tasks, TaskAt
<1>3. TaskAt(t, uTask'[t])
  <2>1. Tail(uTask[t].jobs) \in Seq(UJobs(t))
    BY <1>1, CountTail DEF Tasks, TaskAt
  <2>2. 0 \in 0 .. MaxSlots
    BY UsbHubsAssumption
  <2> QED BY <1>2, <2>1, <2>2 DEF Becomes, TaskAt, Stage, UPc
<1>4. MsgTypes' /\ PostsFor(t, 0, 1, 0)
  BY PostsEach DEF EndJob
<1>5. Agree(t, 0, 1, 0)
  BY <1>1, <1>2 DEF Agree, Becomes, One
<1>6. DOMAIN uTask' = UTasks /\ (\A v \in UTasks \ {t} : uTask'[v] = uTask[v]) /\ uLocked' = uLocked
  BY <1>2 DEF Becomes, EndJob
<1> QED BY <1>3, <1>4, <1>5, <1>6, TaskMoves DEF TasksKept

LEMMA TransferKeeps ==
    ASSUME MsgTypes, Tasks, Balance, BellsOnce, NEW t \in UTasks, Transfer(t)
    PROVE  TasksKept
<1>1. uTask[t].pc = "idle" /\ uTask[t].focused = FALSE /\ uTask[t].jobs # <<>> /\ uTask[t].slot = 0 /\ Job(t).kind = "transfer"
  BY DEF Transfer, At, HasJob, Job, Tasks, TaskAt, Stage
<1>2. Becomes(t, "wait", FALSE, 0) /\ uTask'[t].jobs = uTask[t].jobs
  BY <1>1 DEF Transfer, JobDone, Becomes, Tasks, TaskAt
<1>3. TaskAt(t, uTask'[t])
  BY <1>1, <1>2 DEF Becomes, Tasks, TaskAt, Stage, UPc, Job
<1>4. MsgTypes' /\ PostsFor(t, 0, 0, 1)
  BY ParentType, PostsEach DEF Transfer
<1>5. Agree(t, 0, 0, 1)
  BY <1>1, <1>2 DEF Agree, Becomes, One
<1>6. DOMAIN uTask' = UTasks /\ (\A v \in UTasks \ {t} : uTask'[v] = uTask[v]) /\ uLocked' = uLocked
  BY <1>2 DEF Becomes, Transfer
<1> QED BY <1>3, <1>4, <1>5, <1>6, TaskMoves DEF TasksKept

LEMMA TransferEndsKeeps ==
    ASSUME MsgTypes, Tasks, Balance, BellsOnce, NEW t \in UTasks, TransferEnds(t)
    PROVE  TasksKept
<1>1. uTask[t].pc = "rung" /\ uTask[t].focused = FALSE /\ uTask[t].jobs # <<>> /\ uTask[t].slot = 0
  BY DEF TransferEnds, At, HasJob, Job, Tasks, TaskAt, Stage
<1>2. Becomes(t, "idle", FALSE, 0) /\ uTask'[t].jobs = Tail(uTask[t].jobs)
  BY <1>1 DEF TransferEnds, JobDone, Becomes, Tasks, TaskAt
<1>3. TaskAt(t, uTask'[t])
  <2>1. Tail(uTask[t].jobs) \in Seq(UJobs(t))
    BY <1>1, CountTail DEF Tasks, TaskAt
  <2>2. 0 \in 0 .. MaxSlots
    BY UsbHubsAssumption
  <2> QED BY <1>2, <2>1, <2>2 DEF Becomes, TaskAt, Stage, UPc
<1>4. MsgTypes' /\ PostsFor(t, 0, 0, 0)
  BY PostsEach DEF TransferEnds
<1>5. Agree(t, 0, 0, 0)
  BY <1>1, <1>2 DEF Agree, Becomes, One
<1>6. DOMAIN uTask' = UTasks /\ (\A v \in UTasks \ {t} : uTask'[v] = uTask[v]) /\ uLocked' = uLocked
  BY <1>2 DEF Becomes, TransferEnds
<1> QED BY <1>3, <1>4, <1>5, <1>6, TaskMoves DEF TasksKept

\* What a job can be, by the task.
LEMMA JobKinds ==
    ASSUME Tasks, NEW t \in UTasks, uTask[t].jobs # <<>>
    PROVE  Job(t) \in UJobs(t) /\ (t = 0 => Job(t).kind # "detach")
<1>1. Head(uTask[t].jobs) \in UJobs(t)
  BY CountTail DEF Tasks, TaskAt
<1> QED BY <1>1 DEF Job, UJobs

LEMMA StartJobKeeps ==
    ASSUME MsgTypes, Tasks, Balance, BellsOnce, NEW t \in UTasks, StartJob(t)
    PROVE  TasksKept
<1>1. /\ uTask[t].pc = "idle" /\ uTask[t].focused = FALSE /\ uTask[t].jobs # <<>> /\ uTask[t].slot = 0
      /\ Job(t).kind \in {"attach", "detach", "timeout"}
  BY DEF StartJob, At, HasJob, Tasks, TaskAt, Stage
<1>2. PICK at \in {"timeout", "enable", "ask"} :
         /\ Becomes(t, at, TRUE, 0) /\ uTask'[t].jobs = uTask[t].jobs
         /\ at = "timeout" <=> Job(t).kind = "timeout"
         /\ at = "enable" => t = 0
  <2> DEFINE p == IF Job(t).kind = "timeout" THEN "timeout" ELSE IF t = 0 THEN "enable" ELSE "ask"
  <2>1. p \in {"timeout", "enable", "ask"} /\ (p = "timeout" <=> Job(t).kind = "timeout") /\ (p = "enable" => t = 0)
    OBVIOUS
  <2>2. uTask' = [uTask EXCEPT ![t].focused = TRUE, ![t].pc = p]
    BY DEF StartJob
  <2> HIDE DEF p
  <2>3. Becomes(t, p, TRUE, 0) /\ uTask'[t].jobs = uTask[t].jobs
    BY <1>1, <2>2 DEF Becomes, Tasks, TaskAt
  <2> QED BY <2>1, <2>3
<1>3. TaskAt(t, uTask'[t])
  <2>1. at = "enable" => Head(uTask[t].jobs).kind = "attach"
    BY <1>1, <1>2, JobKinds DEF Job
  <2>2. at = "ask" => Head(uTask[t].jobs).kind \in {"attach", "detach"}
    BY <1>1, <1>2 DEF Job
  <2> QED BY <1>1, <1>2, <2>1, <2>2 DEF Becomes, Tasks, TaskAt, Stage, UPc
<1>4. MsgTypes' /\ PostsFor(t, 1, 0, 0)
  BY PostsEach DEF StartJob
<1>5. Agree(t, 1, 0, 0)
  BY <1>1, <1>2 DEF Agree, Becomes, One
<1>6. DOMAIN uTask' = UTasks /\ (\A v \in UTasks \ {t} : uTask'[v] = uTask[v]) /\ uLocked' = uLocked
  BY <1>2 DEF Becomes, StartJob
<1> QED BY <1>3, <1>4, <1>5, <1>6, TaskMoves DEF TasksKept

\* The controller has handed out no more slots than it has, and none twice.
Tables ==
    /\ DOMAIN uSlots = {"port", "slot", "used"} /\ uSlots.used \in 0 .. MaxSlots
    /\ DOMAIN uSlots.slot \subseteq 1 .. uSlots.used
    /\ uDevices \subseteq 1 .. MaxSlots
    /\ SlotTablesAgree

LEMMA EnableKeeps ==
    ASSUME MsgTypes, Tasks, Balance, BellsOnce, Tables, NEW t \in UTasks, Enable(t)
    PROVE  TasksKept
<1>1. /\ uTask[t].pc \in {"enable", "rung"} /\ uTask[t].focused = TRUE /\ uTask[t].jobs # <<>>
      /\ uTask[t].slot = 0 /\ Job(t).kind = "attach"
  BY DEF Enable, At, Job, Tasks, TaskAt, Stage
<1>2. PICK slot : slot = uSlots.used + 1
  OBVIOUS
<1>3. CASE slot > MaxSlots
  <2>1. uTask' = [uTask EXCEPT ![t].pc = "unfocus"] /\ UNCHANGED <<uQueue, uActive, uRetired, uLocked>>
    BY <1>2, <1>3 DEF Enable
  <2>2. Becomes(t, "unfocus", TRUE, 0) /\ uTask'[t].jobs = uTask[t].jobs
    BY <1>1, <2>1 DEF Becomes, Tasks, TaskAt
  <2>3. TaskAt(t, uTask'[t])
    BY <1>1, <2>2 DEF Becomes, Tasks, TaskAt, Stage, UPc
  <2>4. MsgTypes' /\ PostsFor(t, 0, 0, 0)
    BY <2>1, PostsEach
  <2>5. Agree(t, 0, 0, 0)
    BY <1>1, <2>2 DEF Agree, Becomes, One
  <2>6. DOMAIN uTask' = UTasks /\ (\A v \in UTasks \ {t} : uTask'[v] = uTask[v]) /\ uLocked' = uLocked
    BY <2>1, <2>2 DEF Becomes
  <2> QED BY <2>3, <2>4, <2>5, <2>6, TaskMoves DEF TasksKept
<1>4. CASE ~(slot > MaxSlots)
  <2>1. /\ uTask' = [uTask EXCEPT ![t].pc = "wait", ![t].slot = slot]
        /\ uQueue' = Append(uQueue, Doorbell(t, slot, t)) /\ UNCHANGED <<uActive, uRetired, uLocked>>
    BY <1>2, <1>4 DEF Enable
  <2>2. slot \in 0 .. MaxSlots /\ slot \in Nat
    BY <1>2, <1>4, UsbHubsAssumption DEF Tables
  <2>3. Becomes(t, "wait", TRUE, slot) /\ uTask'[t].jobs = uTask[t].jobs
    BY <1>1, <2>1 DEF Becomes, Tasks, TaskAt
  <2>4. TaskAt(t, uTask'[t])
    BY <1>1, <2>2, <2>3 DEF Becomes, Tasks, TaskAt, Stage, UPc, Job
  <2>5. MsgTypes' /\ PostsFor(t, 0, 0, 1)
    BY <2>1, <2>2, PostsEach
  <2>6. Agree(t, 0, 0, 1)
    BY <1>1, <2>3 DEF Agree, Becomes, One
  <2>7. DOMAIN uTask' = UTasks /\ (\A v \in UTasks \ {t} : uTask'[v] = uTask[v]) /\ uLocked' = uLocked
    BY <2>1, <2>3 DEF Becomes
  <2> QED BY <2>4, <2>5, <2>6, <2>7, TaskMoves DEF TasksKept
<1> QED BY <1>3, <1>4

LEMMA InstantiateKeeps ==
    ASSUME MsgTypes, Tasks, Balance, BellsOnce, NEW t \in UTasks, NEW ok, Instantiate(t, ok)
    PROVE  TasksKept
<1>1. uTask[t].pc = "rung" /\ uTask[t].focused = TRUE /\ uTask[t].jobs # <<>>
  BY DEF Instantiate, At, Tasks, TaskAt, Stage
<1>2. Becomes(t, "unfocus", TRUE, 0) /\ uTask'[t].jobs = uTask[t].jobs
  BY <1>1 DEF Instantiate, Becomes, Tasks, TaskAt
<1>3. TaskAt(t, uTask'[t])
  <2>1. 0 \in 0 .. MaxSlots
    BY UsbHubsAssumption
  <2> QED BY <1>1, <1>2, <2>1 DEF Becomes, Tasks, TaskAt, Stage, UPc
<1>4. MsgTypes' /\ PostsFor(t, 0, 0, 0)
  BY PostsEach DEF Instantiate
<1>5. Agree(t, 0, 0, 0)
  BY <1>1, <1>2 DEF Agree, Becomes, One
<1>6. DOMAIN uTask' = UTasks /\ (\A v \in UTasks \ {t} : uTask'[v] = uTask[v]) /\ uLocked' = uLocked
  BY <1>2 DEF Becomes, Instantiate
<1> QED BY <1>3, <1>4, <1>5, <1>6, TaskMoves DEF TasksKept

-----------------------------------------------------------------------------
(* The steps of the scheduler *)

LockedOne == uLocked \in SUBSET UTasks /\ \A g, h \in uLocked : g = h

\* The messages on their way, the hub in focus and the tasks stay as they are.
LEMMA NothingMoves ==
    ASSUME Tasks, Balance, BellsOnce, MsgTypes', \A X : Posted(X)' = Posted(X), uTask' = uTask, uLocked' = uLocked
    PROVE  TasksKept
<1>1. Tasks'
  BY DEF Tasks
<1>2. Balance'
  <2> SUFFICES ASSUME NEW h \in UTasks
               PROVE  Posted({Focus(h)})' + One(h \in uLocked) = Posted({Unfocus(h)})' + One(uTask[h].focused = TRUE)
    BY DEF Balance, Focus, Unfocus
  <2>1. Posted({Focus(h)})' = Posted({Focus(h)}) /\ Posted({Unfocus(h)})' = Posted({Unfocus(h)})
    BY DEF Focus, Unfocus
  <2> QED BY <2>1 DEF Balance
<1>3. BellsOnce'
  <2> SUFFICES ASSUME NEW h \in UTasks PROVE Posted(BellsOf(h))' = One(uTask[h].pc = "wait")
    BY DEF BellsOnce, BellsOf
  <2>1. Posted(BellsOf(h))' = Posted(BellsOf(h))
    BY DEF BellsOf
  <2> QED BY <2>1 DEF BellsOnce
<1> QED BY <1>1, <1>2, <1>3 DEF TasksKept

\* Each kind of message is about one hub or one task.
LEMMA MessageKinds ==
    ASSUME NEW m \in UMsg
    PROVE  /\ m.kind = "focus" => \E h \in UTasks : m = Focus(h) /\ m.hub = h
           /\ m.kind = "unfocus" => \E h \in UTasks : m = Unfocus(h) /\ m.hub = h
           /\ m.kind = "bell" => \E t \in UTasks : m \in BellsOf(t) /\ m.task = t
<1>1. CASE \E h \in UTasks : m = Focus(h)
  BY <1>1 DEF Focus
<1>2. CASE \E h \in UTasks : m = Unfocus(h)
  BY <1>2 DEF Unfocus
<1>3. CASE \E t \in UTasks : m \in BellsOf(t)
  <2>1. PICK t \in UTasks : m \in BellsOf(t)
    BY <1>3
  <2>2. m.kind = "bell" /\ m.task = t
    BY <2>1 DEF BellsOf, Doorbell
  <2> QED BY <2>1, <2>2
<1> QED BY <1>1, <1>2, <1>3 DEF UMsg

\* A message takes effect: it was counted for its hub or its task.
Effect(m) ==
    \A h \in UTasks :
      /\ Posted({Focus(h)})' \in Nat /\ Posted({Focus(h)}) = Posted({Focus(h)})' + One(m \in {Focus(h)})
      /\ Posted({Unfocus(h)})' \in Nat /\ Posted({Unfocus(h)}) = Posted({Unfocus(h)})' + One(m \in {Unfocus(h)})
      /\ Posted(BellsOf(h))' \in Nat /\ Posted(BellsOf(h)) = Posted(BellsOf(h))' + One(m \in BellsOf(h))

LEMMA EffectOf ==
    ASSUME NEW m, \A X : Posted(X)' \in Nat /\ Posted(X) = Posted(X)' + One(m \in X)
    PROVE  Effect(m)
<1>1. ASSUME NEW h \in UTasks
      PROVE  Posted({Focus(h)})' \in Nat /\ Posted({Focus(h)}) = Posted({Focus(h)})' + One(m \in {Focus(h)})
  BY DEF Focus
<1>2. ASSUME NEW h \in UTasks
      PROVE  Posted({Unfocus(h)})' \in Nat /\ Posted({Unfocus(h)}) = Posted({Unfocus(h)})' + One(m \in {Unfocus(h)})
  BY DEF Unfocus
<1>3. ASSUME NEW h \in UTasks
      PROVE  Posted(BellsOf(h))' \in Nat /\ Posted(BellsOf(h)) = Posted(BellsOf(h))' + One(m \in BellsOf(h))
  BY DEF BellsOf
<1> QED BY <1>1, <1>2, <1>3 DEF Effect

LEMMA BellsAfter ==
    ASSUME \A h \in UTasks : Posted(BellsOf(h))' = One(uTask'[h].pc = "wait")
    PROVE  BellsOnce'
BY DEF BellsOnce, BellsOf

\* A doorbell rings, or is retired until the hub in focus gives it up.
LEMMA BellKeeps ==
    ASSUME MsgTypes, Tasks, Balance, BellsOnce, LockedOne, uActive # <<>>, Head(uActive).kind = "bell",
           RingOrRetire(Head(uActive)), uQueue' = uQueue
    PROVE  TasksKept /\ LockedOne'
<1>1. PICK m \in UMsg : m = Head(uActive)
  BY CountTail DEF MsgTypes
<1>2. PICK t \in UTasks : m \in BellsOf(t) /\ m.task = t
  BY <1>1, MessageKinds
<1>3. CASE ~(uLocked = {} \/ m.hub \in uLocked \/ m.slot \in uLocked)
  <2>1. /\ uRetired' = Append(uRetired, Head(uActive)) /\ uActive' = Tail(uActive)
        /\ uTask' = uTask /\ uLocked' = uLocked
    BY <1>1, <1>3 DEF RingOrRetire
  <2>2. MsgTypes' /\ \A X : Posted(X)' = Posted(X)
    BY <2>1, Retires
  <2> QED BY <2>1, <2>2, NothingMoves DEF LockedOne
<1>4. CASE uLocked = {} \/ m.hub \in uLocked \/ m.slot \in uLocked
  <2>1. /\ uTask' = [uTask EXCEPT ![t].pc = "rung"] /\ uActive' = Tail(uActive)
        /\ uRetired' = uRetired /\ uLocked' = uLocked
    BY <1>1, <1>2, <1>4 DEF RingOrRetire
  <2>2. MsgTypes' /\ \A X : Posted(X)' \in Nat /\ Posted(X) = Posted(X)' + One(Head(uActive) \in X)
    BY <2>1, Consumed
  <2>3. Effect(m)
    BY <1>1, <2>2, EffectOf
  <2>4. ASSUME NEW h \in UTasks
        PROVE  /\ One(m \in {Focus(h)}) = 0 /\ One(m \in {Unfocus(h)}) = 0
               /\ One(m \in BellsOf(h)) = IF h = t THEN 1 ELSE 0
    <3>1. PICK g \in UTasks : \E s \in Nat : m = Doorbell(g, s, t)
      BY <1>2 DEF BellsOf
    <3>2. PICK s \in Nat : m = Doorbell(g, s, t)
      BY <3>1
    <3> QED BY <3>2, Messages
  <2>5. uTask[t].pc = "wait"
    <3>1. Posted(BellsOf(t)) = Posted(BellsOf(t))' + 1 /\ Posted(BellsOf(t))' \in Nat
      BY <2>3, <2>4 DEF Effect
    <3>2. Posted(BellsOf(t)) = One(uTask[t].pc = "wait")
      BY DEF BellsOnce
    <3> QED BY <3>1, <3>2 DEF One
  <2>6. /\ DOMAIN uTask' = UTasks /\ \A v \in UTasks \ {t} : uTask'[v] = uTask[v]
        /\ uTask'[t].pc = "rung" /\ uTask'[t].focused = uTask[t].focused /\ uTask'[t].jobs = uTask[t].jobs
        /\ uTask'[t].slot = uTask[t].slot /\ DOMAIN uTask'[t] = {"pc", "jobs", "focused", "slot"}
    BY <2>1 DEF Tasks, TaskAt
  <2>7. TaskAt(t, uTask'[t])
    BY <2>5, <2>6 DEF Tasks, TaskAt, Stage, UPc
  <2>8. Tasks'
    BY <2>6, <2>7 DEF Tasks
  <2>9. Balance'
    <3> SUFFICES ASSUME NEW h \in UTasks
                 PROVE  Posted({Focus(h)})' + One(h \in uLocked) = Posted({Unfocus(h)})' + One(uTask'[h].focused = TRUE)
      BY <2>1 DEF Balance, Focus, Unfocus
    <3>1. /\ Posted({Focus(h)})' \in Nat /\ Posted({Focus(h)}) = Posted({Focus(h)})'
          /\ Posted({Unfocus(h)})' \in Nat /\ Posted({Unfocus(h)}) = Posted({Unfocus(h)})'
      <4>1. /\ Posted({Focus(h)})' \in Nat /\ Posted({Focus(h)}) = Posted({Focus(h)})' + One(m \in {Focus(h)})
            /\ Posted({Unfocus(h)})' \in Nat /\ Posted({Unfocus(h)}) = Posted({Unfocus(h)})' + One(m \in {Unfocus(h)})
        BY <2>3 DEF Effect
      <4> QED BY <2>4, <4>1
    <3>2. uTask'[h].focused = uTask[h].focused
      BY <2>6
    <3>3. Posted({Focus(h)}) + One(h \in uLocked) = Posted({Unfocus(h)}) + One(uTask[h].focused = TRUE)
      BY DEF Balance
    <3> QED BY <3>1, <3>2, <3>3
  <2>10. BellsOnce'
    <3> SUFFICES ASSUME NEW h \in UTasks PROVE Posted(BellsOf(h))' = One(uTask'[h].pc = "wait")
      BY BellsAfter
    <3>1. Posted(BellsOf(h))' \in Nat /\ Posted(BellsOf(h)) = Posted(BellsOf(h))' + (IF h = t THEN 1 ELSE 0)
      BY <2>3, <2>4 DEF Effect
    <3>2. Posted(BellsOf(h)) = One(uTask[h].pc = "wait")
      BY DEF BellsOnce
    <3>3. CASE h = t
      BY <2>5, <2>6, <3>1, <3>2, <3>3 DEF One
    <3>4. CASE h # t
      <4>1. uTask'[h] = uTask[h]
        BY <2>6, <3>4
      <4> QED BY <3>1, <3>2, <3>4, <4>1
    <3> QED BY <3>3, <3>4
  <2> QED BY <2>1, <2>2, <2>8, <2>9, <2>10 DEF TasksKept, LockedOne
<1> QED BY <1>3, <1>4

\* A hub comes into focus, or waits for it.
LEMMA FocusKeeps ==
    ASSUME MsgTypes, Tasks, Balance, BellsOnce, LockedOne, uActive # <<>>, Head(uActive).kind = "focus",
           FocusOrRetire(Head(uActive)), uQueue' = uQueue
    PROVE  TasksKept /\ LockedOne'
<1>1. PICK m \in UMsg : m = Head(uActive)
  BY CountTail DEF MsgTypes
<1>2. PICK t \in UTasks : m = Focus(t) /\ m.hub = t
  BY <1>1, MessageKinds
<1>3. CASE uLocked # {}
  <2>1. /\ uRetired' = Append(uRetired, Head(uActive)) /\ uActive' = Tail(uActive)
        /\ uTask' = uTask /\ uLocked' = uLocked
    BY <1>1, <1>3 DEF FocusOrRetire
  <2>2. MsgTypes' /\ \A X : Posted(X)' = Posted(X)
    BY <2>1, Retires
  <2> QED BY <2>1, <2>2, NothingMoves DEF LockedOne
<1>4. CASE uLocked = {}
  <2>1. uTask' = uTask /\ uActive' = Tail(uActive) /\ uRetired' = uRetired /\ uLocked' = {t}
    BY <1>1, <1>2, <1>4 DEF FocusOrRetire
  <2>2. MsgTypes' /\ \A X : Posted(X)' \in Nat /\ Posted(X) = Posted(X)' + One(Head(uActive) \in X)
    BY <2>1, Consumed
  <2>3. Effect(m)
    BY <1>1, <2>2, EffectOf
  <2>4. ASSUME NEW h \in UTasks
        PROVE  /\ One(m \in {Focus(h)}) = IF h = t THEN 1 ELSE 0
               /\ One(m \in {Unfocus(h)}) = 0 /\ One(m \in BellsOf(h)) = 0
    BY <1>2, Messages
  <2>5. Balance'
    <3> SUFFICES ASSUME NEW h \in UTasks
                 PROVE  Posted({Focus(h)})' + One(h \in {t}) = Posted({Unfocus(h)})' + One(uTask[h].focused = TRUE)
      BY <2>1 DEF Balance, Focus, Unfocus
    <3>1. /\ Posted({Focus(h)})' \in Nat /\ Posted({Focus(h)}) = Posted({Focus(h)})' + (IF h = t THEN 1 ELSE 0)
          /\ Posted({Unfocus(h)})' \in Nat /\ Posted({Unfocus(h)}) = Posted({Unfocus(h)})'
      <4>1. /\ Posted({Focus(h)})' \in Nat /\ Posted({Focus(h)}) = Posted({Focus(h)})' + One(m \in {Focus(h)})
            /\ Posted({Unfocus(h)})' \in Nat /\ Posted({Unfocus(h)}) = Posted({Unfocus(h)})' + One(m \in {Unfocus(h)})
        BY <2>3 DEF Effect
      <4> QED BY <2>4, <4>1
    <3>2. Posted({Focus(h)}) + One(h \in uLocked) = Posted({Unfocus(h)}) + One(uTask[h].focused = TRUE)
      BY DEF Balance
    <3>3. One(h \in uLocked) = 0 /\ One(h \in {t}) = (IF h = t THEN 1 ELSE 0)
      BY <1>4 DEF One
    <3> QED BY <3>1, <3>2, <3>3
  <2>6. BellsOnce'
    <3> SUFFICES ASSUME NEW h \in UTasks PROVE Posted(BellsOf(h))' = One(uTask[h].pc = "wait")
      BY <2>1 DEF BellsOnce, BellsOf
    <3>1. Posted(BellsOf(h))' \in Nat /\ Posted(BellsOf(h)) = Posted(BellsOf(h))'
      <4>1. Posted(BellsOf(h))' \in Nat /\ Posted(BellsOf(h)) = Posted(BellsOf(h))' + One(m \in BellsOf(h))
        BY <2>3 DEF Effect
      <4> QED BY <2>4, <4>1
    <3> QED BY <3>1 DEF BellsOnce
  <2>7. Tasks'
    BY <2>1 DEF Tasks
  <2> QED BY <2>1, <2>2, <2>5, <2>6, <2>7 DEF TasksKept, LockedOne
<1> QED BY <1>3, <1>4

\* The hub in focus gives it up; an Unfocus of another hub is retired.
LEMMA UnfocusKeeps ==
    ASSUME MsgTypes, Tasks, Balance, BellsOnce, LockedOne, uActive # <<>>, Head(uActive).kind = "unfocus",
           UnfocusOrRetire(Head(uActive)), uQueue' = uQueue
    PROVE  TasksKept /\ LockedOne'
<1>1. PICK m \in UMsg : m = Head(uActive)
  BY CountTail DEF MsgTypes
<1>2. PICK t \in UTasks : m = Unfocus(t) /\ m.hub = t
  BY <1>1, MessageKinds
<1>3. CASE uLocked # {t}
  <2>1. /\ uRetired' = Append(uRetired, Head(uActive)) /\ uActive' = Tail(uActive)
        /\ uTask' = uTask /\ uLocked' = uLocked
    BY <1>1, <1>2, <1>3 DEF UnfocusOrRetire
  <2>2. MsgTypes' /\ \A X : Posted(X)' = Posted(X)
    BY <2>1, Retires
  <2> QED BY <2>1, <2>2, NothingMoves DEF LockedOne
<1>4. CASE uLocked = {t}
  <2>1. uTask' = uTask /\ uActive' = Tail(uActive) \o uRetired /\ uRetired' = <<>> /\ uLocked' = {}
    BY <1>1, <1>2, <1>4 DEF UnfocusOrRetire
  <2>2. MsgTypes' /\ \A X : Posted(X)' \in Nat /\ Posted(X) = Posted(X)' + One(Head(uActive) \in X)
    BY <2>1, Restores
  <2>3. Effect(m)
    BY <1>1, <2>2, EffectOf
  <2>4. ASSUME NEW h \in UTasks
        PROVE  /\ One(m \in {Unfocus(h)}) = IF h = t THEN 1 ELSE 0
               /\ One(m \in {Focus(h)}) = 0 /\ One(m \in BellsOf(h)) = 0
    BY <1>2, Messages
  <2>5. Balance'
    <3> SUFFICES ASSUME NEW h \in UTasks
                 PROVE  Posted({Focus(h)})' + One(h \in {}) = Posted({Unfocus(h)})' + One(uTask[h].focused = TRUE)
      BY <2>1 DEF Balance, Focus, Unfocus
    <3>1. /\ Posted({Focus(h)})' \in Nat /\ Posted({Focus(h)}) = Posted({Focus(h)})'
          /\ Posted({Unfocus(h)})' \in Nat /\ Posted({Unfocus(h)}) = Posted({Unfocus(h)})' + (IF h = t THEN 1 ELSE 0)
      BY <2>3, <2>4 DEF Effect
    <3>2. Posted({Focus(h)}) + One(h \in uLocked) = Posted({Unfocus(h)}) + One(uTask[h].focused = TRUE)
      BY DEF Balance
    <3>3. One(h \in uLocked) = (IF h = t THEN 1 ELSE 0) /\ One(h \in {}) = 0
      BY <1>4 DEF One
    <3>4. One(uTask[h].focused = TRUE) \in Nat
      BY DEF One
    <3> QED BY <3>1, <3>2, <3>3, <3>4
  <2>6. BellsOnce'
    <3> SUFFICES ASSUME NEW h \in UTasks PROVE Posted(BellsOf(h))' = One(uTask[h].pc = "wait")
      BY <2>1 DEF BellsOnce, BellsOf
    <3>1. Posted(BellsOf(h))' \in Nat /\ Posted(BellsOf(h)) = Posted(BellsOf(h))'
      <4>1. Posted(BellsOf(h))' \in Nat /\ Posted(BellsOf(h)) = Posted(BellsOf(h))' + One(m \in BellsOf(h))
        BY <2>3 DEF Effect
      <4> QED BY <2>4, <4>1
    <3> QED BY <3>1 DEF BellsOnce
  <2>7. Tasks'
    BY <2>1 DEF Tasks
  <2> QED BY <2>1, <2>2, <2>5, <2>6, <2>7 DEF TasksKept, LockedOne
<1> QED BY <1>3, <1>4

-----------------------------------------------------------------------------
(* The tables of slots and devices *)

\* A slot that was never handed out is new in slot2port, and no port has it.
LEMMA EnableTables ==
    ASSUME Tables, NEW t \in UTasks, Enable(t)
    PROVE  Tables'
<1>1. PICK slot, port : slot = uSlots.used + 1 /\ port = Job(t).port
  OBVIOUS
<1>2. uSlots.used \in Nat /\ uDevices' = uDevices
  BY UsbHubsAssumption DEF Tables, Enable
<1>3. CASE slot > MaxSlots
  <2>1. uSlots' = uSlots
    BY <1>1, <1>3 DEF Enable
  <2> QED BY <1>2, <2>1 DEF Tables, SlotTablesAgree
<1>4. CASE ~(slot > MaxSlots) /\ t # 0
  <2>1. uSlots' = [uSlots EXCEPT !.used = slot]
    BY <1>1, <1>4 DEF Enable
  <2>2. /\ uSlots'.used = slot /\ uSlots'.port = uSlots.port /\ uSlots'.slot = uSlots.slot
        /\ DOMAIN uSlots' = {"port", "slot", "used"}
    BY <2>1 DEF Tables
  <2>3. slot \in 0 .. MaxSlots /\ 1 .. uSlots.used \subseteq 1 .. slot
    BY <1>1, <1>2, <1>4, UsbHubsAssumption
  <2> QED BY <1>2, <2>2, <2>3 DEF Tables, SlotTablesAgree
<1>5. CASE ~(slot > MaxSlots) /\ t = 0
  <2>1. uSlots' = NewSlot(slot, port)
    BY <1>1, <1>5 DEF Enable
  <2>2. /\ uSlots'.used = slot /\ DOMAIN uSlots' = {"port", "slot", "used"}
        /\ uSlots'.port = [p \in DOMAIN uSlots.port \cup {port} |-> IF p = port THEN slot ELSE uSlots.port[p]]
        /\ uSlots'.slot = [s \in DOMAIN uSlots.slot \cup {slot} |-> IF s = slot THEN port ELSE uSlots.slot[s]]
    BY <2>1 DEF Tables, NewSlot
  <2>3. slot \in 0 .. MaxSlots /\ 1 .. uSlots.used \subseteq 1 .. slot /\ slot \in 1 .. slot /\ slot \notin 1 .. uSlots.used
    BY <1>1, <1>2, <1>5, UsbHubsAssumption
  <2>4. slot \notin DOMAIN uSlots.slot /\ DOMAIN uSlots'.slot \subseteq 1 .. slot
    BY <2>2, <2>3 DEF Tables
  <2>5. \A p \in DOMAIN uSlots.port : uSlots.port[p] # slot
    BY <2>4 DEF Tables, SlotTablesAgree
  <2>6. SlotTablesAgree'
    <3>1. ASSUME NEW p \in DOMAIN uSlots'.port
          PROVE  uSlots'.port[p] \in DOMAIN uSlots'.slot /\ uSlots'.slot[uSlots'.port[p]] = p
      <4>1. CASE p = port
        BY <2>2, <4>1
      <4>2. CASE p # port
        <5>1. p \in DOMAIN uSlots.port /\ uSlots'.port[p] = uSlots.port[p]
          BY <2>2, <4>2
        <5>2. uSlots.port[p] \in DOMAIN uSlots.slot /\ uSlots.slot[uSlots.port[p]] = p /\ uSlots.port[p] # slot
          BY <2>5, <5>1 DEF Tables, SlotTablesAgree
        <5> QED BY <2>2, <5>1, <5>2
      <4> QED BY <4>1, <4>2
    <3>2. \A p, q \in DOMAIN uSlots'.port : uSlots'.port[p] = uSlots'.port[q] => p = q
      BY <3>1
    <3> QED BY <3>1, <3>2 DEF SlotTablesAgree
  <2> QED BY <1>2, <2>2, <2>3, <2>4, <2>6 DEF Tables
<1> QED BY <1>3, <1>4, <1>5

\* A port that is disconnected leaves port2slot, and its device the manager.
LEMMA QuickTables ==
    ASSUME Tables, NEW t \in UTasks, QuickJob(t)
    PROVE  Tables'
<1>1. CASE UNCHANGED <<uDevices, uSlots>>
  BY <1>1 DEF Tables, SlotTablesAgree
<1>2. CASE /\ uDevices' = uDevices \ {uSlots.port[Job(t).port]}
           /\ uSlots' = [uSlots EXCEPT !.port = [p \in DOMAIN @ \ {Job(t).port} |-> @[p]]]
  <2>1. /\ uSlots'.used = uSlots.used /\ uSlots'.slot = uSlots.slot /\ DOMAIN uSlots' = {"port", "slot", "used"}
        /\ uSlots'.port = [p \in DOMAIN uSlots.port \ {Job(t).port} |-> uSlots.port[p]]
    BY <1>2 DEF Tables
  <2>2. DOMAIN uSlots'.port \subseteq DOMAIN uSlots.port /\ \A p \in DOMAIN uSlots'.port : uSlots'.port[p] = uSlots.port[p]
    BY <2>1
  <2>3. SlotTablesAgree'
    <3>1. ASSUME NEW p \in DOMAIN uSlots'.port
          PROVE  uSlots'.port[p] \in DOMAIN uSlots'.slot /\ uSlots'.slot[uSlots'.port[p]] = p
      <4>1. p \in DOMAIN uSlots.port /\ uSlots'.port[p] = uSlots.port[p]
        BY <2>2
      <4>2. uSlots.port[p] \in DOMAIN uSlots.slot /\ uSlots.slot[uSlots.port[p]] = p
        BY <4>1 DEF Tables, SlotTablesAgree
      <4> QED BY <2>1, <4>1, <4>2
    <3> QED BY <3>1 DEF SlotTablesAgree
  <2>4. uDevices' \subseteq 1 .. MaxSlots
    BY <1>2 DEF Tables
  <2> QED BY <2>1, <2>3, <2>4 DEF Tables
<1> QED BY <1>1, <1>2 DEF QuickJob

LEMMA InstantiateTables ==
    ASSUME Tables, Tasks, NEW t \in UTasks, NEW ok, Instantiate(t, ok)
    PROVE  Tables'
<1>1. uTask[t].slot \in 1 .. MaxSlots
  BY UsbHubsAssumption DEF Instantiate, Tasks, TaskAt
<1>2. uDevices' \subseteq 1 .. MaxSlots /\ uSlots' = uSlots
  BY <1>1 DEF Instantiate, Tables
<1> QED BY <1>2 DEF Tables, SlotTablesAgree

LEMMA DetachTables ==
    ASSUME Tables, NEW t \in UTasks, Detach(t)
    PROVE  Tables'
<1>1. uDevices' \subseteq uDevices /\ uSlots' = uSlots
  BY DEF Detach
<1> QED BY <1>1 DEF Tables, SlotTablesAgree

-----------------------------------------------------------------------------
(* All together *)

\* The inductive invariant of the tasks of the USB manager.
HubI == MsgTypes /\ Tasks /\ Balance /\ BellsOnce /\ LockedOne /\ Tables

LEMMA HubStarts == UInit => HubI
<1> SUFFICES ASSUME UInit PROVE HubI
  OBVIOUS
<1>1. MsgTypes /\ uQueue = <<>> /\ uActive = <<>> /\ uRetired = <<>> /\ uLocked = {}
  BY DEF UInit, MsgTypes
<1>2. PICK plan \in UPlans :
        uTask = [t \in UTasks |-> [pc |-> "idle", jobs |-> plan[t], focused |-> FALSE, slot |-> 0]]
  BY DEF UInit
<1>3. \A t \in UTasks : plan[t] \in Seq(UJobs(t))
  BY UsbHubsAssumption
<1>4. 0 \in 0 .. MaxSlots
  BY UsbHubsAssumption
<1>5. Tasks
  BY <1>2, <1>3, <1>4 DEF Tasks, TaskAt, Stage, UPc
<1>6. \A X : Posted(X) = 0
  BY <1>1, CountEmpty DEF Posted
<1>7. Balance /\ BellsOnce
  BY <1>1, <1>2, <1>6 DEF Balance, BellsOnce, One
<1>8. uSlots.used \in 0 .. MaxSlots
  <2>1. PICK n \in Nat : n = MaxSlots
    BY UsbHubsAssumption
  <2>2. IsFiniteSet(0 .. n) /\ Cardinality(0 .. n) = n + 1
    BY FS_Interval
  <2>3. IsFiniteSet(UTasks) /\ Cardinality(UTasks) <= n + 1 /\ Cardinality(UTasks) \in Nat
    <3>1. UTasks \in SUBSET (0 .. n)
      BY <2>1, UsbHubsAssumption
    <3>2. IsFiniteSet(UTasks) /\ Cardinality(UTasks) <= Cardinality(0 .. n)
      BY <2>2, <3>1, FS_Subset
    <3>3. Cardinality(UTasks) \in Nat
      BY <3>2, FS_CardinalityType
    <3> QED BY <2>2, <3>2, <3>3
  <2>4. Cardinality(UTasks) # 0
    <3>1. UTasks # {}
      BY UsbHubsAssumption
    <3> QED BY <2>3, <3>1, FS_EmptySet
  <2>5. uSlots.used = Cardinality(UTasks) - 1
    BY DEF UInit
  <2> QED BY <2>1, <2>3, <2>4, <2>5
<1>9. Tables
  <2>1. uDevices \subseteq 1 .. MaxSlots
    BY UsbHubsAssumption DEF UInit
  <2>2. uSlots.port = <<>> /\ uSlots.slot = <<>> /\ DOMAIN uSlots = {"port", "slot", "used"}
    BY DEF UInit
  <2>3. DOMAIN uSlots.port = {} /\ DOMAIN uSlots.slot = {}
    BY <2>2
  <2> QED BY <1>8, <2>1, <2>2, <2>3 DEF Tables, SlotTablesAgree
<1> QED BY <1>1, <1>5, <1>7, <1>9 DEF HubI, LockedOne

\* Every step of a task keeps it.
LEMMA HubTaskSteps ==
    ASSUME HubI, NEW t \in UTasks, UTaskStep(t)
    PROVE  HubI'
<1>1. MsgTypes /\ Tasks /\ Balance /\ BellsOnce /\ LockedOne /\ Tables
  BY DEF HubI
<1>2. LockedOne'
  BY <1>1 DEF LockedOne, UTaskStep, QuickJob, StartJob, AskStatus, Detach, Refuse, Enable, Instantiate,
              EndJob, Transfer, TransferEnds
<1>3. TasksKept
  <2>1. CASE \E ok \in BOOLEAN : Instantiate(t, ok)
    BY <1>1, <2>1, InstantiateKeeps
  <2>2. CASE QuickJob(t) \/ StartJob(t) \/ AskStatus(t) \/ Detach(t) \/ Refuse(t)
    BY <1>1, <2>2, QuickJobKeeps, StartJobKeeps, AskStatusKeeps, DetachKeeps, RefuseKeeps
  <2>3. CASE Enable(t) \/ EndJob(t) \/ Transfer(t) \/ TransferEnds(t)
    BY <1>1, <2>3, EnableKeeps, EndJobKeeps, TransferKeeps, TransferEndsKeeps
  <2> QED BY <2>1, <2>2, <2>3 DEF UTaskStep
<1>4. Tables'
  <2>1. CASE \E ok \in BOOLEAN : Instantiate(t, ok)
    BY <1>1, <2>1, InstantiateTables
  <2>2. CASE QuickJob(t) \/ Detach(t) \/ Enable(t)
    BY <1>1, <2>2, QuickTables, DetachTables, EnableTables
  <2>3. CASE StartJob(t) \/ AskStatus(t) \/ Refuse(t) \/ EndJob(t) \/ Transfer(t) \/ TransferEnds(t)
    <3>1. uDevices' = uDevices /\ uSlots' = uSlots
      BY <2>3 DEF StartJob, AskStatus, Refuse, EndJob, Transfer, TransferEnds
    <3> QED BY <1>1, <3>1 DEF Tables, SlotTablesAgree
  <2> QED BY <2>1, <2>2, <2>3 DEF UTaskStep
<1> QED BY <1>2, <1>3, <1>4 DEF HubI, TasksKept

LEMMA HubSteps == HubI /\ [UNext]_uVars => HubI'
<1> SUFFICES ASSUME HubI, [UNext]_uVars PROVE HubI'
  OBVIOUS
<1>1. MsgTypes /\ Tasks /\ Balance /\ BellsOnce /\ LockedOne /\ Tables
  BY DEF HubI
<1>2. CASE UNCHANGED uVars
  <2>1. MsgTypes' /\ \A X : Posted(X)' = Posted(X)
    BY <1>1, <1>2, PostsNone DEF uVars
  <2>2. TasksKept
    BY <1>1, <1>2, <2>1, NothingMoves DEF uVars
  <2> QED BY <1>1, <1>2, <2>2 DEF HubI, TasksKept, LockedOne, Tables, SlotTablesAgree, uVars
<1>3. CASE TakeBatch
  <2>1. MsgTypes' /\ \A X : Posted(X)' = Posted(X)
    BY <1>1, <1>3, Batched
  <2>2. TasksKept
    BY <1>1, <1>3, <2>1, NothingMoves DEF TakeBatch
  <2> QED BY <1>1, <1>3, <2>2 DEF HubI, TasksKept, LockedOne, Tables, SlotTablesAgree, TakeBatch
<1>4. CASE SchedulerStep
  <2>1. TasksKept /\ LockedOne'
    BY <1>1, <1>4, BellKeeps, FocusKeeps, UnfocusKeeps DEF SchedulerStep
  <2> QED BY <1>1, <1>4, <2>1 DEF HubI, TasksKept, Tables, SlotTablesAgree, SchedulerStep
<1>5. CASE \E t \in UTasks : UTaskStep(t)
  BY <1>5, HubTaskSteps
<1> QED BY <1>2, <1>3, <1>4, <1>5 DEF UNext

\* At rest, the Unfocus of a hub in focus is retired unless its driver still
\* works: that is what Balance says of it.
LEMMA HubHolds == HubI => UsbHubsInv
<1> SUFFICES ASSUME HubI PROVE UsbHubsInv
  OBVIOUS
<1>1. Cardinality(uLocked) <= 1
  <2>1. CASE uLocked = {}
    BY <2>1, FS_EmptySet
  <2>2. CASE uLocked # {}
    <3>1. PICK h : uLocked = {h}
      BY <2>2 DEF HubI, LockedOne
    <3> QED BY <3>1, FS_Singleton
  <2> QED BY <2>1, <2>2
<1>2. UTypeOK
  BY <1>1 DEF UTypeOK, HubI, LockedOne, Tables, Tasks, TaskAt, UPc
<1>3. ASSUME Resting, uQueue = <<>>, NEW h \in uLocked, ~uTask[h].focused
      PROVE  Overtaken(h)
  <2>1. h \in UTasks /\ MsgTypes
    BY DEF HubI, LockedOne
  <2>2. Posted({Focus(h)}) + One(h \in uLocked) = Posted({Unfocus(h)}) + One(uTask[h].focused = TRUE)
    BY <2>1 DEF HubI, Balance
  <2>3. One(h \in uLocked) = 1 /\ One(uTask[h].focused = TRUE) = 0
    BY <1>3 DEF One
  <2>4. Posted({Focus(h)}) \in Nat /\ Posted({Unfocus(h)}) \in Nat
    BY <2>1, PostedNat
  <2>5. Posted({Unfocus(h)}) # 0
    BY <2>2, <2>3, <2>4
  <2>6. Count(uQueue, {Unfocus(h)}) = 0 /\ Count(uActive, {Unfocus(h)}) = 0
    BY <1>3, CountEmpty DEF Resting
  <2>7. Count(uRetired, {Unfocus(h)}) \in Nat
    BY <2>1, PostedNat
  <2>8. Count(uRetired, {Unfocus(h)}) # 0
    BY <2>5, <2>6, <2>7 DEF Posted
  <2>9. \E i \in 1 .. Len(uRetired) : uRetired[i] \in {Unfocus(h)}
    BY <2>1, <2>8, CountNat DEF MsgTypes
  <2> QED BY <1>3, <2>9 DEF Overtaken
<1>4. LockWillEnd
  BY <1>3 DEF LockWillEnd
<1> QED BY <1>2, <1>4 DEF UsbHubsInv, HubI, Tables

\* Whatever the ports of any tree of hubs report: at most one hub is in focus,
\* and with nothing left to look at it is one whose driver will give the focus
\* up, or whose Unfocus overtook its Focus, so that _schedule_task loses none;
\* port2slot and slot2port are inverses, and no two ports share a slot.
THEOREM HubsHold == UsbHubsSpec => []UsbHubsInv
BY HubStarts, HubSteps, HubHolds, PTL DEF UsbHubsSpec

-----------------------------------------------------------------------------
(* The ring buffer for any number of threads, slots and calls: its cells    *)
(* are used by one thread at a time, and it implements the abstract queue   *)
(* of module FifoQueue.                                                     *)
(*                                                                          *)
(* All positions that threads work on lie in one lap, tail - OneLap to      *)
(* tail - 1: those below head are being read, the others are claimed or     *)
(* published.  So two of them are in the same slot only if they are equal.  *)
(* A thread that is still on its way to its compare-exchange may have an    *)
(* old position; if it has, the exchange fails, and what it has seen of     *)
(* the stamp and of the other end matters only if it has not.               *)

Writes(t) == pc[t] \in {"e_value", "e_publish"}
Reads(t) == pc[t] \in {"d_read", "d_release"}

\* What an enqueuer has seen still holds if nobody has claimed its position.
EnqSeen(t) ==
    /\ pc[t] \in {"e_head", "e_stamp", "e_cas"} => pos[t] <= tail
    /\ pc[t] \in {"e_stamp", "e_cas"} /\ pos[t] = tail => tail + 2 <= head + OneLap
    /\ pc[t] = "e_cas" /\ pos[t] = tail => stamp[Index(tail)] = tail

\* What a dequeuer has seen still holds if nobody has taken its position.
DeqSeen(t) ==
    /\ pc[t] \in {"d_tail", "d_stamp", "d_cas"} => pos[t] <= head
    /\ pc[t] \in {"d_stamp", "d_cas"} /\ pos[t] = head => head < tail
    /\ pc[t] = "d_cas" /\ pos[t] = head => stamp[Index(head)] = head + 1

\* Where a thread in its slot is, and what the stamp of the slot is.
InLap(t) ==
    /\ Writes(t) => head <= pos[t] /\ pos[t] < tail /\ stamp[Index(pos[t])] = pos[t]
    /\ Reads(t) => pos[t] < head /\ tail <= pos[t] + OneLap /\ stamp[Index(pos[t])] = pos[t] + 1

\* What its cell and its locals hold.
Contents(t) ==
    /\ pc[t] \in EnqPC => data[t] \in Value
    /\ pc[t] = "e_publish" => value[Index(pos[t])] = data[t]
    /\ pc[t] = "d_read" => value[Index(pos[t])] \in Value
    /\ pc[t] = "d_release" => data[t] \in Value

\* A position is claimed once and taken once.
OnePosition == \A t, u \in Thread :
    t # u /\ ((Writes(t) /\ Writes(u)) \/ (Reads(t) /\ Reads(u))) => pos[t] # pos[u]

\* A position of the queue is still being written or has been.
Filled == \A p \in Nat : head <= p /\ p < tail =>
    (\E t \in Thread : Claims(t, p)) \/ value[Index(p)] \in Value

FifoInv == /\ TypeOK /\ OneSlotFree /\ OnePosition /\ Filled
           /\ \A t \in Thread : EnqSeen(t) /\ DeqSeen(t) /\ InLap(t) /\ Contents(t)

-----------------------------------------------------------------------------
(* Slots of positions *)

LEMMA IndexInSlots == \A p \in Nat : Index(p) \in Slots
  BY FifoAssumption DEF Index, Slots

LEMMA Laps == \A p \in Nat : \E a \in Nat : p = OneLap * a + Index(p)
<1> SUFFICES ASSUME NEW p \in Nat PROVE \E a \in Nat : p = OneLap * a + Index(p)
  OBVIOUS
<1>1. p \div OneLap \in Nat /\ p = OneLap * (p \div OneLap) + Index(p)
  BY FifoAssumption DEF Index
<1> QED BY <1>1

\* Two positions less than a lap apart are in different slots.
LEMMA OneLapApart ==
    \A p, q \in Nat : p < q /\ q < p + OneLap => Index(p) # Index(q)
<1> SUFFICES ASSUME NEW p \in Nat, NEW q \in Nat, p < q, q < p + OneLap, Index(p) = Index(q)
             PROVE  FALSE
  OBVIOUS
<1>1. OneLap \in Nat /\ OneLap > 0
  BY FifoAssumption
<1>2. p = OneLap * (p \div OneLap) + Index(p) /\ q = OneLap * (q \div OneLap) + Index(q)
  BY <1>1 DEF Index
<1>3. p \div OneLap \in Nat /\ q \div OneLap \in Nat /\ Index(p) \in Nat
  BY <1>1 DEF Index
<1> DEFINE k == (q \div OneLap) - (p \div OneLap)
<1>4. k \in Int /\ q - p = OneLap * k
  BY <1>1, <1>2, <1>3
<1>5. CASE k <= 0
  BY <1>1, <1>4, <1>5
<1>6. CASE k >= 1
  BY <1>1, <1>4, <1>6
<1> QED BY <1>4, <1>5, <1>6

\* A position and the one a lap later are in the same slot.
LEMMA NextLap == \A p \in Nat : Index(p + OneLap) = Index(p)
<1> SUFFICES ASSUME NEW p \in Nat, NEW q \in Nat, q = p + OneLap PROVE Index(q) = Index(p)
  BY FifoAssumption
<1>1. OneLap \in Nat /\ OneLap > 0
  BY FifoAssumption
<1>2. PICK a \in Nat : p = OneLap * a + Index(p)
  BY Laps
<1>3. PICK b \in Nat : q = OneLap * b + Index(q)
  BY Laps
<1>4. Index(p) \in 0 .. OneLap - 1 /\ Index(q) \in 0 .. OneLap - 1
  BY <1>1 DEF Index
<1>5. Index(p) - Index(q) = OneLap * (b - a - 1)
  BY <1>1, <1>2, <1>3, <1>4
<1>6. CASE b - a - 1 >= 1
  BY <1>1, <1>4, <1>5, <1>6
<1>7. CASE b - a - 1 <= -1
  BY <1>1, <1>4, <1>5, <1>7
<1>8. CASE b - a - 1 = 0
  BY <1>1, <1>4, <1>5, <1>8
<1> QED BY <1>6, <1>7, <1>8

-----------------------------------------------------------------------------
(* The invariant *)

\* Steps of a thread that is in no slot and does not get into one.
LEMMA LocalStep ==
    ASSUME FifoInv, NEW t \in Thread, ~InSlot(t), ~InSlot(t)', TypeOK',
           NEW to, NEW v, NEW d,
           pc' = [pc EXCEPT ![t] = to], pos' = [pos EXCEPT ![t] = v], data' = [data EXCEPT ![t] = d],
           UNCHANGED <<head, tail, stamp, value>>,
           EnqSeen(t)', DeqSeen(t)', Contents(t)'
    PROVE  FifoInv'
<1>1. \A u \in Thread : u # t => pc'[u] = pc[u] /\ pos'[u] = pos[u] /\ data'[u] = data[u]
  BY DEF FifoInv, TypeOK
<1>2. \A u \in Thread : /\ Writes(u)' <=> Writes(u) /\ u # t
                        /\ Reads(u)' <=> Reads(u) /\ u # t
  BY <1>1 DEF InSlot, Writes, Reads
<1>3. OneSlotFree'
  BY DEF FifoInv, OneSlotFree
<1>4. OnePosition'
  BY <1>1, <1>2 DEF FifoInv, OnePosition
<1>5. ASSUME NEW p \in Nat, NEW u \in Thread, Claims(u, p) PROVE Claims(u, p)'
  BY <1>1, <1>5 DEF Claims, InSlot
<1>6. Filled'
  BY <1>5 DEF FifoInv, Filled
<1>7. ASSUME NEW u \in Thread, u # t PROVE EnqSeen(u)' /\ DeqSeen(u)' /\ InLap(u)' /\ Contents(u)'
  BY <1>1, <1>2, <1>7 DEF FifoInv, EnqSeen, DeqSeen, InLap, Contents
<1>8. InLap(t)'
  BY <1>2 DEF InLap
<1> QED BY <1>3, <1>4, <1>6, <1>7, <1>8 DEF FifoInv

LEMMA LocalInv ==
    ASSUME FifoInv, NEW t \in Thread,
           \/ (\E v \in Value : CallEnqueue(t, v)) \/ EnqLoadTail(t) \/ EnqReturnErr(t)
           \/ EnqNotFull(t) \/ EnqLoadStamp(t) \/ (EnqCas(t) /\ tail # pos[t])
           \/ CallDequeue(t) \/ DeqLoadHead(t) \/ DeqReturnNone(t)
           \/ DeqNotEmpty(t) \/ DeqLoadStamp(t) \/ (DeqCas(t) /\ head # pos[t])
    PROVE  FifoInv'
<1> USE DEF Goto, Return, InSlot, EnqPC, DeqPC
<1>0. /\ TypeOK /\ OneSlotFree /\ OneLap \in Nat \ {0} /\ MaxCalls \in Nat
      /\ EnqSeen(t) /\ DeqSeen(t) /\ Contents(t)
  BY FifoAssumption DEF FifoInv
<1>1. ASSUME NEW v \in Value, CallEnqueue(t, v) PROVE FifoInv'
  <2>1. /\ pc' = [pc EXCEPT ![t] = "e_tail"] /\ pos' = [pos EXCEPT ![t] = pos[t]]
        /\ data' = [data EXCEPT ![t] = v] /\ UNCHANGED <<head, tail, stamp, value>> /\ ~InSlot(t)
    BY <1>0, <1>1 DEF CallEnqueue, TypeOK
  <2>2. TypeOK'
    BY <1>0, <1>1, <2>1 DEF CallEnqueue, TypeOK
  <2>3. ~InSlot(t)' /\ EnqSeen(t)' /\ DeqSeen(t)' /\ Contents(t)'
    BY <1>0, <2>1 DEF EnqSeen, DeqSeen, Contents, TypeOK
  <2> QED BY <2>1, <2>2, <2>3, LocalStep
<1>2. CASE EnqLoadTail(t)
  <2>1. /\ pc' = [pc EXCEPT ![t] = "e_head"] /\ pos' = [pos EXCEPT ![t] = tail]
        /\ data' = [data EXCEPT ![t] = data[t]] /\ UNCHANGED <<head, tail, stamp, value>> /\ ~InSlot(t)
    BY <1>0, <1>2 DEF EnqLoadTail, TypeOK
  <2>2. TypeOK'
    BY <1>0, <1>2, <2>1 DEF EnqLoadTail, TypeOK
  <2>3. ~InSlot(t)' /\ EnqSeen(t)' /\ DeqSeen(t)' /\ Contents(t)'
    BY <1>0, <1>2, <2>1 DEF EnqLoadTail, EnqSeen, DeqSeen, Contents, TypeOK
  <2> QED BY <2>1, <2>2, <2>3, LocalStep
<1>3. CASE EnqReturnErr(t) \/ DeqReturnNone(t)
  <2>1. /\ pc' = [pc EXCEPT ![t] = "idle"] /\ pos' = [pos EXCEPT ![t] = 0]
        /\ data' = [data EXCEPT ![t] = NoValue] /\ UNCHANGED <<head, tail, stamp, value>> /\ ~InSlot(t)
    BY <1>0, <1>3 DEF EnqReturnErr, DeqReturnNone, TypeOK
  <2>2. TypeOK'
    BY <1>0, <1>3, <2>1 DEF EnqReturnErr, DeqReturnNone, TypeOK
  <2>3. ~InSlot(t)' /\ EnqSeen(t)' /\ DeqSeen(t)' /\ Contents(t)'
    BY <1>0, <2>1 DEF EnqSeen, DeqSeen, Contents, TypeOK
  <2> QED BY <2>1, <2>2, <2>3, LocalStep
\* If tail is still what was loaded, then head is not yet a lap behind.
<1>4. CASE EnqNotFull(t)
  <2>1. /\ pc' = [pc EXCEPT ![t] = "e_stamp"] /\ pos' = [pos EXCEPT ![t] = pos[t]]
        /\ data' = [data EXCEPT ![t] = data[t]] /\ UNCHANGED <<head, tail, stamp, value>> /\ ~InSlot(t)
    BY <1>0, <1>4 DEF EnqNotFull, TypeOK
  <2>2. TypeOK'
    BY <1>0, <1>4, <2>1 DEF EnqNotFull, TypeOK
  <2>3. pos[t] <= tail /\ data[t] \in Value
    BY <1>0, <1>4 DEF EnqNotFull, EnqSeen, Contents
  <2>4. ASSUME pos[t] = tail PROVE tail + 2 <= head + OneLap
    <3>1. tail + 1 # head + OneLap
      BY <1>0, <1>4, <2>4, NextLap DEF EnqNotFull, LooksFull, TypeOK
    <3> QED BY <1>0, <3>1 DEF OneSlotFree, TypeOK
  <2>5. ~InSlot(t)' /\ EnqSeen(t)' /\ DeqSeen(t)' /\ Contents(t)'
    BY <1>0, <2>1, <2>3, <2>4 DEF EnqSeen, DeqSeen, Contents, TypeOK
  <2> QED BY <2>1, <2>2, <2>5, LocalStep
<1>5. CASE EnqLoadStamp(t)
  <2> DEFINE to == IF stamp[Index(pos[t])] = pos[t] THEN "e_cas" ELSE "e_tail"
  <2>1. /\ pc' = [pc EXCEPT ![t] = to] /\ pos' = [pos EXCEPT ![t] = pos[t]]
        /\ data' = [data EXCEPT ![t] = data[t]] /\ UNCHANGED <<head, tail, stamp, value>> /\ ~InSlot(t)
    BY <1>0, <1>5 DEF EnqLoadStamp, TypeOK
  <2>2. TypeOK'
    BY <1>0, <1>5, <2>1 DEF EnqLoadStamp, TypeOK
  <2>3. ~InSlot(t)' /\ EnqSeen(t)' /\ DeqSeen(t)' /\ Contents(t)'
    BY <1>0, <1>5, <2>1 DEF EnqLoadStamp, EnqSeen, DeqSeen, Contents, TypeOK
  <2> QED BY <2>1, <2>2, <2>3, LocalStep
<1>6. CASE EnqCas(t) /\ tail # pos[t]
  <2>1. /\ pc' = [pc EXCEPT ![t] = "e_tail"] /\ pos' = [pos EXCEPT ![t] = pos[t]]
        /\ data' = [data EXCEPT ![t] = data[t]] /\ UNCHANGED <<head, tail, stamp, value>> /\ ~InSlot(t)
    BY <1>0, <1>6 DEF EnqCas, TypeOK
  <2>2. TypeOK'
    BY <1>0, <1>6, <2>1 DEF EnqCas, TypeOK
  <2>3. ~InSlot(t)' /\ EnqSeen(t)' /\ DeqSeen(t)' /\ Contents(t)'
    BY <1>0, <1>6, <2>1 DEF EnqCas, EnqSeen, DeqSeen, Contents, TypeOK
  <2> QED BY <2>1, <2>2, <2>3, LocalStep
<1>7. CASE CallDequeue(t)
  <2>1. /\ pc' = [pc EXCEPT ![t] = "d_head"] /\ pos' = [pos EXCEPT ![t] = pos[t]]
        /\ data' = [data EXCEPT ![t] = data[t]] /\ UNCHANGED <<head, tail, stamp, value>> /\ ~InSlot(t)
    BY <1>0, <1>7 DEF CallDequeue, TypeOK
  <2>2. TypeOK'
    BY <1>0, <1>7, <2>1 DEF CallDequeue, TypeOK
  <2>3. ~InSlot(t)' /\ EnqSeen(t)' /\ DeqSeen(t)' /\ Contents(t)'
    BY <1>0, <2>1 DEF EnqSeen, DeqSeen, Contents, TypeOK
  <2> QED BY <2>1, <2>2, <2>3, LocalStep
<1>8. CASE DeqLoadHead(t)
  <2>1. /\ pc' = [pc EXCEPT ![t] = "d_tail"] /\ pos' = [pos EXCEPT ![t] = head]
        /\ data' = [data EXCEPT ![t] = data[t]] /\ UNCHANGED <<head, tail, stamp, value>> /\ ~InSlot(t)
    BY <1>0, <1>8 DEF DeqLoadHead, TypeOK
  <2>2. TypeOK'
    BY <1>0, <1>8, <2>1 DEF DeqLoadHead, TypeOK
  <2>3. ~InSlot(t)' /\ EnqSeen(t)' /\ DeqSeen(t)' /\ Contents(t)'
    BY <1>0, <2>1 DEF EnqSeen, DeqSeen, Contents, TypeOK
  <2> QED BY <2>1, <2>2, <2>3, LocalStep
\* If head is still what was loaded, then tail is ahead of it.
<1>9. CASE DeqNotEmpty(t)
  <2>1. /\ pc' = [pc EXCEPT ![t] = "d_stamp"] /\ pos' = [pos EXCEPT ![t] = pos[t]]
        /\ data' = [data EXCEPT ![t] = data[t]] /\ UNCHANGED <<head, tail, stamp, value>> /\ ~InSlot(t)
    BY <1>0, <1>9 DEF DeqNotEmpty, TypeOK
  <2>2. TypeOK'
    BY <1>0, <1>9, <2>1 DEF DeqNotEmpty, TypeOK
  <2>3. pos[t] <= head /\ (pos[t] = head => head < tail)
    BY <1>0, <1>9 DEF DeqNotEmpty, LooksEmpty, DeqSeen, OneSlotFree, TypeOK
  <2>4. ~InSlot(t)' /\ EnqSeen(t)' /\ DeqSeen(t)' /\ Contents(t)'
    BY <1>0, <2>1, <2>3 DEF EnqSeen, DeqSeen, Contents, TypeOK
  <2> QED BY <2>1, <2>2, <2>4, LocalStep
<1>10. CASE DeqLoadStamp(t)
  <2> DEFINE to == IF stamp[Index(pos[t])] = pos[t] + 1 THEN "d_cas" ELSE "d_head"
  <2>1. /\ pc' = [pc EXCEPT ![t] = to] /\ pos' = [pos EXCEPT ![t] = pos[t]]
        /\ data' = [data EXCEPT ![t] = data[t]] /\ UNCHANGED <<head, tail, stamp, value>> /\ ~InSlot(t)
    BY <1>0, <1>10 DEF DeqLoadStamp, TypeOK
  <2>2. TypeOK'
    BY <1>0, <1>10, <2>1 DEF DeqLoadStamp, TypeOK
  <2>3. ~InSlot(t)' /\ EnqSeen(t)' /\ DeqSeen(t)' /\ Contents(t)'
    BY <1>0, <1>10, <2>1 DEF DeqLoadStamp, EnqSeen, DeqSeen, Contents, TypeOK
  <2> QED BY <2>1, <2>2, <2>3, LocalStep
<1>11. CASE DeqCas(t) /\ head # pos[t]
  <2>1. /\ pc' = [pc EXCEPT ![t] = "d_head"] /\ pos' = [pos EXCEPT ![t] = pos[t]]
        /\ data' = [data EXCEPT ![t] = data[t]] /\ UNCHANGED <<head, tail, stamp, value>> /\ ~InSlot(t)
    BY <1>0, <1>11 DEF DeqCas, TypeOK
  <2>2. TypeOK'
    BY <1>0, <1>11, <2>1 DEF DeqCas, TypeOK
  <2>3. ~InSlot(t)' /\ EnqSeen(t)' /\ DeqSeen(t)' /\ Contents(t)'
    BY <1>0, <2>1 DEF EnqSeen, DeqSeen, Contents, TypeOK
  <2> QED BY <2>1, <2>2, <2>3, LocalStep
<1> QED BY <1>1, <1>2, <1>3, <1>4, <1>5, <1>6, <1>7, <1>8, <1>9, <1>10, <1>11

\* Threads in slots are in different ones: all their positions are in one lap.
LEMMA Exclusive == FifoInv => SlotExclusive
<1> SUFFICES ASSUME FifoInv, NEW t \in Thread, NEW u \in Thread, t # u, InSlot(t), InSlot(u)
             PROVE  Index(pos[t]) # Index(pos[u])
  BY DEF SlotExclusive
<1>1. pos[t] \in Nat /\ pos[u] \in Nat /\ head \in Nat /\ tail \in Nat /\ OneLap \in Nat
  BY FifoAssumption DEF FifoInv, TypeOK
<1>2. /\ pos[t] < tail /\ tail <= pos[t] + OneLap
      /\ pos[u] < tail /\ tail <= pos[u] + OneLap
  BY <1>1 DEF FifoInv, InLap, InSlot, Writes, Reads, OneSlotFree
<1>3. pos[t] # pos[u]
  BY <1>1 DEF FifoInv, OnePosition, InLap, InSlot, Writes, Reads
<1> QED BY <1>1, <1>2, <1>3, OneLapApart

\* The position at tail is claimed.
LEMMA ClaimInv ==
    ASSUME FifoInv, NEW t \in Thread, EnqCas(t), tail = pos[t]
    PROVE  FifoInv'
<1>0. /\ TypeOK /\ OneSlotFree /\ OneLap \in Nat \ {0}
      /\ \A u \in Thread : EnqSeen(u) /\ DeqSeen(u) /\ InLap(u) /\ Contents(u)
  BY FifoAssumption DEF FifoInv
<1>1. /\ pc[t] = "e_cas" /\ pc' = [pc EXCEPT ![t] = "e_value"] /\ tail' = tail + 1
      /\ UNCHANGED <<head, stamp, value, pos, data, calls>>
  BY DEF EnqCas, Goto
<1>2. tail + 2 <= head + OneLap /\ stamp[Index(tail)] = tail /\ head <= tail
  BY <1>0, <1>1 DEF EnqSeen, OneSlotFree
<1>3. TypeOK' /\ OneSlotFree'
  BY <1>0, <1>1, <1>2 DEF TypeOK, OneSlotFree, EnqPC
<1>4. \A u \in Thread : /\ u # t => pc'[u] = pc[u] /\ (Writes(u)' <=> Writes(u))
                        /\ Reads(u)' <=> Reads(u)
  BY <1>0, <1>1 DEF Writes, Reads, TypeOK
<1>5. Writes(t)' /\ ~Writes(t) /\ ~Reads(t)
  BY <1>0, <1>1 DEF Writes, Reads, TypeOK
<1>6. OnePosition'
  BY <1>0, <1>1, <1>4, <1>5 DEF FifoInv, OnePosition, InLap, TypeOK
<1>7. Filled'
  <2> SUFFICES ASSUME NEW p \in Nat, head <= p, p < tail + 1
               PROVE  (\E u \in Thread : Claims(u, p)') \/ value[Index(p)] \in Value
    BY <1>1 DEF Filled
  <2>1. CASE p = tail
    BY <1>1, <1>5, <2>1 DEF Claims, Writes
  <2>2. CASE p < tail
    <3>1. ASSUME NEW u \in Thread, Claims(u, p) PROVE Claims(u, p)'
      BY <1>0, <1>1, <3>1 DEF Claims, TypeOK
    <3> QED BY <2>2, <3>1 DEF FifoInv, Filled
  <2> QED BY <1>0, <2>1, <2>2 DEF TypeOK
<1>8. ASSUME NEW u \in Thread PROVE EnqSeen(u)' /\ DeqSeen(u)' /\ Contents(u)'
  <2>1. EnqSeen(u)'
    BY <1>0, <1>1 DEF EnqSeen, TypeOK
  <2>2. DeqSeen(u)'
    BY <1>0, <1>1 DEF DeqSeen, TypeOK
  <2>3. Contents(u)'
    BY <1>0, <1>1 DEF Contents, TypeOK, EnqPC
  <2> QED BY <2>1, <2>2, <2>3
\* A reader of the last lap would still have its stamp in the slot.
<1>9. ASSUME NEW u \in Thread, Reads(u) PROVE tail # pos[u] + OneLap
  BY <1>0, <1>2, <1>9, NextLap DEF InLap, TypeOK
<1>10. ASSUME NEW u \in Thread PROVE InLap(u)'
  BY <1>0, <1>1, <1>2, <1>4, <1>5, <1>9 DEF InLap, TypeOK
<1> QED BY <1>3, <1>6, <1>7, <1>8, <1>10 DEF FifoInv

LEMMA WriteValueInv ==
    ASSUME FifoInv, NEW t \in Thread, EnqWriteValue(t)
    PROVE  FifoInv'
<1>0. /\ TypeOK /\ OneSlotFree
      /\ \A u \in Thread : EnqSeen(u) /\ DeqSeen(u) /\ InLap(u) /\ Contents(u)
  BY DEF FifoInv
<1>1. /\ pc[t] = "e_value" /\ pc' = [pc EXCEPT ![t] = "e_publish"]
      /\ value' = [value EXCEPT ![Index(pos[t])] = data[t]]
      /\ UNCHANGED <<head, tail, stamp, pos, data, calls>>
  BY DEF EnqWriteValue, Goto
<1>2. data[t] \in Value /\ Index(pos[t]) \in Slots
  BY <1>0, <1>1, IndexInSlots DEF Contents, EnqPC, TypeOK
<1>3. TypeOK' /\ OneSlotFree'
  BY <1>0, <1>1, <1>2 DEF TypeOK, OneSlotFree, EnqPC
<1>4. \A u \in Thread : /\ u # t => pc'[u] = pc[u]
                        /\ Writes(u)' <=> Writes(u)
                        /\ Reads(u)' <=> Reads(u)
  BY <1>0, <1>1 DEF Writes, Reads, TypeOK
<1>5. OnePosition'
  BY <1>1, <1>4 DEF FifoInv, OnePosition
<1>6. Filled'
  <2>1. ASSUME NEW p \in Nat, NEW u \in Thread, Claims(u, p) PROVE Claims(u, p)'
    BY <1>1, <1>4, <2>1 DEF Claims, Writes
  <2>2. ASSUME NEW p \in Nat, value[Index(p)] \in Value PROVE value'[Index(p)] \in Value
    BY <1>0, <1>1, <1>2, <2>2, IndexInSlots DEF TypeOK
  <2> QED BY <1>1, <2>1, <2>2 DEF FifoInv, Filled
<1>7. ASSUME NEW u \in Thread PROVE EnqSeen(u)' /\ DeqSeen(u)' /\ InLap(u)'
  BY <1>0, <1>1, <1>4 DEF EnqSeen, DeqSeen, InLap, TypeOK
<1>8. ASSUME NEW u \in Thread, u # t PROVE Contents(u)'
  <2>1. InSlot(u) => Index(pos[u]) # Index(pos[t])
    BY <1>1, <1>8, Exclusive DEF SlotExclusive, InSlot
  <2>2. InSlot(u) => value'[Index(pos[u])] = value[Index(pos[u])]
    BY <1>0, <1>1, <2>1, IndexInSlots DEF TypeOK
  <2> QED BY <1>0, <1>1, <1>4, <1>8, <2>2 DEF Contents, InSlot
<1>9. Contents(t)'
  BY <1>0, <1>1, <1>2 DEF Contents, TypeOK, EnqPC
<1> QED BY <1>3, <1>5, <1>6, <1>7, <1>8, <1>9 DEF FifoInv

\* The stamp of an enqueued position concerns neither the slot at tail nor, as
\* long as it is not written, the one at head.
LEMMA PublishInv ==
    ASSUME FifoInv, NEW t \in Thread, EnqWriteStamp(t)
    PROVE  FifoInv'
<1>0. /\ TypeOK /\ OneSlotFree /\ OneLap \in Nat
      /\ \A u \in Thread : EnqSeen(u) /\ DeqSeen(u) /\ InLap(u) /\ Contents(u)
  BY FifoAssumption DEF FifoInv
<1>1. /\ pc[t] = "e_publish" /\ pc' = [pc EXCEPT ![t] = "idle"]
      /\ pos' = [pos EXCEPT ![t] = 0] /\ data' = [data EXCEPT ![t] = NoValue]
      /\ stamp' = [stamp EXCEPT ![Index(pos[t])] = pos[t] + 1]
      /\ UNCHANGED <<head, tail, value, calls>>
  BY DEF EnqWriteStamp, Return, Goto
<1>2. /\ head <= pos[t] /\ pos[t] < tail /\ stamp[Index(pos[t])] = pos[t]
      /\ data[t] \in Value /\ value[Index(pos[t])] = data[t] /\ Index(pos[t]) \in Slots
  BY <1>0, <1>1, IndexInSlots DEF InLap, Writes, Contents, EnqPC, TypeOK
<1>3. TypeOK' /\ OneSlotFree'
  BY <1>0, <1>1, <1>2 DEF TypeOK, OneSlotFree, EnqPC
<1>4. \A u \in Thread : u # t => pc'[u] = pc[u] /\ pos'[u] = pos[u] /\ data'[u] = data[u]
  BY <1>0, <1>1 DEF TypeOK
<1>5. \A u \in Thread : /\ Writes(u)' <=> Writes(u) /\ u # t
                        /\ Reads(u)' <=> Reads(u) /\ u # t
  BY <1>0, <1>1 DEF Writes, Reads, TypeOK
<1>6. OnePosition'
  BY <1>4, <1>5 DEF FifoInv, OnePosition
<1>7. Filled'
  <2>1. ASSUME NEW p \in Nat, NEW u \in Thread, Claims(u, p), u # t PROVE Claims(u, p)'
    BY <1>4, <2>1 DEF Claims
  <2>2. ASSUME NEW p \in Nat, Claims(t, p) PROVE value[Index(p)] \in Value
    BY <1>2, <2>2 DEF Claims
  <2> QED BY <1>1, <2>1, <2>2 DEF FifoInv, Filled
<1>8. ASSUME NEW p \in Nat, Index(p) # Index(pos[t]) PROVE stamp'[Index(p)] = stamp[Index(p)]
  BY <1>0, <1>1, <1>8, IndexInSlots DEF TypeOK
<1>9. stamp'[Index(tail)] = stamp[Index(tail)]
  BY <1>0, <1>2, <1>8, OneLapApart DEF OneSlotFree, TypeOK
<1>10. stamp[Index(head)] = head + 1 => stamp'[Index(head)] = head + 1
  <2>1. CASE head = pos[t]
    BY <1>0, <1>2, <2>1 DEF TypeOK
  <2>2. CASE head < pos[t]
    BY <1>0, <1>2, <1>8, <2>2, OneLapApart DEF OneSlotFree, TypeOK
  <2> QED BY <1>0, <1>2, <2>1, <2>2 DEF TypeOK
<1>11. ASSUME NEW u \in Thread, u # t PROVE EnqSeen(u)' /\ DeqSeen(u)' /\ InLap(u)' /\ Contents(u)'
  <2>1. EnqSeen(u)'
    BY <1>0, <1>1, <1>4, <1>9, <1>11 DEF EnqSeen
  <2>2. DeqSeen(u)'
    BY <1>0, <1>1, <1>4, <1>10, <1>11 DEF DeqSeen
  <2>3. InSlot(u) => Index(pos[u]) # Index(pos[t])
    BY <1>1, <1>11, Exclusive DEF SlotExclusive, InSlot
  <2>4. InLap(u)'
    BY <1>0, <1>1, <1>4, <1>5, <1>8, <1>11, <2>3 DEF InLap, InSlot, Writes, Reads, TypeOK
  <2>5. Contents(u)'
    BY <1>0, <1>1, <1>4, <1>11 DEF Contents
  <2> QED BY <2>1, <2>2, <2>4, <2>5
<1>12. EnqSeen(t)' /\ DeqSeen(t)' /\ InLap(t)' /\ Contents(t)'
  BY <1>0, <1>1, <1>5 DEF EnqSeen, DeqSeen, InLap, Contents, TypeOK, EnqPC
<1> QED BY <1>3, <1>6, <1>7, <1>11, <1>12 DEF FifoInv

\* The position at head is taken: its stamp says that nobody writes it.
LEMMA TakeInv ==
    ASSUME FifoInv, NEW t \in Thread, DeqCas(t), head = pos[t]
    PROVE  FifoInv'
<1>0. /\ TypeOK /\ OneSlotFree /\ OneLap \in Nat
      /\ \A u \in Thread : EnqSeen(u) /\ DeqSeen(u) /\ InLap(u) /\ Contents(u)
  BY FifoAssumption DEF FifoInv
<1>1. /\ pc[t] = "d_cas" /\ pc' = [pc EXCEPT ![t] = "d_read"] /\ head' = head + 1
      /\ UNCHANGED <<tail, stamp, value, pos, data, calls>>
  BY DEF DeqCas, Goto
<1>2. head < tail /\ stamp[Index(head)] = head + 1
  BY <1>0, <1>1 DEF DeqSeen
<1>3. TypeOK' /\ OneSlotFree'
  BY <1>0, <1>1, <1>2 DEF TypeOK, OneSlotFree, DeqPC
<1>4. \A u \in Thread : /\ u # t => pc'[u] = pc[u] /\ (Reads(u)' <=> Reads(u))
                        /\ Writes(u)' <=> Writes(u)
  BY <1>0, <1>1 DEF Writes, Reads, TypeOK
<1>5. Reads(t)' /\ ~Writes(t) /\ ~Reads(t)
  BY <1>0, <1>1 DEF Writes, Reads, TypeOK
<1>6. ASSUME NEW u \in Thread, Writes(u) PROVE pos[u] # head
  BY <1>0, <1>2, <1>6 DEF InLap, TypeOK
<1>7. value[Index(head)] \in Value
  BY <1>0, <1>2, <1>6 DEF FifoInv, Filled, Claims, Writes, TypeOK
<1>8. OnePosition'
  BY <1>0, <1>1, <1>4, <1>5 DEF FifoInv, OnePosition, InLap, TypeOK
<1>9. Filled'
  <2>1. ASSUME NEW p \in Nat, NEW u \in Thread, Claims(u, p) PROVE Claims(u, p)'
    BY <1>1, <1>4, <2>1 DEF Claims, Writes
  <2> QED BY <1>0, <1>1, <2>1 DEF FifoInv, Filled, TypeOK
<1>10. ASSUME NEW u \in Thread PROVE EnqSeen(u)' /\ DeqSeen(u)' /\ Contents(u)'
  <2>1. EnqSeen(u)'
    BY <1>0, <1>1 DEF EnqSeen, TypeOK
  <2>2. DeqSeen(u)'
    BY <1>0, <1>1 DEF DeqSeen, TypeOK
  <2>3. Contents(u)'
    BY <1>0, <1>1, <1>7 DEF Contents, TypeOK, EnqPC
  <2> QED BY <2>1, <2>2, <2>3
<1>11. ASSUME NEW u \in Thread PROVE InLap(u)'
  BY <1>0, <1>1, <1>2, <1>4, <1>5, <1>6 DEF InLap, TypeOK, OneSlotFree
<1> QED BY <1>3, <1>8, <1>9, <1>10, <1>11 DEF FifoInv

LEMMA ReadInv ==
    ASSUME FifoInv, NEW t \in Thread, DeqRead(t)
    PROVE  FifoInv'
<1>0. /\ TypeOK /\ OneSlotFree
      /\ \A u \in Thread : EnqSeen(u) /\ DeqSeen(u) /\ InLap(u) /\ Contents(u)
  BY DEF FifoInv
<1>1. /\ pc[t] = "d_read" /\ pc' = [pc EXCEPT ![t] = "d_release"]
      /\ data' = [data EXCEPT ![t] = value[Index(pos[t])]]
      /\ UNCHANGED <<head, tail, stamp, value, pos, calls>>
  BY DEF DeqRead, Goto
<1>2. value[Index(pos[t])] \in Value
  BY <1>0, <1>1 DEF Contents
<1>3. TypeOK' /\ OneSlotFree'
  BY <1>0, <1>1, <1>2 DEF TypeOK, OneSlotFree, DeqPC
<1>4. \A u \in Thread : /\ u # t => pc'[u] = pc[u] /\ data'[u] = data[u]
                        /\ Writes(u)' <=> Writes(u)
                        /\ Reads(u)' <=> Reads(u)
  BY <1>0, <1>1 DEF Writes, Reads, TypeOK
<1>5. OnePosition'
  BY <1>1, <1>4 DEF FifoInv, OnePosition
<1>6. Filled'
  <2>1. ASSUME NEW p \in Nat, NEW u \in Thread, Claims(u, p) PROVE Claims(u, p)'
    BY <1>1, <1>4, <2>1 DEF Claims, Writes
  <2> QED BY <1>1, <2>1 DEF FifoInv, Filled
<1>7. ASSUME NEW u \in Thread PROVE EnqSeen(u)' /\ DeqSeen(u)' /\ InLap(u)'
  BY <1>0, <1>1, <1>4 DEF EnqSeen, DeqSeen, InLap, TypeOK
<1>8. ASSUME NEW u \in Thread PROVE Contents(u)'
  BY <1>0, <1>1, <1>2, <1>4 DEF Contents, TypeOK, EnqPC
<1> QED BY <1>3, <1>5, <1>6, <1>7, <1>8 DEF FifoInv

\* The slot is free for the position one lap later, and that is at tail or
\* further on.
LEMMA ReleaseInv ==
    ASSUME FifoInv, NEW t \in Thread, DeqWriteStamp(t)
    PROVE  FifoInv'
<1>0. /\ TypeOK /\ OneSlotFree /\ OneLap \in Nat
      /\ \A u \in Thread : EnqSeen(u) /\ DeqSeen(u) /\ InLap(u) /\ Contents(u)
  BY FifoAssumption DEF FifoInv
<1>1. /\ pc[t] = "d_release" /\ pc' = [pc EXCEPT ![t] = "idle"]
      /\ pos' = [pos EXCEPT ![t] = 0] /\ data' = [data EXCEPT ![t] = NoValue]
      /\ stamp' = [stamp EXCEPT ![Index(pos[t])] = pos[t] + OneLap]
      /\ UNCHANGED <<head, tail, value, calls>>
  BY DEF DeqWriteStamp, Return, Goto
<1>2. pos[t] < head /\ tail <= pos[t] + OneLap /\ Index(pos[t]) \in Slots
  BY <1>0, <1>1, IndexInSlots DEF InLap, Reads, TypeOK
<1>3. TypeOK' /\ OneSlotFree'
  BY <1>0, <1>1, <1>2 DEF TypeOK, OneSlotFree, DeqPC
<1>4. \A u \in Thread : u # t => pc'[u] = pc[u] /\ pos'[u] = pos[u] /\ data'[u] = data[u]
  BY <1>0, <1>1 DEF TypeOK
<1>5. \A u \in Thread : /\ Writes(u)' <=> Writes(u) /\ u # t
                        /\ Reads(u)' <=> Reads(u) /\ u # t
  BY <1>0, <1>1 DEF Writes, Reads, TypeOK
<1>6. OnePosition'
  BY <1>4, <1>5 DEF FifoInv, OnePosition
<1>7. Filled'
  <2>1. ASSUME NEW p \in Nat, NEW u \in Thread, Claims(u, p) PROVE Claims(u, p)'
    BY <1>1, <1>4, <2>1 DEF Claims
  <2> QED BY <1>1, <2>1 DEF FifoInv, Filled
<1>8. ASSUME NEW p \in Nat, Index(p) # Index(pos[t]) PROVE stamp'[Index(p)] = stamp[Index(p)]
  BY <1>0, <1>1, <1>8, IndexInSlots DEF TypeOK
<1>9. stamp[Index(tail)] = tail => stamp'[Index(tail)] = tail
  <2>1. CASE tail = pos[t] + OneLap
    BY <1>0, <1>1, <1>2, <2>1, NextLap DEF TypeOK
  <2>2. CASE tail < pos[t] + OneLap
    BY <1>0, <1>2, <1>8, <2>2, OneLapApart DEF OneSlotFree, TypeOK
  <2> QED BY <1>0, <1>2, <2>1, <2>2 DEF TypeOK
<1>10. head < tail => stamp'[Index(head)] = stamp[Index(head)]
  BY <1>0, <1>2, <1>8, OneLapApart DEF TypeOK
<1>11. ASSUME NEW u \in Thread, u # t PROVE EnqSeen(u)' /\ DeqSeen(u)' /\ InLap(u)' /\ Contents(u)'
  <2>1. EnqSeen(u)'
    BY <1>0, <1>1, <1>4, <1>9, <1>11 DEF EnqSeen
  <2>2. DeqSeen(u)'
    BY <1>0, <1>1, <1>4, <1>10, <1>11 DEF DeqSeen
  <2>3. InSlot(u) => Index(pos[u]) # Index(pos[t])
    BY <1>1, <1>11, Exclusive DEF SlotExclusive, InSlot
  <2>4. InLap(u)'
    BY <1>0, <1>1, <1>4, <1>5, <1>8, <1>11, <2>3 DEF InLap, InSlot, Writes, Reads, TypeOK
  <2>5. Contents(u)'
    BY <1>0, <1>1, <1>4, <1>11 DEF Contents
  <2> QED BY <2>1, <2>2, <2>4, <2>5
<1>12. EnqSeen(t)' /\ DeqSeen(t)' /\ InLap(t)' /\ Contents(t)'
  BY <1>0, <1>1, <1>5 DEF EnqSeen, DeqSeen, InLap, Contents, TypeOK, EnqPC
<1> QED BY <1>3, <1>6, <1>7, <1>11, <1>12 DEF FifoInv

LEMMA InitFifo == Init => FifoInv
<1> SUFFICES ASSUME Init PROVE FifoInv
  OBVIOUS
<1>1. TypeOK
  BY FifoAssumption DEF Init, TypeOK, Slots
<1>2. OneSlotFree /\ Filled
  BY FifoAssumption DEF Init, OneSlotFree, Filled
<1>3. \A t \in Thread : pc[t] = "idle"
  BY DEF Init
<1> QED
  BY <1>1, <1>2, <1>3 DEF FifoInv, OnePosition, EnqSeen, DeqSeen, InLap, Contents, Writes, Reads, EnqPC

LEMMA NextFifo == FifoInv /\ [Next]_vars => FifoInv'
<1> SUFFICES ASSUME FifoInv, [Next]_vars PROVE FifoInv'
  OBVIOUS
<1>1. ASSUME NEW t \in Thread, NEW v \in Value, CallEnqueue(t, v) PROVE FifoInv'
  BY <1>1, LocalInv
<1>2. ASSUME NEW t \in Thread, CallDequeue(t) PROVE FifoInv'
  BY <1>2, LocalInv
<1>3. ASSUME NEW t \in Thread, EnqStep(t) PROVE FifoInv'
  <2>1. CASE EnqCas(t)
    BY <2>1, LocalInv, ClaimInv
  <2> QED BY <1>3, <2>1, LocalInv, WriteValueInv, PublishInv DEF EnqStep
<1>4. ASSUME NEW t \in Thread, DeqStep(t) PROVE FifoInv'
  <2>1. CASE DeqCas(t)
    BY <2>1, LocalInv, TakeInv
  <2> QED BY <1>4, <2>1, LocalInv, ReadInv, ReleaseInv DEF DeqStep
<1>5. CASE UNCHANGED vars
  BY <1>5 DEF vars, FifoInv, TypeOK, OneSlotFree, OnePosition, Filled, EnqSeen, DeqSeen, InLap,
     Contents, Writes, Reads, Claims
<1> QED BY <1>1, <1>2, <1>3, <1>4, <1>5 DEF Next, Step

LEMMA FifoAlways == Spec => []FifoInv
  BY InitFifo, NextFifo, PTL DEF Spec

(* The words of the queue, the cells and the locals of both calls have      *)
(* their types; a position never wraps and no thread is where it cannot be. *)
THEOREM FifoTypes == Spec => []TypeOK
<1>1. FifoInv => TypeOK
  BY DEF FifoInv
<1> QED BY <1>1, FifoAlways, PTL

(* However many threads enqueue and dequeue, whatever the capacity: between *)
(* its compare-exchange and its stamp a call has its slot for itself, a     *)
(* dequeue only reads what has been written, and one slot stays free        *)
(* (`Slot::write` and `Slot::read` of fifo.rs).                             *)
THEOREM SlotsAreExclusive == Spec => []SlotsInv
<1>1. FifoInv => SlotsInv
  BY Exclusive DEF SlotsInv, FifoInv, ReadsWritten, Contents
<1> QED BY <1>1, FifoAlways, PTL

(* A failure is spurious only under contention: `Err` with tail unchanged   *)
(* since it was loaded means that every usable slot is taken, `None` with   *)
(* head unchanged that there is nothing (`_enqueue`, `_dequeue`).           *)
THEOREM FailuresAreReal == Spec => UncontendedFailureIsReal
<1>1. ASSUME FifoInv, NEW t \in Thread, EnqReturnErr(t), tail = pos[t]
      PROVE  tail - head = OneLap - 1
  <2>1. head \in Nat /\ tail \in Nat /\ OneLap \in Nat /\ head <= tail /\ tail - head <= OneLap - 1
    BY <1>1, FifoAssumption DEF FifoInv, TypeOK, OneSlotFree
  <2>2. Index(tail + 1) = Index(head)
    BY <1>1 DEF EnqReturnErr, LooksFull
  <2>3. ~(head < tail + 1 /\ tail + 1 < head + OneLap)
    BY <2>1, <2>2, OneLapApart
  <2> QED BY <2>1, <2>3
<1>2. ASSUME FifoInv, NEW t \in Thread, DeqReturnNone(t), head = pos[t]
      PROVE  tail = head
  <2>1. head \in Nat /\ tail \in Nat /\ OneLap \in Nat /\ head <= tail /\ tail - head <= OneLap - 1
    BY <1>2, FifoAssumption DEF FifoInv, TypeOK, OneSlotFree
  <2>2. Index(head) = Index(tail)
    BY <1>2 DEF DeqReturnNone, LooksEmpty
  <2>3. ~(head < tail /\ tail < head + OneLap)
    BY <2>1, <2>2, OneLapApart
  <2> QED BY <2>1, <2>3
<1>3. FifoInv /\ [Next]_vars =>
        [\A t \in Thread :
            /\ EnqReturnErr(t) /\ tail = pos[t] => tail - head = OneLap - 1
            /\ DeqReturnNone(t) /\ head = pos[t] => tail = head]_vars
  BY <1>1, <1>2
<1> QED BY <1>3, FifoAlways, PTL DEF Spec, UncontendedFailureIsReal

-----------------------------------------------------------------------------
(* The refinement of module FifoQueue *)

\* The element of a claimed position is the argument of the one that claims it.
IsElement(p) ==
    /\ \A t \in Thread : Claims(t, p) => ElementAt(p) = data[t]
    /\ (\A t \in Thread : ~Claims(t, p)) => ElementAt(p) = value[Index(p)]
    /\ head <= p /\ p < tail => ElementAt(p) \in Value

IsQueue ==
    /\ queueBar \in Seq(Value) /\ Len(queueBar) = tail - head
    /\ \A n \in 1 .. tail - head : queueBar[n] = ElementAt(head + n - 1)

LEMMA Elements == FifoInv => \A p \in Nat : IsElement(p)
<1> SUFFICES ASSUME FifoInv, NEW p \in Nat PROVE IsElement(p)
  OBVIOUS
<1>1. ASSUME NEW t \in Thread, Claims(t, p) PROVE ElementAt(p) = data[t] /\ data[t] \in Value
  <2>1. \A u \in Thread : Claims(u, p) => u = t
    BY <1>1 DEF FifoInv, OnePosition, Claims, Writes
  <2>2. (CHOOSE u \in Thread : Claims(u, p)) = t
    BY <1>1, <2>1
  <2> QED BY <1>1, <2>2 DEF ElementAt, FifoInv, Contents, EnqPC, Claims
<1>2. (\A t \in Thread : ~Claims(t, p)) => ElementAt(p) = value[Index(p)]
  BY DEF ElementAt
<1>3. head <= p /\ p < tail => ElementAt(p) \in Value
  BY <1>1, <1>2 DEF FifoInv, Filled
<1> QED BY <1>1, <1>2, <1>3 DEF IsElement

LEMMA Queue == FifoInv => IsQueue
<1> SUFFICES ASSUME FifoInv PROVE IsQueue
  OBVIOUS
<1>1. head \in Nat /\ tail \in Nat /\ tail - head \in Nat
  BY DEF FifoInv, TypeOK, OneSlotFree
<1>2. \A n \in 1 .. tail - head : ElementAt(head + n - 1) \in Value
  BY <1>1, Elements DEF IsElement
<1>3. queueBar \in [1 .. tail - head -> Value]
  BY <1>2 DEF queueBar
<1>4. queueBar \in Seq(Value)
  BY <1>1, <1>3
<1>5. Len(queueBar) = tail - head
  BY <1>1, <1>3, <1>4
<1> QED BY <1>4, <1>5 DEF queueBar, IsQueue

LEMMA PrimedQueue == FifoInv' => IsQueue' /\ \A p \in Nat : IsElement(p)'
<1>1. FifoInv' => IsQueue'
  BY Queue, PTL
<1>2. FifoInv' => (\A p \in Nat : IsElement(p))'
  BY Elements, PTL
<1> QED BY <1>1, <1>2

\* The queue stays as it is if its ends and its elements do.
LEMMA SameQueue ==
    ASSUME UNCHANGED <<head, tail>>, FifoInv,
           \A p \in Nat : head <= p /\ p < tail => ElementAt(p)' = ElementAt(p)
    PROVE  queueBar' = queueBar
<1>1. head \in Nat /\ tail \in Nat
  BY DEF FifoInv, TypeOK
<1>2. \A n \in 1 .. tail - head : ElementAt(head + n - 1)' = ElementAt(head + n - 1)
  BY <1>1
<1> QED BY <1>2 DEF queueBar

\* So it does if no claim, no argument of a claimer and no cell changes.
LEMMA SameElements ==
    ASSUME FifoInv, FifoInv', UNCHANGED <<head, tail, value>>,
           \A t \in Thread : Writes(t)' <=> Writes(t),
           \A t \in Thread : Writes(t) => pos'[t] = pos[t] /\ data'[t] = data[t]
    PROVE  queueBar' = queueBar
<1>1. ASSUME NEW p \in Nat PROVE ElementAt(p)' = ElementAt(p)
  <2>1. \A t \in Thread : Claims(t, p)' <=> Claims(t, p)
    BY DEF Claims, Writes
  <2>2. \A t \in Thread : Claims(t, p) => data'[t] = data[t]
    BY DEF Claims, Writes
  <2>3. IsElement(p) /\ IsElement(p)'
    BY <1>1, Elements, PrimedQueue
  <2> QED BY <2>1, <2>2, <2>3 DEF IsElement
<1> QED BY <1>1, SameQueue

\* What t has taken out of the queue and not returned.
Taken(t) == IF pc[t] = "d_read" THEN value[Index(pos[t])]
            ELSE IF pc[t] = "d_release" THEN data[t] ELSE NoValue

LEMMA TakenBars == takenBar = [t \in Thread |-> Taken(t)] /\ takenBar' = [t \in Thread |-> Taken(t)']
<1>1. takenBar = [t \in Thread |-> Taken(t)]
  BY DEF takenBar, Taken
<1>2. takenBar' = [t \in Thread |-> Taken(t)']
  BY DEF takenBar, Taken
<1> QED BY <1>1, <1>2

\* Steps that are in no slot change nothing that the queue's users see.
LEMMA LocalRefines ==
    ASSUME FifoInv, FifoInv', NEW t \in Thread, ~InSlot(t), ~InSlot(t)',
           NEW to, NEW v, NEW d,
           pc' = [pc EXCEPT ![t] = to], pos' = [pos EXCEPT ![t] = v], data' = [data EXCEPT ![t] = d],
           UNCHANGED <<head, tail, stamp, value>>
    PROVE  UNCHANGED <<queueBar, takenBar>>
<1>1. \A u \in Thread : u # t => pc'[u] = pc[u] /\ pos'[u] = pos[u] /\ data'[u] = data[u]
  BY DEF FifoInv, TypeOK
<1>2. queueBar' = queueBar
  <2>1. \A u \in Thread : Writes(u)' <=> Writes(u)
    BY <1>1 DEF InSlot, Writes
  <2>2. \A u \in Thread : Writes(u) => pos'[u] = pos[u] /\ data'[u] = data[u]
    BY <1>1 DEF InSlot, Writes
  <2> QED BY <2>1, <2>2, SameElements
<1>3. takenBar' = takenBar
  <2>1. \A u \in Thread : Taken(u)' = Taken(u)
    BY <1>1 DEF InSlot, Taken
  <2> QED BY <2>1, TakenBars
<1> QED BY <1>2, <1>3

LEMMA WriteValueRefines ==
    ASSUME FifoInv, FifoInv', NEW t \in Thread, EnqWriteValue(t)
    PROVE  UNCHANGED <<queueBar, takenBar>>
<1>0. /\ TypeOK /\ OneSlotFree /\ OneLap \in Nat /\ \A u \in Thread : InLap(u)
  BY FifoAssumption DEF FifoInv
<1>1. /\ pc[t] = "e_value" /\ pc' = [pc EXCEPT ![t] = "e_publish"]
      /\ value' = [value EXCEPT ![Index(pos[t])] = data[t]]
      /\ UNCHANGED <<head, tail, stamp, pos, data, calls>>
  BY DEF EnqWriteValue, Goto
<1>2. \A i \in Slots : i # Index(pos[t]) => value'[i] = value[i]
  BY <1>0, <1>1 DEF TypeOK
<1>3. ASSUME NEW p \in Nat, head <= p, p < tail PROVE ElementAt(p)' = ElementAt(p)
  <2>1. IsElement(p) /\ IsElement(p)'
    BY <1>3, Elements, PrimedQueue
  <2>2. \A u \in Thread : Claims(u, p)' <=> Claims(u, p)
    BY <1>0, <1>1 DEF Claims, TypeOK
  <2>3. ASSUME NEW u \in Thread, Claims(u, p) PROVE ElementAt(p)' = ElementAt(p)
    BY <1>1, <2>1, <2>2, <2>3 DEF IsElement
  <2>4. ASSUME \A u \in Thread : ~Claims(u, p) PROVE ElementAt(p)' = ElementAt(p)
    <3>1. p # pos[t] /\ head <= pos[t] /\ pos[t] < tail
      BY <1>0, <1>1, <2>4 DEF Claims, InLap, Writes
    <3>2. Index(p) # Index(pos[t])
      BY <1>0, <1>3, <3>1, OneLapApart DEF OneSlotFree, TypeOK
    <3> QED BY <1>2, <1>3, <2>1, <2>2, <2>4, <3>2, IndexInSlots DEF IsElement
  <2> QED BY <2>3, <2>4
<1>4. queueBar' = queueBar
  BY <1>1, <1>3, SameQueue
<1>5. ASSUME NEW u \in Thread PROVE Taken(u)' = Taken(u)
  <2>1. pc[u] = "d_read" => Index(pos[u]) # Index(pos[t])
    BY <1>1, Exclusive DEF SlotExclusive, InSlot
  <2> QED BY <1>0, <1>1, <1>2, <2>1, IndexInSlots DEF Taken, TypeOK
<1> QED BY <1>4, <1>5, TakenBars

LEMMA PublishRefines ==
    ASSUME FifoInv, FifoInv', NEW t \in Thread, EnqWriteStamp(t)
    PROVE  UNCHANGED <<queueBar, takenBar>>
<1>0. TypeOK /\ OnePosition /\ Contents(t)
  BY DEF FifoInv
<1>1. /\ pc[t] = "e_publish" /\ pc' = [pc EXCEPT ![t] = "idle"]
      /\ pos' = [pos EXCEPT ![t] = 0] /\ data' = [data EXCEPT ![t] = NoValue]
      /\ UNCHANGED <<head, tail, value>>
  BY DEF EnqWriteStamp, Return, Goto
<1>2. \A u \in Thread : u # t => pc'[u] = pc[u] /\ pos'[u] = pos[u] /\ data'[u] = data[u]
  BY <1>0, <1>1 DEF TypeOK
<1>3. ASSUME NEW p \in Nat PROVE ElementAt(p)' = ElementAt(p)
  <2>1. IsElement(p) /\ IsElement(p)'
    BY <1>3, Elements, PrimedQueue
  <2>2. \A u \in Thread : u # t => (Claims(u, p)' <=> Claims(u, p))
    BY <1>2 DEF Claims
  <2>3. ~Claims(t, p)'
    BY <1>0, <1>1 DEF Claims, TypeOK
  \* What was in its hand is in the cell now.
  <2>4. ASSUME Claims(t, p) PROVE ElementAt(p)' = ElementAt(p)
    <3>1. \A u \in Thread : ~Claims(u, p)'
      BY <1>0, <2>2, <2>3, <2>4 DEF OnePosition, Claims, Writes
    <3>2. value[Index(p)] = data[t]
      BY <1>0, <1>1, <2>4 DEF Contents, Claims
    <3> QED BY <1>1, <2>1, <2>4, <3>1, <3>2 DEF IsElement
  <2>5. ASSUME ~Claims(t, p) PROVE ElementAt(p)' = ElementAt(p)
    <3>1. \A u \in Thread : Claims(u, p) => data'[u] = data[u] /\ Claims(u, p)'
      BY <1>2, <2>2, <2>5
    <3> QED BY <1>1, <2>1, <2>2, <2>3, <2>5, <3>1 DEF IsElement
  <2> QED BY <2>4, <2>5
<1>4. queueBar' = queueBar
  BY <1>1, <1>3, SameQueue
<1>5. \A u \in Thread : Taken(u)' = Taken(u)
  BY <1>0, <1>1, <1>2 DEF Taken, TypeOK
<1> QED BY <1>4, <1>5, TakenBars

LEMMA ReadRefines ==
    ASSUME FifoInv, FifoInv', NEW t \in Thread, DeqRead(t)
    PROVE  UNCHANGED <<queueBar, takenBar>>
<1>0. TypeOK
  BY DEF FifoInv
<1>1. /\ pc[t] = "d_read" /\ pc' = [pc EXCEPT ![t] = "d_release"]
      /\ data' = [data EXCEPT ![t] = value[Index(pos[t])]]
      /\ UNCHANGED <<head, tail, stamp, value, pos>>
  BY DEF DeqRead, Goto
<1>2. /\ \A u \in Thread : Writes(u)' <=> Writes(u)
      /\ \A u \in Thread : Writes(u) => pos'[u] = pos[u] /\ data'[u] = data[u]
  BY <1>0, <1>1 DEF Writes, TypeOK
<1>3. queueBar' = queueBar
  BY <1>1, <1>2, SameElements
<1>4. \A u \in Thread : Taken(u)' = Taken(u)
  BY <1>0, <1>1 DEF Taken, TypeOK
<1> QED BY <1>3, <1>4, TakenBars

\* The compare-exchange of tail is the enqueue.
LEMMA ClaimRefines ==
    ASSUME FifoInv, FifoInv', NEW t \in Thread, EnqCas(t), tail = pos[t]
    PROVE  Abstract!Put(data[t])
<1>0. /\ TypeOK /\ OneSlotFree /\ OneLap \in Nat
      /\ \A u \in Thread : EnqSeen(u) /\ InLap(u) /\ Contents(u)
  BY FifoAssumption DEF FifoInv
<1>1. /\ pc[t] = "e_cas" /\ pc' = [pc EXCEPT ![t] = "e_value"] /\ tail' = tail + 1
      /\ UNCHANGED <<head, stamp, value, pos, data, calls>>
  BY DEF EnqCas, Goto
<1>2. head \in Nat /\ tail \in Nat /\ head <= tail /\ tail + 2 <= head + OneLap /\ data[t] \in Value
  BY <1>0, <1>1 DEF EnqSeen, OneSlotFree, TypeOK, Contents, EnqPC
<1>3. IsQueue /\ IsQueue' /\ \A p \in Nat : IsElement(p) /\ IsElement(p)'
  BY Queue, Elements, PrimedQueue
<1>4. Len(queueBar) < OneLap - 1
  BY <1>0, <1>2, <1>3 DEF IsQueue
<1>5. ASSUME NEW p \in Nat, p = tail PROVE ElementAt(p)' = data[t]
  <2>1. Claims(t, p)'
    BY <1>0, <1>1, <1>5 DEF Claims, TypeOK
  <2> QED BY <1>1, <1>3, <2>1 DEF IsElement
<1>6. ASSUME NEW p \in Nat, p < tail PROVE ElementAt(p)' = ElementAt(p)
  <2>1. \A u \in Thread : Claims(u, p)' <=> Claims(u, p)
    BY <1>0, <1>1, <1>2, <1>6 DEF Claims, TypeOK
  <2> QED BY <1>1, <1>3, <2>1 DEF IsElement
<1>7. queueBar' = Append(queueBar, data[t])
  <2> DEFINE q == Append(queueBar, data[t])
  <2>0. /\ queueBar \in Seq(Value) /\ queueBar' \in Seq(Value)
        /\ Len(queueBar) = tail - head /\ Len(queueBar') = tail + 1 - head
    <3>1. queueBar \in Seq(Value) /\ Len(queueBar) = tail - head
      BY <1>3 DEF IsQueue
    <3>2. queueBar' \in Seq(Value) /\ Len(queueBar') = tail' - head'
      BY <1>3 DEF IsQueue
    <3>3. tail' - head' = tail + 1 - head
      BY <1>1, <1>2
    <3> QED BY <3>1, <3>2, <3>3
  <2>1. /\ q \in Seq(Value) /\ Len(q) = tail + 1 - head
        /\ \A n \in 1 .. tail + 1 - head : q[n] = IF n <= tail - head THEN queueBar[n] ELSE data[t]
    BY <1>2, <2>0, AppendProperties
  <2> HIDE DEF q
  <2>2. ASSUME NEW n \in 1 .. tail + 1 - head PROVE queueBar'[n] = q[n]
    <3>0. PICK p \in Nat : p = head + n - 1
      BY <1>2, <2>2
    <3>1. queueBar'[n] = ElementAt(p)'
      <4>1. n \in 1 .. tail' - head' /\ p = head' + n - 1
        BY <1>1, <1>2, <2>2, <3>0
      <4> QED BY <1>3, <4>1 DEF IsQueue
    <3>2. CASE n = tail + 1 - head
      <4>1. q[n] = data[t]
        BY <1>2, <2>1, <2>2, <3>2
      <4> QED BY <1>2, <1>5, <3>0, <3>1, <3>2, <4>1
    <3>3. CASE n < tail + 1 - head
      <4>1. queueBar[n] = ElementAt(p)
        <5>1. n \in 1 .. tail - head /\ p = head + n - 1
          BY <1>2, <2>2, <3>0, <3>3
        <5>2. \A m \in 1 .. tail - head : queueBar[m] = ElementAt(head + m - 1)
          BY <1>3 DEF IsQueue
        <5> QED BY <5>1, <5>2
      <4>2. q[n] = queueBar[n]
        BY <1>2, <2>1, <2>2, <3>3
      <4> QED BY <1>2, <1>6, <2>2, <3>0, <3>1, <3>3, <4>1, <4>2
    <3> QED BY <1>2, <2>2, <3>2, <3>3
  <2>3. queueBar' = q
    BY <2>0, <2>1, <2>2, SeqEqual
  <2> QED BY <2>3 DEF q
<1>8. \A u \in Thread : Taken(u)' = Taken(u)
  BY <1>0, <1>1 DEF Taken, TypeOK
<1> QED BY <1>4, <1>7, <1>8, TakenBars DEF Abstract!Put

\* The compare-exchange of head is the dequeue.
LEMMA TakeRefines ==
    ASSUME FifoInv, FifoInv', NEW t \in Thread, DeqCas(t), head = pos[t]
    PROVE  Abstract!Take(t)
<1>0. /\ TypeOK /\ OneSlotFree /\ OneLap \in Nat
      /\ \A u \in Thread : DeqSeen(u) /\ InLap(u) /\ Contents(u)
  BY FifoAssumption DEF FifoInv
<1>1. /\ pc[t] = "d_cas" /\ pc' = [pc EXCEPT ![t] = "d_read"] /\ head' = head + 1
      /\ UNCHANGED <<tail, stamp, value, pos, data, calls>>
  BY DEF DeqCas, Goto
<1>2. head \in Nat /\ tail \in Nat /\ head < tail /\ stamp[Index(head)] = head + 1
  BY <1>0, <1>1 DEF DeqSeen, TypeOK
<1>3. IsQueue /\ IsQueue' /\ \A p \in Nat : IsElement(p) /\ IsElement(p)'
  BY Queue, Elements, PrimedQueue
<1>4. queueBar # <<>>
  BY <1>2, <1>3 DEF IsQueue
<1>5. ElementAt(head) = value[Index(head)]
  <2>1. \A u \in Thread : ~Claims(u, head)
    BY <1>0, <1>2 DEF Claims, InLap, Writes, TypeOK
  <2> QED BY <1>2, <1>3, <2>1 DEF IsElement
<1>6. ASSUME NEW p \in Nat PROVE ElementAt(p)' = ElementAt(p)
  <2>1. \A u \in Thread : Claims(u, p)' <=> Claims(u, p)
    BY <1>0, <1>1 DEF Claims, TypeOK
  <2> QED BY <1>1, <1>3, <2>1 DEF IsElement
<1>7. queueBar' = Tail(queueBar)
  <2>1. /\ queueBar \in Seq(Value) /\ queueBar' \in Seq(Value)
        /\ Len(queueBar) = tail - head /\ Len(queueBar') = tail - head - 1
    BY <1>1, <1>2, <1>3 DEF IsQueue
  <2>2. /\ Tail(queueBar) \in Seq(Value) /\ Len(Tail(queueBar)) = tail - head - 1
        /\ \A n \in 1 .. tail - head - 1 : Tail(queueBar)[n] = queueBar[n + 1]
    BY <1>2, <1>4, <2>1, HeadTailProperties
  <2>3. ASSUME NEW n \in 1 .. tail - head - 1 PROVE queueBar'[n] = Tail(queueBar)[n]
    <3>0. PICK p \in Nat : p = head + n
      BY <1>2, <2>3
    <3>1. queueBar'[n] = ElementAt(p)'
      <4>1. n \in 1 .. tail' - head' /\ p = head' + n - 1
        BY <1>1, <1>2, <2>3, <3>0
      <4> QED BY <1>3, <4>1 DEF IsQueue
    <3>2. queueBar[n + 1] = ElementAt(p)
      <4>1. n + 1 \in 1 .. tail - head /\ p = head + (n + 1) - 1
        BY <1>2, <2>3, <3>0
      <4> QED BY <1>3, <4>1 DEF IsQueue
    <3> QED BY <1>6, <2>2, <2>3, <3>1, <3>2
  <2> QED BY <1>2, <2>1, <2>2, <2>3, SeqEqual
<1>8. Head(queueBar) = value[Index(pos[t])]
  BY <1>2, <1>3, <1>4, <1>5 DEF IsQueue
<1>9. Taken(t) = NoValue /\ Taken(t)' = value[Index(pos[t])] /\ \A u \in Thread : u # t => Taken(u)' = Taken(u)
  BY <1>0, <1>1 DEF Taken, TypeOK
<1>10. takenBar' = [takenBar EXCEPT ![t] = Head(queueBar)] /\ takenBar[t] = NoValue
  BY <1>8, <1>9, TakenBars
<1> QED BY <1>4, <1>7, <1>10 DEF Abstract!Take

\* The slot is given back as the element is handed to the caller.
LEMMA ReleaseRefines ==
    ASSUME FifoInv, FifoInv', NEW t \in Thread, DeqWriteStamp(t)
    PROVE  Abstract!Deliver(t)
<1>0. TypeOK /\ Contents(t)
  BY DEF FifoInv
<1>1. /\ pc[t] = "d_release" /\ pc' = [pc EXCEPT ![t] = "idle"]
      /\ pos' = [pos EXCEPT ![t] = 0] /\ data' = [data EXCEPT ![t] = NoValue]
      /\ UNCHANGED <<head, tail, value>>
  BY DEF DeqWriteStamp, Return, Goto
<1>2. /\ \A u \in Thread : Writes(u)' <=> Writes(u)
      /\ \A u \in Thread : Writes(u) => pos'[u] = pos[u] /\ data'[u] = data[u]
  BY <1>0, <1>1 DEF Writes, TypeOK
<1>3. queueBar' = queueBar
  BY <1>1, <1>2, SameElements
<1>4. Taken(t) # NoValue /\ Taken(t)' = NoValue /\ \A u \in Thread : u # t => Taken(u)' = Taken(u)
  BY <1>0, <1>1, FifoAssumption DEF Taken, TypeOK, Contents
<1>5. takenBar' = [takenBar EXCEPT ![t] = NoValue] /\ takenBar[t] # NoValue
  BY <1>4, TakenBars
<1> QED BY <1>3, <1>5 DEF Abstract!Deliver

LEMMA NextRefines ==
    FifoInv /\ FifoInv' /\ [Next]_vars => [Abstract!Next]_<<queueBar, takenBar>>
<1> SUFFICES ASSUME FifoInv, FifoInv', [Next]_vars
             PROVE  [Abstract!Next]_<<queueBar, takenBar>>
  OBVIOUS
<1> USE DEF Goto, Return
<1>0. TypeOK
  BY DEF FifoInv
<1>1. ASSUME NEW t \in Thread, NEW v \in Value, CallEnqueue(t, v) PROVE UNCHANGED <<queueBar, takenBar>>
  <2>1. pos' = [pos EXCEPT ![t] = pos[t]]
    BY <1>0, <1>1 DEF CallEnqueue, TypeOK
  <2>2. ~InSlot(t) /\ ~InSlot(t)'
    BY <1>0, <1>1 DEF CallEnqueue, InSlot, TypeOK
  <2>3. /\ pc' = [pc EXCEPT ![t] = "e_tail"] /\ data' = [data EXCEPT ![t] = v]
        /\ UNCHANGED <<head, tail, stamp, value>>
    BY <1>1 DEF CallEnqueue
  <2> QED BY <2>1, <2>2, <2>3, LocalRefines
<1>2. ASSUME NEW t \in Thread,
             \/ CallDequeue(t) \/ EnqNotFull(t) \/ EnqLoadStamp(t) \/ (EnqCas(t) /\ tail # pos[t])
             \/ DeqNotEmpty(t) \/ DeqLoadStamp(t) \/ (DeqCas(t) /\ head # pos[t])
      PROVE  UNCHANGED <<queueBar, takenBar>>
  <2>1. PICK to : pc' = [pc EXCEPT ![t] = to] /\ to \notin {"e_value", "e_publish", "d_read", "d_release"}
    BY <1>2 DEF CallDequeue, EnqNotFull, EnqLoadStamp, EnqCas, DeqNotEmpty, DeqLoadStamp, DeqCas
  <2>2. UNCHANGED <<head, tail, stamp, value, pos, data>>
    BY <1>2 DEF CallDequeue, EnqNotFull, EnqLoadStamp, EnqCas, DeqNotEmpty, DeqLoadStamp, DeqCas
  <2>3. pos' = [pos EXCEPT ![t] = pos[t]] /\ data' = [data EXCEPT ![t] = data[t]]
    BY <1>0, <2>2 DEF TypeOK
  <2>4. ~InSlot(t)
    BY <1>2 DEF InSlot, CallDequeue, EnqNotFull, EnqLoadStamp, EnqCas, DeqNotEmpty, DeqLoadStamp, DeqCas
  <2>5. ~InSlot(t)'
    BY <1>0, <2>1 DEF InSlot, TypeOK
  <2>6. UNCHANGED <<head, tail, stamp, value>>
    BY <2>2
  <2> QED BY <2>1, <2>3, <2>4, <2>5, <2>6, LocalRefines
<1>3. ASSUME NEW t \in Thread,
             EnqLoadTail(t) \/ DeqLoadHead(t) \/ EnqReturnErr(t) \/ DeqReturnNone(t)
      PROVE  UNCHANGED <<queueBar, takenBar>>
  <2>1. PICK to, v, d : /\ pc' = [pc EXCEPT ![t] = to] /\ to \in {"e_head", "d_tail", "idle"}
                        /\ pos' = [pos EXCEPT ![t] = v] /\ data' = [data EXCEPT ![t] = d]
    <3>1. CASE EnqLoadTail(t) \/ DeqLoadHead(t)
      <4>1. data' = [data EXCEPT ![t] = data[t]]
        BY <1>0, <3>1 DEF EnqLoadTail, DeqLoadHead, TypeOK
      <4> QED BY <3>1, <4>1 DEF EnqLoadTail, DeqLoadHead
    <3>2. CASE EnqReturnErr(t) \/ DeqReturnNone(t)
      BY <3>2 DEF EnqReturnErr, DeqReturnNone
    <3> QED BY <1>3, <3>1, <3>2
  <2>2. UNCHANGED <<head, tail, stamp, value>>
    BY <1>3 DEF EnqLoadTail, DeqLoadHead, EnqReturnErr, DeqReturnNone
  <2>3. ~InSlot(t)
    BY <1>3 DEF InSlot, EnqLoadTail, DeqLoadHead, EnqReturnErr, DeqReturnNone
  <2>4. ~InSlot(t)'
    BY <1>0, <2>1 DEF InSlot, TypeOK
  <2> QED BY <2>1, <2>2, <2>3, <2>4, LocalRefines
<1>4. ASSUME NEW t \in Thread, EnqCas(t), tail = pos[t] PROVE Abstract!Next
  <2>1. data[t] \in Value
    BY <1>4 DEF FifoInv, Contents, EnqPC, EnqCas
  <2> QED BY <1>4, <2>1, ClaimRefines DEF Abstract!Next
<1>5. ASSUME NEW t \in Thread, DeqCas(t), head = pos[t] PROVE Abstract!Next
  BY <1>5, TakeRefines DEF Abstract!Next
<1>6. ASSUME NEW t \in Thread, DeqWriteStamp(t) PROVE Abstract!Next
  BY <1>6, ReleaseRefines DEF Abstract!Next
<1>7. ASSUME NEW t \in Thread, EnqStep(t) PROVE [Abstract!Next]_<<queueBar, takenBar>>
  BY <1>2, <1>3, <1>4, <1>7, WriteValueRefines, PublishRefines DEF EnqStep
<1>8. ASSUME NEW t \in Thread, DeqStep(t) PROVE [Abstract!Next]_<<queueBar, takenBar>>
  BY <1>2, <1>3, <1>5, <1>6, <1>8, ReadRefines DEF DeqStep
<1>9. CASE UNCHANGED vars
  BY <1>9 DEF vars, queueBar, takenBar, ElementAt, Claims
<1> QED BY <1>1, <1>2, <1>7, <1>8, <1>9 DEF Next, Step

(* The ring buffer is a first-in first-out queue: for any number of threads *)
(* and slots, what its compare-exchanges and stamps do maps, step by step,  *)
(* to atomic enqueues and dequeues of one sequence.  Nothing is lost,       *)
(* handed out twice or reordered (`_enqueue` and `_dequeue` of fifo.rs).    *)
THEOREM RingIsFifo == Spec => ImplementsFifo
<1>1. Init => Abstract!Init
  <2> SUFFICES ASSUME Init PROVE Abstract!Init
    OBVIOUS
  <2>1. FifoInv /\ head = 0 /\ tail = 0
    BY InitFifo DEF Init
  <2>2. queueBar = <<>>
    BY <2>1, Queue DEF IsQueue
  <2>3. takenBar = [t \in Thread |-> NoValue]
    BY DEF takenBar, Init
  <2> QED BY <2>2, <2>3 DEF Abstract!Init
<1> QED BY <1>1, NextRefines, FifoAlways, PTL DEF Spec, ImplementsFifo, Abstract!Spec

-----------------------------------------------------------------------------
(***************************************************************************)
(* The audio driver for any codec, any number of blocks and any plan of a  *)
(* program.                                                                *)
(*                                                                         *)
(* One command is on its way at a time: it is written, with the codec, or  *)
(* carried out with its response there (ChannelInv).  What is still to be  *)
(* answered says what the driver knows (DriverInv): while the widgets are  *)
(* read, what it has of a list begins that list, and the rest is asked for *)
(* once the widget is new; later, every verb that the path needs has been  *)
(* carried out or is still to be.  So when nothing is left the lists are   *)
(* whole, and then the path is set up.                                     *)
(*                                                                         *)
(* The blocks that have not been played are the last that were written, by *)
(* their age behind the position (BlocksInv).                              *)
(***************************************************************************)

\* What reads the widgets, and what sets them.
ReadVerbs == {"nodes", "caps", "config", "out_amp", "in_amp", "length", "entry"}
SetVerbs == {"pin", "eapd", "amp", "power", "format", "stream", "volume"}
AuCmds == [verb : ReadVerbs \cup SetVerbs \cup {"none"}, nid : Nat, arg : Nat]
AuPlaces == 0..(RingLen - 1)
AuSlots == 0..(AuBlocks - 1)

AuTypes ==
    /\ auCodec \in AuCodecs /\ auImmediate \in BOOLEAN
    /\ auCh \in [wp : AuPlaces, rp : AuPlaces, rwp : AuPlaces, rd : AuPlaces, busy : BOOLEAN, valid : BOOLEAN,
                 hand : AuCmds, corb : [AuPlaces -> AuCmds], rirb : [AuPlaces -> AuCmds]]
    /\ auRun \in [stage : {"enumerate", "setup", "play"}, pc : {"issue", "await", "write", "copy"},
                  todo : Seq(AuCmds), cmd : AuCmds, notes : SUBSET Nat]

\* The commands that have still to be answered, in the order of the answers.
Unanswered == IF auRun.pc = "await" THEN <<auRun.cmd>> \o auRun.todo ELSE auRun.todo

\* Where the only command on its way is: nowhere, ...
ChannelIdle ==
    /\ auCh.hand = NoAuCmd
    /\ IF auImmediate THEN ~auCh.busy /\ ~auCh.valid ELSE auCh.wp = auCh.rp /\ auCh.rwp = auCh.rd

\* ... written and not yet taken, ...
ChannelAsked(c) ==
    /\ auCh.hand = NoAuCmd
    /\ IF auImmediate THEN auCh.busy /\ ~auCh.valid /\ auCh.corb[0] = c
       ELSE auCh.wp = Following(auCh.rp) /\ auCh.corb[auCh.wp] = c /\ auCh.rwp = auCh.rd

\* ... with the codec, ...
ChannelBusy(c) ==
    /\ auCh.hand = c
    /\ IF auImmediate THEN auCh.busy /\ ~auCh.valid ELSE auCh.wp = auCh.rp /\ auCh.rwp = auCh.rd

\* ... or carried out, with the response there.
ChannelAnswered(c) ==
    /\ auCh.hand = NoAuCmd /\ <<c.verb, c.nid>> \in auSet
    /\ IF auImmediate THEN ~auCh.busy /\ auCh.valid /\ auCh.rirb[0] = c
       ELSE auCh.wp = auCh.rp /\ auCh.rwp = Following(auCh.rd) /\ auCh.rirb[auCh.rwp] = c

ChannelInv ==
    /\ auFit
    /\ IF auRun.pc = "await"
       THEN ChannelAsked(auRun.cmd) \/ ChannelBusy(auRun.cmd) \/ ChannelAnswered(auRun.cmd)
       ELSE ChannelIdle

-----------------------------------------------------------------------------
(* The widgets, as they are read *)

SeenTypes(codec, seen) ==
    /\ DOMAIN seen \subseteq DOMAIN codec.widgets
    /\ seen = [n \in DOMAIN seen |-> seen[n]]
    /\ \A n \in DOMAIN seen :
         /\ seen[n] = [type |-> seen[n].type, pin |-> seen[n].pin, conns |-> seen[n].conns]
         /\ seen[n].conns \in Seq(Nat)

AsksList(c, n) == c.nid = n /\ c.verb \in {"length", "entry"}

\* The list of n is not asked for by the commands from i to before k.
NotAsked(due, i, k, n) == \A j \in i..(k - 1) : ~AsksList(due[j], n)

\* When the length is asked for, nothing has been read of the list: the widget
\* is new, or will be.
ListIsNew(seen, due, k) ==
    \/ /\ due[k].nid \in DOMAIN seen /\ seen[due[k].nid].conns = <<>>
       /\ NotAsked(due, 1, k, due[k].nid)
    \/ \E j \in 1..(k - 1) : /\ due[j].verb = "caps" /\ due[j].nid = due[k].nid
                             /\ NotAsked(due, j, k, due[k].nid)

\* The commands are for nodes that there are.
ReadsNodes(codec, due) ==
    \A k \in 1..Len(due) : /\ due[k].verb \in ReadVerbs
                           /\ due[k].verb = "nodes" => due[k].nid \in {0} \cup DOMAIN codec.below
                           /\ due[k].verb # "nodes" => due[k].nid \in DOMAIN codec.widgets

\* What is asked for a widget comes before other nodes, and entries at once.
ReadsInOrder(due) ==
    \A j, k \in 1..Len(due) : j < k => /\ due[k].verb # "entry"
                                       /\ due[j].verb = "nodes" => due[k].verb = "nodes"

EntryNext(seen, due) ==
    Len(due) > 0 /\ due[1].verb = "entry" =>
        due[1].nid \in DOMAIN seen /\ due[1].arg = Len(seen[due[1].nid].conns)

ListsNew(seen, due) ==
    /\ \A k \in 1..Len(due) : due[k].verb = "length" => ListIsNew(seen, due, k)
    /\ \A j \in 1..Len(due) : due[j].verb = "caps" =>
         \E k \in (j + 1)..Len(due) : due[k].verb = "length" /\ due[k].nid = due[j].nid

\* What has been read of a list begins it, and the rest will be.
BeginsList(codec, conns, n) ==
    /\ Len(conns) <= Len(codec.widgets[n].conns)
    /\ \A k \in 1..Len(conns) : conns[k] = codec.widgets[n].conns[k]
WillBeRead(codec, seen, due, n) ==
    /\ BeginsList(codec, seen[n].conns, n)
    /\ \/ Len(seen[n].conns) = Len(codec.widgets[n].conns)
       \/ \E k \in 1..Len(due) : AsksList(due[k], n)

ReadsInv(codec, seen, due) ==
    /\ ReadsNodes(codec, due) /\ ReadsInOrder(due) /\ EntryNext(seen, due) /\ ListsNew(seen, due)
    /\ \A n \in DOMAIN seen : WillBeRead(codec, seen, due, n)

-----------------------------------------------------------------------------
(* The path, as it is set up *)

ListsRead(codec, seen) == \A n \in DOMAIN seen : seen[n].conns = codec.widgets[n].conns
PathFound(seen, path) ==
    /\ path \in Seq(DOMAIN seen) /\ path # <<>>
    /\ \A k \in 1..(Len(path) - 1) : path[k] = Head(seen[path[k + 1]].conns)
    /\ seen[path[1]].type = "output" /\ seen[path[Len(path)]].type = "pin"

\* The verb has been carried out, or will be.
WillBeSet(set, due, v, n) == <<v, n>> \in set \/ \E k \in 1..Len(due) : due[k].verb = v /\ due[k].nid = n
PathWillBeSet(path, set, due) ==
    /\ \A v \in {"amp", "power"}, k \in 1..Len(path) : WillBeSet(set, due, v, path[k])
    /\ WillBeSet(set, due, "stream", path[1])
SetupInv(codec, seen, path, set, due) ==
    /\ ListsRead(codec, seen) /\ PathFound(seen, path) /\ PathWillBeSet(path, set, due)
    /\ \A k \in 1..Len(due) : due[k].verb \in SetVerbs

DriverInv ==
    /\ SeenTypes(auCodec, auSeen)
    /\ auRun.stage = "enumerate" => ReadsInv(auCodec, auSeen, Unanswered)
    /\ auRun.stage # "enumerate" => SetupInv(auCodec, auSeen, auPath, auSet, Unanswered)
    /\ auRun.stage = "play" => \A k \in 1..Len(Unanswered) : Unanswered[k].verb = "volume"
    /\ auRun.pc \in {"write", "copy"} => auRun.todo = <<>> /\ auRun.stage = "play"
    /\ auPlays # -1 <=> auRun.stage = "play"

-----------------------------------------------------------------------------
(* The blocks *)

\* The block that is written next, and the last that was.
Cursor == IF auRun.pc = "copy" THEN Written ELSE auPos
LastBlock == IF auRun.pc \in {"write", "copy"} THEN auSeq - 1 ELSE auSeq

\* How many blocks have been written after b.
Age(b) == IF b < Cursor THEN Cursor - 1 - b ELSE Cursor - 1 - b + AuBlocks

StreamTypes ==
    /\ auPos \in AuSlots /\ auPlays \in {-1} \cup AuSlots /\ auSeq \in Nat /\ auHeard \in Nat /\ auTorn \in BOOLEAN
    /\ auBuf \in [AuSlots -> [seq : Nat, notes : SUBSET Nat, fresh : BOOLEAN]]
    /\ LastBlock \in Nat

\* The blocks that were not yet played are the last that were written.
BlocksInv ==
    /\ auHeard <= LastBlock /\ LastBlock - auHeard < AuBlocks
    /\ \A b \in AuSlots : /\ auBuf[b].fresh <=> Age(b) < LastBlock - auHeard
                          /\ auBuf[b].fresh => auBuf[b].seq = LastBlock - Age(b)
    /\ IF auPlays = -1 THEN LastBlock = auHeard ELSE ~auBuf[auPlays].fresh
    /\ auRun.pc = "copy" => Written # auPlays

StreamInv == StreamTypes /\ (~auTorn => BlocksInv)

-----------------------------------------------------------------------------
(* Notes *)

NotesInv ==
    /\ auApp = [plan |-> auApp.plan, do |-> auApp.do] /\ auApp.plan \in Seq({"beep", "quiet", "drop"})
    /\ auHandles \in Seq(Nat) /\ auHandle \in Nat /\ auNote \in Nat
    /\ auEmitters \subseteq {auNote} /\ auEmitters \subseteq Range(auHandles)
    /\ \/ auApp.do = <<>> /\ (auCtx = "dropped" => auHandles = <<>>)
       \/ auCtx = "live" /\ auApp.do \in {BeepSteps, <<"stop">>}
       \/ auCtx = "live" /\ auApp.do = <<"push", "insert">> /\ auEmitters = {}
       \/ auCtx = "live" /\ auApp.do = <<"insert">> /\ auEmitters = {} /\ auHandle \in Range(auHandles)
       \/ auCtx = "dropped" /\ auApp.do = [k \in 1..Len(auHandles) |-> "remove"]

AuI == AuTypes /\ ChannelInv /\ DriverInv /\ StreamInv /\ NotesInv

-----------------------------------------------------------------------------
\* Each call of a program, and each of its steps, keeps NotesInv.
LEMMA NotesCall ==
    ASSUME NotesInv, AppCall
    PROVE  NotesInv'
<1> DEFINE c == Head(auApp.plan)
<1>1. c \in {"beep", "quiet", "drop"} /\ Tail(auApp.plan) \in Seq({"beep", "quiet", "drop"})
  BY DEF NotesInv, AppCall
<1>2. UNCHANGED <<auHandles, auEmitters, auNote, auHandle>>
  BY DEF AppCall
<1>3. CASE c = "beep"
  <2>1. auApp' = [plan |-> Tail(auApp.plan), do |-> BeepSteps] /\ auCtx' = "live"
    BY <1>3 DEF AppCall
  <2> QED BY <1>1, <1>2, <2>1 DEF NotesInv
<1>4. CASE c = "quiet"
  <2>1. auApp' = [plan |-> Tail(auApp.plan), do |-> <<"stop">>] /\ auCtx' = "live"
    BY <1>4 DEF AppCall
  <2> QED BY <1>1, <1>2, <2>1 DEF NotesInv
<1>5. CASE c = "drop"
  <2>1. auApp' = [plan |-> Tail(auApp.plan), do |-> [k \in 1..Len(auHandles) |-> "remove"]] /\ auCtx' = "dropped"
    BY <1>5 DEF AppCall
  <2> QED BY <1>1, <1>2, <2>1 DEF NotesInv
<1> QED BY <1>1, <1>3, <1>4, <1>5

\* Each step of a call keeps NotesInv: a note stops before the next is entered
\* into the context, and it is there before it is heard.
LEMMA NotesDone ==
    ASSUME NotesInv, AppStep
    PROVE  NotesInv'
<1> DEFINE do == auApp.do
<1>1. /\ auApp' = [plan |-> auApp.plan, do |-> Tail(do)] /\ do # <<>> /\ auCtx' = auCtx
      /\ auApp.plan \in Seq({"beep", "quiet", "drop"})
  BY DEF NotesInv, AppStep
<1>2. CASE auCtx = "live" /\ do \in {BeepSteps, <<"stop">>}
  <2>1. Head(do) = "stop" /\ Tail(do) \in {<<"push", "insert">>, <<>>}
    <3>1. Head(BeepSteps) = "stop" /\ Tail(BeepSteps) = <<"push", "insert">>
      BY DEF BeepSteps
    <3>2. Head(<<"stop">>) = "stop" /\ Tail(<<"stop">>) = <<>>
      OBVIOUS
    <3> QED BY <1>2, <3>1, <3>2
  <2>2. auEmitters' = auEmitters \ {auNote} /\ auNote' = 0 /\ UNCHANGED <<auHandles, auHandle>>
    BY <2>1 DEF AppStep
  <2>3. auEmitters' = {}
    BY <2>2 DEF NotesInv
  <2> QED BY <1>1, <1>2, <2>1, <2>2, <2>3 DEF NotesInv
<1>3. CASE auCtx = "live" /\ do = <<"push", "insert">> /\ auEmitters = {}
  <2>1. Head(do) = "push" /\ Tail(do) = <<"insert">>
    BY <1>3
  <2>2. auHandles' = Append(auHandles, auHandle) /\ UNCHANGED <<auEmitters, auNote, auHandle>>
    BY <2>1 DEF AppStep
  <2>3. auHandles' \in Seq(Nat) /\ auHandle \in Range(auHandles')
    BY <2>2 DEF NotesInv, Range
  <2> QED BY <1>1, <1>3, <2>1, <2>2, <2>3 DEF NotesInv
<1>4. CASE auCtx = "live" /\ do = <<"insert">> /\ auEmitters = {} /\ auHandle \in Range(auHandles)
  <2>1. Head(do) = "insert" /\ Tail(do) = <<>>
    BY <1>4
  <2>2. /\ auEmitters' = auEmitters \cup {auHandle} /\ auNote' = auHandle
        /\ auHandle' = auHandle + 1 /\ UNCHANGED auHandles
    BY <2>1 DEF AppStep
  <2>3. auHandle' \in Nat /\ auNote' \in Nat
    BY <2>2 DEF NotesInv
  <2>4. auEmitters' \subseteq {auNote'} /\ auEmitters' \subseteq Range(auHandles')
    BY <1>4, <2>2
  <2>5. auApp' = [plan |-> auApp'.plan, do |-> auApp'.do] /\ auApp'.do = <<>> /\ auApp'.plan = auApp.plan
    BY <1>1, <2>1
  <2> QED BY <1>1, <1>4, <2>2, <2>3, <2>4, <2>5 DEF NotesInv
<1>5. CASE auCtx = "dropped" /\ do = [k \in 1..Len(auHandles) |-> "remove"]
  <2>1. auHandles \in Seq(Nat) /\ Len(auHandles) \in Nat /\ auHandles # <<>>
    <3>1. auHandles \in Seq(Nat) /\ Len(auHandles) \in Nat
      BY DEF NotesInv
    <3>2. ASSUME auHandles = <<>> PROVE FALSE
      <4>1. Len(auHandles) = 0
        BY <3>2
      <4>2. do = [k \in 1..0 |-> "remove"]
        BY <1>5, <4>1
      <4>3. do = <<>>
        BY <4>2
      <4> QED BY <1>1, <4>3
    <3> QED BY <3>1, <3>2
  <2>2. Head(do) = "remove" /\ Tail(do) = [k \in 1..(Len(auHandles) - 1) |-> "remove"]
    BY <1>5, <2>1
  <2>3. /\ auHandles' = Tail(auHandles) /\ auEmitters' = auEmitters \ {Head(auHandles)}
        /\ UNCHANGED <<auNote, auHandle>>
    BY <2>2 DEF AppStep
  <2>4. auHandles' \in Seq(Nat) /\ Len(auHandles') = Len(auHandles) - 1
    BY <2>1, <2>3
  <2>5. auEmitters' \subseteq Range(auHandles')
    <3> SUFFICES ASSUME NEW e \in auEmitters, e # Head(auHandles) PROVE e \in Range(auHandles')
      BY <2>3
    <3>1. PICK k \in 1..Len(auHandles) : e = auHandles[k]
      BY <2>1 DEF NotesInv, Range
    <3>2. k > 1
      BY <2>1, <3>1
    <3>3. k - 1 \in 1..Len(auHandles') /\ auHandles'[k - 1] = e
      BY <2>1, <2>3, <2>4, <3>1, <3>2
    <3>4. DOMAIN auHandles' = 1..Len(auHandles')
      BY <2>4
    <3> QED BY <3>3, <3>4 DEF Range
  <2>6. auApp' = [plan |-> auApp'.plan, do |-> auApp'.do] /\ auApp'.plan = auApp.plan
        /\ auApp'.do = [k \in 1..Len(auHandles') |-> "remove"]
    BY <1>1, <2>2, <2>4
  <2>7. auEmitters' \subseteq {auNote'} /\ auNote' \in Nat /\ auHandle' \in Nat
    BY <2>3 DEF NotesInv
  <2> QED BY <1>1, <1>5, <2>4, <2>5, <2>6, <2>7 DEF NotesInv
<1> QED
  <2>1. \/ auCtx = "live" /\ do \in {BeepSteps, <<"stop">>}
        \/ auCtx = "live" /\ do = <<"push", "insert">> /\ auEmitters = {}
        \/ auCtx = "live" /\ do = <<"insert">> /\ auEmitters = {} /\ auHandle \in Range(auHandles)
        \/ auCtx = "dropped" /\ do = [k \in 1..Len(auHandles) |-> "remove"]
    BY <1>1 DEF NotesInv
  <2> QED BY <2>1, <1>2, <1>3, <1>4, <1>5

\* A note belongs to the context, and there is one at most.
LEMMA NotesAre ==
    ASSUME NotesInv
    PROVE  NotesOwned
<1>1. Cardinality(auEmitters) <= 1
  <2>1. auEmitters = {} \/ auEmitters = {auNote}
    BY DEF NotesInv
  <2>2. Cardinality({}) = 0 /\ Cardinality({auNote}) = 1
    BY FS_EmptySet, FS_Singleton
  <2> QED BY <2>1, <2>2
<1>2. ASSUME auCtx = "dropped", auApp.do = <<>> PROVE auEmitters = {}
  <2>1. auHandles \in Seq(Nat)
    BY DEF NotesInv
  <2>2. Len(auHandles) = 0
    <3>1. CASE auHandles = <<>>
      BY <3>1
    <3>2. CASE auApp.do = [k \in 1..Len(auHandles) |-> "remove"]
      <4>1. DOMAIN auApp.do = {}
        BY <1>2
      <4>2. 1..Len(auHandles) = {}
        BY <3>2, <4>1
      <4>3. Len(auHandles) \in Nat /\ ~(1 \in 1..Len(auHandles))
        BY <2>1, <4>2
      <4> QED BY <4>3
    <3> QED BY <1>2, <3>1, <3>2 DEF NotesInv, BeepSteps
  <2>3. Range(auHandles) = {}
    BY <2>1, <2>2 DEF Range
  <2> QED BY <2>3 DEF NotesInv
<1> QED BY <1>1, <1>2 DEF NotesInv, NotesOwned

-----------------------------------------------------------------------------
\* Positions go round.
LEMMA BlockAfter ==
    ASSUME NEW b \in AuSlots
    PROVE  /\ AuBlocks \in Nat \ {0}
           /\ (b + 1) % AuBlocks = IF b = AuBlocks - 1 THEN 0 ELSE b + 1
           /\ (b - 1) % AuBlocks = IF b = 0 THEN AuBlocks - 1 ELSE b - 1
<1>1. AuBlocks \in Nat /\ AuBlocks > 0 /\ b \in 0..(AuBlocks - 1)
  BY AudioAssumption DEF AuSlots
<1>2. (b + 1) % AuBlocks = IF b = AuBlocks - 1 THEN 0 ELSE b + 1
  BY <1>1
<1>3. (b - 1) % AuBlocks = IF b = 0 THEN AuBlocks - 1 ELSE b - 1
  BY <1>1
<1> QED BY <1>1, <1>2, <1>3

\* Nothing happens to the stream.
LEMMA StreamRests ==
    ASSUME StreamInv, UNCHANGED streamVars, auRun'.pc = auRun.pc \/ {auRun.pc, auRun'.pc} \subseteq {"issue", "await"}
    PROVE  StreamInv'
<1>1. UNCHANGED <<auPlays, auPos, auBuf, auSeq, auHeard, auTorn>>
  BY DEF streamVars
<1>2. (auRun'.pc = "copy" <=> auRun.pc = "copy") /\ (auRun'.pc \in {"write", "copy"} <=> auRun.pc \in {"write", "copy"})
  OBVIOUS
<1>3. Written' = Written /\ Cursor' = Cursor /\ LastBlock' = LastBlock
  BY <1>1, <1>2 DEF Written, Cursor, LastBlock
<1>4. \A b \in AuSlots : Age(b)' = Age(b)
  BY <1>3 DEF Age
<1>5. StreamTypes'
  BY <1>1, <1>3 DEF StreamInv, StreamTypes
<1>6. ASSUME BlocksInv PROVE BlocksInv'
  BY <1>1, <1>2, <1>3, <1>4, <1>6 DEF BlocksInv
<1> QED BY <1>1, <1>5, <1>6 DEF StreamInv

\* Where a block is, and the next one.
LEMMA BlockPlaces ==
    ASSUME StreamTypes
    PROVE  /\ Written \in AuSlots /\ Written = (IF auPos = 0 THEN AuBlocks - 1 ELSE auPos - 1)
           /\ Cursor \in AuSlots /\ AuBlocks \in Nat \ {0}
           /\ \A b \in AuSlots : Age(b) \in AuSlots
<1>1. auPos \in AuSlots
  BY DEF StreamTypes
<1>2. AuBlocks \in Nat \ {0} /\ Written = (IF auPos = 0 THEN AuBlocks - 1 ELSE auPos - 1)
  BY <1>1, BlockAfter DEF Written
<1>3. Written \in AuSlots
  BY <1>1, <1>2 DEF AuSlots
<1>4. Cursor \in AuSlots
  BY <1>1, <1>3 DEF Cursor
<1>5. \A b \in AuSlots : Age(b) \in AuSlots
  BY <1>2, <1>4 DEF Age, AuSlots
<1> QED BY <1>2, <1>3, <1>4, <1>5

\* The stream starts to play at the first block, with nothing written.
LEMMA StreamStart ==
    ASSUME StreamInv, auPlays = -1, auPlays' = 0, UNCHANGED <<auPos, auBuf, auSeq, auHeard, auTorn>>,
           auRun.pc = "issue", auRun'.pc = "issue"
    PROVE  StreamInv'
<1>0. StreamTypes
  BY DEF StreamInv
<1>1. Written' = Written /\ Cursor' = Cursor /\ LastBlock' = LastBlock
  BY DEF Written, Cursor, LastBlock
<1>2. \A b \in AuSlots : Age(b)' = Age(b)
  BY <1>1 DEF Age
<1>3. 0 \in AuSlots
  BY <1>0, BlockPlaces DEF AuSlots
<1>4. StreamTypes'
  BY <1>0, <1>1, <1>3 DEF StreamTypes
<1>5. ASSUME BlocksInv PROVE BlocksInv'
  <2>1. Age(0) \in AuSlots /\ LastBlock = auHeard /\ auHeard \in Nat
    BY <1>0, <1>3, <1>5, BlockPlaces DEF BlocksInv, StreamTypes
  <2>2. ~(Age(0) < LastBlock - auHeard)
    BY <2>1 DEF AuSlots
  <2>3. ~auBuf[0].fresh
    BY <1>3, <1>5, <2>2 DEF BlocksInv
  <2> QED BY <1>1, <1>2, <1>5, <2>3 DEF BlocksInv
<1> QED BY <1>4, <1>5 DEF StreamInv

\* The next block is rendered, and not yet in the buffer.
LEMMA StreamRender ==
    ASSUME StreamInv, auRun.pc = "issue", auRun'.pc = "write", auSeq' = auSeq + 1,
           UNCHANGED <<auPlays, auPos, auBuf, auHeard, auTorn>>
    PROVE  StreamInv'
<1>0. StreamTypes /\ auSeq \in Nat
  BY DEF StreamInv, StreamTypes
<1>1. Written' = Written /\ Cursor' = Cursor /\ LastBlock' = LastBlock
  BY <1>0 DEF Written, Cursor, LastBlock
<1>2. \A b \in AuSlots : Age(b)' = Age(b)
  BY <1>1 DEF Age
<1>4. StreamTypes'
  BY <1>0, <1>1 DEF StreamTypes
<1>5. ASSUME BlocksInv PROVE BlocksInv'
  BY <1>1, <1>2, <1>5 DEF BlocksInv
<1> QED BY <1>4, <1>5 DEF StreamInv

\* The position moves on, and the block to write is the one it was at.
LEMMA StreamWrite ==
    ASSUME StreamInv, auPlays # -1, auRun.pc = "write", auRun'.pc = "copy", HasRoom,
           auPos' = (auPos + 1) % AuBlocks, UNCHANGED <<auPlays, auBuf, auSeq, auHeard, auTorn>>
    PROVE  StreamInv'
<1>0. StreamTypes /\ auPos \in AuSlots
  BY DEF StreamInv, StreamTypes
<1>1. auPos' \in AuSlots /\ Written' = auPos
  <2>1. AuBlocks \in Nat \ {0} /\ auPos' = IF auPos = AuBlocks - 1 THEN 0 ELSE auPos + 1
    BY <1>0, BlockAfter
  <2>2. auPos' \in AuSlots
    BY <1>0, <2>1 DEF AuSlots
  <2>3. (auPos' - 1) % AuBlocks = IF auPos' = 0 THEN AuBlocks - 1 ELSE auPos' - 1
    BY <2>2, BlockAfter
  <2> QED BY <1>0, <2>1, <2>2, <2>3 DEF Written, AuSlots
<1>2. Cursor' = Cursor /\ LastBlock' = LastBlock
  BY <1>1 DEF Cursor, LastBlock
<1>3. \A b \in AuSlots : Age(b)' = Age(b)
  BY <1>2 DEF Age
<1>4. StreamTypes'
  BY <1>0, <1>1, <1>2 DEF StreamTypes
<1>5. ASSUME BlocksInv PROVE BlocksInv'
  BY <1>1, <1>2, <1>3, <1>5 DEF BlocksInv, HasRoom
<1> QED BY <1>4, <1>5 DEF StreamInv

\* The block is copied: it is the youngest, and the others are a block older.
LEMMA StreamCopy ==
    ASSUME StreamInv, auPlays # -1, auRun.pc = "copy", auRun'.pc = "issue", auRun.notes \in SUBSET Nat,
           auBuf' = [auBuf EXCEPT ![Written] = [seq |-> auSeq, notes |-> auRun.notes, fresh |-> TRUE]],
           UNCHANGED <<auPlays, auPos, auSeq, auHeard, auTorn>>
    PROVE  StreamInv'
<1>0. StreamTypes /\ auPos \in AuSlots /\ auPlays \in AuSlots /\ auSeq \in Nat /\ auHeard \in Nat /\ LastBlock \in Nat
  BY DEF StreamInv, StreamTypes
<1>1. /\ Written \in AuSlots /\ Written = (IF auPos = 0 THEN AuBlocks - 1 ELSE auPos - 1) /\ AuBlocks \in Nat \ {0}
      /\ \A b \in AuSlots : Age(b) \in AuSlots
  BY <1>0, BlockPlaces
<1>2. /\ Cursor = Written /\ Cursor' = auPos /\ LastBlock = auSeq - 1 /\ LastBlock' = auSeq
      /\ Written' = Written
  BY DEF Cursor, LastBlock, Written
<1>3. \A b \in AuSlots : Age(b)' = IF b = Written THEN 0 ELSE Age(b) + 1
  BY <1>0, <1>1, <1>2 DEF Age, AuSlots
<1>5. /\ auBuf \in [AuSlots -> [seq : Nat, notes : SUBSET Nat, fresh : BOOLEAN]]
      /\ auBuf'[Written] = [seq |-> auSeq, notes |-> auRun.notes, fresh |-> TRUE]
      /\ \A b \in AuSlots : b # Written => auBuf'[b] = auBuf[b]
  BY <1>1 DEF StreamInv, StreamTypes
<1>6. StreamTypes'
  <2>1. auBuf' \in [AuSlots -> [seq : Nat, notes : SUBSET Nat, fresh : BOOLEAN]]
    <3>1. [seq |-> auSeq, notes |-> auRun.notes, fresh |-> TRUE] \in [seq : Nat, notes : SUBSET Nat, fresh : BOOLEAN]
      BY <1>0
    <3> QED BY <1>1, <1>5, <3>1
  <2> QED BY <1>0, <1>2, <2>1 DEF StreamTypes
<1>7. ASSUME BlocksInv PROVE BlocksInv'
  <2>1. /\ auHeard <= LastBlock /\ LastBlock - auHeard < AuBlocks /\ Written # auPlays
        /\ ~auBuf[auPlays].fresh
        /\ \A b \in AuSlots : /\ auBuf[b].fresh <=> Age(b) < LastBlock - auHeard
                              /\ auBuf[b].fresh => auBuf[b].seq = LastBlock - Age(b)
    BY <1>0, <1>7 DEF BlocksInv, AuSlots
  <2>2. LastBlock - auHeard < AuBlocks - 1
    \* Otherwise every block but the one to write is unplayed, and so is that which plays.
    <3>1. ~(Age(auPlays) < LastBlock - auHeard)
      BY <1>0, <2>1
    <3>2. Age(auPlays) # AuBlocks - 1
      BY <1>0, <1>1, <1>2, <2>1 DEF Age, AuSlots
    <3>3. Age(auPlays) \in AuSlots
      BY <1>0, <1>1
    <3> QED BY <1>0, <1>1, <2>1, <3>1, <3>2, <3>3 DEF AuSlots
  <2>3. auHeard' <= LastBlock' /\ LastBlock' - auHeard' < AuBlocks
    BY <1>0, <1>1, <1>2, <2>1, <2>2
  <2>4. ASSUME NEW b \in AuSlots
        PROVE  /\ auBuf'[b].fresh <=> Age(b)' < LastBlock' - auHeard'
               /\ auBuf'[b].fresh => auBuf'[b].seq = LastBlock' - Age(b)'
    <3>1. CASE b = Written
      <4>1. auBuf'[b].fresh = TRUE /\ auBuf'[b].seq = auSeq
        BY <1>5, <3>1
      <4>2. Age(b)' = 0
        BY <1>3, <3>1
      <4>3. Age(b)' < LastBlock' - auHeard' /\ LastBlock' - Age(b)' = auSeq
        BY <1>0, <1>2, <2>1, <4>2
      <4> QED BY <4>1, <4>3
    <3>2. CASE b # Written
      <4>1. auBuf'[b] = auBuf[b] /\ Age(b)' = Age(b) + 1 /\ Age(b) \in Nat
        <5>1. Age(b) \in AuSlots
          BY <1>1
        <5>2. Age(b)' = Age(b) + 1
          BY <1>3, <3>2
        <5> QED BY <1>5, <3>2, <5>1, <5>2 DEF AuSlots
      <4>2. auBuf[b].fresh <=> Age(b) < LastBlock - auHeard
        BY <2>1
      <4>3. auBuf[b].fresh => auBuf[b].seq = LastBlock - Age(b)
        BY <2>1
      <4>4. Age(b) < LastBlock - auHeard <=> Age(b)' < LastBlock' - auHeard'
        BY <1>0, <1>2, <4>1
      <4>5. LastBlock - Age(b) = LastBlock' - Age(b)'
        BY <1>0, <1>2, <4>1
      <4> QED BY <4>1, <4>2, <4>3, <4>4, <4>5
    <3> QED BY <3>1, <3>2
  <2>5. ~auBuf'[auPlays'].fresh
    BY <1>0, <1>5, <2>1
  <2> QED BY <2>3, <2>4, <2>5 DEF BlocksInv
<1> QED BY <1>6, <1>7 DEF StreamInv

\* The stream comes to the block that is the oldest of those not yet played,
\* or to one that was played.
LEMMA StreamPlays ==
    ASSUME StreamInv, PlayNext
    PROVE  StreamInv'
<1> DEFINE b == (auPlays + 1) % AuBlocks
<1>0. /\ StreamTypes /\ auPos \in AuSlots /\ auPlays \in AuSlots /\ auSeq \in Nat /\ auHeard \in Nat
      /\ LastBlock \in Nat /\ auTorn \in BOOLEAN /\ auPlays # -1
      /\ auBuf \in [AuSlots -> [seq : Nat, notes : SUBSET Nat, fresh : BOOLEAN]]
  BY DEF StreamInv, StreamTypes, PlayNext
<1>1. /\ auPlays' = b /\ auBuf' = [auBuf EXCEPT ![b].fresh = FALSE]
      /\ auHeard' = (IF auBuf[b].fresh THEN auBuf[b].seq ELSE auHeard)
      /\ auTorn' = (auTorn \/ (auRun.pc = "copy" /\ b = Written))
      /\ auRun' = auRun /\ auPos' = auPos /\ auSeq' = auSeq
  BY DEF PlayNext, busVars
<1>2. AuBlocks \in Nat \ {0} /\ b = (IF auPlays = AuBlocks - 1 THEN 0 ELSE auPlays + 1)
  BY <1>0, BlockAfter
<1>3. b \in AuSlots
  BY <1>0, <1>2 DEF AuSlots
<1>4. Written' = Written /\ Cursor' = Cursor /\ LastBlock' = LastBlock
  BY <1>1 DEF Written, Cursor, LastBlock
<1>5. \A x \in AuSlots : Age(x)' = Age(x)
  BY <1>4 DEF Age
<1>6. \A x \in AuSlots : Age(x) \in AuSlots
  BY <1>0, BlockPlaces
<1>7. /\ \A x \in AuSlots : x # b => auBuf'[x] = auBuf[x]
      /\ ~auBuf'[b].fresh
      /\ auBuf' \in [AuSlots -> [seq : Nat, notes : SUBSET Nat, fresh : BOOLEAN]]
  <2>1. auBuf[b] \in [seq : Nat, notes : SUBSET Nat, fresh : BOOLEAN]
    BY <1>0, <1>3
  <2>2. [auBuf[b] EXCEPT !.fresh = FALSE] \in [seq : Nat, notes : SUBSET Nat, fresh : BOOLEAN]
    BY <2>1
  <2>3. auBuf' = [auBuf EXCEPT ![b] = [auBuf[b] EXCEPT !.fresh = FALSE]]
    BY <1>1
  <2> HIDE DEF b
  <2>4. ~[auBuf[b] EXCEPT !.fresh = FALSE].fresh
    BY <2>1
  <2>5. auBuf'[b] = [auBuf[b] EXCEPT !.fresh = FALSE]
    BY <1>0, <1>3, <2>3
  <2> QED BY <1>0, <1>3, <2>2, <2>3, <2>4, <2>5
<1>8. auHeard' \in Nat
  <2>1. auBuf[b] \in [seq : Nat, notes : SUBSET Nat, fresh : BOOLEAN]
    BY <1>0, <1>3
  <2> QED BY <1>0, <1>1, <2>1
<1>9. StreamTypes'
  BY <1>0, <1>1, <1>3, <1>4, <1>7, <1>8 DEF StreamTypes
<1>10. ASSUME BlocksInv, ~auTorn' PROVE BlocksInv'
  <2> HIDE DEF b
  <2> DEFINE u == LastBlock - auHeard
  <2>1. /\ auHeard <= LastBlock /\ u < AuBlocks /\ ~auBuf[auPlays].fresh
        /\ \A x \in AuSlots : /\ auBuf[x].fresh <=> Age(x) < u
                              /\ auBuf[x].fresh => auBuf[x].seq = LastBlock - Age(x)
    BY <1>0, <1>10 DEF BlocksInv
  <2>2. auRun'.pc = "copy" => Written' # auPlays'
    BY <1>1, <1>4, <1>10
  <2>3. auPlays' # -1
    BY <1>1, <1>2, <1>0 DEF AuSlots
  <2>4. CASE auBuf[b].fresh
    <3>1. Age(b) = u - 1
      <4>1. ~(Age(auPlays) < u) /\ Age(b) < u
        BY <1>0, <1>3, <2>1, <2>4
      <4>2. Cursor \in AuSlots
        BY <1>0, BlockPlaces
      <4>3. Age(b) = (IF Age(auPlays) = 0 THEN AuBlocks - 1 ELSE Age(auPlays) - 1)
        BY <1>0, <1>2, <1>3, <4>2 DEF Age, AuSlots
      <4>4. Age(b) \in AuSlots /\ Age(auPlays) \in AuSlots
        BY <1>0, <1>3, <1>6
      <4> QED BY <1>0, <1>2, <2>1, <4>1, <4>3, <4>4 DEF AuSlots
    <3>2. auHeard' = auHeard + 1 /\ u > 0
      <4>1. auHeard' = LastBlock - Age(b)
        BY <1>1, <1>3, <2>1, <2>4
      <4>2. Age(b) \in Nat
        BY <1>3, <1>6 DEF AuSlots
      <4> QED BY <1>0, <3>1, <4>1, <4>2
    <3>3. ASSUME NEW x \in AuSlots
          PROVE  /\ auBuf'[x].fresh <=> Age(x)' < LastBlock' - auHeard'
                 /\ auBuf'[x].fresh => auBuf'[x].seq = LastBlock' - Age(x)'
      <4>1. LastBlock' - auHeard' = u - 1 /\ Age(x)' = Age(x) /\ Age(x) \in Nat
        BY <1>0, <1>4, <1>5, <1>6, <3>2 DEF AuSlots
      <4>2. CASE x = b
        BY <1>0, <1>7, <3>1, <4>1, <4>2
      <4>3. CASE x # b
        <5>1. Age(x) # Age(b)
          <6>1. Cursor \in AuSlots
            BY <1>0, BlockPlaces
          <6> QED BY <1>2, <1>3, <4>3, <6>1 DEF Age, AuSlots
        <5>2. Age(x) < u <=> Age(x) < u - 1
          BY <1>0, <3>1, <4>1, <5>1
        <5>3. auBuf'[x] = auBuf[x]
          BY <1>7, <4>3
        <5>4. auBuf[x].fresh <=> Age(x) < u
          BY <2>1
        <5>5. auBuf[x].fresh => auBuf[x].seq = LastBlock - Age(x)
          BY <2>1
        <5> QED BY <1>4, <4>1, <5>2, <5>3, <5>4, <5>5
      <4> QED BY <4>2, <4>3
    <3>4. auHeard' <= LastBlock' /\ LastBlock' - auHeard' < AuBlocks
      BY <1>0, <1>2, <1>4, <2>1, <3>2
    <3> QED BY <1>1, <1>7, <2>2, <2>3, <3>3, <3>4 DEF BlocksInv
  <2>5. CASE ~auBuf[b].fresh
    <3>1. auHeard' = auHeard
      BY <1>1, <2>5
    <3>2. ASSUME NEW x \in AuSlots
          PROVE  /\ auBuf'[x].fresh <=> Age(x)' < LastBlock' - auHeard'
                 /\ auBuf'[x].fresh => auBuf'[x].seq = LastBlock' - Age(x)'
      <4>1. auBuf'[x].fresh <=> auBuf[x].fresh
        BY <1>7, <2>5
      <4>2. auBuf'[x].fresh => auBuf'[x] = auBuf[x]
        BY <1>7
      <4>3. auBuf[x].fresh <=> Age(x) < u
        BY <2>1
      <4>4. auBuf[x].fresh => auBuf[x].seq = LastBlock - Age(x)
        BY <2>1
      <4>5. Age(x)' = Age(x)
        BY <1>5
      <4> QED BY <1>4, <3>1, <4>1, <4>2, <4>3, <4>4, <4>5
    <3> QED BY <1>1, <1>4, <1>7, <2>1, <2>2, <2>3, <3>1, <3>2 DEF BlocksInv
  <2> QED BY <2>4, <2>5
<1>11. auTorn => auTorn'
  BY <1>1
<1> QED BY <1>9, <1>10, <1>11 DEF StreamInv

\* The blocks that have not been played are those after the last one heard.
LEMMA BlocksAreHeard ==
    ASSUME StreamInv
    PROVE  HeardInOrder
<1> SUFFICES ASSUME ~auTorn PROVE HeardInOrder
  BY DEF HeardInOrder
<1>0. StreamTypes /\ BlocksInv /\ auHeard \in Nat /\ LastBlock \in Nat
  BY DEF StreamInv, StreamTypes
<1>1. DOMAIN auBuf = AuSlots
  BY <1>0 DEF StreamTypes
<1>2. AuBlocks \in Nat \ {0} /\ Cursor \in AuSlots /\ \A b \in AuSlots : Age(b) \in AuSlots
  BY <1>0, BlockPlaces
<1>3. {auBuf[b].seq : b \in Unplayed} \subseteq (auHeard + 1)..LastBlock
  <2> SUFFICES ASSUME NEW b \in AuSlots, auBuf[b].fresh PROVE auBuf[b].seq \in (auHeard + 1)..LastBlock
    BY <1>1 DEF Unplayed
  <2>1. Age(b) \in Nat
    BY <1>2 DEF AuSlots
  <2>2. auBuf[b].seq = LastBlock - Age(b) /\ Age(b) < LastBlock - auHeard
    BY <1>0 DEF BlocksInv
  <2> QED BY <1>0, <2>1, <2>2
<1>4. ASSUME NEW s \in (auHeard + 1)..LastBlock PROVE \E b \in Unplayed : auBuf[b].seq = s
  <2> DEFINE a == LastBlock - s
             b == IF Cursor > a THEN Cursor - 1 - a ELSE Cursor - 1 - a + AuBlocks
  <2>0. LastBlock - auHeard < AuBlocks
    BY <1>0 DEF BlocksInv
  <2>1. a \in Nat /\ a < LastBlock - auHeard /\ a < AuBlocks /\ LastBlock - a = s
    BY <1>0, <1>2, <2>0
  <2>2. b \in AuSlots /\ Age(b) = a
    BY <1>2, <2>1 DEF Age, AuSlots
  <2> HIDE DEF b, a
  <2>3. auBuf[b].fresh /\ auBuf[b].seq = LastBlock - a
    BY <1>0, <2>1, <2>2 DEF BlocksInv
  <2> QED BY <1>1, <2>1, <2>2, <2>3 DEF Unplayed
<1>5. {auBuf[b].seq : b \in Unplayed} = (auHeard + 1)..LastBlock
  BY <1>3, <1>4
<1>6. auRun.pc = "copy" => Written # auPlays
  BY <1>0 DEF BlocksInv
<1> QED BY <1>5, <1>6 DEF HeardInOrder, LastBlock

-----------------------------------------------------------------------------
\* The next place of a ring buffer is another one.
LEMMA PlaceAfter ==
    ASSUME NEW i \in AuPlaces
    PROVE  Following(i) \in AuPlaces /\ Following(i) # i
<1>1. RingLen \in Nat /\ RingLen >= 2 /\ i \in 0..(RingLen - 1)
  BY AudioAssumption DEF AuPlaces
<1>2. (i + 1) % RingLen = IF i = RingLen - 1 THEN 0 ELSE i + 1
  BY <1>1
<1> QED BY <1>1, <1>2 DEF Following, AuPlaces

\* What AuTypes says of the channel.
LEMMA ChannelTypes ==
    ASSUME AuTypes
    PROVE  /\ auCh = [wp |-> auCh.wp, rp |-> auCh.rp, rwp |-> auCh.rwp, rd |-> auCh.rd, busy |-> auCh.busy,
                      valid |-> auCh.valid, hand |-> auCh.hand, corb |-> auCh.corb, rirb |-> auCh.rirb]
           /\ {auCh.wp, auCh.rp, auCh.rwp, auCh.rd} \subseteq AuPlaces /\ auCh.hand \in AuCmds
           /\ auCh.busy \in BOOLEAN /\ auCh.valid \in BOOLEAN /\ auImmediate \in BOOLEAN
           /\ auCh.corb \in [AuPlaces -> AuCmds] /\ auCh.rirb \in [AuPlaces -> AuCmds]
           /\ 0 \in AuPlaces /\ NoAuCmd \in AuCmds
<1>1. 0 \in AuPlaces
  BY AudioAssumption DEF AuPlaces
<1>2. NoAuCmd \in AuCmds
  BY DEF NoAuCmd, AuCmd, AuCmds, ReadVerbs, SetVerbs
<1> QED BY <1>1, <1>2 DEF AuTypes

\* What AuTypes says of the thread, and of what is still to be answered.
LEMMA ThreadTypes ==
    ASSUME AuTypes
    PROVE  /\ auRun = [stage |-> auRun.stage, pc |-> auRun.pc, todo |-> auRun.todo, cmd |-> auRun.cmd,
                       notes |-> auRun.notes]
           /\ auRun.stage \in {"enumerate", "setup", "play"} /\ auRun.pc \in {"issue", "await", "write", "copy"}
           /\ auRun.todo \in Seq(AuCmds) /\ auRun.cmd \in AuCmds /\ auRun.notes \in SUBSET Nat
           /\ Unanswered \in Seq(AuCmds)
<1>1. /\ auRun.todo \in Seq(AuCmds) /\ auRun.cmd \in AuCmds
  BY DEF AuTypes
<1>2. Unanswered \in Seq(AuCmds)
  BY <1>1 DEF Unanswered
<1> QED BY <1>1, <1>2 DEF AuTypes

\* The channel as it is after a step.
LEMMA ChannelIs ==
    ASSUME NEW wp \in AuPlaces, NEW rp \in AuPlaces, NEW rwp \in AuPlaces, NEW rd \in AuPlaces,
           NEW busy \in BOOLEAN, NEW valid \in BOOLEAN, NEW hand \in AuCmds,
           NEW corb \in [AuPlaces -> AuCmds], NEW rirb \in [AuPlaces -> AuCmds],
           auCh' = [wp |-> wp, rp |-> rp, rwp |-> rwp, rd |-> rd, busy |-> busy, valid |-> valid, hand |-> hand,
                    corb |-> corb, rirb |-> rirb]
    PROVE  /\ auCh' \in [wp : AuPlaces, rp : AuPlaces, rwp : AuPlaces, rd : AuPlaces, busy : BOOLEAN, valid : BOOLEAN,
                         hand : AuCmds, corb : [AuPlaces -> AuCmds], rirb : [AuPlaces -> AuCmds]]
           /\ auCh'.wp = wp /\ auCh'.rp = rp /\ auCh'.rwp = rwp /\ auCh'.rd = rd /\ auCh'.busy = busy
           /\ auCh'.valid = valid /\ auCh'.hand = hand /\ auCh'.corb = corb /\ auCh'.rirb = rirb
  OBVIOUS

ChannelSet == [wp : AuPlaces, rp : AuPlaces, rwp : AuPlaces, rd : AuPlaces, busy : BOOLEAN, valid : BOOLEAN,
               hand : AuCmds, corb : [AuPlaces -> AuCmds], rirb : [AuPlaces -> AuCmds]]

\* A command is written where the channel is idle.
LEMMA IssueStep ==
    ASSUME AuTypes, ChannelInv, AuIssue
    PROVE  /\ ChannelInv' /\ auCh' \in ChannelSet
           /\ auRun' = [auRun EXCEPT !.pc = "await", !.todo = Tail(@), !.cmd = Head(auRun.todo)]
           /\ auRun.pc = "issue" /\ auRun.todo # <<>>
           /\ auRun' \in [stage : {"enumerate", "setup", "play"}, pc : {"issue", "await", "write", "copy"},
                          todo : Seq(AuCmds), cmd : AuCmds, notes : SUBSET Nat]
<1> DEFINE c == Head(auRun.todo)
           w == Following(auCh.wp)
<1>1. /\ auRun.todo \in Seq(AuCmds) /\ auRun.todo # <<>> /\ auRun.pc = "issue"
      /\ auRun' = [auRun EXCEPT !.pc = "await", !.todo = Tail(@), !.cmd = c]
      /\ UNCHANGED <<auImmediate, auFit, auSet>>
  BY DEF AuTypes, AuIssue, AuAt
<1>2. c \in AuCmds /\ Tail(auRun.todo) \in Seq(AuCmds)
  BY <1>1
<1>3. /\ auRun' \in [stage : {"enumerate", "setup", "play"}, pc : {"issue", "await", "write", "copy"},
                     todo : Seq(AuCmds), cmd : AuCmds, notes : SUBSET Nat]
      /\ auRun'.pc = "await" /\ auRun'.cmd = c
  BY <1>1, <1>2 DEF AuTypes
<1>4. ChannelIdle
  BY <1>1 DEF ChannelInv
<1> HIDE DEF c
<1>5. CASE auImmediate
  <2>1. auCh' = [wp |-> auCh.wp, rp |-> auCh.rp, rwp |-> auCh.rwp, rd |-> auCh.rd, busy |-> TRUE,
                 valid |-> auCh.valid, hand |-> auCh.hand, corb |-> [auCh.corb EXCEPT ![0] = c], rirb |-> auCh.rirb]
    <3>1. auCh' = [auCh EXCEPT !.busy = TRUE, !.corb = [auCh.corb EXCEPT ![0] = c]]
      BY <1>5 DEF AuIssue, c
    <3> QED BY <3>1, ChannelTypes
  <2>2. [auCh.corb EXCEPT ![0] = c] \in [AuPlaces -> AuCmds] /\ [auCh.corb EXCEPT ![0] = c][0] = c
    BY <1>2, ChannelTypes
  <2>3. /\ auCh' \in ChannelSet /\ auCh'.busy = TRUE /\ auCh'.valid = auCh.valid /\ auCh'.hand = auCh.hand
        /\ auCh'.corb = [auCh.corb EXCEPT ![0] = c]
    BY <2>1, <2>2, ChannelTypes, ChannelIs DEF ChannelSet
  <2>4. ChannelAsked(auRun.cmd)'
    BY <1>1, <1>3, <1>4, <1>5, <2>2, <2>3 DEF ChannelAsked, ChannelIdle
  <2> QED BY <1>1, <1>3, <2>3, <2>4 DEF ChannelInv, c
<1>6. CASE ~auImmediate
  <2>1. auCh' = [wp |-> w, rp |-> auCh.rp, rwp |-> auCh.rwp, rd |-> auCh.rd, busy |-> auCh.busy,
                 valid |-> auCh.valid, hand |-> auCh.hand, corb |-> [auCh.corb EXCEPT ![w] = c], rirb |-> auCh.rirb]
    <3>1. auCh' = [auCh EXCEPT !.corb = [auCh.corb EXCEPT ![w] = c], !.wp = w]
      BY <1>6 DEF AuIssue, c
    <3> QED BY <3>1, ChannelTypes
  <2>2. w \in AuPlaces
    BY ChannelTypes, PlaceAfter
  <2>3. [auCh.corb EXCEPT ![w] = c] \in [AuPlaces -> AuCmds] /\ [auCh.corb EXCEPT ![w] = c][w] = c
    BY <1>2, <2>2, ChannelTypes
  <2>4. /\ auCh' \in ChannelSet /\ auCh'.wp = w /\ auCh'.rp = auCh.rp /\ auCh'.hand = auCh.hand
        /\ auCh'.rwp = auCh.rwp /\ auCh'.rd = auCh.rd
        /\ auCh'.corb = [auCh.corb EXCEPT ![w] = c]
    BY <2>1, <2>2, <2>3, ChannelTypes, ChannelIs DEF ChannelSet
  <2>5. auCh.wp = auCh.rp /\ auCh.rwp = auCh.rd /\ auCh.hand = NoAuCmd
    BY <1>4, <1>6 DEF ChannelIdle
  <2>6. auCh'.wp = Following(auCh'.rp) /\ auCh'.corb[auCh'.wp] = c /\ auCh'.rwp = auCh'.rd /\ auCh'.hand = NoAuCmd
    BY <2>3, <2>4, <2>5
  <2>7. ChannelAsked(auRun.cmd)'
    BY <1>1, <1>3, <1>6, <2>6 DEF ChannelAsked, Following
  <2> QED BY <1>1, <1>3, <2>4, <2>7 DEF ChannelInv, c
<1> QED BY <1>1, <1>3, <1>5, <1>6, ChannelTypes DEF c

\* Only the controller has taken the command.
LEMMA FetchStep ==
    ASSUME AuTypes, ChannelInv, AuFetch, auRun.pc = "await" => auRun.cmd # NoAuCmd
    PROVE  ChannelInv' /\ auCh' \in ChannelSet
<1> DEFINE c == auRun.cmd
<1>1. UNCHANGED <<auImmediate, auFit, auSet, auRun>> /\ auCh.hand = NoAuCmd
  BY DEF AuFetch
<1>2. auRun.pc = "await" /\ ChannelAsked(c)
  <2>1. auCh.busy \in BOOLEAN /\ (auImmediate => auCh.busy) /\ (~auImmediate => auCh.wp # auCh.rp)
    BY ChannelTypes DEF AuFetch
  <2> QED BY <1>1, <2>1 DEF ChannelInv, ChannelIdle, ChannelBusy, ChannelAnswered
<1>3. CASE auImmediate
  <2>1. auCh' = [wp |-> auCh.wp, rp |-> auCh.rp, rwp |-> auCh.rwp, rd |-> auCh.rd, busy |-> auCh.busy,
                 valid |-> auCh.valid, hand |-> auCh.corb[0], corb |-> auCh.corb, rirb |-> auCh.rirb]
    <3>1. auCh' = [auCh EXCEPT !.hand = auCh.corb[0]]
      BY <1>3 DEF AuFetch
    <3> QED BY <3>1, ChannelTypes
  <2>2. auCh.corb[0] \in AuCmds
    BY ChannelTypes
  <2>3. auCh' \in ChannelSet /\ auCh'.busy = auCh.busy /\ auCh'.valid = auCh.valid /\ auCh'.hand = auCh.corb[0]
    BY <2>1, <2>2, ChannelTypes, ChannelIs DEF ChannelSet
  <2>4. ChannelBusy(c)'
    BY <1>1, <1>2, <1>3, <2>3 DEF ChannelAsked, ChannelBusy
  <2> QED BY <1>1, <1>2, <2>3, <2>4 DEF ChannelInv, ChannelBusy
<1>4. CASE ~auImmediate
  <2> DEFINE w == Following(auCh.rp)
  <2>1. auCh' = [wp |-> auCh.wp, rp |-> w, rwp |-> auCh.rwp, rd |-> auCh.rd, busy |-> auCh.busy,
                 valid |-> auCh.valid, hand |-> auCh.corb[w], corb |-> auCh.corb, rirb |-> auCh.rirb]
    <3>1. auCh' = [auCh EXCEPT !.rp = w, !.hand = auCh.corb[w]]
      BY <1>4 DEF AuFetch
    <3> QED BY <3>1, ChannelTypes
  <2>2. w \in AuPlaces /\ auCh.corb[w] \in AuCmds
    BY ChannelTypes, PlaceAfter
  <2>3. /\ auCh' \in ChannelSet /\ auCh'.wp = auCh.wp /\ auCh'.rp = w /\ auCh'.rwp = auCh.rwp /\ auCh'.rd = auCh.rd
        /\ auCh'.hand = auCh.corb[w]
    BY <2>1, <2>2, ChannelTypes, ChannelIs DEF ChannelSet
  <2>4. auCh.wp = w /\ auCh.corb[auCh.wp] = c /\ auCh.rwp = auCh.rd
    BY <1>2, <1>4 DEF ChannelAsked
  <2>5. ChannelBusy(c)'
    BY <1>1, <1>4, <2>3, <2>4 DEF ChannelBusy
  <2> QED BY <1>1, <1>2, <2>3, <2>5 DEF ChannelInv, ChannelBusy
<1> QED BY <1>3, <1>4

\* The codec has carried out the command, and its response is there.
LEMMA RespondStep ==
    ASSUME AuTypes, ChannelInv, AuRespond
    PROVE  ChannelInv' /\ auCh' \in ChannelSet /\ auRun.pc = "await"
<1> DEFINE c == auRun.cmd
<1>1. UNCHANGED <<auImmediate, auFit, auRun>> /\ auCh.hand # NoAuCmd
      /\ auSet' = auSet \cup {<<auCh.hand.verb, auCh.hand.nid>>}
  BY DEF AuRespond
<1>2. auRun.pc = "await" /\ ChannelBusy(c)
  BY <1>1 DEF ChannelInv, ChannelIdle, ChannelAsked, ChannelAnswered
<1>3. auCh.hand = c /\ <<c.verb, c.nid>> \in auSet'
  BY <1>1, <1>2 DEF ChannelBusy
<1>4. CASE auImmediate
  <2>1. auCh' = [wp |-> auCh.wp, rp |-> auCh.rp, rwp |-> auCh.rwp, rd |-> auCh.rd, busy |-> FALSE,
                 valid |-> TRUE, hand |-> NoAuCmd, corb |-> auCh.corb, rirb |-> [auCh.rirb EXCEPT ![0] = auCh.hand]]
    <3>1. auCh' = [auCh EXCEPT !.hand = NoAuCmd, !.rirb = [auCh.rirb EXCEPT ![0] = auCh.hand], !.busy = FALSE,
                               !.valid = TRUE]
      BY <1>4 DEF AuRespond
    <3> QED BY <3>1, ChannelTypes
  <2>2. [auCh.rirb EXCEPT ![0] = auCh.hand] \in [AuPlaces -> AuCmds] /\ [auCh.rirb EXCEPT ![0] = auCh.hand][0] = c
    BY <1>3, ChannelTypes
  <2>3. /\ auCh' \in ChannelSet /\ auCh'.busy = FALSE /\ auCh'.valid = TRUE /\ auCh'.hand = NoAuCmd
        /\ auCh'.rirb = [auCh.rirb EXCEPT ![0] = auCh.hand]
    BY <2>1, <2>2, ChannelTypes, ChannelIs DEF ChannelSet
  <2>4. ChannelAnswered(c)'
    BY <1>1, <1>3, <1>4, <2>2, <2>3 DEF ChannelAnswered
  <2> QED BY <1>1, <1>2, <2>3, <2>4 DEF ChannelInv, ChannelAnswered
<1>5. CASE ~auImmediate
  <2> DEFINE w == Following(auCh.rwp)
  <2>1. auCh' = [wp |-> auCh.wp, rp |-> auCh.rp, rwp |-> w, rd |-> auCh.rd, busy |-> auCh.busy,
                 valid |-> auCh.valid, hand |-> NoAuCmd, corb |-> auCh.corb,
                 rirb |-> [auCh.rirb EXCEPT ![w] = auCh.hand]]
    <3>1. auCh' = [auCh EXCEPT !.hand = NoAuCmd, !.rirb = [auCh.rirb EXCEPT ![w] = auCh.hand], !.rwp = w]
      BY <1>5 DEF AuRespond
    <3> QED BY <3>1, ChannelTypes
  <2>2. w \in AuPlaces
    BY ChannelTypes, PlaceAfter
  <2>3. [auCh.rirb EXCEPT ![w] = auCh.hand] \in [AuPlaces -> AuCmds] /\ [auCh.rirb EXCEPT ![w] = auCh.hand][w] = c
    BY <1>3, <2>2, ChannelTypes
  <2>4. /\ auCh' \in ChannelSet /\ auCh'.wp = auCh.wp /\ auCh'.rp = auCh.rp /\ auCh'.rwp = w /\ auCh'.rd = auCh.rd
        /\ auCh'.hand = NoAuCmd /\ auCh'.rirb = [auCh.rirb EXCEPT ![w] = auCh.hand]
    BY <2>1, <2>2, <2>3, ChannelTypes, ChannelIs DEF ChannelSet
  <2>5. auCh.wp = auCh.rp /\ auCh.rwp = auCh.rd
    BY <1>2, <1>5 DEF ChannelBusy
  <2>6. ChannelAnswered(c)'
    BY <1>1, <1>3, <1>5, <2>3, <2>4, <2>5 DEF ChannelAnswered
  <2> QED BY <1>1, <1>2, <2>4, <2>6 DEF ChannelInv, ChannelAnswered
<1> QED BY <1>2, <1>4, <1>5

\* The response is that of the command, and the codec has carried it out.
LEMMA ReadStep ==
    ASSUME AuTypes, ChannelInv, AuRead
    PROVE  /\ ChannelInv' /\ auCh' \in ChannelSet
           /\ auRun.pc = "await" /\ <<auRun.cmd.verb, auRun.cmd.nid>> \in auSet
           /\ auSeen' = Learnt(auRun.cmd)
           /\ auRun' = [auRun EXCEPT !.pc = "issue", !.todo = After(auRun.cmd) \o @]
<1> DEFINE d == auRun.cmd
           c == auCh.rirb[IF auImmediate THEN 0 ELSE Following(auCh.rd)]
<1>1. /\ UNCHANGED <<auImmediate, auSet>> /\ auRun.pc = "await" /\ HasResponse
      /\ auFit' = (auFit /\ c = d) /\ auSeen' = Learnt(c)
      /\ auRun' = [auRun EXCEPT !.pc = "issue", !.todo = After(c) \o @]
  BY DEF AuRead, AuAt
<1>2. ChannelAnswered(d)
  <2>1. (auImmediate => auCh.valid) /\ (~auImmediate => auCh.rwp # auCh.rd) /\ auCh.valid \in BOOLEAN
    BY <1>1, ChannelTypes DEF HasResponse
  <2> QED BY <1>1, <2>1 DEF ChannelInv, ChannelAsked, ChannelBusy
<1>3. c = d /\ <<d.verb, d.nid>> \in auSet /\ auFit' /\ auCh.hand = NoAuCmd
  BY <1>1, <1>2 DEF ChannelAnswered, ChannelInv
<1>4. auRun' = [auRun EXCEPT !.pc = "issue", !.todo = After(d) \o @] /\ auRun'.pc = "issue"
  <2>1. auRun' = [auRun EXCEPT !.pc = "issue", !.todo = After(d) \o @]
    BY <1>1, <1>3
  <2> QED BY <2>1, ThreadTypes
<1>5. CASE auImmediate
  <2>1. auCh' = [wp |-> auCh.wp, rp |-> auCh.rp, rwp |-> auCh.rwp, rd |-> auCh.rd, busy |-> auCh.busy,
                 valid |-> FALSE, hand |-> auCh.hand, corb |-> auCh.corb, rirb |-> auCh.rirb]
    <3>1. auCh' = [auCh EXCEPT !.valid = FALSE]
      BY <1>5 DEF AuRead
    <3> QED BY <3>1, ChannelTypes
  <2>2. auCh' \in ChannelSet /\ auCh'.busy = auCh.busy /\ auCh'.valid = FALSE /\ auCh'.hand = auCh.hand
    BY <2>1, ChannelTypes, ChannelIs DEF ChannelSet
  <2>3. ChannelIdle'
    BY <1>1, <1>2, <1>3, <1>5, <2>2 DEF ChannelIdle, ChannelAnswered
  <2> QED BY <1>1, <1>3, <1>4, <2>2, <2>3 DEF ChannelInv
<1>6. CASE ~auImmediate
  <2> DEFINE w == Following(auCh.rd)
  <2>1. auCh' = [wp |-> auCh.wp, rp |-> auCh.rp, rwp |-> auCh.rwp, rd |-> w, busy |-> auCh.busy,
                 valid |-> auCh.valid, hand |-> auCh.hand, corb |-> auCh.corb, rirb |-> auCh.rirb]
    <3>1. auCh' = [auCh EXCEPT !.rd = w]
      BY <1>6 DEF AuRead
    <3> QED BY <3>1, ChannelTypes
  <2>2. w \in AuPlaces
    BY ChannelTypes, PlaceAfter
  <2>3. /\ auCh' \in ChannelSet /\ auCh'.wp = auCh.wp /\ auCh'.rp = auCh.rp /\ auCh'.rwp = auCh.rwp /\ auCh'.rd = w
        /\ auCh'.hand = auCh.hand
    BY <2>1, <2>2, ChannelTypes, ChannelIs DEF ChannelSet
  <2>4. ChannelIdle'
    BY <1>1, <1>2, <1>3, <1>6, <2>3 DEF ChannelIdle, ChannelAnswered
  <2> QED BY <1>1, <1>3, <1>4, <2>3, <2>4 DEF ChannelInv
<1> QED BY <1>1, <1>3, <1>4, <1>5, <1>6

\* Nothing happens to the channel.
LEMMA ChannelRests ==
    ASSUME ChannelInv, UNCHANGED <<auImmediate, auCh, auFit, auSet>>,
           auRun' = auRun \/ (auRun.pc # "await" /\ auRun'.pc # "await")
    PROVE  ChannelInv'
BY DEF ChannelInv, ChannelIdle, ChannelAsked, ChannelBusy, ChannelAnswered, Following

-----------------------------------------------------------------------------
\* What is known of the commands after the first.
RestInv(codec, seen, c, rest) ==
    /\ ReadsNodes(codec, rest) /\ ReadsNodes(codec, <<c>>) /\ ReadsInOrder(rest)
    /\ EntryNext(seen, <<c>>)
    /\ \A k \in 1..Len(rest) : rest[k].verb # "entry" /\ (c.verb = "nodes" => rest[k].verb = "nodes")
    /\ \A k \in 1..Len(rest) : rest[k].verb = "length" =>
         \/ /\ rest[k].nid \in DOMAIN seen /\ seen[rest[k].nid].conns = <<>>
            /\ ~AsksList(c, rest[k].nid) /\ NotAsked(rest, 1, k, rest[k].nid)
         \/ c.verb = "caps" /\ c.nid = rest[k].nid /\ NotAsked(rest, 1, k, rest[k].nid)
         \/ \E j \in 1..(k - 1) : /\ rest[j].verb = "caps" /\ rest[j].nid = rest[k].nid
                                  /\ NotAsked(rest, j, k, rest[k].nid)
    /\ c.verb = "length" => c.nid \in DOMAIN seen /\ seen[c.nid].conns = <<>>
    /\ \A j \in 1..Len(rest) : rest[j].verb = "caps" =>
         \E k \in (j + 1)..Len(rest) : rest[k].verb = "length" /\ rest[k].nid = rest[j].nid
    /\ c.verb = "caps" => \E k \in 1..Len(rest) : rest[k].verb = "length" /\ rest[k].nid = c.nid
    /\ \A n \in DOMAIN seen :
         /\ BeginsList(codec, seen[n].conns, n)
         /\ \/ Len(seen[n].conns) = Len(codec.widgets[n].conns)
            \/ AsksList(c, n) \/ \E k \in 1..Len(rest) : AsksList(rest[k], n)

\* RestInv says what ReadsInv does, of the first command and of the others.
LEMMA RestReads ==
    ASSUME NEW codec, NEW seen, NEW c \in AuCmds, NEW rest \in Seq(AuCmds), ReadsInv(codec, seen, <<c>> \o rest)
    PROVE  RestInv(codec, seen, c, rest)
<1> DEFINE due == <<c>> \o rest
<1>1. /\ due \in Seq(AuCmds) /\ Len(due) = Len(rest) + 1 /\ due[1] = c /\ Len(rest) \in Nat
      /\ \A k \in 1..Len(rest) : due[k + 1] = rest[k]
  OBVIOUS
<1> HIDE DEF due
<1>0. /\ ReadsNodes(codec, due) /\ ReadsInOrder(due) /\ EntryNext(seen, due) /\ ListsNew(seen, due)
      /\ \A n \in DOMAIN seen : WillBeRead(codec, seen, due, n)
  BY DEF ReadsInv, due
<1>a. /\ \A k \in 1..Len(rest) : k + 1 \in 1..Len(due) /\ k + 1 > 1
      /\ 1 \in 1..Len(due) /\ Len(due) > 0
  BY <1>1
<1>b. Len(<<c>>) = 1 /\ <<c>>[1] = c
  OBVIOUS
<1>2. ReadsNodes(codec, rest) /\ ReadsNodes(codec, <<c>>)
  <2>1. ReadsNodes(codec, rest)
    BY <1>0, <1>1, <1>a DEF ReadsNodes
  <2>2. \A k \in 1..Len(<<c>>) : k = 1
    BY <1>b
  <2> QED BY <1>0, <1>1, <1>a, <1>b, <2>1, <2>2 DEF ReadsNodes
<1>3. EntryNext(seen, <<c>>)
  BY <1>0, <1>1, <1>a, <1>b DEF EntryNext
<1>4. ASSUME NEW k \in 1..Len(rest) PROVE rest[k].verb # "entry" /\ (c.verb = "nodes" => rest[k].verb = "nodes")
  <2>1. 1 \in 1..Len(due) /\ k + 1 \in 1..Len(due) /\ 1 < k + 1
    BY <1>1
  <2> QED BY <1>0, <1>1, <2>1 DEF ReadsInOrder
<1>5. ReadsInOrder(rest)
  <2>1. ASSUME NEW j \in 1..Len(rest), NEW k \in 1..Len(rest), j < k, rest[j].verb = "nodes"
        PROVE  rest[k].verb = "nodes"
    <3>1. j + 1 \in 1..Len(due) /\ k + 1 \in 1..Len(due) /\ j + 1 < k + 1
      BY <1>1, <2>1
    <3> QED BY <1>0, <1>1, <2>1, <3>1 DEF ReadsInOrder
  <2> QED BY <1>4, <2>1 DEF ReadsInOrder
<1>6. ASSUME NEW k \in 1..Len(rest), rest[k].verb = "length"
      PROVE  \/ /\ rest[k].nid \in DOMAIN seen /\ seen[rest[k].nid].conns = <<>>
                /\ ~AsksList(c, rest[k].nid) /\ NotAsked(rest, 1, k, rest[k].nid)
             \/ c.verb = "caps" /\ c.nid = rest[k].nid /\ NotAsked(rest, 1, k, rest[k].nid)
             \/ \E j \in 1..(k - 1) : /\ rest[j].verb = "caps" /\ rest[j].nid = rest[k].nid
                                      /\ NotAsked(rest, j, k, rest[k].nid)
  <2> DEFINE m == rest[k].nid
  <2>1. due[k + 1] = rest[k] /\ ListIsNew(seen, due, k + 1) /\ k \in Nat
    BY <1>0, <1>1, <1>a, <1>6 DEF ListsNew
  <2>2. ASSUME NotAsked(due, 1, k + 1, m) PROVE ~AsksList(c, m) /\ NotAsked(rest, 1, k, m)
    <3>1. ASSUME NEW j \in 1..(k - 1) PROVE ~AsksList(rest[j], m)
      <4>1. j + 1 \in 1..((k + 1) - 1) /\ j \in 1..Len(rest)
        BY <1>1
      <4> QED BY <1>1, <2>2, <4>1 DEF NotAsked
    <3>2. 1 \in 1..((k + 1) - 1)
      OBVIOUS
    <3> QED BY <1>1, <2>2, <3>1, <3>2 DEF NotAsked
  <2>3. CASE m \in DOMAIN seen /\ seen[m].conns = <<>> /\ NotAsked(due, 1, k + 1, m)
    BY <2>2, <2>3
  <2>4. ASSUME NEW j \in 1..((k + 1) - 1), due[j].verb = "caps", due[j].nid = m, NotAsked(due, j, k + 1, m)
        PROVE  \/ c.verb = "caps" /\ c.nid = m /\ NotAsked(rest, 1, k, m)
               \/ \E i \in 1..(k - 1) : rest[i].verb = "caps" /\ rest[i].nid = m /\ NotAsked(rest, i, k, m)
    <3>1. CASE j = 1
      BY <1>1, <2>2, <2>4, <3>1
    <3>2. CASE j # 1
      <4>1. j - 1 \in 1..(k - 1) /\ j - 1 \in 1..Len(rest) /\ (j - 1) + 1 = j
        BY <1>1, <3>2
      <4>2. rest[j - 1] = due[j]
        BY <1>1, <4>1
      <4>3. ASSUME NEW i \in (j - 1)..(k - 1) PROVE ~AsksList(rest[i], m)
        <5>1. i + 1 \in j..((k + 1) - 1) /\ i \in 1..Len(rest)
          BY <1>1, <4>1
        <5> QED BY <1>1, <2>4, <5>1 DEF NotAsked
      <4> QED BY <2>4, <4>1, <4>2, <4>3 DEF NotAsked
    <3> QED BY <3>1, <3>2
  <2> QED BY <2>1, <2>3, <2>4 DEF ListIsNew
<1>7. ASSUME c.verb = "length" PROVE c.nid \in DOMAIN seen /\ seen[c.nid].conns = <<>>
  <2>1. ListIsNew(seen, due, 1) /\ 1..(1 - 1) = {}
    BY <1>0, <1>1, <1>7, <1>a DEF ListsNew
  <2> QED BY <1>1, <2>1 DEF ListIsNew
<1>8. ASSUME NEW j \in 1..Len(rest), rest[j].verb = "caps"
      PROVE  \E k \in (j + 1)..Len(rest) : rest[k].verb = "length" /\ rest[k].nid = rest[j].nid
  <2>1. PICK k \in ((j + 1) + 1)..Len(due) : due[k].verb = "length" /\ due[k].nid = due[j + 1].nid
    BY <1>0, <1>1, <1>8, <1>a DEF ListsNew
  <2>2. k - 1 \in (j + 1)..Len(rest) /\ k - 1 \in 1..Len(rest) /\ (k - 1) + 1 = k
    BY <1>1
  <2> QED BY <1>1, <2>1, <2>2
<1>9. ASSUME c.verb = "caps" PROVE \E k \in 1..Len(rest) : rest[k].verb = "length" /\ rest[k].nid = c.nid
  <2>1. PICK k \in (1 + 1)..Len(due) : due[k].verb = "length" /\ due[k].nid = due[1].nid
    BY <1>0, <1>1, <1>9, <1>a DEF ListsNew
  <2>2. k - 1 \in 1..Len(rest) /\ (k - 1) + 1 = k
    BY <1>1
  <2> QED BY <1>1, <2>1, <2>2
<1>10. ASSUME NEW n \in DOMAIN seen
       PROVE  /\ BeginsList(codec, seen[n].conns, n)
              /\ \/ Len(seen[n].conns) = Len(codec.widgets[n].conns)
                 \/ AsksList(c, n) \/ \E k \in 1..Len(rest) : AsksList(rest[k], n)
  <2>1. WillBeRead(codec, seen, due, n)
    BY <1>0
  <2>2. ASSUME NEW k \in 1..Len(due), AsksList(due[k], n), k # 1 PROVE \E i \in 1..Len(rest) : AsksList(rest[i], n)
    <3>1. k - 1 \in 1..Len(rest) /\ (k - 1) + 1 = k
      BY <1>1, <2>2
    <3> QED BY <1>1, <2>2, <3>1
  <2> QED BY <1>1, <2>1, <2>2 DEF WillBeRead
<1> QED BY <1>2, <1>3, <1>4, <1>5, <1>6, <1>7, <1>8, <1>9, <1>10 DEF RestInv

\* A command that asks for no list and makes no widget new has been answered.
LEMMA OtherAnswered ==
    ASSUME NEW codec, NEW seen, NEW c \in AuCmds, NEW rest \in Seq(AuCmds), NEW now,
           ReadsInv(codec, seen, <<c>> \o rest), c.verb \notin {"caps", "length", "entry"},
           DOMAIN now = DOMAIN seen, \A n \in DOMAIN seen : now[n].conns = seen[n].conns
    PROVE  ReadsInv(codec, now, rest)
<1>0. RestInv(codec, seen, c, rest)
  BY RestReads
<1>1. EntryNext(now, rest)
  BY <1>0 DEF EntryNext, RestInv
<1>2. ListsNew(now, rest)
  BY <1>0 DEF ListsNew, ListIsNew, RestInv
<1>3. ASSUME NEW n \in DOMAIN now PROVE WillBeRead(codec, now, rest, n)
  <2>1. /\ n \in DOMAIN seen /\ now[n].conns = seen[n].conns /\ BeginsList(codec, seen[n].conns, n)
        /\ \/ Len(seen[n].conns) = Len(codec.widgets[n].conns)
           \/ AsksList(c, n) \/ \E k \in 1..Len(rest) : AsksList(rest[k], n)
    BY <1>0 DEF RestInv
  <2>2. ~AsksList(c, n)
    BY DEF AsksList
  <2> QED BY <2>1, <2>2 DEF WillBeRead
<1> QED BY <1>1, <1>2, <1>3, <1>0 DEF ReadsInv, RestInv

\* A widget is new: nothing of its list has been read.
LEMMA CapsAnswered ==
    ASSUME NEW codec, NEW seen, NEW c \in AuCmds, NEW rest \in Seq(AuCmds), NEW now,
           ReadsInv(codec, seen, <<c>> \o rest), c.verb = "caps",
           DOMAIN now = DOMAIN seen \cup {c.nid}, now[c.nid].conns = <<>>,
           codec.widgets[c.nid].conns \in Seq(Nat),
           \A n \in DOMAIN seen : n # c.nid => now[n].conns = seen[n].conns
    PROVE  ReadsInv(codec, now, rest)
<1>0. RestInv(codec, seen, c, rest)
  BY RestReads
<1>1. EntryNext(now, rest)
  BY <1>0 DEF EntryNext, RestInv
<1>2. ListsNew(now, rest)
  BY <1>0 DEF ListsNew, ListIsNew, RestInv
<1>3. ASSUME NEW n \in DOMAIN now PROVE WillBeRead(codec, now, rest, n)
  <2>1. CASE n = c.nid
    <3>1. PICK k \in 1..Len(rest) : rest[k].verb = "length" /\ rest[k].nid = c.nid
      BY <1>0 DEF RestInv
    <3>2. AsksList(rest[k], n)
      BY <2>1, <3>1 DEF AsksList
    <3>3. BeginsList(codec, <<>>, n)
      BY <2>1 DEF BeginsList
    <3> QED BY <2>1, <3>2, <3>3 DEF WillBeRead
  <2>2. CASE n # c.nid
    <3>1. n \in DOMAIN seen /\ now[n].conns = seen[n].conns
      BY <2>2
    <3>2. /\ BeginsList(codec, seen[n].conns, n)
          /\ \/ Len(seen[n].conns) = Len(codec.widgets[n].conns)
             \/ AsksList(c, n) \/ \E k \in 1..Len(rest) : AsksList(rest[k], n)
      BY <1>0, <3>1 DEF RestInv
    <3>3. ~AsksList(c, n)
      BY DEF AsksList
    <3> QED BY <3>1, <3>2, <3>3 DEF WillBeRead
  <2> QED BY <2>1, <2>2
<1> QED BY <1>1, <1>2, <1>3, <1>0 DEF ReadsInv, RestInv

\* More of the list of n has been read, and nothing else.
ListGrows(codec, seen, now, n, conns) ==
    /\ DOMAIN now = DOMAIN seen /\ n \in DOMAIN seen /\ n \in DOMAIN codec.widgets
    /\ \A m \in DOMAIN seen : m # n => now[m].conns = seen[m].conns
    /\ now[n].conns = conns /\ BeginsList(codec, conns, n)

\* More of a list has been read, and the rest is asked for next.
LEMMA ListAnswered ==
    ASSUME NEW codec, NEW seen, NEW c \in AuCmds, NEW rest \in Seq(AuCmds), NEW now, NEW e \in AuCmds, NEW conns,
           ReadsInv(codec, seen, <<c>> \o rest), c.verb \in {"length", "entry"},
           ListGrows(codec, seen, now, c.nid, conns),
           e.verb = "entry", e.nid = c.nid, e.arg = Len(conns)
    PROVE  /\ Len(conns) = Len(codec.widgets[c.nid].conns) => ReadsInv(codec, now, rest)
           /\ ReadsInv(codec, now, <<e>> \o rest)
<1>3. /\ DOMAIN now = DOMAIN seen /\ c.nid \in DOMAIN seen /\ c.nid \in DOMAIN codec.widgets
      /\ \A n \in DOMAIN seen : n # c.nid => now[n].conns = seen[n].conns
      /\ now[c.nid].conns = conns /\ BeginsList(codec, conns, c.nid)
  BY DEF ListGrows
<1>0. RestInv(codec, seen, c, rest)
  BY RestReads
<1>4. \A k \in 1..Len(rest) : rest[k].verb = "length" =>
        \/ /\ rest[k].nid \in DOMAIN seen /\ seen[rest[k].nid].conns = <<>>
           /\ ~AsksList(c, rest[k].nid) /\ NotAsked(rest, 1, k, rest[k].nid)
        \/ \E j \in 1..(k - 1) : rest[j].verb = "caps" /\ rest[j].nid = rest[k].nid /\ NotAsked(rest, j, k, rest[k].nid)
  BY <1>0 DEF RestInv
<1> USE <1>3
<1>1. ASSUME Len(conns) = Len(codec.widgets[c.nid].conns) PROVE ReadsInv(codec, now, rest)
  <2>1. EntryNext(now, rest)
    BY <1>0 DEF EntryNext, RestInv
  <2>2. ListsNew(now, rest)
    BY <1>0 DEF ListsNew, ListIsNew, AsksList, RestInv
  <2>3. \A n \in DOMAIN now : WillBeRead(codec, now, rest, n)
    BY <1>1, <1>0 DEF WillBeRead, AsksList, RestInv
  <2> QED BY <2>1, <2>2, <2>3, <1>0 DEF ReadsInv, RestInv
<1>2. ReadsInv(codec, now, <<e>> \o rest)
  <2> DEFINE due == <<e>> \o rest
  <2>1. /\ Len(due) = Len(rest) + 1 /\ due[1] = e /\ Len(rest) \in Nat
        /\ \A k \in 1..Len(rest) : due[k + 1] = rest[k]
    OBVIOUS
  <2> HIDE DEF due
  <2>2. \A k \in 1..Len(due) : k = 1 \/ (k - 1 \in 1..Len(rest) /\ due[k] = rest[k - 1])
    <3> SUFFICES ASSUME NEW k \in 1..Len(due), k # 1 PROVE k - 1 \in 1..Len(rest) /\ due[k] = rest[k - 1]
      OBVIOUS
    <3>1. k - 1 \in 1..Len(rest) /\ (k - 1) + 1 = k
      BY <2>1
    <3> QED BY <2>1, <3>1
  <2>3. ReadsNodes(codec, due)
    <3> SUFFICES ASSUME NEW k \in 1..Len(due)
                 PROVE  /\ due[k].verb \in ReadVerbs
                        /\ due[k].verb = "nodes" => due[k].nid \in {0} \cup DOMAIN codec.below
                        /\ due[k].verb # "nodes" => due[k].nid \in DOMAIN codec.widgets
      BY DEF ReadsNodes
    <3>1. CASE k = 1
      BY <2>1, <3>1 DEF ReadVerbs
    <3>2. CASE k # 1
      <4>1. ReadsNodes(codec, rest)
        BY <1>0 DEF RestInv
      <4>2. k - 1 \in 1..Len(rest) /\ due[k] = rest[k - 1]
        BY <2>2, <3>2
      <4> QED BY <4>1, <4>2 DEF ReadsNodes
    <3> QED BY <3>1, <3>2
  <2>4. ReadsInOrder(due)
    <3> SUFFICES ASSUME NEW j \in 1..Len(due), NEW k \in 1..Len(due), j < k
                 PROVE  due[k].verb # "entry" /\ (due[j].verb = "nodes" => due[k].verb = "nodes")
      BY DEF ReadsInOrder
    <3>1. k - 1 \in 1..Len(rest) /\ due[k] = rest[k - 1]
      BY <2>1, <2>2
    <3>2. due[k].verb # "entry"
      BY <3>1, <1>0 DEF RestInv
    <3>3. CASE j = 1
      BY <2>1, <3>2, <3>3
    <3>4. CASE j # 1
      <4>1. j - 1 \in 1..Len(rest) /\ due[j] = rest[j - 1] /\ j - 1 < k - 1
        BY <2>1, <2>2, <3>4
      <4>2. ReadsInOrder(rest)
        BY <1>0 DEF RestInv
      <4> QED BY <3>1, <3>2, <4>1, <4>2 DEF ReadsInOrder
    <3> QED BY <3>3, <3>4
  <2>5. EntryNext(now, due)
    BY <2>1 DEF EntryNext
  <2>6. ASSUME NEW k \in 1..Len(due), due[k].verb = "length" PROVE ListIsNew(now, due, k)
    <3>1. k - 1 \in 1..Len(rest) /\ due[k] = rest[k - 1] /\ k \in Nat
      BY <2>1, <2>2, <2>6
    <3> DEFINE m == due[k].nid
    <3>2. ASSUME NEW j \in 1..((k - 1) - 1), rest[j].verb = "caps", rest[j].nid = m, NotAsked(rest, j, k - 1, m)
          PROVE  ListIsNew(now, due, k)
      <4>0. j + 1 \in 1..(k - 1) /\ j \in 1..Len(rest)
        BY <2>1, <3>1
      <4>1. j + 1 \in 1..(k - 1) /\ j \in 1..Len(rest) /\ due[j + 1] = rest[j]
        BY <2>1, <4>0
      <4>2. ASSUME NEW i \in (j + 1)..(k - 1) PROVE ~AsksList(due[i], m)
        <5>1. i - 1 \in j..((k - 1) - 1) /\ i \in 1..Len(due) /\ i # 1
          BY <2>1, <3>1
        <5>2. due[i] = rest[i - 1]
          BY <2>2, <5>1
        <5> QED BY <3>2, <5>1, <5>2 DEF NotAsked
      <4> QED BY <3>2, <4>1, <4>2 DEF ListIsNew, NotAsked
    <3>3. CASE /\ m \in DOMAIN seen /\ seen[m].conns = <<>>
               /\ ~AsksList(c, m) /\ NotAsked(rest, 1, k - 1, m)
      <4>1. m # c.nid
        BY <3>3 DEF AsksList
      <4>2. ASSUME NEW i \in 1..(k - 1) PROVE ~AsksList(due[i], m)
        <5>1. CASE i = 1
          BY <2>1, <4>1, <5>1 DEF AsksList
        <5>2. CASE i # 1
          <6>1. i - 1 \in 1..((k - 1) - 1) /\ i \in 1..Len(due)
            BY <2>1, <3>1, <5>2
          <6>2. due[i] = rest[i - 1]
            BY <2>2, <5>2, <6>1
          <6> QED BY <3>3, <6>1, <6>2 DEF NotAsked
        <5> QED BY <5>1, <5>2
      <4> QED BY <3>3, <4>1, <4>2 DEF ListIsNew, NotAsked
    <3>4. \/ /\ m \in DOMAIN seen /\ seen[m].conns = <<>>
             /\ ~AsksList(c, m) /\ NotAsked(rest, 1, k - 1, m)
          \/ \E j \in 1..((k - 1) - 1) : rest[j].verb = "caps" /\ rest[j].nid = m /\ NotAsked(rest, j, k - 1, m)
      BY <2>6, <3>1, <1>4
    <3> QED BY <3>2, <3>3, <3>4
  <2>7. ASSUME NEW j \in 1..Len(due), due[j].verb = "caps"
        PROVE  \E k \in (j + 1)..Len(due) : due[k].verb = "length" /\ due[k].nid = due[j].nid
    <3>1. j - 1 \in 1..Len(rest) /\ due[j] = rest[j - 1]
      BY <2>1, <2>2, <2>7
    <3>2. PICK k \in ((j - 1) + 1)..Len(rest) : rest[k].verb = "length" /\ rest[k].nid = rest[j - 1].nid
      BY <2>7, <3>1, <1>0 DEF RestInv
    <3>3. k + 1 \in (j + 1)..Len(due) /\ k \in 1..Len(rest)
      BY <2>1, <3>1
    <3> QED BY <2>1, <3>1, <3>2, <3>3
  <2>8. ASSUME NEW n \in DOMAIN now PROVE WillBeRead(codec, now, due, n)
    <3>1. CASE n = c.nid
      <4>1. 1 \in 1..Len(due) /\ AsksList(due[1], n)
        BY <2>1, <3>1 DEF AsksList
      <4> QED BY <3>1, <4>1 DEF WillBeRead
    <3>2. CASE n # c.nid
      <4>1. /\ BeginsList(codec, seen[n].conns, n) /\ now[n].conns = seen[n].conns
            /\ \/ Len(seen[n].conns) = Len(codec.widgets[n].conns)
               \/ \E k \in 1..Len(rest) : AsksList(rest[k], n)
        BY <3>2, <1>0 DEF AsksList, RestInv
      <4>2. \A k \in 1..Len(rest) : k + 1 \in 1..Len(due) /\ due[k + 1] = rest[k]
        BY <2>1
      <4> QED BY <4>1, <4>2 DEF WillBeRead
    <3> QED BY <3>1, <3>2
  <2> QED BY <2>3, <2>4, <2>5, <2>6, <2>7, <2>8 DEF ReadsInv, ListsNew, due
<1> QED BY <1>1, <1>2

\* The nodes below a node have been told: other nodes, or widgets to read.
LEMMA NodesAnswered ==
    ASSUME NEW codec, NEW seen, NEW c \in AuCmds, NEW rest \in Seq(AuCmds), NEW front \in Seq(AuCmds),
           ReadsInv(codec, seen, <<c>> \o rest), c.verb = "nodes",
           ReadsNodes(codec, front), ReadsInOrder(front), ListsNew(seen, front),
           \A k \in 1..Len(front) : front[k].verb # "entry",
           \A k \in 1..Len(front) : front[k].verb = "length" =>
               \E j \in 1..(k - 1) : /\ front[j].verb = "caps" /\ front[j].nid = front[k].nid
                                    /\ NotAsked(front, j, k, front[k].nid)
    PROVE  ReadsInv(codec, seen, front \o rest)
<1> DEFINE due == front \o rest
           f == Len(front)
<1>0. RestInv(codec, seen, c, rest)
  BY RestReads
<1>1. /\ due \in Seq(AuCmds) /\ f \in Nat /\ Len(rest) \in Nat /\ Len(due) = f + Len(rest)
      /\ \A k \in 1..f : due[k] = front[k]
      /\ \A k \in 1..Len(rest) : due[f + k] = rest[k]
  OBVIOUS
<1> HIDE DEF due, f
<1>2. \A k \in 1..Len(due) : k \in 1..f \/ (k - f \in 1..Len(rest) /\ due[k] = rest[k - f])
  <2> SUFFICES ASSUME NEW k \in 1..Len(due), k \notin 1..f PROVE k - f \in 1..Len(rest) /\ due[k] = rest[k - f]
    OBVIOUS
  <2>1. k - f \in 1..Len(rest) /\ f + (k - f) = k
    BY <1>1
  <2> QED BY <1>1, <2>1
<1>3. \A k \in 1..Len(rest) : rest[k].verb = "nodes"
  BY <1>0 DEF RestInv
<1>4. \A k \in 1..Len(due) : (k \in 1..f /\ due[k] = front[k]) \/ due[k].verb = "nodes"
  <2> SUFFICES ASSUME NEW k \in 1..Len(due), k \notin 1..f PROVE due[k].verb = "nodes"
    BY <1>1
  <2>1. k - f \in 1..Len(rest) /\ due[k] = rest[k - f]
    BY <1>2
  <2> QED BY <1>1, <1>3, <2>1
<1>5. ReadsNodes(codec, due)
  <2> SUFFICES ASSUME NEW k \in 1..Len(due)
               PROVE  /\ due[k].verb \in ReadVerbs
                      /\ due[k].verb = "nodes" => due[k].nid \in {0} \cup DOMAIN codec.below
                      /\ due[k].verb # "nodes" => due[k].nid \in DOMAIN codec.widgets
    BY DEF ReadsNodes
  <2>1. CASE k \in 1..f
    <3>1. due[k] = front[k]
      BY <1>1, <2>1
    <3> QED BY <2>1, <3>1 DEF ReadsNodes, f
  <2>2. CASE k \notin 1..f
    <3>1. ReadsNodes(codec, rest)
      BY <1>0 DEF RestInv
    <3>2. k - f \in 1..Len(rest) /\ due[k] = rest[k - f]
      BY <1>2, <2>2
    <3> QED BY <3>1, <3>2 DEF ReadsNodes
  <2> QED BY <2>1, <2>2
<1>6. ReadsInOrder(due)
  <2> SUFFICES ASSUME NEW j \in 1..Len(due), NEW k \in 1..Len(due), j < k
               PROVE  due[k].verb # "entry" /\ (due[j].verb = "nodes" => due[k].verb = "nodes")
    BY DEF ReadsInOrder
  <2>1. CASE due[k].verb = "nodes"
    BY <2>1
  <2>2. CASE k \in 1..f /\ due[k] = front[k]
    <3>1. j \in 1..f
      BY <1>1, <2>2
    <3>2. due[j] = front[j]
      BY <1>1, <3>1
    <3> QED BY <2>2, <3>1, <3>2 DEF ReadsInOrder, f
  <2> QED BY <1>4, <2>1, <2>2
<1>7. EntryNext(seen, due)
  <2>1. \A k \in 1..Len(due) : due[k].verb # "entry"
    BY <1>4 DEF f
  <2>2. Len(due) \in Nat /\ (Len(due) > 0 => 1 \in 1..Len(due))
    BY <1>1
  <2> QED BY <2>1, <2>2 DEF EntryNext
<1>8. ASSUME NEW k \in 1..Len(due), due[k].verb = "length" PROVE ListIsNew(seen, due, k)
  <2>1. k \in 1..f /\ due[k] = front[k]
    BY <1>4, <1>8
  <2>2. PICK j \in 1..(k - 1) : /\ front[j].verb = "caps" /\ front[j].nid = front[k].nid
                                /\ NotAsked(front, j, k, front[k].nid)
    BY <1>8, <2>1 DEF f
  <2>3. j \in 1..f /\ \A i \in j..(k - 1) : i \in 1..f
    BY <1>1, <2>1
  <2>4. NotAsked(due, j, k, due[k].nid)
    BY <1>1, <2>1, <2>2, <2>3 DEF NotAsked
  <2>5. due[j] = front[j]
    BY <1>1, <2>3
  <2> QED BY <2>1, <2>2, <2>4, <2>5 DEF ListIsNew
<1>9. ASSUME NEW j \in 1..Len(due), due[j].verb = "caps"
      PROVE  \E k \in (j + 1)..Len(due) : due[k].verb = "length" /\ due[k].nid = due[j].nid
  <2>1. j \in 1..f /\ due[j] = front[j]
    BY <1>4, <1>9
  <2>2. PICK k \in (j + 1)..f : front[k].verb = "length" /\ front[k].nid = front[j].nid
    BY <1>9, <2>1 DEF ListsNew, f
  <2>3. k \in 1..f /\ k \in (j + 1)..Len(due)
    BY <1>1, <2>1
  <2>4. due[k] = front[k]
    BY <1>1, <2>3
  <2> QED BY <2>1, <2>2, <2>3, <2>4
<1>10. ASSUME NEW n \in DOMAIN seen PROVE WillBeRead(codec, seen, due, n)
  <2>1. /\ BeginsList(codec, seen[n].conns, n)
        /\ \/ Len(seen[n].conns) = Len(codec.widgets[n].conns)
           \/ AsksList(c, n) \/ \E k \in 1..Len(rest) : AsksList(rest[k], n)
    BY <1>0 DEF RestInv
  <2>2. ~AsksList(c, n) /\ \A k \in 1..Len(rest) : ~AsksList(rest[k], n)
    BY <1>3 DEF AsksList
  <2> QED BY <2>1, <2>2 DEF WillBeRead
<1> QED BY <1>5, <1>6, <1>7, <1>8, <1>9, <1>10 DEF ReadsInv, ListsNew, due

\* The groups below the root.
LEMMA GroupsTold ==
    ASSUME NEW codec \in AuCodecs, NEW seen, NEW front, front = [k \in 1..Len(codec.groups) |-> AuCmd("nodes", codec.groups[k], 0)]
    PROVE  /\ front \in Seq(AuCmds) /\ ReadsNodes(codec, front) /\ ReadsInOrder(front) /\ ListsNew(seen, front)
           /\ \A k \in 1..Len(front) : front[k].verb = "nodes"
<1>1. codec.groups \in Seq(DOMAIN codec.below) /\ DOMAIN codec.below \subseteq Nat \ {0}
  BY AudioAssumption
<1>2. Len(codec.groups) \in Nat /\ \A k \in 1..Len(codec.groups) : codec.groups[k] \in DOMAIN codec.below
  BY <1>1
<1>3. \A k \in 1..Len(codec.groups) :
        front[k] \in AuCmds /\ front[k].verb = "nodes" /\ front[k].nid \in DOMAIN codec.below
  <2> SUFFICES ASSUME NEW k \in 1..Len(codec.groups)
               PROVE  front[k] \in AuCmds /\ front[k].verb = "nodes" /\ front[k].nid \in DOMAIN codec.below
    OBVIOUS
  <2>1. front[k] = [verb |-> "nodes", nid |-> codec.groups[k], arg |-> 0]
    BY DEF AuCmd
  <2>2. codec.groups[k] \in DOMAIN codec.below /\ codec.groups[k] \in Nat
    BY <1>1, <1>2
  <2> QED BY <2>1, <2>2 DEF AuCmds, ReadVerbs
<1>4. front \in Seq(AuCmds) /\ Len(front) = Len(codec.groups)
  BY <1>2, <1>3
<1>5. ReadsNodes(codec, front) /\ ReadsInOrder(front) /\ ListsNew(seen, front)
  BY <1>3, <1>4 DEF ReadsNodes, ReadsInOrder, ListsNew, ReadVerbs
<1> QED BY <1>3, <1>4, <1>5

\* Where the commands are.
LEMMA ByFives ==
    ASSUME NEW k \in Nat, NEW m \in Nat, k < 5 * m
    PROVE  /\ (k \div 5) + 1 \in 1..m /\ (k % 5) + 1 \in 1..5
           /\ k + 1 = 5 * (((k \div 5) + 1) - 1) + ((k % 5) + 1)
<1>1. k \div 5 \in Nat /\ k % 5 \in 0..4
  OBVIOUS
<1>2. k = 5 * (k \div 5) + (k % 5)
  OBVIOUS
<1> QED BY <1>1, <1>2

\* Two ways to count by fives agree.
LEMMA SameFive ==
    ASSUME NEW a \in Nat, NEW b \in Nat, NEW p \in 1..5, NEW q \in 1..5, 5 * (a - 1) + p = 5 * (b - 1) + q
    PROVE  a = b /\ p = q
<1>1. 5 * (a - b) = q - p /\ q - p \in -4..4 /\ a - b \in Int
  OBVIOUS
<1>2. a - b = 0
  BY <1>1
<1> QED BY <1>1, <1>2

\* The widgets of a group, five commands for each.
LEMMA WidgetsTold ==
    ASSUME NEW codec \in AuCodecs, NEW seen, NEW g \in DOMAIN codec.below, NEW front,
           front = ForEach(codec.below[g], 5, WidgetReads)
    PROVE  /\ front \in Seq(AuCmds) /\ ReadsNodes(codec, front) /\ ReadsInOrder(front) /\ ListsNew(seen, front)
           /\ \A k \in 1..Len(front) : front[k].verb # "entry"
           /\ \A k \in 1..Len(front) : front[k].verb = "length" =>
               \E j \in 1..(k - 1) : /\ front[j].verb = "caps" /\ front[j].nid = front[k].nid
                                    /\ NotAsked(front, j, k, front[k].nid)
<1> DEFINE ns == codec.below[g]
           at(k) == ((k - 1) \div 5) + 1
           no(k) == ((k - 1) % 5) + 1
<1>1. ns \in Seq(DOMAIN codec.widgets) /\ DOMAIN codec.widgets \subseteq Nat \ {0}
  BY AudioAssumption
<1>2. Len(ns) \in Nat /\ \A k \in 1..Len(ns) : ns[k] \in DOMAIN codec.widgets
  BY <1>1
<1>3. front = [k \in 1..(5 * Len(ns)) |-> WidgetReads(ns[at(k)])[no(k)]]
  BY DEF ForEach
<1>4. \A k \in 1..(5 * Len(ns)) : at(k) \in 1..Len(ns) /\ no(k) \in 1..5 /\ k = 5 * (at(k) - 1) + no(k)
  <2> SUFFICES ASSUME NEW k \in 1..(5 * Len(ns))
               PROVE  at(k) \in 1..Len(ns) /\ no(k) \in 1..5 /\ k = 5 * (at(k) - 1) + no(k)
    OBVIOUS
  <2>1. k - 1 \in Nat /\ k - 1 < 5 * Len(ns)
    BY <1>2
  <2>2. at(k) \in 1..Len(ns) /\ no(k) \in 1..5 /\ (k - 1) + 1 = 5 * (at(k) - 1) + no(k)
    BY <1>2, <2>1, ByFives
  <2> QED BY <2>2
<1> HIDE DEF ns, at, no
<1>5. ASSUME NEW k \in 1..(5 * Len(ns))
      PROVE  /\ front[k] = [verb |-> front[k].verb, nid |-> ns[at(k)], arg |-> 0]
             /\ front[k].verb \in {"caps", "config", "out_amp", "in_amp", "length"}
             /\ front[k].verb = "caps" <=> no(k) = 1
             /\ front[k].verb = "length" <=> no(k) = 5
  <2>1. no(k) \in 1..5
    BY <1>4
  <2>2. front[k] = <<AuCmd("caps", ns[at(k)], 0), AuCmd("config", ns[at(k)], 0), AuCmd("out_amp", ns[at(k)], 0),
                     AuCmd("in_amp", ns[at(k)], 0), AuCmd("length", ns[at(k)], 0)>>[no(k)]
    BY <1>3 DEF WidgetReads
  <2>3. CASE no(k) = 1
    BY <2>2, <2>3 DEF AuCmd
  <2>4. CASE no(k) = 2
    BY <2>2, <2>4 DEF AuCmd
  <2>5. CASE no(k) = 3
    BY <2>2, <2>5 DEF AuCmd
  <2>6. CASE no(k) = 4
    BY <2>2, <2>6 DEF AuCmd
  <2>7. CASE no(k) = 5
    BY <2>2, <2>7 DEF AuCmd
  <2> QED BY <2>1, <2>3, <2>4, <2>5, <2>6, <2>7
<1>6. ASSUME NEW k \in 1..(5 * Len(ns)) PROVE front[k] \in AuCmds /\ front[k].nid = ns[at(k)] /\ ns[at(k)] \in DOMAIN codec.widgets
  <2>1. ns[at(k)] \in DOMAIN codec.widgets /\ ns[at(k)] \in Nat
    BY <1>1, <1>2, <1>4
  <2>2. /\ front[k] = [verb |-> front[k].verb, nid |-> ns[at(k)], arg |-> 0]
        /\ front[k].verb \in {"caps", "config", "out_amp", "in_amp", "length"}
    BY <1>5
  <2>3. front[k].nid = ns[at(k)]
    BY <2>2
  <2> QED BY <2>1, <2>2, <2>3 DEF AuCmds, ReadVerbs
<1>7. front \in Seq(AuCmds) /\ Len(front) = 5 * Len(ns)
  <2>1. 5 * Len(ns) \in Nat
    BY <1>2
  <2>2. front \in [1..(5 * Len(ns)) -> AuCmds]
    BY <1>3, <1>6
  <2> QED BY <2>1, <2>2
<1>8. ReadsNodes(codec, front)
  BY <1>5, <1>6, <1>7 DEF ReadsNodes, ReadVerbs
<1>9. \A k \in 1..Len(front) : front[k].verb \notin {"entry", "nodes"}
  BY <1>5, <1>7
<1>10. ReadsInOrder(front)
  BY <1>9 DEF ReadsInOrder
<1>11. ASSUME NEW k \in 1..Len(front), front[k].verb = "length"
       PROVE  \E j \in 1..(k - 1) : /\ front[j].verb = "caps" /\ front[j].nid = front[k].nid
                                    /\ NotAsked(front, j, k, front[k].nid)
  <2>1. no(k) = 5 /\ k = 5 * (at(k) - 1) + 5 /\ at(k) \in 1..Len(ns)
    BY <1>4, <1>5, <1>7, <1>11
  <2>2. ASSUME NEW i \in (k - 4)..(k - 1)
        PROVE  i \in 1..(5 * Len(ns)) /\ at(i) = at(k) /\ no(i) = i - (k - 5)
    <3>1. i \in 1..(5 * Len(ns))
      BY <1>2, <1>7, <2>1
    <3>2. at(i) \in 1..Len(ns) /\ no(i) \in 1..5 /\ i = 5 * (at(i) - 1) + no(i)
      BY <1>4, <3>1
    <3>3. i - (k - 5) \in 1..5 /\ 5 * (at(i) - 1) + no(i) = 5 * (at(k) - 1) + (i - (k - 5))
      BY <2>1, <3>2
    <3>4. at(i) \in Nat /\ at(k) \in Nat
      BY <2>1, <3>2
    <3> DEFINE a == at(i)
               b == at(k)
               p == no(i)
               q == i - (k - 5)
    <3>5. a \in Nat /\ b \in Nat /\ p \in 1..5 /\ q \in 1..5 /\ 5 * (a - 1) + p = 5 * (b - 1) + q
      BY <3>2, <3>3, <3>4
    <3>6. a = b /\ p = q
      <4> HIDE DEF a, b, p, q
      <4> QED BY <3>5, SameFive
    <3> QED BY <3>1, <3>6
  <2>3. k - 4 \in 1..(k - 1) /\ k - 4 \in (k - 4)..(k - 1) /\ (k - 4) - (k - 5) = 1
    <3>1. at(k) \in Nat /\ at(k) >= 1
      BY <1>2, <2>1
    <3>2. k \in Nat /\ k >= 5
      BY ONLY <2>1, <3>1
    <3> QED BY ONLY <3>2
  <2>4. front[k - 4].verb = "caps" /\ front[k - 4].nid = front[k].nid
    <3>1. at(k - 4) = at(k) /\ no(k - 4) = 1 /\ k - 4 \in 1..(5 * Len(ns))
      BY <2>2, <2>3
    <3> QED BY <1>5, <1>6, <1>7, <3>1
  <2>5. ASSUME NEW i \in (k - 4)..(k - 1) PROVE ~AsksList(front[i], front[k].nid)
    <3>1. i \in 1..(5 * Len(ns)) /\ no(i) # 5
      BY <2>2, <1>7
    <3> QED BY <1>5, <3>1 DEF AsksList
  <2> QED BY <2>3, <2>4, <2>5 DEF NotAsked
<1>12. ASSUME NEW j \in 1..Len(front), front[j].verb = "caps"
       PROVE  \E k \in (j + 1)..Len(front) : front[k].verb = "length" /\ front[k].nid = front[j].nid
  <2>1. no(j) = 1 /\ j = 5 * (at(j) - 1) + 1 /\ at(j) \in 1..Len(ns)
    BY <1>4, <1>5, <1>7, <1>12
  <2>2. j + 4 \in 1..(5 * Len(ns)) /\ j + 4 \in (j + 1)..Len(front)
    BY <1>2, <1>7, <2>1
  <2>3. at(j + 4) \in 1..Len(ns) /\ no(j + 4) \in 1..5 /\ j + 4 = 5 * (at(j + 4) - 1) + no(j + 4)
    BY <1>4, <2>2
  <2>4. at(j + 4) = at(j) /\ no(j + 4) = 5
    BY <1>2, <2>1, <2>3
  <2> QED BY <1>5, <1>6, <1>7, <2>2, <2>4
<1>13. ListsNew(seen, front)
  BY <1>11, <1>12 DEF ListsNew, ListIsNew
<1> QED BY <1>7, <1>8, <1>9, <1>10, <1>11, <1>13

\* The lesser of two positions.
LEMMA LesserOf ==
    ASSUME NEW a \in Nat, NEW b \in Nat
    PROVE  Min({a, b}) = IF a <= b THEN a ELSE b
<1> DEFINE m == IF a <= b THEN a ELSE b
<1>1. m \in {a, b} /\ \A y \in {a, b} : m <= y
  OBVIOUS
<1>2. \A x \in {a, b} : (\A y \in {a, b} : x <= y) => x = m
  OBVIOUS
<1> HIDE DEF m
<1>3. Min({a, b}) = m
  BY <1>1, <1>2 DEF Min
<1> QED BY <1>3 DEF m

\* What an answer adds to the part of a list that has been read.
LEMMA EntriesTold ==
    ASSUME NEW c, NEW read \in Seq(Nat), c.arg = Len(read), auCodec.widgets[c.nid].conns \in Seq(Nat),
           BeginsList(auCodec, read, c.nid)
    PROVE  /\ read \o EntriesAt(c) \in Seq(Nat) /\ Len(read \o EntriesAt(c)) = Len(read) + Len(EntriesAt(c))
           /\ BeginsList(auCodec, read \o EntriesAt(c), c.nid)
<1> DEFINE list == auCodec.widgets[c.nid].conns
           more == EntriesAt(c)
<1>0. /\ list \in Seq(Nat) /\ Len(read) <= Len(list) /\ \A k \in 1..Len(read) : read[k] = list[k]
      /\ more = SubSeq(list, Len(read) + 1, Min({Len(read) + 2, Len(list)}))
  BY DEF BeginsList, EntriesAt
<1> HIDE DEF list, more
<1> DEFINE a == Len(read)
           m == Min({a + 2, Len(list)})
<1>1. a \in Nat /\ Len(list) \in Nat /\ a + 2 \in Nat /\ a <= Len(list)
  BY <1>0
<1>2. m = IF a + 2 <= Len(list) THEN a + 2 ELSE Len(list)
  BY <1>1, LesserOf
<1>3. m \in Nat /\ a <= m /\ m <= Len(list)
  BY <1>1, <1>2
<1> HIDE DEF m
<1>4. more = SubSeq(list, a + 1, m)
  BY <1>0 DEF m
<1>5. more \in Seq(Nat) /\ Len(more) = m - a /\ \A k \in 1..(m - a) : more[k] = list[a + k]
  <2>1. a + 1 \in Int /\ m \in Int /\ \A i \in (a + 1)..m : list[i] \in Nat
    BY <1>0, <1>1, <1>3
  <2>2. /\ more \in Seq(Nat) /\ Len(more) = IF a + 1 <= m THEN m - (a + 1) + 1 ELSE 0
        /\ \A i \in 1..(m - (a + 1) + 1) : more[i] = list[a + 1 + i - 1]
    <3> DEFINE b == a + 1
               t == SubSeq(list, b, m)
    <3>1. b \in Int /\ m \in Int /\ \A i \in b..m : list[i] \in Nat
      BY <2>1
    <3> HIDE DEF b
    <3>2. /\ t \in Seq(Nat) /\ Len(t) = IF b <= m THEN m - b + 1 ELSE 0
          /\ \A i \in 1..(m - b + 1) : t[i] = list[b + i - 1]
      BY ONLY <3>1, SubSeqProperties, SMT
    <3> QED BY <1>4, <3>2 DEF b
  <2>3. Len(more) = m - a /\ m - (a + 1) + 1 = m - a
    BY ONLY <1>1, <1>3, <2>2
  <2>4. ASSUME NEW i \in 1..(m - a) PROVE a + 1 + i - 1 = a + i
    BY <1>1, <1>3
  <2> QED BY <2>2, <2>3, <2>4
<1>6. /\ read \o more \in Seq(Nat) /\ Len(read \o more) = a + Len(more) /\ a + Len(more) = m
      /\ \A i \in 1..(a + Len(more)) : (read \o more)[i] = IF i <= a THEN read[i] ELSE more[i - a]
  <2>1. a + Len(more) = m
    BY <1>1, <1>3, <1>5
  <2>2. /\ read \o more \in Seq(Nat) /\ Len(read \o more) = Len(read) + Len(more)
        /\ \A i \in 1..(Len(read) + Len(more)) : (read \o more)[i] = IF i <= Len(read) THEN read[i] ELSE more[i - Len(read)]
    <3>1. more \in Seq(Nat) /\ read \in Seq(Nat)
      BY <1>5
    <3> QED BY ONLY <3>1, ConcatProperties, Zenon
  <2> QED BY <2>1, <2>2
<1>7. ASSUME NEW k \in 1..m PROVE (read \o more)[k] = list[k]
  <2>1. CASE k <= a
    <3>1. k \in 1..a
      BY <1>1, <2>1
    <3> QED BY <1>0, <1>3, <1>6, <2>1, <3>1
  <2>2. CASE k > a
    <3>1. k - a \in 1..(m - a) /\ a + (k - a) = k /\ ~(k <= a)
      BY <1>1, <1>3, <2>2
    <3> QED BY <1>5, <1>6, <3>1
  <2>3. k <= a \/ k > a
    BY <1>1, <1>3
  <2> QED BY <2>1, <2>2, <2>3
<1> QED BY <1>3, <1>6, <1>7 DEF BeginsList, list, more

\* No command follows from an answer.
LEMMA EmptyFront ==
    ASSUME NEW rest \in Seq(AuCmds)
    PROVE  <<>> \in Seq(AuCmds) /\ <<>> \o rest = rest
  OBVIOUS

\* While the widgets are read, an answer leaves what is to be read as it
\* should be.
LEMMA AnswerRead ==
    ASSUME auCodec \in AuCodecs, SeenTypes(auCodec, auSeen), NEW c \in AuCmds, NEW rest \in Seq(AuCmds),
           ReadsInv(auCodec, auSeen, <<c>> \o rest)
    PROVE  /\ After(c) \in Seq(AuCmds) /\ SeenTypes(auCodec, Learnt(c))
           /\ ReadsInv(auCodec, Learnt(c), After(c) \o rest)
<1>0. RestInv(auCodec, auSeen, c, rest)
  BY RestReads
<1>1. /\ c.verb \in ReadVerbs /\ c = [verb |-> c.verb, nid |-> c.nid, arg |-> c.arg] /\ c.nid \in Nat
      /\ c.verb = "nodes" => c.nid \in {0} \cup DOMAIN auCodec.below
      /\ c.verb # "nodes" => c.nid \in DOMAIN auCodec.widgets
  <2>1. ReadsNodes(auCodec, <<c>>) /\ Len(<<c>>) = 1 /\ <<c>>[1] = c /\ 1 \in 1..1
    BY <1>0 DEF RestInv
  <2> QED BY <2>1 DEF ReadsNodes, AuCmds
<1>2. /\ DOMAIN auSeen \subseteq DOMAIN auCodec.widgets /\ auSeen = [n \in DOMAIN auSeen |-> auSeen[n]]
      /\ \A n \in DOMAIN auSeen :
           /\ auSeen[n] = [type |-> auSeen[n].type, pin |-> auSeen[n].pin, conns |-> auSeen[n].conns]
           /\ auSeen[n].conns \in Seq(Nat)
  BY DEF SeenTypes
<1>3. \A n \in DOMAIN auCodec.widgets : /\ auCodec.widgets[n].conns \in Seq(Nat)
                                        /\ auCodec.widgets[n].count = Len(auCodec.widgets[n].conns)
  BY AudioAssumption
<1>4. CASE c.verb = "nodes"
  <2>1. Learnt(c) = auSeen
    BY <1>4 DEF Learnt
  <2>2. CASE c.nid = 0
    <3>1. After(c) = [k \in 1..Len(auCodec.groups) |-> AuCmd("nodes", auCodec.groups[k], 0)]
      BY <1>4, <2>2 DEF After
    <3> DEFINE front == After(c)
    <3> HIDE DEF front
    <3>2. /\ front \in Seq(AuCmds) /\ ReadsNodes(auCodec, front) /\ ReadsInOrder(front) /\ ListsNew(auSeen, front)
          /\ \A k \in 1..Len(front) : front[k].verb = "nodes"
      BY <3>1, GroupsTold DEF front
    <3>3. ReadsInv(auCodec, auSeen, front \o rest)
      BY <1>4, <3>2, NodesAnswered
    <3> QED BY <2>1, <3>2, <3>3 DEF front
  <2>3. CASE c.nid # 0
    <3>1. After(c) = ForEach(auCodec.below[c.nid], 5, WidgetReads) /\ c.nid \in DOMAIN auCodec.below
      BY <1>1, <1>4, <2>3 DEF After
    <3> DEFINE front == After(c)
    <3> HIDE DEF front
    <3>2. /\ front \in Seq(AuCmds) /\ ReadsNodes(auCodec, front) /\ ReadsInOrder(front) /\ ListsNew(auSeen, front)
          /\ \A k \in 1..Len(front) : front[k].verb # "entry"
          /\ \A k \in 1..Len(front) : front[k].verb = "length" =>
               \E j \in 1..(k - 1) : /\ front[j].verb = "caps" /\ front[j].nid = front[k].nid
                                    /\ NotAsked(front, j, k, front[k].nid)
      BY <3>1, WidgetsTold DEF front
    <3>3. ReadsInv(auCodec, auSeen, front \o rest)
      BY <1>4, <3>2, NodesAnswered
    <3> QED BY <2>1, <3>2, <3>3 DEF front
  <2> QED BY <2>2, <2>3
<1>5. CASE c.verb = "caps"
  <2> DEFINE now == Learnt(c)
  <2>1. /\ After(c) = <<>> /\ c.nid \in DOMAIN auCodec.widgets
        /\ now = [n \in DOMAIN auSeen \cup {c.nid} |->
                    IF n = c.nid THEN [type |-> auCodec.widgets[n].type, pin |-> <<>>, conns |-> <<>>] ELSE auSeen[n]]
    BY <1>1, <1>5 DEF After, Learnt
  <2> HIDE DEF now
  <2>2. /\ DOMAIN now = DOMAIN auSeen \cup {c.nid} /\ now[c.nid].conns = <<>>
        /\ \A n \in DOMAIN auSeen : n # c.nid => now[n] = auSeen[n]
        /\ now[c.nid] = [type |-> now[c.nid].type, pin |-> now[c.nid].pin, conns |-> now[c.nid].conns]
        /\ now = [n \in DOMAIN now |-> now[n]]
    BY <2>1
  <2>3. ReadsInv(auCodec, now, rest)
    BY <1>3, <1>5, <2>1, <2>2, CapsAnswered
  <2>4. SeenTypes(auCodec, now)
    <3>1. <<>> \in Seq(Nat)
      OBVIOUS
    <3> QED BY <1>2, <2>1, <2>2, <3>1 DEF SeenTypes
  <2> QED BY <2>1, <2>3, <2>4, EmptyFront DEF now
<1>6. CASE c.verb \in {"config", "out_amp", "in_amp"}
  <2> DEFINE now == Learnt(c)
  <2>1. After(c) = <<>>
    BY <1>6 DEF After
  <2>2. now = auSeen \/ now = [auSeen EXCEPT ![c.nid].pin = auCodec.widgets[c.nid].pin]
    BY <1>6 DEF Learnt
  <2> HIDE DEF now
  <2>3. /\ DOMAIN now = DOMAIN auSeen /\ now = [n \in DOMAIN now |-> now[n]]
        /\ \A n \in DOMAIN auSeen : /\ now[n].conns = auSeen[n].conns
                                    /\ now[n] = [type |-> now[n].type, pin |-> now[n].pin, conns |-> now[n].conns]
    <3>1. CASE now = auSeen
      BY <1>2, <3>1
    <3>2. CASE now = [auSeen EXCEPT ![c.nid].pin = auCodec.widgets[c.nid].pin]
      <4>1. DOMAIN now = DOMAIN auSeen /\ now = [n \in DOMAIN now |-> now[n]]
        BY <3>2
      <4>2. ASSUME NEW n \in DOMAIN auSeen
            PROVE  /\ now[n].conns = auSeen[n].conns
                   /\ now[n] = [type |-> now[n].type, pin |-> now[n].pin, conns |-> now[n].conns]
        <5>1. auSeen[n] = [type |-> auSeen[n].type, pin |-> auSeen[n].pin, conns |-> auSeen[n].conns]
          BY <1>2
        <5>2. now[n] = auSeen[n] \/ now[n] = [auSeen[n] EXCEPT !.pin = auCodec.widgets[c.nid].pin]
          BY <3>2
        <5>3. CASE now[n] = auSeen[n]
          BY <5>1, <5>3
        <5>4. CASE now[n] = [auSeen[n] EXCEPT !.pin = auCodec.widgets[c.nid].pin]
          <6>1. now[n] = [type |-> auSeen[n].type, pin |-> auCodec.widgets[c.nid].pin, conns |-> auSeen[n].conns]
            BY <5>1, <5>4
          <6> QED BY <6>1
        <5> QED BY <5>2, <5>3, <5>4
      <4> QED BY <4>1, <4>2
    <3> QED BY <2>2, <3>1, <3>2
  <2>4. ReadsInv(auCodec, now, rest)
    BY <1>6, <2>3, OtherAnswered
  <2>5. SeenTypes(auCodec, now)
    BY <1>2, <2>3 DEF SeenTypes
  <2> QED BY <2>1, <2>4, <2>5, EmptyFront DEF now
<1>7. ASSUME NEW conns \in Seq(Nat), c.verb \in {"length", "entry"}, c.nid \in DOMAIN auSeen,
             BeginsList(auCodec, conns, c.nid), NEW now, now = Learnt(c),
             DOMAIN now = DOMAIN auSeen, now[c.nid].conns = conns,
             \A n \in DOMAIN auSeen : n # c.nid => now[n].conns = auSeen[n].conns,
             After(c) = EntriesFrom(c.nid, Len(conns))
      PROVE  After(c) \in Seq(AuCmds) /\ ReadsInv(auCodec, now, After(c) \o rest)
  <2> DEFINE e == AuCmd("entry", c.nid, Len(conns))
  <2>1. e \in AuCmds /\ e.verb = "entry" /\ e.nid = c.nid /\ e.arg = Len(conns)
    BY <1>1 DEF AuCmd, AuCmds, ReadVerbs
  <2>2. After(c) = IF Len(conns) < Len(auCodec.widgets[c.nid].conns) THEN <<e>> ELSE <<>>
    BY <1>1, <1>3, <1>7 DEF EntriesFrom
  <2> HIDE DEF e
  <2>3. c.nid \in DOMAIN auCodec.widgets
    BY <1>2, <1>7
  <2>4. /\ Len(conns) = Len(auCodec.widgets[c.nid].conns) => ReadsInv(auCodec, now, rest)
        /\ ReadsInv(auCodec, now, <<e>> \o rest)
    <3>1. ListGrows(auCodec, auSeen, now, c.nid, conns)
      BY <1>7, <2>3 DEF ListGrows
    <3> QED BY <1>7, <2>1, <3>1, ListAnswered
  <2>5. CASE Len(conns) < Len(auCodec.widgets[c.nid].conns)
    <3>1. After(c) = <<e>> /\ <<e>> \in Seq(AuCmds)
      BY <2>1, <2>2, <2>5
    <3> QED BY <2>4, <3>1
  <2>6. CASE ~(Len(conns) < Len(auCodec.widgets[c.nid].conns))
    <3>1. Len(conns) = Len(auCodec.widgets[c.nid].conns)
      BY <1>3, <1>7, <2>3, <2>6 DEF BeginsList
    <3>2. After(c) = <<>>
      BY <2>2, <2>6
    <3> QED BY <2>4, <3>1, <3>2, EmptyFront
  <2> QED BY <2>5, <2>6
<1>8. CASE c.verb = "length"
  <2> DEFINE now == Learnt(c)
  <2>1. now = auSeen /\ After(c) = EntriesFrom(c.nid, 0)
    BY <1>8 DEF After, Learnt
  <2>2. c.nid \in DOMAIN auSeen /\ auSeen[c.nid].conns = <<>>
    BY <1>0, <1>8 DEF RestInv
  <2>3. <<>> \in Seq(Nat) /\ Len(<<>>) = 0
    OBVIOUS
  <2>4. BeginsList(auCodec, <<>>, c.nid)
    <3>1. Len(auCodec.widgets[c.nid].conns) \in Nat
      BY <1>2, <1>3, <2>2
    <3> QED BY <2>3, <3>1 DEF BeginsList
  <2> HIDE DEF now
  <2>5. DOMAIN now = DOMAIN auSeen /\ now[c.nid].conns = <<>> /\ \A n \in DOMAIN auSeen : now[n].conns = auSeen[n].conns
    BY <2>1, <2>2
  <2>6. After(c) \in Seq(AuCmds) /\ ReadsInv(auCodec, now, After(c) \o rest)
    BY <1>7, <1>8, <2>1, <2>2, <2>3, <2>4, <2>5 DEF now
  <2> QED BY <2>1, <2>6 DEF now
<1>9. CASE c.verb = "entry"
  <2> DEFINE now == Learnt(c)
             read == auSeen[c.nid].conns
             more == EntriesAt(c)
             conns == read \o more
  <2>1. c.nid \in DOMAIN auSeen /\ c.arg = Len(read)
    <3>1. EntryNext(auSeen, <<c>>) /\ Len(<<c>>) = 1 /\ <<c>>[1] = c
      BY <1>0 DEF RestInv
    <3> QED BY <1>9, <3>1 DEF EntryNext
  <2>2. now = [auSeen EXCEPT ![c.nid].conns = conns] /\ After(c) = EntriesFrom(c.nid, Len(read) + Len(more))
    BY <1>9 DEF After, Learnt
  <2>3. BeginsList(auCodec, read, c.nid) /\ read \in Seq(Nat) /\ auCodec.widgets[c.nid].conns \in Seq(Nat)
    BY <1>0, <1>2, <1>3, <2>1 DEF RestInv
  <2>5. conns \in Seq(Nat) /\ Len(conns) = Len(read) + Len(more) /\ BeginsList(auCodec, conns, c.nid)
    <3> HIDE DEF read
    <3> QED BY <2>1, <2>3, EntriesTold
  <2> HIDE DEF read, more
  <2> HIDE DEF now, conns
  <2>6. /\ DOMAIN now = DOMAIN auSeen /\ now = [n \in DOMAIN now |-> now[n]]
        /\ \A n \in DOMAIN auSeen : n # c.nid => now[n] = auSeen[n]
        /\ now[c.nid] = [type |-> auSeen[c.nid].type, pin |-> auSeen[c.nid].pin, conns |-> conns]
    <3>1. now[c.nid] = [auSeen[c.nid] EXCEPT !.conns = conns]
      BY <2>1, <2>2
    <3>2. auSeen[c.nid] = [type |-> auSeen[c.nid].type, pin |-> auSeen[c.nid].pin, conns |-> auSeen[c.nid].conns]
      BY <1>2, <2>1
    <3>3. now[c.nid] = [type |-> auSeen[c.nid].type, pin |-> auSeen[c.nid].pin, conns |-> conns]
      BY <3>1, <3>2
    <3> QED BY <2>2, <3>3
  <2>7. now[c.nid].conns = conns /\ now[c.nid] = [type |-> now[c.nid].type, pin |-> now[c.nid].pin, conns |-> now[c.nid].conns]
    BY <2>6
  <2>8. After(c) \in Seq(AuCmds) /\ ReadsInv(auCodec, now, After(c) \o rest)
    <3>1. After(c) = EntriesFrom(c.nid, Len(conns))
      BY <2>2, <2>5
    <3> QED BY <1>7, <1>9, <2>1, <2>5, <2>6, <2>7, <3>1 DEF now
  <2>9. SeenTypes(auCodec, now)
    BY <1>2, <2>5, <2>6, <2>7 DEF SeenTypes
  <2> QED BY <2>8, <2>9 DEF now
<1> QED BY <1>1, <1>4, <1>5, <1>6, <1>8, <1>9 DEF ReadVerbs

-----------------------------------------------------------------------------
\* A command of the setup has been answered, so the codec has carried it out.
LEMMA AnswerSetup ==
    ASSUME NEW c \in AuCmds, NEW rest \in Seq(AuCmds), <<c.verb, c.nid>> \in auSet,
           SetupInv(auCodec, auSeen, auPath, auSet, <<c>> \o rest)
    PROVE  After(c) = <<>> /\ Learnt(c) = auSeen /\ SetupInv(auCodec, auSeen, auPath, auSet, rest)
<1> DEFINE due == <<c>> \o rest
<1>1. /\ Len(due) = Len(rest) + 1 /\ due[1] = c /\ Len(rest) \in Nat /\ \A k \in 1..Len(rest) : due[k + 1] = rest[k]
  OBVIOUS
<1> HIDE DEF due
<1>2. /\ ListsRead(auCodec, auSeen) /\ PathFound(auSeen, auPath) /\ PathWillBeSet(auPath, auSet, due)
      /\ \A k \in 1..Len(due) : due[k].verb \in SetVerbs
  BY DEF SetupInv, due
<1>3. c.verb \in SetVerbs
  <2>1. 1 \in 1..Len(due)
    BY <1>1
  <2> QED BY <1>1, <1>2, <2>1
<1>4. After(c) = <<>> /\ Learnt(c) = auSeen
  BY <1>3 DEF After, Learnt, SetVerbs
<1>5. \A k \in 1..Len(rest) : rest[k].verb \in SetVerbs
  <2>1. \A k \in 1..Len(rest) : k + 1 \in 1..Len(due)
    BY <1>1
  <2> QED BY <1>1, <1>2, <2>1
<1>6. ASSUME NEW v, NEW n, WillBeSet(auSet, due, v, n) PROVE WillBeSet(auSet, rest, v, n)
  <2>1. ASSUME NEW k \in 1..Len(due), due[k].verb = v, due[k].nid = n PROVE WillBeSet(auSet, rest, v, n)
    <3>1. CASE k = 1
      BY <1>1, <2>1, <3>1 DEF WillBeSet
    <3>2. CASE k # 1
      <4>1. k - 1 \in 1..Len(rest) /\ (k - 1) + 1 = k
        BY <1>1, <3>2
      <4>2. rest[k - 1] = due[k]
        BY <1>1, <4>1
      <4> QED BY <2>1, <4>1, <4>2 DEF WillBeSet
    <3> QED BY <3>1, <3>2
  <2> QED BY <1>6, <2>1 DEF WillBeSet
<1>7. PathWillBeSet(auPath, auSet, rest)
  BY <1>2, <1>6 DEF PathWillBeSet
<1> QED BY <1>2, <1>4, <1>5, <1>7 DEF SetupInv

\* The codec carries out more.
LEMMA SetGrows ==
    ASSUME NEW codec, NEW seen, NEW path, NEW set, NEW more, NEW due, set \subseteq more,
           SetupInv(codec, seen, path, set, due)
    PROVE  SetupInv(codec, seen, path, more, due)
<1>1. \A v, n : WillBeSet(set, due, v, n) => WillBeSet(more, due, v, n)
  BY DEF WillBeSet
<1> QED BY <1>1 DEF SetupInv, PathWillBeSet

\* Nothing is left to be read.
LEMMA AllRead ==
    ASSUME auCodec \in AuCodecs, SeenTypes(auCodec, auSeen), ReadsInv(auCodec, auSeen, <<>>)
    PROVE  ListsRead(auCodec, auSeen)
<1> SUFFICES ASSUME NEW n \in DOMAIN auSeen PROVE auSeen[n].conns = auCodec.widgets[n].conns
  BY DEF ListsRead
<1> DEFINE s == auSeen[n].conns
           t == auCodec.widgets[n].conns
<1>1. n \in DOMAIN auCodec.widgets /\ s \in Seq(Nat)
  BY DEF SeenTypes
<1>2. t \in Seq(Nat)
  BY <1>1, AudioAssumption
<1>3. WillBeRead(auCodec, auSeen, <<>>, n) /\ Len(<<>>) = 0 /\ 1..0 = {}
  BY DEF ReadsInv
<1>4. Len(s) = Len(t) /\ \A k \in 1..Len(s) : s[k] = t[k]
  BY <1>3 DEF WillBeRead, BeginsList
<1> HIDE DEF s, t
<1>5. s = t
  BY <1>1, <1>2, <1>4
<1> QED BY <1>5 DEF s, t

\* The pin that is found is one of the pins.
LEMMA PinFound ==
    ASSUME auCodec \in AuCodecs, SeenTypes(auCodec, auSeen), FindBestOutputPin # 0
    PROVE  FindBestOutputPin \in PinsOut
<1>1. PinsOut \subseteq Nat
  BY AudioAssumption DEF PinsOut, SeenTypes
<1>2. ASSUME NEW T \in SUBSET PinsOut, T # {} PROVE Min(T) \in PinsOut
  BY <1>1, <1>2, LeastIn
<1>3. ASSUME NEW devices, NEW fitted, fitted = {d \in 1..Len(devices) : \E n \in PinsOut : FitsWired(n, devices[d])},
             Len(devices) \in Nat, fitted # {}
      PROVE  Min({n \in PinsOut : FitsWired(n, devices[Min(fitted)])}) \in PinsOut
  <2>0. fitted \subseteq Nat
    BY <1>3
  <2>1. Min(fitted) \in fitted
    BY <1>3, <2>0, LeastIn
  <2>2. {n \in PinsOut : FitsWired(n, devices[Min(fitted)])} # {}
    BY <1>3, <2>1
  <2> QED BY <1>2, <2>2
<1>4. ASSUME NEW devices, NEW fitted, fitted = {d \in 1..Len(devices) : \E n \in PinsOut : FitsDevice(n, devices[d])},
             Len(devices) \in Nat, fitted # {}
      PROVE  Min({n \in PinsOut : FitsDevice(n, devices[Min(fitted)])}) \in PinsOut
  <2>0. fitted \subseteq Nat
    BY <1>4
  <2>1. Min(fitted) \in fitted
    BY <1>4, <2>0, LeastIn
  <2>2. {n \in PinsOut : FitsDevice(n, devices[Min(fitted)])} # {}
    BY <1>4, <2>1
  <2> QED BY <1>2, <2>2
<1>5. ASSUME NEW devices, Len(devices) \in Nat, FirstPin(devices, FitsWired) # 0
      PROVE  FirstPin(devices, FitsWired) \in PinsOut
  BY <1>3, <1>5 DEF FirstPin
<1>6. ASSUME NEW devices, Len(devices) \in Nat, FirstPin(devices, FitsDevice) # 0
      PROVE  FirstPin(devices, FitsDevice) \in PinsOut
  BY <1>4, <1>6 DEF FirstPin
<1>7. Len(<<"HPOut", "LineOut", "Speaker">>) \in Nat /\ Len(<<"HPOut", "LineOut", "DigitalOtherOut">>) \in Nat
  OBVIOUS
<1>8. PinsOut # {} => Min(PinsOut) \in PinsOut
  BY <1>2
<1> QED BY <1>5, <1>6, <1>7, <1>8 DEF FindBestOutputPin

\* The path leads from a converter to the pin.
LEMMA PathLeads ==
    ASSUME NEW pin \in PinsOut, PathToDac(pin) # <<>>
    PROVE  PathFound(auSeen, PathToDac(pin))
<1> DEFINE p == PathToDac(pin)
<1>1. p \in LeadsTo(pin)
  BY DEF PathToDac
<1> HIDE DEF p
<1>2. PICK n \in 1..(AuTtl + 1) : p \in [1..n -> DOMAIN auSeen]
  BY <1>1 DEF LeadsTo
<1>3. n \in Nat \ {0}
  BY <1>2, AudioAssumption
<1>4. p \in Seq(DOMAIN auSeen) /\ Len(p) = n /\ p # <<>>
  BY <1>2, <1>3
<1>5. /\ p[Len(p)] = pin /\ auSeen[p[1]].type = "output"
      /\ \A k \in 2..Len(p) : p[k - 1] = Head(auSeen[p[k]].conns)
  BY <1>1 DEF LeadsTo
<1>6. ASSUME NEW k \in 1..(Len(p) - 1) PROVE p[k] = Head(auSeen[p[k + 1]].conns)
  <2>1. k + 1 \in 2..Len(p) /\ (k + 1) - 1 = k
    BY <1>3, <1>4
  <2> QED BY <1>5, <2>1
<1>7. auSeen[pin].type = "pin"
  BY DEF PinsOut
<1> QED BY <1>4, <1>5, <1>6, <1>7 DEF PathFound, p

\* The setup is about the pin and, two commands for each, the path.
LEMMA SetupTold ==
    ASSUME NEW pin \in Nat, NEW N \in SUBSET Nat, NEW path \in Seq(N), path # <<>>, NEW set
    PROVE  /\ SetupCommands(pin, path) \in Seq(AuCmds)
           /\ \A k \in 1..Len(SetupCommands(pin, path)) : SetupCommands(pin, path)[k].verb \in SetVerbs
           /\ PathWillBeSet(path, set, SetupCommands(pin, path))
<1> DEFINE L == Len(path)
           Cmds == {x \in AuCmds : x.verb \in SetVerbs}
           NodeOf(k) == path[((k - 1) \div 2) + 1]
           mid == [k \in 1..(2 * L) |-> <<AuCmd("amp", NodeOf(k), 0), AuCmd("power", NodeOf(k), 0)>>[((k - 1) % 2) + 1]]
           first == <<AuCmd("pin", pin, 0), AuCmd("eapd", pin, 0)>>
           last == <<AuCmd("format", path[1], 0), AuCmd("stream", path[1], 0)>>
           due == first \o mid \o last
<1>1. L \in Nat /\ L >= 1 /\ \A k \in 1..L : path[k] \in Nat
  <2>1. L \in Nat /\ L >= 1
    OBVIOUS
  <2>2. \A k \in 1..L : path[k] \in N
    OBVIOUS
  <2> QED BY <2>1, <2>2
<1>2. SetupCommands(pin, path) = due
  BY DEF SetupCommands, ForEach
<1>3. ASSUME NEW v \in {"pin", "eapd", "amp", "power", "format", "stream"}, NEW n \in Nat
      PROVE  AuCmd(v, n, 0) \in Cmds /\ AuCmd(v, n, 0).verb = v /\ AuCmd(v, n, 0).nid = n
  BY DEF AuCmd, AuCmds, SetVerbs
<1>4. ASSUME NEW k \in 1..(2 * L) PROVE mid[k] \in Cmds
  <2>1. ((k - 1) \div 2) + 1 \in 1..L /\ ((k - 1) % 2) + 1 \in {1, 2}
    BY <1>1
  <2>2. NodeOf(k) \in Nat
    BY <1>1, <2>1
  <2>3. AuCmd("amp", NodeOf(k), 0) \in Cmds /\ AuCmd("power", NodeOf(k), 0) \in Cmds
    BY <1>3, <2>2
  <2> DEFINE a == AuCmd("amp", NodeOf(k), 0)
             b == AuCmd("power", NodeOf(k), 0)
             o == ((k - 1) % 2) + 1
  <2>4. mid[k] = <<a, b>>[o] /\ o \in {1, 2} /\ a \in Cmds /\ b \in Cmds
    BY <2>1, <2>3
  <2> HIDE DEF a, b, o, mid, Cmds
  <2> QED BY <2>4
<1>5. ASSUME NEW i \in 1..L
      PROVE  /\ 2 * i - 1 \in 1..(2 * L) /\ mid[2 * i - 1] = AuCmd("amp", path[i], 0)
             /\ 2 * i \in 1..(2 * L) /\ mid[2 * i] = AuCmd("power", path[i], 0)
  <2>1. 2 * i - 1 \in 1..(2 * L) /\ 2 * i \in 1..(2 * L)
    BY <1>1
  <2>2. /\ (((2 * i - 1) - 1) \div 2) + 1 = i /\ (((2 * i - 1) - 1) % 2) + 1 = 1
        /\ (((2 * i) - 1) \div 2) + 1 = i /\ (((2 * i) - 1) % 2) + 1 = 2
    BY <1>1
  <2>3. mid[2 * i - 1] = <<AuCmd("amp", path[i], 0), AuCmd("power", path[i], 0)>>[1]
    BY <2>1, <2>2
  <2>4. mid[2 * i] = <<AuCmd("amp", path[i], 0), AuCmd("power", path[i], 0)>>[2]
    BY <2>1, <2>2
  <2> QED BY <2>1, <2>3, <2>4
<1>6. mid \in Seq(Cmds) /\ Len(mid) = 2 * L
  <2>0. mid = [k \in 1..(2 * L) |-> mid[k]] /\ 2 * L \in Nat
    BY <1>1
  <2> HIDE DEF mid, Cmds, L
  <2>1. mid \in [1..(2 * L) -> Cmds]
    BY <1>4, <2>0
  <2> QED BY <2>0, <2>1
<1>7. first \in Seq(Cmds) /\ Len(first) = 2 /\ last \in Seq(Cmds) /\ Len(last) = 2 /\ last[2] = AuCmd("stream", path[1], 0)
  <2>1. path[1] \in Nat
    BY <1>1
  <2>2. /\ AuCmd("pin", pin, 0) \in Cmds /\ AuCmd("eapd", pin, 0) \in Cmds
        /\ AuCmd("format", path[1], 0) \in Cmds /\ AuCmd("stream", path[1], 0) \in Cmds
    BY <1>3, <2>1
  <2> HIDE DEF Cmds
  <2> QED BY <2>2
<1> HIDE DEF first, last, mid, Cmds, NodeOf
<1>8. /\ due \in Seq(Cmds) /\ Len(due) = 2 * L + 4 /\ due[2 * L + 4] = last[2]
      /\ \A k \in 1..(2 * L) : due[k + 2] = mid[k]
  <2> DEFINE m == 2 * L
             fm == first \o mid
  <2>0. m \in Nat /\ Len(mid) = m
    BY <1>1, <1>6
  <2> HIDE DEF m
  <2>1. fm \in Seq(Cmds) /\ Len(fm) = m + 2 /\ \A k \in 1..m : fm[k + 2] = mid[k]
    <3>1. /\ fm \in Seq(Cmds) /\ Len(fm) = Len(first) + Len(mid)
          /\ \A k \in 1..(Len(first) + Len(mid)) : fm[k] = IF k <= Len(first) THEN first[k] ELSE mid[k - Len(first)]
      BY <1>6, <1>7, ConcatProperties
    <3>2. \A k \in 1..m : k + 2 \in 1..(2 + m) /\ ~(k + 2 <= 2) /\ (k + 2) - 2 = k
      BY <2>0
    <3> QED BY <1>7, <2>0, <3>1, <3>2
  <2> HIDE DEF fm
  <2>2. /\ fm \o last \in Seq(Cmds) /\ Len(fm \o last) = Len(fm) + Len(last)
        /\ \A k \in 1..(Len(fm) + Len(last)) : (fm \o last)[k] = IF k <= Len(fm) THEN fm[k] ELSE last[k - Len(fm)]
    BY <1>7, <2>1, ConcatProperties
  <2>3. m + 4 \in 1..((m + 2) + 2) /\ ~(m + 4 <= m + 2) /\ (m + 4) - (m + 2) = 2 /\ (m + 2) + 2 = m + 4
    BY <2>0
  <2>4. \A k \in 1..m : k + 2 \in 1..((m + 2) + 2) /\ k + 2 <= m + 2
    BY <2>0
  <2>5. /\ fm \o last \in Seq(Cmds) /\ Len(fm \o last) = m + 4 /\ (fm \o last)[m + 4] = last[2]
        /\ \A k \in 1..m : (fm \o last)[k + 2] = mid[k]
    BY <1>7, <2>1, <2>2, <2>3, <2>4
  <2> QED BY <2>5 DEF fm, m
<1> HIDE DEF due
<1>9. \A k \in 1..Len(due) : due[k] \in Cmds
  BY <1>8
<1>10. due \in Seq(AuCmds) /\ \A k \in 1..Len(due) : due[k].verb \in SetVerbs
  BY <1>8, <1>9 DEF Cmds
<1>11. ASSUME NEW i \in 1..L PROVE WillBeSet(set, due, "amp", path[i]) /\ WillBeSet(set, due, "power", path[i])
  <2>1. path[i] \in Nat
    BY <1>1
  <2>2. due[(2 * i - 1) + 2] = AuCmd("amp", path[i], 0) /\ due[2 * i + 2] = AuCmd("power", path[i], 0)
    BY <1>5, <1>8
  <2>3. (2 * i - 1) + 2 \in 1..Len(due) /\ 2 * i + 2 \in 1..Len(due)
    BY <1>1, <1>8
  <2>4. /\ AuCmd("amp", path[i], 0).verb = "amp" /\ AuCmd("amp", path[i], 0).nid = path[i]
        /\ AuCmd("power", path[i], 0).verb = "power" /\ AuCmd("power", path[i], 0).nid = path[i]
    BY <1>3, <2>1
  <2> QED BY <2>2, <2>3, <2>4 DEF WillBeSet
<1>12. WillBeSet(set, due, "stream", path[1])
  <2>1. 2 * L + 4 \in 1..Len(due) /\ path[1] \in Nat
    BY <1>1, <1>8
  <2>2. due[2 * L + 4].verb = "stream" /\ due[2 * L + 4].nid = path[1]
    BY <1>3, <1>7, <1>8, <2>1
  <2> QED BY <2>1, <2>2 DEF WillBeSet
<1>13. PathWillBeSet(path, set, due)
  BY <1>11, <1>12 DEF PathWillBeSet
<1> QED BY <1>2, <1>10, <1>13

-----------------------------------------------------------------------------
ThreadSet == [stage : {"enumerate", "setup", "play"}, pc : {"issue", "await", "write", "copy"},
              todo : Seq(AuCmds), cmd : AuCmds, notes : SUBSET Nat]

\* The thread as it is after a step.
LEMMA ThreadIs ==
    ASSUME NEW stage \in {"enumerate", "setup", "play"}, NEW step \in {"issue", "await", "write", "copy"},
           NEW todo \in Seq(AuCmds), NEW cmd \in AuCmds, NEW notes \in SUBSET Nat,
           auRun' = [stage |-> stage, pc |-> step, todo |-> todo, cmd |-> cmd, notes |-> notes]
    PROVE  /\ auRun' \in ThreadSet /\ auRun'.stage = stage /\ auRun'.pc = step /\ auRun'.todo = todo
           /\ auRun'.cmd = cmd /\ auRun'.notes = notes
BY DEF ThreadSet

\* The command that is waited for is one.
LEMMA CommandIs ==
    ASSUME AuTypes, DriverInv, auRun.pc = "await"
    PROVE  auRun.cmd # NoAuCmd
<1> DEFINE due == <<auRun.cmd>> \o auRun.todo
<1>1. Len(due) >= 1 /\ due[1] = auRun.cmd /\ Unanswered = due
  BY ThreadTypes DEF Unanswered
<1>2. 1 \in 1..Len(due)
  BY <1>1, ThreadTypes
<1> HIDE DEF due
<1>3. auRun.cmd.verb \in ReadVerbs \cup SetVerbs
  BY <1>1, <1>2 DEF DriverInv, ReadsInv, ReadsNodes, SetupInv
<1> QED BY <1>3 DEF NoAuCmd, AuCmd, ReadVerbs, SetVerbs

\* The driver waits, or the codec carries out a command.
LEMMA DriverRests ==
    ASSUME DriverInv, UNCHANGED <<auCodec, auSeen, auPath>>, auSet \subseteq auSet', Unanswered' = Unanswered,
           auRun'.stage = auRun.stage, auRun'.pc \in {"write", "copy"} => auRun'.todo = <<>> /\ auRun'.stage = "play",
           auPlays' # -1 <=> auPlays # -1
    PROVE  DriverInv'
<1>1. SeenTypes(auCodec, auSeen)'
  BY DEF DriverInv, SeenTypes
<1>2. ASSUME auRun.stage = "enumerate" PROVE ReadsInv(auCodec', auSeen', Unanswered')
  BY <1>2 DEF DriverInv
<1>3. ASSUME auRun.stage # "enumerate" PROVE SetupInv(auCodec', auSeen', auPath', auSet', Unanswered')
  <2>1. SetupInv(auCodec, auSeen, auPath, auSet, Unanswered)
    BY <1>3 DEF DriverInv
  <2> QED BY <2>1, SetGrows
<1>4. auRun.stage = "play" => \A k \in 1..Len(Unanswered') : Unanswered'[k].verb = "volume"
  BY DEF DriverInv
<1>5. auPlays' # -1 <=> auRun'.stage = "play"
  BY DEF DriverInv
<1>6. /\ SeenTypes(auCodec', auSeen')
      /\ auRun'.stage = "enumerate" => ReadsInv(auCodec', auSeen', Unanswered')
      /\ auRun'.stage # "enumerate" => SetupInv(auCodec', auSeen', auPath', auSet', Unanswered')
      /\ auRun'.stage = "play" => \A k \in 1..Len(Unanswered') : Unanswered'[k].verb = "volume"
  BY <1>1, <1>2, <1>3, <1>4
<1> QED BY <1>5, <1>6 DEF DriverInv

\* The answer to a command is taken, and the next commands are those that
\* follow from it.
LEMMA DriverReads ==
    ASSUME AuTypes, ChannelInv, DriverInv, AuRead
    PROVE  DriverInv' /\ auRun' \in ThreadSet /\ auRun.pc = "await" /\ auRun'.pc = "issue"
<1> DEFINE c == auRun.cmd
           rest == auRun.todo
<1>1. /\ auRun.pc = "await" /\ <<c.verb, c.nid>> \in auSet /\ auSeen' = Learnt(c)
      /\ auRun' = [auRun EXCEPT !.pc = "issue", !.todo = After(c) \o @]
  BY ReadStep
<1>2. c \in AuCmds /\ rest \in Seq(AuCmds) /\ auCodec \in AuCodecs
  BY ThreadTypes DEF AuTypes
<1>3. Unanswered = <<c>> \o rest
  BY <1>1 DEF Unanswered
<1>4. SeenTypes(auCodec, auSeen)
  BY DEF DriverInv
<1>5. UNCHANGED <<auCodec, auPath, auSet, auPlays>>
  BY DEF AuRead, streamVars
<1>6. auRun' = [stage |-> auRun.stage, pc |-> "issue", todo |-> After(c) \o rest, cmd |-> c, notes |-> auRun.notes]
  BY <1>1, ThreadTypes
<1>7. ASSUME After(c) \in Seq(AuCmds)
      PROVE  /\ auRun' \in ThreadSet /\ auRun'.pc = "issue" /\ auRun'.stage = auRun.stage
             /\ Unanswered' = After(c) \o rest
  <2>1. After(c) \o rest \in Seq(AuCmds)
    BY <1>2, <1>7
  <2>2. auRun' \in ThreadSet /\ auRun'.pc = "issue" /\ auRun'.stage = auRun.stage /\ auRun'.todo = After(c) \o rest
    BY <1>6, <2>1, ThreadTypes, ThreadIs
  <2> QED BY <2>2 DEF Unanswered
<1> HIDE DEF c, rest
<1>8. CASE auRun.stage = "enumerate"
  <2>1. ReadsInv(auCodec, auSeen, <<c>> \o rest)
    BY <1>3, <1>8 DEF DriverInv
  <2>2. /\ After(c) \in Seq(AuCmds) /\ SeenTypes(auCodec, Learnt(c))
        /\ ReadsInv(auCodec, Learnt(c), After(c) \o rest)
    BY <1>2, <1>4, <2>1, AnswerRead
  <2>3. /\ auRun' \in ThreadSet /\ auRun'.pc = "issue" /\ auRun'.stage = auRun.stage
        /\ Unanswered' = After(c) \o rest
    BY <1>7, <2>2
  <2>4. SeenTypes(auCodec', auSeen') /\ ReadsInv(auCodec', auSeen', Unanswered')
    BY <1>1, <1>5, <2>2, <2>3
  <2>5. auPlays' = -1
    BY <1>5, <1>8 DEF DriverInv
  <2>6. DriverInv'
    BY <1>8, <2>3, <2>4, <2>5 DEF DriverInv
  <2> QED BY <1>1, <2>3, <2>6
<1>9. CASE auRun.stage # "enumerate"
  <2>1. SetupInv(auCodec, auSeen, auPath, auSet, <<c>> \o rest)
    BY <1>3, <1>9 DEF DriverInv
  <2>2. After(c) = <<>> /\ Learnt(c) = auSeen /\ SetupInv(auCodec, auSeen, auPath, auSet, rest)
    BY <1>1, <1>2, <2>1, AnswerSetup
  <2>3. /\ auRun' \in ThreadSet /\ auRun'.pc = "issue" /\ auRun'.stage = auRun.stage /\ Unanswered' = rest
    BY <1>2, <1>7, <2>2, EmptyFront
  <2>4. SeenTypes(auCodec', auSeen') /\ SetupInv(auCodec', auSeen', auPath', auSet', Unanswered')
    BY <1>1, <1>4, <1>5, <2>2, <2>3
  <2>5. ASSUME auRun.stage = "play" PROVE \A k \in 1..Len(rest) : rest[k].verb = "volume"
    <3>1. \A k \in 1..Len(<<c>> \o rest) : (<<c>> \o rest)[k].verb = "volume"
      BY <1>3, <2>5 DEF DriverInv
    <3>2. \A k \in 1..Len(rest) : k + 1 \in 1..Len(<<c>> \o rest) /\ (<<c>> \o rest)[k + 1] = rest[k]
      BY <1>2
    <3> QED BY <3>1, <3>2
  <2>6. auPlays' # -1 <=> auRun'.stage = "play"
    BY <1>5, <2>3 DEF DriverInv
  <2>7. DriverInv'
    BY <1>9, <2>3, <2>4, <2>5, <2>6 DEF DriverInv
  <2> QED BY <1>1, <2>3, <2>7
<1> QED BY <1>8, <1>9

\* All widgets have been read: the path is one of them, and all of it will be
\* set up.
LEMMA DriverChooses ==
    ASSUME AuTypes, DriverInv, ChoosePath
    PROVE  DriverInv' /\ auRun' \in ThreadSet /\ auRun.pc = "issue" /\ auRun'.pc = "issue"
<1> DEFINE pin == FindBestOutputPin
           path == PathToDac(pin)
<1>1. /\ auRun.pc = "issue" /\ auRun.todo = <<>> /\ auRun.stage = "enumerate"
      /\ UNCHANGED <<auCodec, auSeen, auSet, auPlays>>
  BY DEF ChoosePath, AuAt, streamVars
<1>2. Unanswered = <<>>
  BY <1>1 DEF Unanswered
<1>3. auRun \in ThreadSet /\ auCodec \in AuCodecs
  BY DEF AuTypes, ThreadSet
<1>4. SeenTypes(auCodec, auSeen) /\ ReadsInv(auCodec, auSeen, <<>>) /\ auPlays = -1
  BY <1>1, <1>2 DEF DriverInv
<1>5. CASE UNCHANGED <<auRun, auPath>>
  <2>1. Unanswered' = Unanswered
    BY <1>5 DEF Unanswered
  <2> QED BY <1>1, <1>3, <1>5, <2>1, DriverRests
<1>6. CASE /\ pin # 0 /\ path # <<>> /\ auPath' = path
           /\ auRun' = [auRun EXCEPT !.stage = "setup", !.todo = SetupCommands(pin, path)]
  <2>1. ListsRead(auCodec, auSeen)
    BY <1>3, <1>4, AllRead
  <2>2. pin \in PinsOut
    BY <1>3, <1>4, <1>6, PinFound
  <2>3. PathFound(auSeen, path)
    BY <1>6, <2>2, PathLeads
  <2>4. pin \in Nat /\ DOMAIN auSeen \subseteq Nat
    BY <1>3, <1>4, <2>2, AudioAssumption DEF SeenTypes, PinsOut
  <2>5. path \in Seq(DOMAIN auSeen) /\ path # <<>>
    BY <2>3 DEF PathFound
  <2> HIDE DEF pin, path
  <2> DEFINE due == SetupCommands(pin, path)
  <2>6. due \in Seq(AuCmds) /\ (\A k \in 1..Len(due) : due[k].verb \in SetVerbs) /\ PathWillBeSet(path, auSet, due)
    BY <2>4, <2>5, SetupTold
  <2>7. auRun' = [stage |-> "setup", pc |-> "issue", todo |-> due, cmd |-> auRun.cmd, notes |-> auRun.notes]
    BY <1>1, <1>6, ThreadTypes
  <2> HIDE DEF due
  <2>8. auRun' \in ThreadSet /\ auRun'.stage = "setup" /\ auRun'.pc = "issue" /\ auRun'.todo = due
    BY <2>6, <2>7, ThreadTypes, ThreadIs
  <2>9. Unanswered' = due
    BY <2>8 DEF Unanswered
  <2>10. SetupInv(auCodec', auSeen', auPath', auSet', Unanswered')
    BY <1>1, <1>6, <2>1, <2>3, <2>6, <2>9 DEF SetupInv
  <2>11. SeenTypes(auCodec', auSeen') /\ auPlays' = -1
    BY <1>1, <1>4
  <2>12. DriverInv'
    BY <2>8, <2>10, <2>11 DEF DriverInv
  <2> QED BY <1>1, <2>8, <2>12
<1> QED BY <1>5, <1>6 DEF ChoosePath

\* All of the path has been set up, and the volume is set.
LEMMA DriverStarts ==
    ASSUME AuTypes, DriverInv, StartStream
    PROVE  /\ DriverInv' /\ auRun' \in ThreadSet /\ auRun.pc = "issue" /\ auRun'.pc = "issue"
           /\ auPlays = -1 /\ auPlays' = 0
<1>1. /\ auRun.pc = "issue" /\ auRun.todo = <<>> /\ auRun.stage = "setup" /\ auPlays' = 0
      /\ UNCHANGED <<auCodec, auSeen, auSet, auPath>>
      /\ auRun' = [auRun EXCEPT !.stage = "play", !.todo = <<AuCmd("volume", auPath[1], 0)>>]
  BY DEF StartStream, AuAt
<1> DEFINE v == AuCmd("volume", auPath[1], 0)
<1>2. Unanswered = <<>>
  BY <1>1 DEF Unanswered
<1>3. SeenTypes(auCodec, auSeen) /\ SetupInv(auCodec, auSeen, auPath, auSet, <<>>) /\ auPlays = -1
  BY <1>1, <1>2 DEF DriverInv
<1>4. auPath[1] \in DOMAIN auSeen
  <2>1. auPath \in Seq(DOMAIN auSeen) /\ auPath # <<>>
    BY <1>3 DEF SetupInv, PathFound
  <2> QED BY <2>1
<1>5. auPath[1] \in Nat
  BY <1>3, <1>4, AudioAssumption DEF SeenTypes, AuTypes
<1>6. v \in AuCmds /\ v.verb = "volume"
  BY <1>5 DEF AuCmd, AuCmds, SetVerbs
<1> HIDE DEF v
<1>7. <<v>> \in Seq(AuCmds) /\ Len(<<v>>) = 1 /\ \A k \in 1..Len(<<v>>) : <<v>>[k].verb = "volume"
  BY <1>6
<1>8. auRun' = [stage |-> "play", pc |-> "issue", todo |-> <<v>>, cmd |-> auRun.cmd, notes |-> auRun.notes]
  BY <1>1, ThreadTypes DEF v
<1>9. auRun' \in ThreadSet /\ auRun'.stage = "play" /\ auRun'.pc = "issue" /\ auRun'.todo = <<v>>
  <2> DEFINE w == <<v>>
  <2>1. w \in Seq(AuCmds) /\ auRun' = [stage |-> "play", pc |-> "issue", todo |-> w, cmd |-> auRun.cmd, notes |-> auRun.notes]
    BY <1>7, <1>8
  <2> HIDE DEF w
  <2>2. auRun' \in ThreadSet /\ auRun'.stage = "play" /\ auRun'.pc = "issue" /\ auRun'.todo = w
    BY <2>1, ThreadTypes, ThreadIs
  <2> QED BY <2>2 DEF w
<1>10. Unanswered' = <<v>>
  BY <1>9 DEF Unanswered
<1>11. PathWillBeSet(auPath, auSet, <<v>>)
  <2>1. \A x, n : WillBeSet(auSet, <<>>, x, n) => WillBeSet(auSet, <<v>>, x, n)
    <3>1. Len(<<>>) = 0 /\ 1..0 = {}
      OBVIOUS
    <3> QED BY <3>1 DEF WillBeSet
  <2> QED BY <1>3, <2>1 DEF SetupInv, PathWillBeSet
<1>12. SetupInv(auCodec', auSeen', auPath', auSet', Unanswered')
  BY <1>1, <1>3, <1>7, <1>10, <1>11 DEF SetupInv, SetVerbs
<1>13. SeenTypes(auCodec', auSeen')
  BY <1>1, <1>3
<1>14. DriverInv'
  BY <1>1, <1>7, <1>9, <1>10, <1>12, <1>13 DEF DriverInv
<1> QED BY <1>1, <1>3, <1>9, <1>14

\* AuI holds when the system starts.
LEMMA AudioStarts ==
    ASSUME AuInit
    PROVE  AuI
<1> DEFINE first == AuCmd("nodes", 0, 0)
<1>1. /\ auRun = [stage |-> "enumerate", pc |-> "issue", todo |-> <<first>>, cmd |-> NoAuCmd, notes |-> {}]
      /\ auSeen = <<>> /\ auPlays = -1 /\ auCodec \in AuCodecs
  BY DEF AuInit
<1>2. first \in AuCmds /\ first.verb = "nodes" /\ first.nid = 0 /\ NoAuCmd \in AuCmds
  BY DEF AuCmd, AuCmds, NoAuCmd, ReadVerbs
<1> HIDE DEF first
<1>3. <<first>> \in Seq(AuCmds) /\ Len(<<first>>) = 1 /\ <<first>>[1] = first
  BY <1>2
<1>4. auRun \in ThreadSet
  BY <1>1, <1>2, <1>3 DEF ThreadSet
<1>5. AuTypes
  <2>1. 0 \in AuPlaces /\ AuPlaces = 0..(RingLen - 1)
    BY AudioAssumption DEF AuPlaces
  <2>2. [i \in 0..(RingLen - 1) |-> NoAuCmd] \in [AuPlaces -> AuCmds]
    BY <1>2, <2>1
  <2>3. auCh \in ChannelSet
    BY <1>2, <2>1, <2>2 DEF AuInit, ChannelSet
  <2> QED BY <1>4, <2>3 DEF AuTypes, AuInit, ThreadSet, ChannelSet
<1>6. ChannelInv
  BY <1>1 DEF ChannelInv, ChannelIdle, AuInit
<1>7. DriverInv
  <2>1. Unanswered = <<first>>
    BY <1>1 DEF Unanswered
  <2>2. DOMAIN auSeen = {}
    BY <1>1
  <2>3. SeenTypes(auCodec, auSeen)
    BY <1>1, <2>2 DEF SeenTypes
  <2>4. \A k \in 1..Len(<<first>>) : k = 1
    BY <1>3
  <2>5. ReadsInv(auCodec, auSeen, <<first>>)
    <3>1. ReadsNodes(auCodec, <<first>>)
      BY <1>2, <1>3, <2>4 DEF ReadsNodes, ReadVerbs
    <3>2. ReadsInOrder(<<first>>)
      BY <1>2, <1>3, <2>4 DEF ReadsInOrder
    <3>3. EntryNext(auSeen, <<first>>) /\ ListsNew(auSeen, <<first>>)
      BY <1>2, <1>3, <2>4 DEF EntryNext, ListsNew
    <3> QED BY <2>2, <3>1, <3>2, <3>3 DEF ReadsInv
  <2>6. auRun.stage = "enumerate" /\ auRun.pc = "issue"
    BY <1>1
  <2> QED BY <1>1, <2>1, <2>3, <2>5, <2>6 DEF DriverInv
<1>8. StreamInv
  <2>1. /\ auPos = 0 /\ auSeq = 0 /\ auHeard = 0 /\ auTorn = FALSE /\ auRun.pc = "issue"
        /\ auBuf = [i \in AuSlots |-> [seq |-> 0, notes |-> {}, fresh |-> FALSE]]
    BY <1>1 DEF AuInit, AuSlots, Silent
  <2>2. LastBlock = 0
    BY <2>1 DEF LastBlock
  <2>3. 0 \in AuSlots /\ AuBlocks \in Nat /\ AuBlocks > 0
    BY AudioAssumption DEF AuSlots
  <2>4. StreamTypes
    BY <1>1, <2>1, <2>2, <2>3 DEF StreamTypes
  <2>5. \A b \in AuSlots : Age(b) \in Nat /\ auBuf[b].fresh = FALSE
    BY <2>1, <2>4, BlockPlaces DEF AuSlots
  <2>6. \A b \in AuSlots : ~(Age(b) < LastBlock - auHeard)
    BY <2>1, <2>2, <2>5
  <2>7. BlocksInv
    BY <1>1, <2>1, <2>2, <2>3, <2>5, <2>6 DEF BlocksInv
  <2> QED BY <2>4, <2>7 DEF StreamInv
<1>9. NotesInv
  <2>1. auApp \in AuPlans /\ auHandles = <<>> /\ auEmitters = {} /\ auNote = 0 /\ auHandle = 1
    BY DEF AuInit
  <2>2. auApp = [plan |-> auApp.plan, do |-> <<>>] /\ auApp.plan \in Seq({"beep", "quiet", "drop"})
    BY <2>1, AudioAssumption
  <2>3. auApp.do = <<>> /\ <<>> \in Seq(Nat)
    BY <2>2
  <2>4. auApp = [plan |-> auApp.plan, do |-> auApp.do]
    BY <2>2, <2>3
  <2> QED BY <2>1, <2>2, <2>3, <2>4 DEF NotesInv
<1> QED BY <1>5, <1>6, <1>7, <1>8, <1>9 DEF AuI

\* AuTypes from its parts.
LEMMA AudioTypesAre ==
    ASSUME AuTypes, auCodec' = auCodec, auImmediate' = auImmediate, auCh' \in ChannelSet, auRun' \in ThreadSet
    PROVE  AuTypes'
BY DEF AuTypes, ChannelSet, ThreadSet

\* A step of the codec.
LEMMA CodecKeeps ==
    ASSUME AuI, AuCodecStep
    PROVE  AuI'
<1>0. AuTypes /\ ChannelInv /\ DriverInv /\ StreamInv /\ NotesInv
  BY DEF AuI
<1>1. /\ UNCHANGED <<auCodec, auImmediate, auRun, auSeen, auPath, streamVars, noteVars>> /\ auSet \subseteq auSet'
  BY DEF AuCodecStep, AuFetch, AuRespond
<1>2. ChannelInv' /\ auCh' \in ChannelSet
  BY <1>0, CommandIs, FetchStep, RespondStep DEF AuCodecStep
<1>3. AuTypes'
  BY <1>0, <1>1, <1>2, AudioTypesAre DEF AuTypes, ThreadSet
<1>4. DriverInv'
  <2>1. Unanswered' = Unanswered /\ auPlays' = auPlays
    BY <1>1 DEF Unanswered, streamVars
  <2>2. auRun'.pc \in {"write", "copy"} => auRun'.todo = <<>> /\ auRun'.stage = "play"
    BY <1>0, <1>1 DEF DriverInv
  <2> QED BY <1>0, <1>1, <2>1, <2>2, DriverRests
<1>5. StreamInv'
  BY <1>0, <1>1, StreamRests
<1>6. NotesInv'
  BY <1>0, <1>1 DEF NotesInv, noteVars
<1> QED BY <1>2, <1>3, <1>4, <1>5, <1>6 DEF AuI

\* A command is issued, its answer is taken, or the time is over.
LEMMA CommandKeeps ==
    ASSUME AuI, AuIssue \/ AuRead \/ AuTimeout
    PROVE  AuI'
<1>0. AuTypes /\ ChannelInv /\ DriverInv /\ StreamInv /\ NotesInv
  BY DEF AuI
<1>1. UNCHANGED <<auCodec, auImmediate, auPath, auSet, streamVars, noteVars>>
  BY DEF AuIssue, AuRead, AuTimeout, busVars
<1>2. NotesInv' /\ auPlays' = auPlays
  BY <1>0, <1>1 DEF NotesInv, noteVars, streamVars
<1>3. CASE AuIssue
  <2>1. /\ ChannelInv' /\ auCh' \in ChannelSet /\ auRun.pc = "issue" /\ auRun.todo # <<>> /\ auRun' \in ThreadSet
        /\ auRun' = [auRun EXCEPT !.pc = "await", !.todo = Tail(@), !.cmd = Head(auRun.todo)]
    BY <1>0, <1>3, IssueStep DEF ThreadSet
  <2>2. AuTypes'
    BY <1>0, <1>1, <2>1, AudioTypesAre
  <2>3. /\ auRun'.pc = "await" /\ auRun'.stage = auRun.stage /\ auRun'.todo = Tail(auRun.todo)
        /\ auRun'.cmd = Head(auRun.todo)
    BY <1>0, <2>1, ThreadTypes
  <2>4. <<Head(auRun.todo)>> \o Tail(auRun.todo) = auRun.todo
    BY <1>0, <2>1, ThreadTypes
  <2>5. Unanswered' = Unanswered
    BY <2>1, <2>3, <2>4 DEF Unanswered
  <2>6. DriverInv'
    <3>1. UNCHANGED <<auCodec, auSeen, auPath>>
      BY <1>3 DEF AuIssue
    <3> QED BY <1>0, <1>1, <1>2, <2>3, <2>5, <3>1, DriverRests
  <2>7. StreamInv'
    BY <1>0, <1>1, <2>1, <2>3, StreamRests
  <2> QED BY <1>2, <2>1, <2>2, <2>6, <2>7 DEF AuI
<1>4. CASE AuRead
  <2>1. ChannelInv' /\ auCh' \in ChannelSet
    BY <1>0, <1>4, ReadStep
  <2>2. DriverInv' /\ auRun' \in ThreadSet /\ auRun.pc = "await" /\ auRun'.pc = "issue"
    BY <1>0, <1>4, DriverReads
  <2>3. AuTypes'
    BY <1>0, <1>1, <2>1, <2>2, AudioTypesAre
  <2>4. StreamInv'
    BY <1>0, <1>1, <2>2, StreamRests
  <2> QED BY <1>2, <2>1, <2>2, <2>3, <2>4 DEF AuI
<1>5. CASE AuTimeout
  <2>1. UNCHANGED <<auCodec, auImmediate, auCh, auRun, auSeen, auPath, auSet, auFit>>
    BY <1>5 DEF AuTimeout, busVars
  <2>2. AuTypes' /\ ChannelInv'
    BY <1>0, <2>1, ChannelRests DEF AuTypes
  <2>3. Unanswered' = Unanswered /\ (auRun'.pc \in {"write", "copy"} => auRun'.todo = <<>> /\ auRun'.stage = "play")
    BY <1>0, <2>1 DEF Unanswered, DriverInv
  <2>4. DriverInv'
    BY <1>0, <1>2, <2>1, <2>3, DriverRests
  <2>5. StreamInv'
    BY <1>0, <1>1, <2>1, StreamRests
  <2> QED BY <1>2, <2>2, <2>4, <2>5 DEF AuI
<1> QED BY <1>3, <1>4, <1>5

\* The path is chosen, or the stream started.
LEMMA SetupKeeps ==
    ASSUME AuI, ChoosePath \/ StartStream
    PROVE  AuI'
<1>0. AuTypes /\ ChannelInv /\ DriverInv /\ StreamInv /\ NotesInv
  BY DEF AuI
<1>1. UNCHANGED <<auCodec, auImmediate, auCh, auSeen, auSet, auFit, noteVars>>
  BY DEF ChoosePath, StartStream
<1>2. NotesInv'
  BY <1>0, <1>1 DEF NotesInv, noteVars
<1>3. DriverInv' /\ auRun' \in ThreadSet /\ auRun.pc = "issue" /\ auRun'.pc = "issue"
  BY <1>0, DriverChooses, DriverStarts
<1>4. AuTypes' /\ ChannelInv'
  <2>1. auCh' \in ChannelSet
    BY <1>0, <1>1 DEF AuTypes, ChannelSet
  <2> QED BY <1>0, <1>1, <1>3, <2>1, AudioTypesAre, ChannelRests
<1>5. StreamInv'
  <2>1. CASE ChoosePath
    <3>1. UNCHANGED streamVars
      BY <2>1 DEF ChoosePath
    <3> QED BY <1>0, <1>3, <3>1, StreamRests
  <2>2. CASE StartStream
    <3>1. auPlays = -1 /\ auPlays' = 0
      BY <1>0, <2>2, DriverStarts
    <3>2. UNCHANGED <<auPos, auBuf, auSeq, auHeard, auTorn>>
      BY <2>2 DEF StartStream
    <3> QED BY <1>0, <1>3, <3>1, <3>2, StreamStart
  <2> QED BY <2>1, <2>2
<1> QED BY <1>2, <1>3, <1>4, <1>5 DEF AuI

\* A block is rendered, has room, or is copied.
LEMMA BlockKeeps ==
    ASSUME AuI, Render \/ WriteBlock \/ CopyBlock
    PROVE  AuI'
<1>0. AuTypes /\ ChannelInv /\ DriverInv /\ StreamInv /\ NotesInv
  BY DEF AuI
<1>1. UNCHANGED <<auCodec, auImmediate, auCh, auSeen, auPath, auSet, auFit, auPlays, auTorn, noteVars>>
  BY DEF Render, WriteBlock, CopyBlock
<1>2. NotesInv' /\ auEmitters \in SUBSET Nat
  BY <1>0, <1>1 DEF NotesInv, noteVars
<1>3. auCh' \in ChannelSet
  BY <1>0, <1>1 DEF AuTypes, ChannelSet
<1>4. ASSUME NEW step \in {"issue", "write", "copy"}, NEW notes \in SUBSET Nat,
             auRun.pc # "await", auRun.todo = <<>>, auRun.stage = "play",
             auRun' = [stage |-> "play", pc |-> step, todo |-> <<>>, cmd |-> auRun.cmd, notes |-> notes]
      PROVE  AuTypes' /\ ChannelInv' /\ DriverInv' /\ auRun'.pc = step
  <2>1. <<>> \in Seq(AuCmds)
    OBVIOUS
  <2>2. auRun' \in ThreadSet /\ auRun'.stage = "play" /\ auRun'.pc = step /\ auRun'.todo = <<>>
    <3> DEFINE w == <<>>
    <3>1. w \in Seq(AuCmds) /\ auRun' = [stage |-> "play", pc |-> step, todo |-> w, cmd |-> auRun.cmd, notes |-> notes]
      BY <1>4, <2>1
    <3> HIDE DEF w
    <3>2. auRun' \in ThreadSet /\ auRun'.stage = "play" /\ auRun'.pc = step /\ auRun'.todo = w
      BY <1>0, <3>1, ThreadTypes, ThreadIs
    <3> QED BY <3>2 DEF w
  <2>3. Unanswered' = Unanswered
    BY <1>4, <2>2 DEF Unanswered
  <2>4. DriverInv'
    BY <1>0, <1>1, <1>4, <2>2, <2>3, DriverRests
  <2>5. AuTypes'
    BY <1>0, <1>1, <1>3, <2>2, AudioTypesAre
  <2>6. ChannelInv'
    BY <1>0, <1>1, <1>4, <2>2, ChannelRests
  <2> QED BY <2>2, <2>4, <2>5, <2>6
<1>5. CASE Render
  <2>1. auRun.pc = "issue" /\ auRun.todo = <<>> /\ auRun.stage = "play"
    BY <1>5 DEF Render, AuAt
  <2>2. auRun' = [stage |-> "play", pc |-> "write", todo |-> <<>>, cmd |-> auRun.cmd, notes |-> auEmitters]
    <3>1. auRun' = [auRun EXCEPT !.pc = "write", !.notes = auEmitters]
      BY <1>5 DEF Render
    <3> QED BY <1>0, <2>1, <3>1, ThreadTypes
  <2>3. AuTypes' /\ ChannelInv' /\ DriverInv' /\ auRun'.pc = "write"
    BY <1>2, <1>4, <2>1, <2>2
  <2>4. StreamInv'
    BY <1>0, <1>5, <2>1, <2>3, StreamRender DEF Render
  <2> QED BY <1>2, <2>3, <2>4 DEF AuI
<1>6. ASSUME auRun.pc \in {"write", "copy"}
      PROVE  auRun.todo = <<>> /\ auRun.stage = "play" /\ auPlays # -1 /\ auRun.notes \in SUBSET Nat
  BY <1>0, <1>6, ThreadTypes DEF DriverInv
<1>7. CASE WriteBlock
  <2>1. auRun.pc = "write" /\ HasRoom
    BY <1>7 DEF WriteBlock, AuAt
  <2>2. auRun' = [stage |-> "play", pc |-> "copy", todo |-> <<>>, cmd |-> auRun.cmd, notes |-> auRun.notes]
    <3>1. auRun' = [auRun EXCEPT !.pc = "copy"]
      BY <1>7 DEF WriteBlock
    <3> QED BY <1>0, <1>6, <2>1, <3>1, ThreadTypes
  <2>3. AuTypes' /\ ChannelInv' /\ DriverInv' /\ auRun'.pc = "copy"
    BY <1>4, <1>6, <2>1, <2>2
  <2>4. StreamInv'
    BY <1>0, <1>6, <1>7, <2>1, <2>3, StreamWrite DEF WriteBlock
  <2> QED BY <1>2, <2>3, <2>4 DEF AuI
<1>8. CASE CopyBlock
  <2>1. auRun.pc = "copy"
    BY <1>8 DEF CopyBlock, AuAt
  <2>2. auRun' = [stage |-> "play", pc |-> "issue", todo |-> <<>>, cmd |-> auRun.cmd, notes |-> {}]
    <3>1. auRun' = [auRun EXCEPT !.pc = "issue", !.notes = {}]
      BY <1>8 DEF CopyBlock
    <3> QED BY <1>0, <1>6, <2>1, <3>1, ThreadTypes
  <2>3. AuTypes' /\ ChannelInv' /\ DriverInv' /\ auRun'.pc = "issue"
    BY <1>4, <1>6, <2>1, <2>2
  <2>4. StreamInv'
    BY <1>0, <1>6, <1>8, <2>1, <2>3, StreamCopy DEF CopyBlock
  <2> QED BY <1>2, <2>3, <2>4 DEF AuI
<1> QED BY <1>5, <1>7, <1>8

\* The stream goes on, or the program does.
LEMMA OthersKeep ==
    ASSUME AuI, PlayNext \/ AuProgram \/ UNCHANGED auVars
    PROVE  AuI'
<1>0. AuTypes /\ ChannelInv /\ DriverInv /\ StreamInv /\ NotesInv
  BY DEF AuI
<1>1. UNCHANGED <<auCodec, auImmediate, auCh, auRun, auSeen, auPath, auSet, auFit>>
  BY DEF PlayNext, AuProgram, AppCall, AppStep, auVars, busVars
<1>2. AuTypes' /\ ChannelInv'
  BY <1>0, <1>1, ChannelRests DEF AuTypes
<1>3. auPlays' # -1 <=> auPlays # -1
  <2>1. CASE PlayNext
    <3>1. auPlays \in AuSlots /\ auPlays' = (auPlays + 1) % AuBlocks /\ auPlays # -1
      BY <1>0, <2>1 DEF PlayNext, StreamInv, StreamTypes
    <3>2. AuBlocks \in Nat \ {0} /\ auPlays' = IF auPlays = AuBlocks - 1 THEN 0 ELSE auPlays + 1
      BY <3>1, BlockAfter
    <3> QED BY <3>1, <3>2 DEF AuSlots
  <2>2. CASE AuProgram \/ UNCHANGED auVars
    BY <2>2 DEF AuProgram, AppCall, AppStep, auVars, streamVars
  <2> QED BY <2>1, <2>2
<1>4. DriverInv'
  <2>1. Unanswered' = Unanswered /\ (auRun'.pc \in {"write", "copy"} => auRun'.todo = <<>> /\ auRun'.stage = "play")
    BY <1>0, <1>1 DEF Unanswered, DriverInv
  <2> QED BY <1>0, <1>1, <1>3, <2>1, DriverRests
<1>5. StreamInv'
  <2>1. CASE AuProgram \/ UNCHANGED auVars
    <3>1. UNCHANGED streamVars
      BY <2>1 DEF AuProgram, AppCall, AppStep, auVars, streamVars
    <3> QED BY <1>0, <1>1, <3>1, StreamRests
  <2> QED BY <1>0, <2>1, StreamPlays
<1>6. NotesInv'
  <2>1. CASE PlayNext \/ UNCHANGED auVars
    <3>1. UNCHANGED <<auApp, auCtx, auHandles, auEmitters, auNote, auHandle>>
      BY <2>1 DEF PlayNext, auVars, noteVars
    <3> QED BY <1>0, <3>1 DEF NotesInv
  <2> QED BY <1>0, <2>1, NotesCall, NotesDone DEF AuProgram
<1> QED BY <1>2, <1>4, <1>5, <1>6 DEF AuI

\* When the stream runs, the path has been read as it is and set up.
LEMMA PathIsSet ==
    ASSUME AuI
    PROVE  PathPlays
<1> SUFFICES ASSUME auPlays # -1 PROVE PathPlays
  BY DEF PathPlays
<1>1. /\ auRun.stage = "play" /\ SeenTypes(auCodec, auSeen) /\ SetupInv(auCodec, auSeen, auPath, auSet, Unanswered)
      /\ \A k \in 1..Len(Unanswered) : Unanswered[k].verb = "volume"
  BY DEF AuI, DriverInv
<1>2. /\ ListsRead(auCodec, auSeen) /\ PathFound(auSeen, auPath) /\ PathWillBeSet(auPath, auSet, Unanswered)
  BY <1>1 DEF SetupInv
<1>3. auPath \in Seq(DOMAIN auSeen) /\ auPath # <<>> /\ Len(auPath) \in Nat \ {0}
      /\ DOMAIN auPath = 1..Len(auPath)
  <2>1. auPath \in Seq(DOMAIN auSeen) /\ auPath # <<>>
    BY <1>2 DEF PathFound
  <2> QED BY <2>1
<1>4. \A n \in DOMAIN auSeen : auSeen[n].conns = auCodec.widgets[n].conns
  BY <1>2 DEF ListsRead
<1>5. ASSUME NEW k \in 1..(Len(auPath) - 1) PROVE auPath[k] = Head(auCodec.widgets[auPath[k + 1]].conns)
  <2>1. k + 1 \in 1..Len(auPath)
    BY <1>3
  <2>2. auPath[k + 1] \in DOMAIN auSeen
    BY <1>3, <2>1
  <2>3. auPath[k] = Head(auSeen[auPath[k + 1]].conns)
    BY <1>2 DEF PathFound
  <2> QED BY <1>4, <2>2, <2>3
<1>6. auSeen[auPath[1]].type = "output" /\ auSeen[Last(auPath)].type = "pin"
  BY <1>2 DEF PathFound, Last
<1>7. \A v, n : v # "volume" /\ WillBeSet(auSet, Unanswered, v, n) => <<v, n>> \in auSet
  BY <1>1 DEF WillBeSet
<1>8. ASSUME NEW v \in {"amp", "power"}, NEW n \in Range(auPath) PROVE <<v, n>> \in auSet
  <2>1. PICK k \in 1..Len(auPath) : n = auPath[k]
    BY <1>3 DEF Range
  <2> QED BY <1>2, <1>7, <2>1 DEF PathWillBeSet
<1>9. <<"stream", auPath[1]>> \in auSet
  BY <1>2, <1>7 DEF PathWillBeSet
<1>10. {<<v, n>> : v \in {"amp", "power"}, n \in Range(auPath)} \subseteq auSet
  BY <1>8
<1> QED BY <1>4, <1>5, <1>6, <1>9, <1>10 DEF PathPlays

\* For every codec, every plan and every number of blocks: a response is taken
\* for the command that was issued, the path that plays was read as it is and
\* is set up as a whole, every block is heard once and in order unless the
\* stream comes to it while it is copied, and a program has one note at most
\* and none after its context.
THEOREM AudioHolds == AuSpec => []AudioInv
<1>1. AuInit => AuI
  BY AudioStarts
<1>2. AuI /\ [AudioNext]_auVars => AuI'
  BY CodecKeeps, CommandKeeps, SetupKeeps, BlockKeeps, OthersKeep DEF AudioNext, AuThread
<1>3. AuI => AudioInv
  <2> SUFFICES ASSUME AuI PROVE AudioInv
    OBVIOUS
  <2>1. AnswersFit
    BY DEF AuI, ChannelInv, AnswersFit
  <2>2. PathPlays
    BY PathIsSet
  <2>3. HeardInOrder /\ NotesOwned
    BY BlocksAreHeard, NotesAre DEF AuI
  <2> QED BY <2>1, <2>2, <2>3 DEF AudioInv
<1> QED BY <1>1, <1>2, <1>3, PTL DEF AuSpec
=============================================================================
