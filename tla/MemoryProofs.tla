---------------------------- MODULE MemoryProofs ----------------------------
(***************************************************************************)
(* Proofs about the start of the processors and their interrupts (module   *)
(* Apic), for any number of processors, controllers and plans of drivers,  *)
(* about the lock-free list of free blocks (module SlabCache), for any     *)
(* number of pages, blocks and freeing threads, about the page allocator   *)
(* (module PageAllocator), for any boot map and any threads, and about the *)
(* page tables and the translations of the processors (module Paging), for *)
(* any threads, requests and processors.                                   *)
(***************************************************************************)
EXTENDS Apic, SlabCache, PageAllocator, Paging, FiniteSetTheorems, FunctionTheorems, SequenceTheorems, NaturalsInduction, WellFoundedInduction, TLAPS

ApCount == Len(ApIds)
ApPlace == 1..ApCount
ApStateOf(i) == apState[ApIds[i]]
IrqCalls == [t : {"register", "enable", "disable", "msi"}, irq : Nat, driver : Drivers]

\* The processors up to apBoot.n are in the list; apBoot.n itself enters it
\* while the first processor waits for the answer.
HasEntered == apBoot.pc = "spin" /\ ApStateOf(apBoot.n) \in {"added", "stalled"}

BootTypes ==
    /\ apBoot \in [n : 1..(ApCount + 1), pc : {"init", "reset", "sipi", "spin", "go", "done"}]
    /\ apState \in [Range(ApIds) -> {"off", "started", "adding", "added", "stalled", "runs"}]
    /\ apOk \in BOOLEAN /\ apCpus \in Seq({Bsp} \cup Range(ApIds))
    /\ apIndex \in [{Bsp} \cup Range(ApIds) -> Int]

\* Where the first processor is.
BootStages ==
    /\ apBoot.pc \in {"reset", "sipi", "spin"} => apBoot.n <= ApCount
    /\ apBoot.pc \in {"go", "done"} => apBoot.n = ApCount + 1
    /\ apBoot.pc # "done" => apStalled

\* Where the others are, in their order.
ApStages == \A i \in ApPlace :
    /\ i < apBoot.n => ApStateOf(i) = "stalled" \/ (ApStateOf(i) = "runs" /\ apBoot.pc = "done")
    /\ i > apBoot.n => ApStateOf(i) = "off"
    /\ i = apBoot.n => IF apBoot.pc = "spin" THEN ApStateOf(i) \in {"started", "adding", "added", "stalled"}
                       ELSE ApStateOf(i) = "off"

\* AP_BOOT_OK is the answer of the processor that was started last.
Answers == /\ apBoot.pc = "sipi" => ~apOk
           /\ apBoot.pc = "spin" => (apOk <=> ApStateOf(apBoot.n) = "stalled")

CpusListed ==
    /\ Len(apCpus) = IF HasEntered THEN apBoot.n + 1 ELSE apBoot.n
    /\ apCpus[1] = Bsp /\ \A i \in ApPlace : i < Len(apCpus) => apCpus[i + 1] = ApIds[i]

Numbered == apBoot.pc \in {"go", "done"} => \A i \in ApPlace : apIndex[ApIds[i]] = i

BootI == BootTypes /\ BootStages /\ ApStages /\ Answers /\ CpusListed /\ Numbered

-----------------------------------------------------------------------------
(* Interrupts *)

IrqOp == [op : {"idt"}, line : AllLines, driver : Drivers] \cup [op : {"open"}, line : Lines]
IdtOp(o) == o.op = "idt" /\ o.line \in AllLines /\ o.driver \in Drivers
OpenOp(o) == o.op = "open" /\ o.line \in Lines

\* What is left of a call: a handler is installed before its line is opened.
CallSteps ==
    \/ apDo = <<>>
    \/ Len(apDo) = 1 /\ IdtOp(apDo[1])
    \/ Len(apDo) = 1 /\ OpenOp(apDo[1]) /\ apIdt[apDo[1].line] # "none"
    \/ Len(apDo) = 2 /\ IdtOp(apDo[1]) /\ OpenOp(apDo[2]) /\ apDo[2].line = apDo[1].line

IrqTypes ==
    /\ apIdt \in [AllLines -> Drivers \cup {"none"}] /\ apRedir \in [Lines -> {"masked", "open"}]
    /\ apMsi \in 0..MaxMsi /\ apLeft \in Seq(IrqCalls) /\ apDo \in Seq(IrqOp)

EnableCalled == \E plan \in IrqPlans : Remains(plan) /\ \E n \in 1..(Len(plan) - Len(apLeft)) : plan[n].t = "enable"

OpenIsInstalled == EnableCalled \/ \A l \in Lines : apRedir[l] = "open" => apIdt[l] # "none"

IrqI == /\ IrqTypes /\ CallSteps /\ (\E plan \in IrqPlans : Remains(plan)) /\ OpenIsInstalled /\ FiresInstalled


-----------------------------------------------------------------------------
(* Start of the processors *)

\* What ApicAssumption says of the places in ApIds: no processor is listed
\* twice.
LEMMA ApFacts ==
    /\ ApCount \in Nat /\ ApPlace \subseteq Nat /\ (\A i \in ApPlace : 1 <= i /\ i <= ApCount)
    /\ \A i \in ApPlace : ApIds[i] \in Range(ApIds) /\ ApIds[i] # Bsp
    /\ \A a \in Range(ApIds) : \E i \in ApPlace : a = ApIds[i]
    /\ \A i, j \in ApPlace : ApIds[i] = ApIds[j] => i = j
<1>1. ApIds \in Seq(Nat \ {Bsp}) /\ ApCount \in Nat /\ DOMAIN ApIds = ApPlace
  BY ApicAssumption, LenProperties DEF ApCount, ApPlace
<1>2. \A i \in ApPlace : ApIds[i] \in Nat \ {Bsp}
  BY <1>1, ElementOfSeq DEF ApPlace, ApCount
<1>3. \A i \in ApPlace : i \in Nat /\ 1 <= i /\ i <= ApCount
  BY <1>1 DEF ApPlace
<1>4. \A i, j \in ApPlace : ApIds[i] = ApIds[j] => i = j
  BY ApicAssumption DEF ApPlace, ApCount
<1> QED BY <1>1, <1>2, <1>3, <1>4 DEF Range

\* The invariant of the start holds before the first SIPI.
LEMMA BootStart == ApInit => BootI
<1> SUFFICES ASSUME ApInit PROVE BootI
  OBVIOUS
<1>1. apBoot.n = 1 /\ apBoot.pc = "init" /\ apCpus = <<Bsp>> /\ Len(apCpus) = 1
  BY DEF ApInit
<1>2. BootTypes
  <2>1. apBoot \in [n : 1..(ApCount + 1), pc : {"init", "reset", "sipi", "spin", "go", "done"}]
    BY ApFacts DEF ApInit
  <2>2. apCpus \in Seq({Bsp} \cup Range(ApIds))
    BY <1>1
  <2>3. apIndex \in [{Bsp} \cup Range(ApIds) -> Int]
    BY DEF ApInit, Invalid
  <2> QED BY <2>1, <2>2, <2>3 DEF ApInit, BootTypes
<1>3. BootStages /\ Answers /\ Numbered
  BY <1>1, ApFacts DEF BootStages, Answers, Numbered, ApInit
<1>4. \A i \in ApPlace : ApStateOf(i) = "off"
  BY ApFacts DEF ApInit, ApStateOf
<1>5. ApStages
  <2>1. \A i \in ApPlace : ~(i < 1)
    BY ApFacts
  <2> QED BY <1>1, <1>4, <2>1 DEF ApStages
<1>6. CpusListed
  <2>1. \A i \in ApPlace : ~(i < 1)
    BY ApFacts
  <2> QED BY <1>1, <2>1 DEF CpusListed, HasEntered
<1> QED BY <1>2, <1>3, <1>5, <1>6 DEF BootI

\* Steps of the first processor that leave the others alone.
LEMMA BspSteps ==
    ASSUME BootI, SendInitIpi \/ ResetOk \/ AwaitAp \/ LetGo
    PROVE  BootI'
<1>0. BootTypes /\ BootStages /\ ApStages /\ Answers /\ CpusListed /\ Numbered
  BY DEF BootI
<1>1. UNCHANGED <<apState, apCpus, apIndex>> /\ \A i \in ApPlace : ApStateOf(i)' = ApStateOf(i)
  BY DEF SendInitIpi, ResetOk, AwaitAp, LetGo, ApStateOf
<1>2. /\ apBoot.n \in 1..(ApCount + 1) /\ apBoot.n \in Nat /\ ApCount \in Nat
      /\ (apBoot.n <= ApCount => apBoot.n \in ApPlace)
      /\ apBoot.pc \in {"init", "reset", "sipi", "spin", "go", "done"}
  BY <1>0, ApFacts DEF BootTypes, ApPlace
<1>3. CASE SendInitIpi
  <2>1. apBoot.pc = "init" /\ apBoot'.pc = "reset" /\ apBoot'.n = apBoot.n /\ apBoot.n <= ApCount
        /\ apBoot' = [n |-> apBoot.n, pc |-> "reset"] /\ UNCHANGED <<apOk, apStalled>>
    BY <1>3 DEF SendInitIpi, At, BootGo, ApCount
  <2>2. BootTypes'
    BY <1>0, <1>1, <1>2, <2>1 DEF BootTypes
  <2>3. BootStages' /\ Answers' /\ Numbered'
    BY <1>0, <2>1 DEF BootStages, Answers, Numbered
  <2>4. ApStages'
    BY <1>0, <1>1, <2>1 DEF ApStages
  <2>5. CpusListed'
    BY <1>0, <1>1, <2>1 DEF CpusListed, HasEntered
  <2> QED BY <2>2, <2>3, <2>4, <2>5 DEF BootI
<1>4. CASE ResetOk
  <2>1. apBoot.pc = "reset" /\ apBoot'.pc = "sipi" /\ apBoot'.n = apBoot.n
        /\ apBoot' = [n |-> apBoot.n, pc |-> "sipi"] /\ apOk' = FALSE /\ UNCHANGED <<apStalled>>
    BY <1>4 DEF ResetOk, At, BootGo
  <2>2. BootTypes'
    BY <1>0, <1>1, <1>2, <2>1 DEF BootTypes
  <2>3. BootStages' /\ Answers' /\ Numbered'
    BY <1>0, <2>1 DEF BootStages, Answers, Numbered
  <2>4. ApStages'
    BY <1>0, <1>1, <2>1 DEF ApStages
  <2>5. CpusListed'
    BY <1>0, <1>1, <2>1 DEF CpusListed, HasEntered
  <2> QED BY <2>2, <2>3, <2>4, <2>5 DEF BootI
<1>5. CASE LetGo
  <2>1. apBoot.pc = "go" /\ apBoot'.pc = "done" /\ apBoot'.n = apBoot.n
        /\ apBoot' = [n |-> apBoot.n, pc |-> "done"] /\ UNCHANGED apOk
    BY <1>5 DEF LetGo, At, BootGo
  <2>2. BootTypes'
    BY <1>0, <1>1, <1>2, <2>1 DEF BootTypes
  <2>3. BootStages' /\ Answers' /\ Numbered'
    BY <1>0, <1>1, <2>1 DEF BootStages, Answers, Numbered
  <2>4. ApStages'
    BY <1>0, <1>1, <2>1 DEF ApStages
  <2>5. CpusListed'
    BY <1>0, <1>1, <2>1 DEF CpusListed, HasEntered
  <2> QED BY <2>2, <2>3, <2>4, <2>5 DEF BootI
<1>6. CASE AwaitAp /\ ~apOk
  <2>1. UNCHANGED <<apBoot, apOk, apStalled>>
    BY <1>6 DEF AwaitAp
  <2> QED BY <1>0, <1>1, <2>1 DEF BootI, BootTypes, BootStages, ApStages, Answers, CpusListed, Numbered, HasEntered, ApStateOf
<1>7. CASE AwaitAp /\ apOk
  <2>1. apBoot.pc = "spin" /\ apBoot'.pc = "init" /\ apBoot'.n = apBoot.n + 1
        /\ apBoot' = [n |-> apBoot.n + 1, pc |-> "init"] /\ UNCHANGED <<apOk, apStalled>>
    BY <1>7 DEF AwaitAp, At, BootGo
  <2>2. apBoot.n <= ApCount /\ ApStateOf(apBoot.n) = "stalled" /\ apBoot.n + 1 \in 1..(ApCount + 1)
    BY <1>0, <1>2, <1>7, <2>1 DEF BootStages, Answers
  <2>3. BootTypes'
    BY <1>0, <1>1, <2>1, <2>2 DEF BootTypes
  <2>4. BootStages' /\ Answers' /\ Numbered'
    BY <1>0, <2>1 DEF BootStages, Answers, Numbered
  <2>5. ApStages'
    <3> SUFFICES ASSUME NEW i \in ApPlace
                 PROVE  /\ i < apBoot.n + 1 => ApStateOf(i) = "stalled"
                        /\ i >= apBoot.n + 1 => ApStateOf(i) = "off"
      BY <1>1, <1>2, <2>1, ApFacts DEF ApStages
    <3>1. i \in Nat
      BY ApFacts
    <3> QED BY <1>0, <1>2, <2>1, <2>2, <3>1 DEF ApStages
  <2>6. CpusListed'
    BY <1>0, <1>1, <2>1, <2>2 DEF CpusListed, HasEntered
  <2> QED BY <2>3, <2>4, <2>5, <2>6 DEF BootI
<1> QED BY <1>3, <1>4, <1>5, <1>6, <1>7

\* The startup message wakes the processor that is being waited for.
LEMMA StartupSteps ==
    ASSUME BootI, SendStartupIpi
    PROVE  BootI'
<1>0. BootTypes /\ BootStages /\ ApStages /\ Answers /\ CpusListed /\ Numbered
  BY DEF BootI
<1>1. /\ apBoot.pc = "sipi" /\ apBoot'.pc = "spin" /\ apBoot'.n = apBoot.n /\ apBoot' = [n |-> apBoot.n, pc |-> "spin"]
      /\ apState' = [apState EXCEPT ![ApIds[apBoot.n]] = "started"] /\ UNCHANGED <<apOk, apStalled, apCpus, apIndex>>
  BY DEF SendStartupIpi, At, BootGo
<1>2. PICK n \in ApPlace : n = apBoot.n
  BY <1>0, <1>1, ApFacts DEF BootTypes, BootStages, ApPlace
<1>3. ApStateOf(n)' = "started" /\ \A i \in ApPlace : i # n => ApStateOf(i)' = ApStateOf(i)
  BY <1>0, <1>1, <1>2, ApFacts DEF ApStateOf, BootTypes
<1>4. BootTypes'
  <2>1. apBoot' \in [n : 1..(ApCount + 1), pc : {"init", "reset", "sipi", "spin", "go", "done"}]
    BY <1>0, <1>1 DEF BootTypes
  <2>2. apState' \in [Range(ApIds) -> {"off", "started", "adding", "added", "stalled", "runs"}]
    BY <1>0, <1>1 DEF BootTypes
  <2> QED BY <1>0, <1>1, <2>1, <2>2 DEF BootTypes
<1>5. BootStages' /\ Numbered'
  BY <1>0, <1>1 DEF BootStages, Numbered
<1>6. Answers'
  BY <1>0, <1>1, <1>2, <1>3 DEF Answers
<1>7. ApStages'
  BY <1>0, <1>1, <1>2, <1>3, ApFacts DEF ApStages
<1>8. CpusListed'
  BY <1>0, <1>1, <1>2, <1>3 DEF CpusListed, HasEntered
<1> QED BY <1>4, <1>5, <1>6, <1>7, <1>8 DEF BootI

\* Once all are started, every processor is given its place in the list as its
\* index.
LEMMA NumberSteps ==
    ASSUME BootI, NumberCpus
    PROVE  BootI'
<1>0. BootTypes /\ BootStages /\ ApStages /\ Answers /\ CpusListed /\ Numbered
  BY DEF BootI
<1>1. /\ apBoot.pc = "init" /\ apBoot.n > ApCount /\ apBoot'.pc = "go" /\ apBoot'.n = apBoot.n
      /\ apBoot' = [n |-> apBoot.n, pc |-> "go"] /\ UNCHANGED <<apState, apOk, apStalled, apCpus>>
      /\ apIndex' = [a \in DOMAIN apIndex |->
                      IF a \in Range(apCpus) THEN (CHOOSE n \in 1..Len(apCpus) : apCpus[n] = a) - 1 ELSE apIndex[a]]
  BY DEF NumberCpus, At, BootGo, ApCount
<1>2. apBoot.n = ApCount + 1 /\ Len(apCpus) = ApCount + 1 /\ ApCount \in Nat
  BY <1>0, <1>1, ApFacts DEF BootTypes, CpusListed, HasEntered
<1>3. \A i \in ApPlace : ApStateOf(i)' = ApStateOf(i)
  BY <1>1 DEF ApStateOf
<1>4. /\ apCpus[1] = Bsp /\ apCpus \in Seq({Bsp} \cup Range(ApIds))
      /\ \A i \in ApPlace : apCpus[i + 1] = ApIds[i] /\ i + 1 \in 1..Len(apCpus)
      /\ \A k \in 1..Len(apCpus) : k \in Nat /\ (k = 1 \/ k - 1 \in ApPlace)
      /\ DOMAIN apCpus = 1..Len(apCpus)
  <2>1. apCpus[1] = Bsp /\ \A i \in ApPlace : i < Len(apCpus) => apCpus[i + 1] = ApIds[i]
    BY <1>0 DEF CpusListed
  <2>2. \A i \in ApPlace : i < Len(apCpus) /\ i + 1 \in 1..Len(apCpus)
    BY <1>2, ApFacts
  <2>3. \A k \in 1..Len(apCpus) : k \in Nat /\ (k = 1 \/ k - 1 \in ApPlace)
    BY <1>2 DEF ApPlace
  <2>4. apCpus \in Seq({Bsp} \cup Range(ApIds)) /\ DOMAIN apCpus = 1..Len(apCpus)
    BY <1>0, LenProperties DEF BootTypes
  <2> QED BY <2>1, <2>2, <2>3, <2>4
<1>5. ASSUME NEW i \in ApPlace PROVE apIndex'[ApIds[i]] = i
  <2>1. ApIds[i] \in DOMAIN apIndex /\ ApIds[i] \in Range(apCpus) /\ i \in Nat
    BY <1>0, <1>4, ApFacts DEF BootTypes, Range
  <2>2. \A k \in 1..Len(apCpus) : apCpus[k] = ApIds[i] => k = i + 1
    <3> SUFFICES ASSUME NEW k \in 1..Len(apCpus), apCpus[k] = ApIds[i] PROVE k = i + 1
      OBVIOUS
    <3>1. k # 1
      BY <1>4, ApFacts
    <3>2. PICK j \in ApPlace : j = k - 1
      BY <1>4, <3>1
    <3>3. k = j + 1
      BY <1>4, <3>2
    <3>4. ApIds[j] = ApIds[i]
      BY <1>4, <3>3
    <3> QED BY <3>3, <3>4, ApFacts
  <2> DEFINE at == CHOOSE k \in 1..Len(apCpus) : apCpus[k] = ApIds[i]
  <2>3. at = i + 1
    BY <1>4, <2>2
  <2>4. apIndex'[ApIds[i]] = at - 1
    BY <1>1, <2>1
  <2> HIDE DEF at
  <2> QED BY <2>1, <2>3, <2>4
<1>6. apIndex' \in [{Bsp} \cup Range(ApIds) -> Int]
  <2>1. DOMAIN apIndex = {Bsp} \cup Range(ApIds)
    BY <1>0 DEF BootTypes
  <2>2. \A a \in Range(ApIds) : apIndex'[a] \in Int
    BY <1>5, ApFacts
  <2>3. apIndex'[Bsp] \in Int
    <3>1. Bsp \in DOMAIN apIndex /\ apIndex[Bsp] \in Int
      BY <1>0 DEF BootTypes
    <3>2. apIndex'[Bsp] = IF Bsp \in Range(apCpus) THEN (CHOOSE n \in 1..Len(apCpus) : apCpus[n] = Bsp) - 1 ELSE apIndex[Bsp]
      BY <1>1, <3>1
    <3>3. 1 \in 1..Len(apCpus)
      BY <1>2
    <3>4. (CHOOSE n \in 1..Len(apCpus) : apCpus[n] = Bsp) \in 1..Len(apCpus)
      BY <1>4, <3>3
    <3>5. (CHOOSE n \in 1..Len(apCpus) : apCpus[n] = Bsp) \in Nat
      BY <1>4, <3>4
    <3> QED BY <3>1, <3>2, <3>5
  <2> QED BY <1>1, <2>1, <2>2, <2>3
<1>7. BootTypes'
  BY <1>0, <1>1, <1>6 DEF BootTypes
<1>8. BootStages' /\ Answers' /\ Numbered'
  BY <1>0, <1>1, <1>2, <1>5 DEF BootStages, Answers, Numbered
<1>9. ApStages'
  BY <1>0, <1>1, <1>3 DEF ApStages
<1>10. CpusListed'
  BY <1>0, <1>1 DEF CpusListed, HasEntered
<1> QED BY <1>7, <1>8, <1>9, <1>10 DEF BootI

\* A processor that is between its start and its answer is the one the first
\* processor waits for.
LEMMA ApSteps ==
    ASSUME BootI, NEW a \in Range(ApIds), ApStep(a)
    PROVE  BootI'
<1>0. BootTypes /\ BootStages /\ ApStages /\ Answers /\ CpusListed /\ Numbered
  BY DEF BootI
<1>1. PICK n \in ApPlace : a = ApIds[n]
  BY ApFacts
<1>2. apState[a] = ApStateOf(n) /\ n \in Nat /\ n <= ApCount /\ ApCount \in Nat /\ apBoot.n \in Nat
  BY <1>0, <1>1, ApFacts DEF ApStateOf, BootTypes
<1>3. UNCHANGED <<apBoot, apStalled, apIndex>>
  BY DEF ApStep, ApEnters, ApAdded, ApAnswers, ApRuns
<1>4. ASSUME NEW to \in {"adding", "added", "stalled", "runs"}, apState' = [apState EXCEPT ![a] = to]
      PROVE  /\ ApStateOf(n)' = to /\ \A i \in ApPlace : i # n => ApStateOf(i)' = ApStateOf(i)
             /\ apState' \in [Range(ApIds) -> {"off", "started", "adding", "added", "stalled", "runs"}]
  BY <1>0, <1>1, <1>4, ApFacts DEF ApStateOf, BootTypes
<1>5. apState[a] \in {"started", "adding", "added"} => n = apBoot.n /\ apBoot.pc = "spin"
  BY <1>0, <1>2 DEF ApStages
<1>6. BootStages' /\ Numbered'
  BY <1>0, <1>3 DEF BootStages, Numbered
<1>7. CASE ApEnters(a)
  <2>1. apState[a] = "started" /\ apState' = [apState EXCEPT ![a] = "adding"] /\ UNCHANGED <<apOk, apCpus>>
    BY <1>7 DEF ApEnters
  <2>2. n = apBoot.n /\ apBoot.pc = "spin" /\ ApStateOf(n) = "started" /\ ApStateOf(n)' = "adding"
        /\ \A i \in ApPlace : i # n => ApStateOf(i)' = ApStateOf(i)
    BY <1>2, <1>4, <1>5, <2>1
  <2>3. BootTypes'
    BY <1>0, <1>3, <1>4, <2>1 DEF BootTypes
  <2>4. ApStages'
    BY <1>0, <1>2, <1>3, <2>2 DEF ApStages
  <2>5. Answers'
    BY <1>0, <1>3, <2>1, <2>2 DEF Answers
  <2>6. CpusListed'
    BY <1>0, <1>3, <2>1, <2>2 DEF CpusListed, HasEntered
  <2> QED BY <1>6, <2>3, <2>4, <2>5, <2>6 DEF BootI
<1>8. CASE ApAdded(a)
  <2>1. apState[a] = "adding" /\ apState' = [apState EXCEPT ![a] = "added"] /\ UNCHANGED apOk
        /\ apCpus' = Append(apCpus, a)
    BY <1>8 DEF ApAdded
  <2>2. n = apBoot.n /\ apBoot.pc = "spin" /\ ApStateOf(n) = "adding" /\ ApStateOf(n)' = "added"
        /\ \A i \in ApPlace : i # n => ApStateOf(i)' = ApStateOf(i)
    BY <1>2, <1>4, <1>5, <2>1
  <2>3. apCpus \in Seq({Bsp} \cup Range(ApIds)) /\ Len(apCpus) = n
    BY <1>0, <2>2 DEF BootTypes, CpusListed, HasEntered
  <2>4. /\ apCpus' \in Seq({Bsp} \cup Range(ApIds)) /\ Len(apCpus') = n + 1 /\ apCpus'[n + 1] = a
        /\ \A k \in 1..n : apCpus'[k] = apCpus[k]
    BY <2>1, <2>3, AppendProperties
  <2>5. BootTypes'
    BY <1>0, <1>3, <1>4, <2>1, <2>4 DEF BootTypes
  <2>6. ApStages'
    BY <1>0, <1>2, <1>3, <2>2 DEF ApStages
  <2>7. Answers'
    BY <1>0, <1>3, <2>1, <2>2 DEF Answers
  <2>8. CpusListed'
    <3>1. apCpus[1] = Bsp /\ \A i \in ApPlace : i < n => apCpus[i + 1] = ApIds[i]
      BY <1>0, <2>3 DEF CpusListed
    <3>2. apCpus'[1] = Bsp
      BY <1>2, <2>4, <3>1, ApFacts
    <3>3. ASSUME NEW i \in ApPlace, i < n + 1 PROVE apCpus'[i + 1] = ApIds[i]
      <4>1. i \in Nat /\ 1 <= i
        BY ApFacts
      <4>2. CASE i = n
        BY <1>1, <2>4, <4>2
      <4>3. CASE i < n
        <5>1. i + 1 \in 1..n
          BY <1>2, <4>1, <4>3
        <5> QED BY <2>4, <3>1, <4>3, <5>1
      <4> QED BY <1>2, <3>3, <4>1, <4>2, <4>3
    <3>4. HasEntered'
      BY <1>3, <2>2 DEF HasEntered
    <3> QED BY <1>3, <2>2, <2>4, <3>2, <3>3, <3>4 DEF CpusListed
  <2> QED BY <1>6, <2>5, <2>6, <2>7, <2>8 DEF BootI
<1>9. CASE ApAnswers(a)
  <2>1. apState[a] = "added" /\ apState' = [apState EXCEPT ![a] = "stalled"] /\ apOk' = TRUE /\ UNCHANGED apCpus
    BY <1>9 DEF ApAnswers
  <2>2. n = apBoot.n /\ apBoot.pc = "spin" /\ ApStateOf(n) = "added" /\ ApStateOf(n)' = "stalled"
        /\ \A i \in ApPlace : i # n => ApStateOf(i)' = ApStateOf(i)
    BY <1>2, <1>4, <1>5, <2>1
  <2>3. BootTypes'
    BY <1>0, <1>3, <1>4, <2>1 DEF BootTypes
  <2>4. ApStages'
    BY <1>0, <1>2, <1>3, <2>2 DEF ApStages
  <2>5. Answers'
    BY <1>0, <1>3, <2>1, <2>2 DEF Answers
  <2>6. CpusListed'
    BY <1>0, <1>3, <2>1, <2>2 DEF CpusListed, HasEntered
  <2> QED BY <1>6, <2>3, <2>4, <2>5, <2>6 DEF BootI
<1>10. CASE ApRuns(a)
  <2>1. apState[a] = "stalled" /\ ~apStalled /\ apState' = [apState EXCEPT ![a] = "runs"] /\ UNCHANGED <<apOk, apCpus>>
    BY <1>10 DEF ApRuns
  <2>2. apBoot.pc = "done" /\ apBoot.n = ApCount + 1 /\ n < apBoot.n
    BY <1>0, <1>2, <2>1 DEF BootStages
  <2>3. ApStateOf(n)' = "runs" /\ \A i \in ApPlace : i # n => ApStateOf(i)' = ApStateOf(i)
    BY <1>4, <2>1
  <2>4. BootTypes'
    BY <1>0, <1>3, <1>4, <2>1 DEF BootTypes
  <2>5. ApStages'
    BY <1>0, <1>2, <1>3, <2>2, <2>3 DEF ApStages
  <2>6. Answers' /\ CpusListed'
    BY <1>0, <1>3, <2>1, <2>2 DEF Answers, CpusListed, HasEntered
  <2> QED BY <1>6, <2>4, <2>5, <2>6 DEF BootI
<1> QED BY <1>7, <1>8, <1>9, <1>10 DEF ApStep

\* Interrupts do not touch the start.
LEMMA BootRests == ASSUME BootI, UNCHANGED bootVars PROVE BootI'
BY DEF bootVars, BootI, BootTypes, BootStages, ApStages, Answers, CpusListed, Numbered, HasEntered, ApStateOf

\* What the invariant says of the start: one processor enters at a time, and
\* those that run have an index.
LEMMA BootImplies ==
    ASSUME BootI
    PROVE  Len(apCpus) <= Len(ApIds) + 1 /\ OneApEnters /\ RunningApsIndexed
<1>0. BootTypes /\ BootStages /\ ApStages /\ Answers /\ CpusListed /\ Numbered
  BY DEF BootI
<1>1. apBoot.n \in Nat /\ apBoot.n <= ApCount + 1 /\ ApCount \in Nat
  BY <1>0, ApFacts DEF BootTypes
<1>2. Len(apCpus) <= Len(ApIds) + 1
  BY <1>0, <1>1 DEF CpusListed, HasEntered, BootStages, ApCount
<1>3. OneApEnters
  <2> DEFINE E == {a \in Range(ApIds) : apState[a] \in {"started", "adding", "added"}}
  <2>1. E \subseteq {ApIds[apBoot.n]}
    <3> SUFFICES ASSUME NEW a \in E PROVE a = ApIds[apBoot.n]
      OBVIOUS
    <3>1. PICK i \in ApPlace : a = ApIds[i]
      BY ApFacts
    <3>2. ApStateOf(i) \in {"started", "adding", "added"} /\ i \in Nat
      BY <3>1, ApFacts DEF ApStateOf
    <3>3. i = apBoot.n
      BY <1>0, <1>1, <3>2 DEF ApStages
    <3> QED BY <3>1, <3>3
  <2> HIDE DEF E
  <2>2. IsFiniteSet({ApIds[apBoot.n]}) /\ Cardinality({ApIds[apBoot.n]}) = 1
    BY FS_Singleton
  <2>3. Cardinality(E) <= 1
    BY <2>1, <2>2, FS_Subset
  <2> QED BY <2>3 DEF OneApEnters, E
<1>4. RunningApsIndexed
  <2> SUFFICES ASSUME NEW a \in Range(ApIds), apState[a] = "runs"
               PROVE  apIndex[a] + 1 \in 1..Len(apCpus) /\ apCpus[apIndex[a] + 1] = a
    BY DEF RunningApsIndexed
  <2>1. PICK i \in ApPlace : a = ApIds[i]
    BY ApFacts
  <2>2. ApStateOf(i) = "runs" /\ i \in Nat /\ 1 <= i /\ i <= ApCount
    BY <2>1, ApFacts DEF ApStateOf
  <2>3. apBoot.pc = "done"
    BY <1>0, <1>1, <2>2 DEF ApStages
  <2>4. apIndex[a] = i /\ Len(apCpus) = ApCount + 1
    BY <1>0, <2>1, <2>3 DEF Numbered, BootStages, CpusListed, HasEntered
  <2>5. apCpus[i + 1] = ApIds[i]
    BY <1>0, <1>1, <2>2, <2>4 DEF CpusListed
  <2> QED BY <1>1, <2>1, <2>2, <2>4, <2>5
<1> QED BY <1>2, <1>3, <1>4

-----------------------------------------------------------------------------
(* Interrupts *)

\* The lines of the model: those of the controllers, and those of the messages.
LEMMA LineFacts ==
    /\ Lines \subseteq AllLines /\ \A n \in 0..(MaxMsi - 1) : MsiLine(n) \in AllLines
    /\ \A line \in Nat : Controllers(line) # {} => line \in Lines
<1>1. Lines \subseteq AllLines /\ \A n \in 0..(MaxMsi - 1) : MsiLine(n) \in AllLines
  BY DEF AllLines
<1>2. ASSUME NEW line \in Nat, Controllers(line) # {} PROVE line \in Lines
  <2>1. PICK n \in 1..Len(IoApics) : IoApics[n].base <= line /\ line - IoApics[n].base < IoApics[n].entries
    BY <1>2 DEF Controllers
  <2>2. IoApics \in Seq([base : Nat, entries : Nat]) /\ DOMAIN IoApics = 1..Len(IoApics)
    BY ApicAssumption, LenProperties
  <2>3. IoApics[n] \in [base : Nat, entries : Nat] /\ IoApics[n] \in Range(IoApics)
    BY <2>2, ElementOfSeq DEF Range
  <2>4. IoApics[n].base \in Nat /\ IoApics[n].entries \in Nat
    BY <2>3
  <2>5. line \in IoApics[n].base..(IoApics[n].base + IoApics[n].entries - 1)
    BY <2>1, <2>4
  <2> QED BY <2>3, <2>5 DEF Lines
<1> QED BY <1>1, <1>2

\* What drivers still have to do loses its first call, which has been made.
LEMMA CallTaken ==
    ASSUME apLeft \in Seq(IrqCalls), apLeft # <<>>, apLeft' = Tail(apLeft)
    PROVE  /\ apLeft' \in Seq(IrqCalls) /\ Head(apLeft) \in IrqCalls
           /\ (\E plan \in IrqPlans : Remains(plan)) => \E plan \in IrqPlans : Remains(plan)'
           /\ EnableCalled => EnableCalled'
           /\ (\E plan \in IrqPlans : Remains(plan)) =>
                 /\ Head(apLeft).t = "enable" => EnableCalled'
                 /\ Head(apLeft).irq \in DOMAIN Gsi
<1>1. PICK k \in Nat : k = Len(apLeft)
  BY LenProperties
<1>2. /\ k # 0 /\ apLeft' \in Seq(IrqCalls) /\ Len(apLeft') = k - 1 /\ Head(apLeft) = apLeft[1]
      /\ Head(apLeft) \in IrqCalls /\ \A i \in 1..(k - 1) : apLeft'[i] = apLeft[i + 1]
  BY <1>1, HeadTailProperties, EmptySeq
<1>3. ASSUME NEW plan \in IrqPlans, Remains(plan)
      PROVE  /\ Remains(plan)'
             /\ \A n \in 1..(Len(plan) - Len(apLeft)) : n \in 1..(Len(plan) - Len(apLeft'))
             /\ Len(plan) - Len(apLeft') \in 1..(Len(plan) - Len(apLeft'))
             /\ plan[Len(plan) - Len(apLeft')] = Head(apLeft)
             /\ Head(apLeft).irq \in DOMAIN Gsi
  <2>1. PICK m \in Nat : m = Len(plan)
    BY ApicAssumption, LenProperties
  <2>2. k <= m /\ \A i \in 1..k : apLeft[i] = plan[m - k + i]
    BY <1>1, <1>3, <2>1 DEF Remains
  <2>3. m - k + 1 = m - (k - 1) /\ m - k + 1 \in 1..(m - (k - 1)) /\ 1 \in 1..k /\ k - 1 <= m /\ m - (k - 1) \in 1..m
    BY <1>2, <2>2
  <2>4. \A i \in 1..(k - 1) : i + 1 \in 1..k /\ m - k + (i + 1) = m - (k - 1) + i
    BY <1>2, <2>2
  <2>5. \A i \in 1..(k - 1) : apLeft'[i] = plan[m - (k - 1) + i]
    BY <1>2, <2>2, <2>4
  <2>6. Remains(plan)'
    BY <1>2, <2>1, <2>3, <2>5 DEF Remains
  <2>7. \A n \in 1..(m - k) : n \in 1..(m - (k - 1))
    BY <1>2, <2>2
  <2>8. plan[m - (k - 1)] = Head(apLeft)
    BY <1>2, <2>2, <2>3
  <2>9. Head(apLeft).irq \in DOMAIN Gsi
    BY <2>1, <2>3, <2>8, ApicAssumption
  <2> QED BY <1>1, <1>2, <2>1, <2>3, <2>6, <2>7, <2>8, <2>9
<1>4. (\E plan \in IrqPlans : Remains(plan)) => \E plan \in IrqPlans : Remains(plan)'
  BY <1>3
<1>5. EnableCalled => EnableCalled'
  BY <1>3 DEF EnableCalled
<1>6. ASSUME NEW plan \in IrqPlans, Remains(plan), Head(apLeft).t = "enable" PROVE EnableCalled'
  BY <1>3, <1>6 DEF EnableCalled
<1>7. (\E plan \in IrqPlans : Remains(plan)) => Head(apLeft).irq \in DOMAIN Gsi
  BY <1>3
<1> QED BY <1>2, <1>4, <1>5, <1>6, <1>7

\* No line is unmasked and no handler installed at first.
LEMMA IrqStart == ApInit => IrqI
<1> SUFFICES ASSUME ApInit PROVE IrqI
  OBVIOUS
<1>1. PICK plan \in IrqPlans : apLeft = plan
  BY DEF ApInit
<1>2. plan \in Seq(IrqCalls)
  BY ApicAssumption DEF IrqCalls
<1>3. IrqTypes
  <2>1. apMsi \in 0..MaxMsi
    BY ApicAssumption DEF ApInit
  <2>2. apIdt \in [AllLines -> Drivers \cup {"none"}] /\ apRedir \in [Lines -> {"masked", "open"}]
    BY DEF ApInit
  <2>3. apDo \in Seq(IrqOp)
    BY DEF ApInit
  <2> QED BY <1>1, <1>2, <2>1, <2>2, <2>3 DEF IrqTypes
<1>4. Remains(plan)
  <2>1. Len(plan) \in Nat
    BY <1>2, LenProperties
  <2>2. \A n \in 1..Len(plan) : Len(plan) - Len(plan) + n = n
    BY <2>1
  <2> QED BY <1>1, <2>1, <2>2 DEF Remains
<1>5. CallSteps /\ OpenIsInstalled /\ FiresInstalled
  BY DEF ApInit, CallSteps, OpenIsInstalled, FiresInstalled
<1> QED BY <1>3, <1>4, <1>5 DEF IrqI

\* The start does not touch the interrupts.
LEMMA IrqRests ==
    ASSUME IrqI, UNCHANGED irqVars, apStop' = "not installed" => apStop = "not installed"
    PROVE  IrqI'
<1>1. UNCHANGED <<apIdt, apRedir, apMsi, apLeft, apDo>>
  BY DEF irqVars
<1>2. (\A plan : Remains(plan)' <=> Remains(plan)) /\ (EnableCalled' <=> EnableCalled)
  BY <1>1 DEF Remains, EnableCalled
<1>3. IrqTypes' /\ CallSteps'
  BY <1>1 DEF IrqI, IrqTypes, CallSteps, IdtOp, OpenOp
<1>4. OpenIsInstalled'
  BY <1>1, <1>2 DEF IrqI, OpenIsInstalled
<1>5. FiresInstalled'
  BY <1>1, <1>2 DEF IrqI, FiresInstalled, EnableCalled
<1> QED BY <1>2, <1>3, <1>4, <1>5 DEF IrqI

\* A driver begins a call (register, enable, disable, register_msi).
LEMMA CallsMade ==
    ASSUME IrqI, IrqCall
    PROVE  IrqI'
<1>0. IrqTypes /\ CallSteps /\ (\E plan \in IrqPlans : Remains(plan)) /\ OpenIsInstalled /\ FiresInstalled
  BY DEF IrqI
<1>1. apDo = <<>> /\ apLeft # <<>> /\ apLeft' = Tail(apLeft) /\ UNCHANGED <<apIdt, apStop>>
  BY DEF IrqCall
<1>2. /\ apLeft' \in Seq(IrqCalls) /\ Head(apLeft) \in IrqCalls /\ (\E plan \in IrqPlans : Remains(plan)')
      /\ (EnableCalled => EnableCalled') /\ (Head(apLeft).t = "enable" => EnableCalled')
      /\ Head(apLeft).irq \in DOMAIN Gsi
  BY <1>0, <1>1, CallTaken DEF IrqTypes
<1>3. PICK c \in IrqCalls : c = Head(apLeft)
  BY <1>2
<1>4. PICK line \in Nat : line = Gsi[c.irq]
  BY <1>2, <1>3, ApicAssumption
<1>5. c.driver \in Drivers
  BY <1>3 DEF IrqCalls
<1>6. FiresInstalled'
  BY <1>0, <1>1, <1>2 DEF FiresInstalled, EnableCalled
<1>7. apIdt' \in [AllLines -> Drivers \cup {"none"}]
  BY <1>0, <1>1 DEF IrqTypes
<1>8. CASE c.t = "register"
  <2>1. /\ UNCHANGED <<apRedir, apMsi>>
        /\ apDo' = apDo \/ (Controllers(line) # {} /\ apDo' = RegisterSteps(line, c.driver))
    BY <1>3, <1>4, <1>8 DEF IrqCall
  <2>2. CASE apDo' = apDo
    BY <1>0, <1>1, <1>2, <1>6, <2>1, <2>2 DEF IrqI, IrqTypes, CallSteps, OpenIsInstalled
  <2>3. CASE Controllers(line) # {} /\ apDo' = RegisterSteps(line, c.driver)
    <3>1. line \in Lines /\ line \in AllLines
      BY <2>3, LineFacts
    <3> DEFINE o == [op |-> "idt", line |-> line, driver |-> c.driver]
               p == [op |-> "open", line |-> line]
    <3>2. o \in IrqOp /\ p \in IrqOp /\ IdtOp(o) /\ OpenOp(p) /\ p.line = o.line
      BY <1>5, <3>1 DEF IrqOp, IdtOp, OpenOp
    <3>3. apDo' = <<o, p>>
      BY <2>3 DEF RegisterSteps
    <3> HIDE DEF o, p
    <3>4. apDo' \in Seq(IrqOp) /\ Len(apDo') = 2 /\ apDo'[1] = o /\ apDo'[2] = p
      BY <3>2, <3>3
    <3>5. CallSteps'
      <4>1. IdtOp(apDo'[1]) /\ OpenOp(apDo'[2])
        BY <3>2, <3>4
      <4> QED BY <3>2, <3>4, <4>1 DEF CallSteps, IdtOp, OpenOp
    <3>6. IrqTypes' /\ OpenIsInstalled'
      BY <1>0, <1>1, <1>2, <2>1, <3>4 DEF IrqTypes, OpenIsInstalled
    <3> QED BY <1>2, <1>6, <3>5, <3>6 DEF IrqI
  <2> QED BY <2>1, <2>2, <2>3
<1>9. CASE c.t \in {"enable", "disable"}
  <2>1. /\ UNCHANGED <<apDo, apMsi>>
        /\ \/ apRedir' = apRedir
           \/ Entry2(line) \in Lines /\ apRedir' = [apRedir EXCEPT ![Entry2(line)] = IF c.t = "enable" THEN "open" ELSE "masked"]
    BY <1>3, <1>4, <1>9 DEF IrqCall
  <2>2. /\ apRedir' \in [Lines -> {"masked", "open"}]
        /\ c.t = "enable" \/ \A l \in Lines : apRedir'[l] = "open" => apRedir[l] = "open"
    BY <1>0, <2>1 DEF IrqTypes
  <2>3. OpenIsInstalled'
    <3>1. CASE EnableCalled'
      BY <3>1 DEF OpenIsInstalled
    <3>2. CASE ~EnableCalled'
      <4>1. \A l \in Lines : apRedir'[l] = "open" => apRedir[l] = "open"
        BY <1>2, <1>3, <2>2, <3>2
      <4> QED BY <1>0, <1>1, <1>2, <3>2, <4>1 DEF OpenIsInstalled
    <3> QED BY <3>1, <3>2
  <2>4. IrqTypes' /\ CallSteps'
    BY <1>0, <1>1, <1>2, <2>1, <2>2 DEF IrqTypes, CallSteps
  <2> QED BY <1>2, <1>6, <2>3, <2>4 DEF IrqI
<1>10. CASE c.t = "msi"
  <2>1. /\ UNCHANGED apRedir
        /\ \/ UNCHANGED <<apMsi, apDo>>
           \/ apMsi < MaxMsi /\ apMsi' = apMsi + 1 /\ apDo' = <<[op |-> "idt", line |-> MsiLine(apMsi), driver |-> c.driver]>>
    BY <1>3, <1>10 DEF IrqCall, MsiLeft
  <2>2. CASE UNCHANGED <<apMsi, apDo>>
    BY <1>0, <1>1, <1>2, <1>6, <2>1, <2>2 DEF IrqI, IrqTypes, CallSteps, OpenIsInstalled
  <2>3. CASE apMsi < MaxMsi /\ apMsi' = apMsi + 1 /\ apDo' = <<[op |-> "idt", line |-> MsiLine(apMsi), driver |-> c.driver]>>
    <3>1. apMsi' \in 0..MaxMsi /\ apMsi \in 0..(MaxMsi - 1)
      BY <1>0, <2>3, ApicAssumption DEF IrqTypes
    <3> DEFINE o == [op |-> "idt", line |-> MsiLine(apMsi), driver |-> c.driver]
    <3>2. o \in IrqOp /\ IdtOp(o)
      BY <1>5, <3>1, LineFacts DEF IrqOp, IdtOp
    <3>3. apDo' = <<o>>
      BY <2>3
    <3> HIDE DEF o
    <3>4. apDo' \in Seq(IrqOp) /\ Len(apDo') = 1 /\ apDo'[1] = o
      BY <3>2, <3>3
    <3>5. CallSteps'
      <4>1. IdtOp(apDo'[1])
        BY <3>2, <3>4
      <4> QED BY <3>4, <4>1 DEF CallSteps, IdtOp
    <3>6. IrqTypes' /\ OpenIsInstalled'
      BY <1>0, <1>1, <1>2, <2>1, <3>1, <3>4 DEF IrqTypes, OpenIsInstalled
    <3> QED BY <1>2, <1>6, <3>5, <3>6 DEF IrqI
  <2> QED BY <2>1, <2>2, <2>3
<1> QED BY <1>8, <1>9, <1>10 DEF IrqCalls

\* The writes to the table and to the controller that the call has left.
LEMMA CallsStep ==
    ASSUME IrqI, IrqStep
    PROVE  IrqI'
<1>0. IrqTypes /\ CallSteps /\ (\E plan \in IrqPlans : Remains(plan)) /\ OpenIsInstalled /\ FiresInstalled
  BY DEF IrqI
<1>1. apDo # <<>> /\ apDo' = Tail(apDo) /\ UNCHANGED <<apMsi, apLeft, apStop>>
  BY DEF IrqStep
<1>2. apDo \in Seq(IrqOp)
  BY <1>0 DEF IrqTypes
<1>3. /\ apDo' \in Seq(IrqOp) /\ Len(apDo') = Len(apDo) - 1 /\ Head(apDo) = apDo[1] /\ Len(apDo) \in Nat
      /\ \A i \in 1..(Len(apDo) - 1) : apDo'[i] = apDo[i + 1]
  BY <1>1, <1>2, HeadTailProperties, LenProperties
<1>4. (\A plan : Remains(plan)' <=> Remains(plan)) /\ (EnableCalled' <=> EnableCalled)
  BY <1>1 DEF Remains, EnableCalled
<1>5. FiresInstalled'
  BY <1>0, <1>1, <1>4 DEF FiresInstalled, EnableCalled
<1>6. CASE IdtOp(apDo[1])
  <2>1. apIdt' = [apIdt EXCEPT ![apDo[1].line] = apDo[1].driver] /\ UNCHANGED apRedir
    BY <1>3, <1>6 DEF IrqStep, IdtOp
  <2>2. apDo[1].line \in AllLines /\ apDo[1].driver \in Drivers /\ apDo[1].driver # "none"
    BY <1>6, ApicAssumption DEF IdtOp
  <2>3. apIdt' \in [AllLines -> Drivers \cup {"none"}] /\ apIdt'[apDo[1].line] # "none"
        /\ \A l \in AllLines : apIdt[l] # "none" => apIdt'[l] # "none"
    BY <1>0, <2>1, <2>2 DEF IrqTypes
  <2>4. IrqTypes'
    BY <1>0, <1>1, <1>3, <2>1, <2>3 DEF IrqTypes
  <2>5. OpenIsInstalled'
    BY <1>0, <1>4, <2>1, <2>3, LineFacts DEF OpenIsInstalled
  <2>6. CallSteps'
    <3>1. CASE Len(apDo) = 1
      <4>1. apDo' = <<>>
        BY <1>3, <3>1, EmptySeq
      <4> QED BY <4>1 DEF CallSteps
    <3>2. CASE Len(apDo) = 2 /\ OpenOp(apDo[2]) /\ apDo[2].line = apDo[1].line
      <4>1. Len(apDo') = 1 /\ apDo'[1] = apDo[2]
        BY <1>3, <3>2
      <4>2. OpenOp(apDo'[1]) /\ apIdt'[apDo'[1].line] # "none"
        BY <2>3, <3>2, <4>1
      <4> QED BY <4>1, <4>2 DEF CallSteps, OpenOp
    <3> QED BY <1>0, <1>1, <1>6, <3>1, <3>2 DEF CallSteps
  <2> QED BY <1>0, <1>4, <1>5, <2>4, <2>5, <2>6 DEF IrqI
<1>7. CASE Len(apDo) = 1 /\ OpenOp(apDo[1]) /\ apIdt[apDo[1].line] # "none"
  <2>1. apRedir' = [apRedir EXCEPT ![apDo[1].line] = "open"] /\ UNCHANGED apIdt
    BY <1>3, <1>7 DEF IrqStep, OpenOp
  <2>2. apDo[1].line \in Lines
    BY <1>7 DEF OpenOp
  <2>3. IrqTypes'
    BY <1>0, <1>1, <1>3, <2>1, <2>2 DEF IrqTypes
  <2>4. OpenIsInstalled'
    BY <1>0, <1>4, <1>7, <2>1, <2>2 DEF OpenIsInstalled, IrqTypes
  <2>5. CallSteps'
    <3>1. apDo' = <<>>
      BY <1>3, <1>7, EmptySeq
    <3> QED BY <3>1 DEF CallSteps
  <2> QED BY <1>0, <1>4, <1>5, <2>3, <2>4, <2>5 DEF IrqI
<1> QED BY <1>0, <1>1, <1>6, <1>7 DEF CallSteps

\* An interrupt finds a handler unless a driver opened the line by hand.
LEMMA IrqsHandled ==
    ASSUME IrqI, NEW line \in AllLines, HandleIrq(line)
    PROVE  IrqI'
<1>0. IrqTypes /\ CallSteps /\ (\E plan \in IrqPlans : Remains(plan)) /\ OpenIsInstalled /\ FiresInstalled
  BY DEF IrqI
<1>1. UNCHANGED <<apIdt, apRedir, apMsi, apLeft, apDo>>
  BY DEF HandleIrq
<1>2. (\A plan : Remains(plan)' <=> Remains(plan)) /\ (EnableCalled' <=> EnableCalled)
  BY <1>1 DEF Remains, EnableCalled
<1>3. IrqTypes' /\ CallSteps' /\ OpenIsInstalled'
  BY <1>0, <1>1, <1>2 DEF IrqTypes, CallSteps, OpenIsInstalled, IdtOp, OpenOp
<1>4. apStop' = "not installed" => EnableCalled
  BY <1>0 DEF HandleIrq, OpenIsInstalled
<1>5. FiresInstalled'
  <2>1. apStop' = "not installed" => EnableCalled'
    BY <1>2, <1>4
  <2> QED BY <2>1 DEF FiresInstalled, EnableCalled
<1> QED BY <1>0, <1>2, <1>3, <1>5 DEF IrqI

\* The processors enter their list one at a time and each that runs has its
\* place there as its index; an interrupt meets no missing handler unless a
\* driver has called enable (apic.rs, init and handle_irq; system.rs,
\* activate_cpu).
THEOREM ApicHolds == ApicSpec => []ApicInv
<1> DEFINE ApicI == BootI /\ IrqI
<1>1. ApInit => ApicI
  BY BootStart, IrqStart
<1>2. ApicI /\ [ApicNext]_apVars => ApicI'
  <2> SUFFICES ASSUME BootI, IrqI, [ApicNext]_apVars PROVE BootI' /\ IrqI'
    OBVIOUS
  <2>1. CASE SendInitIpi \/ ResetOk \/ SendStartupIpi \/ AwaitAp \/ NumberCpus \/ LetGo
    <3>1. BootI'
      BY <2>1, BspSteps, StartupSteps, NumberSteps
    <3>2. UNCHANGED irqVars /\ (apStop' = "not installed" => apStop = "not installed")
      BY <2>1 DEF SendInitIpi, ResetOk, SendStartupIpi, AwaitAp, NumberCpus, LetGo
    <3> QED BY <3>1, <3>2, IrqRests
  <2>2. ASSUME NEW a \in Range(ApIds), ApStep(a) PROVE BootI' /\ IrqI'
    <3>1. UNCHANGED irqVars /\ apStop' = apStop
      BY <2>2 DEF ApStep, ApEnters, ApAdded, ApAnswers, ApRuns
    <3> QED BY <2>2, <3>1, ApSteps, IrqRests
  <2>3. CASE IrqCall \/ IrqStep
    <3>1. UNCHANGED bootVars
      BY <2>3 DEF IrqCall, IrqStep
    <3> QED BY <2>3, <3>1, BootRests, CallsMade, CallsStep
  <2>4. ASSUME NEW l \in AllLines, HandleIrq(l) PROVE BootI' /\ IrqI'
    <3>1. UNCHANGED bootVars
      BY <2>4 DEF HandleIrq
    <3> QED BY <2>4, <3>1, BootRests, IrqsHandled
  <2>5. CASE UNCHANGED apVars
    <3>1. UNCHANGED bootVars /\ UNCHANGED irqVars /\ apStop' = apStop
      BY <2>5 DEF apVars, bootVars, irqVars
    <3> QED BY <3>1, BootRests, IrqRests
  <2> QED BY <2>1, <2>2, <2>3, <2>4, <2>5 DEF ApicNext, BspStep
<1>3. ApicI => ApicInv
  BY BootImplies DEF ApicInv, ApTypeOK, IrqI, IrqTypes
<1> QED BY <1>1, <1>2, <1>3, PTL DEF ApicSpec

-----------------------------------------------------------------------------
(* SlabCache: where each block is, and what each thread knows of the list *)

AllocPC == {"a_load", "a_next", "a_cas", "a_count"}
FreePC == {"f_load", "f_store", "f_cas", "f_count"}

SlabTypes == /\ free_ptr \in Block \cup {NoBlock}
             /\ next \in [Block -> Block \cup {NoBlock}]
             /\ free_count \in Int /\ total_count \in Int
             /\ pc \in [Thread -> PC]
             /\ cur \in [Thread -> Block \cup {NoBlock}]
             /\ nxt \in [Thread -> Block \cup {NoBlock}]
             /\ new \in [Thread -> Block \cup {NoBlock}]
             /\ fresh \in [Thread -> SUBSET Block]
             /\ expanding \in [Thread -> BOOLEAN]
             /\ owners \in [Block -> {0, 1}]
             /\ unmapped \subseteq Block

\* The list has no cycle: nothing on it points to its head, and no two of its
\* blocks to the same one.
ListOK == /\ \A b \in FreeList : next[b] # NoBlock => next[b] # free_ptr
          /\ \A b, d \in FreeList : next[b] = next[d] /\ next[b] # NoBlock => b = d

\* The places where a block can be: with a caller, taken off the list by t,
\* on its way back to it, among the blocks of a new page, on the list, or on a
\* page that was never allocated.
Kind == {"owned", "taken", "returning", "fresh", "free", "unmapped"}
Who == Thread \cup {NoBlock}
Is(b, kind, t) ==
    \/ kind = "owned" /\ t = NoBlock /\ owners[b] = 1
    \/ kind = "taken" /\ t \in Thread /\ b \in Taken(t)
    \/ kind = "returning" /\ t \in Thread /\ b \in Returning(t)
    \/ kind = "fresh" /\ t \in Thread /\ b \in fresh[t]
    \/ kind = "free" /\ t = NoBlock /\ b \in FreeList
    \/ kind = "unmapped" /\ t = NoBlock /\ b \in unmapped
InOnePlace(b) == \E k \in Kind, t \in Who : Is(b, k, t) /\ \A j \in Kind, u \in Who : Is(b, j, u) => j = k /\ u = t

\* What each thread knows.
Knows(t) ==
    /\ pc[t] \in AllocPC \cup {"x_free"} => t \in Allocators
    /\ expanding[t] => t \in Allocators
    /\ pc[t] \in {"a_next", "a_cas"} => cur[t] \in FreeList
    /\ pc[t] = "a_cas" => nxt[t] = next[cur[t]]
    /\ pc[t] = "a_count" => cur[t] \in Block
    /\ pc[t] \in FreePC => new[t] \in Block
    /\ pc[t] = "f_cas" => next[new[t]] = cur[t]
    /\ fresh[t] # {} => expanding[t]
    /\ expanding[t] => pc[t] \in FreePC \cup {"x_free"}
    /\ pc[t] = "x_free" => expanding[t]

\* The counts, with what is still to be counted.
ThreadsAt(p) == {t \in Thread : pc[t] = p}
FreeCounted == free_count = Cardinality(FreeList) + Cardinality(ThreadsAt("a_count")) - Cardinality(ThreadsAt("f_count"))
TotalCounted ==
    \E k \in 0..SlabPages :
        /\ unmapped = (k * PerPage + 1)..(SlabPages * PerPage)
        /\ (\E t \in Thread : expanding[t]) => k >= 1 /\ total_count = k * PerPage - PerPage
        /\ (\A t \in Thread : ~expanding[t]) => total_count = k * PerPage
SlabJ == SlabTypes /\ ListOK /\ (\A b \in Block : InOnePlace(b)) /\ (\A t \in Thread : Knows(t))
SlabI == SlabJ /\ FreeCounted /\ TotalCounted

-----------------------------------------------------------------------------
(* The list *)

\* The free list is the least set of blocks that is closed under the links.
LEMMA ListIs ==
    /\ FreeList \subseteq Block
    /\ \A S \in SUBSET Block : Closed(S) => FreeList \subseteq S
    /\ SlabTypes => Closed(FreeList)
<1>1. FreeList \subseteq Block /\ \A S \in SUBSET Block : Closed(S) => FreeList \subseteq S
  BY DEF FreeList
<1>2. ASSUME SlabTypes PROVE Closed(FreeList)
  <2>1. free_ptr # NoBlock => free_ptr \in FreeList
    BY <1>2 DEF FreeList, Closed, SlabTypes
  <2>2. ASSUME NEW b \in FreeList, next[b] # NoBlock PROVE next[b] \in FreeList
    BY <1>1, <1>2, <2>2 DEF FreeList, Closed, SlabTypes
  <2> QED BY <2>1, <2>2 DEF Closed
<1> QED BY <1>1, <1>2

\* The same after a step, in a form that can be cited.
LEMMA NextListIs ==
    /\ FreeList' \subseteq Block
    /\ \A S \in SUBSET Block : Closed(S)' => FreeList' \subseteq S
BY DEF FreeList

\* A step that changes neither the head nor a link of the list keeps the list.
LEMMA SameList ==
    ASSUME SlabTypes, free_ptr' = free_ptr, \A b \in FreeList : next'[b] = next[b]
    PROVE  FreeList' = FreeList /\ (ListOK => ListOK')
<1>1. FreeList \subseteq Block /\ Closed(FreeList) /\ \A S \in SUBSET Block : Closed(S) => FreeList \subseteq S
  BY ListIs
<1>2. PICK L \in SUBSET Block : L = FreeList
  BY <1>1
<1>3. FreeList' \subseteq L
  <2>1. Closed(L)'
    BY <1>1, <1>2 DEF Closed
  <2> QED BY <1>2, <2>1, NextListIs
<1>4. ASSUME NEW S \in SUBSET Block, Closed(S)' PROVE L \subseteq S
  <2>1. Closed(S \cap L)
    BY <1>1, <1>2, <1>4 DEF Closed
  <2>2. S \cap L \in SUBSET Block
    OBVIOUS
  <2> QED BY <1>1, <1>2, <2>1, <2>2
<1>5. L \subseteq FreeList'
  BY <1>2, <1>4 DEF FreeList
<1>6. FreeList' = FreeList
  BY <1>2, <1>3, <1>5
<1>7. ListOK => ListOK'
  BY <1>6 DEF ListOK
<1> QED BY <1>6, <1>7

\* A block linked to the head and made the head joins the list.
LEMMA Push ==
    ASSUME SlabTypes, ListOK, NEW x \in Block \ FreeList, next' = next, free_ptr' = x, next[x] = free_ptr
    PROVE  FreeList' = FreeList \cup {x} /\ ListOK'
<1>1. FreeList \subseteq Block /\ Closed(FreeList) /\ \A S \in SUBSET Block : Closed(S) => FreeList \subseteq S
  BY ListIs
<1>2. PICK L \in SUBSET Block : L = FreeList
  BY <1>1
<1>0. x # NoBlock /\ NoBlock \notin Block
  BY SlabAssumption DEF NoBlock, Block
<1>3. FreeList' \subseteq L \cup {x}
  <2>1. Closed(L \cup {x})'
    BY <1>1, <1>2 DEF Closed
  <2>2. L \cup {x} \in SUBSET Block
    BY <1>2
  <2> QED BY <2>1, <2>2, NextListIs
<1>4. ASSUME NEW S \in SUBSET Block, Closed(S)' PROVE L \cup {x} \subseteq S
  <2>1. x \in S /\ (free_ptr # NoBlock => free_ptr \in S)
    BY <1>0, <1>4 DEF Closed
  <2>2. Closed(S \cap L)
    BY <1>1, <1>2, <1>4, <2>1 DEF Closed
  <2>3. S \cap L \in SUBSET Block
    OBVIOUS
  <2> QED BY <1>1, <1>2, <2>1, <2>2, <2>3
<1>5. L \cup {x} \subseteq FreeList'
  BY <1>2, <1>4 DEF FreeList
<1>6. FreeList' = FreeList \cup {x}
  BY <1>2, <1>3, <1>5
<1>7. (\A b \in FreeList : next[b] # x) /\ free_ptr # x
  BY <1>0, <1>1 DEF Closed
<1>8. ListOK'
  <2>1. ASSUME NEW b \in FreeList \cup {x}, next[b] # NoBlock PROVE next[b] # x
    BY <1>7
  <2>2. ASSUME NEW b \in FreeList \cup {x}, NEW d \in FreeList \cup {x}, next[b] = next[d], next[b] # NoBlock PROVE b = d
    BY <2>2 DEF ListOK
  <2> QED BY <1>6, <2>1, <2>2 DEF ListOK
<1> QED BY <1>6, <1>8

\* When the head gives way to its successor the list loses that one block.
LEMMA Pop ==
    ASSUME SlabTypes, ListOK, NEW x \in Block, free_ptr = x, next' = next, free_ptr' = next[x]
    PROVE  FreeList' = FreeList \ {x} /\ ListOK' /\ x \in FreeList
<1>1. FreeList \subseteq Block /\ Closed(FreeList) /\ \A S \in SUBSET Block : Closed(S) => FreeList \subseteq S
  BY ListIs
<1>2. PICK L \in SUBSET Block : L = FreeList
  BY <1>1
<1>0. x # NoBlock /\ x \in FreeList
  <2>1. x # NoBlock
    BY SlabAssumption DEF NoBlock, Block
  <2> QED BY <1>1, <2>1 DEF Closed
<1>3. FreeList' \subseteq L \ {x}
  <2>1. Closed(L \ {x})'
    BY <1>0, <1>1, <1>2 DEF Closed, ListOK
  <2>2. L \ {x} \in SUBSET Block
    BY <1>2
  <2> QED BY <2>1, <2>2, NextListIs
<1>4. ASSUME NEW S \in SUBSET Block, Closed(S)' PROVE L \ {x} \subseteq S
  <2>1. Closed(S \cup {x})
    BY <1>1, <1>2, <1>4 DEF Closed
  <2>2. S \cup {x} \in SUBSET Block
    OBVIOUS
  <2> QED BY <1>1, <1>2, <2>1, <2>2
<1>5. L \ {x} \subseteq FreeList'
  BY <1>2, <1>4 DEF FreeList
<1>6. FreeList' = FreeList \ {x}
  BY <1>2, <1>3, <1>5
<1>7. ListOK'
  BY <1>0, <1>6 DEF ListOK
<1> QED BY <1>0, <1>6, <1>7

-----------------------------------------------------------------------------
(* Places of blocks and what threads know *)

\* A block has one place.
LEMMA Apart ==
    ASSUME NEW b, InOnePlace(b), NEW k \in Kind, NEW t \in Who, NEW j \in Kind, NEW u \in Who,
           Is(b, k, t), Is(b, j, u)
    PROVE  k = j /\ t = u
BY DEF InOnePlace

\* A block that is taken or on its way back is neither on the list nor owned,
\* and one thread returns it.
LEMMA Places ==
    ASSUME SlabJ
    PROVE  /\ \A t \in Thread : \A b \in Returning(t) :
                 b \in Block /\ b \notin FreeList /\ owners[b] = 0 /\ \A u \in Thread : b \in Returning(u) => u = t
           /\ \A t \in Thread : \A b \in Taken(t) : b \in Block /\ b \notin FreeList /\ owners[b] = 0
<1>1. \A b \in Block : InOnePlace(b)
  BY DEF SlabJ
<1>2. /\ "returning" \in Kind /\ "taken" \in Kind /\ "free" \in Kind /\ "owned" \in Kind
      /\ NoBlock \in Who /\ Thread \subseteq Who
  BY DEF Kind, Who
<1>3. ASSUME NEW t \in Thread, NEW b \in Returning(t)
      PROVE  b \in Block /\ b \notin FreeList /\ owners[b] = 0 /\ \A u \in Thread : b \in Returning(u) => u = t
  <2>1. b \in Block
    BY <1>3 DEF SlabJ, Knows, Returning, FreePC
  <2>2. Is(b, "returning", t)
    BY <1>3 DEF Is
  <2>3. ~Is(b, "free", NoBlock) /\ ~Is(b, "owned", NoBlock)
    BY <1>1, <1>2, <2>1, <2>2, Apart
  <2>4. \A u \in Thread : Is(b, "returning", u) => u = t
    BY <1>1, <1>2, <2>1, <2>2, Apart
  <2> QED BY <2>1, <2>3, <2>4 DEF Is, SlabJ, SlabTypes
<1>4. ASSUME NEW t \in Thread, NEW b \in Taken(t) PROVE b \in Block /\ b \notin FreeList /\ owners[b] = 0
  <2>1. b \in Block
    BY <1>4 DEF SlabJ, Knows, Taken
  <2>2. Is(b, "taken", t)
    BY <1>4 DEF Is
  <2>3. ~Is(b, "free", NoBlock) /\ ~Is(b, "owned", NoBlock)
    BY <1>1, <1>2, <2>1, <2>2, Apart
  <2> QED BY <2>1, <2>3 DEF Is, SlabJ, SlabTypes
<1> QED BY <1>3, <1>4

\* What another thread knows survives if its locals and the links it read do.
LEMMA KnowsKept ==
    ASSUME NEW u \in Thread, Knows(u), pc'[u] = pc[u], cur'[u] = cur[u], nxt'[u] = nxt[u], new'[u] = new[u],
           fresh'[u] = fresh[u], expanding'[u] = expanding[u],
           pc[u] \in {"a_next", "a_cas"} => cur[u] \in FreeList',
           pc[u] = "a_cas" => next'[cur[u]] = next[cur[u]],
           pc[u] = "f_cas" => next'[new[u]] = next[new[u]]
    PROVE  Knows(u)'
BY DEF Knows

\* A step of t by which no block changes its place.
LEMMA QuietStep ==
    ASSUME SlabJ, NEW t \in Thread, UNCHANGED <<free_ptr, owners, unmapped, fresh>>,
           \A b \in FreeList : next'[b] = next[b],
           \A u \in Thread : u # t => /\ pc'[u] = pc[u] /\ cur'[u] = cur[u] /\ nxt'[u] = nxt[u] /\ new'[u] = new[u]
                                      /\ expanding'[u] = expanding[u]
                                      /\ pc[u] = "f_cas" => next'[new[u]] = next[new[u]],
           Taken(t)' = Taken(t), Returning(t)' = Returning(t), SlabTypes',
           FreeList' = FreeList => Knows(t)'
    PROVE  SlabJ' /\ FreeList' = FreeList
<1>0. SlabTypes /\ ListOK /\ (\A b \in Block : InOnePlace(b)) /\ (\A u \in Thread : Knows(u))
  BY DEF SlabJ
<1>1. FreeList' = FreeList /\ ListOK'
  BY <1>0, SameList
<1>2. \A u \in Thread : Taken(u)' = Taken(u) /\ Returning(u)' = Returning(u)
  BY DEF Taken, Returning
<1>3. \A b, k, u : Is(b, k, u)' <=> Is(b, k, u)
  BY <1>1, <1>2 DEF Is
<1>4. \A b \in Block : InOnePlace(b)'
  BY <1>0, <1>3 DEF InOnePlace
<1>5. ASSUME NEW u \in Thread, u # t PROVE Knows(u)'
  <2>1. /\ pc[u] \in {"a_next", "a_cas"} => cur[u] \in FreeList'
        /\ pc[u] = "a_cas" => next'[cur[u]] = next[cur[u]]
    BY <1>0, <1>1, <1>5 DEF Knows
  <2> QED BY <1>0, <1>5, <2>1, KnowsKept
<1> QED BY <1>1, <1>4, <1>5 DEF SlabJ

\* A step by which the blocks of X go from one place to another.
Moves(X, k0, t0, k1, t1) ==
    /\ \A b \in X : Is(b, k0, t0)
    /\ \A b \in Block, j \in Kind, u \in Who :
          Is(b, j, u)' <=> (Is(b, j, u) /\ ~(b \in X /\ j = k0 /\ u = t0)) \/ (b \in X /\ j = k1 /\ u = t1)

\* Every block is still in one place after such a step.
LEMMA Moved ==
    ASSUME SlabJ, NEW X \in SUBSET Block, NEW k0 \in Kind, NEW t0 \in Who, NEW k1 \in Kind, NEW t1 \in Who,
           Moves(X, k0, t0, k1, t1)
    PROVE  \A b \in Block : InOnePlace(b)'
<1>1. \A b \in Block : InOnePlace(b)
  BY DEF SlabJ
<1>2. ASSUME NEW b \in X PROVE InOnePlace(b)'
  <2>1. \A j \in Kind, u \in Who : Is(b, j, u) => j = k0 /\ u = t0
    BY <1>1, <1>2, Apart DEF Moves
  <2>2. \A j \in Kind, u \in Who : Is(b, j, u)' <=> j = k1 /\ u = t1
    BY <1>2, <2>1 DEF Moves
  <2> QED BY <2>2 DEF InOnePlace
<1>3. ASSUME NEW b \in Block, b \notin X PROVE InOnePlace(b)'
  <2>1. \A j \in Kind, u \in Who : Is(b, j, u)' <=> Is(b, j, u)
    BY <1>3 DEF Moves
  <2>2. InOnePlace(b)
    BY <1>1
  <2> QED BY <2>1, <2>2 DEF InOnePlace
<1> QED BY <1>2, <1>3

\* The steps that read, store a link of a block that is off the list, or
\* count.
LEMMA QuietSteps ==
    ASSUME SlabJ, NEW t \in Thread,
           \/ alloc(t) \/ AllocLoad(t) \/ OutOfMemory(t) \/ AllocNext(t) \/ ExpandTotal(t)
           \/ FreeLoad(t) \/ FreeStore(t) \/ FreeReturn(t)
           \/ (AllocCas(t) \/ FreeCas(t)) /\ free_ptr # cur[t]
    PROVE  SlabJ' /\ FreeList' = FreeList
<1>0. SlabTypes /\ (\A u \in Thread : Knows(u))
  BY DEF SlabJ
<1>1. UNCHANGED <<free_ptr, owners, unmapped, fresh>>
  BY DEF alloc, AllocLoad, OutOfMemory, AllocNext, ExpandTotal, FreeLoad, FreeStore, FreeReturn, AllocCas, FreeCas, locals
<1>2. Knows(t) /\ pc[t] \in PC /\ cur[t] \in Block \cup {NoBlock} /\ new[t] \in Block \cup {NoBlock}
      /\ free_ptr \in Block \cup {NoBlock} /\ (free_ptr # NoBlock => free_ptr \in FreeList) /\ FreeList \subseteq Block
  <2>1. Closed(FreeList) /\ FreeList \subseteq Block
    BY <1>0, ListIs
  <2> QED BY <1>0, <2>1 DEF SlabTypes, Closed
<1>3. CASE alloc(t)
  <2>1. t \in Allocators /\ pc[t] = "idle" /\ pc' = [pc EXCEPT ![t] = "a_load"]
        /\ UNCHANGED <<next, free_count, total_count, cur, nxt, new, expanding>>
    BY <1>3 DEF alloc, Goto, locals
  <2>2. SlabTypes'
    BY <1>0, <1>1, <2>1 DEF SlabTypes, PC
  <2>3. pc'[t] = "a_load" /\ \A u \in Thread : u # t => pc'[u] = pc[u]
    BY <1>0, <2>1 DEF SlabTypes
  <2>4. Taken(t)' = Taken(t) /\ Returning(t)' = Returning(t)
    BY <2>1, <2>3 DEF Taken, Returning
  <2>5. Knows(t)'
    BY <1>1, <1>2, <2>1, <2>3 DEF Knows, AllocPC, FreePC
  <2> QED BY <1>1, <2>1, <2>2, <2>3, <2>4, <2>5, QuietStep
<1>4. CASE AllocLoad(t)
  <2>1. pc[t] = "a_load" /\ pc' = [pc EXCEPT ![t] = "a_next"] /\ cur' = [cur EXCEPT ![t] = free_ptr]
        /\ free_ptr # NoBlock /\ UNCHANGED <<next, free_count, total_count, nxt, new, expanding>>
    BY <1>4 DEF AllocLoad, Goto
  <2>2. SlabTypes'
    BY <1>0, <1>1, <2>1 DEF SlabTypes, PC
  <2>3. pc'[t] = "a_next" /\ cur'[t] = free_ptr /\ \A u \in Thread : u # t => pc'[u] = pc[u] /\ cur'[u] = cur[u]
    BY <1>0, <2>1 DEF SlabTypes
  <2>4. Taken(t)' = Taken(t) /\ Returning(t)' = Returning(t)
    BY <2>1, <2>3 DEF Taken, Returning
  <2>5. FreeList' = FreeList => Knows(t)'
    BY <1>1, <1>2, <2>1, <2>3 DEF Knows, AllocPC, FreePC
  <2> QED BY <1>1, <2>1, <2>2, <2>3, <2>4, <2>5, QuietStep
<1>5. CASE OutOfMemory(t)
  <2>1. pc[t] = "a_load" /\ pc' = [pc EXCEPT ![t] = "idle"]
        /\ UNCHANGED <<next, free_count, total_count, cur, nxt, new, expanding>>
    BY <1>5 DEF OutOfMemory, Goto, locals
  <2>2. SlabTypes'
    BY <1>0, <1>1, <2>1 DEF SlabTypes, PC
  <2>3. pc'[t] = "idle" /\ \A u \in Thread : u # t => pc'[u] = pc[u]
    BY <1>0, <2>1 DEF SlabTypes
  <2>4. Taken(t)' = Taken(t) /\ Returning(t)' = Returning(t)
    BY <2>1, <2>3 DEF Taken, Returning
  <2>5. Knows(t)'
    BY <1>1, <1>2, <2>1, <2>3 DEF Knows, AllocPC, FreePC
  <2> QED BY <1>1, <2>1, <2>2, <2>3, <2>4, <2>5, QuietStep
<1>6. CASE AllocNext(t)
  <2>1. pc[t] = "a_next" /\ pc' = [pc EXCEPT ![t] = "a_cas"] /\ nxt' = [nxt EXCEPT ![t] = next[cur[t]]]
        /\ UNCHANGED <<next, free_count, total_count, cur, new, expanding>>
    BY <1>6 DEF AllocNext, Goto
  <2>2. SlabTypes'
    <3>1. next[cur[t]] \in Block \cup {NoBlock}
      BY <1>0, <1>2, <2>1 DEF SlabTypes, Knows
    <3> QED BY <1>0, <1>1, <2>1, <3>1 DEF SlabTypes, PC
  <2>3. pc'[t] = "a_cas" /\ nxt'[t] = next[cur[t]] /\ \A u \in Thread : u # t => pc'[u] = pc[u] /\ nxt'[u] = nxt[u]
    BY <1>0, <2>1 DEF SlabTypes
  <2>4. Taken(t)' = Taken(t) /\ Returning(t)' = Returning(t)
    BY <2>1, <2>3 DEF Taken, Returning
  <2>5. FreeList' = FreeList => Knows(t)'
    BY <1>1, <1>2, <2>1, <2>3 DEF Knows, AllocPC, FreePC
  <2> QED BY <1>1, <2>1, <2>2, <2>3, <2>4, <2>5, QuietStep
<1>7. CASE AllocCas(t) /\ free_ptr # cur[t]
  <2>1. pc[t] = "a_cas" /\ pc' = [pc EXCEPT ![t] = "a_load"]
        /\ UNCHANGED <<next, free_count, total_count, cur, nxt, new, expanding>>
    BY <1>7 DEF AllocCas, Goto, locals
  <2>2. SlabTypes'
    BY <1>0, <1>1, <2>1 DEF SlabTypes, PC
  <2>3. pc'[t] = "a_load" /\ \A u \in Thread : u # t => pc'[u] = pc[u]
    BY <1>0, <2>1 DEF SlabTypes
  <2>4. Taken(t)' = Taken(t) /\ Returning(t)' = Returning(t)
    BY <2>1, <2>3 DEF Taken, Returning
  <2>5. Knows(t)'
    BY <1>1, <1>2, <2>1, <2>3 DEF Knows, AllocPC, FreePC
  <2> QED BY <1>1, <2>1, <2>2, <2>3, <2>4, <2>5, QuietStep
<1>8. CASE ExpandTotal(t)
  <2>1. pc[t] = "x_free" /\ fresh[t] = {} /\ pc' = [pc EXCEPT ![t] = "a_load"] /\ expanding' = [expanding EXCEPT ![t] = FALSE]
        /\ total_count' = total_count + PerPage /\ UNCHANGED <<next, free_count, cur, nxt, new>>
    BY <1>8 DEF ExpandTotal, Goto
  <2>2. SlabTypes'
    <3>1. total_count' \in Int
      BY <1>0, <2>1, SlabAssumption DEF SlabTypes
    <3> QED BY <1>0, <1>1, <2>1, <3>1 DEF SlabTypes, PC
  <2>3. pc'[t] = "a_load" /\ ~expanding'[t] /\ \A u \in Thread : u # t => pc'[u] = pc[u] /\ expanding'[u] = expanding[u]
    BY <1>0, <2>1 DEF SlabTypes
  <2>4. Taken(t)' = Taken(t) /\ Returning(t)' = Returning(t)
    BY <2>1, <2>3 DEF Taken, Returning
  <2>5. Knows(t)'
    BY <1>1, <1>2, <2>1, <2>3 DEF Knows, AllocPC, FreePC
  <2> QED BY <1>1, <2>1, <2>2, <2>3, <2>4, <2>5, QuietStep
<1>9. CASE FreeLoad(t)
  <2>1. pc[t] = "f_load" /\ pc' = [pc EXCEPT ![t] = "f_store"] /\ cur' = [cur EXCEPT ![t] = free_ptr]
        /\ UNCHANGED <<next, free_count, total_count, nxt, new, expanding>>
    BY <1>9 DEF FreeLoad, Goto
  <2>2. SlabTypes'
    BY <1>0, <1>1, <2>1 DEF SlabTypes, PC
  <2>3. pc'[t] = "f_store" /\ cur'[t] = free_ptr /\ \A u \in Thread : u # t => pc'[u] = pc[u] /\ cur'[u] = cur[u]
    BY <1>0, <2>1 DEF SlabTypes
  <2>4. Taken(t)' = Taken(t) /\ Returning(t)' = Returning(t)
    BY <2>1, <2>3 DEF Taken, Returning
  <2>5. Knows(t)'
    BY <1>1, <1>2, <2>1, <2>3 DEF Knows, AllocPC, FreePC
  <2> QED BY <1>1, <2>1, <2>2, <2>3, <2>4, <2>5, QuietStep
<1>10. CASE FreeStore(t)
  <2>1. pc[t] = "f_store" /\ pc' = [pc EXCEPT ![t] = "f_cas"] /\ next' = [next EXCEPT ![new[t]] = cur[t]]
        /\ UNCHANGED <<free_count, total_count, cur, nxt, new, expanding>>
    BY <1>10 DEF FreeStore, Goto, locals
  <2>2. new[t] \in Block /\ Returning(t) = {new[t]}
    BY <1>2, <2>1 DEF Knows, FreePC, Returning
  <2>3. SlabTypes'
    BY <1>0, <1>1, <1>2, <2>1, <2>2 DEF SlabTypes, PC
  <2>4. pc'[t] = "f_cas" /\ next'[new[t]] = cur[t] /\ \A u \in Thread : u # t => pc'[u] = pc[u]
    BY <1>0, <2>1, <2>2 DEF SlabTypes
  <2>5. Taken(t)' = Taken(t) /\ Returning(t)' = Returning(t)
    BY <2>1, <2>4 DEF Taken, Returning
  <2>6. new[t] \notin FreeList /\ \A u \in Thread : u # t /\ pc[u] = "f_cas" => new[u] # new[t] /\ new[u] \in Block
    <3>1. \A u \in Thread : pc[u] = "f_cas" => new[u] \in Returning(u)
      BY DEF Returning
    <3> QED BY <2>2, <3>1, Places
  <2>7. /\ \A b \in FreeList : next'[b] = next[b]
        /\ \A u \in Thread : u # t /\ pc[u] = "f_cas" => next'[new[u]] = next[new[u]]
    BY <1>0, <1>2, <2>1, <2>6 DEF SlabTypes
  <2>8. Knows(t)'
    BY <1>1, <1>2, <2>1, <2>2, <2>4 DEF Knows, AllocPC, FreePC
  <2> QED BY <1>1, <2>1, <2>3, <2>4, <2>5, <2>7, <2>8, QuietStep
<1>11. CASE FreeCas(t) /\ free_ptr # cur[t]
  <2>1. pc[t] = "f_cas" /\ pc' = [pc EXCEPT ![t] = "f_store"] /\ cur' = [cur EXCEPT ![t] = free_ptr]
        /\ UNCHANGED <<next, free_count, total_count, nxt, new, expanding>>
    BY <1>11 DEF FreeCas, Goto
  <2>2. SlabTypes'
    BY <1>0, <1>1, <2>1 DEF SlabTypes, PC
  <2>3. pc'[t] = "f_store" /\ \A u \in Thread : u # t => pc'[u] = pc[u] /\ cur'[u] = cur[u]
    BY <1>0, <2>1 DEF SlabTypes
  <2>4. Taken(t)' = Taken(t) /\ Returning(t)' = Returning(t)
    BY <2>1, <2>3 DEF Taken, Returning
  <2>5. Knows(t)'
    BY <1>1, <1>2, <2>1, <2>3 DEF Knows, AllocPC, FreePC
  <2> QED BY <1>1, <2>1, <2>2, <2>3, <2>4, <2>5, QuietStep
<1>12. CASE FreeReturn(t)
  <2>1. pc[t] = "f_count" /\ pc' = [pc EXCEPT ![t] = IF expanding[t] THEN "x_free" ELSE "idle"]
        /\ cur' = [cur EXCEPT ![t] = NoBlock] /\ new' = [new EXCEPT ![t] = NoBlock]
        /\ free_count' = free_count + 1 /\ UNCHANGED <<next, total_count, nxt, expanding>>
    BY <1>12 DEF FreeReturn, Goto
  <2>2. SlabTypes'
    BY <1>0, <1>1, <2>1 DEF SlabTypes, PC
  <2>3. pc'[t] = (IF expanding[t] THEN "x_free" ELSE "idle")
        /\ \A u \in Thread : u # t => pc'[u] = pc[u] /\ cur'[u] = cur[u] /\ new'[u] = new[u]
    BY <1>0, <2>1 DEF SlabTypes
  <2>4. Taken(t)' = Taken(t) /\ Returning(t)' = Returning(t)
    BY <2>1, <2>3 DEF Taken, Returning
  <2>5. Knows(t)'
    BY <1>1, <1>2, <2>1, <2>3 DEF Knows, AllocPC, FreePC
  <2> QED BY <1>1, <2>1, <2>2, <2>3, <2>4, <2>5, QuietStep
<1> QED BY <1>3, <1>4, <1>5, <1>6, <1>7, <1>8, <1>9, <1>10, <1>11, <1>12

-----------------------------------------------------------------------------
(* The steps that move blocks *)

\* Min is the least element of a set of numbers.
LEMMA NatMin ==
    ASSUME NEW T \in SUBSET Nat, T # {}
    PROVE  Min(T) \in T /\ \A n \in T : Min(T) <= n
<1>1. PICK x \in T : \A y \in T : ~(<<y, x>> \in OpToRel(<, Nat))
  BY NatLessThanWellFounded, WFMin
<1>2. ASSUME NEW y \in T PROVE x <= y
  <2>1. <<y, x>> \in Nat \X Nat /\ <<y, x>>[1] = y /\ <<y, x>>[2] = x
    OBVIOUS
  <2>2. ~(y < x)
    BY <1>1, <2>1 DEF OpToRel
  <2> QED BY <2>2
<1> QED BY <1>2 DEF Min

\* A successful exchange of alloc takes the head: with one allocating thread
\* the link it read is still that of the head.
LEMMA AllocTakes ==
    ASSUME SlabJ, \A t, u \in Allocators : t = u, NEW t \in Thread, AllocCas(t), free_ptr = cur[t]
    PROVE  SlabJ' /\ cur[t] \in FreeList /\ FreeList' = FreeList \ {cur[t]}
<1>0. SlabTypes /\ ListOK /\ (\A u \in Thread : Knows(u))
  BY DEF SlabJ
<1>1. /\ pc[t] = "a_cas" /\ pc' = [pc EXCEPT ![t] = "a_count"] /\ free_ptr' = nxt[t]
      /\ UNCHANGED <<next, free_count, total_count, cur, nxt, new, fresh, expanding, owners, unmapped>>
  BY DEF AllocCas, Goto, locals
<1>2. PICK x \in Block : x = cur[t] /\ x \in FreeList /\ nxt[t] = next[x]
  BY <1>0, <1>1, ListIs DEF Knows
<1>3. FreeList' = FreeList \ {x} /\ ListOK'
  BY <1>0, <1>1, <1>2, Pop
<1>4. SlabTypes'
  BY <1>0, <1>1 DEF SlabTypes, PC
<1>5. pc'[t] = "a_count" /\ \A u \in Thread : u # t => pc'[u] = pc[u]
  BY <1>0, <1>1 DEF SlabTypes
<1>6. /\ Taken(t)' = {x} /\ Taken(t) = {} /\ \A u \in Thread : u # t => Taken(u)' = Taken(u)
      /\ \A u \in Thread : Returning(u)' = Returning(u)
  BY <1>1, <1>2, <1>5 DEF Taken, Returning
<1>7. \A b \in Block : InOnePlace(b)'
  <2>1. "free" \in Kind /\ "taken" \in Kind /\ NoBlock \in Who /\ t \in Who /\ {x} \in SUBSET Block
    BY DEF Kind, Who
  <2>2. \A b \in {x} : Is(b, "free", NoBlock)
    BY <1>2 DEF Is
  <2>3. ASSUME NEW b \in Block, NEW j \in Kind, NEW u \in Who
        PROVE  Is(b, j, u)' <=> (Is(b, j, u) /\ ~(b \in {x} /\ j = "free" /\ u = NoBlock)) \/
                               (b \in {x} /\ j = "taken" /\ u = t)
    BY <1>1, <1>3, <1>6 DEF Is
  <2>4. Moves({x}, "free", NoBlock, "taken", t)
    BY <2>2, <2>3 DEF Moves
  <2> QED BY <2>1, <2>4, Moved
<1>8. ASSUME NEW u \in Thread PROVE Knows(u)'
  <2>1. CASE u = t
    BY <1>0, <1>1, <1>2, <1>5, <2>1 DEF Knows, AllocPC, FreePC
  <2>2. CASE u # t
    <3>1. pc[u] \notin {"a_next", "a_cas"}
      BY <1>0, <1>1, <2>2 DEF Knows, AllocPC
    <3> QED BY <1>0, <1>1, <1>5, <2>2, <3>1, KnowsKept
  <2> QED BY <2>1, <2>2
<1> QED BY <1>2, <1>3, <1>4, <1>7, <1>8 DEF SlabJ

\* alloc returns a block that nobody owned.
LEMMA AllocGives ==
    ASSUME SlabJ, NEW t \in Thread, AllocReturn(t)
    PROVE  SlabJ' /\ FreeList' = FreeList
<1>0. SlabTypes /\ ListOK /\ (\A u \in Thread : Knows(u))
  BY DEF SlabJ
<1>1. /\ pc[t] = "a_count" /\ pc' = [pc EXCEPT ![t] = "idle"] /\ free_count' = free_count - 1
      /\ owners' = [owners EXCEPT ![cur[t]] = @ + 1]
      /\ cur' = [cur EXCEPT ![t] = NoBlock] /\ nxt' = [nxt EXCEPT ![t] = NoBlock]
      /\ UNCHANGED <<free_ptr, next, total_count, new, fresh, expanding, unmapped>>
  BY DEF AllocReturn, Goto
<1>2. PICK x \in Block : x = cur[t] /\ Taken(t) = {x} /\ owners[x] = 0
  BY <1>0, <1>1, Places DEF Knows, Taken
<1>3. FreeList' = FreeList /\ ListOK'
  BY <1>0, <1>1, SameList
<1>4. owners'[x] = 1 /\ (\A b \in Block : b # x => owners'[b] = owners[b]) /\ owners' \in [Block -> {0, 1}]
  BY <1>0, <1>1, <1>2 DEF SlabTypes
<1>5. SlabTypes'
  BY <1>0, <1>1, <1>4 DEF SlabTypes, PC
<1>6. pc'[t] = "idle" /\ \A u \in Thread : u # t => pc'[u] = pc[u] /\ cur'[u] = cur[u] /\ nxt'[u] = nxt[u]
  BY <1>0, <1>1 DEF SlabTypes
<1>7. /\ Taken(t)' = {} /\ \A u \in Thread : u # t => Taken(u)' = Taken(u)
      /\ \A u \in Thread : Returning(u)' = Returning(u)
  BY <1>1, <1>6 DEF Taken, Returning
<1>8. \A b \in Block : InOnePlace(b)'
  <2>1. "owned" \in Kind /\ "taken" \in Kind /\ NoBlock \in Who /\ t \in Who /\ {x} \in SUBSET Block
    BY DEF Kind, Who
  <2>2. \A b \in {x} : Is(b, "taken", t)
    BY <1>2 DEF Is
  <2>3. ASSUME NEW b \in Block, NEW j \in Kind, NEW u \in Who
        PROVE  Is(b, j, u)' <=> (Is(b, j, u) /\ ~(b \in {x} /\ j = "taken" /\ u = t)) \/
                               (b \in {x} /\ j = "owned" /\ u = NoBlock)
    BY <1>1, <1>2, <1>3, <1>4, <1>7 DEF Is
  <2>4. Moves({x}, "taken", t, "owned", NoBlock)
    BY <2>2, <2>3 DEF Moves
  <2> QED BY <2>1, <2>4, Moved
<1>9. ASSUME NEW u \in Thread PROVE Knows(u)'
  <2>1. CASE u = t
    BY <1>0, <1>1, <1>6, <2>1 DEF Knows, AllocPC, FreePC
  <2>2. CASE u # t
    BY <1>0, <1>1, <1>3, <1>6, <2>2, KnowsKept DEF Knows
  <2> QED BY <2>1, <2>2
<1> QED BY <1>3, <1>5, <1>8, <1>9 DEF SlabJ

\* A successful exchange of free puts the block on the list.
LEMMA FreePushes ==
    ASSUME SlabJ, NEW t \in Thread, FreeCas(t), free_ptr = cur[t]
    PROVE  SlabJ' /\ new[t] \in Block \ FreeList /\ FreeList' = FreeList \cup {new[t]}
<1>0. SlabTypes /\ ListOK /\ (\A u \in Thread : Knows(u))
  BY DEF SlabJ
<1>1. /\ pc[t] = "f_cas" /\ pc' = [pc EXCEPT ![t] = "f_count"] /\ free_ptr' = new[t]
      /\ UNCHANGED <<next, free_count, total_count, cur, nxt, new, fresh, expanding, owners, unmapped>>
  BY DEF FreeCas, Goto, locals
<1>2. PICK x \in Block : x = new[t] /\ Returning(t) = {x} /\ next[x] = free_ptr /\ x \notin FreeList
  <2>1. new[t] \in Returning(t) /\ Returning(t) = {new[t]}
    BY <1>1 DEF Returning
  <2>2. next[new[t]] = cur[t]
    BY <1>0, <1>1 DEF Knows
  <2> QED BY <2>1, <2>2, Places
<1>3. FreeList' = FreeList \cup {x} /\ ListOK'
  BY <1>0, <1>1, <1>2, Push
<1>4. SlabTypes'
  BY <1>0, <1>1, <1>2 DEF SlabTypes, PC
<1>5. pc'[t] = "f_count" /\ \A u \in Thread : u # t => pc'[u] = pc[u]
  BY <1>0, <1>1 DEF SlabTypes
<1>6. /\ Returning(t)' = {} /\ \A u \in Thread : u # t => Returning(u)' = Returning(u)
      /\ \A u \in Thread : Taken(u)' = Taken(u)
  BY <1>1, <1>5 DEF Taken, Returning
<1>7. \A b \in Block : InOnePlace(b)'
  <2>1. "free" \in Kind /\ "returning" \in Kind /\ NoBlock \in Who /\ t \in Who /\ {x} \in SUBSET Block
    BY DEF Kind, Who
  <2>2. \A b \in {x} : Is(b, "returning", t)
    BY <1>2 DEF Is
  <2>3. ASSUME NEW b \in Block, NEW j \in Kind, NEW u \in Who
        PROVE  Is(b, j, u)' <=> (Is(b, j, u) /\ ~(b \in {x} /\ j = "returning" /\ u = t)) \/
                               (b \in {x} /\ j = "free" /\ u = NoBlock)
    BY <1>1, <1>2, <1>3, <1>6 DEF Is
  <2>4. Moves({x}, "returning", t, "free", NoBlock)
    BY <2>2, <2>3 DEF Moves
  <2> QED BY <2>1, <2>4, Moved
<1>8. ASSUME NEW u \in Thread PROVE Knows(u)'
  <2>1. CASE u = t
    BY <1>0, <1>1, <1>2, <1>5, <2>1 DEF Knows, AllocPC, FreePC
  <2>2. CASE u # t
    BY <1>0, <1>1, <1>3, <1>5, <2>2, KnowsKept DEF Knows
  <2> QED BY <2>1, <2>2
<1> QED BY <1>2, <1>3, <1>4, <1>7, <1>8 DEF SlabJ

\* free takes the block from its owner.
LEMMA FreeStarts ==
    ASSUME SlabJ, NEW t \in Thread, NEW x \in Block, free(t, x)
    PROVE  SlabJ' /\ FreeList' = FreeList
<1>0. SlabTypes /\ ListOK /\ (\A u \in Thread : Knows(u))
  BY DEF SlabJ
<1>1. /\ pc[t] = "idle" /\ pc' = [pc EXCEPT ![t] = "f_load"] /\ owners' = [owners EXCEPT ![x] = @ - 1]
      /\ new' = [new EXCEPT ![t] = x] /\ owners[x] > 0
      /\ UNCHANGED <<free_ptr, next, free_count, total_count, cur, nxt, fresh, expanding, unmapped>>
  BY DEF free, Goto
<1>2. FreeList' = FreeList /\ ListOK'
  BY <1>0, <1>1, SameList
<1>3. owners[x] = 1
  BY <1>0, <1>1 DEF SlabTypes
<1>4. owners'[x] = 0 /\ (\A b \in Block : b # x => owners'[b] = owners[b]) /\ owners' \in [Block -> {0, 1}]
  BY <1>0, <1>1, <1>3 DEF SlabTypes
<1>5. SlabTypes'
  BY <1>0, <1>1, <1>4 DEF SlabTypes, PC
<1>6. pc'[t] = "f_load" /\ new'[t] = x /\ \A u \in Thread : u # t => pc'[u] = pc[u] /\ new'[u] = new[u]
  BY <1>0, <1>1 DEF SlabTypes
<1>7. /\ Returning(t) = {} /\ Returning(t)' = {x} /\ \A u \in Thread : u # t => Returning(u)' = Returning(u)
      /\ \A u \in Thread : Taken(u)' = Taken(u)
  BY <1>1, <1>6 DEF Taken, Returning
<1>8. \A b \in Block : InOnePlace(b)'
  <2>1. "owned" \in Kind /\ "returning" \in Kind /\ NoBlock \in Who /\ t \in Who /\ {x} \in SUBSET Block
    BY DEF Kind, Who
  <2>2. \A b \in {x} : Is(b, "owned", NoBlock)
    BY <1>3 DEF Is
  <2>3. ASSUME NEW b \in Block, NEW j \in Kind, NEW u \in Who
        PROVE  Is(b, j, u)' <=> (Is(b, j, u) /\ ~(b \in {x} /\ j = "owned" /\ u = NoBlock)) \/
                               (b \in {x} /\ j = "returning" /\ u = t)
    BY <1>1, <1>2, <1>3, <1>4, <1>7 DEF Is
  <2>4. Moves({x}, "owned", NoBlock, "returning", t)
    BY <2>2, <2>3 DEF Moves
  <2> QED BY <2>1, <2>4, Moved
<1>9. ASSUME NEW u \in Thread PROVE Knows(u)'
  <2>1. CASE u = t
    BY <1>0, <1>1, <1>6, <2>1 DEF Knows, AllocPC, FreePC
  <2>2. CASE u # t
    BY <1>0, <1>1, <1>2, <1>6, <2>2, KnowsKept DEF Knows
  <2> QED BY <2>1, <2>2
<1> QED BY <1>2, <1>5, <1>8, <1>9 DEF SlabJ

\* expand frees the first of the blocks that are left of the new page.
LEMMA ExpandFrees ==
    ASSUME SlabJ, NEW t \in Thread, ExpandFree(t)
    PROVE  SlabJ' /\ FreeList' = FreeList
<1>0. SlabTypes /\ ListOK /\ (\A u \in Thread : Knows(u))
  BY DEF SlabJ
<1>1. fresh[t] \subseteq Nat /\ fresh[t] \subseteq Block /\ fresh[t] # {}
  BY <1>0, SlabAssumption DEF SlabTypes, Block, ExpandFree
<1>2. PICK x \in fresh[t] : x = Min(fresh[t])
  BY <1>1, NatMin
<1>3. /\ pc[t] = "x_free" /\ pc' = [pc EXCEPT ![t] = "f_load"]
      /\ new' = [new EXCEPT ![t] = x] /\ fresh' = [fresh EXCEPT ![t] = @ \ {x}]
      /\ UNCHANGED <<free_ptr, next, free_count, total_count, cur, nxt, expanding, owners, unmapped>>
  BY <1>2 DEF ExpandFree, Goto
<1>4. FreeList' = FreeList /\ ListOK'
  BY <1>0, <1>3, SameList
<1>5. x \in Block
  BY <1>1, <1>2
<1>6. /\ pc'[t] = "f_load" /\ new'[t] = x /\ fresh'[t] = fresh[t] \ {x}
      /\ \A u \in Thread : u # t => pc'[u] = pc[u] /\ new'[u] = new[u] /\ fresh'[u] = fresh[u]
  BY <1>0, <1>3 DEF SlabTypes
<1>7. SlabTypes'
  <2>1. fresh' \in [Thread -> SUBSET Block]
    BY <1>0, <1>3 DEF SlabTypes
  <2> QED BY <1>0, <1>3, <1>5, <2>1 DEF SlabTypes, PC
<1>8. /\ Returning(t) = {} /\ Returning(t)' = {x} /\ \A u \in Thread : u # t => Returning(u)' = Returning(u)
      /\ \A u \in Thread : Taken(u)' = Taken(u)
  BY <1>3, <1>6 DEF Taken, Returning
<1>9. \A b \in Block : InOnePlace(b)'
  <2>1. "fresh" \in Kind /\ "returning" \in Kind /\ t \in Who /\ {x} \in SUBSET Block
    BY <1>5 DEF Kind, Who
  <2>2. \A b \in {x} : Is(b, "fresh", t)
    BY <1>2 DEF Is
  <2>3. ASSUME NEW b \in Block, NEW j \in Kind, NEW u \in Who
        PROVE  Is(b, j, u)' <=> (Is(b, j, u) /\ ~(b \in {x} /\ j = "fresh" /\ u = t)) \/
                               (b \in {x} /\ j = "returning" /\ u = t)
    BY <1>3, <1>4, <1>6, <1>8 DEF Is
  <2>4. Moves({x}, "fresh", t, "returning", t)
    BY <2>2, <2>3 DEF Moves
  <2> QED BY <2>1, <2>4, Moved
<1>10. ASSUME NEW u \in Thread PROVE Knows(u)'
  <2>1. CASE u = t
    BY <1>0, <1>3, <1>5, <1>6, <2>1 DEF Knows, AllocPC, FreePC
  <2>2. CASE u # t
    BY <1>0, <1>3, <1>4, <1>6, <2>2, KnowsKept DEF Knows
  <2> QED BY <2>1, <2>2
<1> QED BY <1>4, <1>7, <1>9, <1>10 DEF SlabJ

\* expand gets a page of blocks that were never in use.
LEMMA Expands ==
    ASSUME SlabJ, NEW t \in Thread, Expand(t)
    PROVE  SlabJ' /\ FreeList' = FreeList
<1>0. SlabTypes /\ ListOK /\ (\A u \in Thread : Knows(u))
  BY DEF SlabJ
<1>1. PICK S \in SUBSET unmapped : S = {b \in unmapped : b < Min(unmapped) + PerPage}
  OBVIOUS
<1>2. /\ pc[t] = "a_load" /\ pc' = [pc EXCEPT ![t] = "x_free"]
      /\ expanding' = [expanding EXCEPT ![t] = TRUE] /\ fresh' = [fresh EXCEPT ![t] = S] /\ unmapped' = unmapped \ S
      /\ UNCHANGED <<free_ptr, next, free_count, total_count, cur, nxt, new, owners>>
  BY <1>1 DEF Expand, Goto
<1>3. S \in SUBSET Block /\ unmapped' \subseteq Block
  BY <1>0, <1>2 DEF SlabTypes
<1>4. FreeList' = FreeList /\ ListOK'
  BY <1>0, <1>2, SameList
<1>5. /\ pc'[t] = "x_free" /\ expanding'[t] /\ fresh'[t] = S
      /\ \A u \in Thread : u # t => pc'[u] = pc[u] /\ expanding'[u] = expanding[u] /\ fresh'[u] = fresh[u]
  BY <1>0, <1>2 DEF SlabTypes
<1>6. SlabTypes'
  BY <1>0, <1>2, <1>3 DEF SlabTypes, PC
<1>7. fresh[t] = {} /\ t \in Allocators
  BY <1>0, <1>2 DEF Knows, AllocPC, FreePC
<1>8. \A u \in Thread : Taken(u)' = Taken(u) /\ Returning(u)' = Returning(u)
  BY <1>2, <1>5 DEF Taken, Returning
<1>9. \A b \in Block : InOnePlace(b)'
  <2>1. "fresh" \in Kind /\ "unmapped" \in Kind /\ t \in Who /\ NoBlock \in Who
    BY DEF Kind, Who
  <2>2. \A b \in S : Is(b, "unmapped", NoBlock)
    BY DEF Is
  <2>3. ASSUME NEW b \in Block, NEW j \in Kind, NEW u \in Who
        PROVE  Is(b, j, u)' <=> (Is(b, j, u) /\ ~(b \in S /\ j = "unmapped" /\ u = NoBlock)) \/
                               (b \in S /\ j = "fresh" /\ u = t)
    BY <1>2, <1>4, <1>5, <1>7, <1>8 DEF Is
  <2>4. Moves(S, "unmapped", NoBlock, "fresh", t)
    BY <2>2, <2>3 DEF Moves
  <2> QED BY <1>3, <2>1, <2>4, Moved
<1>10. ASSUME NEW u \in Thread PROVE Knows(u)'
  <2>1. CASE u = t
    BY <1>0, <1>2, <1>5, <1>7, <2>1 DEF Knows, AllocPC, FreePC
  <2>2. CASE u # t
    BY <1>0, <1>2, <1>4, <1>5, <2>2, KnowsKept DEF Knows
  <2> QED BY <2>1, <2>2
<1> QED BY <1>4, <1>6, <1>9, <1>10 DEF SlabJ

-----------------------------------------------------------------------------
(* The counts *)

\* How a step of t changes the number of threads at a place of the code.
LEMMA AtStep ==
    ASSUME SlabTypes, NEW t \in Thread, NEW p, pc' = [pc EXCEPT ![t] = p], NEW q
    PROVE  /\ IsFiniteSet(ThreadsAt(q)) /\ Cardinality(ThreadsAt(q)) \in Nat
           /\ pc[t] = q /\ p # q => Cardinality(ThreadsAt(q)') = Cardinality(ThreadsAt(q)) - 1
           /\ pc[t] # q /\ p = q => Cardinality(ThreadsAt(q)') = Cardinality(ThreadsAt(q)) + 1
           /\ (pc[t] = q <=> p = q) => ThreadsAt(q)' = ThreadsAt(q)
<1>1. pc'[t] = p /\ \A u \in Thread : u # t => pc'[u] = pc[u]
  BY DEF SlabTypes
<1>2. PICK A \in SUBSET Thread : A = ThreadsAt(q)
  BY DEF ThreadsAt
<1>3. IsFiniteSet(A) /\ Cardinality(A) \in Nat
  BY SlabAssumption, FS_Subset, FS_CardinalityType
<1>4. (pc[t] = q <=> p = q) => ThreadsAt(q)' = ThreadsAt(q)
  BY <1>1 DEF ThreadsAt
<1>5. ASSUME pc[t] = q, p # q PROVE Cardinality(ThreadsAt(q)') = Cardinality(A) - 1
  <2>1. ThreadsAt(q)' = A \ {t} /\ t \in A
    BY <1>1, <1>2, <1>5 DEF ThreadsAt
  <2> QED BY <1>3, <2>1, FS_RemoveElement
<1>6. ASSUME pc[t] # q, p = q PROVE Cardinality(ThreadsAt(q)') = Cardinality(A) + 1
  <2>1. ThreadsAt(q)' = A \cup {t} /\ t \notin A
    BY <1>1, <1>2, <1>6 DEF ThreadsAt
  <2> QED BY <1>3, <2>1, FS_AddElement
<1> QED BY <1>2, <1>3, <1>4, <1>5, <1>6

\* The sets that are counted are finite.
LEMMA Sizes ==
    /\ IsFiniteSet(Block) /\ Cardinality(Block) = SlabPages * PerPage /\ SlabPages * PerPage \in Nat
    /\ IsFiniteSet(FreeList) /\ Cardinality(FreeList) \in Nat
<1>1. SlabPages * PerPage \in Nat
  BY SlabAssumption
<1>2. IsFiniteSet(Block) /\ Cardinality(Block) = SlabPages * PerPage
  <2>1. PICK n \in Nat : n = SlabPages * PerPage
    BY <1>1
  <2>2. IsFiniteSet(1..n) /\ Cardinality(1..n) = n
    BY FS_Interval
  <2> QED BY <2>1, <2>2 DEF Block
<1>3. IsFiniteSet(FreeList) /\ Cardinality(FreeList) \in Nat
  BY <1>2, ListIs, FS_Subset, FS_CardinalityType
<1> QED BY <1>1, <1>2, <1>3

\* free_count lags by the threads that have changed the list and not yet
\* counted.
LEMMA FreeCountedStep ==
    ASSUME SlabI, \A t, u \in Allocators : t = u, NEW t \in Thread,
           alloc(t) \/ Step(t) \/ \E b \in Block : free(t, b)
    PROVE  SlabJ' /\ FreeCounted'
<1>0. SlabJ /\ SlabTypes /\ FreeCounted /\ free_count \in Int
  BY DEF SlabI, SlabJ, SlabTypes
<1>1. PICK f \in Nat, a \in Nat, c \in Nat :
         f = Cardinality(FreeList) /\ a = Cardinality(ThreadsAt("a_count")) /\ c = Cardinality(ThreadsAt("f_count"))
  <2>1. IsFiniteSet(ThreadsAt("a_count")) /\ IsFiniteSet(ThreadsAt("f_count"))
    BY SlabAssumption, FS_Subset DEF ThreadsAt
  <2> QED BY <2>1, Sizes, FS_CardinalityType
<1>2. free_count = f + a - c
  BY <1>0, <1>1 DEF FreeCounted
<1>3. ASSUME SlabJ', FreeList' = FreeList, free_count' = free_count, NEW p, pc' = [pc EXCEPT ![t] = p],
             pc[t] \notin {"a_count", "f_count"}, p \notin {"a_count", "f_count"}
      PROVE  SlabJ' /\ FreeCounted'
  <2>1. ThreadsAt("a_count")' = ThreadsAt("a_count") /\ ThreadsAt("f_count")' = ThreadsAt("f_count")
    BY <1>0, <1>3, AtStep
  <2> QED BY <1>0, <1>3, <2>1 DEF FreeCounted
<1>4. CASE \/ alloc(t) \/ AllocLoad(t) \/ OutOfMemory(t) \/ AllocNext(t) \/ ExpandTotal(t)
           \/ FreeLoad(t) \/ FreeStore(t)
           \/ (AllocCas(t) \/ FreeCas(t)) /\ free_ptr # cur[t]
  <2>1. SlabJ' /\ FreeList' = FreeList
    BY <1>0, <1>4, QuietSteps
  <2>2. \E p : p \notin {"a_count", "f_count"} /\ pc' = [pc EXCEPT ![t] = p]
               /\ pc[t] \notin {"a_count", "f_count"} /\ free_count' = free_count
    BY <1>4 DEF alloc, AllocLoad, OutOfMemory, AllocNext, ExpandTotal, FreeLoad, FreeStore, AllocCas, FreeCas, Goto
  <2> QED BY <1>3, <2>1, <2>2
<1>5. CASE Expand(t) \/ ExpandFree(t) \/ \E b \in Block : free(t, b)
  <2>1. SlabJ' /\ FreeList' = FreeList
    BY <1>0, <1>5, Expands, ExpandFrees, FreeStarts
  <2>2. \E p : p \notin {"a_count", "f_count"} /\ pc' = [pc EXCEPT ![t] = p]
               /\ pc[t] \notin {"a_count", "f_count"} /\ free_count' = free_count
    BY <1>5 DEF Expand, ExpandFree, free, Goto
  <2> QED BY <1>3, <2>1, <2>2
<1>6. CASE AllocCas(t) /\ free_ptr = cur[t]
  <2>1. SlabJ' /\ cur[t] \in FreeList /\ FreeList' = FreeList \ {cur[t]}
    BY <1>0, <1>6, AllocTakes
  <2>2. pc[t] = "a_cas" /\ pc' = [pc EXCEPT ![t] = "a_count"] /\ free_count' = free_count
    BY <1>6 DEF AllocCas, Goto
  <2>3. Cardinality(FreeList') = f - 1
    BY <1>1, <2>1, Sizes, FS_RemoveElement
  <2>4. Cardinality(ThreadsAt("a_count")') = a + 1 /\ Cardinality(ThreadsAt("f_count")') = c
    <3>1. Cardinality(ThreadsAt("a_count")') = a + 1
      BY <1>0, <1>1, <2>2, AtStep
    <3>2. Cardinality(ThreadsAt("f_count")') = c
      <4>1. ThreadsAt("f_count")' = ThreadsAt("f_count")
        BY <1>0, <2>2, AtStep
      <4> QED BY <1>1, <4>1
    <3> QED BY <3>1, <3>2
  <2> QED BY <1>2, <2>1, <2>2, <2>3, <2>4 DEF FreeCounted
<1>7. CASE FreeCas(t) /\ free_ptr = cur[t]
  <2>1. SlabJ' /\ new[t] \in Block \ FreeList /\ FreeList' = FreeList \cup {new[t]}
    BY <1>0, <1>7, FreePushes
  <2>2. pc[t] = "f_cas" /\ pc' = [pc EXCEPT ![t] = "f_count"] /\ free_count' = free_count
    BY <1>7 DEF FreeCas, Goto
  <2>3. Cardinality(FreeList') = f + 1
    BY <1>1, <2>1, Sizes, FS_AddElement
  <2>4. Cardinality(ThreadsAt("a_count")') = a /\ Cardinality(ThreadsAt("f_count")') = c + 1
    <3>1. Cardinality(ThreadsAt("a_count")') = a
      <4>1. ThreadsAt("a_count")' = ThreadsAt("a_count")
        BY <1>0, <2>2, AtStep
      <4> QED BY <1>1, <4>1
    <3>2. Cardinality(ThreadsAt("f_count")') = c + 1
      BY <1>0, <1>1, <2>2, AtStep
    <3> QED BY <3>1, <3>2
  <2> QED BY <1>2, <2>1, <2>2, <2>3, <2>4 DEF FreeCounted
<1>8. CASE AllocReturn(t)
  <2>1. SlabJ' /\ FreeList' = FreeList
    BY <1>0, <1>8, AllocGives
  <2>2. pc[t] = "a_count" /\ pc' = [pc EXCEPT ![t] = "idle"] /\ free_count' = free_count - 1
    BY <1>8 DEF AllocReturn, Goto
  <2>3. Cardinality(ThreadsAt("a_count")') = a - 1 /\ Cardinality(ThreadsAt("f_count")') = c
    <3>1. Cardinality(ThreadsAt("a_count")') = a - 1
      BY <1>0, <1>1, <2>2, AtStep
    <3>2. Cardinality(ThreadsAt("f_count")') = c
      <4>1. ThreadsAt("f_count")' = ThreadsAt("f_count")
        BY <1>0, <2>2, AtStep
      <4> QED BY <1>1, <4>1
    <3> QED BY <3>1, <3>2
  <2> QED BY <1>1, <1>2, <2>1, <2>2, <2>3 DEF FreeCounted
<1>9. CASE FreeReturn(t)
  <2>1. SlabJ' /\ FreeList' = FreeList
    BY <1>0, <1>9, QuietSteps
  <2>2. PICK p \in {"x_free", "idle"} : pc[t] = "f_count" /\ pc' = [pc EXCEPT ![t] = p] /\ free_count' = free_count + 1
    BY <1>9 DEF FreeReturn, Goto
  <2>3. Cardinality(ThreadsAt("a_count")') = a /\ Cardinality(ThreadsAt("f_count")') = c - 1
    BY <1>0, <1>1, <2>2, AtStep
  <2> QED BY <1>1, <1>2, <2>1, <2>2, <2>3 DEF FreeCounted
<1>10. CASE alloc(t) \/ \E b \in Block : free(t, b)
  BY <1>4, <1>5, <1>10
<1>11. CASE Step(t)
  <2>1. CASE AllocCas(t)
    BY <1>4, <1>6, <2>1
  <2>2. CASE FreeCas(t)
    BY <1>4, <1>7, <2>2
  <2>3. CASE AllocLoad(t) \/ OutOfMemory(t) \/ AllocNext(t) \/ ExpandTotal(t) \/ FreeLoad(t) \/ FreeStore(t)
    BY <1>4, <2>3
  <2>4. CASE Expand(t) \/ ExpandFree(t)
    BY <1>5, <2>4
  <2> QED BY <1>8, <1>9, <1>11, <2>1, <2>2, <2>3, <2>4 DEF Step
<1> QED BY <1>10, <1>11

\* expand cuts the first page off the blocks that were never allocated.
LEMMA PageCut ==
    ASSUME NEW k \in 0..SlabPages, unmapped = (k * PerPage + 1)..(SlabPages * PerPage), unmapped # {}
    PROVE  /\ k + 1 \in 0..SlabPages /\ k * PerPage \in Nat /\ (k + 1) * PerPage = k * PerPage + PerPage
           /\ unmapped \ {b \in unmapped : b < Min(unmapped) + PerPage} = ((k + 1) * PerPage + 1)..(SlabPages * PerPage)
<1>1. PICK m \in Nat, n \in Nat : m = k * PerPage /\ n = SlabPages * PerPage
  BY SlabAssumption
<1>2. PerPage \in Nat /\ PerPage > 0 /\ SlabPages \in Nat /\ k \in Nat
  BY SlabAssumption
<1>3. k # SlabPages
  BY <1>1, <1>2
<1>4. k + 1 \in 0..SlabPages
  BY <1>2, <1>3
<1>5. (k + 1) * PerPage = m + PerPage
  BY <1>1, <1>2
<1>6. m + 1 <= n
  BY <1>1
<1>7. Min(unmapped) = m + 1
  <2>1. unmapped \in SUBSET Nat /\ m + 1 \in unmapped /\ \A b \in unmapped : m + 1 <= b
    BY <1>1, <1>6
  <2>2. Min(unmapped) \in unmapped /\ Min(unmapped) <= m + 1
    BY <2>1, NatMin
  <2> QED BY <2>1, <2>2
<1>8. unmapped \ {b \in unmapped : b < m + 1 + PerPage} = (m + PerPage + 1)..n
  BY <1>1, <1>2
<1> QED BY <1>1, <1>4, <1>5, <1>7, <1>8

\* total_count lags by the page that is being cut.
LEMMA TotalCountedStep ==
    ASSUME SlabI, \A t, u \in Allocators : t = u, NEW t \in Thread,
           alloc(t) \/ Step(t) \/ \E b \in Block : free(t, b)
    PROVE  TotalCounted'
<1>0. SlabTypes /\ TotalCounted /\ \A u \in Thread : Knows(u)
  BY DEF SlabI, SlabJ
<1>1. PICK k \in 0..SlabPages :
        /\ unmapped = (k * PerPage + 1)..(SlabPages * PerPage)
        /\ (\E u \in Thread : expanding[u]) => k >= 1 /\ total_count = k * PerPage - PerPage
        /\ (\A u \in Thread : ~expanding[u]) => total_count = k * PerPage
  BY <1>0 DEF TotalCounted
<1>2. k * PerPage \in Nat /\ PerPage \in Nat /\ SlabPages \in Nat
  BY SlabAssumption
<1>3. CASE UNCHANGED <<expanding, total_count, unmapped>>
  BY <1>1, <1>3 DEF TotalCounted
<1>4. CASE Expand(t)
  <2>1. /\ pc[t] = "a_load" /\ unmapped # {} /\ expanding' = [expanding EXCEPT ![t] = TRUE]
        /\ unmapped' = unmapped \ {b \in unmapped : b < Min(unmapped) + PerPage} /\ total_count' = total_count
    BY <1>4 DEF Expand, Goto
  <2>2. \A u \in Thread : ~expanding[u]
    BY <1>0, <2>1 DEF Knows, AllocPC, FreePC
  <2>3. expanding'[t]
    BY <1>0, <2>1 DEF SlabTypes
  <2>4. PICK i \in 0..SlabPages : i = k + 1 /\ i * PerPage = k * PerPage + PerPage
                                  /\ unmapped' = (i * PerPage + 1)..(SlabPages * PerPage)
    BY <1>1, <2>1, PageCut
  <2>5. i >= 1 /\ total_count' = i * PerPage - PerPage
    BY <1>1, <1>2, <2>1, <2>2, <2>4
  <2> QED BY <2>3, <2>4, <2>5 DEF TotalCounted
<1>5. CASE ExpandTotal(t)
  <2>1. pc[t] = "x_free" /\ expanding' = [expanding EXCEPT ![t] = FALSE]
        /\ unmapped' = unmapped /\ total_count' = total_count + PerPage
    BY <1>5 DEF ExpandTotal, Goto
  <2>2. expanding[t] /\ \A u \in Thread : u # t => ~expanding[u]
    BY <1>0, <2>1 DEF Knows
  <2>3. \A u \in Thread : ~expanding'[u]
    BY <1>0, <2>1, <2>2 DEF SlabTypes
  <2>4. total_count' = k * PerPage
    BY <1>1, <1>2, <2>1, <2>2
  <2> QED BY <1>1, <2>1, <2>3, <2>4 DEF TotalCounted
<1>6. CASE ~Expand(t) /\ ~ExpandTotal(t)
  BY <1>3, <1>6 DEF Step, alloc, free, AllocLoad, OutOfMemory, AllocNext, AllocCas, AllocReturn, ExpandFree,
                    FreeLoad, FreeStore, FreeCas, FreeReturn, locals
<1> QED BY <1>4, <1>5, <1>6

-----------------------------------------------------------------------------
(* The theorem *)

\* The empty cache.
LEMMA SlabStarts == Init => SlabI
<1> SUFFICES ASSUME Init PROVE SlabI
  OBVIOUS
<1>1. FreeList = {}
  <2>1. {} \in SUBSET Block /\ Closed({})
    BY DEF Init, Closed
  <2> QED BY <2>1, ListIs
<1>2. SlabTypes /\ ListOK
  BY <1>1 DEF Init, SlabTypes, ListOK, PC
<1>3. \A t \in Thread : Knows(t) /\ Taken(t) = {} /\ Returning(t) = {} /\ fresh[t] = {}
  BY DEF Init, Knows, Taken, Returning, AllocPC, FreePC
<1>4. ASSUME NEW b \in Block PROVE InOnePlace(b)
  <2>1. \A j \in Kind, u \in Who : Is(b, j, u) <=> j = "unmapped" /\ u = NoBlock
    BY <1>1, <1>3 DEF Is, Init
  <2>2. "unmapped" \in Kind /\ NoBlock \in Who
    BY DEF Kind, Who
  <2> QED BY <2>1, <2>2 DEF InOnePlace
<1>5. FreeCounted
  <2>1. ThreadsAt("a_count") = {} /\ ThreadsAt("f_count") = {}
    BY DEF ThreadsAt, Init
  <2>2. Cardinality(FreeList) = 0 /\ Cardinality(ThreadsAt("a_count")) = 0 /\ Cardinality(ThreadsAt("f_count")) = 0
    BY <1>1, <2>1, FS_EmptySet
  <2>3. free_count = 0
    BY DEF Init
  <2> QED BY <2>2, <2>3 DEF FreeCounted
<1>6. TotalCounted
  <2>1. 0 \in 0..SlabPages /\ 0 * PerPage = 0
    BY SlabAssumption
  <2>2. unmapped = (0 * PerPage + 1)..(SlabPages * PerPage) /\ total_count = 0 /\ \A t \in Thread : ~expanding[t]
    BY <2>1 DEF Init, Block
  <2> QED BY <2>1, <2>2 DEF TotalCounted
<1> QED BY <1>2, <1>3, <1>4, <1>5, <1>6 DEF SlabI, SlabJ

\* A block in one place has one holder.
LEMMA OneHolder ==
    ASSUME SlabJ, NEW b \in Block
    PROVE  Holders(b) = 1
<1>1. PICK k \in Kind, t \in Who : Is(b, k, t) /\ \A j \in Kind, u \in Who : Is(b, j, u) => j = k /\ u = t
  BY DEF SlabJ, InOnePlace
<1>2. /\ Thread \subseteq Who /\ NoBlock \in Who /\ {"owned", "taken", "returning", "fresh", "free", "unmapped"} = Kind
      /\ owners[b] \in {0, 1}
  BY DEF Kind, Who, SlabJ, SlabTypes
<1>3. PICK T \in SUBSET Thread, R \in SUBSET Thread, F \in SUBSET Thread :
         /\ T = {u \in Thread : b \in Taken(u)} /\ R = {u \in Thread : b \in Returning(u)}
         /\ F = {u \in Thread : b \in fresh[u]}
  OBVIOUS
<1>4. T = (IF k = "taken" THEN {t} ELSE {})
  BY <1>1, <1>2, <1>3 DEF Is
<1>5. R = (IF k = "returning" THEN {t} ELSE {})
  BY <1>1, <1>2, <1>3 DEF Is
<1>6. F = (IF k = "fresh" THEN {t} ELSE {})
  BY <1>1, <1>2, <1>3 DEF Is
<1>7. /\ owners[b] = (IF k = "owned" THEN 1 ELSE 0)
      /\ b \in FreeList <=> k = "free"
      /\ b \in unmapped <=> k = "unmapped"
  BY <1>1, <1>2 DEF Is
<1>8. Cardinality({}) = 0 /\ Cardinality({t}) = 1
  BY FS_EmptySet, FS_Singleton
<1>9. Holders(b) = owners[b] + Cardinality(T) + Cardinality(R) + Cardinality(F)
                     + (IF b \in FreeList THEN 1 ELSE 0) + (IF b \in unmapped THEN 1 ELSE 0)
  BY <1>3 DEF Holders
<1> QED BY <1>2, <1>4, <1>5, <1>6, <1>7, <1>8, <1>9

\* The invariant gives both properties.
LEMMA SlabImplies ==
    ASSUME SlabI, \A t, u \in Allocators : t = u
    PROVE  ExclusiveBlocks /\ NoBlockLost
<1>0. SlabJ /\ SlabTypes /\ FreeCounted /\ TotalCounted /\ \A t \in Thread : Knows(t)
  BY DEF SlabI, SlabJ
<1>1. \A b \in Block : Holders(b) = 1
  BY <1>0, OneHolder
<1>2. PICK f \in Nat, a \in Nat, c \in Nat, n \in Nat, h \in Nat :
         /\ f = Cardinality(FreeList) /\ a = Cardinality(ThreadsAt("a_count")) /\ c = Cardinality(ThreadsAt("f_count"))
         /\ n = Cardinality(Block) /\ n = SlabPages * PerPage /\ h = Cardinality(Thread)
  <2>1. IsFiniteSet(ThreadsAt("a_count")) /\ IsFiniteSet(ThreadsAt("f_count"))
    BY SlabAssumption, FS_Subset DEF ThreadsAt
  <2> QED BY <2>1, SlabAssumption, Sizes, FS_CardinalityType
<1>3. free_count = f + a - c
  BY <1>0, <1>2 DEF FreeCounted
<1>4. c <= h
  BY <1>2, SlabAssumption, FS_Subset DEF ThreadsAt
<1>5. f + a <= n
  <2>1. CASE ThreadsAt("a_count") = {}
    <3>1. a = 0
      BY <1>2, <2>1, FS_EmptySet
    <3>2. f <= n
      BY <1>2, ListIs, Sizes, FS_Subset
    <3> QED BY <3>1, <3>2
  <2>2. CASE ThreadsAt("a_count") # {}
    <3>1. PICK t \in Thread : pc[t] = "a_count"
      BY <2>2 DEF ThreadsAt
    <3>2. ThreadsAt("a_count") = {t}
      BY <1>0, <3>1 DEF ThreadsAt, Knows, AllocPC
    <3>3. a = 1
      BY <1>2, <3>2, FS_Singleton
    <3>4. cur[t] \in Block \ FreeList
      BY <1>0, <3>1, Places DEF Taken
    <3>5. FreeList \cup {cur[t]} \in SUBSET Block
      BY <3>4, ListIs
    <3>6. Cardinality(FreeList \cup {cur[t]}) = f + 1
      BY <1>2, <3>4, Sizes, FS_AddElement
    <3>7. Cardinality(FreeList \cup {cur[t]}) <= n
      BY <1>2, <3>5, Sizes, FS_Subset
    <3> QED BY <3>3, <3>6, <3>7
  <2> QED BY <2>1, <2>2
<1>6. PICK k \in 0..SlabPages :
        /\ unmapped = (k * PerPage + 1)..(SlabPages * PerPage)
        /\ (\E u \in Thread : expanding[u]) => k >= 1 /\ total_count = k * PerPage - PerPage
        /\ (\A u \in Thread : ~expanding[u]) => total_count = k * PerPage
  BY <1>0 DEF TotalCounted
<1>7. PICK m \in Nat : m = k * PerPage
  BY SlabAssumption
<1>8. m <= n /\ (k >= 1 => m >= PerPage) /\ PerPage \in Nat
  BY <1>2, <1>7, SlabAssumption
<1>9. TypeOK
  <2>1. free_count \in -Cardinality(Thread)..Cardinality(Block)
    BY <1>2, <1>3, <1>4, <1>5
  <2>2. total_count \in 0..Cardinality(Block)
    BY <1>2, <1>6, <1>7, <1>8
  <2>3. owners \in [Block -> Nat]
    BY <1>0 DEF SlabTypes
  <2> QED BY <1>0, <2>1, <2>2, <2>3 DEF TypeOK, SlabTypes
<1>10. CountsAgree
  <2> SUFFICES ASSUME \A t \in Thread : pc[t] = "idle"
               PROVE  free_count = Cardinality(FreeList) /\ total_count = Cardinality(Block \ unmapped)
    BY DEF CountsAgree
  <2>1. ThreadsAt("a_count") = {} /\ ThreadsAt("f_count") = {}
    BY DEF ThreadsAt
  <2>2. a = 0 /\ c = 0
    BY <1>2, <2>1, FS_EmptySet
  <2>3. \A t \in Thread : ~expanding[t]
    BY <1>0 DEF Knows, FreePC
  <2>4. Block \ unmapped = 1..m
    BY <1>2, <1>6, <1>7, <1>8 DEF Block
  <2>5. Cardinality(1..m) = m
    BY FS_Interval
  <2>6. free_count = f
    BY <1>3, <2>2
  <2>7. total_count = m
    BY <1>6, <1>7, <2>3
  <2> QED BY <1>2, <2>4, <2>5, <2>6, <2>7
<1>11. \A b \in Block : Holders(b) <= 1 /\ Holders(b) >= 1
  BY <1>1
<1> QED BY <1>9, <1>10, <1>11 DEF ExclusiveBlocks, NoBlockLost

(* The invariant of the cache: what alloc and free rely on between their     *)
(* atomic accesses (slab.rs:191-262), as long as one thread allocates from    *)
(* it and any number free.                                                    *)
THEOREM SlabInvariant ==
    ASSUME \A t, u \in Allocators : t = u
    PROVE  Spec => []SlabI
<1>1. Init => SlabI
  BY SlabStarts
<1>2. SlabI /\ [Next]_vars => SlabI'
  <2>1. CASE UNCHANGED vars
    <3> SUFFICES ASSUME SlabI PROVE SlabI'
      OBVIOUS
    <3>1. UNCHANGED <<free_ptr, next, free_count, total_count, pc, cur, nxt, new, fresh, expanding, owners, unmapped>>
      BY <2>1 DEF vars, locals
    <3>2. /\ FreeList' = FreeList /\ \A t : Taken(t)' = Taken(t) /\ Returning(t)' = Returning(t)
      BY <3>1 DEF FreeList, Closed, Taken, Returning
    <3>3. SlabTypes' /\ ListOK' /\ \A t \in Thread : Knows(t)'
      BY <3>1, <3>2 DEF SlabI, SlabJ, SlabTypes, ListOK, Knows
    <3>4. \A b, k, t : Is(b, k, t)' <=> Is(b, k, t)
      BY <3>1, <3>2 DEF Is
    <3>5. \A b \in Block : InOnePlace(b)'
      BY <3>4 DEF SlabI, SlabJ, InOnePlace
    <3>6. FreeCounted' /\ TotalCounted'
      BY <3>1, <3>2 DEF SlabI, FreeCounted, TotalCounted, ThreadsAt
    <3> QED BY <3>3, <3>5, <3>6 DEF SlabI, SlabJ
  <2>2. CASE Next
    <3> SUFFICES ASSUME SlabI PROVE SlabI'
      OBVIOUS
    <3>1. PICK t \in Thread : alloc(t) \/ Step(t) \/ \E b \in Block : free(t, b)
      BY <2>2 DEF Next
    <3>2. SlabJ' /\ FreeCounted'
      BY <3>1, FreeCountedStep
    <3>3. TotalCounted'
      BY <3>1, TotalCountedStep
    <3> QED BY <3>2, <3>3 DEF SlabI
  <2> QED BY <2>1, <2>2
<1> QED BY <1>1, <1>2, PTL DEF Spec

(* As long as one thread allocates from a cache (any number may free), alloc *)
(* hands every block of it to one caller at a time and never one that is      *)
(* free too.  Two allocating threads can take the same block: the run of      *)
(* SlabAba.cfg shows how.                                                     *)
THEOREM SlabBlocksAreExclusive ==
    ASSUME \A t, u \in Allocators : t = u
    PROVE  Spec => []ExclusiveBlocks
<1>1. SlabI => ExclusiveBlocks
  BY SlabImplies
<1>2. Spec => []SlabI
  BY SlabInvariant
<1> QED BY <1>1, <1>2, PTL

(* Under the same condition no block is lost between the page allocator, the *)
(* list and the owners, and free_count and total_count agree with the list    *)
(* whenever no call is in progress.                                           *)
THEOREM SlabLosesNothing ==
    ASSUME \A t, u \in Allocators : t = u
    PROVE  Spec => []NoBlockLost
<1>1. SlabI => NoBlockLost
  BY SlabImplies
<1>2. Spec => []SlabI
  BY SlabInvariant
<1> QED BY <1>1, <1>2, PTL

-----------------------------------------------------------------------------
(* PageAllocator: sums *)

Pair == [base : Nat, size : Nat]
Cells(f) == UNION {{x} \X (1..f[x]) : x \in DOMAIN f}

\* Sums of finitely many numbers are numbers.
LEMMA SumFinite ==
    ASSUME NEW S, IsFiniteSet(S), NEW f \in [S -> Nat]
    PROVE  IsFiniteSet(Cells(f)) /\ Sum(f) = Cardinality(Cells(f)) /\ Sum(f) \in Nat
<1> DEFINE T == {{x} \X (1..f[x]) : x \in S}
<1>1. IsFiniteSet(T)
  <2> DEFINE h == [x \in S |-> {x} \X (1..f[x])]
  <2>1. h \in [S -> T] /\ \A t \in T : \E x \in S : h[x] = t
    OBVIOUS
  <2>2. h \in Surjection(S, T)
    BY <2>1, Fun_IsSurj
  <2> QED BY <2>2, FS_Surjection
<1>2. ASSUME NEW t \in T PROVE IsFiniteSet(t)
  <2>1. PICK x \in S : t = {x} \X (1..f[x])
    OBVIOUS
  <2>2. PICK n \in Nat : n = f[x]
    OBVIOUS
  <2>3. IsFiniteSet({x})
    BY FS_Singleton
  <2>4. IsFiniteSet(1..n)
    BY FS_Interval
  <2> QED BY <2>1, <2>2, <2>3, <2>4, FS_Product
<1>3. IsFiniteSet(UNION T)
  BY <1>1, <1>2, FS_UNION
<1>4. Cells(f) = UNION T
  BY DEF Cells
<1>5. Sum(f) = Cardinality(Cells(f))
  BY DEF Sum, Cells
<1> QED BY <1>3, <1>4, <1>5, FS_CardinalityType

\* A sum is the sum of the others and of one value.
LEMMA SumSplit ==
    ASSUME NEW S, NEW x, NEW f, NEW g,
           IsFiniteSet(S), x \in S, f \in [S -> Nat], g \in [S \ {x} -> Nat], \A y \in S \ {x} : g[y] = f[y]
    PROVE  Sum(f) = Sum(g) + f[x] /\ Sum(f) \in Nat /\ Sum(g) \in Nat
<1>1. IsFiniteSet(S \ {x})
  BY FS_RemoveElement
<1>2. /\ IsFiniteSet(Cells(f)) /\ Sum(f) = Cardinality(Cells(f)) /\ Sum(f) \in Nat
      /\ IsFiniteSet(Cells(g)) /\ Sum(g) = Cardinality(Cells(g)) /\ Sum(g) \in Nat
  BY <1>1, SumFinite
<1>3. PICK C : C = {x} \X (1..f[x])
  OBVIOUS
<1>4. IsFiniteSet(C) /\ Cardinality(C) = f[x]
  <2>1. PICK n \in Nat : n = f[x]
    OBVIOUS
  <2>2. IsFiniteSet(1..n) /\ Cardinality(1..n) = n
    BY FS_Interval
  <2>3. IsFiniteSet({x}) /\ Cardinality({x}) = 1
    BY FS_Singleton
  <2>4. Cardinality({x} \X (1..n)) = 1 * n /\ IsFiniteSet({x} \X (1..n))
    BY <2>2, <2>3, FS_Product
  <2> QED BY <1>3, <2>1, <2>4
<1>5. Cells(f) = Cells(g) \cup C
  BY <1>3 DEF Cells
<1>6. Cells(g) \cap C = {}
  BY <1>3 DEF Cells
<1>7. Cardinality(Cells(g) \cup C) = Cardinality(Cells(g)) + Cardinality(C) - Cardinality({})
  BY <1>2, <1>4, <1>6, FS_Union
<1> QED BY <1>2, <1>4, <1>5, <1>7, FS_EmptySet

\* What changing one value does to a sum.
LEMMA SumChange ==
    ASSUME NEW S, IsFiniteSet(S), NEW f \in [S -> Nat], NEW g \in [S -> Nat], NEW x \in S,
           \A y \in S \ {x} : g[y] = f[y]
    PROVE  Sum(g) = Sum(f) - f[x] + g[x] /\ Sum(f) \in Nat
<1>1. PICK h \in [S \ {x} -> Nat] : \A y \in S \ {x} : h[y] = f[y]
  <2>1. [y \in S \ {x} |-> f[y]] \in [S \ {x} -> Nat]
    OBVIOUS
  <2> QED BY <2>1
<1>2. Sum(f) = Sum(h) + f[x] /\ Sum(f) \in Nat /\ Sum(h) \in Nat
  BY <1>1, SumSplit
<1>3. Sum(g) = Sum(h) + g[x]
  BY <1>1, SumSplit
<1>4. f[x] \in Nat /\ g[x] \in Nat
  OBVIOUS
<1> QED BY <1>2, <1>3, <1>4

\* The extents of a list.
LEMMA ListFacts ==
    ASSUME NEW list \in Seq(Pair)
    PROVE  /\ Len(list) \in Nat /\ DOMAIN list = 1..Len(list)
           /\ \A i \in 1..Len(list) : list[i] \in Pair /\ list[i].base \in Nat /\ list[i].size \in Nat
<1>1. Len(list) \in Nat /\ DOMAIN list = 1..Len(list)
  BY LenProperties
<1>2. \A i \in 1..Len(list) : list[i] \in Pair
  BY ElementOfSeq
<1> QED BY <1>1, <1>2 DEF Pair

\* The sizes of a list add up to a number.
LEMMA ListCount == ASSUME NEW list \in Seq(Pair) PROVE TotalSize(list) \in Nat
<1>1. PICK S : S = 1..Len(list)
  OBVIOUS
<1>2. IsFiniteSet(S)
  BY <1>1, LenProperties, FS_Interval
<1>3. \A j \in 1..Len(list) : list[j] \in Pair
  BY ElementOfSeq
<1>4. PICK f \in [S -> Nat] : f = [j \in 1..Len(list) |-> list[j].size]
  BY <1>1, <1>3 DEF Pair
<1> QED BY <1>2, <1>4, SumFinite DEF TotalSize

\* Replacing an extent of the list.
LEMMA ReplaceSize ==
    ASSUME NEW list, NEW other, NEW i, NEW p
    PROVE  (/\ list \in Seq(Pair) /\ other \in Seq(Pair) /\ Len(other) = Len(list)
            /\ i \in 1..Len(list) /\ other[i] = p /\ \A j \in 1..Len(list) : j # i => other[j] = list[j])
           => TotalSize(other) = TotalSize(list) - list[i].size + p.size
<1>0. SUFFICES ASSUME list \in Seq(Pair), other \in Seq(Pair), Len(other) = Len(list),
                      i \in 1..Len(list), other[i] = p, \A j \in 1..Len(list) : j # i => other[j] = list[j]
               PROVE  TotalSize(other) = TotalSize(list) - list[i].size + p.size
  OBVIOUS
<1>1. PICK S : S = 1..Len(list)
  OBVIOUS
<1>2. IsFiniteSet(S) /\ i \in S
  BY <1>0, <1>1, ListFacts, FS_Interval
<1>3. \A j \in S : list[j].size \in Nat /\ other[j].size \in Nat
  BY <1>0, <1>1, ListFacts
<1>4. PICK f \in [S -> Nat], g \in [S -> Nat] :
         f = [j \in S |-> list[j].size] /\ g = [j \in S |-> other[j].size]
  BY <1>3
<1>5. \A j \in S \ {i} : g[j] = f[j]
  BY <1>0, <1>1, <1>4
<1>6. Sum(g) = Sum(f) - f[i] + g[i]
  BY <1>2, <1>5, SumChange
<1>7. TotalSize(other) = Sum(g) /\ TotalSize(list) = Sum(f)
  BY <1>0, <1>1, <1>4 DEF TotalSize
<1> QED BY <1>0, <1>2, <1>4, <1>6, <1>7

\* An extent more.
LEMMA AppendSize ==
    ASSUME NEW list, NEW other, NEW m, NEW p
    PROVE  (/\ list \in Seq(Pair) /\ other \in Seq(Pair) /\ m = Len(list) + 1 /\ Len(other) = m
            /\ other[m] = p /\ \A j \in 1..Len(list) : other[j] = list[j])
           => TotalSize(other) = TotalSize(list) + p.size
<1>0. SUFFICES ASSUME list \in Seq(Pair), other \in Seq(Pair), m = Len(list) + 1, Len(other) = m,
                      other[m] = p, \A j \in 1..Len(list) : other[j] = list[j]
               PROVE  TotalSize(other) = TotalSize(list) + p.size
  OBVIOUS
<1>1. PICK S : S = 1..m
  OBVIOUS
<1>2. Len(list) \in Nat
  BY <1>0, ListFacts
<1>3. m \in S /\ S \ {m} = 1..Len(list)
  BY <1>0, <1>1, <1>2
<1>4. IsFiniteSet(S)
  BY <1>0, <1>1, <1>2, FS_Interval
<1>5. PICK g \in [S -> Nat] : g = [j \in S |-> other[j].size]
  <2>1. \A j \in S : other[j].size \in Nat
    BY <1>0, <1>1, ListFacts
  <2> QED BY <2>1
<1>6. PICK f \in [S \ {m} -> Nat] : f = [j \in S \ {m} |-> list[j].size]
  <2>1. \A j \in S \ {m} : list[j].size \in Nat
    BY <1>0, <1>3, ListFacts
  <2> QED BY <2>1
<1>7. \A j \in S \ {m} : f[j] = g[j]
  BY <1>0, <1>3, <1>5, <1>6
<1>8. Sum(g) = Sum(f) + g[m]
  BY <1>3, <1>4, <1>7, SumSplit
<1>9. TotalSize(other) = Sum(g) /\ TotalSize(list) = Sum(f)
  BY <1>0, <1>1, <1>3, <1>5, <1>6 DEF TotalSize
<1> QED BY <1>0, <1>3, <1>5, <1>8, <1>9

\* A request is for at least one page.
LEMMA PagesPositive ==
    ASSUME NEW bytes \in Request
    PROVE  Pages(bytes) \in Nat /\ Pages(bytes) >= 1
<1>1. bytes \in Nat /\ bytes >= 1 /\ PAGE_SIZE \in Nat /\ PAGE_SIZE > 0
  BY PageAssumption
<1>2. PICK q \in Int : q = (bytes + PAGE_SIZE - 1) \div PAGE_SIZE
  BY <1>1
<1>3. bytes + PAGE_SIZE - 1 < PAGE_SIZE * q + PAGE_SIZE
  BY <1>1, <1>2
<1>4. q >= 1
  <2>1. CASE q <= 0
    <3>1. PAGE_SIZE * q <= 0
      BY <1>1, <2>1
    <3>2. PAGE_SIZE * q \in Int
      BY <1>1
    <3> QED BY <1>1, <1>3, <3>1, <3>2
  <2> QED BY <2>1
<1> QED BY <1>2, <1>4 DEF Pages

\* The pages of finitely many blocks add up to a number.
LEMMA BlocksCount == ASSUME NEW S \in SUBSET PageBlock, IsFiniteSet(S) PROVE TotalPages(S) \in Nat
<1>1. \A d \in PageBlock : Pages(d.bytes) \in Nat
  BY PagesPositive DEF PageBlock
<1>2. PICK f \in [S -> Nat] : f = [d \in S |-> Pages(d.bytes)]
  BY <1>1
<1> QED BY <1>2, SumFinite DEF TotalPages

\* The pages of the blocks, with one block more.
LEMMA BlocksGrow ==
    ASSUME NEW S \in SUBSET PageBlock, IsFiniteSet(S), NEW b \in PageBlock \ S
    PROVE  TotalPages(S \cup {b}) = TotalPages(S) + Pages(b.bytes) /\ TotalPages(S) \in Nat /\ Pages(b.bytes) \in Nat
<1>1. \A d \in PageBlock : Pages(d.bytes) \in Nat
  BY PagesPositive DEF PageBlock
<1>2. PICK T : T = S \cup {b}
  OBVIOUS
<1>3. PICK g \in [T -> Nat] : g = [d \in T |-> Pages(d.bytes)]
  BY <1>1, <1>2
<1>4. T \ {b} = S /\ b \in T /\ IsFiniteSet(T)
  BY <1>2, FS_AddElement
<1>5. PICK f \in [T \ {b} -> Nat] : f = [d \in S |-> Pages(d.bytes)]
  BY <1>1, <1>4
<1>6. Sum(g) = Sum(f) + g[b] /\ Sum(f) \in Nat
  BY <1>3, <1>4, <1>5, SumSplit
<1> QED BY <1>1, <1>2, <1>3, <1>4, <1>5, <1>6 DEF TotalPages

-----------------------------------------------------------------------------
(* PageAllocator: the invariant *)

PageTypes == /\ mem_list \in Seq(Pair) /\ Len(mem_list) <= MAX_FREE_PAIRS
             /\ lost_size \in Nat /\ n_fragments \in Nat
             /\ owned \in SUBSET PageBlock /\ IsFiniteSet(owned)
             /\ freeing \in [PaThread -> SUBSET PageBlock]

\* A thread returns one block at a time, which nobody has or returns any more.
ReturnsOne == /\ \A t \in PaThread : freeing[t] \cap owned = {} /\ \A b, d \in freeing[t] : b = d
              /\ \A t, u \in PaThread : t # u => freeing[t] \cap freeing[u] = {}

PageI == PageTypes /\ ReturnsOne /\ NoPageTwice /\ PagesAddUp /\ CounterCoversList

\* Cutting n pages off the front of an extent.
LEMMA CutExtent ==
    ASSUME NEW b \in Nat, NEW s \in Nat, NEW n \in Nat, n >= 1, s >= n
    PROVE  /\ Extent(b, n) \subseteq Extent(b, s) /\ Extent(b + n, s - n) \subseteq Extent(b, s)
           /\ Extent(b, n) \cap Extent(b + n, s - n) = {} /\ b \in Extent(b, n)
BY DEF Extent

\* The blocks that are in use are finitely many.
LEMMA UseFinite ==
    ASSUME PageTypes, ReturnsOne
    PROVE  /\ OnTheWay \in SUBSET PageBlock /\ IsFiniteSet(OnTheWay) /\ InUse \in SUBSET PageBlock /\ IsFiniteSet(InUse)
           /\ OnTheWay \cap owned = {}
<1>1. OnTheWay \in SUBSET PageBlock /\ OnTheWay \cap owned = {}
  BY DEF PageTypes, ReturnsOne, OnTheWay
<1>2. IsFiniteSet(OnTheWay)
  <2> DEFINE T == {freeing[t] : t \in PaThread}
  <2>1. IsFiniteSet(T)
    <3> DEFINE h == [t \in PaThread |-> freeing[t]]
    <3>1. h \in [PaThread -> T] /\ \A s \in T : \E t \in PaThread : h[t] = s
      OBVIOUS
    <3>2. h \in Surjection(PaThread, T)
      BY <3>1, Fun_IsSurj
    <3> QED BY <3>2, PageAssumption, FS_Surjection
  <2>2. ASSUME NEW s \in T PROVE IsFiniteSet(s)
    <3>1. \A b, d \in s : b = d
      BY DEF ReturnsOne
    <3>2. CASE s = {}
      BY <3>2, FS_EmptySet
    <3>3. CASE s # {}
      <4>1. PICK b : s = {b}
        BY <3>1, <3>3
      <4> QED BY <4>1, FS_Singleton
    <3> QED BY <3>2, <3>3
  <2>3. IsFiniteSet(UNION T)
    BY <2>1, <2>2, FS_UNION
  <2> QED BY <2>3 DEF OnTheWay
<1>3. InUse \in SUBSET PageBlock /\ IsFiniteSet(InUse)
  BY <1>1, <1>2, FS_Union DEF InUse, PageTypes
<1> QED BY <1>1, <1>2, <1>3

\* pg_alloc cuts a block off a free extent.
LEMMA AllocStep ==
    ASSUME PageI, NEW t \in PaThread, NEW bytes \in Request, pg_alloc(t, bytes)
    PROVE  PageI'
<1>0. PageTypes /\ ReturnsOne /\ NoPageTwice /\ PagesAddUp /\ CounterCoversList
  BY DEF PageI
<1>1. PICK n \in Nat : n = Pages(bytes) /\ n >= 1
  BY PagesPositive
<1>2. PICK i \in 1..Len(mem_list) : i = Min(Fitting(n)) /\ mem_list[i].size >= n
  <2>1. Fitting(n) # {} /\ Fitting(n) \in SUBSET Nat /\ Fitting(n) \subseteq 1..Len(mem_list)
    BY <1>0, <1>1, LenProperties DEF pg_alloc, Fitting, PageTypes
  <2>2. Min(Fitting(n)) \in Fitting(n)
    BY <2>1, NatMin
  <2> QED BY <2>1, <2>2 DEF Fitting
<1>3. /\ mem_list \in Seq(Pair) /\ Len(mem_list) \in Nat /\ DOMAIN mem_list = 1..Len(mem_list)
      /\ mem_list[i].base \in Nat /\ mem_list[i].size \in Nat
  BY <1>0, ListFacts DEF PageTypes
<1>4. PICK x \in PageBlock : x = [base |-> mem_list[i].base, bytes |-> bytes]
  BY <1>3 DEF PageBlock
<1>5. PICK p \in Pair : p = Cut(mem_list[i], n) /\ p.base = mem_list[i].base + n /\ p.size = mem_list[i].size - n
  <2>1. mem_list[i].base + n \in Nat /\ mem_list[i].size - n \in Nat
    BY <1>2, <1>3
  <2>2. Cut(mem_list[i], n) \in Pair
    BY <2>1 DEF Cut, Pair
  <2> QED BY <2>2 DEF Cut
<1>6. /\ owned' = owned \cup {x} /\ mem_list' = [mem_list EXCEPT ![i] = p] /\ free_pages' = free_pages - n
      /\ UNCHANGED <<lost_size, n_fragments, freeing>>
  BY <1>1, <1>2, <1>4, <1>5 DEF pg_alloc
<1>7. /\ mem_list' \in Seq(Pair) /\ Len(mem_list') = Len(mem_list) /\ DOMAIN mem_list' = 1..Len(mem_list)
      /\ mem_list'[i] = p /\ \A j \in 1..Len(mem_list) : j # i => mem_list'[j] = mem_list[j]
      /\ TotalSize(mem_list') = TotalSize(mem_list) - mem_list[i].size + p.size /\ TotalSize(mem_list) \in Nat
  <2>0. PICK M : M = mem_list'
    OBVIOUS
  <2>1. PICK L \in Seq(Pair) : L = mem_list
    BY <1>3
  <2>2. i \in 1..Len(L) /\ M = [L EXCEPT ![i] = p]
    BY <1>6, <2>0, <2>1
  <2>3. /\ M \in Seq(Pair) /\ Len(M) = Len(L)
        /\ M[i] = p /\ \A j \in 1..Len(L) : j # i => M[j] = L[j]
    BY <2>2, ExceptSeq, LenProperties
  <2>4. TotalSize(M) = TotalSize(L) - L[i].size + p.size
    <3>1. i \in 1..Len(L)
      BY <2>2
    <3> QED BY <2>3, <3>1, ReplaceSize
  <2>5. DOMAIN M = 1..Len(L) /\ TotalSize(L) \in Nat
    BY <2>3, ListFacts, ListCount
  <2> QED BY <2>0, <2>1, <2>3, <2>4, <2>5
<1>8. /\ PagesOf(x) \subseteq FreeExtent(i) /\ FreeExtent(i)' \subseteq FreeExtent(i)
      /\ PagesOf(x) \cap FreeExtent(i)' = {} /\ mem_list[i].base \in PagesOf(x)
      /\ \A j \in 1..Len(mem_list) : j # i => FreeExtent(j)' = FreeExtent(j)
  <2>1. PICK b0 \in Nat, s0 \in Nat : b0 = mem_list[i].base /\ s0 = mem_list[i].size /\ s0 >= n
    BY <1>2, <1>3
  <2>2. PagesOf(x) = Extent(b0, n) /\ FreeExtent(i) = Extent(b0, s0)
    BY <1>1, <1>4, <2>1 DEF PagesOf, FreeExtent
  <2>3. FreeExtent(i)' = Extent(b0 + n, s0 - n)
    BY <1>5, <1>7, <2>1 DEF FreeExtent
  <2>4. \A j \in 1..Len(mem_list) : j # i => FreeExtent(j)' = FreeExtent(j)
    BY <1>7 DEF FreeExtent
  <2>5. /\ Extent(b0, n) \subseteq Extent(b0, s0) /\ Extent(b0 + n, s0 - n) \subseteq Extent(b0, s0)
        /\ Extent(b0, n) \cap Extent(b0 + n, s0 - n) = {} /\ b0 \in Extent(b0, n)
    <3>1. n >= 1 /\ s0 >= n
      BY <1>1, <2>1
    <3> QED BY <3>1, CutExtent
  <2> QED BY <2>1, <2>2, <2>3, <2>4, <2>5
<1>9. x \notin InUse
  BY <1>0, <1>3, <1>8 DEF NoPageTwice
<1>10. OnTheWay' = OnTheWay /\ InUse' = InUse \cup {x} /\ x \notin owned /\ x \notin OnTheWay
  BY <1>6, <1>9 DEF OnTheWay, InUse
<1>11. PageTypes'
  <2>1. IsFiniteSet(owned')
    BY <1>0, <1>6, FS_AddElement DEF PageTypes
  <2> QED BY <1>0, <1>6, <1>7, <2>1 DEF PageTypes
<1>12. ReturnsOne'
  BY <1>0, <1>6, <1>10 DEF ReturnsOne, OnTheWay
<1>13. NoPageTwice'
  <2>0. /\ \A b, d \in InUse : b # d => PagesOf(b) \cap PagesOf(d) = {}
        /\ \A b \in InUse, j \in 1..Len(mem_list) : PagesOf(b) \cap FreeExtent(j) = {}
        /\ \A j, k \in 1..Len(mem_list) : j # k => FreeExtent(j) \cap FreeExtent(k) = {}
    BY <1>0, <1>3 DEF NoPageTwice
  <2>1. \A b, d \in InUse \cup {x} : b # d => PagesOf(b) \cap PagesOf(d) = {}
    BY <1>8, <2>0
  <2>2. \A b \in InUse \cup {x}, j \in 1..Len(mem_list) : PagesOf(b) \cap FreeExtent(j)' = {}
    BY <1>8, <2>0
  <2>3. \A j, k \in 1..Len(mem_list) : j # k => FreeExtent(j)' \cap FreeExtent(k)' = {}
    BY <1>8, <2>0
  <2> QED BY <1>7, <1>10, <2>1, <2>2, <2>3 DEF NoPageTwice, PagesOf
<1>14. TotalSize(mem_list') = TotalSize(mem_list) - n
  BY <1>3, <1>5, <1>7
<1>15. PagesAddUp'
  <2>1. TotalPages(InUse \cup {x}) = TotalPages(InUse) + n /\ TotalPages(InUse) \in Nat
    <3>1. InUse \in SUBSET PageBlock /\ IsFiniteSet(InUse)
      BY <1>0, UseFinite
    <3>2. x \in PageBlock \ InUse /\ Pages(x.bytes) = n
      BY <1>1, <1>4, <1>9
    <3> QED BY <3>1, <3>2, BlocksGrow
  <2>2. TotalSize(mem_list) + lost_size + TotalPages(InUse) = TotalSize(BootMap)
    BY <1>0 DEF PagesAddUp
  <2>3. TotalSize(mem_list') + lost_size' + TotalPages(InUse') = TotalSize(BootMap)
    BY <1>0, <1>6, <1>7, <1>10, <1>14, <2>1, <2>2 DEF PageTypes
  <2> QED BY <2>3 DEF PagesAddUp, TotalPages, TotalSize, Pages, Sum
<1>16. CounterCoversList'
  <2>1. free_pages = TotalSize(mem_list) + lost_size + TotalPages(OnTheWay)
    BY <1>0 DEF CounterCoversList
  <2>2. TotalPages(OnTheWay) \in Nat
    BY <1>0, UseFinite, BlocksCount
  <2>3. free_pages' = TotalSize(mem_list') + lost_size' + TotalPages(OnTheWay')
    BY <1>0, <1>6, <1>7, <1>10, <1>14, <2>1, <2>2 DEF PageTypes
  <2> QED BY <2>3 DEF CounterCoversList, TotalPages, TotalSize, Pages, Sum
<1> QED BY <1>11, <1>12, <1>13, <1>15, <1>16 DEF PageI

\* pg_dealloc takes the block from its owner and counts its pages.
LEMMA DeallocStep ==
    ASSUME PageI, NEW t \in PaThread, NEW x \in owned, pg_dealloc(t, x)
    PROVE  PageI'
<1>0. PageTypes /\ ReturnsOne /\ NoPageTwice /\ PagesAddUp /\ CounterCoversList
  BY DEF PageI
<1>1. PICK n \in Nat : n = Pages(x.bytes) /\ n >= 1
  BY <1>0, PagesPositive DEF PageTypes, PageBlock
<1>2. /\ freeing[t] = {} /\ owned' = owned \ {x} /\ freeing' = [freeing EXCEPT ![t] = {x}]
      /\ free_pages' = free_pages + n /\ UNCHANGED <<mem_list, lost_size, n_fragments>>
  BY <1>1 DEF pg_dealloc
<1>3. freeing'[t] = {x} /\ \A u \in PaThread : u # t => freeing'[u] = freeing[u]
  BY <1>0, <1>2 DEF PageTypes
<1>4. PageTypes'
  <2>1. IsFiniteSet(owned')
    BY <1>0, <1>2, FS_RemoveElement DEF PageTypes
  <2> QED BY <1>0, <1>2, <2>1 DEF PageTypes
<1>5. ReturnsOne'
  BY <1>0, <1>2, <1>3 DEF ReturnsOne
<1>6. OnTheWay' = OnTheWay \cup {x} /\ InUse' = InUse /\ x \notin OnTheWay /\ x \in PageBlock
  <2>1. x \notin OnTheWay
    BY <1>0 DEF ReturnsOne, OnTheWay
  <2>2. OnTheWay' = OnTheWay \cup {x}
    BY <1>2, <1>3 DEF OnTheWay
  <2> QED BY <1>0, <1>2, <2>1, <2>2 DEF InUse, PageTypes
<1>7. NoPageTwice'
  BY <1>0, <1>2, <1>6 DEF NoPageTwice, FreeExtent
<1>8. PagesAddUp'
  BY <1>0, <1>2, <1>6 DEF PagesAddUp
<1>9. CounterCoversList'
  <2>1. free_pages = TotalSize(mem_list) + lost_size + TotalPages(OnTheWay)
    BY <1>0 DEF CounterCoversList
  <2>2. TotalPages(OnTheWay \cup {x}) = TotalPages(OnTheWay) + n /\ TotalPages(OnTheWay) \in Nat
    BY <1>0, <1>1, <1>6, UseFinite, BlocksGrow
  <2>3. TotalSize(mem_list) \in Nat /\ lost_size \in Nat
    BY <1>0, ListCount DEF PageTypes
  <2>4. free_pages' = TotalSize(mem_list') + lost_size' + TotalPages(OnTheWay')
    BY <1>2, <1>6, <2>1, <2>2, <2>3
  <2> QED BY <2>4 DEF CounterCoversList
<1> QED BY <1>4, <1>5, <1>7, <1>8, <1>9 DEF PageI

\* The rest of pg_dealloc: the block joins a neighbour, becomes an extent of
\* its own, or is lost.
LEMMA ReleaseStep ==
    ASSUME PageI, NEW t \in PaThread, NEW x \in freeing[t], Release(t, x)
    PROVE  PageI'
<1>0. PageTypes /\ ReturnsOne /\ NoPageTwice /\ PagesAddUp /\ CounterCoversList
  BY DEF PageI
<1>1. x \in PageBlock /\ x.base \in Nat
  BY <1>0 DEF PageTypes, PageBlock
<1>2. PICK n \in Nat : n = Pages(x.bytes) /\ n >= 1
  BY <1>1, PagesPositive DEF PageBlock
<1>3. PICK span \in Pair : span = [base |-> x.base, size |-> n] /\ span.base = x.base /\ span.size = n
  <2>1. [base |-> x.base, size |-> n] \in Pair
    BY <1>1 DEF Pair
  <2> QED BY <2>1
<1>4. /\ freeing[t] = {x} /\ freeing' = [freeing EXCEPT ![t] = {}] /\ n_fragments' = Len(mem_list)
      /\ UNCHANGED <<free_pages, owned>>
  BY DEF Release
<1>5. freeing'[t] = {} /\ \A u \in PaThread : u # t => freeing'[u] = freeing[u]
  BY <1>0, <1>4 DEF PageTypes
<1>6. /\ OnTheWay = OnTheWay' \cup {x} /\ InUse = InUse' \cup {x}
      /\ x \notin OnTheWay' /\ x \notin InUse' /\ x \notin owned
  <2>1. x \notin owned /\ \A u \in PaThread : u # t => x \notin freeing[u]
    BY <1>0, <1>4 DEF ReturnsOne
  <2>2. OnTheWay = OnTheWay' \cup {x}
    BY <1>4, <1>5 DEF OnTheWay
  <2>3. x \notin OnTheWay'
    BY <1>5, <2>1 DEF OnTheWay
  <2> QED BY <1>4, <2>1, <2>2, <2>3 DEF InUse
<1>7. ReturnsOne'
  BY <1>0, <1>4, <1>5 DEF ReturnsOne
<1>8. /\ mem_list \in Seq(Pair) /\ Len(mem_list) \in Nat /\ DOMAIN mem_list = 1..Len(mem_list)
      /\ \A i \in 1..Len(mem_list) : mem_list[i] \in Pair /\ mem_list[i].base \in Nat /\ mem_list[i].size \in Nat
  BY <1>0, ListFacts DEF PageTypes
<1>9. /\ \A b, d \in InUse : b # d => PagesOf(b) \cap PagesOf(d) = {}
      /\ \A b \in InUse, j \in 1..Len(mem_list) : PagesOf(b) \cap FreeExtent(j) = {}
      /\ \A j, k \in 1..Len(mem_list) : j # k => FreeExtent(j) \cap FreeExtent(k) = {}
  BY <1>0, <1>8 DEF NoPageTwice
<1>10. PagesOf(x) = Extent(span.base, span.size)
  BY <1>2, <1>3 DEF PagesOf
<1>11. /\ TotalPages(OnTheWay) = TotalPages(OnTheWay') + n /\ TotalPages(OnTheWay') \in Nat
       /\ TotalPages(InUse) = TotalPages(InUse') + n /\ TotalPages(InUse') \in Nat
  <2>1. PICK W, U : W = OnTheWay' /\ U = InUse'
    OBVIOUS
  <2>2. OnTheWay \in SUBSET PageBlock /\ IsFiniteSet(OnTheWay) /\ InUse \in SUBSET PageBlock /\ IsFiniteSet(InUse)
    BY <1>0, UseFinite
  <2>3. W = OnTheWay \ {x} /\ U = InUse \ {x}
    BY <1>6, <2>1
  <2>4. W \in SUBSET PageBlock /\ U \in SUBSET PageBlock
    BY <2>2, <2>3
  <2>5. IsFiniteSet(W)
    BY <2>2, <2>3, FS_RemoveElement
  <2>6. IsFiniteSet(U)
    BY <2>2, <2>3, FS_RemoveElement
  <2>7. x \in PageBlock \ W /\ x \in PageBlock \ U
    BY <1>1, <2>3
  <2>8. TotalPages(W \cup {x}) = TotalPages(W) + n /\ TotalPages(W) \in Nat
    BY <1>2, <2>4, <2>5, <2>7, BlocksGrow
  <2>9. TotalPages(U \cup {x}) = TotalPages(U) + n /\ TotalPages(U) \in Nat
    BY <1>2, <2>4, <2>6, <2>7, BlocksGrow
  <2> QED BY <1>6, <2>1, <2>8, <2>9
<1>12. TotalSize(mem_list) \in Nat /\ lost_size \in Nat /\ MAX_FREE_PAIRS \in Nat
  BY <1>0, ListCount, PageAssumption DEF PageTypes
\* What the three cases have to show about the list.
<1> DEFINE Kept == /\ mem_list' \in Seq(Pair) /\ Len(mem_list') <= MAX_FREE_PAIRS /\ lost_size' \in Nat
                   /\ TotalSize(mem_list') + lost_size' = TotalSize(mem_list) + lost_size + n
                   /\ TotalSize(mem_list') \in Int
<1>13. ASSUME Kept PROVE PageTypes' /\ PagesAddUp' /\ CounterCoversList'
  <2>1. PageTypes'
    BY <1>0, <1>4, <1>8, <1>13 DEF PageTypes
  <2>2. TotalSize(mem_list') + lost_size' + TotalPages(InUse') = TotalSize(BootMap)
    <3>1. TotalSize(mem_list) + lost_size + TotalPages(InUse) = TotalSize(BootMap)
      BY <1>0 DEF PagesAddUp
    <3> QED BY <1>11, <1>12, <1>13, <3>1
  <2>3. free_pages' = TotalSize(mem_list') + lost_size' + TotalPages(OnTheWay')
    <3>1. free_pages = TotalSize(mem_list) + lost_size + TotalPages(OnTheWay)
      BY <1>0 DEF CounterCoversList
    <3> QED BY <1>4, <1>11, <1>12, <1>13, <3>1
  <2> QED BY <2>1, <2>2, <2>3 DEF PagesAddUp, CounterCoversList, TotalPages, TotalSize, Pages, Sum
<1>14. CASE Neighbours(span) # {}
  <2>1. PICK i \in 1..Len(mem_list) : i = Min(Neighbours(span)) /\ Adjacent(mem_list[i], span)
    <3>1. Neighbours(span) \in SUBSET Nat /\ Neighbours(span) \subseteq 1..Len(mem_list)
      BY <1>8 DEF Neighbours
    <3>2. Min(Neighbours(span)) \in Neighbours(span)
      BY <1>14, <3>1, NatMin
    <3> QED BY <3>1, <3>2 DEF Neighbours
  <2>2. PICK b0 \in Nat, s0 \in Nat : b0 = mem_list[i].base /\ s0 = mem_list[i].size
    BY <1>8
  <2>3. PICK c0 \in Nat : c0 = x.base /\ c0 = span.base
    BY <1>1, <1>3
  <2>4. b0 + s0 = c0 \/ c0 + n = b0
    BY <1>3, <2>1, <2>2, <2>3 DEF Adjacent
  <2>5. PICK p \in Pair : /\ p = Merge(mem_list[i], span) /\ p.base = (IF b0 + s0 = c0 THEN b0 ELSE c0)
                          /\ p.size = s0 + n
    <3>1. (IF b0 + s0 = c0 THEN b0 ELSE c0) \in Nat /\ s0 + n \in Nat
      OBVIOUS
    <3>2. Merge(mem_list[i], span) = [base |-> (IF b0 + s0 = c0 THEN b0 ELSE c0), size |-> s0 + n]
      BY <1>3, <2>2, <2>3 DEF Merge
    <3>3. Merge(mem_list[i], span) \in Pair
      BY <3>1, <3>2 DEF Pair
    <3> QED BY <3>2, <3>3
  <2>6. mem_list' = [mem_list EXCEPT ![i] = p] /\ lost_size' = lost_size
    BY <1>2, <1>3, <1>14, <2>1, <2>5 DEF Release
  <2>7. /\ mem_list' \in Seq(Pair) /\ Len(mem_list') = Len(mem_list) /\ DOMAIN mem_list' = 1..Len(mem_list)
        /\ mem_list'[i] = p /\ \A j \in 1..Len(mem_list) : j # i => mem_list'[j] = mem_list[j]
        /\ TotalSize(mem_list') = TotalSize(mem_list) - s0 + (s0 + n)
    <3>0. PICK M : M = mem_list'
      OBVIOUS
    <3>1. PICK L \in Seq(Pair) : L = mem_list
      BY <1>8
    <3>2. i \in 1..Len(L) /\ M = [L EXCEPT ![i] = p]
      BY <2>6, <3>0, <3>1
    <3>3. /\ M \in Seq(Pair) /\ Len(M) = Len(L)
          /\ M[i] = p /\ \A j \in 1..Len(L) : j # i => M[j] = L[j]
      BY <3>2, ExceptSeq, LenProperties
    <3>4. TotalSize(M) = TotalSize(L) - L[i].size + p.size
      <4>1. i \in 1..Len(L)
        BY <3>2
      <4> QED BY <3>3, <4>1, ReplaceSize
    <3>5. DOMAIN M = 1..Len(L) /\ TotalSize(L) \in Nat
      BY <3>3, ListFacts, ListCount
    <3> QED BY <2>2, <2>5, <3>0, <3>1, <3>3, <3>4, <3>5
  <2>8. Kept
    BY <1>0, <1>12, <2>6, <2>7 DEF PageTypes
  <2>9. FreeExtent(i)' = FreeExtent(i) \cup PagesOf(x)
    <3>1. FreeExtent(i)' = p.base..(p.base + p.size - 1)
      BY <2>7 DEF FreeExtent, Extent
    <3>2. FreeExtent(i) = b0..(b0 + s0 - 1) /\ PagesOf(x) = c0..(c0 + n - 1)
      BY <1>3, <1>10, <2>2, <2>3 DEF FreeExtent, Extent
    <3>3. CASE b0 + s0 = c0
      <4>1. b0..(b0 + (s0 + n) - 1) = (b0..(b0 + s0 - 1)) \cup (c0..(c0 + n - 1))
        BY <3>3
      <4> QED BY <2>5, <3>1, <3>2, <3>3, <4>1
    <3>4. CASE b0 + s0 # c0
      <4>1. c0..(c0 + (s0 + n) - 1) = (b0..(b0 + s0 - 1)) \cup (c0..(c0 + n - 1))
        BY <2>4, <3>4
      <4> QED BY <2>5, <3>1, <3>2, <3>4, <4>1
    <3> QED BY <3>3, <3>4
  <2>10. \A j \in 1..Len(mem_list) : j # i => FreeExtent(j)' = FreeExtent(j)
    BY <2>7 DEF FreeExtent
  <2>11. \A b, d \in InUse' : b # d => PagesOf(b) \cap PagesOf(d) = {}
    BY <1>6, <1>9
  <2>12. \A b \in InUse', j \in 1..Len(mem_list) : PagesOf(b) \cap FreeExtent(j)' = {}
    <3> SUFFICES ASSUME NEW b \in InUse', NEW j \in 1..Len(mem_list) PROVE PagesOf(b) \cap FreeExtent(j)' = {}
      OBVIOUS
    <3>1. b \in InUse /\ x \in InUse /\ b # x
      BY <1>6
    <3>2. PagesOf(b) \cap FreeExtent(j) = {} /\ PagesOf(b) \cap PagesOf(x) = {}
      BY <1>9, <3>1
    <3> QED BY <2>9, <2>10, <3>2
  <2>13. \A j, k \in 1..Len(mem_list) : j # k => FreeExtent(j)' \cap FreeExtent(k)' = {}
    <3>1. \A j \in 1..Len(mem_list) : PagesOf(x) \cap FreeExtent(j) = {}
      BY <1>6, <1>9
    <3> QED BY <1>9, <2>9, <2>10, <3>1
  <2>14. NoPageTwice'
    BY <2>7, <2>11, <2>12, <2>13 DEF NoPageTwice, PagesOf
  <2> QED BY <1>7, <1>13, <2>8, <2>14 DEF PageI
<1>15. CASE Neighbours(span) = {} /\ Len(mem_list) < MAX_FREE_PAIRS
  <2>1. mem_list' = Append(mem_list, span) /\ lost_size' = lost_size
    BY <1>2, <1>3, <1>8, <1>12, <1>15 DEF Release
  <2>2. PICK m \in Nat : m = Len(mem_list)
    BY <1>8
  <2>3. /\ mem_list' \in Seq(Pair) /\ Len(mem_list') = m + 1 /\ DOMAIN mem_list' = 1..(m + 1)
        /\ mem_list'[m + 1] = span /\ \A j \in 1..m : mem_list'[j] = mem_list[j]
        /\ TotalSize(mem_list') = TotalSize(mem_list) + n
    <3>0. PICK M : M = mem_list'
      OBVIOUS
    <3>1. PICK L \in Seq(Pair) : L = mem_list
      BY <1>8
    <3>2. M = Append(L, span)
      BY <2>1, <3>0, <3>1
    <3>3. /\ M \in Seq(Pair) /\ Len(M) = Len(L) + 1
          /\ M[Len(L) + 1] = span /\ \A j \in 1..Len(L) : M[j] = L[j]
      BY <3>2, AppendProperties, LenProperties
    <3>4. TotalSize(M) = TotalSize(L) + span.size
      BY <3>3, AppendSize
    <3>5. DOMAIN M = 1..(Len(L) + 1)
      BY <3>3, ListFacts
    <3> QED BY <1>3, <2>2, <3>0, <3>1, <3>3, <3>4, <3>5
  <2>4. Kept
    BY <1>12, <1>15, <2>1, <2>2, <2>3
  <2>5. FreeExtent(m + 1)' = PagesOf(x) /\ \A j \in 1..m : FreeExtent(j)' = FreeExtent(j)
    <3>1. mem_list'[m + 1] = span /\ \A j \in 1..m : mem_list'[j] = mem_list[j]
      BY <2>3
    <3> QED BY <1>10, <3>1 DEF FreeExtent
  <2>6. \A b, d \in InUse' : b # d => PagesOf(b) \cap PagesOf(d) = {}
    BY <1>6, <1>9
  <2>7. \A j \in 1..(m + 1) : j \in 1..m \/ j = m + 1
    OBVIOUS
  <2>8. \A b \in InUse', j \in 1..(m + 1) : PagesOf(b) \cap FreeExtent(j)' = {}
    <3> SUFFICES ASSUME NEW b \in InUse', NEW j \in 1..(m + 1) PROVE PagesOf(b) \cap FreeExtent(j)' = {}
      OBVIOUS
    <3>1. b \in InUse /\ x \in InUse /\ b # x
      BY <1>6
    <3>2. PagesOf(b) \cap PagesOf(x) = {}
      BY <1>9, <3>1
    <3>3. CASE j \in 1..m
      BY <1>9, <2>2, <2>5, <3>1, <3>3
    <3> QED BY <2>5, <2>7, <3>2, <3>3
  <2>9. \A j, k \in 1..(m + 1) : j # k => FreeExtent(j)' \cap FreeExtent(k)' = {}
    <3>1. \A j \in 1..m : PagesOf(x) \cap FreeExtent(j) = {}
      BY <1>6, <1>9, <2>2
    <3>2. \A j, k \in 1..m : j # k => FreeExtent(j) \cap FreeExtent(k) = {}
      BY <1>9, <2>2
    <3> QED BY <2>5, <2>7, <3>1, <3>2
  <2>10. NoPageTwice'
    BY <2>3, <2>6, <2>8, <2>9 DEF NoPageTwice, PagesOf
  <2> QED BY <1>7, <1>13, <2>4, <2>10 DEF PageI
<1>16. CASE Neighbours(span) = {} /\ Len(mem_list) = MAX_FREE_PAIRS
  <2>1. mem_list' = mem_list /\ lost_size' = lost_size + n
    BY <1>2, <1>3, <1>8, <1>12, <1>16 DEF Release
  <2>2. Kept
    BY <1>0, <1>8, <1>12, <2>1 DEF PageTypes
  <2>3. \A j : FreeExtent(j)' = FreeExtent(j)
    BY <2>1 DEF FreeExtent
  <2>4. \A b, d \in InUse' : b # d => PagesOf(b) \cap PagesOf(d) = {}
    BY <1>6, <1>9
  <2>5. \A b \in InUse', j \in 1..Len(mem_list) : PagesOf(b) \cap FreeExtent(j)' = {}
    BY <1>6, <1>9, <2>3
  <2>6. DOMAIN mem_list' = 1..Len(mem_list)
    BY <1>8, <2>1
  <2>7. NoPageTwice'
    BY <1>9, <2>3, <2>4, <2>5, <2>6 DEF NoPageTwice, PagesOf
  <2> QED BY <1>7, <1>13, <2>2, <2>7 DEF PageI
<1>17. Neighbours(span) # {} \/ Len(mem_list) < MAX_FREE_PAIRS \/ Len(mem_list) = MAX_FREE_PAIRS
  <2>1. Len(mem_list) <= MAX_FREE_PAIRS
    BY <1>0 DEF PageTypes
  <2>2. PICK m \in Nat, M \in Nat : m = Len(mem_list) /\ M = MAX_FREE_PAIRS
    BY <1>8, <1>12
  <2>3. m < M \/ m = M
    BY <2>1, <2>2
  <2> QED BY <2>2, <2>3
<1> QED BY <1>14, <1>15, <1>16, <1>17

\* At boot, nothing is in use.
LEMMA PageStart == PaInit => PageI
<1> SUFFICES ASSUME PaInit PROVE PageI
  OBVIOUS
<1>1. BootMap \in Seq(Pair)
  <2>1. \A i \in 1..Len(BootMap) : BootMap[i] \in [base : Nat \ {0}, size : Nat]
    BY PageAssumption, ElementOfSeq
  <2>2. Len(BootMap) \in Nat /\ DOMAIN BootMap = 1..Len(BootMap) /\ BootMap = [i \in 1..Len(BootMap) |-> BootMap[i]]
    BY PageAssumption, LenProperties
  <2>3. \A i \in 1..Len(BootMap) : BootMap[i] \in Pair
    BY <2>1 DEF Pair
  <2> QED BY <2>2, <2>3, SeqDef
<1>2. Len(BootMap) \in Nat /\ DOMAIN BootMap = 1..Len(BootMap) /\ TotalSize(BootMap) \in Nat
  BY <1>1, ListFacts, ListCount
<1>3. OnTheWay = {} /\ InUse = {}
  BY DEF PaInit, OnTheWay, InUse
<1>4. TotalPages({}) = 0
  <2>1. UNION {{b} \X (1..[d \in {} |-> Pages(d.bytes)][b]) : b \in DOMAIN [d \in {} |-> Pages(d.bytes)]} = {}
    OBVIOUS
  <2> QED BY <2>1, FS_EmptySet DEF TotalPages, Sum
<1>5. PageTypes
  BY <1>1, <1>2, PageAssumption, FS_EmptySet DEF PaInit, PageTypes
<1>6. ReturnsOne
  BY DEF PaInit, ReturnsOne
<1>7. NoPageTwice
  BY <1>2, <1>3, PageAssumption DEF PaInit, NoPageTwice, FreeExtent
<1>8. PagesAddUp /\ CounterCoversList
  BY <1>2, <1>3, <1>4 DEF PaInit, PagesAddUp, CounterCoversList
<1> QED BY <1>5, <1>6, <1>7, <1>8 DEF PageI

\* What the allocator keeps, with the conjunct about the blocks on their way
\* back that makes it inductive (mm.rs, `pg_dealloc`).
THEOREM PageInvariant == PageSpec => []PageI
<1>1. PaInit => PageI
  BY PageStart
<1>2. PageI /\ [PageNext]_paVars => PageI'
  <2> SUFFICES ASSUME PageI, [PageNext]_paVars PROVE PageI'
    OBVIOUS
  <2>1. CASE UNCHANGED paVars
    <3>1. OnTheWay' = OnTheWay /\ InUse' = InUse
      BY <2>1 DEF paVars, InUse, OnTheWay
    <3>2. PageTypes' /\ ReturnsOne'
      BY <2>1 DEF paVars, PageI, PageTypes, ReturnsOne
    <3>3. NoPageTwice'
      BY <2>1, <3>1 DEF paVars, PageI, NoPageTwice, FreeExtent
    <3>4. PagesAddUp' /\ CounterCoversList'
      BY <2>1, <3>1 DEF paVars, PageI, PagesAddUp, CounterCoversList
    <3> QED BY <3>2, <3>3, <3>4 DEF PageI
  <2>2. ASSUME NEW t \in PaThread, NEW bytes \in Request, pg_alloc(t, bytes) PROVE PageI'
    BY <2>2, AllocStep
  <2>3. ASSUME NEW t \in PaThread, NEW b \in owned, pg_dealloc(t, b) PROVE PageI'
    BY <2>3, DeallocStep
  <2>4. ASSUME NEW t \in PaThread, NEW b \in freeing[t], Release(t, b) PROVE PageI'
    BY <2>4, ReleaseStep
  <2> QED BY <2>1, <2>2, <2>3, <2>4 DEF PageNext
<1> QED BY <1>1, <1>2, PTL DEF PageSpec

(* Pages are conserved: on any number of processors and for any boot map    *)
(* whose extents do not overlap, no page is ever in two places, none        *)
(* disappears except into lost_size, and free_pages covers the free list    *)
(* and never wraps around (mm.rs, `pg_alloc`, `pg_dealloc`, `try_merge`).   *)
THEOREM PagesAreConserved == PageSpec => []PagesConserved
<1>1. PageI => PagesConserved
  <2> SUFFICES ASSUME PageI PROVE PagesConserved
    OBVIOUS
  <2>1. PageTypes /\ ReturnsOne /\ NoPageTwice /\ PagesAddUp /\ CounterCoversList
    BY DEF PageI
  <2>2. TotalSize(mem_list) \in Nat
    BY <2>1, ListCount DEF PageTypes
  <2>3. TotalPages(OnTheWay) \in Nat
    BY <2>1, UseFinite, BlocksCount
  <2>4. free_pages \in Nat
    BY <2>1, <2>2, <2>3 DEF CounterCoversList, PageTypes
  <2> QED BY <2>1, <2>4 DEF PagesConserved, PaTypeOK, PageTypes, Pair
<1> QED BY <1>1, PageInvariant, PTL

-----------------------------------------------------------------------------
(* The tree of tables *)

\* The entries on the way to a page.
LEMMA PteIs ==
    ASSUME NEW v \in PgSpace
    PROVE  /\ PteOf(1, v) = <<1, v>> /\ PteOf(2, v) = <<2, v \div 2>>
           /\ PteOf(3, v) = <<3, v \div 4>> /\ PteOf(4, v) = <<4, v \div 8>>
           /\ \A l \in 1..4 : PteOf(l, v) \in Entries
<1>1. v \div 1 = v
  BY DEF PgSpace, Area
<1>2. Span[1] = 1 /\ Span[2] = 2 /\ Span[3] = 4 /\ Span[4] = 8
  BY DEF Span, Area
<1> QED BY <1>1, <1>2 DEF PteOf, Entries

\* Two pages share an entry of a level only with all entries above it.
LEMMA PteShared ==
    ASSUME NEW u \in PgSpace, NEW v \in PgSpace
    PROVE  /\ PteOf(1, u) = PteOf(1, v) <=> u = v
           /\ u = v => PteOf(2, u) = PteOf(2, v)
           /\ PteOf(2, u) = PteOf(2, v) => PteOf(3, u) = PteOf(3, v)
           /\ PteOf(3, u) = PteOf(3, v) => PteOf(4, u) = PteOf(4, v)
           /\ PteOf(2, u) = PteOf(2, v) <=> u \div 2 = v \div 2
           /\ \A k, l \in 1..4 : k # l => PteOf(k, u) # PteOf(l, v)
<1>1. u \div 2 = v \div 2 => u \div 4 = v \div 4
  BY DEF PgSpace, Area
<1>2. u \div 4 = v \div 4 => u \div 8 = v \div 8
  BY DEF PgSpace, Area
<1>3. \A k, l \in 1..4 : k # l => PteOf(k, u) # PteOf(l, v)
  BY DEF PteOf
<1> QED BY <1>1, <1>2, <1>3, PteIs

Pte == [present : BOOLEAN, large : BOOLEAN, frame : Int, write : BOOLEAN, exec : BOOLEAN]

\* What the tables keep on the way to page v: each table is in the one above it
\* and may write, only large pages of the direct map end at level 2, and what
\* may be executed may be by all tables above.
WayOK(p, v) ==
    LET a == p[PteOf(1, v)]
        b == p[PteOf(2, v)]
        c == p[PteOf(3, v)]
        d == p[PteOf(4, v)]
    IN /\ a.large = FALSE /\ c.large = FALSE /\ d.large = FALSE
       /\ b.large = TRUE => b.present = TRUE /\ v \div Area = DIRECT
       /\ a.present = TRUE => b.present = TRUE
       /\ b.present = TRUE => c.present = TRUE
       /\ c.present = TRUE => d.present = TRUE
       /\ b.present = TRUE /\ b.large = FALSE => b.write = TRUE
       /\ c.present = TRUE => c.write = TRUE
       /\ d.present = TRUE => d.write = TRUE
       /\ b.large = TRUE /\ b.exec = TRUE => c.exec = TRUE /\ d.exec = TRUE
       /\ b.large = FALSE /\ a.present = TRUE /\ a.exec = TRUE => b.exec = TRUE /\ c.exec = TRUE /\ d.exec = TRUE

Tree(p) == p \in [Entries -> Pte] /\ \A v \in PgSpace : WayOK(p, v)

\* A table that is opened, or whose rights are added to.
OpenedAt(p, q, e, x) ==
    /\ q[e].present = TRUE /\ q[e].write = TRUE /\ q[e].large = FALSE
    /\ q[e].exec = TRUE <=> x = TRUE \/ (p[e].present = TRUE /\ p[e].exec = TRUE)

\* What one page of a mapping does to the tables.
SmallMapped(p, q, va, ent, x) ==
    /\ q \in [Entries -> Pte]
    /\ q[PteOf(1, va)] = ent /\ \A u \in PgSpace \ {va} : q[PteOf(1, u)] = p[PteOf(1, u)]
    /\ \A l \in 2..4 : /\ OpenedAt(p, q, PteOf(l, va), x)
                       /\ \A u \in PgSpace : PteOf(l, u) # PteOf(l, va) => q[PteOf(l, u)] = p[PteOf(l, u)]

LargeMapped(p, q, va, ent, x) ==
    /\ q \in [Entries -> Pte]
    /\ \A u \in PgSpace : q[PteOf(1, u)] = p[PteOf(1, u)]
    /\ q[PteOf(2, va)] = ent
    /\ \A l \in 3..4 : OpenedAt(p, q, PteOf(l, va), x)
    /\ \A l \in 2..4 : \A u \in PgSpace : PteOf(l, u) # PteOf(l, va) => q[PteOf(l, u)] = p[PteOf(l, u)]

\* How an entry changes when its table is opened or added to.
Grows(e, f) == /\ f.present = TRUE /\ f.write = TRUE /\ f.large = FALSE
               /\ e.present = TRUE /\ e.exec = TRUE => f.exec = TRUE

\* The way to a page whose last entry stays: tables grow from the top down.
LEMMA WayGrows ==
    ASSUME NEW p, NEW q, Tree(p), q \in [Entries -> Pte], NEW u \in PgSpace,
           q[PteOf(1, u)] = p[PteOf(1, u)],
           \/ q[PteOf(2, u)] = p[PteOf(2, u)]
           \/ /\ p[PteOf(2, u)].large = FALSE /\ Grows(p[PteOf(2, u)], q[PteOf(2, u)])
              /\ Grows(p[PteOf(3, u)], q[PteOf(3, u)]),
           \/ q[PteOf(3, u)] = p[PteOf(3, u)]
           \/ Grows(p[PteOf(3, u)], q[PteOf(3, u)]) /\ Grows(p[PteOf(4, u)], q[PteOf(4, u)]),
           q[PteOf(4, u)] = p[PteOf(4, u)] \/ Grows(p[PteOf(4, u)], q[PteOf(4, u)])
    PROVE  WayOK(q, u)
<1>1. PICK a, b, c, d : a = p[PteOf(1, u)] /\ b = p[PteOf(2, u)] /\ c = p[PteOf(3, u)] /\ d = p[PteOf(4, u)]
  OBVIOUS
<1>2. PICK b1, c1, d1 : b1 = q[PteOf(2, u)] /\ c1 = q[PteOf(3, u)] /\ d1 = q[PteOf(4, u)]
  OBVIOUS
<1>3. a \in Pte /\ b \in Pte /\ c \in Pte /\ d \in Pte /\ b1 \in Pte /\ c1 \in Pte /\ d1 \in Pte
  BY <1>1, <1>2, PteIs DEF Tree
<1>4. WayOK(p, u)
  BY DEF Tree
<1>5. /\ b1 = b \/ (b.large = FALSE /\ Grows(b, b1) /\ Grows(c, c1))
      /\ c1 = c \/ (Grows(c, c1) /\ Grows(d, d1))
      /\ d1 = d \/ Grows(d, d1)
      /\ a = q[PteOf(1, u)]
  BY <1>1, <1>2
<1> QED BY <1>1, <1>2, <1>3, <1>4, <1>5 DEF WayOK, Pte, Grows

LEMMA SmallKeepsTree ==
    ASSUME NEW p, NEW q, Tree(p), NEW va \in PgSpace, NEW ent \in Pte, NEW x \in BOOLEAN, SmallMapped(p, q, va, ent, x),
           ent.exec = x, ent.large = FALSE, p[PteOf(2, va)].large = FALSE
    PROVE  Tree(q)
<1> SUFFICES ASSUME NEW u \in PgSpace PROVE WayOK(q, u)
  BY DEF Tree, SmallMapped
<1>1. CASE u = va
  <2>1. PICK a1, b1, c1, d1 : a1 = q[PteOf(1, u)] /\ b1 = q[PteOf(2, u)] /\ c1 = q[PteOf(3, u)] /\ d1 = q[PteOf(4, u)]
    OBVIOUS
  <2>2. a1 = ent
    BY <1>1, <2>1 DEF SmallMapped
  <2>3. /\ b1.present = TRUE /\ b1.write = TRUE /\ b1.large = FALSE /\ (x = TRUE => b1.exec = TRUE)
        /\ c1.present = TRUE /\ c1.write = TRUE /\ c1.large = FALSE /\ (x = TRUE => c1.exec = TRUE)
        /\ d1.present = TRUE /\ d1.write = TRUE /\ d1.large = FALSE /\ (x = TRUE => d1.exec = TRUE)
    BY <1>1, <2>1 DEF SmallMapped, OpenedAt
  <2> QED BY <2>1, <2>2, <2>3 DEF WayOK
<1>2. CASE u # va
  <2>1. \A l \in 2..4 : PteOf(l, u) = PteOf(l, va) => Grows(p[PteOf(l, u)], q[PteOf(l, u)])
    BY DEF SmallMapped, OpenedAt, Grows
  <2>2. \A l \in 2..4 : PteOf(l, u) # PteOf(l, va) => q[PteOf(l, u)] = p[PteOf(l, u)]
    BY DEF SmallMapped
  <2>3. q[PteOf(1, u)] = p[PteOf(1, u)] /\ q \in [Entries -> Pte]
    BY <1>2 DEF SmallMapped
  <2>4. /\ PteOf(2, u) = PteOf(2, va) => PteOf(3, u) = PteOf(3, va)
        /\ PteOf(3, u) = PteOf(3, va) => PteOf(4, u) = PteOf(4, va)
    BY PteShared
  <2>5. \/ q[PteOf(2, u)] = p[PteOf(2, u)]
        \/ /\ p[PteOf(2, u)].large = FALSE /\ Grows(p[PteOf(2, u)], q[PteOf(2, u)])
           /\ Grows(p[PteOf(3, u)], q[PteOf(3, u)])
    BY <2>1, <2>2, <2>4
  <2>6. \/ q[PteOf(3, u)] = p[PteOf(3, u)]
        \/ Grows(p[PteOf(3, u)], q[PteOf(3, u)]) /\ Grows(p[PteOf(4, u)], q[PteOf(4, u)])
    BY <2>1, <2>2, <2>4
  <2>7. q[PteOf(4, u)] = p[PteOf(4, u)] \/ Grows(p[PteOf(4, u)], q[PteOf(4, u)])
    BY <2>1, <2>2
  <2> QED BY <2>3, <2>5, <2>6, <2>7, WayGrows
<1> QED BY <1>1, <1>2

LEMMA LargeKeepsTree ==
    ASSUME NEW p, NEW q, Tree(p), NEW va \in PgSpace, NEW ent \in Pte, LargeMapped(p, q, va, ent, FALSE),
           ent.present = TRUE, ent.exec = FALSE, ent.large = TRUE, va \div Area = DIRECT
    PROVE  Tree(q)
<1> SUFFICES ASSUME NEW u \in PgSpace PROVE WayOK(q, u)
  BY DEF Tree, LargeMapped
<1>1. CASE PteOf(2, u) = PteOf(2, va)
  <2>1. PICK a1, b1, c1, d1 : a1 = q[PteOf(1, u)] /\ b1 = q[PteOf(2, u)] /\ c1 = q[PteOf(3, u)] /\ d1 = q[PteOf(4, u)]
    OBVIOUS
  <2>2. b1 = ent /\ a1 = p[PteOf(1, u)]
    BY <1>1, <2>1 DEF LargeMapped
  <2>3. PteOf(3, u) = PteOf(3, va) /\ PteOf(4, u) = PteOf(4, va) /\ u \div 2 = va \div 2
    BY <1>1, PteShared
  <2>4. /\ c1.present = TRUE /\ c1.write = TRUE /\ c1.large = FALSE
        /\ d1.present = TRUE /\ d1.write = TRUE /\ d1.large = FALSE
    BY <2>1, <2>3 DEF LargeMapped, OpenedAt
  <2>5. u \div Area = DIRECT
    BY <2>3 DEF Area, DIRECT, PgSpace
  <2>6. p[PteOf(1, u)].large = FALSE
    BY DEF Tree, WayOK
  <2> QED BY <2>1, <2>2, <2>4, <2>5, <2>6 DEF WayOK
<1>2. CASE PteOf(2, u) # PteOf(2, va)
  <2>1. \A l \in 3..4 : PteOf(l, u) = PteOf(l, va) => Grows(p[PteOf(l, u)], q[PteOf(l, u)])
    BY DEF LargeMapped, OpenedAt, Grows
  <2>2. \A l \in 2..4 : PteOf(l, u) # PteOf(l, va) => q[PteOf(l, u)] = p[PteOf(l, u)]
    BY DEF LargeMapped
  <2>3. q[PteOf(1, u)] = p[PteOf(1, u)] /\ q \in [Entries -> Pte]
    BY DEF LargeMapped
  <2>4. PteOf(3, u) = PteOf(3, va) => PteOf(4, u) = PteOf(4, va)
    BY PteShared
  <2>5. q[PteOf(2, u)] = p[PteOf(2, u)]
    BY <1>2, <2>2
  <2>6. \/ q[PteOf(3, u)] = p[PteOf(3, u)]
        \/ Grows(p[PteOf(3, u)], q[PteOf(3, u)]) /\ Grows(p[PteOf(4, u)], q[PteOf(4, u)])
    BY <2>1, <2>2, <2>4
  <2>7. q[PteOf(4, u)] = p[PteOf(4, u)] \/ Grows(p[PteOf(4, u)], q[PteOf(4, u)])
    BY <2>1, <2>2
  <2> QED BY <2>3, <2>5, <2>6, <2>7, WayGrows
<1> QED BY <1>1, <1>2

\* The entry that ends the way to a page.
LeafOf(p, v) == IF p[PteOf(2, v)].large = TRUE THEN p[PteOf(2, v)] ELSE p[PteOf(1, v)]

\* With such tables a page that is mapped has the rights of its last entry.
LEMMA WalkIs ==
    ASSUME NEW p, Tree(p), NEW v \in PgSpace
    PROVE  /\ LeafOf(p, v).present = TRUE =>
                  Walk(p, v) = [ok |-> TRUE,
                                frame |-> IF p[PteOf(2, v)].large = TRUE THEN LeafOf(p, v).frame + (v % Large)
                                          ELSE LeafOf(p, v).frame,
                                write |-> LeafOf(p, v).write, exec |-> LeafOf(p, v).exec]
           /\ LeafOf(p, v).present = FALSE => Walk(p, v).ok = FALSE
           /\ LeafOf(p, v) \in Pte
<1>1. PICK a, b, c, d : a = p[PteOf(1, v)] /\ b = p[PteOf(2, v)] /\ c = p[PteOf(3, v)] /\ d = p[PteOf(4, v)]
  OBVIOUS
<1>2. a \in Pte /\ b \in Pte /\ c \in Pte /\ d \in Pte
  BY <1>1, PteIs DEF Tree
<1>3. /\ a.large = FALSE /\ c.large = FALSE /\ d.large = FALSE
      /\ b.large = TRUE => b.present = TRUE
      /\ a.present = TRUE => b.present = TRUE
      /\ b.present = TRUE => c.present = TRUE
      /\ c.present = TRUE => d.present = TRUE
      /\ b.present = TRUE /\ b.large = FALSE => b.write = TRUE
      /\ c.present = TRUE => c.write = TRUE
      /\ d.present = TRUE => d.write = TRUE
      /\ b.large = TRUE /\ b.exec = TRUE => c.exec = TRUE /\ d.exec = TRUE
      /\ b.large = FALSE /\ a.present = TRUE /\ a.exec = TRUE => b.exec = TRUE /\ c.exec = TRUE /\ d.exec = TRUE
  BY <1>1 DEF Tree, WayOK
<1>4. CASE b.large = TRUE
  <2>1. {p[PteOf(l, v)] : l \in 2..4} = {b, c, d}
    <3>1. 2..4 = {2, 3, 4}
      OBVIOUS
    <3> QED BY <1>1, <3>1
  <2>2. Walk(p, v) = [ok |-> \A e \in {b, c, d} : e.present, frame |-> b.frame + (v % Large),
                      write |-> \A e \in {b, c, d} : e.write, exec |-> \A e \in {b, c, d} : e.exec]
    BY <1>1, <1>4, <2>1 DEF Walk
  <2>3. (\A e \in {b, c, d} : e.present) = TRUE
    BY <1>2, <1>3, <1>4
  <2>4. (\A e \in {b, c, d} : e.write) = b.write
    BY <1>2, <1>3, <1>4 DEF Pte
  <2>5. (\A e \in {b, c, d} : e.exec) = b.exec
    BY <1>2, <1>3, <1>4 DEF Pte
  <2>6. Walk(p, v) = [ok |-> TRUE, frame |-> b.frame + (v % Large), write |-> b.write, exec |-> b.exec]
    BY <2>2, <2>3, <2>4, <2>5
  <2>7. LeafOf(p, v) = b /\ b.present = TRUE
    BY <1>1, <1>3, <1>4 DEF LeafOf
  <2> QED BY <1>1, <1>2, <1>4, <2>6, <2>7
<1>5. CASE b.large = FALSE
  <2>1. {p[PteOf(l, v)] : l \in 1..4} = {a, b, c, d}
    <3>1. 1..4 = {1, 2, 3, 4}
      OBVIOUS
    <3> QED BY <1>1, <3>1
  <2>2. Walk(p, v) = [ok |-> \A e \in {a, b, c, d} : e.present, frame |-> a.frame,
                      write |-> \A e \in {a, b, c, d} : e.write, exec |-> \A e \in {a, b, c, d} : e.exec]
    BY <1>1, <1>5, <2>1 DEF Walk
  <2>3. (\A e \in {a, b, c, d} : e.present) = a.present
    BY <1>2, <1>3, <1>5 DEF Pte
  <2>4. a.present = TRUE => (\A e \in {a, b, c, d} : e.write) = a.write
    BY <1>2, <1>3, <1>5 DEF Pte
  <2>5. a.present = TRUE => (\A e \in {a, b, c, d} : e.exec) = a.exec
    BY <1>2, <1>3, <1>5 DEF Pte
  <2>6. a.present = FALSE => Walk(p, v).ok = FALSE
    <3> HAVE a.present = FALSE
    <3>1. (\A e \in {a, b, c, d} : e.present) = FALSE
      BY <2>3
    <3> QED BY <2>2, <3>1
  <2>7. a.present = TRUE => Walk(p, v) = [ok |-> TRUE, frame |-> a.frame, write |-> a.write, exec |-> a.exec]
    <3> HAVE a.present = TRUE
    <3>1. (\A e \in {a, b, c, d} : e.present) = TRUE
      BY <2>3
    <3> QED BY <2>2, <3>1, <2>4, <2>5
  <2>8. LeafOf(p, v) = a
    BY <1>1, <1>5 DEF LeafOf
  <2> QED BY <1>1, <1>2, <1>5, <2>6, <2>7, <2>8 DEF Pte
<1> QED BY <1>2, <1>4, <1>5 DEF Pte

\* The pages outside S lead where they did.
Elsewhere(p, q, S) ==
    \A u \in PgSpace \ S : LeafOf(q, u) = LeafOf(p, u) /\ (LeafOf(p, u).present = TRUE => Walk(q, u) = Walk(p, u))

\* Page u leads to entry new, of a small or of a large page.
LeadsTo(q, u, ent) == u \in PgSpace /\ LeafOf(q, u) = ent /\ q[PteOf(2, u)].large = ent.large

SmallStep(p, q, va, ent, x) ==
    /\ SmallMapped(p, q, va, ent, x) /\ x \in BOOLEAN /\ va \in PgSpace /\ ent \in Pte
    /\ ent.exec = x /\ ent.large = FALSE /\ p[PteOf(2, va)].large = FALSE

LargeStep(p, q, va, ent) ==
    /\ LargeMapped(p, q, va, ent, FALSE) /\ va \in PgSpace /\ va \div Area = DIRECT /\ va % 2 = 0 /\ ent \in Pte
    /\ ent.present = TRUE /\ ent.exec = FALSE /\ ent.large = TRUE

\* A small page that is mapped leads to the new entry, and the others lead
\* where they did.
LEMMA SmallWalks ==
    ASSUME NEW p, NEW q, NEW va, NEW ent, NEW x, Tree(p), SmallStep(p, q, va, ent, x)
    PROVE  Tree(q) /\ LeadsTo(q, va, ent) /\ Elsewhere(p, q, {va})
<1>0. /\ SmallMapped(p, q, va, ent, x) /\ x \in BOOLEAN /\ va \in PgSpace /\ ent \in Pte
      /\ ent.exec = x /\ ent.large = FALSE /\ p[PteOf(2, va)].large = FALSE
  BY DEF SmallStep
<1>1. Tree(q)
  BY <1>0, SmallKeepsTree
<1>2. LeafOf(q, va) = ent /\ q[PteOf(2, va)].large = FALSE
  BY <1>0 DEF SmallMapped, OpenedAt, LeafOf
<1>3. ASSUME NEW u \in PgSpace \ {va}
      PROVE  LeafOf(q, u) = LeafOf(p, u) /\ (LeafOf(p, u).present = TRUE => Walk(q, u) = Walk(p, u))
  <2>1. q[PteOf(1, u)] = p[PteOf(1, u)]
    BY <1>0 DEF SmallMapped
  <2>2. CASE PteOf(2, u) = PteOf(2, va)
    <3>1. q[PteOf(2, u)].large = FALSE /\ p[PteOf(2, u)].large = FALSE
      BY <1>0, <1>2, <2>2
    <3>2. LeafOf(q, u) = LeafOf(p, u)
      BY <2>1, <3>1 DEF LeafOf
    <3> QED BY <1>1, <3>1, <3>2, WalkIs
  <2>3. CASE PteOf(2, u) # PteOf(2, va)
    <3>1. q[PteOf(2, u)] = p[PteOf(2, u)]
      BY <1>0, <2>3 DEF SmallMapped
    <3>2. LeafOf(q, u) = LeafOf(p, u)
      BY <2>1, <3>1 DEF LeafOf
    <3> QED BY <1>1, <3>1, <3>2, WalkIs
  <2> QED BY <2>2, <2>3
<1> QED BY <1>0, <1>1, <1>2, <1>3 DEF LeadsTo, Elsewhere

\* The same for a large page.
LEMMA LargeWalks ==
    ASSUME NEW p, NEW q, NEW va, NEW ent, Tree(p), LargeStep(p, q, va, ent)
    PROVE  Tree(q) /\ (\A u \in va..(va + 1) : LeadsTo(q, u, ent)) /\ Elsewhere(p, q, va..(va + 1))
<1>0. /\ LargeMapped(p, q, va, ent, FALSE) /\ va \in PgSpace /\ va \div Area = DIRECT /\ va % 2 = 0 /\ ent \in Pte
      /\ ent.present = TRUE /\ ent.exec = FALSE /\ ent.large = TRUE
  BY DEF LargeStep
<1>1. Tree(q)
  BY <1>0, LargeKeepsTree
<1>2. ASSUME NEW u \in va..(va + 1)
      PROVE  u \in PgSpace /\ LeafOf(q, u) = ent /\ q[PteOf(2, u)].large = TRUE
  <2>1. u \in PgSpace /\ u \div 2 = va \div 2
    BY <1>0 DEF PgSpace, Area
  <2>2. PteOf(2, u) = PteOf(2, va)
    BY <1>0, <2>1, PteShared
  <2> QED BY <1>0, <2>1, <2>2 DEF LargeMapped, LeafOf
<1>3. ASSUME NEW u \in PgSpace \ (va..(va + 1))
      PROVE  LeafOf(q, u) = LeafOf(p, u) /\ (LeafOf(p, u).present = TRUE => Walk(q, u) = Walk(p, u))
  <2>1. u \div 2 # va \div 2
    BY <1>0 DEF PgSpace, Area
  <2>2. q[PteOf(2, u)] = p[PteOf(2, u)] /\ q[PteOf(1, u)] = p[PteOf(1, u)]
    BY <1>0, <2>1, PteShared DEF LargeMapped
  <2>3. LeafOf(q, u) = LeafOf(p, u)
    BY <2>2 DEF LeafOf
  <2> QED BY <1>1, <2>2, <2>3, WalkIs
<1>4. ASSUME NEW u \in va..(va + 1) PROVE LeadsTo(q, u, ent)
  <2>1. u \in PgSpace /\ LeafOf(q, u) = ent /\ q[PteOf(2, u)].large = TRUE
    BY <1>2
  <2> QED BY <1>0, <2>1 DEF LeadsTo
<1>5. Elsewhere(p, q, va..(va + 1))
  BY <1>3 DEF Elsewhere
<1> QED BY <1>1, <1>4, <1>5

\* Rights are only ever added to a table.
LEMMA AcceptIs ==
    ASSUME NEW old \in Pte, NEW x \in BOOLEAN
    PROVE  /\ Accept(old, TRUE, x) \in Pte
           /\ Accept(old, TRUE, x).present = old.present /\ Accept(old, TRUE, x).large = old.large
           /\ Accept(old, TRUE, x).write = TRUE
           /\ Accept(old, TRUE, x).exec = TRUE <=> old.exec = TRUE \/ x = TRUE
<1>1. (old.write \/ TRUE) = TRUE
  OBVIOUS
<1>2. PICK y \in BOOLEAN : y = (old.exec \/ x)
  OBVIOUS
<1>3. Accept(old, TRUE, x) = [old EXCEPT !.write = TRUE, !.exec = y]
  BY <1>1, <1>2 DEF Accept
<1>4. old.exec \in BOOLEAN
  BY DEF Pte
<1>5. y = TRUE <=> old.exec = TRUE \/ x = TRUE
  BY <1>2, <1>4
<1> QED BY <1>3, <1>5 DEF Pte

\* _map_table_if_needed for one level.
Opens(p, q, e, l, va, x) ==
    /\ p \in [Entries -> Pte] /\ l \in 2..4 /\ va \in PgSpace /\ x \in BOOLEAN
    /\ e = PteOf(l, va) /\ p[e].large = FALSE /\ q = Opened(p, l, va, x)

LEMMA OpenedIs ==
    ASSUME NEW p, NEW q, NEW e, NEW l, NEW va, NEW x, Opens(p, q, e, l, va, x)
    PROVE  /\ q \in [Entries -> Pte] /\ OpenedAt(p, q, e, x)
           /\ \A f \in Entries \ {e} : q[f] = p[f]
<1>0. /\ p \in [Entries -> Pte] /\ l \in 2..4 /\ va \in PgSpace /\ x \in BOOLEAN
      /\ e = PteOf(l, va) /\ p[e].large = FALSE /\ q = Opened(p, l, va, x)
  BY DEF Opens
<1>1. e \in Entries
  BY <1>0, PteIs
<1>2. PICK old \in Pte : old = p[e]
  BY <1>0, <1>1
<1>3. CASE old.present = TRUE
  <2>1. PICK f : f = Accept(old, TRUE, x)
    OBVIOUS
  <2>2. f \in Pte /\ f.present = TRUE /\ f.large = old.large /\ f.write = TRUE /\ (f.exec = TRUE <=> old.exec = TRUE \/ x = TRUE)
    BY <1>0, <1>3, <2>1, AcceptIs
  <2>3. q = [p EXCEPT ![e] = f]
    BY <1>0, <1>1, <1>2, <1>3, <2>1 DEF Opened
  <2> QED BY <1>0, <1>1, <1>2, <1>3, <2>2, <2>3 DEF OpenedAt
<1>4. CASE old.present = FALSE
  <2>1. PICK f : f = [present |-> TRUE, large |-> FALSE, frame |-> 0, write |-> TRUE, exec |-> x]
    OBVIOUS
  <2>2. f \in Pte /\ f.present = TRUE /\ f.large = FALSE /\ f.write = TRUE /\ f.exec = x
    BY <1>0, <2>1 DEF Pte
  <2>3. q = [p EXCEPT ![e] = f]
    BY <1>0, <1>1, <1>2, <1>4, <2>1 DEF Opened
  <2> QED BY <1>0, <1>1, <1>2, <1>4, <2>2, <2>3 DEF OpenedAt
<1> QED BY <1>3, <1>4 DEF Pte

\* The tables of a small page, then its entry.
LEMMA SmallTables ==
    ASSUME Tree(pgPte), NEW va \in PgSpace, NEW x \in BOOLEAN, NEW ent \in Pte, NEW q,
           pgPte[PteOf(2, va)].large = FALSE, q = [Tables(va, 2, x) EXCEPT ![PteOf(1, va)] = ent]
    PROVE  SmallMapped(pgPte, q, va, ent, x)
<1>0. PICK l2, l3, l4 : l2 = 2 /\ l3 = 3 /\ l4 = 4 /\ l2 \in 2..4 /\ l3 \in 2..4 /\ l4 \in 2..4
  OBVIOUS
<1>1. PICK four, three, two : four = Opened(pgPte, 4, va, x) /\ three = Opened(four, 3, va, x) /\ two = Opened(three, 2, va, x)
  OBVIOUS
<1>2. PICK a, b, c, d : a = PteOf(1, va) /\ b = PteOf(2, va) /\ c = PteOf(3, va) /\ d = PteOf(4, va)
  OBVIOUS
<1>3. /\ a \in Entries /\ b \in Entries /\ c \in Entries /\ d \in Entries
      /\ a # b /\ a # c /\ a # d /\ b # c /\ b # d /\ c # d
  BY <1>2, PteIs, PteShared
<1>4. pgPte \in [Entries -> Pte] /\ pgPte[b].large = FALSE /\ pgPte[c].large = FALSE /\ pgPte[d].large = FALSE
  BY <1>2 DEF Tree, WayOK
<1>5. four \in [Entries -> Pte] /\ OpenedAt(pgPte, four, d, x) /\ \A e \in Entries \ {d} : four[e] = pgPte[e]
  <2>1. four = Opened(pgPte, l4, va, x) /\ d = PteOf(l4, va)
    BY <1>0, <1>1, <1>2
  <2>2. pgPte \in [Entries -> Pte] /\ pgPte[d].large = FALSE
    BY <1>4
  <2>3. Opens(pgPte, four, d, l4, va, x)
    BY <1>0, <2>1, <2>2 DEF Opens
  <2> QED BY <2>3, OpenedIs
<1>6. three \in [Entries -> Pte] /\ OpenedAt(four, three, c, x) /\ \A e \in Entries \ {c} : three[e] = four[e]
  <2>1. three = Opened(four, l3, va, x) /\ c = PteOf(l3, va)
    BY <1>0, <1>1, <1>2
  <2>2. four \in [Entries -> Pte] /\ four[c].large = FALSE
    BY <1>3, <1>4, <1>5
  <2>3. Opens(four, three, c, l3, va, x)
    BY <1>0, <2>1, <2>2 DEF Opens
  <2> QED BY <2>3, OpenedIs
<1>7. two \in [Entries -> Pte] /\ OpenedAt(three, two, b, x) /\ \A e \in Entries \ {b} : two[e] = three[e]
  <2>1. two = Opened(three, l2, va, x) /\ b = PteOf(l2, va)
    BY <1>0, <1>1, <1>2
  <2>2. three \in [Entries -> Pte] /\ three[b].large = FALSE
    BY <1>3, <1>4, <1>5, <1>6
  <2>3. Opens(three, two, b, l2, va, x)
    BY <1>0, <2>1, <2>2 DEF Opens
  <2> QED BY <2>3, OpenedIs
<1>8. q = [two EXCEPT ![a] = ent]
  BY <1>1, <1>2 DEF Tables
<1>9. q \in [Entries -> Pte] /\ q[a] = ent /\ \A e \in Entries \ {a, b, c, d} : q[e] = pgPte[e]
  BY <1>3, <1>5, <1>6, <1>7, <1>8
<1>10. q[b] = two[b] /\ q[c] = three[c] /\ q[d] = four[d] /\ three[b] = pgPte[b] /\ four[c] = pgPte[c]
  BY <1>3, <1>5, <1>6, <1>7, <1>8
<1>11. OpenedAt(pgPte, q, b, x) /\ OpenedAt(pgPte, q, c, x) /\ OpenedAt(pgPte, q, d, x)
  BY <1>5, <1>6, <1>7, <1>10 DEF OpenedAt
<1>12. \A l \in 2..4 : OpenedAt(pgPte, q, PteOf(l, va), x)
  <2>1. 2..4 = {2, 3, 4}
    OBVIOUS
  <2> QED BY <1>2, <1>11, <2>1
<1>13. ASSUME NEW l \in 1..4, NEW u \in PgSpace, PteOf(l, u) # PteOf(l, va)
       PROVE  q[PteOf(l, u)] = pgPte[PteOf(l, u)]
  <2>1. PteOf(l, u) \in Entries /\ \A k \in 1..4 : PteOf(l, u) # PteOf(k, va)
    BY <1>13, PteIs, PteShared
  <2> QED BY <1>2, <1>9, <2>1
<1>14. \A u \in PgSpace \ {va} : q[PteOf(1, u)] = pgPte[PteOf(1, u)]
  BY <1>13, PteShared
<1> QED BY <1>2, <1>9, <1>12, <1>13, <1>14 DEF SmallMapped

\* The tables of a large page, then its entry.
LEMMA LargeTables ==
    ASSUME Tree(pgPte), NEW va \in PgSpace, NEW x \in BOOLEAN, NEW ent \in Pte, NEW q,
           q = [Tables(va, 3, x) EXCEPT ![PteOf(2, va)] = ent]
    PROVE  LargeMapped(pgPte, q, va, ent, x)
<1>0. PICK l3, l4 : l3 = 3 /\ l4 = 4 /\ l3 \in 2..4 /\ l4 \in 2..4
  OBVIOUS
<1>1. PICK four, three : four = Opened(pgPte, 4, va, x) /\ three = Opened(four, 3, va, x)
  OBVIOUS
<1>2. PICK b, c, d : b = PteOf(2, va) /\ c = PteOf(3, va) /\ d = PteOf(4, va)
  OBVIOUS
<1>3. b \in Entries /\ c \in Entries /\ d \in Entries /\ b # c /\ b # d /\ c # d
  BY <1>2, PteIs, PteShared
<1>4. pgPte \in [Entries -> Pte] /\ pgPte[c].large = FALSE /\ pgPte[d].large = FALSE
  BY <1>2 DEF Tree, WayOK
<1>5. four \in [Entries -> Pte] /\ OpenedAt(pgPte, four, d, x) /\ \A e \in Entries \ {d} : four[e] = pgPte[e]
  <2>1. four = Opened(pgPte, l4, va, x) /\ d = PteOf(l4, va)
    BY <1>0, <1>1, <1>2
  <2>2. pgPte \in [Entries -> Pte] /\ pgPte[d].large = FALSE
    BY <1>4
  <2>3. Opens(pgPte, four, d, l4, va, x)
    BY <1>0, <2>1, <2>2 DEF Opens
  <2> QED BY <2>3, OpenedIs
<1>6. three \in [Entries -> Pte] /\ OpenedAt(four, three, c, x) /\ \A e \in Entries \ {c} : three[e] = four[e]
  <2>1. three = Opened(four, l3, va, x) /\ c = PteOf(l3, va)
    BY <1>0, <1>1, <1>2
  <2>2. four \in [Entries -> Pte] /\ four[c].large = FALSE
    BY <1>3, <1>4, <1>5
  <2>3. Opens(four, three, c, l3, va, x)
    BY <1>0, <2>1, <2>2 DEF Opens
  <2> QED BY <2>3, OpenedIs
<1>7. q = [three EXCEPT ![b] = ent]
  BY <1>1, <1>2 DEF Tables
<1>8. q \in [Entries -> Pte] /\ q[b] = ent /\ \A e \in Entries \ {b, c, d} : q[e] = pgPte[e]
  BY <1>3, <1>5, <1>6, <1>7
<1>9. q[c] = three[c] /\ q[d] = four[d] /\ four[c] = pgPte[c]
  BY <1>3, <1>5, <1>6, <1>7
<1>10. OpenedAt(pgPte, q, c, x) /\ OpenedAt(pgPte, q, d, x)
  BY <1>5, <1>6, <1>9 DEF OpenedAt
<1>11. \A l \in 3..4 : OpenedAt(pgPte, q, PteOf(l, va), x)
  <2>1. 3..4 = {3, 4}
    OBVIOUS
  <2> QED BY <1>2, <1>10, <2>1
<1>12. ASSUME NEW l \in 1..4, NEW u \in PgSpace, PteOf(l, u) # PteOf(l, va) \/ l = 1
       PROVE  q[PteOf(l, u)] = pgPte[PteOf(l, u)]
  <2>1. PteOf(l, u) \in Entries /\ \A k \in 2..4 : PteOf(l, u) # PteOf(k, va)
    BY <1>12, PteIs, PteShared
  <2> QED BY <1>2, <1>8, <2>1
<1> QED BY <1>2, <1>8, <1>11, <1>12 DEF LargeMapped

\* _mprotect adds to the tables that are there.
LEMMA ProtectTables ==
    ASSUME Tree(pgPte), NEW va \in PgSpace, NEW x \in BOOLEAN, NEW ent \in Pte, NEW q,
           pgPte[PteOf(2, va)].large = FALSE,
           \A l \in 2..4 : pgPte[PteOf(l, va)].present = TRUE,
           q = [Accepted(va, 2..4, x) EXCEPT ![PteOf(1, va)] = ent]
    PROVE  SmallMapped(pgPte, q, va, ent, x)
<1>0. PICK way : way = {PteOf(l, va) : l \in 2..4}
  OBVIOUS
<1>w. q = [[e \in Entries |-> IF e \in way THEN Accept(pgPte[e], TRUE, x) ELSE pgPte[e]] EXCEPT ![PteOf(1, va)] = ent]
  BY <1>0 DEF Accepted
<1>1. PICK a : a = PteOf(1, va)
  OBVIOUS
<1>2. a \in Entries /\ a \notin way /\ way \subseteq Entries
  BY <1>0, <1>1, PteIs, PteShared
<1>3. pgPte \in [Entries -> Pte] /\ \A l \in 2..4 : pgPte[PteOf(l, va)].large = FALSE
  BY DEF Tree, WayOK
<1>4. \A e \in way : Accept(pgPte[e], TRUE, x) \in Pte
  BY <1>2, <1>3, AcceptIs
<1>5. /\ q \in [Entries -> Pte] /\ q[a] = ent
      /\ \A e \in way : q[e] = Accept(pgPte[e], TRUE, x)
      /\ \A e \in Entries \ (way \cup {a}) : q[e] = pgPte[e]
  BY <1>w, <1>1, <1>2, <1>3, <1>4
<1>6. ASSUME NEW l \in 2..4 PROVE OpenedAt(pgPte, q, PteOf(l, va), x)
  <2>1. PICK e \in way : e = PteOf(l, va)
    BY <1>0
  <2>2. pgPte[e] \in Pte /\ pgPte[e].present = TRUE /\ pgPte[e].large = FALSE
    BY <1>2, <1>3, <2>1
  <2>3. q[e] = Accept(pgPte[e], TRUE, x)
    BY <1>5
  <2>4. /\ q[e].present = TRUE /\ q[e].large = FALSE /\ q[e].write = TRUE
        /\ q[e].exec = TRUE <=> pgPte[e].exec = TRUE \/ x = TRUE
    <3>1. PICK old \in Pte : old = pgPte[e]
      BY <2>2
    <3>2. q[e] = Accept(old, TRUE, x) /\ old.present = TRUE /\ old.large = FALSE
      BY <2>2, <2>3, <3>1
    <3>3. /\ Accept(old, TRUE, x).present = TRUE /\ Accept(old, TRUE, x).large = FALSE
          /\ Accept(old, TRUE, x).write = TRUE
          /\ Accept(old, TRUE, x).exec = TRUE <=> old.exec = TRUE \/ x = TRUE
      BY <3>2, AcceptIs
    <3> QED BY <3>1, <3>2, <3>3
  <2>5. OpenedAt(pgPte, q, e, x)
    BY <2>2, <2>4 DEF OpenedAt
  <2> QED BY <2>1, <2>5
<1>7. ASSUME NEW l \in 1..4, NEW u \in PgSpace, PteOf(l, u) # PteOf(l, va)
      PROVE  q[PteOf(l, u)] = pgPte[PteOf(l, u)]
  <2>1. PteOf(l, u) \in Entries /\ \A k \in 1..4 : PteOf(l, u) # PteOf(k, va)
    BY <1>7, PteIs, PteShared
  <2> QED BY <1>0, <1>1, <1>5, <2>1
<1>8. \A u \in PgSpace \ {va} : q[PteOf(1, u)] = pgPte[PteOf(1, u)]
  BY <1>7, PteShared
<1> QED BY <1>1, <1>5, <1>6, <1>7, <1>8 DEF SmallMapped

-----------------------------------------------------------------------------
(* Requests *)

PgAttrs == {"None", "Read", "ReadWrite", "ReadExec"}

\* A request that mmap was given.
ReqOK(r) ==
    /\ r.t \in {"Mmio", "Framebuffer", "Kernel", "User", "MProtect"} /\ r.attr \in PgAttrs
    /\ r.va \in Nat /\ r.len \in Nat /\ r.frame \in Nat
    /\ r.t \in {"Mmio", "Framebuffer"} => r.frame + PgPages(r) <= Area
    /\ r.t = "MProtect" => r.va + r.len <= 4 * Area
                           /\ (r.va + r.len <= DIRECT * Area \/ r.va >= (DIRECT + 1) * Area)

\* The rights of a request.
LEMMA RwIs ==
    ASSUME NEW r, ReqOK(r)
    PROVE  /\ Rw(r).p \in BOOLEAN /\ Rw(r).w \in BOOLEAN /\ Rw(r).x \in BOOLEAN
           /\ r.t \in {"Mmio", "Framebuffer"} => Rw(r).p = TRUE /\ Rw(r).w = TRUE /\ Rw(r).x = FALSE
<1>1. CASE r.t \in {"Mmio", "Framebuffer"}
  <2>1. Rw(r) = [w |-> TRUE, x |-> FALSE, p |-> TRUE]
    BY <1>1 DEF Rw
  <2> QED BY <2>1
<1>2. CASE r.t \notin {"Mmio", "Framebuffer"}
  <2>1. Rw(r) = Rights(r.attr)
    BY <1>2 DEF Rw
  <2> QED BY <1>2, <2>1 DEF Rights
<1> QED BY <1>1, <1>2

\* Page v leads where request r wanted it to.
AskedAt(p, r, v) ==
    /\ v \in PgSpace
    /\ Rw(r).p = TRUE => /\ LeafOf(p, v).present = TRUE
                         /\ LeafOf(p, v).write = Rw(r).w /\ LeafOf(p, v).exec = Rw(r).x
                         /\ r.t \in {"Mmio", "Framebuffer"} => DirectMap(Walk(p, v).frame) = v

\* The page manager at work on request r, up to page d.va.
WorkOK(p, r, d) ==
    /\ d.va \in Int /\ d.frame \in Int /\ d.end \in Int
    /\ ReqOK(r) /\ r.len > 0 /\ PgStart(r) \in Nat /\ PgPages(r) > 0
    /\ d.end = PgStart(r) + PgPages(r) /\ d.end <= 4 * Area
    /\ PgStart(r) <= d.va /\ d.va <= d.end /\ (d.op # "map" => d.va = d.end)
    /\ r.t = "Framebuffer" => d.va % 2 = 0 /\ d.end % 2 = 0
    /\ r.t \in {"Mmio", "Framebuffer"} => DirectMap(d.frame) = d.va
    /\ r.t = "MProtect" => \A v \in r.va..(r.va + r.len - 1), l \in 2..4 : p[PteOf(l, v)].present = TRUE
    /\ \A v \in PgStart(r)..(d.va - 1) : AskedAt(p, r, v)

\* What the tables of page d.va become.
PageMapped(p, q, r, d) ==
    /\ Tree(q)
    /\ \A u \in d.va..(d.va + PgSize(r) - 1) : AskedAt(q, r, u)
    /\ Elsewhere(p, q, d.va..(d.va + PgSize(r) - 1))
    /\ \A l \in 2..4, u \in PgSpace : p[PteOf(l, u)].present = TRUE => q[PteOf(l, u)].present = TRUE

\* Tables stay where they are.
LEMMA SmallKeepsTables ==
    ASSUME NEW p, NEW q, NEW va, NEW ent, NEW x, SmallStep(p, q, va, ent, x), NEW l \in 2..4, NEW u \in PgSpace,
           p[PteOf(l, u)].present = TRUE
    PROVE  q[PteOf(l, u)].present = TRUE
<1>1. SmallMapped(p, q, va, ent, x) /\ va \in PgSpace
  BY DEF SmallStep
<1>2. CASE PteOf(l, u) = PteOf(l, va)
  <2>1. OpenedAt(p, q, PteOf(l, va), x)
    BY <1>1 DEF SmallMapped
  <2> QED BY <1>2, <2>1 DEF OpenedAt
<1>3. CASE PteOf(l, u) # PteOf(l, va)
  <2>1. q[PteOf(l, u)] = p[PteOf(l, u)]
    BY <1>1, <1>3 DEF SmallMapped
  <2> QED BY <2>1
<1> QED BY <1>2, <1>3

LEMMA LargeKeepsTables ==
    ASSUME NEW p, NEW q, NEW va, NEW ent, LargeStep(p, q, va, ent), NEW l \in 2..4, NEW u \in PgSpace,
           p[PteOf(l, u)].present = TRUE
    PROVE  q[PteOf(l, u)].present = TRUE
<1>1. LargeMapped(p, q, va, ent, FALSE) /\ va \in PgSpace /\ ent.present = TRUE
  BY DEF LargeStep
<1>2. CASE PteOf(l, u) = PteOf(l, va)
  <2>1. CASE l = 2
    BY <1>1, <1>2, <2>1 DEF LargeMapped
  <2>2. CASE l \in 3..4
    <3>1. OpenedAt(p, q, PteOf(l, va), FALSE)
      BY <1>1, <2>2 DEF LargeMapped
    <3> QED BY <1>2, <3>1 DEF OpenedAt
  <2>3. l = 2 \/ l \in 3..4
    OBVIOUS
  <2> QED BY <2>1, <2>2, <2>3
<1>3. CASE PteOf(l, u) # PteOf(l, va)
  <2>1. q[PteOf(l, u)] = p[PteOf(l, u)]
    BY <1>1, <1>3 DEF LargeMapped
  <2> QED BY <2>1
<1> QED BY <1>2, <1>3

\* A small page, as asked for.
LEMMA SmallPage ==
    ASSUME NEW p, NEW q, NEW r, NEW d, NEW ent, Tree(p), WorkOK(p, r, d), r.t # "Framebuffer",
           SmallStep(p, q, d.va, ent, Rw(r).x), ent.present = Rw(r).p, ent.write = Rw(r).w,
           r.t # "MProtect" => ent.frame = d.frame
    PROVE  PageMapped(p, q, r, d)
<1>1. ent \in Pte /\ ent.exec = Rw(r).x /\ ent.large = FALSE /\ d.va \in PgSpace
  BY DEF SmallStep
<1>2. Tree(q) /\ LeadsTo(q, d.va, ent) /\ Elsewhere(p, q, {d.va})
  BY SmallWalks
<1>3. d.va..(d.va + PgSize(r) - 1) = {d.va}
  <2>1. PgSize(r) = 1 /\ d.va \in Int
    BY DEF PgSize, WorkOK
  <2> QED BY <2>1
<1>4. LeafOf(q, d.va) = ent /\ q[PteOf(2, d.va)].large = FALSE
  BY <1>1, <1>2 DEF LeadsTo
<1>5. AskedAt(q, r, d.va)
  <2>1. ASSUME Rw(r).p = TRUE, r.t \in {"Mmio", "Framebuffer"} PROVE DirectMap(Walk(q, d.va).frame) = d.va
    <3>1. ent.present = TRUE
      BY <2>1
    <3>2. Walk(q, d.va) = [ok |-> TRUE, frame |-> ent.frame, write |-> ent.write, exec |-> ent.exec]
      BY <1>1, <1>2, <1>4, <3>1, WalkIs
    <3>3. ent.frame = d.frame /\ DirectMap(d.frame) = d.va
      BY <2>1 DEF WorkOK
    <3> QED BY <3>2, <3>3
  <2> QED BY <1>1, <1>4, <2>1 DEF AskedAt
<1>6. ASSUME NEW l \in 2..4, NEW u \in PgSpace, p[PteOf(l, u)].present = TRUE PROVE q[PteOf(l, u)].present = TRUE
  BY <1>6, SmallKeepsTables
<1> QED BY <1>2, <1>3, <1>5, <1>6 DEF PageMapped

\* A large page, as asked for.
LEMMA LargePage ==
    ASSUME NEW p, NEW q, NEW r, NEW d, NEW ent, Tree(p), WorkOK(p, r, d), r.t = "Framebuffer",
           LargeStep(p, q, d.va, ent), ent.write = TRUE, ent.frame = d.frame
    PROVE  PageMapped(p, q, r, d)
<1>0. Rw(r).x = FALSE /\ Rw(r).p = TRUE /\ Rw(r).w = TRUE
  BY RwIs DEF WorkOK
<1>1. /\ ent \in Pte /\ ent.exec = FALSE /\ ent.large = TRUE /\ ent.present = TRUE /\ d.va \in PgSpace
      /\ d.va % 2 = 0
  BY DEF LargeStep
<1>2. DirectMap(d.frame) = d.va /\ d.frame \in Int /\ d.va \in Int
  BY DEF WorkOK
<1>3. Tree(q) /\ (\A u \in d.va..(d.va + 1) : LeadsTo(q, u, ent)) /\ Elsewhere(p, q, d.va..(d.va + 1))
  BY LargeWalks
<1>4. PgSize(r) = 2 /\ d.va + PgSize(r) - 1 = d.va + 1
  BY <1>2 DEF PgSize, Large
<1>5. ASSUME NEW u \in d.va..(d.va + 1) PROVE AskedAt(q, r, u)
  <2>1. u \in PgSpace /\ LeafOf(q, u) = ent /\ q[PteOf(2, u)].large = TRUE
    BY <1>1, <1>3 DEF LeadsTo
  <2>2. Walk(q, u).frame = ent.frame + (u % Large)
    <3>1. Walk(q, u) = [ok |-> TRUE, frame |-> ent.frame + (u % Large), write |-> ent.write, exec |-> ent.exec]
      BY <1>1, <1>3, <2>1, WalkIs
    <3> QED BY <3>1
  <2>3. DirectMap(ent.frame + (u % Large)) = u
    <3>1. PICK v \in Int, f \in Int : v = d.va /\ f = ent.frame
      BY <1>2
    <3>2. v % 2 = 0 /\ DIRECT * Area + f = v /\ u \in v..(v + 1)
      BY <1>1, <1>2, <3>1 DEF DirectMap
    <3>3. u \in Int /\ (u = v \/ u = v + 1)
      BY <3>2
    <3>4. u % 2 = u - v
      BY <3>1, <3>2, <3>3
    <3>5. DIRECT * Area + (f + (u % 2)) = u
      BY <3>1, <3>2, <3>3, <3>4 DEF DIRECT, Area
    <3> QED BY <3>1, <3>5 DEF DirectMap, Large
  <2> QED BY <1>0, <1>1, <2>1, <2>2, <2>3 DEF AskedAt
<1>6. ASSUME NEW l \in 2..4, NEW u \in PgSpace, p[PteOf(l, u)].present = TRUE PROVE q[PteOf(l, u)].present = TRUE
  BY <1>6, LargeKeepsTables
<1> QED BY <1>3, <1>4, <1>5, <1>6 DEF PageMapped

LEMMA MinLevel == Min(2..4) = 2 /\ Min(3..4) = 3
<1>1. Min(2..4) = 2
  BY DEF Min
<1>2. Min(3..4) = 3
  BY DEF Min
<1> QED BY <1>1, <1>2

\* Missing tables are counted.
LEMMA Missing ==
    ASSUME NEW va, NEW levels, levels \in {2..4, 3..4}
    PROVE  MissingTables(va, levels) \in Nat
<1>1. IsFiniteSet(levels)
  <2>1. \A a, b \in Int : IsFiniteSet(a..b)
    BY FS_Interval
  <2>2. PICK a, b, c : a = 2 /\ b = 3 /\ c = 4 /\ a \in Int /\ b \in Int /\ c \in Int
    OBVIOUS
  <2>3. IsFiniteSet(a..c) /\ IsFiniteSet(b..c)
    BY <2>1, <2>2
  <2>4. levels = a..c \/ levels = b..c
    BY <2>2
  <2> QED BY <2>3, <2>4
<1>2. IsFiniteSet({l \in levels : ~pgPte[PteOf(l, va)].present})
  BY <1>1, FS_Subset
<1> QED BY <1>2, FS_CardinalityType DEF MissingTables

\* One page of _map or of _mprotect.
LEMMA MapStep ==
    ASSUME Tree(pgPte), pgFree \in 0..PgFrames, PgMap, NEW r, r = pgSent[pgDo.cpu], WorkOK(pgPte, r, pgDo)
    PROVE  \/ UNCHANGED <<pgPte, pgFree, pgTlb, pgDo>>
           \/ /\ PageMapped(pgPte, pgPte', r, pgDo) /\ pgFree' \in 0..PgFrames
              /\ pgTlb' = [pgTlb EXCEPT ![0] = [v \in DOMAIN @ \ (pgDo.va..(pgDo.va + PgSize(r) - 1)) |-> @[v]]]
              /\ pgDo' = [pgDo EXCEPT !.va = @ + PgSize(r), !.frame = @ + PgSize(r)]
<1> SUFFICES ASSUME ~UNCHANGED <<pgPte, pgFree, pgTlb, pgDo>>
             PROVE  /\ PageMapped(pgPte, pgPte', r, pgDo) /\ pgFree' \in 0..PgFrames
                    /\ pgTlb' = [pgTlb EXCEPT ![0] = [v \in DOMAIN @ \ (pgDo.va..(pgDo.va + PgSize(r) - 1)) |-> @[v]]]
                    /\ pgDo' = [pgDo EXCEPT !.va = @ + PgSize(r), !.frame = @ + PgSize(r)]
  OBVIOUS
<1> PICK va : va = pgDo.va
  OBVIOUS
<1> PICK f : f = pgDo.frame
  OBVIOUS
<1>1. /\ va \in PgSpace /\ va \in Int /\ f \in Int
      /\ r.t \in {"Mmio", "Framebuffer"} => va \div Area = DIRECT
      /\ r.t = "Framebuffer" => va % 2 = 0
      /\ r.t = "MProtect" => va \in r.va..(r.va + r.len - 1) /\ va \div Area # DIRECT
  <2>1. /\ va \in Int /\ f \in Int /\ pgDo.end \in Int /\ ReqOK(r) /\ PgStart(r) \in Nat /\ PgPages(r) > 0
        /\ pgDo.end = PgStart(r) + PgPages(r) /\ pgDo.end <= 4 * Area /\ PgStart(r) <= va
        /\ r.t = "Framebuffer" => va % 2 = 0
    BY DEF WorkOK
  <2>2. va < pgDo.end
    BY DEF PgMap
  <2>3. PgPages(r) \in Int
    BY <2>1 DEF PgPages, ReqOK, Large
  <2>4. va \in PgSpace
    BY <2>1, <2>2 DEF PgSpace, Area
  <2>5. ASSUME r.t \in {"Mmio", "Framebuffer"} PROVE va \div Area = DIRECT
    <3>1. r.frame \in Nat /\ r.frame + PgPages(r) <= 8 /\ PgStart(r) = 8 + r.frame
      BY <2>1, <2>5 DEF ReqOK, PgStart, DirectMap, DIRECT, Area
    <3>2. va >= 8 /\ va < 16
      BY <2>1, <2>2, <2>3, <3>1
    <3> QED BY <2>1, <3>2 DEF Area, DIRECT
  <2>6. ASSUME r.t = "MProtect" PROVE va \in r.va..(r.va + r.len - 1) /\ va \div Area # DIRECT
    <3>1. r.va \in Nat /\ r.len \in Nat /\ PgStart(r) = r.va /\ PgPages(r) = r.len /\ (r.va + r.len <= 8 \/ r.va >= 16)
      BY <2>1, <2>6 DEF ReqOK, PgStart, PgPages, DIRECT, Area
    <3>2. va >= r.va /\ va <= r.va + r.len - 1 /\ (va < 8 \/ va >= 16)
      BY <2>1, <2>2, <3>1
    <3> QED BY <2>1, <3>1, <3>2 DEF Area, DIRECT
  <2> QED BY <2>1, <2>4, <2>5, <2>6
<1>2. Rw(r).p \in BOOLEAN /\ Rw(r).w \in BOOLEAN /\ Rw(r).x \in BOOLEAN
  BY RwIs DEF WorkOK
<1>3. PICK e2 \in Pte : e2 = pgPte[PteOf(2, va)]
  BY <1>1, PteIs DEF Tree
<1>4. e2.large = TRUE => e2.present = TRUE /\ va \div Area = DIRECT
  BY <1>1, <1>3 DEF Tree, WayOK
<1>5. /\ pgTlb' = [pgTlb EXCEPT ![0] = [v \in DOMAIN @ \ (pgDo.va..(pgDo.va + PgSize(r) - 1)) |-> @[v]]]
      /\ pgDo' = [pgDo EXCEPT !.va = @ + PgSize(r), !.frame = @ + PgSize(r)]
  BY DEF PgMap
<1>6. CASE r.t = "MProtect"
  <2>1. PgSize(r) = 1 /\ PgSize(r) # Large
    BY <1>6 DEF PgSize, Large
  <2>2. PICK old \in Pte : old = pgPte[PteOf(1, va)]
    BY <1>1, PteIs DEF Tree
  <2>3. PICK ent : ent = [old EXCEPT !.present = Rw(r).p, !.write = Rw(r).w, !.exec = Rw(r).x]
    OBVIOUS
  <2>4. /\ ent \in Pte /\ ent.large = old.large /\ ent.present = Rw(r).p
        /\ ent.write = Rw(r).w /\ ent.exec = Rw(r).x
    BY <1>2, <2>3 DEF Pte
  <2>6. /\ pgPte' = [Accepted(va, 2..4, Rw(r).x) EXCEPT ![PteOf(1, va)] = ent]
        /\ pgFree' = pgFree
    BY <1>6, <2>1, <2>2, <2>3 DEF PgMap
  <2>7. \A l \in 2..4 : pgPte[PteOf(l, va)].present = TRUE
    BY <1>1, <1>6 DEF WorkOK
  <2>8. e2.large = FALSE /\ old.large = FALSE
    BY <1>1, <1>3, <1>4, <1>6, <2>2 DEF Pte, Tree, WayOK
  <2>9. SmallMapped(pgPte, pgPte', va, ent, Rw(r).x)
    BY <1>1, <1>2, <1>3, <2>4, <2>6, <2>7, <2>8, ProtectTables
  <2>10. SmallStep(pgPte, pgPte', pgDo.va, ent, Rw(r).x)
    BY <1>1, <1>2, <1>3, <2>4, <2>8, <2>9 DEF SmallStep
  <2>11. PageMapped(pgPte, pgPte', r, pgDo)
    BY <1>6, <2>4, <2>10, SmallPage
  <2> QED BY <1>5, <2>6, <2>11
<1>7. CASE r.t = "Framebuffer"
  <2>1. PgSize(r) = Large /\ (PgSize(r) = Large) = TRUE /\ Rw(r).p = TRUE /\ Rw(r).w = TRUE /\ Rw(r).x = FALSE
    BY <1>7, RwIs DEF PgSize, WorkOK
  <2>2. PICK ent : ent = [present |-> TRUE, large |-> TRUE, frame |-> f, write |-> TRUE, exec |-> FALSE]
    OBVIOUS
  <2>3. ent \in Pte /\ ent.present = TRUE /\ ent.large = TRUE /\ ent.write = TRUE /\ ent.exec = FALSE /\ ent.frame = f
    BY <1>1, <2>2 DEF Pte
  <2>4. /\ pgPte' = [Tables(va, Min(3..4), Rw(r).x) EXCEPT ![PteOf(2, va)] =
                         [present |-> Rw(r).p, large |-> PgSize(r) = Large, frame |-> f, write |-> Rw(r).w, exec |-> Rw(r).x]]
        /\ ~(MissingTables(va, 3..4) > pgFree)
        /\ pgFree' = pgFree - MissingTables(va, 3..4)
    BY <1>7, <2>1 DEF PgMap
  <2>5. pgPte' = [Tables(va, 3, FALSE) EXCEPT ![PteOf(2, va)] = ent]
    BY <2>1, <2>2, <2>4, MinLevel
  <2>6. LargeMapped(pgPte, pgPte', va, ent, FALSE)
    BY <1>1, <2>3, <2>5, LargeTables
  <2>7. LargeStep(pgPte, pgPte', pgDo.va, ent)
    BY <1>1, <1>7, <2>3, <2>6 DEF LargeStep
  <2>8. PageMapped(pgPte, pgPte', r, pgDo)
    BY <1>7, <2>3, <2>7, LargePage
  <2>9. pgFree' \in 0..PgFrames
    <3>1. MissingTables(va, 3..4) \in Nat
      BY Missing
    <3> QED BY <2>4, <3>1, PagingAssumption
  <2> QED BY <1>5, <2>8, <2>9
<1>8. CASE r.t \notin {"MProtect", "Framebuffer"}
  <2>1. PgSize(r) = 1 /\ PgSize(r) # Large /\ (PgSize(r) = Large) = FALSE
    BY <1>8 DEF PgSize, Large
  <2>2. PICK ent : ent = [present |-> Rw(r).p, large |-> FALSE, frame |-> f, write |-> Rw(r).w, exec |-> Rw(r).x]
    OBVIOUS
  <2>3. ent \in Pte /\ ent.present = Rw(r).p /\ ent.large = FALSE /\ ent.write = Rw(r).w /\ ent.exec = Rw(r).x /\ ent.frame = f
    BY <1>1, <1>2, <2>2 DEF Pte
  <2>4. /\ pgPte' = [Tables(va, Min(2..4), Rw(r).x) EXCEPT ![PteOf(1, va)] =
                         [present |-> Rw(r).p, large |-> PgSize(r) = Large, frame |-> f, write |-> Rw(r).w, exec |-> Rw(r).x]]
        /\ ~(MissingTables(va, 2..4) > pgFree)
        /\ ~(e2.present /\ e2.large # (PgSize(r) = Large))
        /\ pgFree' = pgFree - MissingTables(va, 2..4)
    BY <1>3, <1>8, <2>1 DEF PgMap
  <2>5. pgPte' = [Tables(va, 2, Rw(r).x) EXCEPT ![PteOf(1, va)] = ent]
    BY <2>1, <2>2, <2>4, MinLevel
  <2>6. e2.large = FALSE
    <3>1. e2.large \in BOOLEAN /\ e2.present \in BOOLEAN
      BY DEF Pte
    <3> QED BY <1>4, <2>1, <2>4, <3>1
  <2>7. SmallMapped(pgPte, pgPte', va, ent, Rw(r).x)
    BY <1>1, <1>2, <1>3, <2>3, <2>5, <2>6, SmallTables
  <2>8. SmallStep(pgPte, pgPte', pgDo.va, ent, Rw(r).x)
    BY <1>1, <1>2, <1>3, <2>3, <2>6, <2>7 DEF SmallStep
  <2>9. PageMapped(pgPte, pgPte', r, pgDo)
    BY <1>8, <2>3, <2>8, SmallPage
  <2>10. pgFree' \in 0..PgFrames
    <3>1. MissingTables(va, 2..4) \in Nat
      BY Missing
    <3> QED BY <2>4, <3>1, PagingAssumption
  <2> QED BY <1>5, <2>9, <2>10
<1> QED BY <1>6, <1>7, <1>8

-----------------------------------------------------------------------------
(* The inductive invariant *)

SentRec == [t : {"none", "Mmio", "Framebuffer", "Kernel", "User", "MProtect"}, va : Nat, len : Nat,
            attr : PgAttrs, frame : Nat, st : {"done", "posted"}, at : Int]

PgShape ==
    /\ pgCpus \in 1..CpuBits /\ pgFree \in 0..PgFrames
    /\ pgFifo \in Seq(PgThreads) /\ Len(pgFifo) <= PgQueue
    /\ pgLeft \in [PgThreads -> Seq(PgRequests)] /\ pgSent \in [PgThreads -> SentRec]
    /\ pgDo \in [op : {"wait", "map", "send", "spin", "answer"}, cpu : PgThreads \cup {0},
                 va : Int, frame : Int, end : Int]
    /\ pgBits \subseteq PgCpuSet \ {0} /\ DOMAIN pgTlb = 0..(CpuBits - 1)

\* Requests that were made are requests of the kernel.
SentInv ==
    \A c \in PgThreads : /\ pgSent[c].t # "none" => ReqOK(pgSent[c])
                         /\ pgSent[c].st = "posted" \/ pgSent[c].at > 0 => pgSent[c].t # "none"

\* Every queued request is posted, once, and is not the one at work.
PgQueueInv ==
    /\ \A i \in 1..Len(pgFifo) : pgSent[pgFifo[i]].st = "posted"
    /\ \A i, j \in 1..Len(pgFifo) : pgFifo[i] = pgFifo[j] => i = j
    /\ pgDo.op # "wait" => /\ pgDo.cpu \in PgThreads /\ pgSent[pgDo.cpu].st = "posted"
                           /\ \A i \in 1..Len(pgFifo) : pgFifo[i] # pgDo.cpu

PgWorkInv ==
    /\ pgDo.op = "map" => pgDo.end # 0
    /\ pgDo.op # "wait" /\ pgDo.end # 0 => WorkOK(pgPte, pgSent[pgDo.cpu], pgDo)

\* The request that is done, of the only thread that made any, is still as asked.
DoneInv ==
    \A c \in PgThreads :
        pgSent[c].st = "done" /\ pgSent[c].at > 0 /\ (\A d \in PgThreads \ {c} : pgSent[d].t = "none") =>
            \A v \in PgStart(pgSent[c])..(pgSent[c].at - 1) : AskedAt(pgPte, pgSent[c], v)

\* Translations that a walk of the tables would find again.
Fresh(p, m) == \A v \in DOMAIN m : v \in PgSpace /\ LeafOf(p, v).present = TRUE /\ m[v] = Walk(p, v)

\* The processor of the page manager has no other; the rest have none once they
\* have had the interrupt, and their bits are set until then.
PgFlushInv ==
    /\ Fresh(pgPte, pgTlb[0])
    /\ pgCpus < CpuBits =>
          /\ pgIpi \subseteq pgBits /\ pgAck \subseteq pgBits /\ pgIpi \cap pgAck = {}
          /\ pgDo.op # "spin" => pgBits = {}
          /\ \A c \in PgCpuSet \ {0} :
                pgDo.op \in {"wait", "answer"} \/ (pgDo.op = "spin" /\ c \notin pgIpi) => Fresh(pgPte, pgTlb[c])

PgIInv == PgShape /\ Tree(pgPte) /\ SentInv /\ PgQueueInv /\ PgWorkInv /\ DoneInv /\ PgFlushInv

LEMMA PgInitInv == PgInit => PgIInv
<1> SUFFICES ASSUME PgInit PROVE PgIInv
  OBVIOUS
<1>1. PgShape
  <2>1. pgCpus \in 1..CpuBits /\ pgFree \in 0..PgFrames /\ DOMAIN pgTlb = 0..(CpuBits - 1)
    BY PagingAssumption DEF PgInit
  <2>2. pgFifo \in Seq(PgThreads) /\ Len(pgFifo) <= PgQueue
    BY PagingAssumption DEF PgInit
  <2>3. pgLeft \in [PgThreads -> Seq(PgRequests)]
    BY PagingAssumption DEF PgInit
  <2>4. pgSent \in [PgThreads -> SentRec]
    BY DEF PgInit, NoRequest, SentRec, PgAttrs
  <2>5. pgDo \in [op : {"wait", "map", "send", "spin", "answer"}, cpu : PgThreads \cup {0}, va : Int, frame : Int, end : Int]
    BY DEF PgInit, PgIdle
  <2>6. pgBits \subseteq PgCpuSet \ {0}
    BY DEF PgInit
  <2> QED BY <2>1, <2>2, <2>3, <2>4, <2>5, <2>6 DEF PgShape
<1>2. Tree(pgPte)
  <2>1. NoPte \in Pte /\ NoPte.present = FALSE /\ NoPte.large = FALSE
    BY DEF NoPte, Pte
  <2>2. pgPte = [e \in Entries |-> NoPte]
    BY DEF PgInit
  <2>3. ASSUME NEW v \in PgSpace PROVE WayOK(pgPte, v)
    <3>1. \A l \in 1..4 : pgPte[PteOf(l, v)] = NoPte
      BY <2>2, PteIs
    <3>2. pgPte[PteOf(1, v)] = NoPte /\ pgPte[PteOf(2, v)] = NoPte /\ pgPte[PteOf(3, v)] = NoPte /\ pgPte[PteOf(4, v)] = NoPte
      BY <3>1
    <3> QED BY <2>1, <3>2 DEF WayOK
  <2> QED BY <2>1, <2>2, <2>3 DEF Tree
<1>3. SentInv /\ DoneInv
  BY DEF PgInit, NoRequest, SentInv, DoneInv
<1>4. PgQueueInv /\ PgWorkInv
  BY DEF PgInit, PgIdle, PgQueueInv, PgWorkInv
<1>5. PgFlushInv
  <2>1. \A c \in 0..(CpuBits - 1) : Fresh(pgPte, pgTlb[c])
    BY DEF PgInit, Fresh
  <2>2. 0 \in 0..(CpuBits - 1) /\ PgCpuSet \subseteq 0..(CpuBits - 1)
    BY <1>1, PagingAssumption DEF PgShape, PgCpuSet
  <2> QED BY <2>1, <2>2 DEF PgInit, PgIdle, PgFlushInv
<1> QED BY <1>1, <1>2, <1>3, <1>4, <1>5 DEF PgIInv

\* MemoryManager::mmap.
LEMMA PostKeeps ==
    ASSUME PgIInv, NEW c \in PgThreads, PgPost(c)
    PROVE  PgIInv'
<1>1. PICK r \in PgRequests : r = Head(pgLeft[c])
  BY DEF PgIInv, PgShape, PgPost
<1>2. PICK s : s = [t |-> r.t, va |-> r.va, len |-> r.len, attr |-> r.attr, frame |-> r.frame, st |-> "posted", at |-> 0]
  OBVIOUS
<1>3. s \in SentRec /\ ReqOK(s) /\ s.st = "posted" /\ s.t # "none"
  <2>1. s.t = r.t /\ s.len = r.len /\ s.va = r.va /\ s.frame = r.frame /\ s.attr = r.attr
    BY <1>2
  <2>2. PgPages(s) = PgPages(r)
    BY <2>1 DEF PgPages
  <2>3. s \in SentRec /\ s.st = "posted" /\ s.t # "none"
    BY <1>2 DEF SentRec, PgRequests, PgAttrs
  <2> QED BY <2>1, <2>2, <2>3 DEF ReqOK, PgRequests, PgAttrs
<1>4. /\ pgSent' = [pgSent EXCEPT ![c] = s] /\ pgSent[c].st = "done"
      /\ UNCHANGED <<pgCpus, pgPte, pgFree, pgTlb, pgDo, pgBits, pgIpi, pgAck>>
      /\ pgLeft' = [pgLeft EXCEPT ![c] = Tail(@)] /\ pgLeft[c] # <<>>
      /\ pgFifo' = pgFifo \/ (pgFifo' = Append(pgFifo, c) /\ Len(pgFifo) # PgQueue)
  BY <1>1, <1>2 DEF PgPost
<1>5. pgSent'[c] = s /\ \A d \in PgThreads \ {c} : pgSent'[d] = pgSent[d]
  BY <1>4 DEF PgIInv, PgShape
<1>6. PgShape'
  <2>1. pgFifo' \in Seq(PgThreads) /\ Len(pgFifo') <= PgQueue
    <3>1. pgFifo \in Seq(PgThreads) /\ Len(pgFifo) \in Nat /\ Len(pgFifo) <= PgQueue /\ PgQueue \in Nat
      BY PagingAssumption DEF PgIInv, PgShape
    <3>2. Append(pgFifo, c) \in Seq(PgThreads) /\ Len(Append(pgFifo, c)) = Len(pgFifo) + 1
      BY <3>1, AppendProperties
    <3>3. CASE pgFifo' = pgFifo
      BY <3>1, <3>3
    <3>4. CASE pgFifo' = Append(pgFifo, c) /\ Len(pgFifo) # PgQueue
      <4>1. PICK n \in Nat : n = Len(pgFifo)
        BY <3>1
      <4>2. n + 1 <= PgQueue
        BY <3>1, <3>4, <4>1
      <4> QED BY <3>2, <3>4, <4>1, <4>2
    <3> QED BY <1>4, <3>3, <3>4
  <2>2. pgLeft' \in [PgThreads -> Seq(PgRequests)]
    BY <1>4 DEF PgIInv, PgShape
  <2> QED BY <1>3, <1>4, <2>1, <2>2 DEF PgIInv, PgShape, PgCpuSet
<1>7. Tree(pgPte)'
  BY <1>4 DEF PgIInv
<1>8. SentInv'
  BY <1>3, <1>5 DEF PgIInv, SentInv
<1>9. PgQueueInv'
  <2>1. \A i \in 1..Len(pgFifo) : pgFifo[i] \in PgThreads /\ pgFifo[i] # c
    BY <1>4 DEF PgIInv, PgShape, PgQueueInv
  <2>2. pgDo.op # "wait" => pgDo.cpu # c
    BY <1>4 DEF PgIInv, PgQueueInv
  <2>3. \A i \in 1..Len(pgFifo') : \/ pgFifo'[i] = c /\ i = Len(pgFifo) + 1
                                   \/ i \in 1..Len(pgFifo) /\ pgFifo'[i] = pgFifo[i]
    <3>1. pgFifo \in Seq(PgThreads) /\ Len(pgFifo) \in Nat
      BY DEF PgIInv, PgShape
    <3>2. /\ Len(Append(pgFifo, c)) = Len(pgFifo) + 1 /\ Append(pgFifo, c)[Len(pgFifo) + 1] = c
          /\ \A i \in 1..Len(pgFifo) : Append(pgFifo, c)[i] = pgFifo[i]
      BY <3>1, AppendProperties
    <3>3. CASE pgFifo' = pgFifo
      BY <3>3
    <3>4. CASE pgFifo' = Append(pgFifo, c)
      BY <3>1, <3>2, <3>4
    <3> QED BY <1>4, <3>3, <3>4
  <2>4. \A i \in 1..Len(pgFifo') : pgSent'[pgFifo'[i]].st = "posted"
    BY <1>3, <1>5, <2>1, <2>3 DEF PgIInv, PgQueueInv
  <2>5. \A i, j \in 1..Len(pgFifo') : pgFifo'[i] = pgFifo'[j] => i = j
    BY <2>1, <2>3 DEF PgIInv, PgQueueInv
  <2>6. pgDo.op # "wait" => /\ pgDo.cpu \in PgThreads /\ pgSent'[pgDo.cpu].st = "posted"
                            /\ \A i \in 1..Len(pgFifo') : pgFifo'[i] # pgDo.cpu
    BY <1>5, <2>2, <2>3 DEF PgIInv, PgQueueInv
  <2> QED BY <1>4, <2>4, <2>5, <2>6 DEF PgQueueInv
<1>10. PgWorkInv'
  <2>1. pgDo.op # "wait" => pgSent'[pgDo.cpu] = pgSent[pgDo.cpu]
    BY <1>4, <1>5 DEF PgIInv, PgQueueInv
  <2> QED BY <1>4, <2>1 DEF PgIInv, PgWorkInv
<1>11. DoneInv'
  BY <1>3, <1>4, <1>5 DEF PgIInv, DoneInv
<1>12. PgFlushInv'
  BY <1>4 DEF PgIInv, PgFlushInv, PgCpuSet
<1> QED BY <1>6, <1>7, <1>8, <1>9, <1>10, <1>11, <1>12 DEF PgIInv

\* A request that mmap does not refuse.
LEMMA TakenOK ==
    ASSUME Tree(pgPte), NEW r, ReqOK(r), ~Refused(r), NEW c, NEW f \in Int,
           r.t \in {"Mmio", "Framebuffer"} => f = r.frame,
           NEW d, d = [op |-> "map", cpu |-> c, va |-> PgStart(r), frame |-> f, end |-> PgStart(r) + PgPages(r)]
    PROVE  WorkOK(pgPte, r, d) /\ d.end # 0
<1>1. d.op = "map" /\ d.va = PgStart(r) /\ d.frame = f /\ d.end = PgStart(r) + PgPages(r)
  OBVIOUS
<1>2. /\ r.va \in Nat /\ r.len \in Nat /\ r.frame \in Nat /\ r.len > 0
      /\ r.t \in {"Mmio", "Framebuffer", "Kernel", "User", "MProtect"}
  BY DEF ReqOK, Refused
<1>3. PgPages(r) \in Nat /\ PgPages(r) > 0
  BY <1>2 DEF PgPages, Large
<1>4. PgStart(r) \in Nat /\ (r.t \in {"Mmio", "Framebuffer"} => PgStart(r) = 8 + r.frame)
  BY <1>2 DEF PgStart, DirectMap, DIRECT, Area
<1>5. PgStart(r) + PgPages(r) <= 4 * Area
  <2>1. CASE r.t \in {"Mmio", "Framebuffer"}
    <3>1. r.frame + PgPages(r) <= 8
      BY <2>1 DEF ReqOK, Area
    <3> QED BY <1>2, <1>3, <1>4, <2>1, <3>1 DEF Area
  <2>2. CASE r.t \in {"Kernel", "User"}
    <3>1. PgStart(r) = r.va /\ PgPages(r) = r.len
      BY <2>2 DEF PgStart, PgPages
    <3>2. Within(r, HEAP, HEAP + 1) \/ Within(r, USER, USER + 1)
      BY <2>2 DEF Refused
    <3> QED BY <1>2, <3>1, <3>2 DEF Within, HEAP, USER, Area
  <2>3. CASE r.t = "MProtect"
    <3>1. PgStart(r) = r.va /\ PgPages(r) = r.len /\ r.va + r.len <= 4 * Area
      BY <2>3 DEF PgStart, PgPages, ReqOK
    <3> QED BY <3>1
  <2> QED BY <1>2, <2>1, <2>2, <2>3
<1>6. ASSUME r.t = "Framebuffer" PROVE d.va % 2 = 0 /\ d.end % 2 = 0
  <2>1. PgStart(r) % 2 = 0
    BY <1>6 DEF Refused, Large
  <2>2. PgPages(r) = 2 * ((r.len + 1) \div 2)
    BY <1>2, <1>6 DEF PgPages, Large
  <2>3. PICK k \in Nat : k = (r.len + 1) \div 2
    BY <1>2
  <2> QED BY <1>1, <1>4, <2>1, <2>2, <2>3
<1>7. r.t \in {"Mmio", "Framebuffer"} => DirectMap(d.frame) = d.va
  BY <1>1 DEF PgStart
<1>8. ASSUME r.t = "MProtect", NEW v \in r.va..(r.va + r.len - 1), NEW l \in 2..4 PROVE pgPte[PteOf(l, v)].present = TRUE
  <2>1. pgPte[PteOf(l, v)].present
    BY <1>8 DEF Refused, TablesPresent
  <2>2. v \in PgSpace
    BY <1>2, <1>8 DEF ReqOK, PgSpace, Area
  <2>3. pgPte[PteOf(l, v)].present \in BOOLEAN
    BY <2>2, PteIs DEF Tree, Pte
  <2> QED BY <2>1, <2>3
<1>9. d.va \in Int /\ d.end \in Int /\ d.end # 0 /\ PgStart(r) <= d.va /\ d.va <= d.end
  BY <1>1, <1>3, <1>4
<1>10. \A v \in PgStart(r)..(d.va - 1) : AskedAt(pgPte, r, v)
  BY <1>1, <1>4
<1> QED BY <1>1, <1>2, <1>3, <1>4, <1>5, <1>6, <1>7, <1>8, <1>9, <1>10 DEF WorkOK

\* The page manager takes a request.
LEMMA TakeKeeps ==
    ASSUME PgIInv, PgTake
    PROVE  PgIInv'
<1>1. /\ pgFifo \in Seq(PgThreads) /\ pgFifo # <<>> /\ pgFifo' = Tail(pgFifo) /\ pgDo.op = "wait"
      /\ UNCHANGED <<pgCpus, pgPte, pgTlb, pgLeft, pgSent, pgBits, pgIpi, pgAck, pgStop>>
  BY DEF PgIInv, PgShape, PgTake
<1>2. PICK n \in Nat : n = Len(pgFifo)
  BY <1>1
<1>3. /\ n > 0 /\ Head(pgFifo) = pgFifo[1] /\ pgFifo' \in Seq(PgThreads) /\ Len(pgFifo') = n - 1
      /\ \A i \in 1..(n - 1) : pgFifo'[i] = pgFifo[i + 1]
  <2>1. n > 0
    BY <1>1, <1>2, EmptySeq
  <2> QED BY <1>1, <1>2, <2>1, HeadTailProperties
<1>4. PICK c \in PgThreads : c = pgFifo[1]
  BY <1>1, <1>2, <1>3
<1>5. pgSent[c].st = "posted"
  BY <1>2, <1>3, <1>4 DEF PgIInv, PgQueueInv
<1>6. PICK r \in SentRec : r = pgSent[c]
  BY DEF PgIInv, PgShape
<1>7. ReqOK(r)
  BY <1>5, <1>6 DEF PgIInv, SentInv
<1>8. pgFree \in Nat /\ pgFree <= PgFrames /\ PgFrames \in Nat /\ r.len \in Nat /\ r.frame \in Nat
  BY PagingAssumption DEF PgIInv, PgShape, SentRec
<1>9. \/ /\ pgFree' = pgFree
         /\ pgDo' = [PgIdle EXCEPT !.op = "send", !.cpu = c]
      \/ /\ ~Refused(r) /\ pgFree' \in 0..PgFrames
         /\ \E f \in Int : /\ r.t \in {"Mmio", "Framebuffer"} => f = r.frame
                           /\ pgDo' = [op |-> "map", cpu |-> c, va |-> PgStart(r), frame |-> f, end |-> PgStart(r) + PgPages(r)]
  <2>1. PICK own, short : own = (r.t \in {"Kernel", "User"}) /\ short = (own /\ r.len > pgFree)
    OBVIOUS
  <2>2. /\ pgDo' = IF Refused(r) \/ short THEN [PgIdle EXCEPT !.op = "send", !.cpu = c]
                   ELSE [op |-> "map", cpu |-> c, va |-> PgStart(r),
                         frame |-> IF own THEN pgFree - r.len + 1 ELSE r.frame, end |-> PgStart(r) + PgPages(r)]
        /\ pgFree' = IF own /\ ~Refused(r) /\ ~short THEN pgFree - r.len ELSE pgFree
    BY <1>3, <1>4, <1>6, <2>1 DEF PgTake
  <2>3. CASE Refused(r) \/ short
    BY <2>2, <2>3
  <2>4. CASE ~Refused(r) /\ ~short
    <3>1. CASE own
      <4>1. ~(r.len > pgFree) /\ r.t \in {"Kernel", "User"}
        BY <2>1, <2>4, <3>1
      <4>2. pgFree' = pgFree - r.len
        BY <2>2, <2>4, <3>1
      <4>3. pgFree' \in 0..PgFrames
        BY <1>8, <4>1, <4>2
      <4>4. pgDo' = [op |-> "map", cpu |-> c, va |-> PgStart(r), frame |-> pgFree - r.len + 1, end |-> PgStart(r) + PgPages(r)]
        BY <2>2, <2>4, <3>1
      <4>5. pgFree - r.len + 1 \in Int
        BY <1>8
      <4> QED BY <2>4, <4>1, <4>3, <4>4, <4>5
    <3>2. CASE ~own
      <4>1. pgFree' = pgFree
        BY <2>2, <3>2
      <4>2. pgDo' = [op |-> "map", cpu |-> c, va |-> PgStart(r), frame |-> r.frame, end |-> PgStart(r) + PgPages(r)]
        BY <2>2, <2>4, <3>2
      <4> QED BY <1>8, <2>4, <4>1, <4>2
    <3> QED BY <3>1, <3>2
  <2> QED BY <2>3, <2>4
<1>10. /\ pgFree' \in 0..PgFrames
       /\ pgDo' \in [op : {"wait", "map", "send", "spin", "answer"}, cpu : PgThreads \cup {0}, va : Int, frame : Int, end : Int]
       /\ pgDo'.cpu = c /\ pgDo'.op \in {"map", "send"}
       /\ pgDo'.op = "map" => pgDo'.end # 0
       /\ pgDo'.end # 0 => WorkOK(pgPte, r, pgDo')
  <2>1. CASE pgFree' = pgFree /\ pgDo' = [PgIdle EXCEPT !.op = "send", !.cpu = c]
    <3>1. PgIdle \in [op : {"wait", "map", "send", "spin", "answer"}, cpu : PgThreads \cup {0}, va : Int, frame : Int, end : Int]
      BY DEF PgIdle
    <3>2. PgIdle.end = 0
      BY DEF PgIdle
    <3>3. pgFree' \in 0..PgFrames
      BY <1>8, <2>1
    <3>4. pgDo' \in [op : {"wait", "map", "send", "spin", "answer"}, cpu : PgThreads \cup {0}, va : Int, frame : Int, end : Int]
      BY <2>1, <3>1
    <3>5. pgDo'.op = "send" /\ pgDo'.cpu = c
      BY <2>1, <3>1
    <3>6. pgDo'.end = 0
      BY <2>1, <3>1, <3>2
    <3> QED BY <3>3, <3>4, <3>5, <3>6
  <2>2. ASSUME ~Refused(r), pgFree' \in 0..PgFrames, NEW f \in Int, r.t \in {"Mmio", "Framebuffer"} => f = r.frame,
               pgDo' = [op |-> "map", cpu |-> c, va |-> PgStart(r), frame |-> f, end |-> PgStart(r) + PgPages(r)]
        PROVE  <1>10
    <3>1. Tree(pgPte)
      BY DEF PgIInv
    <3>2. WorkOK(pgPte, r, pgDo') /\ pgDo'.end # 0
      BY <1>7, <2>2, <3>1, TakenOK
    <3>3. PgStart(r) \in Int /\ PgStart(r) + PgPages(r) \in Int
      BY <2>2, <3>2 DEF WorkOK
    <3> QED BY <2>2, <3>2, <3>3
  <2> QED BY <1>9, <2>1, <2>2
<1>11. PgShape'
  BY <1>1, <1>2, <1>3, <1>10, PagingAssumption DEF PgIInv, PgShape, PgCpuSet
<1>12. Tree(pgPte)' /\ SentInv' /\ DoneInv'
  BY <1>1 DEF PgIInv, SentInv, DoneInv
<1>13. PgQueueInv'
  <2>1. \A i \in 1..(n - 1) : i + 1 \in 1..n /\ i + 1 # 1
    OBVIOUS
  <2>2. \A i \in 1..(n - 1) : pgSent[pgFifo'[i]].st = "posted" /\ pgFifo'[i] # c
    BY <1>2, <1>3, <1>4, <2>1 DEF PgIInv, PgQueueInv
  <2>3. \A i, j \in 1..(n - 1) : pgFifo'[i] = pgFifo'[j] => i = j
    BY <1>2, <1>3, <2>1 DEF PgIInv, PgQueueInv
  <2> QED BY <1>1, <1>3, <1>5, <1>10, <2>2, <2>3 DEF PgQueueInv
<1>14. PgWorkInv'
  BY <1>1, <1>6, <1>10 DEF PgWorkInv
<1>15. PgFlushInv'
  BY <1>1, <1>10 DEF PgIInv, PgFlushInv, PgCpuSet
<1> QED BY <1>11, <1>12, <1>13, <1>14, <1>15 DEF PgIInv

DoRec == [op : {"wait", "map", "send", "spin", "answer"}, cpu : PgThreads \cup {0}, va : Int, frame : Int, end : Int]

NextPage(d, n) == [d EXCEPT !.va = @ + n, !.frame = @ + n]

\* The page manager goes on to the next page.
LEMMA WorkAdvances ==
    ASSUME NEW p, NEW q, NEW r, NEW d \in DoRec, NEW e, WorkOK(p, r, d), PageMapped(p, q, r, d),
           d.op = "map", d.va < d.end, e = NextPage(d, PgSize(r))
    PROVE  WorkOK(q, r, e) /\ e \in DoRec /\ e.op = "map" /\ e.cpu = d.cpu /\ e.end = d.end
<1>1. PgSize(r) \in {1, 2} /\ (r.t = "Framebuffer" => PgSize(r) = 2) /\ (r.t # "Framebuffer" => PgSize(r) = 1)
  BY DEF PgSize, Large
<1>2. /\ e \in DoRec /\ e.op = "map" /\ e.cpu = d.cpu /\ e.end = d.end
      /\ e.va = d.va + PgSize(r) /\ e.frame = d.frame + PgSize(r)
  <2>1. PICK n \in Int, x \in Int, y \in Int : n = PgSize(r) /\ x = d.va + n /\ y = d.frame + n
    BY <1>1 DEF DoRec
  <2>2. e = [d EXCEPT !.va = x, !.frame = y]
    BY <2>1 DEF NextPage
  <2> QED BY <2>1, <2>2 DEF DoRec
<1>3. /\ d.va \in Int /\ d.frame \in Int /\ d.end \in Int
      /\ ReqOK(r) /\ r.len > 0 /\ PgStart(r) \in Nat /\ PgPages(r) > 0
      /\ d.end = PgStart(r) + PgPages(r) /\ d.end <= 4 * Area
      /\ PgStart(r) <= d.va /\ d.va <= d.end
      /\ r.t = "Framebuffer" => d.va % 2 = 0 /\ d.end % 2 = 0
      /\ r.t \in {"Mmio", "Framebuffer"} => DirectMap(d.frame) = d.va
      /\ r.t = "MProtect" => \A v \in r.va..(r.va + r.len - 1), l \in 2..4 : p[PteOf(l, v)].present = TRUE
      /\ \A v \in PgStart(r)..(d.va - 1) : AskedAt(p, r, v)
  BY DEF WorkOK
<1>4. e.va \in Int /\ e.frame \in Int /\ PgStart(r) <= e.va
  BY <1>1, <1>2, <1>3
<1>5. e.va <= e.end /\ (r.t = "Framebuffer" => e.va % 2 = 0 /\ e.end % 2 = 0)
  <2>1. CASE r.t = "Framebuffer"
    BY <1>1, <1>2, <1>3, <2>1
  <2>2. CASE r.t # "Framebuffer"
    BY <1>1, <1>2, <1>3, <2>2
  <2> QED BY <2>1, <2>2
<1>6. r.t \in {"Mmio", "Framebuffer"} => DirectMap(e.frame) = e.va
  BY <1>1, <1>2, <1>3 DEF DirectMap, DIRECT, Area
<1>7. ASSUME r.t = "MProtect", NEW v \in r.va..(r.va + r.len - 1), NEW l \in 2..4 PROVE q[PteOf(l, v)].present = TRUE
  <2>1. p[PteOf(l, v)].present = TRUE
    BY <1>3, <1>7
  <2>2. v \in PgSpace
    BY <1>3, <1>7 DEF ReqOK, PgSpace, Area
  <2> QED BY <2>1, <2>2 DEF PageMapped
<1>8. ASSUME NEW v \in PgStart(r)..(e.va - 1) PROVE AskedAt(q, r, v)
  <2>1. CASE v \in d.va..(d.va + PgSize(r) - 1)
    BY <2>1 DEF PageMapped
  <2>2. CASE v \notin d.va..(d.va + PgSize(r) - 1)
    <3>1. v \in PgStart(r)..(d.va - 1)
      BY <1>1, <1>2, <1>3, <2>2
    <3>2. AskedAt(p, r, v)
      BY <1>3, <3>1
    <3>3. Elsewhere(p, q, d.va..(d.va + PgSize(r) - 1))
      BY DEF PageMapped
    <3>4. v \in PgSpace
      BY <3>2 DEF AskedAt
    <3>5. LeafOf(q, v) = LeafOf(p, v) /\ (LeafOf(p, v).present = TRUE => Walk(q, v) = Walk(p, v))
      BY <2>2, <3>3, <3>4 DEF Elsewhere
    <3> QED BY <3>2, <3>5 DEF AskedAt
  <2> QED BY <2>1, <2>2
<1> QED BY <1>2, <1>3, <1>4, <1>5, <1>6, <1>7, <1>8 DEF WorkOK

\* One page of a mapping.
LEMMA MapKeeps ==
    ASSUME PgIInv, PgMap
    PROVE  PgIInv'
<1>1. /\ pgDo.op = "map" /\ pgDo.va < pgDo.end
      /\ UNCHANGED <<pgCpus, pgLeft, pgSent, pgFifo, pgBits, pgIpi, pgAck>>
  BY DEF PgMap
<1>2. /\ pgDo.cpu \in PgThreads /\ pgSent[pgDo.cpu].st = "posted" /\ pgSent[pgDo.cpu].t # "none"
      /\ WorkOK(pgPte, pgSent[pgDo.cpu], pgDo)
  BY <1>1 DEF PgIInv, PgQueueInv, PgWorkInv, SentInv
<1>3. PICK r : r = pgSent[pgDo.cpu]
  OBVIOUS
<1>4. Tree(pgPte) /\ pgFree \in 0..PgFrames /\ pgDo \in DoRec /\ WorkOK(pgPte, r, pgDo)
  BY <1>2, <1>3 DEF PgIInv, PgShape, DoRec
<1>5. CASE UNCHANGED <<pgPte, pgFree, pgTlb, pgDo>>
  BY <1>1, <1>5 DEF PgIInv, PgShape, SentInv, PgQueueInv, PgWorkInv, DoneInv, PgFlushInv, PgCpuSet
<1>6. ASSUME PageMapped(pgPte, pgPte', r, pgDo), pgFree' \in 0..PgFrames,
             pgTlb' = [pgTlb EXCEPT ![0] = [v \in DOMAIN @ \ (pgDo.va..(pgDo.va + PgSize(r) - 1)) |-> @[v]]],
             pgDo' = [pgDo EXCEPT !.va = @ + PgSize(r), !.frame = @ + PgSize(r)]
      PROVE  PgIInv'
  <2>1. WorkOK(pgPte', r, pgDo') /\ pgDo' \in DoRec /\ pgDo'.op = "map" /\ pgDo'.cpu = pgDo.cpu /\ pgDo'.end = pgDo.end
    <3>1. pgDo' = NextPage(pgDo, PgSize(r))
      BY <1>6 DEF NextPage
    <3> QED BY <1>1, <1>4, <1>6, <3>1, WorkAdvances
  <2>2. PgShape'
    BY <1>1, <1>6, <2>1 DEF PgIInv, PgShape, PgCpuSet, DoRec
  <2>3. Tree(pgPte)' /\ SentInv'
    BY <1>1, <1>6 DEF PgIInv, SentInv, PageMapped
  <2>4. PgQueueInv'
    BY <1>1, <2>1 DEF PgIInv, PgQueueInv
  <2>5. PgWorkInv'
    BY <1>1, <1>3, <2>1 DEF PgIInv, PgWorkInv
  <2>6. DoneInv'
    BY <1>1, <1>2 DEF DoneInv
  <2>7. PgFlushInv'
    <3>1. Fresh(pgPte, pgTlb[0]) /\ Elsewhere(pgPte, pgPte', pgDo.va..(pgDo.va + PgSize(r) - 1))
      BY <1>6 DEF PgIInv, PgFlushInv, PageMapped
    <3>2. 0 \in DOMAIN pgTlb
      BY PagingAssumption DEF PgIInv, PgShape
    <3>3. PICK S : S = pgDo.va..(pgDo.va + PgSize(r) - 1)
      OBVIOUS
    <3>4. pgTlb'[0] = [v \in DOMAIN pgTlb[0] \ S |-> pgTlb[0][v]]
      BY <1>6, <3>2, <3>3
    <3>5. Fresh(pgPte', pgTlb'[0])
      BY <3>1, <3>3, <3>4 DEF Fresh, Elsewhere
    <3> QED BY <1>1, <2>1, <3>5 DEF PgIInv, PgFlushInv, PgCpuSet
  <2> QED BY <2>2, <2>3, <2>4, <2>5, <2>6, <2>7 DEF PgIInv
<1> QED BY <1>3, <1>4, <1>5, <1>6, MapStep

\* A processor looks a page up.
LEMMA AccessKeeps ==
    ASSUME PgIInv, NEW c \in PgCpuSet, PgAccess(c)
    PROVE  PgIInv'
<1>1. UNCHANGED <<pgCpus, pgPte, pgFree, pgLeft, pgSent, pgFifo, pgDo, pgBits, pgIpi, pgAck, pgStop>>
  BY DEF PgAccess
<1>2. PICK va \in PgTouched : /\ Translate(va).ok
                              /\ pgTlb' = [pgTlb EXCEPT ![c] = [v \in DOMAIN @ \cup {va} |-> IF v = va THEN Translate(va) ELSE @[v]]]
  BY DEF PgAccess
<1>3. c \in DOMAIN pgTlb /\ DOMAIN pgTlb' = DOMAIN pgTlb /\ va \in PgSpace
  BY <1>2, PagingAssumption DEF PgIInv, PgShape, PgCpuSet
<1>4. LeafOf(pgPte, va).present = TRUE
  <2>1. Tree(pgPte)
    BY DEF PgIInv
  <2>2. LeafOf(pgPte, va).present \in BOOLEAN /\ (LeafOf(pgPte, va).present = FALSE => Walk(pgPte, va).ok = FALSE)
    BY <1>3, <2>1, WalkIs DEF Pte
  <2> QED BY <1>2, <2>2 DEF Translate
<1>5. /\ pgTlb'[c] = [v \in DOMAIN pgTlb[c] \cup {va} |-> IF v = va THEN Walk(pgPte, va) ELSE pgTlb[c][v]]
      /\ \A d \in DOMAIN pgTlb \ {c} : pgTlb'[d] = pgTlb[d]
  BY <1>2, <1>3 DEF Translate
<1>6. \A d \in DOMAIN pgTlb : Fresh(pgPte, pgTlb[d]) => Fresh(pgPte, pgTlb'[d])
  BY <1>3, <1>4, <1>5 DEF Fresh
<1>7. PgShape' /\ Tree(pgPte)' /\ SentInv' /\ PgQueueInv' /\ PgWorkInv' /\ DoneInv'
  BY <1>1, <1>3 DEF PgIInv, PgShape, SentInv, PgQueueInv, PgWorkInv, DoneInv, PgCpuSet
<1>8. PgFlushInv'
  <2>1. 0 \in DOMAIN pgTlb /\ PgCpuSet \subseteq DOMAIN pgTlb
    BY PagingAssumption DEF PgIInv, PgShape, PgCpuSet
  <2> QED BY <1>1, <1>6, <2>1 DEF PgIInv, PgFlushInv, PgCpuSet
<1> QED BY <1>7, <1>8 DEF PgIInv

\* The same request, further on: only what the page manager does has changed.
LEMMA WorkMoves ==
    ASSUME NEW p, NEW r, NEW d \in DoRec, NEW e, NEW op \in {"send", "spin", "answer"}, e = [d EXCEPT !.op = op],
           d.end # 0 => WorkOK(p, r, d) /\ d.va = d.end
    PROVE  /\ e \in DoRec /\ e.op = op /\ e.cpu = d.cpu /\ e.end = d.end
           /\ e.end # 0 => WorkOK(p, r, e)
<1>1. e \in DoRec /\ e.op = op /\ e.cpu = d.cpu /\ e.end = d.end /\ e.va = d.va /\ e.frame = d.frame
  BY DEF DoRec
<1> QED BY <1>1 DEF WorkOK

\* Every page has been written.
LEMMA MappedKeeps ==
    ASSUME PgIInv, PgMapped
    PROVE  PgIInv'
<1>1. /\ pgDo.op = "map" /\ pgDo.va = pgDo.end /\ pgDo' = [pgDo EXCEPT !.op = "send"]
      /\ UNCHANGED <<pgCpus, pgPte, pgFree, pgTlb, pgLeft, pgSent, pgFifo, pgBits, pgIpi, pgAck, pgStop>>
  BY DEF PgMapped
<1>2. pgDo \in DoRec /\ pgDo.end # 0 /\ WorkOK(pgPte, pgSent[pgDo.cpu], pgDo)
  BY <1>1 DEF PgIInv, PgShape, PgWorkInv, DoRec
<1>3. /\ pgDo' \in DoRec /\ pgDo'.op = "send" /\ pgDo'.cpu = pgDo.cpu /\ pgDo'.end = pgDo.end
      /\ pgDo'.end # 0 => WorkOK(pgPte, pgSent[pgDo.cpu], pgDo')
  BY <1>1, <1>2, WorkMoves
<1>4. PgShape' /\ Tree(pgPte)' /\ SentInv' /\ DoneInv'
  BY <1>1, <1>3 DEF PgIInv, PgShape, SentInv, DoneInv, DoRec, PgCpuSet
<1>5. PgQueueInv'
  BY <1>1, <1>3 DEF PgIInv, PgQueueInv
<1>6. PgWorkInv'
  BY <1>1, <1>3 DEF PgIInv, PgWorkInv
<1>7. PgFlushInv'
  BY <1>1, <1>3 DEF PgIInv, PgFlushInv, PgCpuSet
<1> QED BY <1>4, <1>5, <1>6, <1>7 DEF PgIInv

\* broadcast_invalidate_tlb sets the bits and sends the interrupts.
LEMMA SendKeeps ==
    ASSUME PgIInv, PgSend
    PROVE  PgIInv'
<1>1. /\ pgDo.op = "send" /\ pgBits' = OtherCpus /\ pgIpi' = pgIpi \cup (PgCpuSet \ {0})
      /\ pgDo' = [pgDo EXCEPT !.op = IF pgCpus < 2 THEN "answer" ELSE "spin"]
      /\ UNCHANGED <<pgCpus, pgPte, pgFree, pgTlb, pgLeft, pgSent, pgFifo, pgAck, pgStop>>
  BY DEF PgSend
<1>2. PICK op \in {"send", "spin", "answer"} : op = IF pgCpus < 2 THEN "answer" ELSE "spin"
  OBVIOUS
<1>3. pgDo \in DoRec /\ (pgDo.end # 0 => WorkOK(pgPte, pgSent[pgDo.cpu], pgDo) /\ pgDo.va = pgDo.end)
  BY <1>1 DEF PgIInv, PgShape, PgWorkInv, DoRec, WorkOK
<1>4. /\ pgDo' \in DoRec /\ pgDo'.op = op /\ pgDo'.cpu = pgDo.cpu /\ pgDo'.end = pgDo.end
      /\ pgDo'.end # 0 => WorkOK(pgPte, pgSent[pgDo.cpu], pgDo')
  BY <1>1, <1>2, <1>3, WorkMoves
<1>5. PgShape' /\ Tree(pgPte)' /\ SentInv' /\ DoneInv'
  BY <1>1, <1>4 DEF PgIInv, PgShape, SentInv, DoneInv, DoRec, PgCpuSet, OtherCpus
<1>6. PgQueueInv'
  BY <1>1, <1>2, <1>4 DEF PgIInv, PgQueueInv
<1>7. PgWorkInv'
  BY <1>1, <1>2, <1>4 DEF PgIInv, PgWorkInv
<1>8. PgFlushInv'
  <2>1. CASE pgCpus < 2
    <3>1. PgCpuSet \ {0} = {}
      BY <2>1 DEF PgIInv, PgShape, PgCpuSet
    <3> QED BY <1>1, <1>2, <1>4, <2>1, <3>1 DEF PgIInv, PgFlushInv, PgCpuSet, OtherCpus
  <2>2. CASE ~(pgCpus < 2)
    BY <1>1, <1>2, <1>4, <2>2, PagingAssumption DEF PgIInv, PgShape, PgFlushInv, PgCpuSet, OtherCpus
  <2> QED BY <2>1, <2>2
<1> QED BY <1>5, <1>6, <1>7, <1>8 DEF PgIInv

\* The sender waits for the bits.
LEMMA SpinsKeeps ==
    ASSUME PgIInv, PgSpins
    PROVE  PgIInv'
<1>1. /\ pgDo.op = "spin"
      /\ UNCHANGED <<pgCpus, pgPte, pgFree, pgTlb, pgLeft, pgSent, pgFifo, pgBits, pgIpi, pgAck>>
      /\ pgDo' = pgDo \/ (pgBits = {} /\ pgDo' = [pgDo EXCEPT !.op = "answer"])
  BY DEF PgSpins
<1>2. CASE pgDo' = pgDo
  BY <1>1, <1>2 DEF PgIInv, PgShape, SentInv, PgQueueInv, PgWorkInv, DoneInv, PgFlushInv, PgCpuSet
<1>3. CASE pgBits = {} /\ pgDo' = [pgDo EXCEPT !.op = "answer"]
  <2>1. pgDo \in DoRec /\ (pgDo.end # 0 => WorkOK(pgPte, pgSent[pgDo.cpu], pgDo) /\ pgDo.va = pgDo.end)
    BY <1>1 DEF PgIInv, PgShape, PgWorkInv, DoRec, WorkOK
  <2>2. /\ pgDo' \in DoRec /\ pgDo'.op = "answer" /\ pgDo'.cpu = pgDo.cpu /\ pgDo'.end = pgDo.end
        /\ pgDo'.end # 0 => WorkOK(pgPte, pgSent[pgDo.cpu], pgDo')
    BY <1>3, <2>1, WorkMoves
  <2>3. PgShape' /\ Tree(pgPte)' /\ SentInv' /\ DoneInv'
    BY <1>1, <2>2 DEF PgIInv, PgShape, SentInv, DoneInv, DoRec, PgCpuSet
  <2>4. PgQueueInv'
    BY <1>1, <2>2 DEF PgIInv, PgQueueInv
  <2>5. PgWorkInv'
    BY <1>1, <2>2 DEF PgIInv, PgWorkInv
  <2>6. PgFlushInv'
    BY <1>1, <1>3, <2>2 DEF PgIInv, PgFlushInv, PgCpuSet
  <2> QED BY <2>3, <2>4, <2>5, <2>6 DEF PgIInv
<1> QED BY <1>1, <1>2, <1>3

\* ipi_tlb_flush_handler.
LEMMA HandlerKeeps ==
    ASSUME PgIInv, NEW c \in PgCpuSet, PgHandler(c)
    PROVE  PgIInv'
<1>1. /\ UNCHANGED <<pgCpus, pgPte, pgFree, pgLeft, pgSent, pgFifo, pgDo, pgStop>> /\ pgBits' \subseteq pgBits
      /\ DOMAIN pgTlb' = DOMAIN pgTlb
  BY DEF PgHandler, Flush, Flushed
<1>2. PgShape' /\ Tree(pgPte)' /\ SentInv' /\ PgQueueInv' /\ PgWorkInv' /\ DoneInv'
  BY <1>1 DEF PgIInv, PgShape, SentInv, PgQueueInv, PgWorkInv, DoneInv, PgCpuSet
<1>3. PgFlushInv'
  <2>1. 0 \in DOMAIN pgTlb /\ PgCpuSet \subseteq DOMAIN pgTlb
    BY PagingAssumption DEF PgIInv, PgShape, PgCpuSet
  <2>2. CASE Flush(c)
    <3>1. \A d \in DOMAIN pgTlb : Fresh(pgPte, pgTlb'[d]) \/ (d # c /\ pgTlb'[d] = pgTlb[d])
      BY <2>2 DEF Flush, Fresh
    <3> QED BY <1>1, <2>1, <2>2, <3>1 DEF Flush, PgIInv, PgFlushInv, PgCpuSet
  <2>3. CASE Flushed(c)
    BY <1>1, <2>1, <2>3 DEF Flushed, PgIInv, PgFlushInv, PgCpuSet
  <2> QED BY <2>2, <2>3 DEF PgHandler
<1> QED BY <1>2, <1>3 DEF PgIInv

\* The request is answered.
LEMMA AnswerKeeps ==
    ASSUME PgIInv, PgAnswer
    PROVE  PgIInv'
<1>1. /\ pgDo.op = "answer" /\ pgDo' = PgIdle
      /\ UNCHANGED <<pgCpus, pgPte, pgFree, pgTlb, pgLeft, pgFifo, pgBits, pgIpi, pgAck, pgStop>>
  BY DEF PgAnswer
<1>2. PICK c \in PgThreads : c = pgDo.cpu
  BY <1>1 DEF PgIInv, PgQueueInv
<1>3. PICK r \in SentRec : r = pgSent[c]
  BY DEF PgIInv, PgShape
<1>4. pgDo.end \in Int /\ pgSent \in [PgThreads -> SentRec] /\ r.st = "posted" /\ r.t # "none" /\ ReqOK(r)
  BY <1>1, <1>2, <1>3 DEF PgIInv, PgShape, PgQueueInv, SentInv
<1>5. PICK s : s = [r EXCEPT !.st = "done", !.at = pgDo.end]
  OBVIOUS
<1>6. /\ s \in SentRec /\ s.st = "done" /\ s.at = pgDo.end
      /\ s.t = r.t /\ s.va = r.va /\ s.len = r.len /\ s.frame = r.frame /\ s.attr = r.attr
  BY <1>4, <1>5 DEF SentRec
<1>7. pgSent' = [pgSent EXCEPT ![c] = s]
  BY <1>2, <1>3, <1>4, <1>5 DEF PgAnswer
<1>8. pgSent'[c] = s /\ \A d \in PgThreads \ {c} : pgSent'[d] = pgSent[d]
  BY <1>4, <1>7
<1>9. ReqOK(s) /\ PgStart(s) = PgStart(r) /\ Rw(s) = Rw(r)
  <2>1. PgPages(s) = PgPages(r)
    BY <1>6 DEF PgPages
  <2> QED BY <1>4, <1>6, <2>1 DEF ReqOK, PgStart, Rw
<1>10. PgIdle \in DoRec /\ PgIdle.op = "wait"
  BY DEF PgIdle, DoRec
<1>11. PgShape'
  BY <1>1, <1>4, <1>6, <1>7, <1>10 DEF PgIInv, PgShape, DoRec, PgCpuSet
<1>12. Tree(pgPte)' /\ SentInv'
  BY <1>1, <1>4, <1>6, <1>8, <1>9 DEF PgIInv, SentInv
<1>13. PgQueueInv'
  <2>1. \A i \in 1..Len(pgFifo) : pgFifo[i] \in PgThreads \ {c}
    BY <1>1, <1>2 DEF PgIInv, PgShape, PgQueueInv
  <2> QED BY <1>1, <1>8, <1>10, <2>1 DEF PgIInv, PgQueueInv
<1>14. PgWorkInv'
  BY <1>1, <1>10 DEF PgWorkInv
<1>15. DoneInv'
  <2> SUFFICES ASSUME NEW d \in PgThreads, pgSent'[d].st = "done", pgSent'[d].at > 0,
                      \A k \in PgThreads \ {d} : pgSent'[k].t = "none",
                      NEW v \in PgStart(pgSent'[d])..(pgSent'[d].at - 1)
               PROVE  AskedAt(pgPte, pgSent'[d], v)
    BY <1>1 DEF DoneInv
  <2>1. d = c
    BY <1>4, <1>6, <1>8
  <2>2. v \in PgStart(r)..(pgDo.end - 1) /\ pgDo.end # 0
    BY <1>4, <1>6, <1>8, <1>9, <2>1
  <2>3. WorkOK(pgPte, r, pgDo)
    BY <1>1, <1>2, <1>3, <2>2 DEF PgIInv, PgWorkInv
  <2>4. AskedAt(pgPte, r, v)
    BY <1>1, <2>2, <2>3 DEF WorkOK
  <2> QED BY <1>6, <1>8, <1>9, <2>1, <2>4 DEF AskedAt
<1>16. PgFlushInv'
  BY <1>1, <1>10 DEF PgIInv, PgFlushInv, PgCpuSet
<1> QED BY <1>11, <1>12, <1>13, <1>14, <1>15, <1>16 DEF PgIInv

\* What the run checks follows.
LEMMA PagesAsStated == PgIInv => PagingInv
<1> SUFFICES ASSUME PgIInv PROVE PagingInv
  OBVIOUS
<1>1. PgTypeOK
  <2>1. ASSUME NEW e \in Entries, pgPte[e].large PROVE e[1] = 2
    <3>1. PICK l \in 1..4, v \in PgSpace : e = PteOf(l, v)
      BY DEF Entries
    <3>2. WayOK(pgPte, v)
      BY DEF PgIInv, Tree
    <3>3. l = 2
      BY <2>1, <3>1, <3>2 DEF WayOK
    <3> QED BY <3>1, <3>3 DEF PteOf
  <2> QED BY <2>1 DEF PgIInv, PgShape, PgTypeOK
<1>2. NoStaleTranslation
  BY DEF PgIInv, PgFlushInv, NoStaleTranslation, Fresh, Translate
<1>3. MappedAsAsked
  <2> SUFFICES ASSUME NEW c \in PgThreads, pgSent[c].st = "done", pgSent[c].at > 0, Rw(pgSent[c]).p,
                      Cardinality({d \in PgThreads : pgSent[d].t # "none"}) = 1,
                      NEW v \in PgStart(pgSent[c])..(pgSent[c].at - 1)
               PROVE  /\ Translate(v).ok /\ Translate(v).write = Rw(pgSent[c]).w /\ Translate(v).exec = Rw(pgSent[c]).x
                      /\ pgSent[c].t \in {"Mmio", "Framebuffer"} => DirectMap(Translate(v).frame) = v
    BY DEF MappedAsAsked
  <2>1. PICK S : S = {d \in PgThreads : pgSent[d].t # "none"}
    OBVIOUS
  <2>2. c \in S /\ ReqOK(pgSent[c])
    BY <2>1 DEF PgIInv, SentInv
  <2>3. S = {c}
    <3>1. IsFiniteSet(S)
      BY <2>1, PagingAssumption, FS_Subset
    <3>2. Cardinality(S) = 1
      BY <2>1
    <3>3. \E x : S = {x}
      BY <3>1, <3>2, FS_Singleton
    <3> QED BY <2>2, <3>3
  <2>4. AskedAt(pgPte, pgSent[c], v)
    BY <2>1, <2>3 DEF PgIInv, DoneInv
  <2>5. Rw(pgSent[c]).p = TRUE
    BY <2>2, RwIs
  <2>6. /\ v \in PgSpace /\ LeafOf(pgPte, v).present = TRUE
        /\ LeafOf(pgPte, v).write = Rw(pgSent[c]).w /\ LeafOf(pgPte, v).exec = Rw(pgSent[c]).x
        /\ pgSent[c].t \in {"Mmio", "Framebuffer"} => DirectMap(Walk(pgPte, v).frame) = v
    BY <2>4, <2>5 DEF AskedAt
  <2>7. PICK f : Walk(pgPte, v) = [ok |-> TRUE, frame |-> f, write |-> LeafOf(pgPte, v).write, exec |-> LeafOf(pgPte, v).exec]
    BY <2>6, WalkIs DEF PgIInv
  <2>8. Walk(pgPte, v).ok = TRUE /\ Walk(pgPte, v).write = Rw(pgSent[c]).w /\ Walk(pgPte, v).exec = Rw(pgSent[c]).x
    BY <2>6, <2>7
  <2> QED BY <2>6, <2>8 DEF Translate
<1> QED BY <1>1, <1>2, <1>3 DEF PagingInv

\* Once mmap has returned no processor uses an older translation of its pages, as
\* long as there are fewer processors than bits of AffinityBits; a page that the
\* only thread has mapped leads to its frame with the rights that were asked
\* for, large pages are entries of level 2, and frames and queue keep their
\* bounds (PageManager::mmap, broadcast_invalidate_tlb).
THEOREM TranslationsAreFresh == PagingSpec => []PagingInv
<1>1. PgIInv /\ [PagingNext]_pgVars => PgIInv'
  <2> SUFFICES ASSUME PgIInv, [PagingNext]_pgVars PROVE PgIInv'
    OBVIOUS
  <2>1. CASE PgThread
    BY <2>1, TakeKeeps, MapKeeps, MappedKeeps, SendKeeps, SpinsKeeps, AnswerKeeps DEF PgThread
  <2>2. CASE \E k \in PgThreads : PgPost(k)
    BY <2>2, PostKeeps
  <2>3. CASE \E c \in PgCpuSet : PgAccess(c) \/ PgHandler(c)
    BY <2>3, AccessKeeps, HandlerKeeps
  <2>4. CASE UNCHANGED pgVars
    BY <2>4 DEF pgVars, PgIInv, PgShape, SentInv, PgQueueInv, PgWorkInv, DoneInv, PgFlushInv, PgCpuSet
  <2> QED BY <2>1, <2>2, <2>3, <2>4 DEF PagingNext
<1> QED BY <1>1, PgInitInv, PagesAsStated, PTL DEF PagingSpec
=============================================================================
