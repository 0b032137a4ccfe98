-------------------------------- MODULE Apic --------------------------------
(***************************************************************************)
(* Start of the application processors and routing of interrupts.          *)
(*                                                                         *)
(* The first processor starts the others one after the other; each enters  *)
(* itself into the list of processors, says so in AP_BOOT_OK and waits for *)
(* AP_STALLED to be reset.  Then drivers register handlers of interrupt    *)
(* lines and of messages, while devices raise interrupts.                  *)
(***************************************************************************)
EXTENDS Integers, Sequences, FiniteSets, SequencesExt, FiniteSetsExt, TLC

CONSTANTS ApIds,        \* APIC ids of the application processors, in order
          IoApics,      \* controllers: first line and number of lines
          Gsi,          \* gsi_table: line of each interrupt request, 0 is none
          IrqPlans,     \* what drivers do
          MaxMsi        \* MAX_MSI

Bsp == 0
Drivers == UNION {{plan[n].driver : n \in 1..Len(plan)} : plan \in IrqPlans}

\* Processors have different ids, and drivers have names.
ASSUME ApicAssumption ==
    /\ ApIds \in Seq(Nat \ {Bsp}) /\ \A m, n \in 1..Len(ApIds) : ApIds[m] = ApIds[n] => m = n
    /\ IoApics \in Seq([base : Nat, entries : Nat]) /\ MaxMsi \in Nat
    /\ "none" \notin Drivers /\ DOMAIN Gsi \subseteq Nat /\ \A irq \in DOMAIN Gsi : Gsi[irq] \in Nat
    /\ \A plan \in IrqPlans :
          /\ plan \in Seq([t : {"register", "enable", "disable", "msi"}, irq : Nat, driver : Drivers])
          /\ \A n \in 1..Len(plan) : plan[n].irq \in DOMAIN Gsi

Invalid == -1
Lines == UNION {a.base..(a.base + a.entries - 1) : a \in Range(IoApics)}
MsiLine(n) == Max(Lines) + 1 + n
AllLines == Lines \cup {MsiLine(n) : n \in 0..(MaxMsi - 1)}

VARIABLES apBoot,       \* where the first processor is
          apState,      \* where each application processor is
          apOk,         \* AP_BOOT_OK
          apStalled,    \* AP_STALLED
          apCpus,       \* System::cpus
          apIndex,      \* CURRENT_PROCESSOR_INDEXES
          apIdt,        \* idt and idt_params: the driver whose handler is installed, or "none"
          apRedir,      \* entries of the controllers: "masked" or "open"
          apMsi,        \* NEXT_MSI
          apLeft,       \* what drivers have still to do
          apDo,         \* steps of the call in progress
          apCalled,     \* handlers that were called: line, owner
          apSays,       \* results of the calls
          apStop        \* why the system has stopped
apVars == <<apBoot, apState, apOk, apStalled, apCpus, apIndex, apIdt, apRedir, apMsi, apLeft, apDo, apCalled, apSays, apStop>>
bootVars == <<apBoot, apState, apOk, apStalled, apCpus, apIndex>>
irqVars == <<apIdt, apRedir, apMsi, apLeft, apDo, apCalled, apSays>>

ApInit ==
    /\ apBoot = [n |-> 1, pc |-> "init"] /\ apState = [a \in Range(ApIds) |-> "off"]
    /\ apOk = FALSE /\ apStalled = TRUE /\ apCpus = <<Bsp>>
    /\ apIndex = [a \in {Bsp} \cup Range(ApIds) |-> IF a = Bsp THEN 0 ELSE Invalid]
    /\ apIdt = [l \in AllLines |-> "none"] /\ apRedir = [l \in Lines |-> "masked"]
    /\ apMsi = 0 /\ apLeft \in IrqPlans /\ apDo = <<>> /\ apCalled = {} /\ apSays = <<>> /\ apStop = "no"

-----------------------------------------------------------------------------
(* Start *)

At(pc) == apStop = "no" /\ apBoot.pc = pc
BootGo(n, pc) == apBoot' = [n |-> n, pc |-> pc]

SendInitIpi ==
    /\ At("init") /\ apBoot.n <= Len(ApIds) /\ BootGo(apBoot.n, "reset")
    /\ UNCHANGED <<apState, apOk, apStalled, apCpus, apIndex, irqVars, apStop>>

\* Mutant: the answer of the processor before is still there.
ResetOkNever ==
    /\ At("reset") /\ BootGo(apBoot.n, "sipi")
    /\ UNCHANGED <<apState, apOk, apStalled, apCpus, apIndex, irqVars, apStop>>

ResetOk ==
    /\ At("reset") /\ apOk' = FALSE /\ BootGo(apBoot.n, "sipi")
    /\ UNCHANGED <<apState, apStalled, apCpus, apIndex, irqVars, apStop>>
SendStartupIpi ==
    /\ At("sipi") /\ apState' = [apState EXCEPT ![ApIds[apBoot.n]] = "started"] /\ BootGo(apBoot.n, "spin")
    /\ UNCHANGED <<apOk, apStalled, apCpus, apIndex, irqVars, apStop>>

\* The processor has answered, or 100 ms are over.
AwaitAp ==
    /\ At("spin")
    /\ \/ apOk /\ BootGo(apBoot.n + 1, "init") /\ UNCHANGED apStop
       \/ ~apOk /\ apStop' = "not responding" /\ UNCHANGED apBoot
    /\ UNCHANGED <<apState, apOk, apStalled, apCpus, apIndex, irqVars>>

\* apic_start_ap and System::activate_cpu: the list is a vector without a
\* lock; it is read, extended and counted.
ApEnters(a) ==
    /\ apStop = "no" /\ apState[a] = "started" /\ apState' = [apState EXCEPT ![a] = "adding"]
    /\ UNCHANGED <<apBoot, apOk, apStalled, apCpus, apIndex, irqVars, apStop>>
ApAdded(a) ==
    /\ apStop = "no" /\ apState[a] = "adding" /\ apState' = [apState EXCEPT ![a] = "added"]
    /\ apCpus' = Append(apCpus, a)
    /\ UNCHANGED <<apBoot, apOk, apStalled, apIndex, irqVars, apStop>>
ApAnswers(a) ==
    /\ apStop = "no" /\ apState[a] = "added" /\ apState' = [apState EXCEPT ![a] = "stalled"] /\ apOk' = TRUE
    /\ UNCHANGED <<apBoot, apStalled, apCpus, apIndex, irqVars, apStop>>
ApRuns(a) ==
    /\ apStop = "no" /\ apState[a] = "stalled" /\ ~apStalled /\ apState' = [apState EXCEPT ![a] = "runs"]
    /\ UNCHANGED <<apBoot, apOk, apStalled, apCpus, apIndex, irqVars, apStop>>

NumberCpus ==
    /\ At("init") /\ apBoot.n > Len(ApIds) /\ BootGo(apBoot.n, "go")
    /\ apIndex' = [a \in DOMAIN apIndex |->
                      IF a \in Range(apCpus) THEN (CHOOSE n \in 1..Len(apCpus) : apCpus[n] = a) - 1 ELSE apIndex[a]]
    /\ UNCHANGED <<apState, apOk, apStalled, apCpus, irqVars, apStop>>
LetGo ==
    /\ At("go") /\ apStalled' = FALSE /\ BootGo(apBoot.n, "done")
    /\ UNCHANGED <<apState, apOk, apCpus, apIndex, irqVars, apStop>>

-----------------------------------------------------------------------------
(* Interrupts *)

Controllers(line) == {n \in 1..Len(IoApics) : IoApics[n].base <= line /\ line - IoApics[n].base < IoApics[n].entries}
Local(line) == line - IoApics[Min(Controllers(line))].base

RegisterSteps(line, driver) == <<[op |-> "idt", line |-> line, driver |-> driver], [op |-> "open", line |-> line]>>

Says(what) == apSays' = Append(apSays, what)

\* Apic::register; irq_enabled is set_irq_enabled, which doubles the number of
\* the line twice, so that it reaches the entry of another one.
Entry2(line) == IoApics[Min(Controllers(line))].base + (2 * Local(line))

MsiLeft == apMsi < MaxMsi

IrqCall ==
    /\ At("done") /\ apDo = <<>> /\ apLeft # <<>> /\ apLeft' = Tail(apLeft)
    /\ LET c == Head(apLeft)
           line == Gsi[c.irq]
       IN \/ /\ c.t = "register"
             /\ IF line = 0 \/ Controllers(line) = {} \/ apIdt[line] # "none"
                THEN Says("Err") /\ UNCHANGED apDo
                ELSE Says("Ok") /\ apDo' = RegisterSteps(line, c.driver)
             /\ UNCHANGED <<apRedir, apMsi>>
          \/ /\ c.t \in {"enable", "disable"} /\ UNCHANGED <<apDo, apMsi>>
             /\ IF Controllers(line) = {} THEN Says("Err") /\ UNCHANGED apRedir
                ELSE /\ Says("Ok")
                     /\ apRedir' = IF Entry2(line) \in Lines
                                   THEN [apRedir EXCEPT ![Entry2(line)] = IF c.t = "enable" THEN "open" ELSE "masked"]
                                   ELSE apRedir
          \/ /\ c.t = "msi" /\ UNCHANGED apRedir
             /\ IF MsiLeft
                THEN /\ apMsi' = apMsi + 1 /\ Says("Ok")
                     /\ apDo' = <<[op |-> "idt", line |-> MsiLine(apMsi), driver |-> c.driver]>>
                ELSE Says("Err") /\ UNCHANGED <<apMsi, apDo>>
    /\ UNCHANGED <<bootVars, apIdt, apCalled, apStop>>
IrqStep ==
    /\ apStop = "no" /\ apDo # <<>> /\ apDo' = Tail(apDo)
    /\ LET o == Head(apDo)
       IN IF o.op = "idt" THEN apIdt' = [apIdt EXCEPT ![o.line] = o.driver] /\ UNCHANGED apRedir
          ELSE apRedir' = [apRedir EXCEPT ![o.line] = "open"] /\ UNCHANGED apIdt
    /\ UNCHANGED <<bootVars, apMsi, apLeft, apCalled, apSays, apStop>>

\* handle_irq: a device raises a line that is open, or sends a message that
\* its driver has set up.
HandleIrq(line) ==
    /\ apStop = "no"
    /\ IF line \in Lines THEN apRedir[line] = "open" ELSE apIdt[line] # "none" /\ apDo = <<>>
    /\ IF apIdt[line] = "none" THEN apStop' = "not installed" /\ UNCHANGED apCalled
       ELSE apCalled' = apCalled \cup {<<line, apIdt[line]>>} /\ UNCHANGED apStop
    /\ UNCHANGED <<bootVars, apIdt, apRedir, apMsi, apLeft, apDo, apSays>>

ApStep(a) == ApEnters(a) \/ ApAdded(a) \/ ApAnswers(a) \/ ApRuns(a)
BspStep == SendInitIpi \/ ResetOk \/ SendStartupIpi \/ AwaitAp \/ NumberCpus \/ LetGo \/ IrqCall \/ IrqStep
ApicNext == BspStep \/ (\E a \in Range(ApIds) : ApStep(a)) \/ \E l \in AllLines : HandleIrq(l)
ApicSpec == ApInit /\ [][ApicNext]_apVars

-----------------------------------------------------------------------------
(* Properties *)

\* One driver at most calls of each line, and the list of processors has no
\* more than there are.
ApTypeOK == Len(apCpus) <= Len(ApIds) + 1 /\ apMsi \in 0..MaxMsi /\ apIdt \in [AllLines -> Drivers \cup {"none"}]

\* Processors enter the list one at a time (System::activate_cpu has no lock).
OneApEnters == Cardinality({a \in Range(ApIds) : apState[a] \in {"started", "adding", "added"}}) <= 1

\* A processor that runs has an index of its own, which is its place in the
\* list of processors.
RunningApsIndexed ==
    \A a \in Range(ApIds) : apState[a] = "runs" =>
        apIndex[a] + 1 \in 1..Len(apCpus) /\ apCpus[apIndex[a] + 1] = a

\* An interrupt that nobody has installed a handler for stops the system only
\* after enable was called for a line, which opens another one.
Remains(plan) == Len(apLeft) <= Len(plan) /\ \A n \in 1..Len(apLeft) : apLeft[n] = plan[Len(plan) - Len(apLeft) + n]
FiresInstalled ==
    apStop = "not installed" =>
        \E plan \in IrqPlans : Remains(plan) /\ \E n \in 1..(Len(plan) - Len(apLeft)) : plan[n].t = "enable"

ApicInv == ApTypeOK /\ OneApEnters /\ RunningApsIndexed /\ FiresInstalled

\* All processors run, unless one did not answer in time.
AllCpusRun == apStop # "no" \/ \A a \in Range(ApIds) : apState[a] = "runs"
=============================================================================
