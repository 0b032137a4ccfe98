------------------------------ MODULE MCMemory ------------------------------
(***************************************************************************)
(* The page allocator, a slab cache, page tables and the start of the      *)
(* processors on small instances.  Each behaviour exercises one of them;   *)
(* the others rest.                                                        *)
(***************************************************************************)
EXTENDS PageAllocator, SlabCache, Paging, Apic

VARIABLE unit           \* the component that is exercised

\* Two extents with a hole of one page between them.
TwoExtents == <<[base |-> 1, size |-> 4], [base |-> 6, size |-> 3]>>

allVars == <<unit, vars, paVars, pgVars, apVars>>

-----------------------------------------------------------------------------
(* Requests to the page manager, by two threads *)

Mmio(f, n) == [t |-> "Mmio", va |-> 0, len |-> n, attr |-> "Read", frame |-> f]
Screen(f, n) == [Mmio(f, n) EXCEPT !.t = "Framebuffer"]
Mapping(t, va, n, attr) == [t |-> t, va |-> va, len |-> n, attr |-> attr, frame |-> 0]

RequestPlans ==
    {<<<<Mmio(1, 2), Screen(4, 3)>>, <<Screen(2, 1)>>>>,
     <<<<Mapping("Kernel", 16, 2, "Read"), Mapping("MProtect", 16, 2, "ReadWrite"),
         Mapping("MProtect", 17, 1, "ReadExec"), Mapping("MProtect", 16, 1, "None")>>, <<>>>>,
     <<<<Mmio(1, 1), Mmio(1, 0)>>, <<Mmio(3, 1)>>>>,
     <<<<Mapping("User", 0, 3, "Read"), Mapping("User", 2, 1, "ReadExec"), Mapping("User", 4, 4, "Read"),
         Mapping("MProtect", 30, 1, "Read")>>, <<Mmio(1, 1)>>>>,
     <<<<Mapping("Kernel", 16, 7, "Read"), Mapping("Kernel", 16, 3, "Read")>>, <<>>>>}

-----------------------------------------------------------------------------
(* Three more processors, two controllers, and what drivers ask of them *)

MoreCpus == <<4, 2, 6>>
TwoControllers == <<[base |-> 0, entries |-> 4], [base |-> 4, entries |-> 2]>>
GsiTable == (0 :> 2) @@ (1 :> 1) @@ (5 :> 5) @@ (6 :> 9) @@ [i \in 2..4 |-> 0]
Call(t, irq, driver) == [t |-> t, irq |-> irq, driver |-> driver]
DriverPlans ==
    {<<Call("register", 1, "ps2"), Call("register", 0, "hpet"), Call("register", 1, "x"),
       Call("register", 3, "x"), Call("register", 6, "x"), Call("register", 5, "y"), Call("disable", 1, "")>>,
     <<Call("msi", 0, "xhci"), Call("msi", 0, "hda"), Call("msi", 0, "x"), Call("register", 1, "ps2")>>,
     <<Call("register", 1, "ps2"), Call("enable", 1, ""), Call("enable", 6, "")>>}

-----------------------------------------------------------------------------
Rests(name, same) == unit = name \/ same

MCInit ==
    /\ unit \in {"pages", "slab", "paging", "apic"}
    /\ PgInit /\ Rests("paging", pgCpus = 1 /\ Len(pgLeft[1]) = 2 /\ Len(pgLeft[2]) = 0)
    /\ ApInit /\ Rests("apic", Len(apLeft) = 3)
    /\ Init /\ PaInit

MCNext ==
    \/ unit = "pages" /\ PageNext /\ UNCHANGED <<unit, vars, pgVars, apVars>>
    \/ unit = "slab" /\ Next /\ UNCHANGED <<unit, paVars, pgVars, apVars>>
    \/ unit = "paging" /\ PagingNext /\ UNCHANGED <<unit, vars, paVars, apVars>>
    \/ unit = "apic" /\ ApicNext /\ UNCHANGED <<unit, vars, paVars, pgVars>>

\* The page manager is a thread of the highest priority and its clients are
\* awake; processors take interrupts and run their code.
MCFairness ==
    /\ WF_pgVars(unit = "paging" /\ PgThread)
    /\ \A k \in PgThreads : WF_pgVars(unit = "paging" /\ PgPost(k))
    /\ \A p \in 1..2 : WF_pgVars(unit = "paging" /\ PgHandler(p))
    /\ WF_apVars(unit = "apic" /\ BspStep)
    /\ \A p \in {2, 4, 6} : WF_apVars(unit = "apic" /\ ApStep(p))

MCSpec == MCInit /\ [][MCNext]_allVars /\ MCFairness

-----------------------------------------------------------------------------
(* Properties *)

\* What must come: every request to the page manager is answered, and every
\* processor that answers in time runs.
MemProgress == <>((unit = "paging" => MmapsReturned) /\ (unit = "apic" => AllCpusRun))
=============================================================================
