------------------------------- MODULE Paging -------------------------------
(***************************************************************************)
(* Page tables, the thread that changes them and the translation buffers   *)
(* of the processors.  A thread posts a request to the page manager and    *)
(* waits; the page manager writes the tables, entry by entry, has every    *)
(* other processor drop its translations and answers.                      *)
(*                                                                         *)
(* An address is the number of its page.  A table has two entries, but the *)
(* top level has four areas: user, direct map, heap and the tables         *)
(* themselves.  An entry of level n spans Span[n] pages.                   *)
(***************************************************************************)
EXTENDS Integers, Sequences, FiniteSets, FiniteSetsExt

CONSTANTS PgCpuCounts,      \* numbers of processors
          CpuBits,          \* bits of AffinityBits
          PgThreads,        \* threads that make requests
          PgPlans,          \* their requests
          PgTouched,        \* pages that programs touch meanwhile
          PgFrames,         \* frames that the page allocator has
          PgQueue           \* length of the queue of requests

Area == 8
USER == 0
DIRECT == 1
HEAP == 2
Large == 2                                  \* pages of a large page
Span == <<1, 2, 4, Area>>
PgSpace == 0..(4 * Area - 1)
PteOf(level, va) == <<level, va \div Span[level]>>
Entries == {PteOf(level, va) : level \in 1..4, va \in PgSpace}
NoPte == [present |-> FALSE, large |-> FALSE, frame |-> 0, write |-> FALSE, exec |-> TRUE]
Rights(attr) == [w |-> attr = "ReadWrite", x |-> attr \in {"ReadExec", "None"}, p |-> attr # "None"]

PgPages(r) == IF r.t = "Framebuffer" THEN Large * ((r.len + Large - 1) \div Large) ELSE r.len
PgSize(r) == IF r.t = "Framebuffer" THEN Large ELSE 1

\* Requests of the kernel: devices lie in memory that the direct map holds, and
\* nobody protects pages of the direct map.
PgRequests ==
    {r \in [t : {"Mmio", "Framebuffer", "Kernel", "User", "MProtect"}, va : Nat, len : Nat,
            attr : {"None", "Read", "ReadWrite", "ReadExec"}, frame : Nat] :
        /\ r.t \in {"Mmio", "Framebuffer"} => r.frame + PgPages(r) <= Area
        /\ r.t = "MProtect" => r.va + r.len <= 4 * Area
                               /\ (r.va + r.len <= DIRECT * Area \/ r.va >= (DIRECT + 1) * Area)}

ASSUME PagingAssumption ==
    /\ CpuBits \in Nat /\ PgCpuCounts \subseteq 1..CpuBits
    /\ PgFrames \in Nat /\ PgQueue \in Nat /\ PgTouched \subseteq PgSpace /\ IsFiniteSet(PgThreads)
    /\ \A plan \in PgPlans : \A c \in PgThreads : plan[c] \in Seq(PgRequests)

VARIABLES pgCpus,       \* num_of_logical_cpus
          pgPte,        \* the page tables
          pgFree,       \* frames that are left
          pgTlb,        \* what each processor has looked up
          pgLeft,       \* requests that have still to be made
          pgSent,       \* the request of each thread, and where it ends when done
          pgFifo,       \* threads whose request is in the queue
          pgDo,         \* the page manager: what it does, for whom, the next page, its frame
          pgBits,       \* tlb_flush_bitmap
          pgIpi,        \* interrupts that have been sent
          pgAck,        \* processors in their handler
          pgStop        \* why the system has stopped
pgVars == <<pgCpus, pgPte, pgFree, pgTlb, pgLeft, pgSent, pgFifo, pgDo, pgBits, pgIpi, pgAck, pgStop>>

PgCpuSet == 0..(pgCpus - 1)
PgIdle == [op |-> "wait", cpu |-> 0, va |-> 0, frame |-> 0, end |-> 0]
NoRequest == [t |-> "none", va |-> 0, len |-> 0, attr |-> "Read", frame |-> 0, st |-> "done", at |-> 0]

PgInit ==
    /\ pgCpus \in PgCpuCounts
    /\ \E plan \in PgPlans : pgLeft = [c \in PgThreads |-> plan[c]]
    /\ pgPte = [e \in Entries |-> NoPte]
    /\ pgFree = PgFrames /\ pgTlb = [c \in 0..(CpuBits - 1) |-> <<>>]
    /\ pgSent = [c \in PgThreads |-> NoRequest]
    /\ pgFifo = <<>> /\ pgDo = PgIdle /\ pgBits = {} /\ pgIpi = {} /\ pgAck = {} /\ pgStop = "no"

-----------------------------------------------------------------------------
(* Requests *)

\* MemoryManager::mmap posts the request, or stops when the queue is full.
PgPost(c) ==
    /\ pgStop = "no" /\ pgSent[c].st = "done" /\ pgLeft[c] # <<>>
    /\ pgLeft' = [pgLeft EXCEPT ![c] = Tail(@)]
    /\ LET r == Head(pgLeft[c])
       IN pgSent' = [pgSent EXCEPT ![c] = [t |-> r.t, va |-> r.va, len |-> r.len, attr |-> r.attr,
                                           frame |-> r.frame, st |-> "posted", at |-> 0]]
    /\ IF Len(pgFifo) = PgQueue THEN pgStop' = "full" /\ UNCHANGED pgFifo
       ELSE pgFifo' = Append(pgFifo, c) /\ UNCHANGED pgStop
    /\ UNCHANGED <<pgCpus, pgPte, pgFree, pgTlb, pgDo, pgBits, pgIpi, pgAck>>

DirectMap(pa) == DIRECT * Area + pa

\* The page a request starts at; the direct map is where the device is.
PgStart(r) == IF r.t \in {"Mmio", "Framebuffer"} THEN DirectMap(r.frame) ELSE r.va

\* An area must hold the whole mapping, and one page more.
Within(r, min, max) ==
    r.va >= min * Area /\ r.va < max * Area /\ r.len < (max - min) * Area /\ r.va + r.len < max * Area

TablesPresent(r) == \A va \in r.va..(r.va + r.len - 1), level \in 2..4 : pgPte[PteOf(level, va)].present

\* What PageManager::mmap refuses before it writes anything.
Refused(r) ==
    \/ r.len = 0
    \/ r.t = "Kernel" /\ ~Within(r, HEAP, HEAP + 1)
    \/ r.t = "User" /\ ~Within(r, USER, USER + 1)
    \/ r.t = "Framebuffer" /\ PgStart(r) % Large # 0
    \/ r.t = "MProtect" /\ ~TablesPresent(r)

\* The page manager takes a request, allocates what it maps and begins.
PgTake ==
    /\ pgStop = "no" /\ pgDo.op = "wait" /\ pgFifo # <<>> /\ pgFifo' = Tail(pgFifo)
    /\ LET c == Head(pgFifo)
           r == pgSent[c]
           owned == r.t \in {"Kernel", "User"}
           short == owned /\ r.len > pgFree
           begin == [op |-> "map", cpu |-> c, va |-> PgStart(r),
                     frame |-> IF owned THEN pgFree - r.len + 1 ELSE r.frame, end |-> PgStart(r) + PgPages(r)]
       IN /\ pgDo' = IF Refused(r) \/ short THEN [PgIdle EXCEPT !.op = "send", !.cpu = c] ELSE begin
          /\ pgFree' = IF owned /\ ~Refused(r) /\ ~short THEN pgFree - r.len ELSE pgFree
    /\ UNCHANGED <<pgCpus, pgPte, pgTlb, pgLeft, pgSent, pgBits, pgIpi, pgAck, pgStop>>

-----------------------------------------------------------------------------
(* Tables *)

\* PageTableEntry::accept: rights of a table are only ever added.
Accept(e, w, x) == [e EXCEPT !.write = @ \/ w, !.exec = @ \/ x]

Rw(r) == CASE r.t \in {"Mmio", "Framebuffer"} -> [w |-> TRUE, x |-> FALSE, p |-> TRUE]
           [] OTHER -> Rights(r.attr)

\* _map_table_if_needed for the level, or the entry that is there.
Opened(pte, level, va, x) ==
    LET e == PteOf(level, va)
    IN IF pte[e].present THEN [pte EXCEPT ![e] = Accept(@, TRUE, x)]
       ELSE [pte EXCEPT ![e] = [present |-> TRUE, large |-> FALSE, frame |-> 0, write |-> TRUE, exec |-> x]]
MissingTables(va, levels) == Cardinality({l \in levels : ~pgPte[PteOf(l, va)].present})

Tables(va, lowest, x) ==
    LET four == Opened(pgPte, 4, va, x)
        three == Opened(four, 3, va, x)
    IN IF lowest = 3 THEN three ELSE Opened(three, 2, va, x)

\* The tables of a page that _mprotect adds rights to.
Accepted(va, levels, x) ==
    [e \in Entries |-> IF e \in {PteOf(l, va) : l \in levels} THEN Accept(pgPte[e], TRUE, x) ELSE pgPte[e]]

\* One page of _map or of _mprotect: the tables, the entry and invlpg, which
\* is for the processor of the page manager alone.
PgMap ==
    /\ pgStop = "no" /\ pgDo.op = "map" /\ pgDo.va < pgDo.end
    /\ LET r == pgSent[pgDo.cpu]
           va == pgDo.va
           size == PgSize(r)
           levels == IF size = Large THEN 3..4 ELSE 2..4
           rw == Rw(r)
           two == pgPte[PteOf(2, va)]
           entry == [present |-> rw.p, large |-> size = Large, frame |-> pgDo.frame, write |-> rw.w, exec |-> rw.x]
           tables == IF r.t = "MProtect"
                     THEN Accepted(va, levels, rw.x) ELSE Tables(va, Min(levels), rw.x)
           leaf == PteOf(IF size = Large THEN 2 ELSE 1, va)
           new == IF r.t = "MProtect"
                  THEN [pgPte[leaf] EXCEPT !.present = rw.p, !.write = rw.w, !.exec = rw.x] ELSE entry
       IN IF r.t # "MProtect" /\ MissingTables(va, levels) > pgFree
          THEN pgStop' = "memory" /\ UNCHANGED <<pgPte, pgFree, pgTlb, pgDo>>
          ELSE IF r.t # "MProtect" /\ two.present /\ two.large # (size = Large)
          THEN pgStop' = "large" /\ UNCHANGED <<pgPte, pgFree, pgTlb, pgDo>>
          ELSE /\ pgPte' = [tables EXCEPT ![leaf] = new]
               /\ pgFree' = IF r.t = "MProtect" THEN pgFree ELSE pgFree - MissingTables(va, levels)
               /\ pgTlb' = [pgTlb EXCEPT ![0] = [v \in DOMAIN @ \ (va..(va + size - 1)) |-> @[v]]]
               /\ pgDo' = [pgDo EXCEPT !.va = @ + size, !.frame = @ + size]
               /\ UNCHANGED pgStop
    /\ UNCHANGED <<pgCpus, pgLeft, pgSent, pgFifo, pgBits, pgIpi, pgAck>>

PgMapped ==
    /\ pgStop = "no" /\ pgDo.op = "map" /\ pgDo.va = pgDo.end
    /\ pgDo' = [pgDo EXCEPT !.op = "send"]
    /\ UNCHANGED <<pgCpus, pgPte, pgFree, pgTlb, pgLeft, pgSent, pgFifo, pgBits, pgIpi, pgAck, pgStop>>

-----------------------------------------------------------------------------
(* Translations *)

\* What a walk of the tables finds.
Walk(pte, va) ==
    LET two == pte[PteOf(2, va)]
        leaf == IF two.large THEN two ELSE pte[PteOf(1, va)]
        path == {pte[PteOf(l, va)] : l \in (IF two.large THEN 2 ELSE 1)..4}
    IN [ok |-> \A e \in path : e.present,
        frame |-> IF two.large THEN leaf.frame + (va % Large) ELSE leaf.frame,
        write |-> \A e \in path : e.write,
        exec |-> \A e \in path : e.exec]
Translate(va) == Walk(pgPte, va)

\* The processor walks the tables and remembers what it finds.
PgAccess(c) ==
    /\ pgStop = "no"
    /\ \E va \in PgTouched :
          /\ Translate(va).ok /\ va \notin DOMAIN pgTlb[c]
          /\ pgTlb' = [pgTlb EXCEPT ![c] = [v \in DOMAIN @ \cup {va} |-> IF v = va THEN Translate(va) ELSE @[v]]]
    /\ UNCHANGED <<pgCpus, pgPte, pgFree, pgLeft, pgSent, pgFifo, pgDo, pgBits, pgIpi, pgAck, pgStop>>

\* (1 << max_cpu) - 1 without the sender: with as many processors as bits the
\* shift wraps around and nothing is left.
OtherCpus == IF pgCpus = CpuBits THEN {} ELSE PgCpuSet \ {0}

PgSend ==
    /\ pgStop = "no" /\ pgDo.op = "send"
    /\ pgBits' = OtherCpus /\ pgIpi' = pgIpi \cup (PgCpuSet \ {0})
    /\ pgDo' = [pgDo EXCEPT !.op = IF pgCpus < 2 THEN "answer" ELSE "spin"]
    /\ UNCHANGED <<pgCpus, pgPte, pgFree, pgTlb, pgLeft, pgSent, pgFifo, pgAck, pgStop>>

\* All have answered, or 200 ms are over: the caller unwraps the error.
PgSpins ==
    /\ pgStop = "no" /\ pgDo.op = "spin"
    /\ \/ pgBits = {} /\ pgDo' = [pgDo EXCEPT !.op = "answer"] /\ UNCHANGED pgStop
       \/ pgBits # {} /\ pgStop' = "timeout" /\ UNCHANGED pgDo
    /\ UNCHANGED <<pgCpus, pgPte, pgFree, pgTlb, pgLeft, pgSent, pgFifo, pgBits, pgIpi, pgAck>>

\* Mutant: the bit is reset before the translations are dropped.
FlushLate(c) ==
    /\ pgStop = "no" /\ c \in pgIpi /\ pgIpi' = pgIpi \ {c} /\ pgAck' = pgAck \cup {c}
    /\ pgBits' = pgBits \ {c}
    /\ UNCHANGED <<pgCpus, pgPte, pgFree, pgTlb, pgLeft, pgSent, pgFifo, pgDo, pgStop>>

\* ipi_tlb_flush_handler: drop the translations, then reset the bit.
Flush(c) ==
    /\ pgStop = "no" /\ c \in pgIpi /\ pgIpi' = pgIpi \ {c} /\ pgAck' = pgAck \cup {c}
    /\ pgTlb' = [pgTlb EXCEPT ![c] = <<>>]
    /\ UNCHANGED <<pgCpus, pgPte, pgFree, pgLeft, pgSent, pgFifo, pgDo, pgBits, pgStop>>
Flushed(c) ==
    /\ pgStop = "no" /\ c \in pgAck /\ pgAck' = pgAck \ {c} /\ pgBits' = pgBits \ {c}
    /\ UNCHANGED <<pgCpus, pgPte, pgFree, pgTlb, pgLeft, pgSent, pgFifo, pgDo, pgIpi, pgStop>>

\* Mutant: a request that was refused is not answered.
PgAnswerMapped ==
    /\ pgStop = "no" /\ pgDo.op = "answer" /\ pgDo' = PgIdle
    /\ pgSent' = IF pgDo.end = 0 THEN pgSent
                 ELSE [pgSent EXCEPT ![pgDo.cpu].st = "done", ![pgDo.cpu].at = pgDo.end]
    /\ UNCHANGED <<pgCpus, pgPte, pgFree, pgTlb, pgLeft, pgFifo, pgBits, pgIpi, pgAck, pgStop>>

\* The result is stored and the semaphore of the request signalled.
PgAnswer ==
    /\ pgStop = "no" /\ pgDo.op = "answer" /\ pgDo' = PgIdle
    /\ pgSent' = [pgSent EXCEPT ![pgDo.cpu].st = "done", ![pgDo.cpu].at = pgDo.end]
    /\ UNCHANGED <<pgCpus, pgPte, pgFree, pgTlb, pgLeft, pgFifo, pgBits, pgIpi, pgAck, pgStop>>

PgThread == PgTake \/ PgMap \/ PgMapped \/ PgSend \/ PgSpins \/ PgAnswer
PgHandler(c) == Flush(c) \/ Flushed(c)
PagingNext == PgThread \/ (\E k \in PgThreads : PgPost(k)) \/ \E c \in PgCpuSet : PgAccess(c) \/ PgHandler(c)

PagingSpec == PgInit /\ [][PagingNext]_pgVars

-----------------------------------------------------------------------------
(* Properties *)

PgTypeOK ==
    /\ pgBits \subseteq PgCpuSet \ {0} /\ pgFree \in 0..PgFrames
    /\ Len(pgFifo) <= PgQueue
    /\ \A e \in Entries : pgPte[e].large => e[1] = 2

\* The pages of a request that has been carried out.
DonePages == UNION {PgStart(pgSent[c])..(pgSent[c].at - 1) :
                       c \in {d \in PgThreads : pgSent[d].st = "done" /\ pgSent[d].at > 0}}

\* Once mmap has returned no processor uses an older translation of its pages
\* (broadcast_invalidate_tlb), as long as there are fewer processors than
\* bits and nothing else is being mapped.
NoStaleTranslation ==
    pgCpus < CpuBits /\ pgDo.op = "wait" =>
        \A c \in PgCpuSet : \A va \in DonePages \cap DOMAIN pgTlb[c] : pgTlb[c][va] = Translate(va)

\* A page that has been mapped leads to its frame with the rights that were
\* asked for; tables above it take none of them away (_map_table_if_needed).
MappedAsAsked ==
    \A c \in PgThreads : LET r == pgSent[c] IN
        r.st = "done" /\ r.at > 0 /\ Rw(r).p /\ pgStop = "no" /\ Cardinality({d \in PgThreads : pgSent[d].t # "none"}) = 1 =>
            \A va \in PgStart(r)..(r.at - 1) :
                LET t == Translate(va)
                IN t.ok /\ t.write = Rw(r).w /\ t.exec = Rw(r).x
                   /\ (r.t \in {"Mmio", "Framebuffer"} => DirectMap(t.frame) = va)

PagingInv == PgTypeOK /\ NoStaleTranslation /\ MappedAsAsked

\* Every request has been answered, or the system has stopped.
MmapsReturned == pgStop # "no" \/ \A c \in PgThreads : pgLeft[c] = <<>> /\ pgSent[c].st = "done"
=============================================================================
