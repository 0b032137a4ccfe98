--------------------------- MODULE PageAllocator ---------------------------
(***************************************************************************)
(* The page allocator of `MemoryManager` (system/src/mem/mm.rs): a fixed   *)
(* list of free extents under a spinlock, allocated from first fit and     *)
(* merged on release with the first extent that is adjacent.               *)
(*                                                                         *)
(* Addresses are page numbers; sizes of requests are bytes.  The 2^32      *)
(* pages that an extent can describe are never reached, and page 0 is not  *)
(* in the map: the boot loader keeps the memory below 1 MB out of it.      *)
(***************************************************************************)
EXTENDS Integers, Sequences, FiniteSets, FiniteSetsExt

CONSTANTS
    PaThread,
    PAGE_SIZE,       \* PAGE_SIZE_MIN
    MAX_FREE_PAIRS,  \* capacity of mem_list
    BootMap,         \* the available extents of the boot memory map
    Request          \* sizes of the layouts that callers ask for

Extent(base, size) == base .. base + size - 1

ASSUME PageAssumption ==
    /\ IsFiniteSet(PaThread)
    /\ PAGE_SIZE \in Nat \ {0}
    /\ MAX_FREE_PAIRS \in Nat
    /\ BootMap \in Seq([base : Nat \ {0}, size : Nat])
    /\ Len(BootMap) <= MAX_FREE_PAIRS
    /\ \A i, j \in DOMAIN BootMap :
          i # j => Extent(BootMap[i].base, BootMap[i].size) \cap Extent(BootMap[j].base, BootMap[j].size) = {}
    /\ Request \subseteq Nat \ {0}

VARIABLES
    mem_list,     \* the free extents [base, size]
    free_pages,   \* `free_pages`, in pages
    lost_size,    \* `lost_size`, in pages
    n_fragments,
    owned,        \* the blocks [base, bytes] that callers have
    freeing       \* freeing[t]: the block t is about to return, {} if none

paVars == <<mem_list, free_pages, lost_size, n_fragments, owned, freeing>>

PageBlock == [base : Nat, bytes : Request]

PaTypeOK ==
          /\ mem_list \in Seq([base : Nat, size : Nat])
          /\ Len(mem_list) <= MAX_FREE_PAIRS
          /\ free_pages \in Nat /\ lost_size \in Nat /\ n_fragments \in Nat
          /\ owned \subseteq PageBlock
          /\ freeing \in [PaThread -> SUBSET PageBlock]

\* (size + align_m1) & !align_m1, in pages.
Pages(bytes) == (bytes + PAGE_SIZE - 1) \div PAGE_SIZE

\* The sum of the values of f, as the number of pairs <<x, n>> with n in
\* 1..f[x].
Sum(f) == Cardinality(UNION {{x} \X (1..f[x]) : x \in DOMAIN f})
TotalSize(list) == Sum([i \in 1..Len(list) |-> list[i].size])
TotalPages(blocks) == Sum([b \in blocks |-> Pages(b.bytes)])

-----------------------------------------------------------------------------
\* init_first has copied the available memory of the boot loader's map.
PaInit ==
    /\ mem_list = BootMap
    /\ n_fragments = Len(BootMap)
    /\ free_pages = TotalSize(BootMap)
    /\ lost_size = 0
    /\ owned = {}
    /\ freeing = [t \in PaThread |-> {}]

\* MemFreePair::alloc: the block is cut off the front of the extent.
Cut(pair, n) == [base |-> pair.base + n, size |-> pair.size - n]

\* The extents that are large enough; the first is taken.
Fitting(n) == {i \in 1..Len(mem_list) : mem_list[i].size >= n}

\* pg_alloc, all of it under the lock of mem_list.  None changes nothing.
pg_alloc(t, bytes) == LET n == Pages(bytes) i == Min(Fitting(n)) IN
    /\ freeing[t] = {}
    /\ Fitting(n) # {}
    /\ owned' = owned \cup {[base |-> mem_list[i].base, bytes |-> bytes]}
    /\ mem_list' = [mem_list EXCEPT ![i] = Cut(@, n)]
    /\ free_pages' = free_pages - n
    /\ UNCHANGED <<lost_size, n_fragments, freeing>>

\* Mutant: the size is not rounded up to pages.
pg_deallocUnrounded(t, b) ==
    /\ freeing[t] = {}
    /\ b \in owned
    /\ owned' = owned \ {b}
    /\ freeing' = [freeing EXCEPT ![t] = {b}]
    /\ free_pages' = free_pages + b.bytes \div PAGE_SIZE
    /\ UNCHANGED <<mem_list, lost_size, n_fragments>>

\* pg_dealloc up to the lock: the counter goes first.
pg_dealloc(t, b) ==
    /\ freeing[t] = {}
    /\ b \in owned
    /\ owned' = owned \ {b}
    /\ freeing' = [freeing EXCEPT ![t] = {b}]
    /\ free_pages' = free_pages + Pages(b.bytes)
    /\ UNCHANGED <<mem_list, lost_size, n_fragments>>

\* MemFreePair::try_merge.
Adjacent(pair, new) == \/ pair.base + pair.size = new.base
                       \/ new.base + new.size = pair.base

Merge(pair, new) == [base |-> IF pair.base + pair.size = new.base
                              THEN pair.base ELSE new.base,
                     size |-> pair.size + new.size]

Neighbours(new) == {i \in 1..Len(mem_list) : Adjacent(mem_list[i], new)}

\* The rest of pg_dealloc, under the lock.
Release(t, b) ==
    LET new == [base |-> b.base, size |-> Pages(b.bytes)]
        near == Neighbours(new)
    IN  /\ freeing[t] = {b}
        /\ freeing' = [freeing EXCEPT ![t] = {}]
        /\ n_fragments' = Len(mem_list)
        /\ \/ /\ near # {}
              /\ mem_list' = [mem_list EXCEPT ![Min(near)] = Merge(@, new)]
              /\ UNCHANGED lost_size
           \/ /\ near = {} /\ Len(mem_list) < MAX_FREE_PAIRS
              /\ mem_list' = Append(mem_list, new)
              /\ UNCHANGED lost_size
           \/ /\ near = {} /\ Len(mem_list) = MAX_FREE_PAIRS
              /\ lost_size' = lost_size + new.size
              /\ UNCHANGED mem_list
        /\ UNCHANGED <<free_pages, owned>>

PageNext == \E t \in PaThread : \/ \E bytes \in Request : pg_alloc(t, bytes)
                                \/ \E b \in owned : pg_dealloc(t, b)
                                \/ \E b \in freeing[t] : Release(t, b)

PageSpec == PaInit /\ [][PageNext]_paVars

-----------------------------------------------------------------------------
(* Properties *)

PagesOf(b) == Extent(b.base, Pages(b.bytes))

OnTheWay == UNION {freeing[t] : t \in PaThread}
InUse == owned \cup OnTheWay
FreeExtent(i) == Extent(mem_list[i].base, mem_list[i].size)

(* No page is in two places: blocks that callers have do not overlap each   *)
(* other nor a free extent, and free extents do not overlap, whatever was   *)
(* split, merged or lost before and with extents of size zero left in the   *)
(* list (mm.rs, `alloc`, `try_merge`, `pg_dealloc`).                        *)
NoPageTwice ==
    /\ \A b, d \in InUse : b # d => PagesOf(b) \cap PagesOf(d) = {}
    /\ \A b \in InUse, i \in DOMAIN mem_list : PagesOf(b) \cap FreeExtent(i) = {}
    /\ \A i, j \in DOMAIN mem_list : i # j => FreeExtent(i) \cap FreeExtent(j) = {}

(* No page disappears, except into lost_size: what is free, in use, on its  *)
(* way back or lost adds up to the memory of the boot map.                  *)
PagesAddUp == TotalSize(mem_list) + lost_size + TotalPages(InUse) = TotalSize(BootMap)

(* free_pages never wraps around and never promises too little: it counts   *)
(* the free extents, and pages on their way back, and the lost ones too.    *)
CounterCoversList ==
    free_pages = TotalSize(mem_list) + lost_size + TotalPages(OnTheWay)

(* Everything the page allocator keeps.                                     *)
PagesConserved == PaTypeOK /\ NoPageTwice /\ PagesAddUp /\ CounterCoversList
=============================================================================
