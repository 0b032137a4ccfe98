----------------------------- MODULE SlabCache -----------------------------
(***************************************************************************)
(* `SlabCache` of system/src/mem/slab.rs: a lock-free stack of free blocks,*)
(* one action per atomic access.  This is the cache of 16 byte blocks,     *)
(* whose links are kept next to the blocks; the other caches run the same  *)
(* steps on links that are themselves blocks of this cache.                *)
(* Blocks are numbered in the order of their addresses; 0 is null.         *)
(***************************************************************************)
EXTENDS Integers, FiniteSets, FiniteSetsExt

CONSTANTS
    Thread,
    Allocators,  \* the threads that allocate; every thread may free
    SlabPages,   \* pages that the page allocator has for the cache
    PerPage      \* the number of blocks expand() cuts out of a page

ASSUME SlabAssumption == /\ IsFiniteSet(Thread) /\ Allocators \subseteq Thread
                         /\ SlabPages \in Nat
                         /\ PerPage \in Nat \ {0}

NoBlock == 0
Block == 1 .. SlabPages * PerPage

VARIABLES
    free_ptr,    \* the first free block
    next,        \* next[b]: the `next` of a block's node
    free_count,  \* may lag behind the list, below zero (a wrapped usize) too
    total_count,
    pc,
    cur, nxt,    \* the locals `current` and `next` of each thread
    new,         \* new[t]: the block t is freeing
    fresh,       \* fresh[t]: blocks of a new page that t has yet to free
    expanding,   \* expanding[t]: t is in expand
    owners,      \* owners[b]: how many callers have been given b
    unmapped     \* blocks on pages that were never allocated

locals == <<cur, nxt, new, fresh, expanding>>
vars == <<free_ptr, next, free_count, total_count, pc, locals, owners, unmapped>>

PC == {"idle", "a_load", "a_next", "a_cas", "a_count", "x_free",
       "f_load", "f_store", "f_cas", "f_count"}

TypeOK == /\ free_ptr \in Block \cup {NoBlock}
          /\ next \in [Block -> Block \cup {NoBlock}]
          /\ free_count \in -Cardinality(Thread) .. Cardinality(Block)
          /\ total_count \in 0 .. Cardinality(Block)
          /\ pc \in [Thread -> PC]
          /\ cur \in [Thread -> Block \cup {NoBlock}]
          /\ nxt \in [Thread -> Block \cup {NoBlock}]
          /\ new \in [Thread -> Block \cup {NoBlock}]
          /\ fresh \in [Thread -> SUBSET Block]
          /\ expanding \in [Thread -> BOOLEAN]
          /\ owners \in [Block -> Nat]
          /\ unmapped \subseteq Block

Init == /\ free_ptr = NoBlock
        /\ next = [b \in Block |-> NoBlock]
        /\ free_count = 0 /\ total_count = 0
        /\ pc = [t \in Thread |-> "idle"]
        /\ cur = [t \in Thread |-> NoBlock]
        /\ nxt = [t \in Thread |-> NoBlock]
        /\ new = [t \in Thread |-> NoBlock]
        /\ fresh = [t \in Thread |-> {}]
        /\ expanding = [t \in Thread |-> FALSE]
        /\ owners = [b \in Block |-> 0]
        /\ unmapped = Block

Goto(t, from, to) == pc[t] = from /\ pc' = [pc EXCEPT ![t] = to]

-----------------------------------------------------------------------------
(* alloc *)

alloc(t) ==
    /\ t \in Allocators
    /\ Goto(t, "idle", "a_load")
    /\ UNCHANGED <<free_ptr, next, free_count, total_count, locals, owners, unmapped>>

AllocLoad(t) ==
    /\ free_ptr # NoBlock
    /\ Goto(t, "a_load", "a_next")
    /\ cur' = [cur EXCEPT ![t] = free_ptr]
    /\ UNCHANGED <<free_ptr, next, free_count, total_count, nxt, new, fresh, expanding,
                   owners, unmapped>>

\* Without a free block alloc calls expand, which gets a page from
\* MemoryManager::zalloc2: the first that is left.
Expand(t) == LET S == {b \in unmapped : b < Min(unmapped) + PerPage} IN
    /\ free_ptr = NoBlock
    /\ unmapped # {}
    /\ Goto(t, "a_load", "x_free")
    /\ expanding' = [expanding EXCEPT ![t] = TRUE]
    /\ fresh' = [fresh EXCEPT ![t] = S]
    /\ unmapped' = unmapped \ S
    /\ UNCHANGED <<free_ptr, next, free_count, total_count, cur, nxt, new, owners>>

OutOfMemory(t) ==
    /\ free_ptr = NoBlock
    /\ unmapped = {}
    /\ Goto(t, "a_load", "idle")
    /\ UNCHANGED <<free_ptr, next, free_count, total_count, locals, owners, unmapped>>

AllocNext(t) ==
    /\ Goto(t, "a_next", "a_cas")
    /\ nxt' = [nxt EXCEPT ![t] = next[cur[t]]]
    /\ UNCHANGED <<free_ptr, next, free_count, total_count, cur, new, fresh, expanding,
                   owners, unmapped>>

\* Mutant: the head is stored without a comparison.
AllocCasBlind(t) ==
    /\ Goto(t, "a_cas", "a_count")
    /\ free_ptr' = nxt[t]
    /\ UNCHANGED <<next, free_count, total_count, locals, owners, unmapped>>

AllocCas(t) ==
    \/ /\ free_ptr = cur[t]
       /\ Goto(t, "a_cas", "a_count")
       /\ free_ptr' = nxt[t]
       /\ UNCHANGED <<next, free_count, total_count, locals, owners, unmapped>>
    \/ /\ free_ptr # cur[t]
       /\ Goto(t, "a_cas", "a_load")
       /\ UNCHANGED <<free_ptr, next, free_count, total_count, locals, owners, unmapped>>

\* The count is adjusted and the caller has the block.
AllocReturn(t) ==
    /\ Goto(t, "a_count", "idle")
    /\ free_count' = free_count - 1
    /\ owners' = [owners EXCEPT ![cur[t]] = @ + 1]
    /\ cur' = [cur EXCEPT ![t] = NoBlock] /\ nxt' = [nxt EXCEPT ![t] = NoBlock]
    /\ UNCHANGED <<free_ptr, next, total_count, new, fresh, expanding, unmapped>>

\* expand: the blocks of the page are freed one by one, then the total is
\* counted.
ExpandFree(t) ==
    /\ fresh[t] # {}
    /\ Goto(t, "x_free", "f_load")
    /\ new' = [new EXCEPT ![t] = Min(fresh[t])]
    /\ fresh' = [fresh EXCEPT ![t] = @ \ {Min(fresh[t])}]
    /\ UNCHANGED <<free_ptr, next, free_count, total_count, cur, nxt, expanding,
                   owners, unmapped>>

ExpandTotal(t) ==
    /\ fresh[t] = {}
    /\ Goto(t, "x_free", "a_load")
    /\ expanding' = [expanding EXCEPT ![t] = FALSE]
    /\ total_count' = total_count + PerPage
    /\ UNCHANGED <<free_ptr, next, free_count, cur, nxt, new, fresh, owners, unmapped>>

-----------------------------------------------------------------------------
(* free *)

free(t, b) ==
    /\ owners[b] > 0
    /\ Goto(t, "idle", "f_load")
    /\ owners' = [owners EXCEPT ![b] = @ - 1]
    /\ new' = [new EXCEPT ![t] = b]
    /\ UNCHANGED <<free_ptr, next, free_count, total_count, cur, nxt, fresh, expanding,
                   unmapped>>

FreeLoad(t) ==
    /\ Goto(t, "f_load", "f_store")
    /\ cur' = [cur EXCEPT ![t] = free_ptr]
    /\ UNCHANGED <<free_ptr, next, free_count, total_count, nxt, new, fresh, expanding,
                   owners, unmapped>>

FreeStore(t) ==
    /\ Goto(t, "f_store", "f_cas")
    /\ next' = [next EXCEPT ![new[t]] = cur[t]]
    /\ UNCHANGED <<free_ptr, free_count, total_count, locals, owners, unmapped>>

\* Mutant: after a failed exchange the link keeps its old value.
FreeCasNoRelink(t) ==
    /\ Goto(t, "f_cas", "f_count")
    /\ free_ptr' = new[t]
    /\ UNCHANGED <<next, free_count, total_count, locals, owners, unmapped>>

\* A failed exchange yields the head of now, and the link is stored again.
FreeCas(t) ==
    \/ /\ free_ptr = cur[t]
       /\ Goto(t, "f_cas", "f_count")
       /\ free_ptr' = new[t]
       /\ UNCHANGED <<next, free_count, total_count, locals, owners, unmapped>>
    \/ /\ free_ptr # cur[t]
       /\ Goto(t, "f_cas", "f_store")
       /\ cur' = [cur EXCEPT ![t] = free_ptr]
       /\ UNCHANGED <<free_ptr, next, free_count, total_count, nxt, new, fresh, expanding,
                      owners, unmapped>>

FreeReturn(t) ==
    /\ Goto(t, "f_count", IF expanding[t] THEN "x_free" ELSE "idle")
    /\ free_count' = free_count + 1
    /\ cur' = [cur EXCEPT ![t] = NoBlock] /\ new' = [new EXCEPT ![t] = NoBlock]
    /\ UNCHANGED <<free_ptr, next, total_count, nxt, fresh, expanding, owners, unmapped>>

Step(t) == \/ AllocLoad(t) \/ OutOfMemory(t) \/ AllocNext(t) \/ AllocCas(t)
           \/ AllocReturn(t) \/ ExpandTotal(t)
           \/ Expand(t) \/ ExpandFree(t)
           \/ FreeLoad(t) \/ FreeStore(t) \/ FreeCas(t) \/ FreeReturn(t)

Next == \E t \in Thread : alloc(t) \/ Step(t) \/ \E b \in Block : free(t, b)

Spec == Init /\ [][Next]_vars

-----------------------------------------------------------------------------
(* Properties *)

\* The blocks on the free list: those that the links lead to from the head.
Closed(S) == (free_ptr # NoBlock => free_ptr \in S) /\ \A b \in S : next[b] # NoBlock => next[b] \in S
FreeList == {b \in Block : \A S \in SUBSET Block : Closed(S) => b \in S}

\* Blocks that have left the list for a caller, or are on their way to it.
Taken(t) == IF pc[t] = "a_count" THEN {cur[t]} ELSE {}
Returning(t) == IF pc[t] \in {"f_load", "f_store", "f_cas"} THEN {new[t]} ELSE {}

Holders(b) == owners[b] + Cardinality({t \in Thread : b \in Taken(t)})
                + Cardinality({t \in Thread : b \in Returning(t)})
                + Cardinality({t \in Thread : b \in fresh[t]})
                + (IF b \in FreeList THEN 1 ELSE 0)
                + (IF b \in unmapped THEN 1 ELSE 0)

(* zalloc hands out a block to one caller at a time (`Allocate kernel       *)
(* memory`, mm.rs:224): no block has two owners, and none that is owned is  *)
(* also free.                                                               *)
ExclusiveBlocks == \A b \in Block : Holders(b) <= 1

(* When no call is in progress the statistics agree with the list.          *)
CountsAgree == (\A t \in Thread : pc[t] = "idle") =>
    /\ free_count = Cardinality(FreeList)
    /\ total_count = Cardinality(Block \ unmapped)

(* No block is lost: a block that has been allocated from the page          *)
(* allocator is on the free list, owned, or on its way between the two, and *)
(* the statistics count it.                                                 *)
NoBlockLost == TypeOK /\ CountsAgree /\ \A b \in Block : Holders(b) >= 1
=============================================================================
