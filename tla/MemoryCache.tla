---------------------------- MODULE MemoryCache -----------------------------
(* The allocator of dino_utils.c: an arena (g_mem_cache) that hands out its  *)
(* buffer from front to back, with malloc behind it.  An address of the arena *)
(* is its offset in the buffer; a block of malloc has no offset, since malloc *)
(* keeps its blocks apart.  The owners of blocks are slots (a pointer         *)
(* variable or field): module RequestMemory names those of a request.         *)
EXTENDS Integers

CONSTANTS
    Slot,       \* the pointers that own blocks
    CacheSizes, \* the sizes memory_cache_alloc is called with
    MaxBlock    \* bound: the size of one block

ASSUME CacheSizesAssumption == CacheSizes \subseteq Nat
ASSUME MaxBlockAssumption == MaxBlock \in Nat

(* The places a slot points to.  A "stale" block lies in the arena and was    *)
(* handed out before the latest memory_cache_clear; the code keeps no such     *)
(* mark.  A "freed" one has gone back to malloc, and the pointer still holds   *)
(* its address.                                                               *)
Places == {"none", "heap", "freed", "cache", "stale"}
Arena == {"cache", "stale"}

Block == [place : Places, off : Nat, size : Nat]
NoBlock == [place |-> "none", off |-> 0, size |-> 0]
HeapBlock(n) == [place |-> "heap", off |-> 0, size |-> n]

(* fault: "none", or the call that leaves C's defined behaviour. *)
Faults == {"none", "libc realloc of arena memory", "libc free of arena memory",
           "copy from behind the arena", "double free", "arena used after memory_cache_free"}

VARIABLE mem    \* g_mem_cache (cache, size, freed), what the slots own, the fault

Memory == [cache : {"none", "ready", "dangling"}, size : Nat, freed : Nat,
           block : [Slot -> Block], fault : Faults]

InitMemory ==
    [cache |-> "none", size |-> 0, freed |-> 0,
     block |-> [s \in Slot |-> NoBlock], fault |-> "none"]

Faulted(m, fault) == [m EXCEPT !.fault = fault]

(* After memory_cache_free g_mem_cache still points to the freed struct. *)
UsesFreedCache(m) == m.cache = "dangling"

(* A block of the arena, at its first free byte. *)
Carved(m, n) == [place |-> "cache", off |-> m.size - m.freed, size |-> n]

WrongForgetsToShrink(m, s, n) == [m EXCEPT !.block[s] = Carved(m, n)]

Carve(m, s, n) == [m EXCEPT !.freed = @ - n, !.block[s] = Carved(m, n)]

WrongComparesWithSize(m, n) == m.cache = "ready" /\ n < m.size

WrongFitsExactly(m, n) == m.cache = "ready" /\ n <= m.freed

Fits(m, n) == m.cache = "ready" /\ n < m.freed

memory_alloc(m, s, n) ==
    IF UsesFreedCache(m) THEN Faulted(m, "arena used after memory_cache_free")
    ELSE IF Fits(m, n) THEN Carve(m, s, n)
    ELSE [m EXCEPT !.block[s] = HeapBlock(n)]

(* The bounds test of is_memory_cache_ptr on the pointer in the slot. *)
is_memory_cache_ptr(m, s) ==
    /\ m.cache = "ready"
    /\ m.block[s].place \in Arena
    /\ m.block[s].off < m.size

(* memcpy takes as many bytes from the old block as the new one is to have.   *)
ReadsBehindArena(m, s, n) == m.block[s].off + n > m.size

(* A block of the arena moves to a new one if that fits, and is handed to    *)
(* libc's realloc if it does not.                                             *)
memory_realloc(m, s, n) ==
    IF m.block[s].place = "none" THEN memory_alloc(m, s, n)
    ELSE IF UsesFreedCache(m) THEN Faulted(m, "arena used after memory_cache_free")
    ELSE IF ~ is_memory_cache_ptr(m, s) THEN [m EXCEPT !.block[s] = HeapBlock(n)]
    ELSE IF ~ Fits(m, n) THEN Faulted(m, "libc realloc of arena memory")
    ELSE IF ReadsBehindArena(m, s, n) THEN Faulted(m, "copy from behind the arena")
    ELSE Carve(m, s, n)

(* libc's free. *)
free(m, s) ==
    CASE m.block[s].place = "heap"  -> [m EXCEPT !.block[s].place = "freed"]
      [] m.block[s].place = "freed" -> Faulted(m, "double free")
      [] m.block[s].place \in Arena -> Faulted(m, "libc free of arena memory")
      [] m.block[s].place = "none"  -> m

WrongGivesBytesBack(m, s) ==
    IF is_memory_cache_ptr(m, s)
    THEN [m EXCEPT !.freed = @ + m.block[s].size]
    ELSE free(m, s)

memory_free(m, s) ==
    IF m.block[s].place = "none" THEN m
    ELSE IF UsesFreedCache(m) THEN Faulted(m, "arena used after memory_cache_free")
    ELSE IF is_memory_cache_ptr(m, s) THEN m ELSE free(m, s)

memory_cache_alloc(m, n) ==
    IF m.cache = "none" THEN [m EXCEPT !.cache = "ready", !.size = n, !.freed = n] ELSE m

memory_cache_clear(m) ==
    [m EXCEPT !.freed = m.size,
              !.block = [s \in Slot |-> IF m.block[s].place \in Arena
                                        THEN [m.block[s] EXCEPT !.place = "stale"]
                                        ELSE m.block[s]]]

memory_cache_free(m) ==
    IF UsesFreedCache(m) THEN Faulted(m, "arena used after memory_cache_free")
    ELSE [m EXCEPT !.cache = "dangling"]

-----------------------------------------------------------------------------
(* Any order of calls, until the first fault.  memory_cache_clear and         *)
(* memory_cache_free are called with a cache (dino_http_start allocates it    *)
(* first).                                                                    *)
Init == mem = InitMemory

Alloc(s, n) == mem' = memory_alloc(mem, s, n)
Realloc(s, n) == mem.block[s].place # "freed" /\ mem' = memory_realloc(mem, s, n)
Free(s) == mem.block[s].place # "freed" /\ mem' = memory_free(mem, s)
CacheAlloc(n) == mem' = memory_cache_alloc(mem, n)
CacheClear == mem.cache = "ready" /\ mem' = memory_cache_clear(mem)
CacheFree == mem.cache # "none" /\ mem' = memory_cache_free(mem)

Next ==
    /\ mem.fault = "none"
    /\ \/ \E s \in Slot, n \in 0..MaxBlock : Alloc(s, n) \/ Realloc(s, n)
       \/ \E s \in Slot : Free(s)
       \/ \E n \in CacheSizes : CacheAlloc(n)
       \/ CacheClear
       \/ CacheFree

Spec == Init /\ [][Next]_mem

-----------------------------------------------------------------------------
(* The type invariant: sizes are naturals, so the free bytes never run below  *)
(* zero.                                                                      *)
TypeOK == mem \in Memory

Apart(a, b) == a.off + a.size <= b.off \/ b.off + b.size <= a.off

(* Two blocks of the arena handed out since it was last cleared share no      *)
(* byte, and every one lies inside the buffer.                                *)
LiveBlocksApart ==
    \A s \in Slot : mem.block[s].place = "cache" =>
        /\ mem.block[s].off + mem.block[s].size <= mem.size
        /\ \A t \in Slot \ {s} : mem.block[t].place = "cache" =>
             Apart(mem.block[s], mem.block[t])

(* memory_free never gives the arena's memory to libc's free, even when the  *)
(* block is stale or empty: a block is always handed out with at least one    *)
(* free byte behind its first, so the pointer stays inside the bounds         *)
(* is_memory_cache_ptr tests (that is why the test of memory_alloc is strict). *)
ArenaNeverFreed == mem.fault # "libc free of arena memory"

(* The copy of memory_realloc reads past the end of the old block, but not   *)
(* past the end of the buffer, unless the block is stale: one handed out near  *)
(* the end before memory_cache_clear and grown after it.  No request does      *)
(* that (NothingFreedTwice in RequestMemory).                                  *)
ReallocReadsInside ==
    [][\A s \in Slot, n \in 0..MaxBlock :
         Realloc(s, n) /\ mem'.fault = "copy from behind the arena" =>
             mem.block[s].place = "stale"]_mem

BlocksBelowFree ==
    \A s \in Slot : mem.block[s].place = "cache" =>
        mem.block[s].off + mem.block[s].size <= mem.size - mem.freed

FreedWithinSize == mem.freed <= mem.size /\ (mem.cache = "none" => mem.size = 0)

StartsInside ==
    \A s \in Slot : mem.block[s].place \in Arena =>
        mem.cache # "none" /\ mem.block[s].off < mem.size

(* Why: the blocks in use lie below the first free byte (g_mem_cache->freed), *)
(* and every block of the arena starts inside it.                             *)
ArenaInv == FreedWithinSize /\ BlocksBelowFree /\ StartsInside
=============================================================================
