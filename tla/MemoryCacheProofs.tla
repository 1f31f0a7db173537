------------------------- MODULE MemoryCacheProofs --------------------------
(* For every set of slots, every arena size and every block size: the blocks *)
(* the arena has handed out since it was last cleared never overlap.          *)
EXTENDS MemoryCache, TLAPS

(* The inductive invariant: the blocks in use lie below the first free byte, *)
(* so the next one is carved beyond all of them.                              *)
Apartness ==
    \A s, t \in Slot :
        s # t /\ mem.block[s].place = "cache" /\ mem.block[t].place = "cache" =>
            Apart(mem.block[s], mem.block[t])

IInv == TypeOK /\ ArenaInv /\ Apartness

(* What a call leaves true, as a fact about the memory alone. *)
Good(m) ==
    /\ m \in Memory
    /\ m.freed <= m.size
    /\ m.cache = "none" => m.size = 0
    /\ \A s \in Slot : m.block[s].place = "cache" =>
         m.block[s].off + m.block[s].size <= m.size - m.freed
    /\ \A s \in Slot : m.block[s].place \in Arena =>
         m.cache # "none" /\ m.block[s].off < m.size
    /\ \A s, t \in Slot :
         s # t /\ m.block[s].place = "cache" /\ m.block[t].place = "cache" =>
            Apart(m.block[s], m.block[t])

(* IInv is Good of the allocator's memory. *)
LEMMA IInvIsGood == IInv <=> Good(mem)
  BY DEF IInv, Good, TypeOK, ArenaInv, FreedWithinSize, BlocksBelowFree, StartsInside, Apartness

(* Recording a fault changes nothing else. *)
LEMMA FaultedGood ==
  ASSUME NEW m, Good(m), NEW f \in Faults
  PROVE  Good(Faulted(m, f))
  BY DEF Good, Faulted, Memory, Block, Places, Arena, Apart

(* A block carved at the first free byte (memory_alloc) lies above all others. *)
LEMMA CarveGood ==
  ASSUME NEW m, Good(m), NEW s \in Slot, NEW n \in Nat, Fits(m, n)
  PROVE  Good(Carve(m, s, n))
<1> DEFINE c == Carve(m, s, n)
<1>1. c.block[s] = [place |-> "cache", off |-> m.size - m.freed, size |-> n]
      /\ (\A t \in Slot \ {s} : c.block[t] = m.block[t])
      /\ c.freed = m.freed - n /\ c.size = m.size /\ c.cache = m.cache
  BY DEF Good, Carve, Carved, Memory
<1>2. c \in Memory
  <2>1. m \in Memory /\ m.freed \in Nat /\ m.size \in Nat /\ m.freed <= m.size /\ n < m.freed
    BY DEF Good, Memory, Fits
  <2>2. Carved(m, n) \in Block
    BY <2>1 DEF Carved, Block, Places
  <2>3. [m.block EXCEPT ![s] = Carved(m, n)] \in [Slot -> Block]
    BY <2>1, <2>2 DEF Memory
  <2>4. m.freed - n \in Nat
    BY <2>1
  <2>5. c = [m EXCEPT !.freed = m.freed - n, !.block = [m.block EXCEPT ![s] = Carved(m, n)]]
    BY DEF Carve
  <2> HIDE DEF c
  <2> QED
    BY <2>1, <2>3, <2>4, <2>5 DEF Memory
<1>3. \A t \in Slot : c.block[t].place = "cache" =>
         c.block[t].off + c.block[t].size <= c.size - c.freed
  BY <1>1 DEF Good, Memory, Block, Fits
<1>4. \A t \in Slot : c.block[t].place \in Arena =>
         c.cache # "none" /\ c.block[t].off < c.size
  BY <1>1 DEF Good, Memory, Block, Fits
<1>5. \A t, u \in Slot :
         t # u /\ c.block[t].place = "cache" /\ c.block[u].place = "cache" =>
            Apart(c.block[t], c.block[u])
  BY <1>1 DEF Good, Memory, Block, Fits, Apart
<1> QED
  BY <1>1, <1>2, <1>3, <1>4, <1>5 DEF Good, Memory, Fits

(* A block of malloc disturbs none of the arena. *)
LEMMA OnHeapGood ==
  ASSUME NEW m, Good(m), NEW s \in Slot, NEW n \in Nat
  PROVE  Good([m EXCEPT !.block[s] = HeapBlock(n)])
<1> DEFINE h == [m EXCEPT !.block[s] = HeapBlock(n)]
<1>1. h.block[s].place = "heap"
      /\ (\A t \in Slot \ {s} : h.block[t] = m.block[t])
      /\ h.freed = m.freed /\ h.size = m.size /\ h.cache = m.cache
  BY DEF Good, HeapBlock, Memory
<1>2. h \in Memory
  <2>1. m \in Memory
    BY DEF Good
  <2>2. HeapBlock(n) \in Block
    BY DEF HeapBlock, Block, Places
  <2>3. [m.block EXCEPT ![s] = HeapBlock(n)] \in [Slot -> Block]
    BY <2>1, <2>2 DEF Memory
  <2> QED
    BY <2>1, <2>3 DEF Memory
<1> HIDE DEF h
<1>3. \A t \in Slot : h.block[t].place \in Arena => t # s
  BY <1>1 DEF Arena
<1>4. \A t \in Slot : h.block[t].place = "cache" => t # s
  BY <1>1
<1> QED
  BY <1>1, <1>2, <1>3, <1>4 DEF Good, h

(* memory_alloc leaves the memory good. *)
LEMMA AllocGood ==
  ASSUME NEW m, Good(m), NEW s \in Slot, NEW n \in Nat
  PROVE  Good(memory_alloc(m, s, n))
  BY CarveGood, OnHeapGood, FaultedGood DEF memory_alloc, Faults

(* memory_realloc leaves the memory good. *)
LEMMA ReallocGood ==
  ASSUME NEW m, Good(m), NEW s \in Slot, NEW n \in Nat
  PROVE  Good(memory_realloc(m, s, n))
  BY AllocGood, CarveGood, OnHeapGood, FaultedGood DEF memory_realloc, Faults

(* A slot that stops pointing into the arena disturbs no other. *)
LEMMA ToFreedGood ==
  ASSUME NEW m, Good(m), NEW s \in Slot, m.block[s].place = "heap"
  PROVE  Good([m EXCEPT !.block[s].place = "freed"])
<1> DEFINE f == [m EXCEPT !.block[s].place = "freed"]
           b == [m.block[s] EXCEPT !.place = "freed"]
<1>1. m \in Memory /\ m.block[s] \in Block
  BY DEF Good, Memory
<1>2. b \in Block /\ b.place = "freed"
  BY <1>1 DEF Block, Places
<1>3. [m.block EXCEPT ![s] = b] \in [Slot -> Block]
  BY <1>1, <1>2 DEF Memory
<1>4. f = [m EXCEPT !.block = [m.block EXCEPT ![s] = b]]
  OBVIOUS
<1> HIDE DEF b, f
<1>5. f \in Memory
  BY <1>1, <1>3, <1>4 DEF Memory
<1>6. f.block[s].place = "freed"
      /\ (\A t \in Slot \ {s} : f.block[t] = m.block[t])
      /\ f.freed = m.freed /\ f.size = m.size /\ f.cache = m.cache
  BY <1>1, <1>2, <1>4 DEF Memory
<1>7. \A t \in Slot : f.block[t].place \in Arena => t # s
  BY <1>6 DEF Arena
<1>8. \A t \in Slot : f.block[t].place = "cache" => t # s
  BY <1>6
<1> QED
  BY <1>5, <1>6, <1>7, <1>8 DEF Good, f

(* memory_free leaves the memory good, and never reaches libc's free with a  *)
(* block of the arena.                                                        *)
LEMMA FreeGood ==
  ASSUME NEW m, Good(m), NEW s \in Slot
  PROVE  Good(memory_free(m, s))
<1>1. Good(free(m, s))
  <2>1. m.block[s].place \in Places
    BY DEF Good, Memory, Block
  <2> QED
    BY <2>1, ToFreedGood, FaultedGood DEF free, Faults, Places, Arena
<1> QED
  BY <1>1, FaultedGood DEF memory_free, Faults

(* memory_cache_alloc leaves the memory good; a second call changes nothing. *)
LEMMA CacheAllocGood ==
  ASSUME NEW m, Good(m), NEW n \in Nat
  PROVE  Good(memory_cache_alloc(m, n))
<1> SUFFICES ASSUME m.cache = "none"
             PROVE  Good([m EXCEPT !.cache = "ready", !.size = n, !.freed = n])
  BY DEF memory_cache_alloc
<1> DEFINE a == [m EXCEPT !.cache = "ready", !.size = n, !.freed = n]
<1>1. a \in Memory
  BY DEF Good, Memory
<1>2. a.block = m.block /\ a.cache = "ready" /\ a.size = n /\ a.freed = n
  BY DEF Good, Memory
<1>3. \A s \in Slot : m.block[s].place \notin Arena
  BY DEF Good
<1> HIDE DEF a
<1> QED
  BY <1>1, <1>2, <1>3 DEF Good, Arena, a

(* memory_cache_clear leaves the memory good: no block is in use any more. *)
LEMMA CacheClearGood ==
  ASSUME NEW m, Good(m)
  PROVE  Good(memory_cache_clear(m))
<1> DEFINE Retired(s) == IF m.block[s].place \in Arena
                         THEN [m.block[s] EXCEPT !.place = "stale"] ELSE m.block[s]
           c == memory_cache_clear(m)
<1>1. m \in Memory /\ \A s \in Slot : m.block[s] \in Block
  BY DEF Good, Memory
<1>2. \A s \in Slot : Retired(s) \in Block
                     /\ Retired(s).off = m.block[s].off
                     /\ Retired(s).place # "cache"
                     /\ (Retired(s).place \in Arena => m.block[s].place \in Arena)
  BY <1>1 DEF Block, Places, Arena
<1>3. c = [m EXCEPT !.freed = m.size, !.block = [s \in Slot |-> Retired(s)]]
  BY DEF memory_cache_clear
<1> HIDE DEF Retired, c
<1>4. c \in Memory
  BY <1>1, <1>2, <1>3 DEF Memory
<1>5. c.freed = m.size /\ c.size = m.size /\ c.cache = m.cache
      /\ \A s \in Slot : c.block[s] = Retired(s)
  BY <1>1, <1>3 DEF Memory
<1> QED
  BY <1>1, <1>2, <1>4, <1>5 DEF Good, c, Memory

(* memory_cache_free leaves the memory good. *)
LEMMA CacheFreeGood ==
  ASSUME NEW m, Good(m), m.cache # "none"
  PROVE  Good(memory_cache_free(m))
<1>1. Good([m EXCEPT !.cache = "dangling"])
  BY DEF Good, Memory
<1> QED
  BY <1>1, FaultedGood DEF memory_cache_free, Faults

-----------------------------------------------------------------------------
(* The program starts with no arena and no block. *)
LEMMA InitGood == Init => IInv
<1> SUFFICES ASSUME Init PROVE Good(mem)
  BY IInvIsGood
<1>1. NoBlock \in Block
  BY DEF NoBlock, Block, Places
<1> QED
  BY <1>1 DEF Init, InitMemory, Good, Memory, Faults, NoBlock, Arena

(* One step per call. *)
LEMMA StepGood == IInv /\ [Next]_mem => IInv'
<1> SUFFICES ASSUME Good(mem), [Next]_mem PROVE Good(mem')
  BY IInvIsGood DEF IInv, Good, TypeOK, ArenaInv, FreedWithinSize, BlocksBelowFree,
     StartsInside, Apartness
<1>1. ASSUME NEW s \in Slot, NEW n \in 0..MaxBlock, Alloc(s, n)
      PROVE  Good(mem')
  BY <1>1, AllocGood, MaxBlockAssumption DEF Alloc
<1>2. ASSUME NEW s \in Slot, NEW n \in 0..MaxBlock, Realloc(s, n)
      PROVE  Good(mem')
  BY <1>2, ReallocGood, MaxBlockAssumption DEF Realloc
<1>3. ASSUME NEW s \in Slot, Free(s)
      PROVE  Good(mem')
  BY <1>3, FreeGood DEF Free
<1>4. ASSUME NEW n \in CacheSizes, CacheAlloc(n)
      PROVE  Good(mem')
  BY <1>4, CacheAllocGood, CacheSizesAssumption DEF CacheAlloc
<1>5. CASE CacheClear
  BY <1>5, CacheClearGood DEF CacheClear
<1>6. CASE CacheFree
  BY <1>6, CacheFreeGood DEF CacheFree
<1>7. CASE UNCHANGED mem
  BY <1>7
<1> QED
  BY <1>1, <1>2, <1>3, <1>4, <1>5, <1>6, <1>7 DEF Next

(* The inductive invariant holds of every reachable state. *)
THEOREM IInvHolds == Spec => []IInv
  BY InitGood, StepGood, PTL DEF Spec

(* Type correctness of the allocator: in particular the arena's free count   *)
(* never goes below zero.                                                     *)
THEOREM TypeCorrect == Spec => []TypeOK
<1>1. IInv => TypeOK
  BY DEF IInv
<1> QED
  BY <1>1, IInvHolds, PTL

(* The bounds of the arena's bookkeeping that the proof rests on. *)
THEOREM ArenaBounds == Spec => []ArenaInv
<1>1. IInv => ArenaInv
  BY DEF IInv
<1> QED
  BY <1>1, IInvHolds, PTL

(* No two blocks in use overlap, and none leaves the arena. *)
THEOREM BlocksNeverOverlap == Spec => []LiveBlocksApart
<1>1. IInv => LiveBlocksApart
  <2> SUFFICES ASSUME IInv, NEW s \in Slot, mem.block[s].place = "cache"
               PROVE  /\ mem.block[s].off + mem.block[s].size <= mem.size
                      /\ \A t \in Slot \ {s} : mem.block[t].place = "cache" =>
                           Apart(mem.block[s], mem.block[t])
    BY DEF LiveBlocksApart
  <2>1. mem.block[s].off + mem.block[s].size <= mem.size - mem.freed
    BY DEF IInv, ArenaInv, BlocksBelowFree
  <2>2. mem.freed \in Nat /\ mem.size \in Nat /\ mem.block[s] \in Block
    BY DEF IInv, TypeOK, Memory
  <2> QED
    BY <2>1, <2>2 DEF IInv, Apartness, Block
<1> QED
  BY <1>1, IInvHolds, PTL

(* memory_realloc never reads behind the arena from a block in use: that      *)
(* starts below the first free byte, and the new one fits above it.           *)
THEOREM ReallocStaysInside == Spec => ReallocReadsInside
<1> DEFINE Inside == \A s \in Slot, n \in 0..MaxBlock :
              Realloc(s, n) /\ mem'.fault = "copy from behind the arena" =>
                  mem.block[s].place = "stale"
<1>1. IInv /\ [Next]_mem => [Inside]_mem
  <2> SUFFICES ASSUME IInv, Next, NEW s \in Slot, NEW n \in 0..MaxBlock, Realloc(s, n),
                      mem.block[s].place # "stale"
               PROVE  mem'.fault # "copy from behind the arena"
    BY DEF Inside
  <2>1. /\ mem \in Memory /\ mem.fault = "none" /\ n \in Nat
        /\ mem.block[s] \in Block /\ mem.size \in Nat /\ mem.freed \in Nat
    BY MaxBlockAssumption DEF IInv, TypeOK, Memory, Next
  <2>2. mem' = memory_realloc(mem, s, n)
    BY DEF Realloc
  <2>3. CASE ~ (mem.block[s].place = "cache" /\ Fits(mem, n))
    BY <2>1, <2>2, <2>3 DEF memory_realloc, memory_alloc, is_memory_cache_ptr, Faulted, Carve,
       Memory, Arena, UsesFreedCache
  <2>4. CASE mem.block[s].place = "cache" /\ Fits(mem, n)
    <3>1. mem.block[s].off + mem.block[s].size <= mem.size - mem.freed
      BY <2>4 DEF IInv, ArenaInv, BlocksBelowFree
    <3>2. ~ ReadsBehindArena(mem, s, n)
      BY <2>1, <2>4, <3>1 DEF Fits, ReadsBehindArena, Block
    <3> QED
      BY <2>1, <2>2, <2>4, <3>2 DEF memory_realloc, Faulted, Carve, Memory
  <2> QED
    BY <2>3, <2>4
<1> QED
  BY <1>1, IInvHolds, PTL DEF Spec, ReallocReadsInside

(* memory_free never hands arena memory to libc. *)
THEOREM FreeStaysOutOfArena == Spec => []ArenaNeverFreed
<1>1. Init => ArenaNeverFreed
  BY DEF Init, InitMemory, ArenaNeverFreed
<1>2. IInv /\ ArenaNeverFreed /\ [Next]_mem => ArenaNeverFreed'
  <2> SUFFICES ASSUME Good(mem), ArenaNeverFreed, [Next]_mem
               PROVE  ArenaNeverFreed'
    BY IInvIsGood
  <2>0. mem \in Memory
    BY DEF Good
  <2>1. ASSUME NEW s \in Slot, NEW n \in 0..MaxBlock, Alloc(s, n) \/ Realloc(s, n)
        PROVE  ArenaNeverFreed'
    BY <2>0, <2>1 DEF Alloc, Realloc, memory_alloc, memory_realloc, Carve, Faulted,
       ArenaNeverFreed, Memory
  <2>2. ASSUME NEW s \in Slot, Free(s)
        PROVE  ArenaNeverFreed'
    <3>1. CASE UsesFreedCache(mem) \/ mem.block[s].place = "none"
      BY <2>0, <2>2, <3>1 DEF Free, memory_free, Faulted, ArenaNeverFreed, Memory
    <3>2. CASE mem.block[s].place \in Arena /\ ~ UsesFreedCache(mem)
      <4>1. is_memory_cache_ptr(mem, s)
        BY <2>0, <3>2 DEF Good, is_memory_cache_ptr, UsesFreedCache, Memory
      <4> QED
        BY <2>2, <3>2, <4>1 DEF Free, memory_free, ArenaNeverFreed
    <3>3. CASE mem.block[s].place \in {"heap", "freed"} /\ ~ UsesFreedCache(mem)
      BY <2>0, <2>2, <3>3 DEF Free, memory_free, is_memory_cache_ptr, free, Faulted,
         ArenaNeverFreed, Memory, Arena
    <3> QED
      BY <2>0, <3>1, <3>2, <3>3 DEF Memory, Block, Places, Arena
  <2>3. CASE \E n \in CacheSizes : CacheAlloc(n)
    BY <2>0, <2>3 DEF CacheAlloc, memory_cache_alloc, ArenaNeverFreed, Memory
  <2>4. CASE CacheClear \/ CacheFree
    BY <2>0, <2>4 DEF CacheClear, CacheFree, memory_cache_clear, memory_cache_free, Faulted,
       ArenaNeverFreed, Memory
  <2> QED
    BY <2>1, <2>2, <2>3, <2>4 DEF Next, ArenaNeverFreed
<1> QED
  BY <1>1, <1>2, IInvHolds, PTL DEF Spec
=============================================================================
