------------------------ MODULE RequestMemoryProofs -------------------------
(* For arenas and blocks of any size, wherever in a request the arena runs   *)
(* out: what the pointers of a request lead to, from the start of the server  *)
(* through every request.  The allocator's own lemmas (Good is kept by each    *)
(* call) are those of MemoryCacheProofs.                                       *)
EXTENDS RequestMemory, MemoryCacheProofs

Fatal == {"libc realloc of arena memory"}
           \cup (IF AppFreesOutput THEN {"libc free of arena memory"} ELSE {})

ArenaApart(m) ==
    \A s, t \in Slot :
        s # t /\ m.block[s].place \in Arena /\ m.block[t].place \in Arena =>
            Apart(m.block[s], m.block[t])

(* The memory while a server runs.  The request's blocks in the arena are all *)
(* of the one place `arena` (in use, or stale), `heap` are the slots that may  *)
(* own a block of malloc, `freed` those that may hold the address of one that   *)
(* was given back.                                                             *)
Owned(m, arena, heap, freed) ==
    /\ Good(m)
    /\ m.cache = "ready"
    /\ m.fault \in {"none"} \cup Fatal
    /\ ArenaApart(m)
    /\ m.block[Site].place = "heap"
    /\ \A s \in RequestSlot :
         /\ m.block[s].place \in {"none", arena, "heap", "freed"}
         /\ m.block[s].place = "heap" => s \in heap
         /\ m.block[s].place = "freed" => s \in freed

-----------------------------------------------------------------------------
(* The effect of each allocator call on the slots, in a running server. *)

LEMMA SlotFacts ==
  /\ RequestSlot \subseteq Slot
  /\ Site \in Slot /\ Site \notin RequestSlot
  /\ \A s \in Slot : s \in RequestSlot \/ s = Site
<1>1. \A string \in Strings : Site \notin Both(string)
  BY DEF Site, Both, Struct, Text
<1>2. \A map \in Maps : Site \notin Whole(map)
  BY DEF Site, Whole, Map, Table, Pairs, Key, Value, Values
<1>3. Site \notin WholeStack \cup {Data, FileContents}
  BY DEF Site, WholeStack, Stack, StackData, StackPointers, Data, FileContents
<1>4. Site \notin RequestSlot
  BY <1>1, <1>2, <1>3 DEF RequestSlot
<1> QED
  BY <1>4, SlotAssumption

(* The pointers of a string, a map, the pieces. *)
LEMMA StringSlots ==
  ASSUME NEW string \in Strings
  PROVE  /\ Struct(string) \in Both(string) /\ Text(string) \in Both(string)
         /\ Both(string) \subseteq RequestSlot
  BY DEF Both, RequestSlot

LEMMA MapSlots ==
  ASSUME NEW map \in Maps
  PROVE  /\ Map(map) \in Whole(map) /\ Table(map) \in Whole(map)
         /\ \A key \in Keys[map] :
              /\ Key(map, key) \in Whole(map) /\ Pairs(map, Hash[key]) \in Whole(map)
              /\ map # "symbols" => Value(map, key) \in Whole(map)
         /\ Whole(map) \subseteq RequestSlot
<1>1. Whole(map) \subseteq RequestSlot
  BY DEF RequestSlot
<1>2. \A key \in Keys[map] : Hash[key] \in Buckets
  BY KeysAssumption
<1> QED
  BY <1>1, <1>2 DEF Whole, Values

LEMMA OtherSlots ==
  /\ WholeStack \subseteq RequestSlot /\ Data \in RequestSlot /\ FileContents \in RequestSlot
  /\ Stack \in WholeStack /\ StackData \in WholeStack /\ StackPointers \in WholeStack
  BY DEF RequestSlot, WholeStack

(* No pointer is in two of those. *)
LEMMA SlotsApart ==
  /\ \A string, other \in Strings : string # other => Both(string) \cap Both(other) = {}
  /\ \A string \in Strings, map \in Maps : Both(string) \cap Whole(map) = {}
  /\ Whole("request") \cap Whole("response") = {}
  /\ \A string \in Strings : Both(string) \cap WholeStack = {}
  /\ \A string \in Strings : Data \notin Both(string) /\ FileContents \notin Both(string)
  /\ \A string \in Strings : Struct(string) # Text(string)
<1>1. \A string, other \in Strings : string # other => Both(string) \cap Both(other) = {}
  BY DEF Both, Struct, Text
<1>2. \A string \in Strings, map \in Maps : Both(string) \cap Whole(map) = {}
  BY DEF Both, Struct, Text, Whole, Map, Table, Pairs, Key, Value, Values
<1>3. Whole("request") \cap Whole("response") = {}
  BY DEF Whole, Map, Table, Pairs, Key, Value, Values
<1>4. \A string \in Strings : Both(string) \cap WholeStack = {}
  BY DEF Both, Struct, Text, WholeStack, Stack, StackData, StackPointers, Strings
<1>5. \A string \in Strings : Data \notin Both(string) /\ FileContents \notin Both(string)
  BY DEF Both, Struct, Text, Data, FileContents
<1>6. \A string \in Strings : Struct(string) # Text(string)
  BY DEF Struct, Text
<1> QED
  BY <1>1, <1>2, <1>3, <1>4, <1>5, <1>6

LEMMA Names ==
  /\ {"line", "url", "query", "header", "rsp", "source", "input", "body", "output",
      "symbol", "first", "second"} = Strings
  /\ {"request", "response", "symbols"} = Maps
  BY DEF Strings, Maps

(* In a running server a pointer of the arena is recognized as one. *)
LEMMA ArenaIsRecognized ==
  ASSUME NEW m, Good(m), m.cache = "ready", NEW s \in Slot
  PROVE  is_memory_cache_ptr(m, s) <=> m.block[s].place \in Arena
  BY DEF Good, is_memory_cache_ptr

(* A new block, of the arena or of malloc. *)
LEMMA AllocOwned ==
  ASSUME NEW heap, NEW freed, NEW m, Owned(m, "cache", heap, freed),
         NEW s \in RequestSlot, NEW n \in Nat
  PROVE  Owned(memory_alloc(m, s, n), "cache", heap \cup {s}, freed \ {s})
<1> DEFINE a == memory_alloc(m, s, n)
<1>1. Good(a)
  BY AllocGood, SlotFacts DEF Owned
<1>2. /\ a.cache = "ready" /\ a.fault = m.fault
      /\ a.block[s].place \in {"cache", "heap"}
      /\ \A t \in Slot \ {s} : a.block[t] = m.block[t]
  BY SlotFacts DEF Owned, Good, Memory, memory_alloc, UsesFreedCache, Carve, Carved, HeapBlock
<1> HIDE DEF a
<1>3. \A t \in Slot : a.block[t].place # "stale"
  BY <1>2, SlotFacts DEF Owned
<1>4. ArenaApart(a)
  BY <1>1, <1>3 DEF Good, ArenaApart, Arena
<1> QED
  BY <1>1, <1>2, <1>4, SlotFacts DEF Owned, a

(* A block that grows: it moves, or the call is fatal. *)
LEMMA ReallocOwned ==
  ASSUME NEW heap, NEW freed, NEW m, Owned(m, "cache", heap, freed),
         NEW s \in RequestSlot, NEW n \in Nat
  PROVE  Owned(memory_realloc(m, s, n), "cache", heap \cup {s}, freed \ {s})
<1> DEFINE a == memory_realloc(m, s, n)
<1>1. Good(a)
  BY ReallocGood, SlotFacts DEF Owned
<1>2. CASE m.block[s].place = "none"
  BY <1>2, AllocOwned DEF memory_realloc
<1>3. CASE m.block[s].place # "none"
  <2>1. is_memory_cache_ptr(m, s) <=> m.block[s].place \in Arena
    BY ArenaIsRecognized, SlotFacts DEF Owned
  <2>0. m.block[s].place \in Arena /\ Fits(m, n) => ~ ReadsBehindArena(m, s, n)
    <3> SUFFICES ASSUME m.block[s].place \in Arena, Fits(m, n)
                 PROVE  ~ (m.block[s].off + n > m.size)
      BY DEF ReadsBehindArena
    <3>1. m.block[s].place = "cache" /\ s \in Slot
      BY SlotFacts DEF Owned, Arena
    <3>2. m.block[s].off + m.block[s].size <= m.size - m.freed
      BY <3>1 DEF Owned, Good
    <3>3. m.block[s] \in Block /\ m.size \in Nat /\ m.freed \in Nat
      BY <3>1 DEF Owned, Good, Memory
    <3>4. m.block[s].off \in Nat /\ m.block[s].size \in Nat
      BY <3>3 DEF Block
    <3> QED
      BY <3>2, <3>3, <3>4 DEF Fits
  <2>2. /\ a.cache = "ready" /\ a.fault \in {m.fault} \cup Fatal
        /\ a.block[s].place \in {"cache", "heap"}
        /\ \A t \in Slot \ {s} : a.block[t] = m.block[t]
    <3>1. m \in Memory /\ s \in Slot /\ m.cache = "ready"
      BY SlotFacts DEF Owned, Good
    <3>2. \/ a = [m EXCEPT !.block[s] = HeapBlock(n)]
          \/ a = Carve(m, s, n)
          \/ m.block[s].place = "cache" /\ a = Faulted(m, "libc realloc of arena memory")
      BY <1>3, <2>0, <2>1, <3>1 DEF Owned, memory_realloc, UsesFreedCache, Arena
    <3> HIDE DEF a
    <3>3. CASE a = [m EXCEPT !.block[s] = HeapBlock(n)]
      BY <3>1, <3>3 DEF Memory, HeapBlock
    <3>4. CASE a = Carve(m, s, n)
      BY <3>1, <3>4 DEF Memory, Carve, Carved
    <3>5. CASE m.block[s].place = "cache" /\ a = Faulted(m, "libc realloc of arena memory")
      BY <3>1, <3>5 DEF Memory, Faulted, Fatal
    <3> QED
      BY <3>2, <3>3, <3>4, <3>5
  <2> HIDE DEF a
  <2>3. \A t \in Slot : a.block[t].place # "stale"
    BY <2>2, SlotFacts DEF Owned
  <2>4. ArenaApart(a)
    BY <1>1, <2>3 DEF Good, ArenaApart, Arena
  <2> QED
    BY <1>1, <2>2, <2>4, SlotFacts DEF Owned, a
<1> QED
  BY <1>2, <1>3

(* A pointer given back: a block of malloc is gone, one of the arena stays. *)
LEMMA FreeOwned ==
  ASSUME NEW arena \in Arena, NEW heap, NEW freed, NEW m, Owned(m, arena, heap, freed),
         NEW s \in RequestSlot \ freed
  PROVE  Owned(memory_free(m, s), arena, heap \ {s}, freed \cup {s})
<1> DEFINE a == memory_free(m, s)
<1>1. Good(a) /\ s \in Slot
  BY FreeGood, SlotFacts DEF Owned
<1>2. is_memory_cache_ptr(m, s) <=> m.block[s].place \in Arena
  BY ArenaIsRecognized, SlotFacts DEF Owned
<1>3. m.block[s].place \in {"none", arena, "heap"}
  BY DEF Owned
<1>4. m \in Memory
  BY DEF Owned, Good
<1>5. CASE m.block[s].place = "heap"
  <2>1. a = [m EXCEPT !.block[s].place = "freed"]
    BY <1>2, <1>5 DEF Owned, memory_free, UsesFreedCache, free, Arena
  <2>2. /\ a.cache = "ready" /\ a.fault = m.fault
        /\ a.block[s].place = "freed"
        /\ \A t \in Slot \ {s} : a.block[t] = m.block[t]
    BY <1>1, <1>4, <2>1 DEF Owned, Memory, Block
  <2> HIDE DEF a
  <2>3. ArenaApart(a)
    BY <2>2 DEF Owned, ArenaApart, Arena
  <2> QED
    BY <1>1, <2>2, <2>3, SlotFacts DEF Owned, a
<1>6. CASE m.block[s].place # "heap"
  <2>1. a = m
    BY <1>2, <1>3, <1>6 DEF Owned, memory_free, UsesFreedCache, Arena
  <2> QED
    BY <1>3, <1>6, <2>1 DEF Owned
<1> QED
  BY <1>5, <1>6

(* Slots that lead nowhere any more disturb no other. *)
LEMMA ForgetGood ==
  ASSUME NEW m, Good(m), NEW D
  PROVE  /\ Good([m EXCEPT !.block = [s \in Slot |-> IF s \in D THEN NoBlock ELSE m.block[s]]])
         /\ ArenaApart(m) =>
              ArenaApart([m EXCEPT !.block = [s \in Slot |-> IF s \in D THEN NoBlock ELSE m.block[s]]])
<1> DEFINE b == [s \in Slot |-> IF s \in D THEN NoBlock ELSE m.block[s]]
           f == [m EXCEPT !.block = b]
<1>1. m \in Memory /\ NoBlock \in Block /\ NoBlock.place = "none"
  BY DEF Good, NoBlock, Block, Places
<1>2. b \in [Slot -> Block]
  BY <1>1 DEF Memory
<1>3. \A s \in Slot : b[s] = m.block[s] \/ b[s].place = "none"
  BY <1>1
<1> HIDE DEF b
<1>4. f \in Memory
  BY <1>1, <1>2 DEF Memory
<1>5. f.block = b /\ f.freed = m.freed /\ f.size = m.size /\ f.cache = m.cache
  BY <1>1 DEF Memory
<1> HIDE DEF f
<1>6. Good(f)
  BY <1>3, <1>4, <1>5 DEF Good, Arena
<1>7. ArenaApart(m) => ArenaApart(f)
  BY <1>3, <1>5 DEF ArenaApart, Arena
<1> QED
  BY <1>6, <1>7 DEF f, b

(* The pointers of deleted objects go out of scope. *)
LEMMA DroppedOwned ==
  ASSUME NEW arena \in Arena, NEW heap, NEW freed, NEW m, Owned(m, arena, heap, freed),
         NEW D \in SUBSET RequestSlot
  PROVE  Owned(Dropped(m, D), arena, heap, freed \ D)
<1> DEFINE E == {s \in D : m.block[s].place # "heap"}
           d == Dropped(m, D)
<1>1. d = [m EXCEPT !.block = [s \in Slot |-> IF s \in E THEN NoBlock ELSE m.block[s]]]
  BY DEF Dropped
<1>2. \A s \in E : s \in D /\ m.block[s].place # "heap"
  OBVIOUS
<1>3. \A s \in D \ E : m.block[s].place = "heap"
  OBVIOUS
<1> HIDE DEF d, E
<1>4. Good(d) /\ ArenaApart(d)
  BY <1>1, ForgetGood DEF Owned
<1>5. /\ d.cache = m.cache /\ d.fault = m.fault
      /\ \A s \in Slot : d.block[s] = IF s \in E THEN NoBlock ELSE m.block[s]
  BY <1>1 DEF Owned, Good, Memory
<1> QED
  BY <1>2, <1>3, <1>4, <1>5, SlotFacts DEF Owned, NoBlock, d

(* More slots may own, or have lost, a block than do. *)
LEMMA OwnedWeakens ==
  ASSUME NEW arena, NEW heap, NEW freed, NEW m, Owned(m, arena, heap, freed),
         NEW more, heap \subseteq more, NEW gone, freed \subseteq gone
  PROVE  Owned(m, arena, more, gone)
  BY DEF Owned

(* Several pointers given back, one after another in any order. *)
LEMMA FreeAllOwned ==
  ASSUME NEW arena \in Arena, NEW heap, NEW freed, NEW m, Owned(m, arena, heap, freed),
         NEW D \in SUBSET RequestSlot, D \cap freed = {}
  PROVE  Owned(FreeAll(m, D), arena, heap \ D, freed \cup D)
<1> DEFINE b == [s \in Slot |-> IF s \in D THEN memory_free(m, s).block[s] ELSE m.block[s]]
           a == [m EXCEPT !.block = b]
<1>1. m \in Memory /\ m.cache = "ready" /\ D \subseteq Slot
  BY SlotFacts DEF Owned, Good
<1>2. ASSUME NEW s \in D
      PROVE  /\ m.block[s].place = "heap" => memory_free(m, s) = [m EXCEPT !.block[s].place = "freed"]
             /\ m.block[s].place # "heap" => memory_free(m, s) = m
  <2>1. s \in Slot /\ s \in RequestSlot /\ s \notin freed
    BY <1>1
  <2>2. is_memory_cache_ptr(m, s) <=> m.block[s].place \in Arena
    BY <2>1, ArenaIsRecognized DEF Owned
  <2>3. m.block[s].place \in {"none", arena, "heap"}
    BY <2>1 DEF Owned
  <2> QED
    BY <1>1, <2>2, <2>3 DEF memory_free, UsesFreedCache, free, Arena
<1>3. \A s \in D : memory_free(m, s).fault = m.fault
  BY <1>1, <1>2 DEF Memory
<1>4. FreeAll(m, D) = a
  BY <1>3 DEF FreeAll
<1>5. \A s \in Slot :
        IF s \in D /\ m.block[s].place = "heap"
        THEN /\ b[s].place = "freed" /\ b[s].off = m.block[s].off /\ b[s].size = m.block[s].size
             /\ b[s] \in Block
        ELSE b[s] = m.block[s]
  <2> SUFFICES ASSUME NEW s \in Slot
               PROVE  IF s \in D /\ m.block[s].place = "heap"
                      THEN /\ b[s].place = "freed" /\ b[s].off = m.block[s].off
                           /\ b[s].size = m.block[s].size /\ b[s] \in Block
                      ELSE b[s] = m.block[s]
    OBVIOUS
  <2>1. m.block[s] \in Block /\ m.block \in [Slot -> Block]
    BY <1>1 DEF Memory
  <2>2. CASE s \in D /\ m.block[s].place = "heap"
    <3>1. memory_free(m, s) = [m EXCEPT !.block[s].place = "freed"]
      BY <1>2, <2>2
    <3>2. b[s] = memory_free(m, s).block[s]
      BY <2>2
    <3>3. memory_free(m, s).block[s] = [m.block[s] EXCEPT !.place = "freed"]
      BY <1>1, <2>1, <3>1 DEF Memory
    <3>4. b[s] = [m.block[s] EXCEPT !.place = "freed"]
      BY <3>2, <3>3
    <3> HIDE DEF b
    <3> QED
      BY <2>1, <2>2, <3>4 DEF Block, Places
  <2>3. CASE s \in D /\ m.block[s].place # "heap"
    BY <1>2, <2>3
  <2>4. CASE s \notin D
    BY <2>4
  <2> QED
    BY <2>2, <2>3, <2>4
<1>6. b \in [Slot -> Block]
  <2>1. \A s \in Slot : m.block[s] \in Block
    BY <1>1 DEF Memory
  <2>2. \A s \in Slot : b[s] \in Block
    <3> HIDE DEF b
    <3> QED
      BY <1>5, <2>1
  <2> QED
    BY <2>2
<1>7. \A s \in Slot : b[s].place \in Arena => b[s] = m.block[s]
  <2> HIDE DEF b
  <2> QED
    BY <1>5 DEF Arena
<1>8. /\ a \in Memory /\ a.block = b /\ a.freed = m.freed /\ a.size = m.size
      /\ a.cache = m.cache /\ a.fault = m.fault
  <2> HIDE DEF b
  <2> QED
    BY <1>1, <1>6 DEF Memory
<1> HIDE DEF a, b
<1>9. Good(a)
  BY <1>7, <1>8 DEF Owned, Good, Arena
<1>10. ArenaApart(a)
  BY <1>7, <1>8 DEF Owned, ArenaApart
<1>11. a.block[Site].place = "heap"
  BY <1>5, <1>8, SlotFacts DEF Owned
<1>12. \A s \in RequestSlot :
         /\ a.block[s].place \in {"none", arena, "heap", "freed"}
         /\ a.block[s].place = "heap" => s \in heap \ D
         /\ a.block[s].place = "freed" => s \in freed \cup D
  BY <1>5, <1>8, SlotFacts DEF Owned
<1> QED
  BY <1>4, <1>8, <1>9, <1>10, <1>11, <1>12 DEF Owned

-----------------------------------------------------------------------------
(* The helpers of the request's code, made of those calls. *)

(* dino_string_resize, a longer value, another pair or pointer. *)
LEMMA GrowOwned ==
  ASSUME NEW heap, NEW freed, NEW m, Owned(m, "cache", heap, freed), NEW s \in RequestSlot \cap heap
  PROVE  Owned(Grown(m, s), "cache", heap, freed)
<1>1. m.block[s].size + 1 \in Nat
  BY SlotFacts DEF Owned, Good, Memory, Block
<1>2. Owned(Grown(m, s), "cache", heap \cup {s}, freed \ {s})
  BY <1>1, ReallocOwned DEF Grown
<1> QED
  BY <1>2, OwnedWeakens

LEMMA NewOwned ==
  ASSUME NEW heap, NEW freed, NEW m, Owned(m, "cache", heap, freed), NEW s \in RequestSlot \cap heap
  PROVE  Owned(memory_alloc(m, s, One), "cache", heap, freed)
<1>1. Owned(memory_alloc(m, s, One), "cache", heap \cup {s}, freed \ {s})
  BY AllocOwned DEF One
<1> QED
  BY <1>1, OwnedWeakens

LEMMA StringNewOwned ==
  ASSUME NEW heap, NEW freed, NEW m, Owned(m, "cache", heap, freed),
         NEW string \in Strings, Both(string) \subseteq heap
  PROVE  Owned(dino_string_new(m, string), "cache", heap, freed)
<1>1. /\ Struct(string) \in RequestSlot \cap heap
      /\ Text(string) \in RequestSlot \cap heap
  BY StringSlots
<1>2. Owned(memory_alloc(m, Struct(string), One), "cache", heap, freed)
  BY <1>1, NewOwned
<1> QED
  BY <1>1, <1>2, NewOwned DEF dino_string_new

LEMMA StringOfTextOwned ==
  ASSUME NEW heap, NEW freed, NEW m, Owned(m, "cache", heap, freed),
         NEW string \in Strings, Both(string) \subseteq heap
  PROVE  Owned(dino_string_new_with_str(m, string), "cache", heap, freed)
<1>1. Owned(dino_string_new(m, string), "cache", heap, freed)
  BY StringNewOwned
<1>2. Text(string) \in RequestSlot \cap heap
  BY StringSlots
<1> QED
  BY <1>1, <1>2, GrowOwned DEF dino_string_new_with_str

(* Deleting gives back all blocks and forgets the pointers. *)
LEMMA DeleteOwned ==
  ASSUME NEW arena \in Arena, NEW heap, NEW freed, NEW m, Owned(m, arena, heap, freed),
         NEW D \in SUBSET RequestSlot, D \cap freed = {}
  PROVE  Owned(Dropped(FreeAll(m, D), D), arena, heap \ D, freed)
<1>1. Owned(FreeAll(m, D), arena, heap \ D, freed \cup D)
  BY FreeAllOwned
<1>2. Owned(Dropped(FreeAll(m, D), D), arena, heap \ D, (freed \cup D) \ D)
  BY <1>1, DroppedOwned
<1> QED
  BY <1>2, OwnedWeakens

LEMMA StringDeleteOwned ==
  ASSUME NEW arena \in Arena, NEW heap, NEW freed, NEW m, Owned(m, arena, heap, freed),
         NEW string \in Strings, Both(string) \cap freed = {}
  PROVE  Owned(dino_string_delete(m, string), arena, heap \ Both(string), freed)
  BY DeleteOwned, StringSlots DEF dino_string_delete

(* A single block given back, and its pointer gone. *)
LEMMA BlockDeleteOwned ==
  ASSUME NEW heap, NEW freed, NEW m, Owned(m, "cache", heap, freed),
         NEW s \in RequestSlot \ freed
  PROVE  Owned(Dropped(memory_free(m, s), {s}), "cache", heap \ {s}, freed)
<1>1. Owned(memory_free(m, s), "cache", heap \ {s}, freed \cup {s})
  BY FreeOwned DEF Arena
<1>2. Owned(Dropped(memory_free(m, s), {s}), "cache", heap \ {s}, (freed \cup {s}) \ {s})
  BY <1>1, DroppedOwned DEF Arena
<1> QED
  BY <1>2, OwnedWeakens

(* A map, its pairs, and what is left of it. *)
LEMMA MapNewOwned ==
  ASSUME NEW heap, NEW freed, NEW m, Owned(m, "cache", heap, freed),
         NEW map \in Maps, Whole(map) \subseteq heap
  PROVE  Owned(dino_strmap_new(m, map), "cache", heap, freed)
<1>1. Map(map) \in RequestSlot \cap heap /\ Table(map) \in RequestSlot \cap heap
  BY MapSlots
<1>2. Owned(memory_alloc(m, Map(map), One), "cache", heap, freed)
  BY <1>1, NewOwned
<1> QED
  BY <1>1, <1>2, NewOwned DEF dino_strmap_new

LEMMA PairOwned ==
  ASSUME NEW heap, NEW freed, NEW m, Owned(m, "cache", heap, freed), NEW s \in RequestSlot \cap heap
  PROVE  Owned(PairAdded(m, s), "cache", heap, freed)
  BY NewOwned, GrowOwned DEF PairAdded

LEMMA AddOwned ==
  ASSUME NEW heap, NEW freed, NEW m, Owned(m, "cache", heap, freed),
         NEW map \in Maps \ {"symbols"}, Whole(map) \subseteq heap, NEW key \in Keys[map]
  PROVE  Owned(dino_strmap_add(m, map, key), "cache", heap, freed)
<1>1. /\ Key(map, key) \in RequestSlot \cap heap
      /\ Value(map, key) \in RequestSlot \cap heap
      /\ Pairs(map, Hash[key]) \in RequestSlot \cap heap
  BY MapSlots
<1> DEFINE m1 == memory_alloc(m, Key(map, key), One)
           m2 == memory_alloc(m1, Value(map, key), One)
<1>2. Owned(m1, "cache", heap, freed)
  BY <1>1, NewOwned
<1>3. Owned(m2, "cache", heap, freed)
  <2> HIDE DEF m1
  <2> QED
    BY <1>1, <1>2, NewOwned
<1>4. Owned(PairAdded(m2, Pairs(map, Hash[key])), "cache", heap, freed)
  <2> HIDE DEF m2
  <2> QED
    BY <1>1, <1>3, PairOwned
<1>5. Owned(Grown(m, Value(map, key)), "cache", heap, freed)
  BY <1>1, GrowOwned
<1> QED
  BY <1>4, <1>5 DEF dino_strmap_add

LEMMA PutOwned ==
  ASSUME NEW heap, NEW freed, NEW m, Owned(m, "cache", heap, freed),
         Whole("symbols") \subseteq heap, NEW key \in Keys["symbols"]
  PROVE  Owned(intmap_put(m, key), "cache", heap, freed)
<1>1. /\ Key("symbols", key) \in RequestSlot \cap heap
      /\ Pairs("symbols", Hash[key]) \in RequestSlot \cap heap
  BY MapSlots DEF Maps
<1> DEFINE m1 == memory_alloc(m, Key("symbols", key), One)
<1>2. Owned(m1, "cache", heap, freed)
  BY <1>1, NewOwned
<1>3. Owned(PairAdded(m1, Pairs("symbols", Hash[key])), "cache", heap, freed)
  <2> HIDE DEF m1
  <2> QED
    BY <1>1, <1>2, PairOwned
<1> QED
  BY <1>3 DEF intmap_put

(* pi_template_generator_create. *)
LEMMA CreateOwned ==
  ASSUME NEW heap, NEW freed, NEW m, Owned(m, "cache", heap, freed), Whole("symbols") \subseteq heap
  PROVE  Owned(pi_template_generator_create(m), "cache", heap, freed)
<1>1. {"If", "Else", "EndIf", "="} \subseteq Keys["symbols"]
  BY KeysAssumption
<1> DEFINE m0 == dino_strmap_new(m, "symbols")
           m1 == intmap_put(m0, "If")
           m2 == intmap_put(m1, "Else")
           m3 == intmap_put(m2, "EndIf")
           m4 == intmap_put(m3, "=")
<1>2. Owned(m0, "cache", heap, freed)
  BY MapNewOwned DEF Maps
<1> HIDE DEF m0
<1>3. Owned(m1, "cache", heap, freed)
  BY <1>1, <1>2, PutOwned
<1> HIDE DEF m1
<1>4. Owned(m2, "cache", heap, freed)
  BY <1>1, <1>3, PutOwned
<1> HIDE DEF m2
<1>5. Owned(m3, "cache", heap, freed)
  BY <1>1, <1>4, PutOwned
<1> HIDE DEF m3
<1>6. Owned(m4, "cache", heap, freed)
  BY <1>1, <1>5, PutOwned
<1>7. pi_template_generator_create(m) = m4
  BY DEF pi_template_generator_create, m4, m3, m2, m1, m0
<1> HIDE DEF m4
<1> QED
  BY <1>6, <1>7

LEMMA OwnedHolds ==
  ASSUME NEW arena, NEW heap, NEW freed, NEW m, Owned(m, arena, heap, freed),
         NEW more, heap \subseteq more
  PROVE  Owned(m, arena, more, freed)
  BY DEF Owned

(* The free of the application: the block must be one of malloc. *)
LEMMA LibcFreeOwned ==
  ASSUME AppFreesOutput, NEW arena \in Arena, NEW heap, NEW freed, NEW m,
         Owned(m, arena, heap, freed), NEW s \in RequestSlot \ freed
  PROVE  Owned(free(m, s), arena, heap, freed \cup {s})
<1>1. is_memory_cache_ptr(m, s) <=> m.block[s].place \in Arena
  BY ArenaIsRecognized, SlotFacts DEF Owned
<1>2. m \in Memory /\ s \in Slot /\ m.block[s].place \in {"none", arena, "heap"}
  BY SlotFacts DEF Owned, Good
<1>3. CASE m.block[s].place \notin Arena
  <2>1. free(m, s) = memory_free(m, s)
    BY <1>1, <1>2, <1>3 DEF Owned, memory_free, UsesFreedCache, free, Arena
  <2>2. Owned(memory_free(m, s), arena, heap \ {s}, freed \cup {s})
    BY FreeOwned
  <2> QED
    BY <2>1, <2>2, OwnedWeakens
<1>4. CASE m.block[s].place \in Arena
  <2> DEFINE a == free(m, s)
  <2>1. a = Faulted(m, "libc free of arena memory")
    BY <1>4 DEF free, Arena
  <2>2. Good(a)
    BY <2>1, FaultedGood DEF Owned, Faults
  <2>3. /\ a.block = m.block /\ a.cache = m.cache
        /\ a.fault \in Fatal
    BY <1>2, <2>1 DEF Faulted, Memory, Fatal
  <2> HIDE DEF a
  <2>4. ArenaApart(a)
    BY <2>3 DEF Owned, ArenaApart
  <2> QED
    BY <2>2, <2>3, <2>4 DEF Owned, a
<1> QED
  BY <1>3, <1>4

-----------------------------------------------------------------------------
(* The inductive invariant. *)

InTemplate == {"scan buffer", "scan file", "respond", "rendered"}

InHandler == {"handler"} \cup InTemplate

Serving == {"request line", "read line", "read url", "read query", "headers", "read headers",
            "parse", "pieces", "bind", "clear"} \cup InHandler

Abandoned == {Text("url"), Data, Struct("input"), Text("input"), Text("output")}

Only(slots, here) == IF here THEN slots ELSE {}

(* Where the thread is decides which slots may own a block of malloc. *)
HeldAt(at) ==
    Whole("request") \cup Whole("response")
    \cup Only(Both("line"), at \in {"read line", "read url", "read query"})
    \cup Only(Both("url"), at \notin {"request line", "read line"})
    \cup Only(Both("query"), at = "read query")
    \cup Only(Both("header"), at = "read headers")
    \cup Only({Data}, at \in {"parse", "pieces", "bind", "clear"} \cup InHandler)
    \cup Only(WholeStack, at \in {"pieces", "bind"} \cup InHandler)
    \cup Only(Both("rsp") \cup Both("input") \cup {Text("output")}, at \in {"clear"} \cup InHandler)
    \cup Only({Struct("output")}, at \in InTemplate)
    \cup Only(Both("source") \cup Both("body") \cup {FileContents}, at \in {"scan file", "respond"})
    \cup Only(Both("symbol") \cup Whole("symbols"), at \in {"scan buffer", "scan file"})

(* What the application has freed itself: not while a template is rendered. *)
FreedByApp == Only({Text("output")}, AppFreesOutput)

FreedAt(at) == Only(FreedByApp, at \notin InTemplate)

(* What free_request gives back and init_request forgets. *)
FreedAtEnd == ({Struct("url")} \cup Whole("request")) \cup Whole("response")

NoRequestYet ==
    /\ mem.fault = "none"
    /\ mem.block[Site].place = "heap"
    /\ \A s \in RequestSlot : mem.block[s].place = "none"

RequestInv ==
    /\ pc \in PcValues
    /\ Good(mem)
    /\ ArenaApart(mem)
    /\ mem.fault \in {"none"} \cup Fatal
    /\ pc = "config" => mem = InitMemory
    /\ pc = "start" => NoRequestYet /\ mem.cache = "none"
    /\ pc = "stopped" => NoRequestYet
    /\ pc \in Serving => Owned(mem, "cache", HeldAt(pc), FreedAt(pc))
    /\ pc = "free" => Owned(mem, "stale", HeldAt("clear"), FreedByApp)
    /\ pc = "accept" => Owned(mem, "stale", Abandoned, FreedByApp \cup FreedAtEnd)

(* The places a request is served at, and what the application may have freed. *)
LEMMA ServingNames ==
  /\ {"request line", "read line", "read url", "read query", "headers", "read headers",
      "parse", "pieces", "bind", "clear", "handler", "scan buffer", "scan file", "respond",
      "rendered"} = Serving
  /\ {"config", "start", "accept", "free", "stopped", "aborted"} \cap Serving = {}
  /\ Serving \subseteq PcValues
  /\ \A at \in {"request line", "read line", "read url", "read query", "headers", "read headers",
                "parse", "pieces", "bind", "clear", "handler"} : FreedAt(at) = FreedByApp
  /\ \A at \in InTemplate : FreedAt(at) = {}
  /\ \A at : FreedAt(at) \subseteq {Text("output")}
  /\ FreedByApp \subseteq {Text("output")}
  /\ AppFreesOutput => FreedByApp = {Text("output")}
  BY DEF Serving, InHandler, InTemplate, PcValues, FreedAt, FreedByApp, Only

LEMMA RequestInvInit == MemInit => RequestInv
<1> SUFFICES ASSUME MemInit PROVE RequestInv
  OBVIOUS
<1>1. Good(mem)
  BY InitGood, IInvIsGood DEF MemInit, Init
<1>2. mem.fault = "none" /\ \A s \in Slot : mem.block[s].place = "none"
  BY DEF MemInit, InitMemory, NoBlock
<1> QED
  BY <1>1, <1>2, ServingNames DEF MemInit, RequestInv, PcValues, ArenaApart, Arena

(* A step to a place where a request is served. *)
LEMMA ServingStep ==
  ASSUME NEW from, NEW m, NEW to \in Serving, Step(from, m, to),
         Owned(m, "cache", HeldAt(to), FreedAt(to))
  PROVE  RequestInv'
<1>1. mem' = m /\ (pc' = to \/ pc' = "aborted")
  BY DEF Step
<1>2. Good(m) /\ ArenaApart(m) /\ m.fault \in {"none"} \cup Fatal
  BY DEF Owned
<1>3. Good(mem)' /\ ArenaApart(mem)' /\ (mem.fault \in {"none"} \cup Fatal)'
  BY <1>1, <1>2 DEF ArenaApart, Good
<1>4. CASE pc' = "aborted"
  BY <1>3, <1>4, ServingNames DEF RequestInv, PcValues
<1>5. CASE pc' = to
  <2>1. Owned(mem, "cache", HeldAt(pc), FreedAt(pc))'
    BY <1>1, <1>5, ZenonT(60) DEF Owned, HeldAt, FreedAt, FreedByApp, ArenaApart, Good
  <2>2. to \in PcValues /\ to \notin {"config", "start", "accept", "free", "stopped", "aborted"}
    BY ServingNames
  <2> QED
    BY <1>3, <1>5, <2>1, <2>2 DEF RequestInv
<1> QED
  BY <1>1, <1>4, <1>5

(* What the thread holds where it serves. *)
LEMMA ServingOwned ==
  ASSUME RequestInv, NEW from \in Serving, pc = from
  PROVE  Owned(mem, "cache", HeldAt(from), FreedAt(from))
  BY DEF RequestInv

(* The start of the server. *)
LEMMA ConfigureKeeps == RequestInv /\ Configure => RequestInv'
<1> SUFFICES ASSUME RequestInv, Configure PROVE RequestInv'
  OBVIOUS
<1> DEFINE m == dino_config_start(mem)
<1>1. pc = "config" /\ mem = InitMemory /\ Good(mem)
  BY DEF RequestInv, Configure, Step
<1>2. Good(m)
  BY <1>1, AllocGood, SlotFacts DEF dino_config_start, One
<1>3. /\ m.fault = "none" /\ m.cache = "none"
      /\ m.block[Site].place = "heap"
      /\ \A s \in RequestSlot : m.block[s].place = "none"
  BY <1>1, SlotFacts DEF dino_config_start, memory_alloc, UsesFreedCache, Fits, HeapBlock,
     InitMemory, NoBlock
<1>4. mem' = m /\ pc' = "start"
  BY <1>3 DEF Configure, Step
<1> HIDE DEF m
<1>5. ArenaApart(m)
  BY <1>3, SlotFacts DEF ArenaApart, Arena
<1> QED
  BY <1>2, <1>3, <1>4, <1>5, ServingNames DEF RequestInv, NoRequestYet, PcValues, ArenaApart, Good

LEMMA StartKeeps == RequestInv /\ dino_http_start => RequestInv'
<1> SUFFICES ASSUME RequestInv, dino_http_start PROVE RequestInv'
  OBVIOUS
<1>1. PICK n \in CacheSizes :
        \/ Step("start", memory_cache_alloc(mem, n), "accept")
        \/ Step("start", memory_cache_free(memory_cache_alloc(mem, n)), "stopped")
  BY DEF dino_http_start
<1> DEFINE m == memory_cache_alloc(mem, n)
           f == memory_cache_free(m)
<1>2. pc = "start" /\ NoRequestYet /\ mem.cache = "none" /\ Good(mem)
  BY <1>1 DEF Step, RequestInv
<1>3. m = [mem EXCEPT !.cache = "ready", !.size = n, !.freed = n]
  BY <1>2 DEF memory_cache_alloc
<1>4. Good(m)
  BY <1>2, CacheAllocGood, CacheSizesAssumption
<1>5. m.cache = "ready" /\ m.fault = "none" /\ m.block = mem.block
  BY <1>2, <1>3 DEF Good, Memory, NoRequestYet
<1> HIDE DEF m
<1>6. f = [m EXCEPT !.cache = "dangling"]
  BY <1>5 DEF memory_cache_free, UsesFreedCache
<1>7. Good(f) /\ f.fault = "none" /\ f.block = m.block
  BY <1>4, <1>5, <1>6, CacheFreeGood DEF Good, Memory
<1> HIDE DEF f
<1>8. ArenaApart(m) /\ ArenaApart(f)
  BY <1>2, <1>5, <1>7, SlotFacts DEF NoRequestYet, ArenaApart, Arena
<1>9. CASE Step("start", m, "accept")
  <2>1. mem' = m /\ pc' = "accept"
    BY <1>5, <1>9 DEF Step
  <2>2. Owned(m, "stale", Abandoned, FreedByApp \cup FreedAtEnd)
    BY <1>2, <1>4, <1>5, <1>8 DEF Owned, NoRequestYet
  <2>3. Owned(mem', "stale", Abandoned, FreedByApp \cup FreedAtEnd)
    BY <2>1, <2>2
  <2>4. Owned(mem, "stale", Abandoned, FreedByApp \cup FreedAtEnd)'
    BY <2>3 DEF Owned, ArenaApart, Good
  <2> QED
    BY <1>4, <1>5, <1>8, <2>1, <2>4, ServingNames DEF RequestInv, PcValues, ArenaApart, Good
<1>10. CASE Step("start", f, "stopped")
  <2>1. mem' = f /\ pc' = "stopped"
    BY <1>7, <1>10 DEF Step
  <2> QED
    BY <1>2, <1>5, <1>7, <1>8, <2>1, ServingNames, ZenonT(60) DEF RequestInv, NoRequestYet, PcValues, ArenaApart, Good
<1> QED
  BY <1>1, <1>9, <1>10 DEF m, f

(* A new request forgets all pointers of the one before. *)
LEMMA InitRequestKeeps == RequestInv /\ init_request => RequestInv'
<1> SUFFICES ASSUME RequestInv, init_request PROVE RequestInv'
  OBVIOUS
<1> DEFINE m == Forgotten(mem)
           r == dino_strmap_new(m, "request")
           b == dino_strmap_new(r, "response")
           M == Whole("request") \cup Whole("response")
<1>1. Owned(mem, "stale", Abandoned, FreedByApp \cup FreedAtEnd)
  BY DEF RequestInv, init_request
<1>2. m = [mem EXCEPT !.block = [s \in Slot |-> IF s \in RequestSlot THEN NoBlock ELSE mem.block[s]]]
  <2>1. \A s \in Slot : s = Site <=> s \notin RequestSlot
    BY SlotFacts
  <2> QED
    BY <2>1 DEF Forgotten
<1> HIDE DEF m
<1>3. Good(m) /\ ArenaApart(m)
  BY <1>1, <1>2, ForgetGood DEF Owned
<1>4. /\ m.cache = "ready" /\ m.fault = mem.fault
      /\ m.block[Site].place = "heap"
      /\ \A s \in RequestSlot : m.block[s].place = "none"
  BY <1>1, <1>2, SlotFacts DEF Owned, Good, Memory, NoBlock
<1>5. Owned(m, "cache", M, FreedByApp)
  BY <1>1, <1>3, <1>4 DEF Owned
<1>6. Whole("request") \subseteq M /\ Whole("response") \subseteq M
      /\ "request" \in Maps /\ "response" \in Maps
  BY DEF Maps
<1> HIDE DEF M
<1>7. Owned(r, "cache", M, FreedByApp)
  BY <1>5, <1>6, MapNewOwned
<1> HIDE DEF r
<1>8. Owned(b, "cache", M, FreedByApp)
  BY <1>6, <1>7, MapNewOwned
<1>9. mem' = b /\ pc' \in {"request line", "clear"}
  BY DEF init_request, b, r, m
<1> HIDE DEF b
<1>10. pc' \in Serving /\ FreedAt(pc') = FreedByApp
  BY <1>9, ServingNames
<1>11. Owned(b, "cache", HeldAt(pc'), FreedAt(pc'))
  <2>1. M \subseteq HeldAt(pc')
    BY DEF HeldAt, M
  <2> QED
    BY <1>8, <1>10, <2>1, OwnedWeakens
<1>12. Owned(mem, "cache", HeldAt(pc), FreedAt(pc))'
  <2>1. Owned(mem', "cache", HeldAt(pc'), FreedAt(pc'))
    BY <1>9, <1>11
  <2> QED
    BY <2>1 DEF Owned, ArenaApart, Good, HeldAt, FreedAt, FreedByApp
<1>13. pc' \in PcValues /\ pc' \notin {"config", "start", "accept", "free", "stopped", "aborted"}
  BY <1>10, ServingNames
<1> QED
  BY <1>12, <1>13 DEF RequestInv, Owned

-----------------------------------------------------------------------------
(* Reading the request. *)

(* How what is held changes along the steps of a request. *)
LEMMA HeldFacts ==
  /\ HeldAt("request line") \cup Both("line") \subseteq HeldAt("read line")
  /\ HeldAt("read line") \ Both("line") \subseteq HeldAt("clear")
  /\ HeldAt("read line") \cup Both("url") \subseteq HeldAt("read url")
  /\ HeldAt("read url") \ Both("line") \subseteq HeldAt("headers")
  /\ HeldAt("read url") \cup Both("query") \subseteq HeldAt("read query")
  /\ (HeldAt("read query") \ Both("query")) \ Both("line") \subseteq HeldAt("headers")
  /\ HeldAt("headers") \cup Both("header") \subseteq HeldAt("read headers")
  /\ (HeldAt("read headers") \ Both("header")) \cup {Data} \subseteq HeldAt("parse")
  /\ HeldAt("parse") \cup WholeStack \subseteq HeldAt("pieces")
  /\ HeldAt("pieces") \subseteq HeldAt("bind")
  /\ HeldAt("bind") \subseteq HeldAt("handler")
  /\ HeldAt("pieces") \ WholeStack \subseteq HeldAt("clear")
  /\ HeldAt("handler") \ WholeStack \subseteq HeldAt("clear")
  /\ \A at : Whole("request") \cup Whole("response") \subseteq HeldAt(at)
  BY ZenonT(60) DEF HeldAt, Only, InHandler, InTemplate

(* Four kinds of steps most of a request is made of. *)
LEMMA GrowStep ==
  ASSUME RequestInv, NEW at \in Serving, NEW s \in RequestSlot \cap HeldAt(at),
         Step(at, Grown(mem, s), at)
  PROVE  RequestInv'
<1>1. Owned(mem, "cache", HeldAt(at), FreedAt(at))
  BY ServingOwned DEF Step
<1>2. Owned(Grown(mem, s), "cache", HeldAt(at), FreedAt(at))
  BY <1>1, GrowOwned
<1> QED
  BY <1>2, ServingStep

LEMMA GrowTextStep ==
  ASSUME RequestInv, NEW at \in Serving, NEW string \in Strings, Both(string) \subseteq HeldAt(at),
         Grow(at, string)
  PROVE  RequestInv'
<1>1. Text(string) \in RequestSlot \cap HeldAt(at)
  BY StringSlots
<1> QED
  BY <1>1, GrowStep DEF Grow

LEMMA AddStep ==
  ASSUME RequestInv, NEW at \in Serving, NEW map \in Maps \ {"symbols"}, AddParameter(at, map)
  PROVE  RequestInv'
<1>1. PICK key \in Keys[map] : Step(at, dino_strmap_add(mem, map, key), at)
  BY DEF AddParameter
<1>2. Owned(mem, "cache", HeldAt(at), FreedAt(at))
  BY <1>1, ServingOwned DEF Step
<1>3. Whole(map) \subseteq HeldAt(at)
  <2>1. map = "request" \/ map = "response"
    BY DEF Maps
  <2> QED
    BY <2>1, HeldFacts
<1>4. Owned(dino_strmap_add(mem, map, key), "cache", HeldAt(at), FreedAt(at))
  BY <1>2, <1>3, AddOwned
<1> QED
  BY <1>1, <1>4, ServingStep

LEMMA NewStringStep ==
  ASSUME RequestInv, NEW from \in Serving, NEW to \in Serving, FreedAt(from) = FreedAt(to),
         NEW string \in Strings, HeldAt(from) \cup Both(string) \subseteq HeldAt(to),
         Step(from, dino_string_new(mem, string), to)
  PROVE  RequestInv'
<1>1. Owned(mem, "cache", HeldAt(from), FreedAt(from))
  BY ServingOwned DEF Step
<1>2. Owned(mem, "cache", HeldAt(to), FreedAt(to))
  BY <1>1, OwnedWeakens
<1>3. Owned(dino_string_new(mem, string), "cache", HeldAt(to), FreedAt(to))
  BY <1>2, StringNewOwned
<1> QED
  BY <1>3, ServingStep

(* A string of the request is not the one the application may have freed. *)
LEMMA DeleteString ==
  ASSUME NEW heap, NEW freed \in SUBSET {Text("output")}, NEW m, Owned(m, "cache", heap, freed),
         NEW string \in Strings \ {"output"}
  PROVE  Owned(dino_string_delete(m, string), "cache", heap \ Both(string), freed)
<1>1. "output" \in Strings /\ Text("output") \in Both("output")
  BY StringSlots DEF Strings
<1>2. Both(string) \cap Both("output") = {}
  BY <1>1, SlotsApart
<1>3. Both(string) \cap freed = {}
  BY <1>1, <1>2
<1> QED
  BY <1>3, StringDeleteOwned DEF Arena

LEMMA DeleteStringStep ==
  ASSUME RequestInv, NEW from \in Serving, NEW to \in Serving, FreedAt(from) = FreedAt(to),
         NEW string \in Strings \ {"output"}, HeldAt(from) \ Both(string) \subseteq HeldAt(to),
         Step(from, dino_string_delete(mem, string), to)
  PROVE  RequestInv'
<1>1. Owned(mem, "cache", HeldAt(from), FreedAt(from))
  BY ServingOwned DEF Step
<1>2. FreedAt(from) \in SUBSET {Text("output")}
  BY ServingNames
<1>3. Owned(dino_string_delete(mem, string), "cache", HeldAt(from) \ Both(string), FreedAt(from))
  BY <1>1, <1>2, DeleteString
<1>4. Owned(dino_string_delete(mem, string), "cache", HeldAt(to), FreedAt(to))
  BY <1>3, OwnedWeakens
<1> QED
  BY <1>4, ServingStep

(* Reading the request: each text is deleted before the next part is read. *)
LEMMA RequestLineKeeps ==
  ASSUME RequestInv,
         \/ ReadRequestLine \/ Grow("read line", "line") \/ BadRequest
         \/ StartUrl \/ Grow("read url", "url")
         \/ StartQuery \/ Grow("read query", "query") \/ AddParameter("read query", "request")
         \/ EndQuery \/ EndUrl
  PROVE  RequestInv'
<1> /\ {"line", "url", "query", "header"} \subseteq Strings \ {"output"}
    /\ "request" \in Maps \ {"symbols"}
  BY DEF Strings, Maps
<1>1. CASE ReadRequestLine
  BY <1>1, ServingNames, HeldFacts, NewStringStep DEF ReadRequestLine
<1>2. CASE Grow("read line", "line")
  BY <1>2, ServingNames, HeldFacts, GrowTextStep
<1>3. CASE BadRequest
  <2>1. Step("read line", dino_string_delete(mem, "line"), "clear")
    BY <1>3 DEF BadRequest
  <2>2. /\ FreedAt("read line") = FreedAt("clear") /\ HeldAt("read line") \ Both("line") \subseteq HeldAt("clear")
        /\ "read line" \in Serving /\ "clear" \in Serving /\ "line" \in Strings \ {"output"}
    BY ServingNames, HeldFacts
  <2> QED
    BY <2>1, <2>2, DeleteStringStep
<1>4. CASE StartUrl
  BY <1>4, ServingNames, HeldFacts, NewStringStep DEF StartUrl
<1>5. CASE Grow("read url", "url")
  BY <1>5, ServingNames, HeldFacts, GrowTextStep
<1>6. CASE StartQuery
  BY <1>6, ServingNames, HeldFacts, NewStringStep DEF StartQuery
<1>7. CASE Grow("read query", "query")
  BY <1>7, ServingNames, HeldFacts, GrowTextStep
<1>8. CASE AddParameter("read query", "request")
  BY <1>8, ServingNames, HeldFacts, AddStep
<1>9. CASE EndQuery
  <2> DEFINE m == dino_string_delete(mem, "query")
             f == FreedAt("headers")
  <2>1. Owned(mem, "cache", HeldAt("read query"), f)
    BY <1>9, ServingNames, ServingOwned DEF EndQuery, Step
  <2>2. f \in SUBSET {Text("output")}
    BY ServingNames
  <2>3. Step("read query", dino_string_delete(m, "line"), "headers")
    BY <1>9 DEF EndQuery
  <2> HIDE DEF f
  <2>4. Owned(m, "cache", HeldAt("read query") \ Both("query"), f)
    BY <2>1, <2>2, DeleteString
  <2> HIDE DEF m
  <2>5. Owned(dino_string_delete(m, "line"), "cache", (HeldAt("read query") \ Both("query")) \ Both("line"), f)
    BY <2>2, <2>4, DeleteString
  <2>6. Owned(dino_string_delete(m, "line"), "cache", HeldAt("headers"), f)
    BY <2>5, HeldFacts, OwnedWeakens
  <2> QED
    BY <2>3, <2>6, ServingNames, ServingStep DEF f
<1>10. CASE EndUrl
  <2>1. Step("read url", dino_string_delete(mem, "line"), "headers")
    BY <1>10 DEF EndUrl
  <2>2. /\ FreedAt("read url") = FreedAt("headers") /\ HeldAt("read url") \ Both("line") \subseteq HeldAt("headers")
        /\ "read url" \in Serving /\ "headers" \in Serving /\ "line" \in Strings \ {"output"}
    BY ServingNames, HeldFacts
  <2> QED
    BY <2>1, <2>2, DeleteStringStep
<1> QED
  BY <1>1, <1>2, <1>3, <1>4, <1>5, <1>6, <1>7, <1>8, <1>9, <1>10

LEMMA HeadersKeep ==
  ASSUME RequestInv,
         \/ ReadHeader \/ Grow("read headers", "header") \/ AddParameter("read headers", "request")
         \/ EndHeaders
  PROVE  RequestInv'
<1> "header" \in Strings \ {"output"} /\ "request" \in Maps \ {"symbols"}
  BY DEF Strings, Maps
<1>1. CASE ReadHeader
  BY <1>1, ServingNames, HeldFacts, NewStringStep DEF ReadHeader
<1>2. CASE Grow("read headers", "header")
  BY <1>2, ServingNames, HeldFacts, GrowTextStep
<1>3. CASE AddParameter("read headers", "request")
  BY <1>3, ServingNames, HeldFacts, AddStep
<1>4. CASE EndHeaders
  <2> DEFINE m == dino_string_delete(mem, "header")
             f == FreedAt("parse")
             h == HeldAt("read headers") \ Both("header")
  <2>1. Owned(mem, "cache", HeldAt("read headers"), f) /\ f \in SUBSET {Text("output")}
    BY <1>4, ServingNames, ServingOwned DEF EndHeaders, Step
  <2>2. Owned(m, "cache", h, f)
    <3> HIDE DEF f
    <3> QED
      BY <2>1, DeleteString
  <2>3. \/ Step("read headers", m, "parse")
        \/ \E n \in BodySizes : Step("read headers", memory_alloc(m, Data, n), "parse")
    BY <1>4 DEF EndHeaders
  <2>4. h \cup {Data} \subseteq HeldAt("parse") /\ "parse" \in Serving
    BY ServingNames, HeldFacts
  <2> HIDE DEF m, f, h
  <2>5. CASE Step("read headers", m, "parse")
    <3>1. Owned(m, "cache", HeldAt("parse"), f)
      BY <2>2, <2>4, OwnedWeakens
    <3> QED
      BY <2>4, <2>5, <3>1, ServingStep DEF f
  <2>6. ASSUME NEW n \in BodySizes, Step("read headers", memory_alloc(m, Data, n), "parse")
        PROVE  RequestInv'
    <3>1. n \in Nat /\ Data \in RequestSlot
      BY BodySizesAssumption, OtherSlots
    <3>2. Owned(memory_alloc(m, Data, n), "cache", h \cup {Data}, f \ {Data})
      BY <2>2, <3>1, AllocOwned
    <3>0. f \ {Data} \subseteq f
      OBVIOUS
    <3> DEFINE a == memory_alloc(m, Data, n)
    <3> HIDE DEF a
    <3>3. Owned(a, "cache", HeldAt("parse"), f)
      BY <2>4, <3>0, <3>2, OwnedWeakens DEF a
    <3> QED
      BY <2>4, <2>6, <3>3, ServingStep DEF f, a
  <2> QED
    BY <2>3, <2>5, <2>6
<1> QED
  BY <1>1, <1>2, <1>3, <1>4

-----------------------------------------------------------------------------
(* accept_request, the handler, and the answer it buffers. *)
LEMMA StackUrlKeeps == RequestInv /\ StackUrl => RequestInv'
<1> SUFFICES ASSUME RequestInv, StackUrl PROVE RequestInv'
  OBVIOUS
<1> DEFINE m1 == memory_alloc(mem, Stack, One)
           m2 == memory_alloc(m1, StackData, One)
           f == FreedAt("parse")
           h == HeldAt("pieces")
<1>1. Owned(mem, "cache", HeldAt("parse"), f)
  BY ServingNames, ServingOwned DEF StackUrl, Step
<1>2. HeldAt("parse") \subseteq h /\ Stack \in RequestSlot \cap h /\ StackData \in RequestSlot \cap h
  BY HeldFacts, OtherSlots
<1>3. Step("parse", m2, "pieces") /\ "pieces" \in Serving /\ f = FreedAt("pieces")
  BY ServingNames DEF StackUrl, stack_ptr_alloc
<1> HIDE DEF f, h
<1>4. Owned(mem, "cache", h, f)
  BY <1>1, <1>2, OwnedWeakens
<1>5. Owned(m1, "cache", h, f)
  BY <1>2, <1>4, NewOwned
<1> HIDE DEF m1
<1>6. Owned(m2, "cache", h, f)
  BY <1>2, <1>5, NewOwned
<1> HIDE DEF m2
<1> QED
  BY <1>3, <1>6, ServingStep DEF h

LEMMA PushKeeps == RequestInv /\ stack_ptr_push => RequestInv'
<1> SUFFICES ASSUME RequestInv, stack_ptr_push PROVE RequestInv'
  OBVIOUS
<1>1. StackPointers \in RequestSlot \cap HeldAt("pieces") /\ "pieces" \in Serving
  BY ServingNames, HeldFacts, OtherSlots
<1> QED
  BY <1>1, GrowStep DEF stack_ptr_push

LEMMA StackFreeStep ==
  ASSUME RequestInv, NEW at \in {"pieces", "handler"}, Step(at, stack_ptr_free(mem), "clear")
  PROVE  RequestInv'
<1> DEFINE m == stack_ptr_free(mem)
<1>1. Owned(mem, "cache", HeldAt(at), FreedAt(at)) /\ "clear" \in Serving /\ FreedAt("clear") = FreedAt(at)
  BY ServingNames, ServingOwned DEF Step
<1>2. WholeStack \in SUBSET RequestSlot /\ WholeStack \cap FreedAt(at) = {}
  <2>1. "output" \in Strings /\ Text("output") \in Both("output")
    BY StringSlots DEF Strings
  <2>2. Both("output") \cap WholeStack = {}
    BY <2>1, SlotsApart
  <2>3. FreedAt(at) \subseteq {Text("output")}
    BY ServingNames
  <2> QED
    BY <2>1, <2>2, <2>3, OtherSlots
<1>3. Owned(m, "cache", HeldAt(at) \ WholeStack, FreedAt(at))
  BY <1>1, <1>2, DeleteOwned DEF stack_ptr_free, Arena
<1>4. HeldAt(at) \ WholeStack \subseteq HeldAt("clear")
  BY HeldFacts
<1> HIDE DEF m
<1>5. Owned(m, "cache", HeldAt("clear"), FreedAt("clear"))
  BY <1>1, <1>3, <1>4, OwnedWeakens
<1> QED
  BY <1>1, <1>5, ServingStep DEF m

LEMMA SameMemoryStep ==
  ASSUME RequestInv, NEW from \in Serving, NEW to \in Serving, FreedAt(from) = FreedAt(to),
         HeldAt(from) \subseteq HeldAt(to), Step(from, mem, to)
  PROVE  RequestInv'
<1>1. Owned(mem, "cache", HeldAt(from), FreedAt(from))
  BY ServingOwned DEF Step
<1>2. Owned(mem, "cache", HeldAt(to), FreedAt(to))
  BY <1>1, OwnedWeakens
<1> QED
  BY <1>2, ServingStep

LEMMA SendKeeps == RequestInv /\ response_send => RequestInv'
<1> SUFFICES ASSUME RequestInv, response_send PROVE RequestInv'
  OBVIOUS
<1>1. "rsp" \in Strings /\ "handler" \in Serving /\ Both("rsp") \subseteq HeldAt("handler")
  BY ServingNames DEF Strings, HeldAt, Only, InHandler
<1>2. CASE Step("handler", dino_string_new_with_str(mem, "rsp"), "handler")
  <2>1. Owned(mem, "cache", HeldAt("handler"), FreedAt("handler"))
    BY <1>1, <1>2, ServingOwned DEF Step
  <2>2. Owned(dino_string_new_with_str(mem, "rsp"), "cache", HeldAt("handler"), FreedAt("handler"))
    BY <1>1, <2>1, StringOfTextOwned
  <2> QED
    BY <1>1, <1>2, <2>2, ServingStep
<1>3. CASE Grow("handler", "rsp")
  BY <1>1, <1>3, GrowTextStep
<1> QED
  BY <1>2, <1>3 DEF response_send

-----------------------------------------------------------------------------
(* A template call, from the handler and back. *)

LEMMA TemplateHeld ==
  /\ HeldAt("handler") \cup Both("output") \subseteq HeldAt("rendered")
  /\ Both("input") \subseteq HeldAt("rendered") /\ Text("output") \in HeldAt("rendered")
  /\ HeldAt("rendered") \cup (Both("symbol") \cup Whole("symbols")) \subseteq HeldAt("scan buffer")
  /\ ((HeldAt("rendered") \cup Both("source")) \cup {FileContents}) \cup Both("body")
       \subseteq HeldAt("respond")
  /\ HeldAt("respond") \cup (Both("symbol") \cup Whole("symbols")) \subseteq HeldAt("scan file")
  /\ (HeldAt("scan buffer") \ Both("symbol")) \ Whole("symbols") \subseteq HeldAt("rendered")
  /\ (HeldAt("scan file") \ Both("symbol")) \ Whole("symbols") \subseteq HeldAt("respond")
  /\ (((HeldAt("respond") \ Both("body")) \ Both("input")) \ {FileContents}) \ Both("source")
       \subseteq HeldAt("rendered")
  /\ HeldAt("rendered") \ {Struct("output")} \subseteq HeldAt("handler")
  /\ HeldAt("rendered") \ Both("output") \subseteq HeldAt("handler")
<1>1. Both("output") = {Struct("output"), Text("output")}
  BY DEF Both
<1> QED
  BY <1>1 DEF HeldAt, Only, InHandler, InTemplate

LEMMA TemplateNames ==
  /\ {"source", "input", "body", "symbol", "first", "second"} \subseteq Strings \ {"output"}
  /\ "output" \in Strings /\ "symbols" \in Maps
  /\ \A at \in InTemplate : at \in Serving /\ FreedAt(at) = {}
  /\ InTemplate = {"scan buffer", "scan file", "respond", "rendered"}
  BY ServingNames DEF Strings, Maps, InTemplate

(* With no template call behind it, the handler has freed nothing yet. *)
LEMMA NothingFreedYet ==
  ASSUME RequestInv, pc = "handler", NoTemplateYet
  PROVE  Owned(mem, "cache", HeldAt("handler"), {})
<1>1. Owned(mem, "cache", HeldAt("handler"), FreedAt("handler")) /\ FreedAt("handler") \subseteq {Text("output")}
  BY ServingNames, ServingOwned
<1>2. \A s \in RequestSlot : mem.block[s].place = "freed" => s = Text("output")
  BY <1>1 DEF Owned
<1>3. mem.block[Text("output")].place = "none"
  BY DEF NoTemplateYet
<1> QED
  BY <1>1, <1>2, <1>3 DEF Owned

LEMMA BeginScanOwned ==
  ASSUME NEW heap, NEW m, Owned(m, "cache", heap, {}), Both("symbol") \cup Whole("symbols") \subseteq heap
  PROVE  Owned(BeginScan(m), "cache", heap, {})
<1>1. Owned(pi_template_generator_create(m), "cache", heap, {})
  BY CreateOwned
<1> QED
  BY <1>1, TemplateNames, StringNewOwned DEF BeginScan

LEMMA BufferKeeps == RequestInv /\ template_generate_buffer => RequestInv'
<1> SUFFICES ASSUME RequestInv, template_generate_buffer PROVE RequestInv'
  OBVIOUS
<1> DEFINE m1 == dino_string_new_with_str(mem, "input")
           m == dino_string_new(m1, "output")
           R == HeldAt("rendered")
           S == HeldAt("scan buffer")
<1>1. \/ Step("handler", m, "rendered")
      \/ Step("handler", BeginScan(m), "scan buffer")
  BY DEF template_generate_buffer
<1>2. Owned(mem, "cache", HeldAt("handler"), {})
  BY NothingFreedYet DEF template_generate_buffer, Step
<1>3. /\ HeldAt("handler") \subseteq R /\ Both("input") \subseteq R /\ Both("output") \subseteq R
      /\ R \subseteq S /\ Both("symbol") \cup Whole("symbols") \subseteq S
  BY TemplateHeld
<1>4. "rendered" \in Serving /\ FreedAt("rendered") = {} /\ "scan buffer" \in Serving /\ FreedAt("scan buffer") = {}
  BY TemplateNames
<1> HIDE DEF R, S
<1>5. Owned(mem, "cache", R, {})
  BY <1>2, <1>3, OwnedWeakens
<1>6. Owned(m1, "cache", R, {})
  BY <1>3, <1>5, TemplateNames, StringOfTextOwned
<1> HIDE DEF m1
<1>7. Owned(m, "cache", R, {})
  BY <1>3, <1>6, TemplateNames, StringNewOwned
<1> HIDE DEF m
<1>8. Owned(m, "cache", S, {})
  BY <1>3, <1>7, OwnedWeakens
<1>9. Owned(BeginScan(m), "cache", S, {})
  BY <1>3, <1>8, BeginScanOwned
<1>10. CASE Step("handler", m, "rendered")
  BY <1>4, <1>7, <1>10, ServingStep DEF R
<1>11. CASE Step("handler", BeginScan(m), "scan buffer")
  BY <1>4, <1>9, <1>11, ServingStep DEF S
<1> QED
  BY <1>1, <1>10, <1>11

LEMMA FileKeeps == RequestInv /\ template_process_file => RequestInv'
<1> SUFFICES ASSUME RequestInv, template_process_file PROVE RequestInv'
  OBVIOUS
<1> DEFINE ms == dino_string_new_with_str(mem, "source")
           m0 == dino_string_new(ms, "output")
           m1 == memory_alloc(m0, FileContents, One)
           mi == dino_string_new(m1, "input")
           m2 == dino_string_new(mi, "body")
           md == Dropped(memory_free(m1, FileContents), {FileContents})
           R == HeldAt("rendered")
           A == R \cup Both("source")
           B == A \cup {FileContents}
           E == HeldAt("respond")
           S == HeldAt("scan file")
<1>1. \/ Step("handler", dino_string_delete(m0, "source"), "rendered")
      \/ Step("handler", dino_string_delete(md, "source"), "rendered")
      \/ Step("handler", m2, "respond")
      \/ Step("handler", BeginScan(m2), "scan file")
  BY DEF template_process_file
<1>2. Owned(mem, "cache", HeldAt("handler"), {})
  BY NothingFreedYet DEF template_process_file, Step
<1>3. /\ HeldAt("handler") \subseteq R /\ Both("output") \subseteq R /\ Both("input") \subseteq R
      /\ B \cup Both("body") \subseteq E
      /\ E \subseteq S /\ Both("symbol") \cup Whole("symbols") \subseteq S
  BY TemplateHeld
<1>4. /\ "rendered" \in Serving /\ FreedAt("rendered") = {}
      /\ "respond" \in Serving /\ FreedAt("respond") = {}
      /\ "scan file" \in Serving /\ FreedAt("scan file") = {}
  BY TemplateNames
<1>5. {} \in SUBSET {Text("output")}
  OBVIOUS
<1> HIDE DEF R, E, S
<1>6. Owned(mem, "cache", A, {})
  BY <1>2, <1>3, OwnedWeakens
<1>7. Owned(ms, "cache", A, {})
  BY <1>6, TemplateNames, StringOfTextOwned
<1> HIDE DEF ms
<1>8. Both("output") \subseteq A
  BY <1>3
<1>9. Owned(m0, "cache", A, {})
  BY <1>7, <1>8, TemplateNames, StringNewOwned
<1> HIDE DEF m0, A
<1>10. A \ Both("source") \subseteq R
  BY DEF A
<1>11. Owned(m0, "cache", B, {})
  BY <1>9, OwnedWeakens
<1>12. Owned(m1, "cache", B, {})
  BY <1>11, OtherSlots, NewOwned
<1> HIDE DEF m1
<1>13. Owned(md, "cache", B \ {FileContents}, {})
  BY <1>12, OtherSlots, BlockDeleteOwned
<1> HIDE DEF md
<1>14. Owned(md, "cache", A, {})
  BY <1>13, OwnedWeakens
<1>15. Owned(m1, "cache", E, {})
  BY <1>3, <1>12, OwnedWeakens
<1>16. Both("input") \subseteq E /\ Both("body") \subseteq E
  BY <1>3 DEF A
<1> HIDE DEF B
<1>17. Owned(mi, "cache", E, {})
  BY <1>15, <1>16, TemplateNames, StringNewOwned
<1> HIDE DEF mi
<1>18. Owned(m2, "cache", E, {})
  BY <1>16, <1>17, TemplateNames, StringNewOwned
<1> HIDE DEF m2
<1>19. ASSUME NEW m, Owned(m, "cache", A, {}), Step("handler", dino_string_delete(m, "source"), "rendered")
       PROVE  RequestInv'
  <2>1. Owned(dino_string_delete(m, "source"), "cache", A \ Both("source"), {})
    BY <1>5, <1>19, TemplateNames, DeleteString
  <2>2. Owned(dino_string_delete(m, "source"), "cache", R, {})
    BY <1>10, <2>1, OwnedWeakens
  <2> QED
    BY <1>4, <1>19, <2>2, ServingStep DEF R
<1>20. CASE Step("handler", m2, "respond")
  BY <1>4, <1>18, <1>20, ServingStep DEF E
<1>21. CASE Step("handler", BeginScan(m2), "scan file")
  <2>1. Owned(m2, "cache", S, {})
    BY <1>3, <1>18, OwnedWeakens
  <2>2. Owned(BeginScan(m2), "cache", S, {})
    BY <1>3, <2>1, BeginScanOwned
  <2> QED
    BY <1>4, <1>21, <2>2, ServingStep DEF S
<1> QED
  BY <1>1, <1>9, <1>14, <1>19, <1>20, <1>21

(* One tag: its symbols' texts are made and deleted in the one round. *)
LEMMA TagKeeps ==
  ASSUME RequestInv, NEW at \in {"scan buffer", "scan file"}, Tag(at)
  PROVE  RequestInv'
<1> DEFINE H == HeldAt(at)
           W == (H \cup Both("first")) \cup Both("second")
           Deleted(m) == dino_string_delete(dino_string_delete(m, "first"), "second")
<1>1. at \in Serving /\ FreedAt(at) = {}
  BY TemplateNames
<1>2. PICK m1 \in {dino_string_new_with_str(mem, "first")} :
      \E m2 \in {m1, dino_string_new_with_str(m1, "second")} :
      \E m3 \in {m2} \cup {m \in {Grown(m2, Text("symbol"))} : CanGrow(m2, Text("symbol"))} :
      \E m4 \in {m3} \cup {intmap_put(m3, key) : key \in NewSymbols(m3)} :
          Step(at, Deleted(m4), at)
  BY DEF Tag
<1>3. PICK m2 \in {m1, dino_string_new_with_str(m1, "second")} :
      \E m3 \in {m2} \cup {m \in {Grown(m2, Text("symbol"))} : CanGrow(m2, Text("symbol"))} :
      \E m4 \in {m3} \cup {intmap_put(m3, key) : key \in NewSymbols(m3)} :
          Step(at, Deleted(m4), at)
  BY <1>2
<1>4. PICK m3 \in {m2} \cup {m \in {Grown(m2, Text("symbol"))} : CanGrow(m2, Text("symbol"))} :
      \E m4 \in {m3} \cup {intmap_put(m3, key) : key \in NewSymbols(m3)} :
          Step(at, Deleted(m4), at)
  BY <1>3
<1>5. PICK m4 \in {m3} \cup {intmap_put(m3, key) : key \in NewSymbols(m3)} :
          Step(at, Deleted(m4), at)
  BY <1>4
<1>6. Owned(mem, "cache", H, {})
  BY <1>1, <1>5, ServingOwned DEF Step
<1>7. /\ H \subseteq W /\ Both("first") \subseteq W /\ Both("second") \subseteq W
      /\ Text("symbol") \in RequestSlot \cap W /\ Whole("symbols") \subseteq W
      /\ (W \ Both("first")) \ Both("second") \subseteq H
  <2>1. Both("symbol") \subseteq H /\ Whole("symbols") \subseteq H
    BY TemplateHeld
  <2>2. Text("symbol") \in Both("symbol") /\ Text("symbol") \in RequestSlot
    BY TemplateNames, StringSlots
  <2> QED
    BY <2>1, <2>2
<1> HIDE DEF W, H
<1>8. Owned(m1, "cache", W, {})
  <2>1. Owned(mem, "cache", W, {})
    BY <1>6, <1>7, OwnedHolds
  <2>2. Owned(dino_string_new_with_str(mem, "first"), "cache", W, {})
    BY <1>7, <2>1, TemplateNames, StringOfTextOwned
  <2> QED
    BY <1>2, <2>2
<1>9. Owned(m2, "cache", W, {})
  <2>1. Owned(dino_string_new_with_str(m1, "second"), "cache", W, {})
    BY <1>7, <1>8, TemplateNames, StringOfTextOwned
  <2> QED
    BY <1>3, <1>8, <2>1
<1>10. Owned(m3, "cache", W, {})
  <2>1. Owned(Grown(m2, Text("symbol")), "cache", W, {})
    BY <1>7, <1>9, GrowOwned
  <2>2. m3 = m2 \/ m3 = Grown(m2, Text("symbol"))
    BY <1>4
  <2> QED
    BY <1>9, <2>1, <2>2
<1>11. Owned(m4, "cache", W, {})
  <2>1. m4 = m3 \/ \E key \in Keys["symbols"] : m4 = intmap_put(m3, key)
    BY <1>5 DEF NewSymbols
  <2>2. ASSUME NEW key \in Keys["symbols"]
        PROVE  Owned(intmap_put(m3, key), "cache", W, {})
    BY <1>7, <1>10, PutOwned
  <2> QED
    BY <1>10, <2>1, <2>2
<1>12. {} \in SUBSET {Text("output")}
  OBVIOUS
<1>13. Owned(dino_string_delete(m4, "first"), "cache", W \ Both("first"), {})
  BY <1>11, <1>12, TemplateNames, DeleteString
<1>14. Owned(Deleted(m4), "cache", (W \ Both("first")) \ Both("second"), {})
  <2> DEFINE d == dino_string_delete(m4, "first")
  <2> HIDE DEF d
  <2>1. Owned(dino_string_delete(d, "second"), "cache", (W \ Both("first")) \ Both("second"), {})
    BY <1>12, <1>13, TemplateNames, DeleteString DEF d
  <2> QED
    BY <2>1 DEF d
<1> HIDE DEF Deleted
<1>15. Owned(Deleted(m4), "cache", H, {})
  BY <1>7, <1>14, OwnedHolds
<1> QED
  BY <1>1, <1>5, <1>15, ServingStep DEF H

LEMMA EndScanKeeps ==
  ASSUME RequestInv, EndScan("scan buffer", "rendered") \/ EndScan("scan file", "respond")
  PROVE  RequestInv'
<1>1. PICK at \in {"scan buffer", "scan file"}, to \in {"rendered", "respond"} :
        EndScan(at, to) /\ (HeldAt(at) \ Both("symbol")) \ Whole("symbols") \subseteq HeldAt(to)
  BY TemplateHeld
<1> DEFINE m == dino_string_delete(mem, "symbol")
           d == Dropped(dino_strmap_delete(m, "symbols"), Whole("symbols"))
<1>2. at \in Serving /\ FreedAt(at) = {} /\ to \in Serving /\ FreedAt(to) = {}
  BY TemplateNames
<1>3. Owned(mem, "cache", HeldAt(at), {}) /\ Step(at, d, to)
  BY <1>1, <1>2, ServingOwned DEF EndScan, Step
<1>4. {} \in SUBSET {Text("output")}
  OBVIOUS
<1>5. Owned(m, "cache", HeldAt(at) \ Both("symbol"), {})
  BY <1>3, <1>4, TemplateNames, DeleteString
<1>6. Whole("symbols") \in SUBSET RequestSlot
  BY TemplateNames, MapSlots
<1> HIDE DEF m
<1>7. Owned(d, "cache", (HeldAt(at) \ Both("symbol")) \ Whole("symbols"), {})
  BY <1>5, <1>6, DeleteOwned DEF dino_strmap_delete, Arena
<1> HIDE DEF d
<1>8. Owned(d, "cache", HeldAt(to), {})
  BY <1>1, <1>7, OwnedHolds
<1> QED
  BY <1>2, <1>3, <1>8, ServingStep

LEMMA RespondKeeps == RequestInv /\ RespondWithFile => RequestInv'
<1> SUFFICES ASSUME RequestInv, RespondWithFile PROVE RequestInv'
  OBVIOUS
<1> DEFINE m1 == dino_string_delete(mem, "body")
           m2 == dino_string_delete(m1, "input")
           m3 == Dropped(memory_free(m2, FileContents), {FileContents})
           m4 == dino_string_delete(m3, "source")
           E == HeldAt("respond")
<1>1. Step("respond", m4, "rendered")
  BY DEF RespondWithFile
<1>2. "respond" \in Serving /\ FreedAt("respond") = {} /\ "rendered" \in Serving /\ FreedAt("rendered") = {}
  BY TemplateNames
<1>3. Owned(mem, "cache", E, {})
  BY <1>1, <1>2, ServingOwned DEF Step
<1>4. (((E \ Both("body")) \ Both("input")) \ {FileContents}) \ Both("source") \subseteq HeldAt("rendered")
  BY TemplateHeld
<1>5. {} \in SUBSET {Text("output")}
  OBVIOUS
<1> HIDE DEF E
<1>6. Owned(m1, "cache", E \ Both("body"), {})
  BY <1>3, <1>5, TemplateNames, DeleteString
<1> HIDE DEF m1
<1>7. Owned(m2, "cache", (E \ Both("body")) \ Both("input"), {})
  BY <1>5, <1>6, TemplateNames, DeleteString
<1> HIDE DEF m2
<1>8. Owned(m3, "cache", ((E \ Both("body")) \ Both("input")) \ {FileContents}, {})
  BY <1>7, OtherSlots, BlockDeleteOwned
<1> HIDE DEF m3
<1>9. Owned(m4, "cache", (((E \ Both("body")) \ Both("input")) \ {FileContents}) \ Both("source"), {})
  BY <1>5, <1>8, TemplateNames, DeleteString
<1> HIDE DEF m4
<1>10. Owned(m4, "cache", HeldAt("rendered"), {})
  BY <1>4, <1>9, OwnedWeakens
<1> QED
  BY <1>1, <1>2, <1>10, ServingStep

LEMMA GiveKeeps == RequestInv /\ GiveOutput => RequestInv'
<1> SUFFICES ASSUME RequestInv, GiveOutput PROVE RequestInv'
  OBVIOUS
<1> DEFINE given == Dropped(memory_free(mem, Struct("output")), {Struct("output")})
           taken == IF AppFreesOutput THEN free(given, Text("output")) ELSE given
           gone == dino_string_delete(mem, "output")
           H == HeldAt("handler")
<1>1. Step("rendered", taken, "handler") \/ Step("rendered", gone, "handler")
  BY DEF GiveOutput
<1>2. "rendered" \in Serving /\ FreedAt("rendered") = {} /\ "handler" \in Serving /\ FreedAt("handler") = FreedByApp
  BY ServingNames, TemplateNames
<1>3. Owned(mem, "cache", HeldAt("rendered"), {})
  BY <1>1, <1>2, ServingOwned DEF Step
<1>4. /\ HeldAt("rendered") \ {Struct("output")} \subseteq H
      /\ HeldAt("rendered") \ Both("output") \subseteq H
  BY TemplateHeld
<1>5. /\ Struct("output") \in RequestSlot /\ Text("output") \in RequestSlot
      /\ AppFreesOutput => FreedByApp = {Text("output")}
  BY TemplateNames, StringSlots, ServingNames
<1> HIDE DEF H
<1>6. Owned(given, "cache", HeldAt("rendered") \ {Struct("output")}, {})
  BY <1>3, <1>5, BlockDeleteOwned
<1> HIDE DEF given
<1>7. Owned(given, "cache", H, {})
  BY <1>4, <1>6, OwnedWeakens
<1>8. Owned(taken, "cache", H, FreedByApp)
  <2>1. CASE AppFreesOutput
    <3>1. Owned(free(given, Text("output")), "cache", H, {} \cup {Text("output")})
      BY <1>5, <1>7, <2>1, LibcFreeOwned DEF Arena
    <3>2. {} \cup {Text("output")} \subseteq FreedByApp
      BY <1>5, <2>1
    <3> QED
      BY <2>1, <3>1, <3>2, OwnedWeakens
  <2>2. CASE ~ AppFreesOutput
    BY <1>7, <2>2, OwnedWeakens
  <2> QED
    BY <2>1, <2>2
<1>9. Owned(gone, "cache", H, FreedByApp)
  <2>1. Owned(gone, "cache", HeldAt("rendered") \ Both("output"), {})
    BY <1>3, TemplateNames, StringDeleteOwned DEF Arena
  <2> HIDE DEF gone
  <2> QED
    BY <1>4, <2>1, OwnedWeakens
<1> HIDE DEF taken, gone
<1> QED
  BY <1>1, <1>2, <1>8, <1>9, ServingStep DEF H

(* The texts that grow while a template is rendered. *)
LEMMA OutputKeeps ==
  ASSUME RequestInv,
         Grow("scan buffer", "output") \/ Grow("scan file", "body") \/ Grow("respond", "output")
  PROVE  RequestInv'
<1>1. /\ Both("output") \subseteq HeldAt("scan buffer") /\ Both("output") \subseteq HeldAt("respond")
      /\ Both("body") \subseteq HeldAt("scan file")
  BY TemplateHeld
<1>2. /\ "scan buffer" \in Serving /\ "scan file" \in Serving /\ "respond" \in Serving
      /\ "output" \in Strings /\ "body" \in Strings
  BY TemplateNames
<1> QED
  BY <1>1, <1>2, GrowTextStep

-----------------------------------------------------------------------------
(* The end of a request: the cache is cleared first, then the handle is freed. *)
LEMMA ClearCacheKeeps == RequestInv /\ ClearCache => RequestInv'
<1> SUFFICES ASSUME RequestInv, ClearCache PROVE RequestInv'
  OBVIOUS
<1> DEFINE c == memory_cache_clear(mem)
<1>1. Owned(mem, "cache", HeldAt("clear"), FreedByApp)
  BY ServingNames, ServingOwned DEF ClearCache, Step
<1>2. Good(c)
  BY <1>1, CacheClearGood DEF Owned
<1>3. /\ c.cache = mem.cache /\ c.fault = mem.fault
      /\ c.block = [s \in Slot |-> IF mem.block[s].place \in Arena
                                   THEN [mem.block[s] EXCEPT !.place = "stale"] ELSE mem.block[s]]
  BY <1>1 DEF Owned, Good, Memory, memory_cache_clear
<1> HIDE DEF c
<1>4. \A s \in Slot :
        IF mem.block[s].place \in Arena
        THEN /\ c.block[s].place = "stale"
             /\ c.block[s].off = mem.block[s].off /\ c.block[s].size = mem.block[s].size
        ELSE c.block[s] = mem.block[s]
  <2> SUFFICES ASSUME NEW s \in Slot
               PROVE  IF mem.block[s].place \in Arena
                      THEN /\ c.block[s].place = "stale"
                           /\ c.block[s].off = mem.block[s].off /\ c.block[s].size = mem.block[s].size
                      ELSE c.block[s] = mem.block[s]
    OBVIOUS
  <2>1. mem.block[s] \in Block
    BY <1>1 DEF Owned, Good, Memory
  <2> QED
    BY <1>3, <2>1 DEF Block
<1>5. ArenaApart(c)
  BY <1>1, <1>4 DEF Owned, ArenaApart, Arena, Apart
<1>6. Owned(c, "stale", HeldAt("clear"), FreedByApp)
  BY <1>1, <1>2, <1>3, <1>4, <1>5, SlotFacts DEF Owned, Arena
<1>7. mem' = c /\ pc' \in {"free", "aborted"}
  BY DEF ClearCache, Step, c
<1>8. Owned(mem, "stale", HeldAt("clear"), FreedByApp)'
  <2>1. Owned(mem', "stale", HeldAt("clear"), FreedByApp)
    BY <1>6, <1>7
  <2> QED
    BY <2>1 DEF Owned, ArenaApart, Good
<1> QED
  BY <1>7, <1>8, ServingNames DEF RequestInv, PcValues, Owned

LEMMA FreeRequestKeeps == RequestInv /\ FreeRequest => RequestInv'
<1> SUFFICES ASSUME RequestInv, FreeRequest PROVE RequestInv'
  OBVIOUS
<1> DEFINE U == {Struct("url")}
           Q == Whole("request")
           P == Whole("response")
           H == HeldAt("clear")
           F == FreedByApp
           m1 == FreeUrl(mem)
           m2 == dino_string_delete(m1, "rsp")
           m3 == dino_strmap_delete(m2, "request")
           m4 == dino_strmap_delete(m3, "response")
<1>1. free_request(mem) = m4
  BY DEF free_request
<1>2. Owned(mem, "stale", H, F)
  BY DEF FreeRequest, RequestInv, Step
<1>3. /\ Struct("url") \in RequestSlot /\ Q \in SUBSET RequestSlot /\ P \in SUBSET RequestSlot
      /\ "rsp" \in Strings /\ "stale" \in Arena
  BY StringSlots, MapSlots DEF Strings, Maps, Arena
<1>4. /\ U \cap F = {} /\ Both("rsp") \cap (F \cup U) = {}
      /\ Q \cap (F \cup U) = {} /\ P \cap ((F \cup U) \cup Q) = {}
  <2>1. /\ {"url", "rsp", "output"} \subseteq Strings /\ {"request", "response"} \subseteq Maps
        /\ Struct("url") \in Both("url") /\ Text("output") \in Both("output")
    BY StringSlots DEF Strings, Maps
  <2>2. F \subseteq {Text("output")}
    BY ServingNames
  <2>3. Both("url") \cap Both("output") = {} /\ Both("rsp") \cap Both("output") = {}
        /\ Both("rsp") \cap Both("url") = {}
    BY <2>1, SlotsApart
  <2>4. \A map \in {"request", "response"} :
          Whole(map) \cap Both("url") = {} /\ Whole(map) \cap Both("output") = {}
    BY <2>1, SlotsApart
  <2> HIDE DEF F
  <2> QED
    BY <2>1, <2>2, <2>3, <2>4, SlotsApart
<1>5. ((((H \ U) \ Both("rsp")) \ Q) \ P) \subseteq Abandoned
  <2>1. Both("url") = {Struct("url"), Text("url")} /\ Both("input") = {Struct("input"), Text("input")}
    BY DEF Both
  <2> QED
    BY <2>1 DEF HeldAt, Only, InHandler, InTemplate, Abandoned
<1>6. ((F \cup U) \cup Q) \cup P = F \cup FreedAtEnd
  BY DEF FreedAtEnd
<1> HIDE DEF H, F, Q, P
<1>7. Owned(m1, "stale", H \ U, F \cup U)
  BY <1>2, <1>3, <1>4, FreeOwned DEF FreeUrl
<1> HIDE DEF m1, U
<1>8. Owned(m2, "stale", (H \ U) \ Both("rsp"), F \cup U)
  BY <1>3, <1>4, <1>7, StringDeleteOwned
<1> HIDE DEF m2
<1>9. Owned(m3, "stale", ((H \ U) \ Both("rsp")) \ Q, (F \cup U) \cup Q)
  BY <1>3, <1>4, <1>8, FreeAllOwned DEF dino_strmap_delete, Q
<1> HIDE DEF m3
<1>10. Owned(m4, "stale", (((H \ U) \ Both("rsp")) \ Q) \ P, ((F \cup U) \cup Q) \cup P)
  BY <1>3, <1>4, <1>9, FreeAllOwned DEF dino_strmap_delete, P
<1> HIDE DEF m4
<1>11. Owned(m4, "stale", Abandoned, F \cup FreedAtEnd)
  <2>1. Owned(m4, "stale", (((H \ U) \ Both("rsp")) \ Q) \ P, F \cup FreedAtEnd)
    BY <1>6, <1>10
  <2> QED
    BY <1>5, <2>1, OwnedHolds
<1>12. mem' = m4 /\ pc' \in {"accept", "aborted"}
  BY <1>1 DEF FreeRequest, Step
<1>13. Owned(mem, "stale", Abandoned, FreedByApp \cup FreedAtEnd)'
  <2>1. Owned(mem', "stale", Abandoned, FreedByApp \cup FreedAtEnd)
    BY <1>11, <1>12 DEF F
  <2> QED
    BY <2>1 DEF Owned, ArenaApart, Good
<1> QED
  BY <1>12, <1>13, ServingNames DEF RequestInv, PcValues, Owned

LEMMA RequestInvStep == RequestInv /\ [MemNext]_memvars => RequestInv'
<1> SUFFICES ASSUME RequestInv, [MemNext]_memvars PROVE RequestInv'
  OBVIOUS
<1>1. CASE UNCHANGED memvars
  <2>1. mem' = mem /\ pc' = pc
    BY <1>1 DEF memvars
  <2> QED
    BY <2>1 DEF RequestInv, NoRequestYet
<1>2. CASE Configure \/ dino_http_start \/ init_request
  BY <1>2, ConfigureKeeps, StartKeeps, InitRequestKeeps
<1>3. CASE \/ ReadRequestLine \/ Grow("read line", "line") \/ BadRequest
           \/ StartUrl \/ Grow("read url", "url")
           \/ StartQuery \/ Grow("read query", "query") \/ AddParameter("read query", "request")
           \/ EndQuery \/ EndUrl
  BY <1>3, RequestLineKeeps
<1>4. CASE \/ ReadHeader \/ Grow("read headers", "header") \/ AddParameter("read headers", "request")
           \/ EndHeaders
  BY <1>4, HeadersKeep
<1>5. CASE StackUrl \/ stack_ptr_push \/ NoRoute \/ Return
  BY <1>5, StackUrlKeeps, PushKeeps, StackFreeStep DEF NoRoute, Return
<1>6. CASE BindUrl \/ CallHandler
  <2>1. {"pieces", "bind", "handler"} \subseteq Serving
        /\ FreedAt("pieces") = FreedAt("bind") /\ FreedAt("bind") = FreedAt("handler")
        /\ HeldAt("pieces") \subseteq HeldAt("bind") /\ HeldAt("bind") \subseteq HeldAt("handler")
    BY ServingNames, HeldFacts
  <2> QED
    BY <1>6, <2>1, SameMemoryStep DEF BindUrl, CallHandler
<1>7. CASE AddParameter("bind", "request") \/ AddParameter("handler", "response") \/ response_send
  <2>1. {"bind", "handler"} \subseteq Serving /\ {"request", "response"} \subseteq Maps \ {"symbols"}
    BY ServingNames DEF Maps
  <2> QED
    BY <1>7, <2>1, AddStep, SendKeeps
<1>8. CASE \/ template_generate_buffer \/ Tag("scan buffer") \/ Grow("scan buffer", "output")
           \/ EndScan("scan buffer", "rendered")
           \/ template_process_file \/ Tag("scan file") \/ Grow("scan file", "body")
           \/ EndScan("scan file", "respond") \/ Grow("respond", "output") \/ RespondWithFile
           \/ GiveOutput
  BY <1>8, BufferKeeps, FileKeeps, TagKeeps, EndScanKeeps, OutputKeeps, RespondKeeps, GiveKeeps
<1>9. CASE ClearCache \/ FreeRequest
  BY <1>9, ClearCacheKeeps, FreeRequestKeeps
<1> QED
  BY <1>1, <1>2, <1>3, <1>4, <1>5, <1>6, <1>7, <1>8, <1>9 DEF MemNext

-----------------------------------------------------------------------------
(* The invariant holds of every run, wherever the arena runs out.  The code   *)
(* meant is dino_process_request with all it calls, and the start of           *)
(* dino_http_start.                                                            *)
THEOREM RequestInvHolds == MemSpec => []RequestInv
  BY RequestInvInit, RequestInvStep, PTL DEF MemSpec

(* Type correctness of the server's memory over any number of requests. *)
THEOREM MemTypeCorrect == MemSpec => []MemTypeOK
<1>1. RequestInv => MemTypeOK
  BY DEF RequestInv, MemTypeOK, Good
<1> QED
  BY <1>1, RequestInvHolds, PTL

(* No two blocks a request still points to overlap, those that free_request   *)
(* reads after memory_cache_clear included.                                    *)
THEOREM BlocksOfRequestsApart == MemSpec => []ReferencedBlocksApart
<1>1. RequestInv => ReferencedBlocksApart
  BY DEF RequestInv, ArenaApart, ReferencedBlocksApart
<1> QED
  BY <1>1, RequestInvHolds, PTL

(* While a request is read, handled and answered, no pointer in hand leads to *)
(* the arena as it was before the last memory_cache_clear.                     *)
THEOREM NothingStaleInUse == MemSpec => []StaleForgotten
<1>1. RequestInv => StaleForgotten
  <2> SUFFICES ASSUME RequestInv, NEW s \in Slot, mem.block[s].place = "stale"
               PROVE  pc \in {"free", "accept", "aborted"}
    BY DEF StaleForgotten
  <2>1. pc # "config"
    BY DEF RequestInv, InitMemory, NoBlock
  <2>2. pc # "start" /\ pc # "stopped"
    BY SlotFacts DEF RequestInv, NoRequestYet
  <2>3. pc \notin Serving
    BY SlotFacts DEF RequestInv, Owned
  <2> QED
    BY <2>1, <2>2, <2>3, ServingNames DEF RequestInv, PcValues
<1> QED
  BY <1>1, RequestInvHolds, PTL

(* The site and its routes are never in the arena: memory_cache_clear at the  *)
(* end of a request cannot take them away.                                     *)
THEOREM SiteIsNeverInArena == MemSpec => []SiteOutlivesRequests
<1>1. RequestInv => SiteOutlivesRequests
  BY ServingNames DEF RequestInv, SiteOutlivesRequests, NoRequestYet, Owned, PcValues
<1> QED
  BY <1>1, RequestInvHolds, PTL

(* What a request leaves on the heap is at most the text of the URL, the body *)
(* and what a template call leaves: free_request and the ends of the calls      *)
(* give back all the rest, whichever of the blocks of a map, a string or a      *)
(* template did not fit the arena.                                             *)
THEOREM RequestsLeakOnlyKnown == MemSpec => []LeaksOnlyKnown
<1>1. RequestInv => LeaksOnlyKnown
  BY SlotFacts DEF RequestInv, LeaksOnlyKnown, Owned, Abandoned
<1> QED
  BY <1>1, RequestInvHolds, PTL

(* Unless handlers free the output of a template, nothing is freed twice and  *)
(* libc's free never gets memory of the arena, nor is a block of an earlier     *)
(* request grown: what ends the process is at most a realloc that no longer     *)
(* fits.                                                                       *)
THEOREM NothingIsFreedTwice == ~ AppFreesOutput => (MemSpec => []NothingFreedTwice)
<1> SUFFICES ASSUME ~ AppFreesOutput PROVE MemSpec => []NothingFreedTwice
  OBVIOUS
<1>1. RequestInv => NothingFreedTwice
  BY DEF RequestInv, NothingFreedTwice, Fatal
<1> QED
  BY <1>1, RequestInvHolds, PTL
=============================================================================
