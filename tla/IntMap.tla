------------------------------- MODULE IntMap -------------------------------
(* The integer map of dino_intmap.c: buckets of pairs, as operators from map *)
(* to map.  What allocations that fail leave behind is checked of its twin,    *)
(* module StrMap; here they only tell whether the pair was stored.             *)
EXTENDS Integers, Sequences

CONSTANTS
    Capacity,   \* the buckets of the map
    Hash(_)     \* intmap_hash(key) % map->count

intmap_new == [b \in 0..(Capacity - 1) |-> <<>>]

WrongLooksAtFirstPair(bucket, key) ==
    IF bucket # <<>> /\ bucket[1].key = key THEN 1 ELSE 0

(* The place of the first pair with the key; 0 is NULL. *)
intmap_get_pair(bucket, key) ==
    LET hits == {j \in DOMAIN bucket : bucket[j].key = key}
    IN  IF hits = {} THEN 0 ELSE CHOOSE j \in hits : \A i \in hits : j <= i

intmap_exists(map, key) == intmap_get_pair(map[Hash(key)], key) # 0

(* 0 stands for a key that is not there, too. *)
intmap_get_value(map, key) ==
    IF intmap_exists(map, key)
    THEN map[Hash(key)][intmap_get_pair(map[Hash(key)], key)].value
    ELSE 0

(* A key that is there takes the new value in its pair; a new one is put at  *)
(* the end of its bucket if there is memory for it.                            *)
intmap_put(map, key, value, room) ==
    IF intmap_exists(map, key)
    THEN [map EXCEPT ![Hash(key)][intmap_get_pair(map[Hash(key)], key)].value = value]
    ELSE IF room THEN [map EXCEPT ![Hash(key)] = Append(@, [key |-> key, value |-> value])]
    ELSE map

(* The pairs in the order intmap_enum hands them to its callback. *)
intmap_enum(map) ==
    LET From[b \in 0..Capacity] == IF b = Capacity THEN <<>> ELSE map[b] \o From[b + 1]
    IN  From[0]

intmap_get_count(map) == Len(intmap_enum(map))
=============================================================================
