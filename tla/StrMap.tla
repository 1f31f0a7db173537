------------------------------- MODULE StrMap -------------------------------
(* The string map of dino_strmap.c: an array of buckets, each a list of      *)
(* pairs, with the allocations it makes and gives back.  A value is the       *)
(* sequence of the texts joined in it (by ", "); its length is their number,  *)
(* every text counting as one.                                                *)
EXTENDS Integers, Sequences, FiniteSets

CONSTANTS
    Key, Text, Blank, Trim,     \* see Params
    Capacity,   \* the buckets of the map (32 in dino_http.c)
    Hash,       \* hash(key) % map->count
    MaxJoined   \* bound: the texts joined in one value

Bucket == 0..(Capacity - 1)

ASSUME TextAssumption == Blank \subseteq Text /\ Trim \in [Text -> Text \ Blank]
ASSUME HashAssumption == Capacity \in Nat \ {0} /\ Hash \in [Key -> Bucket]
ASSUME MaxJoinedAssumption == MaxJoined \in Nat \ {0}

VARIABLES
    buckets,    \* map->buckets: per bucket its pairs
    deleted,    \* dino_strmap_delete has run
    live,       \* the blocks of the allocator that are in use
    answer      \* what the latest call returned

vars == <<buckets, deleted, live, answer>>

Pair == [key : Key, value : Seq(Text)]

(* dino_strmap_new: the map and its array of buckets. *)
Init ==
    /\ buckets = [i \in Bucket |-> <<>>]
    /\ deleted = FALSE
    /\ live = 2
    /\ answer = [op |-> "none"]

WrongLooksAtFirstPair(bucket, k) == IF bucket # <<>> /\ bucket[1].key = k THEN 1 ELSE 0

(* The place of the first pair with the key; 0 is NULL. *)
get_pair(bucket, k) ==
    LET hits == {j \in DOMAIN bucket : bucket[j].key = k}
    IN  IF hits = {} THEN 0 ELSE CHOOSE j \in hits : \A i \in hits : j <= i

Found(k) == get_pair(buckets[Hash[k]], k) # 0

ValueOf(k) ==
    LET j == get_pair(buckets[Hash[k]], k)
    IN  IF j = 0 THEN <<>> ELSE buckets[Hash[k]][j].value

-----------------------------------------------------------------------------
(* dino_strmap_put, when only the first `room` allocations it asks for can   *)
(* be made.                                                                   *)

(* A key that is there keeps its pair; a longer value needs a new block,     *)
(* which takes the place of the old one.                                      *)
ReplaceValue(op, k, value, room) ==
    /\ Found(k)
    /\ IF Len(ValueOf(k)) < Len(value) /\ room = 0
       THEN answer' = [op |-> op, ok |-> FALSE] /\ UNCHANGED buckets
       ELSE /\ buckets' = [buckets EXCEPT ![Hash[k]][get_pair(buckets[Hash[k]], k)].value = value]
            /\ answer' = [op |-> op, ok |-> TRUE]
    /\ UNCHANGED live

WrongForgetsKey(room) == IF room = 1 THEN 0 ELSE room

(* What the error paths free of the blocks allocated so far. *)
Released(room) == room

(* A new key: a block for it, one for its value, and room for the pair (a    *)
(* block of its own only when the bucket was empty).                          *)
AddPair(op, k, value, room) ==
    /\ ~ Found(k)
    /\ IF room < 3
       THEN /\ answer' = [op |-> op, ok |-> FALSE]
            /\ live' = live + room - Released(room)
            /\ UNCHANGED buckets
       ELSE /\ answer' = [op |-> op, ok |-> TRUE]
            /\ buckets' = [buckets EXCEPT ![Hash[k]] = Append(@, [key |-> k, value |-> value])]
            /\ live' = live + (IF buckets[Hash[k]] = <<>> THEN 3 ELSE 2)

put(op, k, value, room) == ReplaceValue(op, k, value, room) \/ AddPair(op, k, value, room)

-----------------------------------------------------------------------------
dino_strmap_put(k, v, room) ==
    /\ ~ deleted
    /\ put("put", k, <<v>>, room)
    /\ UNCHANGED deleted

WrongKeepsLastOnly(value, v) == <<v>>

(* asprintf("%s, %s"), of the trimmed value. *)
Joined(value, v) == Append(value, Trim[v])

(* asprintf may find no memory either (room = 0, nothing put). *)
dino_strmap_add(k, v, room) ==
    /\ ~ deleted
    /\ Len(ValueOf(k)) < MaxJoined
    /\ IF v \in Blank
       THEN answer' = [op |-> "add", ok |-> TRUE] /\ UNCHANGED <<buckets, live>>
       ELSE put("add", k, IF Found(k) THEN Joined(ValueOf(k), v) ELSE <<v>>, room)
    /\ UNCHANGED deleted

dino_strmap_get_value(k) ==
    /\ ~ deleted
    /\ answer' = [op |-> "get", value |-> ValueOf(k)]
    /\ UNCHANGED <<buckets, deleted, live>>

(* A buffer too short for the value and its terminator is left alone; asked  *)
(* without a buffer (~ given, n = 0) it tells how long that would be.           *)
dino_strmap_get(k, given, n) ==
    /\ ~ deleted
    /\ LET value == ValueOf(k)
           Answer(ok, copy) == [op |-> "copy", given |-> given, n |-> n, ok |-> ok, value |-> copy]
       IN  answer' = IF ~ Found(k) THEN Answer(0, <<>>)
                     ELSE IF ~ given /\ n = 0 THEN Answer(Len(value) + 1, <<>>)
                     ELSE IF ~ given \/ Len(value) >= n THEN Answer(0, <<>>)
                     ELSE Answer(1, value)
    /\ UNCHANGED <<buckets, deleted, live>>

(* The pairs of the buckets from the n-th on, in the order both loops go. *)
WalkFrom[n \in 0..Capacity] ==
    IF n = Capacity THEN <<>> ELSE buckets[n] \o WalkFrom[n + 1]

dino_strmap_get_count ==
    /\ ~ deleted
    /\ answer' = [op |-> "count", n |-> Len(WalkFrom[0])]
    /\ UNCHANGED <<buckets, deleted, live>>

(* The callback returns false for one key, and the walk stops there. *)
dino_strmap_enum(stops) ==
    /\ ~ deleted
    /\ LET walk == WalkFrom[0]
           hits == {i \in DOMAIN walk : walk[i].key = stops}
       IN  answer' = [op |-> "enum",
                      calls |-> IF hits = {} THEN walk
                                ELSE SubSeq(walk, 1, CHOOSE i \in hits : \A h \in hits : i <= h)]
    /\ UNCHANGED <<buckets, deleted, live>>

WrongFreesEmptyBuckets(b) == 2 * Len(buckets[b]) + 1

(* The loops of dino_strmap_delete: the blocks they free. *)
BlocksOf(b) == IF buckets[b] = <<>> THEN 0 ELSE 2 * Len(buckets[b]) + 1

FreedFrom[n \in 0..Capacity] == IF n = Capacity THEN 2 ELSE BlocksOf(n) + FreedFrom[n + 1]

dino_strmap_delete ==
    /\ ~ deleted
    /\ deleted' = TRUE
    /\ live' = live - FreedFrom[0]
    /\ UNCHANGED <<buckets, answer>>

Next ==
    \/ \E k \in Key, v \in Text, room \in 0..3 : dino_strmap_add(k, v, room) \/ dino_strmap_put(k, v, room)
    \/ \E k \in Key : dino_strmap_get_value(k) \/ dino_strmap_enum(k)
    \/ \E k \in Key, given \in BOOLEAN, n \in 0..(MaxJoined + 1) : dino_strmap_get(k, given, n)
    \/ dino_strmap_get_count
    \/ dino_strmap_delete

Spec == Init /\ [][Next]_vars

-----------------------------------------------------------------------------
(* The type invariant: never more blocks freed than taken. *)
TypeOK ==
    /\ buckets \in [Bucket -> Seq([key : Key, value : Seq(Text) \ {<<>>}])]
    /\ deleted \in BOOLEAN
    /\ live \in Nat

(* A key is stored once, in the bucket it hashes to, whatever allocations    *)
(* failed on the way: the count and the enumeration rely on it.               *)
KeysStoredOnce ==
    \A b \in Bucket : \A i, j \in DOMAIN buckets[b] :
        /\ Hash[buckets[b][i].key] = b
        /\ buckets[b][i].key = buckets[b][j].key => i = j

(* Whatever allocations failed, deleting the map gives back every block it    *)
(* has taken: no error path of dino_strmap_put leaks or frees too much.       *)
NothingLeftAfterDelete == deleted => live = 0

(* The map is what Params promises. *)
P == INSTANCE Params WITH content <- [k \in Key |-> ValueOf(k)]

ImplementsParams == P!ParamsSpec

(* "if there is more than one, you will only get the first on that was       *)
(* found" (PARAMS in the README).                                             *)
FirstValueOnly == answer.op = "get" => Len(answer.value) <= 1
=============================================================================
